------------------------------ MODULE EventStore ------------------------------
(***************************************************************************)
(* The Postgres event store of the control plane (event_store.rs): every    *)
(* handler that reports something writes run_events inside its own          *)
(* transaction, takes the next seq of the conversation from the row of      *)
(* conversation_event_sequences (whose row lock it keeps until it commits), *)
(* draws a stream_offset from the identity sequence of the table (which is  *)
(* not transactional) and adds an outbox row.  EventOutbox adds publication *)
(* to Redis, ConversationStream and GlobalStream the subscribers.           *)
(*                                                                         *)
(* Granularity: one action per SQL statement that another transaction can   *)
(* interleave with.  The sequence upsert and the INSERTs that follow it are *)
(* one action: the row lock is held between them and nothing they read can  *)
(* change.  Isolation is READ COMMITTED: a statement sees the committed     *)
(* rows and its own transaction's rows.                                     *)
(*                                                                         *)
(* Left out: payloads, trace ids and tenants (a conversation belongs to one *)
(* tenant).                                                                 *)
(***************************************************************************)
EXTENDS Integers, Sequences, FiniteSets

CONSTANTS
  Conversation,  \* conversations whose events are stored
  EventId,       \* values of RunEventInput.event_id
  Txn,           \* concurrent handler calls (tasks of the axum server)
  NoTxn,         \* nobody holds the row lock
  Batches,       \* the event id sequences a handler writes in one transaction
  MaxOffset,     \* bound: values drawn from run_events_stream_offset_seq
  MaxCrashes     \* bound: crashes of the server process

ASSUME EventStoreAssumption ==
  /\ NoTxn \notin Txn
  /\ Txn # {}
  /\ Batches \subseteq Seq(EventId)
  /\ MaxOffset \in Nat
  /\ MaxCrashes \in Nat

VARIABLES
  runEvents,     \* committed rows of run_events
  pending,       \* committed rows of event_outbox with status pending
  nextSeq,       \* committed conversation_event_sequences.next_seq
  seqLock,       \* holder of the row lock on conversation_event_sequences
  lastOffset,    \* last value of the identity sequence, committed or not
  pc,            \* the statement each handler call is at
  conv,          \* the conversation it writes to
  todo,          \* event ids it still has to insert
  heldSeq,       \* next_seq as written, uncommitted, by the lock holder
  draft,         \* its uncommitted rows of run_events
  draftOutbox,   \* its uncommitted rows of event_outbox
  crashes

txnVars == <<pc, conv, todo, heldSeq, draft, draftOutbox>>
storeVars == <<runEvents, pending, nextSeq, seqLock, lastOffset, txnVars, crashes>>

Row == [conv : Conversation, seq : Nat, id : EventId, offset : Nat]

StoreInit ==
  /\ runEvents = {}
  /\ pending = {}
  /\ nextSeq = [c \in Conversation |-> 1]
  /\ seqLock = [c \in Conversation |-> NoTxn]
  /\ lastOffset = 0
  /\ pc = [t \in Txn |-> "idle"]
  /\ conv \in [Txn -> Conversation]
  /\ todo = [t \in Txn |-> <<>>]
  /\ heldSeq = [t \in Txn |-> 1]
  /\ draft = [t \in Txn |-> {}]
  /\ draftOutbox = [t \in Txn |-> {}]
  /\ crashes = 0

-------------------------------------------------------------------------------
(* insert_event_tx, statement by statement.                                  *)

\* A handler opens its transaction; it will insert the events of one batch.
Begin(t, c, b) ==
  /\ pc[t] = "idle"
  /\ pc' = [pc EXCEPT ![t] = "find"]
  /\ conv' = [conv EXCEPT ![t] = c]
  /\ todo' = [todo EXCEPT ![t] = b]
  /\ UNCHANGED <<runEvents, pending, nextSeq, seqLock, lastOffset, heldSeq, draft,
                 draftOutbox, crashes>>

\* The rows a statement of t finds under the event id it is about to insert.
StoredAs(t) ==
  {r \in runEvents \cup draft[t] : r.conv = conv[t] /\ r.id = Head(todo[t])}

\* find_existing_event_tx: an event id already stored is answered with its row.
FindExisting(t) ==
  /\ pc[t] = "find"
  /\ todo[t] # <<>>
  /\ IF StoredAs(t) # {}
     THEN todo' = [todo EXCEPT ![t] = Tail(@)] /\ UNCHANGED pc
     ELSE pc' = [pc EXCEPT ![t] = "append"] /\ UNCHANGED todo
  /\ UNCHANGED <<runEvents, pending, nextSeq, seqLock, lastOffset, conv, heldSeq,
                 draft, draftOutbox, crashes>>

\* The row locks a transaction gives back when it ends.
Unlock(t) == [c \in Conversation |-> IF seqLock[c] = t THEN NoTxn ELSE seqLock[c]]

\* ROLLBACK: uncommitted rows and the new next_seq vanish and the row lock is
\* released; the offsets it drew are not given back.
Abort(t) ==
  /\ pc' = [pc EXCEPT ![t] = "idle"]
  /\ todo' = [todo EXCEPT ![t] = <<>>]
  /\ draft' = [draft EXCEPT ![t] = {}]
  /\ draftOutbox' = [draftOutbox EXCEPT ![t] = {}]
  /\ seqLock' = Unlock(t)

\* Mutation of SeqRowFree: next_seq is read without locking its row.
SeqRowNotLocked(t) == conv[t] \in Conversation

\* A sequence row that another transaction has updated blocks the upsert.
SeqRowFree(t) == seqLock[conv[t]] \in {NoTxn, t}

\* The value next_event_seq returns to t.
SeqFor(t) == IF seqLock[conv[t]] = t THEN heldSeq[t] ELSE nextSeq[conv[t]]

\* Mutation of IdTaken: there is no unique index on event_id.
IdNeverTaken(t) == todo[t] = <<>>

\* idx_run_events_event_id_idempotent, against rows committed meanwhile.
IdTaken(t) == \E r \in runEvents : r.conv = conv[t] /\ r.id = Head(todo[t])

\* The row t inserts.
NewRow(t) == [conv |-> conv[t], seq |-> SeqFor(t), id |-> Head(todo[t]),
              offset |-> lastOffset + 1]

\* next_event_seq, then the INSERTs into run_events and event_outbox.  A
\* violated unique index fails the handler, which rolls back.
AppendEvent(t) ==
  /\ pc[t] = "append"
  /\ SeqRowFree(t)
  /\ lastOffset < MaxOffset
  /\ lastOffset' = lastOffset + 1
  /\ IF IdTaken(t)
     THEN Abort(t) /\ UNCHANGED heldSeq
     ELSE /\ seqLock' = [seqLock EXCEPT ![conv[t]] = t]
          /\ heldSeq' = [heldSeq EXCEPT ![t] = SeqFor(t) + 1]
          /\ draft' = [draft EXCEPT ![t] = @ \cup {NewRow(t)}]
          /\ draftOutbox' = [draftOutbox EXCEPT ![t] = @ \cup {NewRow(t)}]
          /\ todo' = [todo EXCEPT ![t] = Tail(@)]
          /\ pc' = [pc EXCEPT ![t] = "find"]
  /\ UNCHANGED <<runEvents, pending, nextSeq, conv, crashes>>

\* Any statement of the handler may fail, dropping the transaction.
Rollback(t) ==
  /\ pc[t] # "idle"
  /\ Abort(t)
  /\ UNCHANGED <<runEvents, pending, nextSeq, lastOffset, conv, heldSeq, crashes>>

\* COMMIT: rows, outbox rows and next_seq become visible at once.
Commit(t) ==
  /\ pc[t] = "find"
  /\ todo[t] = <<>>
  /\ pc' = [pc EXCEPT ![t] = "idle"]
  /\ runEvents' = runEvents \cup draft[t]
  /\ pending' = pending \cup draftOutbox[t]
  /\ nextSeq' = [c \in Conversation |->
                   IF seqLock[c] = t THEN heldSeq[t] ELSE nextSeq[c]]
  /\ seqLock' = Unlock(t)
  /\ draft' = [draft EXCEPT ![t] = {}]
  /\ draftOutbox' = [draftOutbox EXCEPT ![t] = {}]
  /\ UNCHANGED <<lastOffset, conv, todo, heldSeq, crashes>>

\* The server process dies: Postgres rolls the open transactions back.
Crash ==
  /\ crashes < MaxCrashes
  /\ crashes' = crashes + 1
  /\ pc' = [t \in Txn |-> "idle"]
  /\ todo' = [t \in Txn |-> <<>>]
  /\ draft' = [t \in Txn |-> {}]
  /\ draftOutbox' = [t \in Txn |-> {}]
  /\ seqLock' = [c \in Conversation |-> NoTxn]
  /\ UNCHANGED <<runEvents, pending, nextSeq, lastOffset, conv, heldSeq>>

-------------------------------------------------------------------------------
\* A step of a transaction that is open, or that opens.
TxnStep(t) ==
  \/ \E c \in Conversation, b \in Batches : Begin(t, c, b)
  \/ FindExisting(t)
  \/ AppendEvent(t)
  \/ Rollback(t)
  \/ Commit(t)

StoreNext ==
  \/ \E t \in Txn : TxnStep(t)
  \/ Crash

StoreSpec == StoreInit /\ [][StoreNext]_storeVars

-------------------------------------------------------------------------------
\* Type correctness.
StoreTypeOK ==
  /\ runEvents \subseteq Row
  /\ pending \subseteq Row
  /\ nextSeq \in [Conversation -> Nat]
  /\ seqLock \in [Conversation -> Txn \cup {NoTxn}]
  /\ lastOffset \in Nat
  /\ pc \in [Txn -> {"idle", "find", "append"}]
  /\ conv \in [Txn -> Conversation]
  /\ todo \in [Txn -> Seq(EventId)]
  /\ heldSeq \in [Txn -> Nat]
  /\ draft \in [Txn -> SUBSET Row]
  /\ draftOutbox \in [Txn -> SUBSET Row]
  /\ crashes \in Nat

\* The committed rows of conversation c.
EventsOf(c) == {r \in runEvents : r.conv = c}

\* The committed log of a conversation has no hole and no number twice, in
\* every state another session can read: rollbacks, failed inserts and
\* concurrent handlers never leave a seq that a reader's cursor passes over.
SeqContiguous ==
  \A c \in Conversation :
    /\ {r.seq : r \in EventsOf(c)} = 1 .. (nextSeq[c] - 1)
    /\ \A r1, r2 \in EventsOf(c) : r1.seq = r2.seq => r1 = r2

\* Ingesting an event id again, even from two handlers at the same time, never
\* stores it twice (find_existing_event_tx races; the unique index decides).
EventIdStoredOnce ==
  \A r1, r2 \in runEvents : r1.conv = r2.conv /\ r1.id = r2.id => r1 = r2

\* Inside a conversation the identity sequence numbers the rows in the order
\* of seq, because stream_offset is drawn under the row lock.
OffsetFollowsSeq ==
  \A r1, r2 \in runEvents :
    r1.conv = r2.conv /\ r1.seq < r2.seq => r1.offset < r2.offset

-------------------------------------------------------------------------------
(* What makes them inductive.                                                *)

\* The committed log runs from 1 to next_seq without a hole or a repetition.
CommittedInv ==
  /\ \A c \in Conversation : nextSeq[c] >= 1
  /\ \A r \in runEvents : 1 <= r.seq /\ r.seq < nextSeq[r.conv]
  /\ \A c \in Conversation : \A i \in 1 .. (nextSeq[c] - 1) :
       \E r \in runEvents : r.conv = c /\ r.seq = i
  /\ \A r1, r2 \in runEvents : r1.conv = r2.conv /\ r1.seq = r2.seq => r1 = r2

\* Only a transaction that is open holds a row lock, that of its conversation.
LockInv ==
  \A c \in Conversation, t \in Txn :
    seqLock[c] = t => conv[t] = c /\ pc[t] # "idle" /\ nextSeq[c] <= heldSeq[t]

\* The uncommitted rows of a transaction continue the committed log: it holds
\* the lock and its rows run from next_seq to the next_seq it wrote.
DraftInv ==
  \A t \in Txn :
    /\ \A r \in draft[t] : /\ r.conv = conv[t] /\ seqLock[conv[t]] = t
                          /\ nextSeq[conv[t]] <= r.seq /\ r.seq < heldSeq[t]
    /\ seqLock[conv[t]] = t =>
         \A i \in nextSeq[conv[t]] .. (heldSeq[t] - 1) : \E r \in draft[t] : r.seq = i
    /\ \A r1, r2 \in draft[t] : r1.seq = r2.seq => r1 = r2

\* The rows a statement of t sees.
Visible(t) == runEvents \cup draft[t]

\* Offsets are drawn in the order of seq, and none is above the sequence.
OffsetInv ==
  \A t \in Txn :
    /\ \A r \in Visible(t) : r.offset <= lastOffset
    /\ \A r1, r2 \in Visible(t) :
         r1.conv = r2.conv /\ r1.seq < r2.seq => r1.offset < r2.offset

\* No id twice among the rows t sees; what it is about to insert it has not
\* inserted itself.
IdInv ==
  \A t \in Txn :
    /\ \A r1, r2 \in Visible(t) : r1.conv = r2.conv /\ r1.id = r2.id => r1 = r2
    /\ pc[t] = "append" => /\ todo[t] # <<>>
                           /\ \A r \in draft[t] : r.id # Head(todo[t])

\* The outbox rows of a transaction are those of its events.
DraftOutboxInv == draftOutbox = draft

\* The inductive invariant of the store: no interleaving of statements, of
\* commits and of rollbacks leads a transaction away from continuing the log.
StoreInv ==
  /\ StoreTypeOK
  /\ CommittedInv
  /\ LockInv
  /\ DraftInv
  /\ OffsetInv
  /\ IdInv
  /\ DraftOutboxInv
===============================================================================
