-------------------------- MODULE EventStoreProofs --------------------------
(***************************************************************************)
(* The properties of EventStore for every set of conversations, handlers    *)
(* and event ids, and without a bound on the number of events or crashes    *)
(* (MaxOffset and MaxCrashes are any numbers).                              *)
(*                                                                         *)
(* One lemma per statement of a transaction shows that StoreInv is kept;    *)
(* the properties the runs check follow from it.                            *)
(***************************************************************************)
EXTENDS EventStore, TLAPS

USE EventStoreAssumption

LEMMA InitInv == StoreInit => StoreInv
<1> SUFFICES ASSUME StoreInit PROVE StoreInv
  OBVIOUS
<1> USE DEF StoreInit
<1>1. StoreTypeOK
  BY DEF StoreTypeOK, Row
<1>2. CommittedInv
  BY DEF CommittedInv
<1>3. LockInv
  BY DEF LockInv
<1>4. DraftInv
  BY DEF DraftInv
<1>5. OffsetInv
  BY DEF OffsetInv, Visible
<1>6. IdInv
  BY DEF IdInv, Visible
<1>7. DraftOutboxInv
  BY DEF DraftOutboxInv
<1> QED
  BY <1>1, <1>2, <1>3, <1>4, <1>5, <1>6, <1>7 DEF StoreInv

LEMMA BeginInv ==
  ASSUME StoreInv, NEW t \in Txn, NEW c \in Conversation, NEW b \in Batches, Begin(t, c, b)
  PROVE  StoreInv'
<1> USE DEF StoreInv, Begin
<1>1. StoreTypeOK'
  BY DEF StoreTypeOK
<1>2. CommittedInv'
  BY DEF CommittedInv
<1>3. LockInv'
  BY DEF LockInv, StoreTypeOK
<1>4. DraftInv'
  BY DEF DraftInv, LockInv, StoreTypeOK
<1>5. OffsetInv'
  BY DEF OffsetInv, Visible
<1>6. IdInv'
  BY DEF IdInv, Visible, StoreTypeOK
<1>7. DraftOutboxInv'
  BY DEF DraftOutboxInv
<1> QED
  BY <1>1, <1>2, <1>3, <1>4, <1>5, <1>6, <1>7

LEMMA FindExistingInv ==
  ASSUME StoreInv, NEW t \in Txn, FindExisting(t)
  PROVE  StoreInv'
<1> USE DEF StoreInv, FindExisting
<1>0. Tail(todo[t]) \in Seq(EventId)
  BY DEF StoreTypeOK
<1>1. StoreTypeOK'
  <2>1. pc \in [Txn -> {"idle", "find", "append"}] /\ todo \in [Txn -> Seq(EventId)]
    BY DEF StoreTypeOK
  <2>2. pc' \in [Txn -> {"idle", "find", "append"}]
    BY <2>1 DEF FindExisting
  <2>3. todo' \in [Txn -> Seq(EventId)]
    BY <1>0, <2>1 DEF FindExisting
  <2> QED
    BY <2>2, <2>3 DEF StoreTypeOK
<1>2. CommittedInv'
  BY DEF CommittedInv
<1>3. LockInv'
  BY DEF LockInv, StoreTypeOK
<1>4. DraftInv'
  BY DEF DraftInv
<1>5. OffsetInv'
  BY DEF OffsetInv, Visible
<1>6. IdInv'
  <2>1. \A u \in Txn : \A r1, r2 \in Visible(u)' :
          r1.conv = r2.conv /\ r1.id = r2.id => r1 = r2
    BY DEF IdInv, Visible
  <2>2. ASSUME NEW u \in Txn, pc'[u] = "append"
        PROVE  todo'[u] # <<>> /\ \A r \in draft'[u] : r.id # Head(todo'[u])
    <3>1. CASE u # t
      BY <2>2, <3>1 DEF IdInv, StoreTypeOK
    <3>2. CASE u = t
      <4>1. StoredAs(t) = {} /\ todo' = todo /\ draft' = draft
        BY <2>2, <3>2 DEF StoreTypeOK
      <4>2. \A r \in draft[t] : r.conv = conv[t]
        BY DEF DraftInv
      <4> QED
        BY <3>2, <4>1, <4>2 DEF StoredAs
    <3> QED
      BY <3>1, <3>2
  <2> QED
    BY <2>1, <2>2 DEF IdInv
<1>7. DraftOutboxInv'
  BY DEF DraftOutboxInv
<1> QED
  BY <1>1, <1>2, <1>3, <1>4, <1>5, <1>6, <1>7

LEMMA AbortInv ==
  ASSUME StoreInv, NEW t \in Txn, Abort(t), lastOffset' \in Nat, lastOffset' >= lastOffset,
         UNCHANGED <<runEvents, pending, nextSeq, conv, heldSeq, crashes>>
  PROVE  StoreInv'
<1> USE DEF StoreInv, Abort, Unlock
<1>1. StoreTypeOK'
  BY DEF StoreTypeOK
<1>2. CommittedInv'
  BY DEF CommittedInv
<1>3. LockInv'
  BY DEF LockInv, StoreTypeOK
<1>4. DraftInv'
  BY DEF DraftInv, StoreTypeOK
<1>5. OffsetInv'
  <2>1. \A u \in Txn : Visible(u)' \subseteq Visible(u)
    BY DEF Visible, StoreTypeOK
  <2>2. ASSUME NEW u \in Txn, NEW r \in Visible(u)
        PROVE  r.offset <= lastOffset'
    <3>1. r.offset \in Nat /\ lastOffset \in Nat
      BY DEF Visible, StoreTypeOK, Row
    <3>2. r.offset <= lastOffset
      BY DEF OffsetInv
    <3> QED
      BY <3>1, <3>2
  <2> QED
    BY <2>1, <2>2 DEF OffsetInv
<1>6. IdInv'
  BY DEF IdInv, Visible, StoreTypeOK
<1>7. DraftOutboxInv'
  BY DEF DraftOutboxInv
<1> QED
  BY <1>1, <1>2, <1>3, <1>4, <1>5, <1>6, <1>7

\* The row an append adds is a new one for everything its transaction sees.
LEMMA AppendedInv ==
  ASSUME StoreInv, NEW t \in Txn, AppendEvent(t), ~IdTaken(t)
  PROVE  StoreInv'
<1> USE DEF StoreInv
<1> DEFINE c == conv[t]
           row == NewRow(t)
<1>1. /\ pc[t] = "append" /\ SeqRowFree(t)
      /\ lastOffset' = lastOffset + 1
      /\ seqLock' = [seqLock EXCEPT ![c] = t]
      /\ heldSeq' = [heldSeq EXCEPT ![t] = SeqFor(t) + 1]
      /\ draft' = [draft EXCEPT ![t] = @ \cup {row}]
      /\ draftOutbox' = [draftOutbox EXCEPT ![t] = @ \cup {row}]
      /\ todo' = [todo EXCEPT ![t] = Tail(@)]
      /\ pc' = [pc EXCEPT ![t] = "find"]
      /\ UNCHANGED <<runEvents, pending, nextSeq, conv, crashes>>
  BY DEF AppendEvent
<1>2. /\ c \in Conversation /\ lastOffset \in Nat /\ SeqFor(t) \in Nat
      /\ todo[t] \in Seq(EventId) /\ todo[t] # <<>>
  BY <1>1 DEF StoreTypeOK, SeqFor, IdInv
<1>3. Head(todo[t]) \in EventId /\ Tail(todo[t]) \in Seq(EventId)
  BY <1>2
<1>4. row \in Row /\ row.conv = c /\ row.seq = SeqFor(t) /\ row.id = Head(todo[t])
      /\ row.offset = lastOffset + 1
  BY <1>2, <1>3 DEF Row, NewRow
<1>5. nextSeq[c] <= SeqFor(t) /\ nextSeq[c] >= 1 /\ nextSeq[c] \in Nat
  BY <1>2 DEF SeqFor, LockInv, CommittedInv, StoreTypeOK
<1>6. seqLock[c] # t => draft[t] = {}
  BY DEF DraftInv
<1>7. \A r \in draft[t] : r.conv = c /\ r.seq < SeqFor(t) /\ r.seq \in Nat /\ r.offset \in Nat
  BY <1>6 DEF DraftInv, SeqFor, StoreTypeOK, Row
<1>8. \A r \in runEvents : /\ r.seq \in Nat /\ r.offset \in Nat
                           /\ r.conv = c => r.seq < SeqFor(t)
  BY <1>2, <1>5 DEF CommittedInv, StoreTypeOK, Row
<1>9. \A u \in Txn : u # t => draft'[u] = draft[u] /\ heldSeq'[u] = heldSeq[u]
  BY <1>1 DEF StoreTypeOK
<1>10. draft'[t] = draft[t] \cup {row} /\ heldSeq'[t] = SeqFor(t) + 1
  BY <1>1 DEF StoreTypeOK
<1>11. StoreTypeOK'
  <2>1. draft' \in [Txn -> SUBSET Row] /\ draftOutbox' \in [Txn -> SUBSET Row]
    BY <1>1, <1>4 DEF StoreTypeOK
  <2>2. todo' \in [Txn -> Seq(EventId)]
    BY <1>1, <1>3 DEF StoreTypeOK
  <2>3. /\ seqLock' \in [Conversation -> Txn \cup {NoTxn}]
        /\ heldSeq' \in [Txn -> Nat]
        /\ pc' \in [Txn -> {"idle", "find", "append"}]
        /\ lastOffset' \in Nat
    BY <1>1, <1>2 DEF StoreTypeOK
  <2> QED
    BY <2>1, <2>2, <2>3, <1>1 DEF StoreTypeOK
<1>12. CommittedInv'
  BY <1>1 DEF CommittedInv
<1>13. LockInv'
  BY <1>1, <1>2, <1>5 DEF LockInv, StoreTypeOK, SeqRowFree
<1>14. DraftInv'
  <2>1. ASSUME NEW u \in Txn, u # t, NEW r \in draft'[u]
        PROVE  /\ r.conv = conv'[u] /\ seqLock'[conv'[u]] = u
               /\ nextSeq'[conv'[u]] <= r.seq /\ r.seq < heldSeq'[u]
    <3>1. r \in draft[u] /\ r.conv = conv[u] /\ seqLock[conv[u]] = u
      BY <1>9, <2>1 DEF DraftInv
    <3>2. conv[u] # c
      BY <1>1, <2>1, <3>1 DEF SeqRowFree
    <3> QED
      BY <1>1, <1>9, <2>1, <3>1, <3>2 DEF DraftInv, StoreTypeOK
  <2>2. ASSUME NEW u \in Txn, u # t, seqLock'[conv'[u]] = u
        PROVE  \A i \in nextSeq'[conv'[u]] .. (heldSeq'[u] - 1) : \E r \in draft'[u] : r.seq = i
    <3>1. conv[u] # c /\ seqLock[conv[u]] = u
      BY <1>1, <2>2 DEF StoreTypeOK
    <3> QED
      BY <1>1, <1>9, <2>2, <3>1 DEF DraftInv
  <2>3. \A u \in Txn : u # t => \A r1, r2 \in draft'[u] : r1.seq = r2.seq => r1 = r2
    BY <1>9 DEF DraftInv
  <2>4. \A r \in draft'[t] : /\ r.conv = conv'[t] /\ seqLock'[conv'[t]] = t
                             /\ nextSeq'[conv'[t]] <= r.seq /\ r.seq < heldSeq'[t]
    BY <1>1, <1>2, <1>4, <1>5, <1>7, <1>10 DEF DraftInv, StoreTypeOK
  <2>5. ASSUME NEW i \in nextSeq'[conv'[t]] .. (heldSeq'[t] - 1)
        PROVE  \E r \in draft'[t] : r.seq = i
    <3>1. CASE i = SeqFor(t)
      BY <1>4, <1>10, <3>1
    <3>2. CASE i # SeqFor(t)
      <4>1. i \in nextSeq[c] .. (SeqFor(t) - 1)
        BY <1>1, <1>2, <1>5, <1>10, <2>5, <3>2
      <4>2. seqLock[c] = t /\ SeqFor(t) = heldSeq[t]
        BY <1>5, <4>1 DEF SeqFor
      <4> QED
        BY <1>10, <4>1, <4>2 DEF DraftInv
    <3> QED
      BY <3>1, <3>2
  <2>6. \A r1, r2 \in draft'[t] : r1.seq = r2.seq => r1 = r2
    BY <1>2, <1>4, <1>7, <1>10 DEF DraftInv
  <2> QED
    BY <2>1, <2>2, <2>3, <2>4, <2>5, <2>6 DEF DraftInv
<1>15. OffsetInv'
  <2>1. \A u \in Txn : u # t => Visible(u)' = Visible(u)
    BY <1>1, <1>9 DEF Visible
  <2>2. Visible(t)' = Visible(t) \cup {row}
    BY <1>1, <1>10 DEF Visible
  <2>3. \A u \in Txn : \A r \in Visible(u) : r.offset \in Nat /\ r.seq \in Nat
    BY DEF Visible, StoreTypeOK, Row
  <2>4. \A r \in Visible(t) : r.conv = c => r.seq < SeqFor(t)
    BY <1>7, <1>8 DEF Visible
  <2>5. ASSUME NEW u \in Txn, u # t
        PROVE  /\ \A r \in Visible(u)' : r.offset <= lastOffset'
               /\ \A r1, r2 \in Visible(u)' :
                    r1.conv = r2.conv /\ r1.seq < r2.seq => r1.offset < r2.offset
    BY <1>1, <1>2, <2>1, <2>3, <2>5 DEF OffsetInv
  <2>6. \A r \in Visible(t)' : r.offset <= lastOffset'
    BY <1>1, <1>2, <1>4, <2>2, <2>3 DEF OffsetInv
  <2>7. ASSUME NEW r1 \in Visible(t)', NEW r2 \in Visible(t)', r1.conv = r2.conv, r1.seq < r2.seq
        PROVE  r1.offset < r2.offset
    <3>1. CASE r2 = row
      BY <1>2, <1>4, <2>2, <2>3, <2>4, <2>7, <3>1 DEF OffsetInv
    <3>2. CASE r2 # row /\ r1 = row
      BY <1>2, <1>4, <2>2, <2>3, <2>4, <2>7, <3>2
    <3>3. CASE r2 # row /\ r1 # row
      BY <2>2, <2>7, <3>3 DEF OffsetInv
    <3> QED
      BY <3>1, <3>2, <3>3
  <2> QED
    BY <2>5, <2>6, <2>7 DEF OffsetInv
<1>16. IdInv'
  <2>1. \A r \in Visible(t) : ~(r.conv = c /\ r.id = Head(todo[t]))
    BY <1>1 DEF IdInv, IdTaken, Visible
  <2>2. Visible(t)' = Visible(t) \cup {row}
    BY <1>1, <1>10 DEF Visible
  <2>3. \A u \in Txn : u # t => Visible(u)' = Visible(u)
    BY <1>1, <1>9 DEF Visible
  <2>4. \A u \in Txn : \A r1, r2 \in Visible(u)' :
          r1.conv = r2.conv /\ r1.id = r2.id => r1 = r2
    BY <1>4, <2>1, <2>2, <2>3 DEF IdInv
  <2>5. \A u \in Txn : pc'[u] = "append" => u # t /\ pc[u] = "append" /\ todo'[u] = todo[u]
    BY <1>1 DEF StoreTypeOK
  <2> QED
    BY <1>9, <2>4, <2>5 DEF IdInv
<1>17. DraftOutboxInv'
  BY <1>1 DEF DraftOutboxInv
<1> QED
  BY <1>11, <1>12, <1>13, <1>14, <1>15, <1>16, <1>17

LEMMA AppendInv ==
  ASSUME StoreInv, NEW t \in Txn, AppendEvent(t)
  PROVE  StoreInv'
<1>1. CASE ~IdTaken(t)
  BY <1>1, AppendedInv
<1>2. CASE IdTaken(t)
  <2>1. lastOffset' \in Nat /\ lastOffset' >= lastOffset
    BY DEF AppendEvent, StoreInv, StoreTypeOK
  <2>2. Abort(t) /\ UNCHANGED <<runEvents, pending, nextSeq, conv, heldSeq, crashes>>
    BY <1>2 DEF AppendEvent
  <2> QED
    BY <2>1, <2>2, AbortInv
<1> QED
  BY <1>1, <1>2

LEMMA RollbackInv ==
  ASSUME StoreInv, NEW t \in Txn, Rollback(t)
  PROVE  StoreInv'
<1>1. lastOffset' \in Nat /\ lastOffset' >= lastOffset
  BY DEF Rollback, StoreInv, StoreTypeOK
<1> QED
  BY <1>1, AbortInv DEF Rollback

LEMMA CrashInv ==
  ASSUME StoreInv, Crash
  PROVE  StoreInv'
<1> USE DEF StoreInv, Crash
<1>1. StoreTypeOK'
  BY DEF StoreTypeOK
<1>2. CommittedInv'
  BY DEF CommittedInv
<1>3. LockInv'
  BY DEF LockInv
<1>4. DraftInv'
  BY DEF DraftInv, StoreTypeOK
<1>5. OffsetInv'
  BY DEF OffsetInv, Visible
<1>6. IdInv'
  BY DEF IdInv, Visible
<1>7. DraftOutboxInv'
  BY DEF DraftOutboxInv
<1> QED
  BY <1>1, <1>2, <1>3, <1>4, <1>5, <1>6, <1>7

\* A commit appends the draft of one transaction to the log.  The drafts of the
\* others are of other conversations, whose rows it leaves alone.
LEMMA CommitInv ==
  ASSUME StoreInv, NEW t \in Txn, Commit(t)
  PROVE  StoreInv'
<1> USE DEF StoreInv
<1> DEFINE c == conv[t]
<1>1. /\ pc[t] = "find" /\ todo[t] = <<>>
      /\ pc' = [pc EXCEPT ![t] = "idle"]
      /\ runEvents' = runEvents \cup draft[t]
      /\ pending' = pending \cup draftOutbox[t]
      /\ nextSeq' = [d \in Conversation |-> IF seqLock[d] = t THEN heldSeq[t] ELSE nextSeq[d]]
      /\ seqLock' = Unlock(t)
      /\ draft' = [draft EXCEPT ![t] = {}]
      /\ draftOutbox' = [draftOutbox EXCEPT ![t] = {}]
      /\ UNCHANGED <<lastOffset, conv, todo, heldSeq, crashes>>
  BY DEF Commit
<1>2. \A d \in Conversation : /\ seqLock[d] = t => d = c /\ nextSeq'[d] = heldSeq[t]
                              /\ seqLock[d] # t => nextSeq'[d] = nextSeq[d]
                              /\ seqLock'[d] = t => FALSE
                              /\ \A u \in Txn : u # t => (seqLock'[d] = u <=> seqLock[d] = u)
  BY <1>1 DEF LockInv, Unlock, StoreTypeOK
<1>3. \A u \in Txn : u # t => draft'[u] = draft[u] /\ (draft[u] # {} => seqLock[conv[u]] = u)
  BY <1>1 DEF StoreTypeOK, DraftInv
<1>4. draft'[t] = {}
  BY <1>1 DEF StoreTypeOK
<1>5. \A r \in draft[t] : /\ r.conv = c /\ seqLock[c] = t /\ r.seq \in Nat
                          /\ nextSeq[c] <= r.seq /\ r.seq < heldSeq[t]
  BY DEF DraftInv, StoreTypeOK, Row
<1>6. \A r \in runEvents : r.conv \in Conversation /\ r.seq \in Nat /\ r.seq < nextSeq[r.conv]
                           /\ r.seq >= 1
  BY DEF CommittedInv, StoreTypeOK, Row
<1>7. c \in Conversation /\ heldSeq[t] \in Nat
  BY DEF StoreTypeOK
<1>8. \A d \in Conversation : nextSeq[d] \in Nat /\ nextSeq'[d] \in Nat /\ nextSeq[d] <= nextSeq'[d]
                              /\ nextSeq[d] >= 1
  BY <1>1, <1>2, <1>7 DEF LockInv, StoreTypeOK, CommittedInv
<1>11. StoreTypeOK'
  BY <1>1, <1>7 DEF StoreTypeOK, Unlock
<1>12. CommittedInv'
  <2>1. \A d \in Conversation : nextSeq'[d] >= 1
    BY <1>8
  <2>2. \A r \in runEvents' : 1 <= r.seq /\ r.seq < nextSeq'[r.conv]
    BY <1>1, <1>2, <1>5, <1>6, <1>7, <1>8
  <2>3. ASSUME NEW d \in Conversation, NEW i \in 1 .. (nextSeq'[d] - 1)
        PROVE  \E r \in runEvents' : r.conv = d /\ r.seq = i
    <3>1. CASE i < nextSeq[d]
      <4>1. i \in 1 .. (nextSeq[d] - 1)
        BY <1>8, <2>3, <3>1
      <4> QED
        BY <1>1, <4>1 DEF CommittedInv
    <3>2. CASE ~(i < nextSeq[d])
      <4>1. seqLock[d] = t /\ d = c /\ i \in nextSeq[c] .. (heldSeq[t] - 1)
        BY <1>2, <1>7, <1>8, <2>3, <3>2
      <4> QED
        BY <1>1, <1>5, <4>1 DEF DraftInv
    <3> QED
      BY <3>1, <3>2
  <2>4. \A r1, r2 \in runEvents' : r1.conv = r2.conv /\ r1.seq = r2.seq => r1 = r2
    BY <1>1, <1>5, <1>6, <1>8 DEF CommittedInv, DraftInv
  <2> QED
    BY <2>1, <2>2, <2>3, <2>4 DEF CommittedInv
<1>13. LockInv'
  BY <1>1, <1>2 DEF LockInv, StoreTypeOK
<1>14. DraftInv'
  <2>1. ASSUME NEW u \in Txn, u # t, NEW r \in draft'[u]
        PROVE  /\ r.conv = conv'[u] /\ seqLock'[conv'[u]] = u
               /\ nextSeq'[conv'[u]] <= r.seq /\ r.seq < heldSeq'[u]
    <3>1. r \in draft[u] /\ seqLock[conv[u]] = u /\ conv[u] \in Conversation
      BY <1>3, <2>1 DEF StoreTypeOK
    <3> QED
      BY <1>1, <1>2, <2>1, <3>1 DEF DraftInv
  <2>2. ASSUME NEW u \in Txn, seqLock'[conv'[u]] = u
        PROVE  \A i \in nextSeq'[conv'[u]] .. (heldSeq'[u] - 1) : \E r \in draft'[u] : r.seq = i
    <3>1. u # t /\ conv'[u] = conv[u] /\ conv[u] \in Conversation
      BY <1>1, <1>2, <2>2 DEF StoreTypeOK
    <3>2. seqLock[conv[u]] = u /\ nextSeq'[conv[u]] = nextSeq[conv[u]]
      BY <1>2, <2>2, <3>1
    <3> QED
      BY <1>1, <1>3, <3>1, <3>2 DEF DraftInv
  <2>3. \A u \in Txn : \A r1, r2 \in draft'[u] : r1.seq = r2.seq => r1 = r2
    BY <1>3, <1>4 DEF DraftInv
  <2> QED
    BY <1>4, <2>1, <2>2, <2>3 DEF DraftInv
<1>15. \A u \in Txn : u # t =>
         /\ Visible(u)' = runEvents \cup draft[t] \cup draft[u]
         /\ \A r1 \in draft[t], r2 \in draft[u] : r1.conv # r2.conv
  BY <1>1, <1>3, <1>5 DEF Visible, DraftInv
<1>16. Visible(t)' = Visible(t)
  BY <1>1, <1>4 DEF Visible
<1>17. OffsetInv'
  <2>1. ASSUME NEW u \in Txn, u # t
        PROVE  /\ \A r \in Visible(u)' : r.offset <= lastOffset'
               /\ \A r1, r2 \in Visible(u)' :
                    r1.conv = r2.conv /\ r1.seq < r2.seq => r1.offset < r2.offset
    BY <1>1, <1>15, <2>1 DEF OffsetInv, Visible
  <2>2. /\ \A r \in Visible(t)' : r.offset <= lastOffset'
        /\ \A r1, r2 \in Visible(t)' :
             r1.conv = r2.conv /\ r1.seq < r2.seq => r1.offset < r2.offset
    BY <1>1, <1>16 DEF OffsetInv
  <2> QED
    BY <2>1, <2>2 DEF OffsetInv
<1>18. IdInv'
  <2>1. ASSUME NEW u \in Txn, u # t
        PROVE  \A r1, r2 \in Visible(u)' : r1.conv = r2.conv /\ r1.id = r2.id => r1 = r2
    BY <1>15, <2>1 DEF IdInv, Visible
  <2>2. \A r1, r2 \in Visible(t)' : r1.conv = r2.conv /\ r1.id = r2.id => r1 = r2
    BY <1>16 DEF IdInv
  <2>3. \A u \in Txn : pc'[u] = "append" => u # t /\ pc[u] = "append"
    BY <1>1 DEF StoreTypeOK
  <2> QED
    BY <1>1, <1>3, <2>1, <2>2, <2>3 DEF IdInv
<1>19. DraftOutboxInv'
  BY <1>1 DEF DraftOutboxInv
<1> QED
  BY <1>11, <1>12, <1>13, <1>14, <1>17, <1>18, <1>19

LEMMA NextInv == StoreInv /\ [StoreNext]_storeVars => StoreInv'
<1> SUFFICES ASSUME StoreInv, [StoreNext]_storeVars PROVE StoreInv'
  OBVIOUS
<1>1. ASSUME NEW t \in Txn, NEW c \in Conversation, NEW b \in Batches, Begin(t, c, b)
      PROVE  StoreInv'
  BY <1>1, BeginInv
<1>2. ASSUME NEW t \in Txn, FindExisting(t) PROVE StoreInv'
  BY <1>2, FindExistingInv
<1>3. ASSUME NEW t \in Txn, AppendEvent(t) PROVE StoreInv'
  BY <1>3, AppendInv
<1>4. ASSUME NEW t \in Txn, Rollback(t) PROVE StoreInv'
  BY <1>4, RollbackInv
<1>5. ASSUME NEW t \in Txn, Commit(t) PROVE StoreInv'
  BY <1>5, CommitInv
<1>6. CASE Crash
  BY <1>6, CrashInv
<1>7. CASE UNCHANGED storeVars
  BY <1>7 DEF storeVars, txnVars, StoreInv, StoreTypeOK, CommittedInv, LockInv, DraftInv,
              OffsetInv, Visible, IdInv, DraftOutboxInv
<1> QED
  BY <1>1, <1>2, <1>3, <1>4, <1>5, <1>6, <1>7 DEF StoreNext, TxnStep

\* The inductive invariant: whatever handlers run, fail and crash, the open
\* transactions only ever continue the committed log (insert_event_tx).
THEOREM StoreInvariant == StoreSpec => []StoreInv
<1> QED
  BY InitInv, NextInv, PTL DEF StoreSpec

\* Type correctness of the store.
THEOREM StoreTypeCorrect == StoreSpec => []StoreTypeOK
<1>1. StoreInv => StoreTypeOK
  BY DEF StoreInv
<1> QED
  BY <1>1, StoreInvariant, PTL

\* In every reachable state the committed seqs of a conversation are exactly
\* 1 .. next_seq - 1 and none is used twice (next_event_seq, COMMIT).
THEOREM StoreSeqContiguous == StoreSpec => []SeqContiguous
<1>1. ASSUME StoreInv PROVE SeqContiguous
  <2> SUFFICES ASSUME NEW c \in Conversation
               PROVE  /\ {r.seq : r \in EventsOf(c)} = 1 .. (nextSeq[c] - 1)
                      /\ \A r1, r2 \in EventsOf(c) : r1.seq = r2.seq => r1 = r2
    BY DEF SeqContiguous
  <2>1. \A r \in EventsOf(c) : r.seq \in 1 .. (nextSeq[c] - 1)
    BY <1>1 DEF StoreInv, StoreTypeOK, CommittedInv, EventsOf, Row
  <2>2. \A i \in 1 .. (nextSeq[c] - 1) : \E r \in EventsOf(c) : r.seq = i
    BY <1>1 DEF StoreInv, CommittedInv, EventsOf
  <2>3. \A r1, r2 \in EventsOf(c) : r1.seq = r2.seq => r1 = r2
    BY <1>1 DEF StoreInv, CommittedInv, EventsOf
  <2> QED
    BY <2>1, <2>2, <2>3
<1> QED
  BY <1>1, StoreInvariant, PTL

\* An event id is stored once per conversation: what find_existing_event_tx
\* misses in a race, the unique index refuses.
THEOREM StoreEventIdOnce == StoreSpec => []EventIdStoredOnce
<1>1. StoreInv => EventIdStoredOnce
  BY DEF StoreInv, IdInv, Visible, EventIdStoredOnce
<1> QED
  BY <1>1, StoreInvariant, PTL

\* stream_offset follows seq within a conversation, although the identity
\* sequence is not transactional: it is drawn under the row lock.
THEOREM StoreOffsetFollowsSeq == StoreSpec => []OffsetFollowsSeq
<1>1. StoreInv => OffsetFollowsSeq
  BY DEF StoreInv, OffsetInv, Visible, OffsetFollowsSeq
<1> QED
  BY <1>1, StoreInvariant, PTL
=============================================================================
