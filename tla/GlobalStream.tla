----------------------------- MODULE GlobalStream -----------------------------
(***************************************************************************)
(* The renderer's /ws (biwork_ws_service.rs): one connection follows all    *)
(* conversations of its user by polling run_events with a cursor over       *)
(* stream_offset, the identity column.  It has no replay: the cursor starts *)
(* at the largest committed offset.                                         *)
(*                                                                         *)
(* Left out: the first-frame authentication, subscriptions (the connection  *)
(* subscribes to every conversation of its user), the projection of an      *)
(* event to renderer names, and the session check, which                    *)
(* ConversationStream models.                                               *)
(***************************************************************************)
EXTENDS EventStore, FiniteSetsExt

CONSTANTS
  Mine,         \* the conversations the connection's user created
  GlobalLimit   \* LIMIT of fetch_global_events

ASSUME GlobalAssumption ==
  /\ Mine \subseteq Conversation
  /\ GlobalLimit \in Nat \ {0}

VARIABLES
  connected,   \* the connection is in its loop
  start,       \* the cursor it started with
  cursor,      \* GlobalEventCursor.offset
  sent         \* the rows sent over the connection, in order

globalVars == <<connected, start, cursor, sent>>
vars == <<storeVars, globalVars>>

Init ==
  /\ StoreInit
  /\ connected = FALSE
  /\ start = 0
  /\ cursor = 0
  /\ sent = <<>>

\* COALESCE(MAX(stream_offset), 0) over every committed row.
CurrentOffset == Max({0} \cup {r.offset : r \in runEvents})

\* Authentication succeeded: current_global_event_offset.
Connect ==
  /\ ~connected
  /\ connected' = TRUE
  /\ start' = CurrentOffset
  /\ cursor' = CurrentOffset
  /\ sent' = <<>>
  /\ UNCHANGED storeVars

\* The rows of the user that the poll would return without its LIMIT.
NewRows == {r \in runEvents : r.conv \in Mine /\ r.offset > cursor}

\* ORDER BY stream_offset ASC LIMIT GlobalLimit.
PageRows == {r \in NewRows :
              Cardinality({u \in NewRows : u.offset < r.offset}) < GlobalLimit}

\* A set of rows as the sequence ordered by offset.
InOffsetOrder(rows) ==
  [i \in 1 .. Cardinality(rows) |->
     CHOOSE r \in rows : Cardinality({u \in rows : u.offset <= r.offset}) = i]

\* Mutation of Poll: the cursor stays where it was.
PollWithoutCursor ==
  /\ connected
  /\ PageRows # {}
  /\ Len(sent) < MaxOffset
  /\ sent' = sent \o InOffsetOrder(PageRows)
  /\ UNCHANGED <<storeVars, connected, start, cursor>>

\* Mutation of Poll: the cursor moves to the newest offset of the table.
PollToNewest ==
  /\ connected
  /\ PageRows # {}
  /\ sent' = sent \o InOffsetOrder(PageRows)
  /\ cursor' = CurrentOffset
  /\ UNCHANGED <<storeVars, connected, start>>

\* send_new_global_events: the cursor follows each row that is sent.
Poll ==
  /\ connected
  /\ PageRows # {}
  /\ sent' = sent \o InOffsetOrder(PageRows)
  /\ cursor' = Max({r.offset : r \in PageRows})
  /\ UNCHANGED <<storeVars, connected, start>>

\* The socket closes or a send fails.
Disconnect ==
  /\ connected
  /\ connected' = FALSE
  /\ UNCHANGED <<storeVars, start, cursor, sent>>

HandlerStep ==
  /\ \E t \in Txn : TxnStep(t)
  /\ UNCHANGED globalVars

CrashAll ==
  /\ Crash
  /\ connected' = FALSE
  /\ UNCHANGED <<start, cursor, sent>>

Next ==
  \/ HandlerStep
  \/ CrashAll
  \/ Connect
  \/ Poll
  \/ Disconnect

Spec == Init /\ [][Next]_vars

-------------------------------------------------------------------------------
SentRows == {sent[i] : i \in DOMAIN sent}

\* Type correctness.
TypeOK ==
  /\ StoreTypeOK
  /\ connected \in BOOLEAN
  /\ start \in Nat
  /\ cursor \in Nat
  /\ sent \in Seq(Row)

\* Events of one conversation reach the renderer in the order of the log and
\* none twice, although the connection orders by another number than seq.
ConversationOrder ==
  \A i, j \in DOMAIN sent :
    i < j /\ sent[i].conv = sent[j].conv => sent[i].seq < sent[j].seq

\* Of the events above the offset at which the cursor started, among them every
\* event inserted since the connection opened, the cursor passes none that was
\* not sent: what is in run_events reaches the WebSocket.  It does not hold when
\* handlers of two conversations of the user commit in the other order than they
\* drew their offsets.  Events below the start are not covered: the start is the
\* largest offset of all users, so an event that drew a smaller one and commits
\* after Connect is never sent, even to a user with one conversation.
NothingSkipped ==
  connected =>
    \A r \in runEvents :
      r.conv \in Mine /\ start < r.offset /\ r.offset <= cursor => r \in SentRows
===============================================================================
