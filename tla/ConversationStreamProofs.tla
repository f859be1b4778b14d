----------------------- MODULE ConversationStreamProofs -----------------------
(***************************************************************************)
(* Proofs about ConversationStream, for any readers, page limit, handlers   *)
(* and event ids: what is on the wire is what lies between the client and   *)
(* the cursor, and the stream implements EventLog.                          *)
(***************************************************************************)
EXTENDS ConversationStream, EventStoreProofs, FiniteSetTheorems, SequenceTheorems

\* What lies between the client and the cursor is on the wire, also after the
\* connection has ended, and the cursor is within the committed log.
Delivered(r) ==
  /\ clientSeq[r] <= cursor[r]
  /\ cursor[r] < nextSeq[ReaderConv[r]]
  /\ wire[r] = (clientSeq[r] + 1) .. cursor[r]

ReaderTypes ==
  /\ phase \in [Reader -> Start \cup {"off", "sse_fetch", "ws_subscribe", "listening",
                                   "polling"}]
  /\ pubsub \in [Reader -> {"none", "live", "ended"}]
  /\ cursor \in [Reader -> Nat]
  /\ wire \in [Reader -> SUBSET Nat]
  /\ clientSeq \in [Reader -> Nat]
  /\ session \in [Reader -> {"active", "revoked"}]
  /\ redisUp \in BOOLEAN

StreamInv ==
  /\ StoreInv
  /\ ReaderTypes
  /\ \A r \in Reader : Delivered(r)

-----------------------------------------------------------------------------
(* Pages *)

LEMMA MaxOfInterval ==
  ASSUME NEW a \in Nat, NEW b \in Nat, a <= b
  PROVE  Max(a .. b) = b /\ Min(a .. b) = a
<1>1. b \in a .. b /\ \A y \in a .. b : b >= y
  OBVIOUS
<1>2. a \in a .. b /\ \A y \in a .. b : a =< y
  OBVIOUS
<1>3. \A x \in a .. b : (\A y \in a .. b : x >= y) => x = b
  BY <1>1
<1>4. \A x \in a .. b : (\A y \in a .. b : x =< y) => x = a
  BY <1>2
<1>5. Max(a .. b) \in a .. b /\ \A y \in a .. b : Max(a .. b) >= y
  BY <1>1 DEF Max
<1>6. Min(a .. b) \in a .. b /\ \A y \in a .. b : Min(a .. b) =< y
  BY <1>2 DEF Min
<1>7. QED
  BY <1>3, <1>4, <1>5, <1>6

\* The rows that a fetch looks at, by the contiguity of the log.
LEMMA AfterIsInterval ==
  ASSUME StreamInv, NEW r \in Reader
  PROVE  After(r) = (cursor[r] + 1) .. (nextSeq[ReaderConv[r]] - 1)
<1> DEFINE c == ReaderConv[r]
<1>0. c \in Conversation /\ cursor[r] \in Nat /\ nextSeq[c] \in Nat
  BY StreamAssumption DEF StreamInv, ReaderTypes, StoreInv, StoreTypeOK
<1>1. \A e \in EventsOf(c) : e.seq \in 1 .. (nextSeq[c] - 1)
  BY DEF StreamInv, StoreInv, StoreTypeOK, CommittedInv, EventsOf, Row
<1>2. \A i \in 1 .. (nextSeq[c] - 1) : \E e \in EventsOf(c) : e.seq = i
  BY <1>0 DEF StreamInv, StoreInv, CommittedInv, EventsOf
<1>3. {e.seq : e \in EventsOf(c)} = 1 .. (nextSeq[c] - 1)
  BY <1>1, <1>2
<1>4. QED
  BY <1>0, <1>3 DEF After

LEMMA IntervalSize ==
  ASSUME NEW a \in Int, NEW b \in Int, a <= b + 1
  PROVE  Cardinality(a .. b) = b - a + 1
<1>1. Cardinality(a .. b) = IF a > b THEN 0 ELSE b - a + 1
  BY FS_Interval
<1>2. CASE a > b
  BY <1>1, <1>2
<1>3. CASE ~(a > b)
  BY <1>1, <1>3
<1>4. QED
  BY <1>2, <1>3

\* The last row of a page.
PageEnd(r) ==
  IF cursor[r] + FetchLimit < nextSeq[ReaderConv[r]]
    THEN cursor[r] + FetchLimit ELSE nextSeq[ReaderConv[r]] - 1

LEMMA PageIsInterval ==
  ASSUME StreamInv, NEW r \in Reader
  PROVE  /\ Page(r) = (cursor[r] + 1) .. PageEnd(r)
         /\ PageEnd(r) \in Nat /\ cursor[r] <= PageEnd(r)
         /\ PageEnd(r) < nextSeq[ReaderConv[r]]
<1> DEFINE k == cursor[r]
           n == nextSeq[ReaderConv[r]]
<1>0. k \in Nat /\ n \in Nat /\ k < n /\ FetchLimit \in Nat \ {0}
  BY StreamAssumption DEF StreamInv, ReaderTypes, StoreInv, StoreTypeOK, Delivered
<1>1. After(r) = (k + 1) .. (n - 1)
  BY AfterIsInterval
<1>2. ASSUME NEW s \in After(r)
      PROVE  Cardinality({u \in After(r) : u < s}) = s - 1 - k
  <2>1. s \in Nat /\ k + 1 <= s /\ s <= n - 1
    BY <1>0, <1>1
  <2>2. {u \in After(r) : u < s} = (k + 1) .. (s - 1)
    BY <1>0, <1>1, <2>1
  <2>3. k + 1 \in Int /\ s - 1 \in Int /\ k + 1 <= (s - 1) + 1
    BY <1>0, <2>1
  <2>4. Cardinality((k + 1) .. (s - 1)) = (s - 1) - (k + 1) + 1
    <3> HIDE DEF k
    <3> QED
      BY <2>3, IntervalSize
  <2>5. (s - 1) - (k + 1) + 1 = s - 1 - k
    BY <1>0, <2>1
  <2>6. Cardinality({u \in After(r) : u < s}) = Cardinality((k + 1) .. (s - 1))
    BY <2>2, Zenon
  <2>7. QED
    BY <2>4, <2>5, <2>6, Zenon
<1>3. Page(r) = {s \in After(r) : s - 1 - k < FetchLimit}
  BY <1>2 DEF Page
<1>4. {s \in (k + 1) .. (n - 1) : s - 1 - k < FetchLimit} = (k + 1) .. PageEnd(r)
  BY <1>0 DEF PageEnd
<1>5. PageEnd(r) \in Nat /\ k <= PageEnd(r) /\ PageEnd(r) < n
  BY <1>0 DEF PageEnd
<1>6. QED
  BY <1>1, <1>3, <1>4, <1>5

\* A fetch extends the wire to the end of its page and moves the cursor there.
LEMMA FetchMoves ==
  ASSUME StreamInv, NEW r \in Reader, Fetch(r)
  PROVE  /\ cursor' = [cursor EXCEPT ![r] = PageEnd(r)]
         /\ wire' = [wire EXCEPT ![r] = (clientSeq[r] + 1) .. PageEnd(r)]
<1>0. /\ clientSeq[r] \in Nat /\ cursor[r] \in Nat /\ clientSeq[r] <= cursor[r]
      /\ cursor \in [Reader -> Nat]
      /\ wire[r] = (clientSeq[r] + 1) .. cursor[r]
  BY DEF StreamInv, ReaderTypes, Delivered
<1>1. /\ Page(r) = (cursor[r] + 1) .. PageEnd(r)
      /\ PageEnd(r) \in Nat /\ cursor[r] <= PageEnd(r)
  BY PageIsInterval
<1>2. wire[r] \cup Page(r) = (clientSeq[r] + 1) .. PageEnd(r)
  BY <1>0, <1>1
<1>3. (IF Page(r) = {} THEN cursor[r] ELSE Max(Page(r))) = PageEnd(r)
  <2>1. CASE cursor[r] = PageEnd(r)
    BY <1>0, <1>1, <2>1
  <2>2. CASE cursor[r] < PageEnd(r)
    <3>1. PageEnd(r) \in Page(r) /\ cursor[r] + 1 <= PageEnd(r)
      BY <1>0, <1>1, <2>2
    <3>2. Max(Page(r)) = PageEnd(r)
      BY <1>0, <1>1, <3>1, MaxOfInterval
    <3>3. QED
      BY <3>1, <3>2
  <2>3. QED
    BY <1>0, <1>1, <2>1, <2>2
<1>4. QED
  BY <1>2, <1>3 DEF Fetch

-----------------------------------------------------------------------------
(* The invariant *)

LEMMA StreamInit == Init => StreamInv
<1> SUFFICES ASSUME Init PROVE StreamInv
  OBVIOUS
<1>1. StoreInv
  BY InitInv DEF Init
<1>2. ReaderTypes
  BY DEF Init, ReaderInit, ReaderTypes
<1>3. ASSUME NEW r \in Reader PROVE Delivered(r)
  <2>1. ReaderConv[r] \in Conversation
    BY StreamAssumption
  <2>2. /\ clientSeq[r] = 0 /\ cursor[r] = 0 /\ wire[r] = {}
        /\ nextSeq[ReaderConv[r]] = 1
    BY <2>1 DEF Init, ReaderInit, StoreInit
  <2>3. QED
    BY <2>2 DEF Delivered
<1>4. QED
  BY <1>1, <1>2, <1>3 DEF StreamInv

\* No handler takes a seq back that another session can see.
LEMMA SeqGrows ==
  ASSUME StoreInv, NEW t \in Txn, TxnStep(t), NEW c \in Conversation
  PROVE  nextSeq[c] <= nextSeq'[c]
<1>1. nextSeq \in [Conversation -> Nat] /\ heldSeq \in [Txn -> Nat]
  BY DEF StoreInv, StoreTypeOK
<1>2. CASE Commit(t)
  BY <1>1, <1>2 DEF Commit, StoreInv, LockInv
<1>3. CASE nextSeq' = nextSeq
  BY <1>1, <1>3
<1>4. QED
  BY <1>2, <1>3 DEF TxnStep, Begin, FindExisting, AppendEvent, Rollback

\* The connections keep their invariant when the committed log grows.
LEMMA ReadersKept ==
  ASSUME StreamInv, StoreInv', ReaderTypes', UNCHANGED <<cursor, wire, clientSeq>>,
         \A c \in Conversation : nextSeq[c] <= nextSeq'[c]
  PROVE  StreamInv'
<1>1. ASSUME NEW r \in Reader PROVE Delivered(r)'
  <2>1. ReaderConv[r] \in Conversation /\ cursor[r] \in Nat
    BY StreamAssumption DEF StreamInv, ReaderTypes
  <2>2. /\ nextSeq[ReaderConv[r]] \in Nat /\ nextSeq'[ReaderConv[r]] \in Nat
        /\ nextSeq[ReaderConv[r]] <= nextSeq'[ReaderConv[r]]
    BY <2>1 DEF StreamInv, StoreInv, StoreTypeOK
  <2>3. QED
    BY <2>1, <2>2 DEF StreamInv, Delivered
<1>2. QED
  BY <1>1 DEF StreamInv

LEMMA StoreUntouched ==
  ASSUME StreamInv, UNCHANGED storeVars
  PROVE  StoreInv' /\ \A c \in Conversation : nextSeq[c] <= nextSeq'[c]
<1>1. StoreInv'
  BY NextInv DEF StreamInv
<1>2. nextSeq' = nextSeq /\ nextSeq \in [Conversation -> Nat]
  BY DEF storeVars, StreamInv, StoreInv, StoreTypeOK
<1>3. QED
  BY <1>1, <1>2

\* A step of one connection that changes what is between it and its client.
LEMMA ReaderMoved ==
  ASSUME StreamInv, UNCHANGED storeVars, ReaderTypes', NEW r \in Reader,
         \A q \in Reader \ {r} : UNCHANGED <<cursor[q], wire[q], clientSeq[q]>>,
         Delivered(r)'
  PROVE  StreamInv'
<1>1. StoreInv'
  BY StoreUntouched
<1>2. nextSeq' = nextSeq
  BY DEF storeVars
<1>3. ASSUME NEW q \in Reader, q # r PROVE Delivered(q)'
  BY <1>2, <1>3 DEF StreamInv, Delivered
<1>4. QED
  BY <1>1, <1>3 DEF StreamInv

LEMMA ConnectInv ==
  ASSUME StreamInv, NEW r \in Reader, Connect(r)
  PROVE  StreamInv'
<1>1. ReaderTypes'
  BY DEF StreamInv, ReaderTypes, Connect, Start
<1>2. clientSeq[r] \in Nat /\ cursor[r] \in Nat /\ nextSeq[ReaderConv[r]] \in Nat
  BY StreamAssumption DEF StreamInv, ReaderTypes, StoreInv, StoreTypeOK
<1>3. /\ cursor'[r] = clientSeq[r] /\ wire'[r] = {} /\ clientSeq' = clientSeq
      /\ \A q \in Reader \ {r} : UNCHANGED <<cursor[q], wire[q], clientSeq[q]>>
      /\ UNCHANGED storeVars /\ nextSeq' = nextSeq
  BY DEF StreamInv, ReaderTypes, Connect, storeVars
<1>4. Delivered(r)'
  BY <1>2, <1>3 DEF StreamInv, Delivered
<1>5. QED
  BY <1>1, <1>3, <1>4, ReaderMoved

LEMMA FetchInv ==
  ASSUME StreamInv, NEW r \in Reader, Fetch(r), UNCHANGED <<storeVars, clientSeq, session, redisUp>>,
         phase' \in [Reader -> Start \cup {"off", "sse_fetch", "ws_subscribe", "listening",
                                          "polling"}],
         pubsub' = pubsub
  PROVE  StreamInv'
<1>0. /\ cursor \in [Reader -> Nat] /\ wire \in [Reader -> SUBSET Nat]
      /\ clientSeq \in [Reader -> Nat]
      /\ clientSeq[r] <= cursor[r]
  BY DEF StreamInv, ReaderTypes, Delivered
<1>1. /\ PageEnd(r) \in Nat /\ cursor[r] <= PageEnd(r)
      /\ PageEnd(r) < nextSeq[ReaderConv[r]]
  BY PageIsInterval
<1>2. /\ cursor' = [cursor EXCEPT ![r] = PageEnd(r)]
      /\ wire' = [wire EXCEPT ![r] = (clientSeq[r] + 1) .. PageEnd(r)]
      /\ clientSeq' = clientSeq /\ nextSeq' = nextSeq
  BY FetchMoves DEF storeVars
<1>3. (clientSeq[r] + 1) .. PageEnd(r) \in SUBSET Nat
  BY <1>0, <1>1
<1>4. cursor' \in [Reader -> Nat] /\ wire' \in [Reader -> SUBSET Nat]
  BY <1>0, <1>1, <1>2, <1>3
<1>5. ReaderTypes'
  BY <1>4 DEF StreamInv, ReaderTypes
<1>6. /\ cursor'[r] = PageEnd(r)
      /\ wire'[r] = (clientSeq[r] + 1) .. PageEnd(r)
      /\ \A q \in Reader \ {r} : UNCHANGED <<cursor[q], wire[q], clientSeq[q]>>
  BY <1>0, <1>2
<1>7. clientSeq[r] <= PageEnd(r)
  BY <1>0, <1>1
<1>8. Delivered(r)'
  BY <1>1, <1>2, <1>6, <1>7 DEF Delivered
<1>9. QED
  BY <1>5, <1>6, <1>8, ReaderMoved

\* What a client receives is the event after the last one it has.
LEMMA NextReceived ==
  ASSUME StreamInv, NEW r \in Reader, ClientReceives(r)
  PROVE  /\ clientSeq' = [clientSeq EXCEPT ![r] = clientSeq[r] + 1]
         /\ wire' = [wire EXCEPT ![r] = (clientSeq[r] + 2) .. cursor[r]]
         /\ clientSeq[r] + 1 <= cursor[r]
<1>1. /\ clientSeq[r] \in Nat /\ cursor[r] \in Nat
      /\ wire[r] = (clientSeq[r] + 1) .. cursor[r]
      /\ wire[r] # {}
  BY DEF StreamInv, ReaderTypes, Delivered, ClientReceives
<1>2. clientSeq[r] + 1 <= cursor[r]
  BY <1>1
<1>3. Min(wire[r]) = clientSeq[r] + 1
  BY <1>1, <1>2, MaxOfInterval
<1>4. wire[r] \ {clientSeq[r] + 1} = (clientSeq[r] + 2) .. cursor[r]
  BY <1>1, <1>2
<1>5. QED
  BY <1>2, <1>3, <1>4 DEF ClientReceives

LEMMA ReceiveInv ==
  ASSUME StreamInv, NEW r \in Reader, ClientReceives(r)
  PROVE  StreamInv'
<1>0. /\ cursor \in [Reader -> Nat] /\ wire \in [Reader -> SUBSET Nat]
      /\ clientSeq \in [Reader -> Nat]
      /\ cursor[r] < nextSeq[ReaderConv[r]]
  BY DEF StreamInv, ReaderTypes, Delivered
<1>1. /\ clientSeq' = [clientSeq EXCEPT ![r] = clientSeq[r] + 1]
      /\ wire' = [wire EXCEPT ![r] = (clientSeq[r] + 2) .. cursor[r]]
      /\ clientSeq[r] + 1 <= cursor[r]
  BY NextReceived
<1>2. UNCHANGED storeVars /\ nextSeq' = nextSeq /\ cursor' = cursor
  BY DEF ClientReceives, storeVars
<1>3. (clientSeq[r] + 2) .. cursor[r] \in SUBSET Nat
  BY <1>0
<1>4. clientSeq' \in [Reader -> Nat] /\ wire' \in [Reader -> SUBSET Nat]
  BY <1>0, <1>1, <1>3
<1>5. ReaderTypes'
  BY <1>4 DEF ClientReceives, StreamInv, ReaderTypes
<1>6. /\ clientSeq'[r] = clientSeq[r] + 1
      /\ wire'[r] = (clientSeq[r] + 2) .. cursor[r]
      /\ \A q \in Reader \ {r} : UNCHANGED <<cursor[q], wire[q], clientSeq[q]>>
  BY <1>0, <1>1, <1>2
<1>7. clientSeq'[r] + 1 = clientSeq[r] + 2
  BY <1>0, <1>6
<1>8. Delivered(r)'
  BY <1>0, <1>1, <1>2, <1>6, <1>7 DEF Delivered
<1>9. QED
  BY <1>2, <1>5, <1>6, <1>8, ReaderMoved

LEMMA StreamNext == StreamInv /\ [Next]_vars => StreamInv'
<1> SUFFICES ASSUME StreamInv, [Next]_vars PROVE StreamInv'
  OBVIOUS
<1>1. CASE UNCHANGED vars
  <2>1. UNCHANGED storeVars /\ ReaderTypes' /\ UNCHANGED <<cursor, wire, clientSeq>>
    BY <1>1 DEF vars, readerVars, StreamInv, ReaderTypes
  <2>2. QED
    BY <2>1, StoreUntouched, ReadersKept
<1>2. CASE HandlerStep
  <2>1. PICK t \in Txn : TxnStep(t)
    BY <1>2 DEF HandlerStep
  <2>2. StoreInv'
    BY <2>1, NextInv DEF StreamInv, StoreNext
  <2>3. \A c \in Conversation : nextSeq[c] <= nextSeq'[c]
    BY <2>1, SeqGrows DEF StreamInv
  <2>4. ReaderTypes' /\ UNCHANGED <<cursor, wire, clientSeq>>
    BY <1>2 DEF HandlerStep, readerVars, StreamInv, ReaderTypes
  <2>5. QED
    BY <2>2, <2>3, <2>4, ReadersKept
<1>3. CASE RedisDown \/ RedisBack
  <2>1. UNCHANGED storeVars /\ ReaderTypes' /\ UNCHANGED <<cursor, wire, clientSeq>>
    BY <1>3 DEF RedisDown, RedisBack, readerVars, StreamInv, ReaderTypes
  <2>2. QED
    BY <2>1, StoreUntouched, ReadersKept
<1>4. CASE CrashAll
  <2>1. StoreInv'
    BY <1>4, NextInv DEF StreamInv, CrashAll, StoreNext
  <2>2. nextSeq' = nextSeq /\ nextSeq \in [Conversation -> Nat]
    BY <1>4 DEF CrashAll, Crash, StreamInv, StoreInv, StoreTypeOK
  <2>3. ReaderTypes' /\ UNCHANGED <<cursor, wire, clientSeq>>
    BY <1>4 DEF CrashAll, StreamInv, ReaderTypes
  <2>4. \A c \in Conversation : nextSeq[c] <= nextSeq'[c]
    BY <2>2
  <2>5. QED
    BY <2>1, <2>3, <2>4, ReadersKept
<1>5. ASSUME NEW r \in Reader, ReaderStep(r) PROVE StreamInv'
  <2>1. CASE Connect(r)
    BY <2>1, ConnectInv
  <2>2. CASE ClientReceives(r)
    BY <2>2, ReceiveInv
  <2>3. CASE Fetch(r) /\ (FirstFetch(r) \/ LoopFetch(r))
    <3>1. /\ UNCHANGED <<storeVars, clientSeq, session, redisUp>>
          /\ pubsub' = pubsub
          /\ phase' \in [Reader -> Start \cup {"off", "sse_fetch", "ws_subscribe", "listening",
                                              "polling"}]
      BY <2>3 DEF FirstFetch, LoopFetch, LoopOf, StreamInv, ReaderTypes
    <3>2. QED
      BY <2>3, <3>1, FetchInv
  <2>4. ASSUME \/ Subscribe(r) \/ SubscriptionEnded(r) \/ SessionRefresh(r) \/ Disconnect(r)
               \/ Revoke(r) \/ (FirstFetch(r) /\ UNCHANGED <<wire, cursor>>)
        PROVE  StreamInv'
    <3>1. UNCHANGED storeVars /\ UNCHANGED <<cursor, wire, clientSeq>>
      BY <2>4 DEF Subscribe, SubscriptionEnded, SessionRefresh, Disconnect, Revoke, FirstFetch
    <3>2. ReaderTypes'
      BY <2>4 DEF Subscribe, SubscriptionEnded, SessionRefresh, Disconnect, Close, Revoke,
         FirstFetch, LoopOf, StreamInv, ReaderTypes
    <3>3. QED
      BY <3>1, <3>2, StoreUntouched, ReadersKept
  <2>5. QED
    BY <1>5, <2>1, <2>2, <2>3, <2>4 DEF ReaderStep, FirstFetch, FetchOrError, LoopFetch
<1>6. QED
  BY <1>1, <1>2, <1>3, <1>4, <1>5 DEF Next

\* The inductive invariant: whatever the handlers, Redis, the connections and
\* the clients do, what lies between a client and the cursor of its connection
\* is on the wire (live_events_to_sse, handle_conversation_socket).
THEOREM StreamInvariant == Spec => []StreamInv
<1> QED
  BY StreamInit, StreamNext, PTL DEF Spec

\* Type correctness of the streams.
THEOREM StreamTypeCorrect == Spec => []TypeOK
<1>1. StreamInv => TypeOK
  BY DEF StreamInv, StoreInv, ReaderTypes, TypeOK
<1>2. QED
  BY <1>1, StreamInvariant, PTL

\* A cursor only passes events that the client has or that are on their way,
\* for any page limit and any number of handlers, readers and reconnections
\* (fetch_events_after, resolve_after_seq).
THEOREM StreamLeavesNothingBehind == Spec => []NothingLeftBehind
<1>1. StreamInv => NothingLeftBehind
  BY DEF StreamInv, Delivered, NothingLeftBehind
<1>2. QED
  BY <1>1, StreamInvariant, PTL

-----------------------------------------------------------------------------
(* The stream implements EventLog *)

\* The log of a conversation, entry by entry.
LogOK ==
  \A c \in Conversation :
    /\ LogOf(c) \in Seq(EventId)
    /\ Len(LogOf(c)) = nextSeq[c] - 1
    /\ \A i \in 1 .. (nextSeq[c] - 1) : \E e \in runEvents : e.conv = c /\ e.seq = i
    /\ \A e \in runEvents : e.conv = c => LogOf(c)[e.seq] = e.id

LEMMA LogEntries == StoreInv => LogOK
<1> SUFFICES ASSUME StoreInv, NEW c \in Conversation
             PROVE  /\ LogOf(c) \in Seq(EventId)
                    /\ Len(LogOf(c)) = nextSeq[c] - 1
                    /\ \A i \in 1 .. (nextSeq[c] - 1) : \E e \in runEvents : e.conv = c /\ e.seq = i
                    /\ \A e \in runEvents : e.conv = c => LogOf(c)[e.seq] = e.id
  BY DEF LogOK
<1> DEFINE n == nextSeq[c] - 1
           Entry(i) == CHOOSE e \in EventsOf(c) : e.seq = i
<1>1. n \in Nat
  BY DEF StoreInv, StoreTypeOK, CommittedInv
<1>2. \A i \in 1 .. n : \E e \in EventsOf(c) : e.seq = i
  BY DEF StoreInv, CommittedInv, EventsOf
<1>3. \A e \in EventsOf(c) : e.id \in EventId /\ e.seq \in 1 .. n
  BY DEF StoreInv, StoreTypeOK, CommittedInv, EventsOf, Row
<1>4. ASSUME NEW i \in 1 .. n
      PROVE  Entry(i) \in EventsOf(c) /\ Entry(i).seq = i
  BY <1>2
<1>5. ASSUME NEW e \in EventsOf(c)
      PROVE  Entry(e.seq) = e
  <2>1. e.seq \in 1 .. n
    BY <1>3
  <2>2. Entry(e.seq) \in EventsOf(c) /\ Entry(e.seq).seq = e.seq
    BY <1>4, <2>1
  <2>3. \A f, g \in EventsOf(c) : f.seq = g.seq => f = g
    BY DEF StoreInv, CommittedInv, EventsOf
  <2>4. QED
    BY <2>2, <2>3
<1>6. LogOf(c) = [i \in 1 .. n |-> Entry(i).id]
  BY DEF LogOf
<1> HIDE DEF n, Entry
<1>7. LogOf(c) \in Seq(EventId) /\ Len(LogOf(c)) = n
  BY <1>1, <1>3, <1>4, <1>6
<1>8. \A e \in EventsOf(c) : LogOf(c)[e.seq] = e.id
  BY <1>3, <1>5, <1>6
<1>9. QED
  BY <1>2, <1>7, <1>8 DEF EventsOf, n

LEMMA LogEntriesNext == StoreInv' => LogOK'
BY LogEntries, PTL

\* Rows are only added, so an entry of the log never changes.
LEMMA EntriesKept ==
  ASSUME StoreInv, StoreInv', runEvents \subseteq runEvents',
         NEW c \in Conversation, NEW i \in 1 .. (nextSeq[c] - 1)
  PROVE  LogOf(c)'[i] = LogOf(c)[i]
<1>1. PICK e \in runEvents : e.conv = c /\ e.seq = i
  BY LogEntries DEF LogOK
<1>2. LogOf(c)[e.seq] = e.id
  BY <1>1, LogEntries DEF LogOK
<1>3. LogOf(c)'[e.seq] = e.id
  BY <1>1, LogEntriesNext DEF LogOK
<1>4. QED
  BY <1>1, <1>2, <1>3

\* A conversation that gets no row keeps its log.
LEMMA LogKept ==
  ASSUME StoreInv, StoreInv', runEvents \subseteq runEvents',
         NEW c \in Conversation, nextSeq'[c] = nextSeq[c]
  PROVE  LogOf(c)' = LogOf(c)
<1>1. /\ LogOf(c) \in Seq(EventId) /\ Len(LogOf(c)) = nextSeq[c] - 1
      /\ LogOf(c)' \in Seq(EventId) /\ Len(LogOf(c)') = nextSeq[c] - 1
  BY LogEntries, LogEntriesNext DEF LogOK
<1>2. \A i \in 1 .. Len(LogOf(c)') : LogOf(c)'[i] = LogOf(c)[i]
  BY <1>1, EntriesKept
<1>3. QED
  BY <1>1, <1>2, SeqEqual

Logs == [c \in Conversation |-> LogOf(c)]

LEMMA LogsKept ==
  ASSUME StoreInv, StoreInv', UNCHANGED <<runEvents, nextSeq>>
  PROVE  Logs' = Logs
<1>1. \A c \in Conversation : LogOf(c)' = LogOf(c)
  BY LogKept
<1>2. Logs' = [c \in Conversation |-> LogOf(c)']
  BY DEF Logs
<1>3. QED
  BY <1>1, <1>2 DEF Logs

\* A longer log of conversation c is an extension of the old one, without an
\* event twice.
LEMMA LogExtended ==
  ASSUME StoreInv, StoreInv', runEvents \subseteq runEvents',
         NEW c \in Conversation, nextSeq[c] < nextSeq'[c]
  PROVE  /\ LogOf(c)' \in Seq(EventId)
         /\ Len(LogOf(c)') > Len(LogOf(c))
         /\ SubSeq(LogOf(c)', 1, Len(LogOf(c))) = LogOf(c)
         /\ Log!Distinct(LogOf(c)')
<1>0. nextSeq[c] \in Nat \ {0} /\ nextSeq'[c] \in Nat \ {0}
  BY DEF StoreInv, StoreTypeOK, CommittedInv
<1>1. /\ LogOf(c) \in Seq(EventId) /\ Len(LogOf(c)) = nextSeq[c] - 1
      /\ LogOf(c)' \in Seq(EventId) /\ Len(LogOf(c)') = nextSeq'[c] - 1
      /\ \A i \in 1 .. (nextSeq'[c] - 1) : \E e \in runEvents' : e.conv = c /\ e.seq = i
      /\ \A e \in runEvents' : e.conv = c => LogOf(c)'[e.seq] = e.id
  BY LogEntries, LogEntriesNext DEF LogOK
<1>2. \A i \in 1 .. Len(LogOf(c)) : LogOf(c)'[i] = LogOf(c)[i]
  BY <1>1, EntriesKept
<1>3. SubSeq(LogOf(c)', 1, Len(LogOf(c))) = LogOf(c)
  <2> DEFINE s == LogOf(c)
             t == LogOf(c)'
             k == Len(LogOf(c))
  <2>1. k \in Nat /\ k < Len(t) /\ s \in Seq(EventId) /\ t \in Seq(EventId) /\ Len(s) = k
    BY <1>0, <1>1
  <2>2. \A i \in 1 .. k : t[i] \in EventId /\ t[i] = s[i]
    BY <1>2, <2>1
  <2> HIDE DEF s, t, k
  <2>3. /\ SubSeq(t, 1, k) \in Seq(EventId)
        /\ Len(SubSeq(t, 1, k)) = k
        /\ \A i \in 1 .. k : SubSeq(t, 1, k)[i] = t[i]
    BY <2>1, <2>2, SubSeqProperties
  <2>4. SubSeq(t, 1, k) = s
    BY <2>1, <2>2, <2>3, SeqEqual
  <2>5. QED
    BY <2>4 DEF s, t, k
<1>4. ASSUME NEW i \in 1 .. Len(LogOf(c)'), NEW j \in 1 .. Len(LogOf(c)'),
             LogOf(c)'[i] = LogOf(c)'[j]
      PROVE  i = j
  <2>1. PICK e \in runEvents' : e.conv = c /\ e.seq = i
    BY <1>1, <1>4
  <2>2. PICK f \in runEvents' : f.conv = c /\ f.seq = j
    BY <1>1, <1>4
  <2>3. e.id = f.id
    BY <1>1, <1>4, <2>1, <2>2
  <2>4. PICK u : u \in Txn
    BY EventStoreAssumption
  <2>5. \A r1, r2 \in runEvents' : r1.conv = r2.conv /\ r1.id = r2.id => r1 = r2
    BY <2>4 DEF StoreInv, IdInv, Visible
  <2>6. QED
    BY <2>1, <2>2, <2>3, <2>5
<1>5. QED
  BY <1>0, <1>1, <1>3, <1>4 DEF Log!Distinct

\* COMMIT: the log of the transaction's conversation grows by its draft, or
\* nothing of it is in the draft and every log stays.
LEMMA CommitAppends ==
  ASSUME StoreInv, StoreInv', NEW t \in Txn, Commit(t)
  PROVE  /\ runEvents \subseteq runEvents'
         /\ \A d \in Conversation \ {conv[t]} : nextSeq'[d] = nextSeq[d]
         /\ \/ nextSeq[conv[t]] < nextSeq'[conv[t]]
            \/ UNCHANGED <<runEvents, nextSeq>>
<1> DEFINE c == conv[t]
<1>0. /\ c \in Conversation /\ heldSeq[t] \in Nat
      /\ nextSeq \in [Conversation -> Nat]
      /\ nextSeq' = [d \in Conversation |-> IF seqLock[d] = t THEN heldSeq[t] ELSE nextSeq[d]]
      /\ runEvents' = runEvents \cup draft[t]
  BY DEF Commit, StoreInv, StoreTypeOK
<1>1. \A d \in Conversation \ {c} : seqLock[d] # t
  BY DEF StoreInv, LockInv
<1>2. \A d \in Conversation \ {c} : nextSeq'[d] = nextSeq[d]
  BY <1>0, <1>1
<1>3. CASE seqLock[c] = t /\ nextSeq[c] < heldSeq[t]
  BY <1>0, <1>2, <1>3
<1>4. CASE ~(seqLock[c] = t /\ nextSeq[c] < heldSeq[t])
  <2>1. nextSeq'[c] = nextSeq[c]
    BY <1>0, <1>4 DEF StoreInv, LockInv
  <2>2. nextSeq' = nextSeq
    BY <1>0, <1>2, <2>1
  <2>3. draft[t] = {}
    <3>1. \A r \in draft[t] : /\ seqLock[c] = t /\ r.seq \in Nat
                              /\ nextSeq[c] <= r.seq /\ r.seq < heldSeq[t]
      BY DEF StoreInv, StoreTypeOK, DraftInv, Row
    <3>2. QED
      BY <1>0, <1>4, <3>1
  <2>4. QED
    BY <1>0, <1>2, <2>2, <2>3
<1>5. QED
  BY <1>3, <1>4

LEMMA CommitImplements ==
  ASSUME StoreInv, StoreInv', NEW t \in Txn, Commit(t), UNCHANGED clientSeq
  PROVE  (\E c \in Conversation : Log!AppendBatch(c)) \/ Logs' = Logs
<1>0. PICK c \in Conversation : c = conv[t]
  BY DEF StoreInv, StoreTypeOK
<1>1. CASE UNCHANGED <<runEvents, nextSeq>>
  BY <1>1, LogsKept
<1>2. CASE nextSeq[c] < nextSeq'[c]
  <2>1. runEvents \subseteq runEvents'
    BY CommitAppends
  <2>2. /\ LogOf(c)' \in Seq(EventId)
        /\ Len(LogOf(c)') > Len(LogOf(c))
        /\ SubSeq(LogOf(c)', 1, Len(LogOf(c))) = LogOf(c)
        /\ Log!Distinct(LogOf(c)')
    BY <1>0, <1>2, <2>1, LogExtended
  <2>3. \A d \in Conversation \ {c} : LogOf(d)' = LogOf(d)
    BY <1>0, <2>1, CommitAppends, LogKept
  <2>4. \A d \in Conversation : LogOf(d)' \in Seq(EventId)
    BY LogEntriesNext DEF LogOK
  <2>5. Logs' = [d \in Conversation |-> LogOf(d)']
    BY DEF Logs
  <2>6. /\ Logs' \in [Conversation -> Seq(EventId)]
        /\ \A d \in Conversation : Logs'[d] = LogOf(d)' /\ Logs[d] = LogOf(d)
    BY <2>4, <2>5 DEF Logs
  <2>7. Log!AppendBatch(c)
    <3>1. /\ Logs' \in [Conversation -> Seq(EventId)]
          /\ Len(Logs'[c]) > Len(Logs[c])
          /\ SubSeq(Logs'[c], 1, Len(Logs[c])) = Logs[c]
          /\ Log!Distinct(Logs'[c])
          /\ \A d \in Conversation \ {c} : Logs'[d] = Logs[d]
          /\ UNCHANGED clientSeq
      BY <1>0, <2>2, <2>3, <2>6
    <3>2. QED
      BY <3>1, Zenon DEF Log!AppendBatch, Logs
  <2>8. QED
    BY <2>7
<1>3. QED
  BY <1>0, <1>1, <1>2, CommitAppends

LEMMA InitImplements == Init => Log!LogInit
<1> SUFFICES ASSUME Init PROVE Log!LogInit
  OBVIOUS
<1>1. ASSUME NEW c \in Conversation PROVE LogOf(c) = <<>>
  <2>1. StoreInv /\ nextSeq[c] = 1
    BY InitInv DEF Init, StoreInit
  <2>2. LogOf(c) \in Seq(EventId) /\ Len(LogOf(c)) = 0
    BY <2>1, LogEntries DEF LogOK
  <2>3. QED
    BY <2>2
<1>2. [c \in Conversation |-> LogOf(c)] = [c \in Conversation |-> <<>>]
  BY <1>1
<1>3. clientSeq = [r \in Reader |-> 0]
  BY DEF Init, ReaderInit
<1>4. QED
  BY <1>2, <1>3 DEF Log!LogInit

LEMMA StepImplements ==
  ASSUME StreamInv, StreamInv', [Next]_vars
  PROVE  [Log!LogNext]_(Log!logVars)
<1>0. StoreInv /\ StoreInv'
  BY DEF StreamInv
<1>1. ASSUME UNCHANGED <<runEvents, nextSeq, clientSeq>>
      PROVE  UNCHANGED Log!logVars
  <2>1. Logs' = Logs
    BY <1>0, <1>1, LogsKept
  <2>2. QED
    BY <1>1, <2>1 DEF Logs, Log!logVars
<1>2. ASSUME NEW t \in Txn, Commit(t), UNCHANGED clientSeq
      PROVE  [Log!LogNext]_(Log!logVars)
  <2>1. (\E c \in Conversation : Log!AppendBatch(c)) \/ Logs' = Logs
    BY <1>0, <1>2, CommitImplements
  <2>2. QED
    BY <1>2, <2>1 DEF Logs, Log!LogNext, Log!logVars
<1>3. ASSUME NEW r \in Reader, ClientReceives(r)
      PROVE  Log!Receive(r)
  <2>1. /\ clientSeq' = [clientSeq EXCEPT ![r] = clientSeq[r] + 1]
        /\ clientSeq[r] + 1 <= cursor[r]
    BY <1>3, NextReceived
  <2>2. /\ clientSeq[r] \in Nat /\ cursor[r] \in Nat /\ cursor[r] < nextSeq[ReaderConv[r]]
        /\ ReaderConv[r] \in Conversation /\ nextSeq[ReaderConv[r]] \in Nat
    BY StreamAssumption DEF StreamInv, ReaderTypes, Delivered, StoreInv, StoreTypeOK
  <2>3. clientSeq[r] < nextSeq[ReaderConv[r]] - 1
    BY <2>1, <2>2
  <2>4. clientSeq[r] < Len(Logs[ReaderConv[r]])
    <3>1. Len(LogOf(ReaderConv[r])) = nextSeq[ReaderConv[r]] - 1
      BY <1>0, <2>2, LogEntries DEF LogOK
    <3>2. Logs[ReaderConv[r]] = LogOf(ReaderConv[r])
      BY <2>2 DEF Logs
    <3>3. QED
      BY <2>3, <3>1, <3>2
  <2>5. Logs' = Logs
    BY <1>0, <1>3, LogsKept DEF ClientReceives, storeVars
  <2>6. QED
    BY <2>1, <2>4, <2>5 DEF Logs, Log!Receive
<1>4. CASE UNCHANGED vars
  BY <1>1, <1>4 DEF vars, storeVars, readerVars
<1>5. CASE HandlerStep
  <2>1. PICK t \in Txn : TxnStep(t)
    BY <1>5 DEF HandlerStep
  <2>2. UNCHANGED clientSeq
    BY <1>5 DEF HandlerStep, readerVars
  <2>3. CASE Commit(t)
    BY <1>2, <2>2, <2>3
  <2>4. CASE UNCHANGED <<runEvents, nextSeq>>
    BY <1>1, <2>2, <2>4
  <2>5. QED
    BY <2>1, <2>3, <2>4 DEF TxnStep, Begin, FindExisting, AppendEvent, Rollback
<1>6. CASE RedisDown \/ RedisBack \/ CrashAll
  BY <1>1, <1>6 DEF RedisDown, RedisBack, CrashAll, Crash, storeVars, readerVars
<1>7. ASSUME NEW r \in Reader, ReaderStep(r)
      PROVE  [Log!LogNext]_(Log!logVars)
  <2>1. CASE ClientReceives(r)
    BY <1>3, <2>1 DEF Log!LogNext
  <2>2. CASE UNCHANGED <<runEvents, nextSeq, clientSeq>>
    BY <1>1, <2>2
  <2>3. QED
    BY <1>7, <2>1, <2>2 DEF ReaderStep, Connect, Subscribe, FirstFetch, LoopFetch,
       SubscriptionEnded, SessionRefresh, Disconnect, Revoke, storeVars
<1>8. QED
  BY <1>4, <1>5, <1>6, <1>7 DEF Next

\* The stream implements EventLog: each client receives a growing prefix of one
\* append-only log in which no event occurs twice, across rollbacks, crashes,
\* lost connections and Redis outages.
THEOREM StreamImplementsEventLog == Spec => ImplementsEventLog
<1>1. StreamInv /\ StreamInv' /\ [Next]_vars => [Log!LogNext]_(Log!logVars)
  BY StepImplements
<1>2. QED
  BY <1>1, InitImplements, StreamInvariant, PTL DEF Spec, ImplementsEventLog, Log!LogSpec
===============================================================================
