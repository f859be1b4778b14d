-------------------------- MODULE ConversationStream --------------------------
(***************************************************************************)
(* The SSE stream (live_events_to_sse) and the conversation WebSocket       *)
(* (handle_conversation_socket) on top of EventStore.  A connection keeps a *)
(* cursor, reads the committed rows after it, and is woken by Redis, by a   *)
(* 30-second backfill tick, or, without Redis, by a one-second poll; a      *)
(* message from Redis is only a reason to read, its payload is ignored.     *)
(* The client keeps the id of the last event it processed and presents it   *)
(* when it reconnects (Last-Event-ID, after_seq).                           *)
(*                                                                         *)
(* A fetch that Postgres refuses changes nothing (stream.error is sent and  *)
(* the loop goes on).  Redis wake-ups are not tied to a publication: the    *)
(* backfill tick can fire whenever they could.  Publication itself is       *)
(* EventOutbox; here Redis is only reachable or not.                        *)
(***************************************************************************)
EXTENDS EventStore, FiniteSetsExt

CONSTANTS
  Reader,      \* client connections that are re-established
  ReaderConv,  \* the conversation each of them follows
  FetchLimit   \* LIMIT of fetch_events

ASSUME StreamAssumption ==
  /\ ReaderConv \in [Reader -> Conversation]
  /\ FetchLimit \in Nat \ {0}

VARIABLES
  phase,      \* where the handler of the connection is
  pubsub,     \* the Redis subscription: "none", "live", or "ended"
  cursor,     \* the server's cursor of the connection
  wire,       \* seqs sent to the client and not yet received, in order
  clientSeq,  \* id of the last event the client has processed
  session,    \* the platform session: "active" or "revoked"
  redisUp     \* Redis reachable

readerVars == <<phase, pubsub, cursor, wire, clientSeq, session>>
vars == <<storeVars, readerVars, redisUp>>

ReaderInit ==
  /\ phase = [r \in Reader |-> "off"]
  /\ pubsub = [r \in Reader |-> "none"]
  /\ cursor = [r \in Reader |-> 0]
  /\ wire = [r \in Reader |-> {}]
  /\ clientSeq = [r \in Reader |-> 0]
  /\ session = [r \in Reader |-> "active"]
  /\ redisUp = TRUE

Init == StoreInit /\ ReaderInit

-------------------------------------------------------------------------------
(* Reading: fetch_events and fetch_events_after.                             *)

\* The committed seqs after the cursor.
After(r) == {s \in {e.seq : e \in EventsOf(ReaderConv[r])} : s > cursor[r]}

\* ORDER BY seq ASC LIMIT FetchLimit.
Page(r) == {s \in After(r) : Cardinality({u \in After(r) : u < s}) < FetchLimit}

\* Mutation of Fetch: the cursor jumps to the newest event, not to the last one
\* of the page.
FetchSkips(r) ==
  /\ wire' = [wire EXCEPT ![r] = @ \cup Page(r)]
  /\ cursor' = [cursor EXCEPT ![r] = IF Page(r) = {} THEN @ ELSE Max(After(r))]

\* The rows of the page go out in ascending order and the cursor moves to the
\* last of them.  The connection delivers in order, so a set of seqs stands
\* for what is on the wire.
Fetch(r) ==
  /\ wire' = [wire EXCEPT ![r] = @ \cup Page(r)]
  /\ cursor' = [cursor EXCEPT ![r] = IF Page(r) = {} THEN @ ELSE Max(Page(r))]

\* Either the statement succeeds or its error is reported and ignored.
FetchOrError(r) == Fetch(r) \/ UNCHANGED <<wire, cursor>>

\* What a connection does first.  SSE subscribes before its first fetch, the
\* WebSocket after it.
Start == {"sse_subscribe", "ws_fetch"}

\* Where a connection waits, given its subscription.
LoopOf(sub) == IF sub = "none" THEN "polling" ELSE "listening"

\* Mutation of Connect: the session is not validated.
ConnectUnchecked(r) ==
  /\ phase[r] = "off"
  /\ \E first \in Start : phase' = [phase EXCEPT ![r] = first]
  /\ cursor' = [cursor EXCEPT ![r] = clientSeq[r]]
  /\ wire' = [wire EXCEPT ![r] = {}]
  /\ UNCHANGED <<storeVars, redisUp, pubsub, clientSeq, session>>

\* resolve_after_seq: the handler starts from the id the client presents.  A
\* client comes back over either transport.
Connect(r) ==
  /\ phase[r] = "off"
  /\ session[r] = "active"
  /\ \E first \in Start : phase' = [phase EXCEPT ![r] = first]
  /\ cursor' = [cursor EXCEPT ![r] = clientSeq[r]]
  /\ wire' = [wire EXCEPT ![r] = {}]
  /\ UNCHANGED <<storeVars, redisUp, pubsub, clientSeq, session>>

Subscribe(r) ==
  /\ phase[r] \in {"sse_subscribe", "ws_subscribe"}
  /\ LET sub == IF redisUp THEN "live" ELSE "none"
     IN /\ pubsub' = [pubsub EXCEPT ![r] = sub]
        /\ phase' = [phase EXCEPT ![r] =
                       IF @ = "sse_subscribe" THEN "sse_fetch" ELSE LoopOf(sub)]
  /\ UNCHANGED <<storeVars, redisUp, cursor, wire, clientSeq, session>>

FirstFetch(r) ==
  /\ phase[r] \in {"sse_fetch", "ws_fetch"}
  /\ FetchOrError(r)
  /\ phase' = [phase EXCEPT ![r] =
                 IF @ = "sse_fetch" THEN LoopOf(pubsub[r]) ELSE "ws_subscribe"]
  /\ UNCHANGED <<storeVars, redisUp, pubsub, clientSeq, session>>

\* Mutation of LoopFetch: no polling while Redis is away.
LoopFetchOnlyLive(r) ==
  /\ phase[r] = "listening"
  /\ Fetch(r)
  /\ UNCHANGED <<storeVars, redisUp, phase, pubsub, clientSeq, session>>

\* A Redis message, the backfill tick (which fires at once on entry) or the
\* poll tick.
LoopFetch(r) ==
  /\ phase[r] \in {"listening", "polling"}
  /\ Fetch(r)
  /\ UNCHANGED <<storeVars, redisUp, phase, pubsub, clientSeq, session>>

\* messages.next() returns None: the connection falls back to polling.
SubscriptionEnded(r) ==
  /\ phase[r] = "listening"
  /\ pubsub[r] = "ended"
  /\ phase' = [phase EXCEPT ![r] = "polling"]
  /\ pubsub' = [pubsub EXCEPT ![r] = "none"]
  /\ UNCHANGED <<storeVars, redisUp, cursor, wire, clientSeq, session>>

\* The connection is over; the client may come back.
Close(r) ==
  /\ phase' = [phase EXCEPT ![r] = "off"]
  /\ pubsub' = [pubsub EXCEPT ![r] = "none"]

\* The five-second session check finds the session revoked: auth.revoked is
\* sent and the stream ends.
SessionRefresh(r) ==
  /\ phase[r] \in {"listening", "polling"}
  /\ session[r] = "revoked"
  /\ Close(r)
  /\ UNCHANGED <<storeVars, redisUp, cursor, wire, clientSeq, session>>

\* The connection breaks, or the check itself fails (stream.error).
Disconnect(r) ==
  /\ phase[r] # "off"
  /\ Close(r)
  /\ UNCHANGED <<storeVars, redisUp, cursor, wire, clientSeq, session>>

Revoke(r) ==
  /\ session[r] = "active"
  /\ session' = [session EXCEPT ![r] = "revoked"]
  /\ UNCHANGED <<storeVars, redisUp, phase, pubsub, cursor, wire, clientSeq>>

\* The client processes the next event that arrives, also one that was on its
\* way when the connection ended, and remembers its id.
ClientReceives(r) ==
  /\ wire[r] # {}
  /\ LET s == Min(wire[r])
     IN /\ clientSeq' = [clientSeq EXCEPT ![r] = s]
        /\ wire' = [wire EXCEPT ![r] = @ \ {s}]
  /\ UNCHANGED <<storeVars, redisUp, phase, pubsub, cursor, session>>

-------------------------------------------------------------------------------
ReaderStep(r) ==
  \/ Connect(r)
  \/ Subscribe(r)
  \/ FirstFetch(r)
  \/ LoopFetch(r)
  \/ SubscriptionEnded(r)
  \/ SessionRefresh(r)
  \/ Disconnect(r)
  \/ Revoke(r)
  \/ ClientReceives(r)

\* The transactions of the handlers go on beside the connections.
HandlerStep ==
  /\ \E t \in Txn : TxnStep(t)
  /\ UNCHANGED <<readerVars, redisUp>>

\* Live subscriptions end with the connection to Redis.
RedisDown ==
  /\ redisUp
  /\ redisUp' = FALSE
  /\ pubsub' = [r \in Reader |-> IF pubsub[r] = "live" THEN "ended" ELSE pubsub[r]]
  /\ UNCHANGED <<storeVars, phase, cursor, wire, clientSeq, session>>

RedisBack ==
  /\ ~redisUp
  /\ redisUp' = TRUE
  /\ UNCHANGED <<storeVars, readerVars>>

\* Every connection ends with the server process.
CrashAll ==
  /\ Crash
  /\ phase' = [r \in Reader |-> "off"]
  /\ pubsub' = [r \in Reader |-> "none"]
  /\ UNCHANGED <<cursor, wire, clientSeq, session, redisUp>>

Next ==
  \/ HandlerStep
  \/ RedisDown
  \/ RedisBack
  \/ CrashAll
  \/ \E r \in Reader : ReaderStep(r)

Spec == Init /\ [][Next]_vars

\* The tasks of a connection keep running, its timers keep firing, and the
\* client reads what arrives.
StreamFairness ==
  \A r \in Reader :
    /\ WF_vars(Subscribe(r))
    /\ WF_vars(FirstFetch(r))
    /\ WF_vars(LoopFetch(r))
    /\ WF_vars(SessionRefresh(r))
    /\ WF_vars(ClientReceives(r))

FairSpec == Spec /\ StreamFairness

-------------------------------------------------------------------------------
\* Type correctness.
TypeOK ==
  /\ StoreTypeOK
  /\ phase \in [Reader -> Start \cup {"off", "sse_fetch", "ws_subscribe", "listening",
                                   "polling"}]
  /\ pubsub \in [Reader -> {"none", "live", "ended"}]
  /\ cursor \in [Reader -> Nat]
  /\ wire \in [Reader -> SUBSET Nat]
  /\ clientSeq \in [Reader -> Nat]
  /\ session \in [Reader -> {"active", "revoked"}]
  /\ redisUp \in BOOLEAN

\* A cursor only passes events that the client has or that are on their way:
\* no event is left behind by a fetch that ran while a handler was between
\* taking its seq and committing, by a page limit, or by a reconnection.
NothingLeftBehind ==
  \A r \in Reader :
    /\ cursor[r] < nextSeq[ReaderConv[r]]
    /\ phase[r] # "off" => wire[r] = (clientSeq[r] + 1) .. cursor[r]

\* A stream that stays open brings every stored event to its client, with or
\* without Redis.
OpenStreamCatchesUp ==
  \A r \in Reader : \A s \in 1 .. MaxOffset :
    (phase[r] # "off" /\ nextSeq[ReaderConv[r]] > s)
      ~> (clientSeq[r] >= s \/ phase[r] = "off")

\* A stream of a revoked session is closed, whatever it is doing, and stays
\* closed (architecture: a revoked session is disconnected by force).
RevokedStreamEnds ==
  \A r \in Reader : session[r] = "revoked" ~> [](phase[r] = "off")

\* The stored events of conversation c as the log that EventLog speaks of.
LogOf(c) ==
  [i \in 1 .. (nextSeq[c] - 1) |-> (CHOOSE e \in EventsOf(c) : e.seq = i).id]

Log == INSTANCE EventLog WITH log <- [c \in Conversation |-> LogOf(c)],
                              received <- clientSeq

ImplementsEventLog == Log!LogSpec
===============================================================================
