------------------------------- MODULE EventLog -------------------------------
(***************************************************************************)
(* What the event plane promises: each conversation has one append-only     *)
(* log, and every client receives a growing prefix of it, without a hole,   *)
(* a repetition or a swap, across lost connections.  ConversationStream     *)
(* implements this with Postgres, cursors and Last-Event-ID.                *)
(***************************************************************************)
EXTENDS Integers, Sequences

CONSTANTS
  Conversation,
  EventId,
  Reader,
  ReaderConv  \* the conversation each reader follows

VARIABLES
  log,      \* log[c]: the events of conversation c, in order
  received  \* received[r]: how long a prefix of its log reader r has

logVars == <<log, received>>

LogInit ==
  /\ log = [c \in Conversation |-> <<>>]
  /\ received = [r \in Reader |-> 0]

\* No event occurs twice in a log.
Distinct(events) ==
  \A i, j \in 1 .. Len(events) : events[i] = events[j] => i = j

\* A transaction appends its events to one conversation; an event the log
\* already has is not appended again.
AppendBatch(c) ==
  /\ log' \in [Conversation -> Seq(EventId)]
  /\ Len(log'[c]) > Len(log[c])
  /\ SubSeq(log'[c], 1, Len(log[c])) = log[c]
  /\ Distinct(log'[c])
  /\ \A d \in Conversation \ {c} : log'[d] = log[d]
  /\ UNCHANGED received

\* The next event reaches a reader.
Receive(r) ==
  /\ received[r] < Len(log[ReaderConv[r]])
  /\ received' = [received EXCEPT ![r] = @ + 1]
  /\ UNCHANGED log

LogNext ==
  \/ \E c \in Conversation : AppendBatch(c)
  \/ \E r \in Reader : Receive(r)

LogSpec == LogInit /\ [][LogNext]_logVars
===============================================================================
