-------------------------- MODULE GlobalStreamProofs --------------------------
(***************************************************************************)
(* Proofs about GlobalStream, for any conversations, handlers, event ids,   *)
(* page limit and crashes: the renderer's socket sends the rows of the log  *)
(* in the order of their offsets, which is the order of each conversation,  *)
(* and when its user has one conversation passes none of those whose offset *)
(* is above the one it started at.                                          *)
(***************************************************************************)
EXTENDS GlobalStream, EventStoreProofs, FiniteSetTheorems

\* Every row of run_events, committed or not.
AllRows == runEvents \cup UNION {draft[t] : t \in Txn}

\* The identity sequence gives no value twice.
OffsetsUnique(rows) == \A r1, r2 \in rows : r1.offset = r2.offset => r1 = r2

\* What was sent is committed, rises by offset and ends at the cursor; the
\* cursor is where it started or at a row of the user.
SocketInv ==
  /\ \A i \in DOMAIN sent : sent[i] \in runEvents /\ sent[i].offset <= cursor
  /\ \A i, j \in DOMAIN sent : i < j => sent[i].offset < sent[j].offset
  /\ cursor = start \/ \E r \in runEvents : r.conv \in Mine /\ r.offset = cursor

SocketTypes ==
  /\ connected \in BOOLEAN
  /\ start \in Nat
  /\ cursor \in Nat
  /\ sent \in Seq(Row)

GlobalInv ==
  /\ StoreInv
  /\ OffsetsUnique(AllRows)
  /\ SocketTypes
  /\ SocketInv

-----------------------------------------------------------------------------
(* Sets of rows in the order of their offsets                                *)

\* What an ordering needs: finitely many rows, no offset twice.
Orderable(rows) ==
  /\ IsFiniteSet(rows)
  /\ \A r \in rows : r.offset \in Nat
  /\ OffsetsUnique(rows)

UpTo(rows, r) == {u \in rows : u.offset <= r.offset}
Rank(rows, r) == Cardinality(UpTo(rows, r))

LEMMA RankGrows ==
  ASSUME NEW rows, Orderable(rows), NEW r \in rows, NEW s \in rows, r.offset < s.offset
  PROVE  Rank(rows, r) < Rank(rows, s)
<1>1. IsFiniteSet(UpTo(rows, s)) /\ IsFiniteSet(UpTo(rows, r))
  BY FS_Subset DEF Orderable, UpTo
<1>2. UpTo(rows, r) \subseteq UpTo(rows, s)
  BY DEF Orderable, UpTo
<1>3. s \in UpTo(rows, s) /\ s \notin UpTo(rows, r)
  BY DEF Orderable, UpTo
<1>4. Cardinality(UpTo(rows, r)) < Cardinality(UpTo(rows, s))
  <2>1. /\ Cardinality(UpTo(rows, r)) <= Cardinality(UpTo(rows, s))
        /\ Cardinality(UpTo(rows, r)) = Cardinality(UpTo(rows, s))
             => UpTo(rows, r) = UpTo(rows, s)
    BY <1>1, <1>2, FS_Subset
  <2>2. Cardinality(UpTo(rows, r)) \in Nat /\ Cardinality(UpTo(rows, s)) \in Nat
    BY <1>1, FS_CardinalityType
  <2> QED
    BY <1>3, <2>1, <2>2
<1> QED
  BY <1>4 DEF Rank

LEMMA RankInRange ==
  ASSUME NEW rows, Orderable(rows), NEW r \in rows
  PROVE  Rank(rows, r) \in 1 .. Cardinality(rows)
<1>1. UpTo(rows, r) \subseteq rows /\ r \in UpTo(rows, r)
  BY DEF Orderable, UpTo
<1>2. IsFiniteSet(UpTo(rows, r)) /\ IsFiniteSet(rows)
      /\ Cardinality(UpTo(rows, r)) <= Cardinality(rows)
  BY <1>1, FS_Subset DEF Orderable
<1>3. Cardinality(UpTo(rows, r)) \in Nat /\ Cardinality(rows) \in Nat
  BY <1>2, FS_CardinalityType
<1>4. Cardinality(UpTo(rows, r)) # 0
  BY <1>1, <1>2, FS_EmptySet
<1> QED
  BY <1>2, <1>3, <1>4 DEF Rank

\* Every place up to the number of rows is that of one row.
LEMMA RankOnto ==
  ASSUME NEW rows, Orderable(rows), NEW i \in 1 .. Cardinality(rows)
  PROVE  \E r \in rows : Rank(rows, r) = i
<1> DEFINE n == Cardinality(rows)
           f == [r \in rows |-> Rank(rows, r)]
           ranks == {Rank(rows, r) : r \in rows}
<1>1. IsFiniteSet(rows) /\ n \in Nat
  BY FS_CardinalityType DEF Orderable
<1>2. ranks \subseteq 1 .. n
  BY RankInRange
<1>3. \A r, s \in rows : Rank(rows, r) = Rank(rows, s) => r = s
  <2> SUFFICES ASSUME NEW r \in rows, NEW s \in rows, r # s
               PROVE  Rank(rows, r) # Rank(rows, s)
    OBVIOUS
  <2>1. r.offset < s.offset \/ s.offset < r.offset
    BY DEF Orderable, OffsetsUnique
  <2>2. Rank(rows, r) \in Nat /\ Rank(rows, s) \in Nat
    BY <1>1, RankInRange
  <2> QED
    BY <2>1, <2>2, RankGrows
<1>4. f \in Bijection(rows, ranks)
  <2>1. f \in [rows -> ranks]
    OBVIOUS
  <2>2. \A r, s \in rows : f[r] = f[s] => r = s
    BY <1>3
  <2>3. \A k \in ranks : \E r \in rows : f[r] = k
    OBVIOUS
  <2> QED
    BY <2>1, <2>2, <2>3 DEF Bijection, Injection, Surjection, IsInjective
<1>5. IsFiniteSet(ranks) /\ Cardinality(ranks) = n
  BY <1>1, <1>4, FS_Bijection DEF ExistsBijection
<1>6. IsFiniteSet(1 .. n) /\ Cardinality(1 .. n) = n
  BY <1>1, FS_Interval
<1>7. ranks = 1 .. n
  BY <1>2, <1>5, <1>6, FS_Subset
<1> QED
  BY <1>7

\* What send_new_global_events makes of a page: ORDER BY stream_offset ASC.
LEMMA OrderedRows ==
  ASSUME NEW rows, Orderable(rows)
  PROVE  /\ Cardinality(rows) \in Nat
         /\ InOffsetOrder(rows) \in Seq(rows)
         /\ DOMAIN InOffsetOrder(rows) = 1 .. Cardinality(rows)
         /\ \A i, j \in 1 .. Cardinality(rows) :
              i < j => InOffsetOrder(rows)[i].offset < InOffsetOrder(rows)[j].offset
         /\ \A r \in rows : \E i \in 1 .. Cardinality(rows) : InOffsetOrder(rows)[i] = r
<1> DEFINE n == Cardinality(rows)
           s == InOffsetOrder(rows)
<1>1. n \in Nat
  BY FS_CardinalityType DEF Orderable
<1>2. s = [i \in 1 .. n |-> CHOOSE r \in rows : Rank(rows, r) = i]
  BY DEF InOffsetOrder, Rank, UpTo
<1>3. \A i \in 1 .. n : s[i] \in rows /\ Rank(rows, s[i]) = i
  <2> SUFFICES ASSUME NEW i \in 1 .. n PROVE s[i] \in rows /\ Rank(rows, s[i]) = i
    OBVIOUS
  <2>1. \E r \in rows : Rank(rows, r) = i
    BY RankOnto
  <2> QED
    BY <1>2, <2>1
<1>4. s \in Seq(rows) /\ DOMAIN s = 1 .. n
  BY <1>1, <1>2, <1>3
<1>5. ASSUME NEW i \in 1 .. n, NEW j \in 1 .. n, i < j
      PROVE  s[i].offset < s[j].offset
  <2>1. s[i] \in rows /\ s[j] \in rows /\ Rank(rows, s[i]) = i /\ Rank(rows, s[j]) = j
    BY <1>3
  <2>2. s[i].offset \in Nat /\ s[j].offset \in Nat
    BY <2>1 DEF Orderable
  <2>3. CASE s[j].offset < s[i].offset
    <3>1. j < i
      BY <2>1, <2>3, RankGrows
    <3> QED
      BY <1>1, <1>5, <3>1
  <2>4. CASE s[j].offset = s[i].offset
    <3>1. s[j] = s[i]
      BY <2>1, <2>4 DEF Orderable, OffsetsUnique
    <3> QED
      BY <1>1, <1>5, <2>1, <3>1
  <2> QED
    BY <2>2, <2>3, <2>4
<1>6. ASSUME NEW r \in rows PROVE \E i \in 1 .. n : s[i] = r
  <2>1. Rank(rows, r) \in 1 .. n
    BY RankInRange
  <2>2. s[Rank(rows, r)] \in rows /\ Rank(rows, s[Rank(rows, r)]) = Rank(rows, r)
    BY <1>3, <2>1
  <2>3. s[Rank(rows, r)] = r
    <3> DEFINE q == s[Rank(rows, r)]
    <3>1. q \in rows /\ Rank(rows, q) = Rank(rows, r)
      BY <2>2
    <3>2. q.offset \in Nat /\ r.offset \in Nat /\ Rank(rows, r) \in Nat
      BY <1>1, <2>1, <3>1 DEF Orderable
    <3>3. ~(q.offset < r.offset) /\ ~(r.offset < q.offset)
      BY <3>1, <3>2, RankGrows
    <3>4. q.offset = r.offset
      BY <3>2, <3>3
    <3> QED
      BY <3>1, <3>4 DEF Orderable, OffsetsUnique
  <2> QED
    BY <2>1, <2>3
<1> QED
  BY <1>1, <1>4, <1>5, <1>6

\* The newest of a non-empty set of rows: the one at the last place.
LEMMA NewestRow ==
  ASSUME NEW rows, Orderable(rows), rows # {}
  PROVE  \E r \in rows : \A u \in rows : u.offset <= r.offset
<1> DEFINE n == Cardinality(rows)
<1>1. IsFiniteSet(rows) /\ n \in Nat /\ n # 0
  BY FS_CardinalityType, FS_EmptySet DEF Orderable
<1>2. PICK r \in rows : Rank(rows, r) = n
  BY <1>1, RankOnto
<1>3. UpTo(rows, r) = rows
  <2>1. UpTo(rows, r) \subseteq rows
    BY DEF UpTo
  <2> QED
    BY <1>1, <1>2, <2>1, FS_Subset DEF Rank
<1> QED
  BY <1>3 DEF UpTo

LEMMA MaxOffsetOf ==
  ASSUME NEW rows, Orderable(rows), rows # {}
  PROVE  LET m == Max({r.offset : r \in rows})
         IN  m \in Nat /\ (\E r \in rows : r.offset = m) /\ (\A r \in rows : r.offset <= m)
<1> DEFINE S == {r.offset : r \in rows}
<1>1. PICK r \in rows : \A u \in rows : u.offset <= r.offset
  BY NewestRow
<1>2. r.offset \in S /\ \A y \in S : r.offset >= y
  BY <1>1 DEF Orderable
<1>3. Max(S) \in S /\ \A y \in S : Max(S) >= y
  <2> HIDE DEF S
  <2> QED
    BY <1>2 DEF Max
<1> QED
  BY <1>3 DEF Orderable

-----------------------------------------------------------------------------
(* The rows of the store                                                     *)

\* A row a handler adds has a new offset, a rollback or a commit gives none
\* away.
LEMMA UniqueNext ==
  ASSUME StoreInv, OffsetsUnique(AllRows), [StoreNext]_storeVars
  PROVE  /\ OffsetsUnique(AllRows)'
         /\ runEvents \subseteq runEvents'
<1>0. draft \in [Txn -> SUBSET Row] /\ lastOffset \in Nat /\ runEvents \subseteq Row
  BY DEF StoreInv, StoreTypeOK
<1>1. ASSUME AllRows' \subseteq AllRows PROVE OffsetsUnique(AllRows)'
  BY <1>1 DEF OffsetsUnique
<1>2. ASSUME NEW t \in Txn,
             \/ \E c \in Conversation, b \in Batches : Begin(t, c, b)
             \/ FindExisting(t)
      PROVE  runEvents' = runEvents /\ draft' = draft
  BY <1>2 DEF Begin, FindExisting
<1>3. ASSUME runEvents' = runEvents, draft' = draft
      PROVE  AllRows' \subseteq AllRows /\ runEvents \subseteq runEvents'
  BY <1>3 DEF AllRows
<1>4. ASSUME NEW t \in Txn, Abort(t), runEvents' = runEvents
      PROVE  AllRows' \subseteq AllRows /\ runEvents \subseteq runEvents'
  <2>1. \A u \in Txn : draft'[u] \subseteq draft[u]
    BY <1>0, <1>4 DEF Abort
  <2> QED
    BY <1>4, <2>1 DEF AllRows
<1>5. ASSUME NEW t \in Txn, Commit(t)
      PROVE  AllRows' \subseteq AllRows /\ runEvents \subseteq runEvents'
  <2>1. runEvents' = runEvents \cup draft[t]
    BY <1>5 DEF Commit
  <2>2. \A u \in Txn : draft'[u] \subseteq draft[u]
    BY <1>0, <1>5 DEF Commit
  <2> QED
    BY <2>1, <2>2 DEF AllRows
<1>6. ASSUME NEW t \in Txn, AppendEvent(t), ~IdTaken(t)
      PROVE  OffsetsUnique(AllRows)' /\ runEvents \subseteq runEvents'
  <2>1. /\ runEvents' = runEvents
        /\ draft' = [draft EXCEPT ![t] = @ \cup {NewRow(t)}]
    BY <1>6 DEF AppendEvent
  <2>2. NewRow(t).offset = lastOffset + 1
    BY DEF NewRow
  <2>3. \A u \in Txn : draft'[u] \subseteq draft[u] \cup {NewRow(t)}
    BY <1>0, <2>1
  <2>4. AllRows' \subseteq AllRows \cup {NewRow(t)}
    BY <2>1, <2>3 DEF AllRows
  <2>5. \A r \in AllRows : r.offset <= lastOffset /\ r.offset \in Nat
    BY <1>0 DEF AllRows, StoreInv, OffsetInv, Visible, Row
  <2>6. \A r \in AllRows : r.offset # lastOffset + 1
    BY <1>0, <2>5
  <2> QED
    BY <2>1, <2>2, <2>4, <2>6 DEF OffsetsUnique
<1>7. ASSUME NEW t \in Txn, AppendEvent(t), IdTaken(t)
      PROVE  Abort(t) /\ runEvents' = runEvents
  BY <1>7 DEF AppendEvent
<1>8. ASSUME NEW t \in Txn, Rollback(t) PROVE Abort(t) /\ runEvents' = runEvents
  BY <1>8 DEF Rollback
<1>9. ASSUME Crash PROVE AllRows' \subseteq AllRows /\ runEvents \subseteq runEvents'
  BY <1>9 DEF Crash, AllRows
<1>10. ASSUME UNCHANGED storeVars PROVE runEvents' = runEvents /\ draft' = draft
  BY <1>10 DEF storeVars, txnVars
<1> QED
  BY <1>1, <1>2, <1>3, <1>4, <1>5, <1>6, <1>7, <1>8, <1>9, <1>10 DEF StoreNext, TxnStep

\* The committed rows can be put in order.
LEMMA RunEventsOrderable ==
  ASSUME StoreInv, OffsetsUnique(AllRows), NEW rows \in SUBSET runEvents
  PROVE  Orderable(rows)
<1> DEFINE f == [r \in runEvents |-> r.offset]
<1>0. lastOffset \in Nat /\ runEvents \subseteq Row /\ Txn # {}
  BY EventStoreAssumption DEF StoreInv, StoreTypeOK
<1>1. \A r \in runEvents : r.offset \in Nat
  BY <1>0 DEF Row
<1>2. \A r \in runEvents : r.offset <= lastOffset
  <2>1. PICK t \in Txn : TRUE
    BY <1>0
  <2> QED
    BY <2>1 DEF StoreInv, OffsetInv, Visible
<1>3. \A r \in runEvents : r.offset \in 0 .. lastOffset
  BY <1>0, <1>1, <1>2
<1>4. OffsetsUnique(runEvents)
  BY DEF OffsetsUnique, AllRows
<1>5. f \in Injection(runEvents, 0 .. lastOffset)
  BY <1>3, <1>4 DEF Injection, IsInjective, OffsetsUnique
<1>6. IsFiniteSet(0 .. lastOffset)
  BY <1>0, FS_Interval
<1>7. IsFiniteSet(runEvents)
  BY <1>5, <1>6, FS_Injection
<1>8. IsFiniteSet(rows)
  BY <1>7, FS_Subset
<1> QED
  BY <1>1, <1>4, <1>8 DEF Orderable, OffsetsUnique

\* What a handler commits comes after what its conversation has committed, by
\* offset as well as by seq.
LEMMA CommittedIsNewer ==
  ASSUME StoreInv, [StoreNext]_storeVars, NEW e \in runEvents,
         NEW r \in runEvents' \ runEvents, r.conv = e.conv
  PROVE  e.offset < r.offset
<1>1. runEvents' # runEvents
  OBVIOUS
<1>2. PICK t \in Txn : Commit(t)
  BY <1>1 DEF StoreNext, TxnStep, Begin, FindExisting, AppendEvent, Rollback, Crash, storeVars
<1>3. r \in draft[t]
  BY <1>2 DEF Commit
<1>4. nextSeq[conv[t]] <= r.seq /\ r.conv = conv[t]
  BY <1>3 DEF StoreInv, DraftInv
<1>5. e.seq < nextSeq[e.conv]
  BY DEF StoreInv, CommittedInv
<1>6. /\ e.seq \in Nat /\ r.seq \in Nat
      /\ conv[t] \in Conversation /\ nextSeq[conv[t]] \in Nat
  BY <1>3 DEF StoreInv, StoreTypeOK, Row
<1>7. e.seq < r.seq
  BY <1>4, <1>5, <1>6
<1>8. e \in Visible(t) /\ r \in Visible(t)
  BY <1>3 DEF Visible
<1> QED
  BY <1>7, <1>8 DEF StoreInv, OffsetInv

-----------------------------------------------------------------------------
(* Polls                                                                     *)

\* A page is the beginning of the rows behind the cursor.
LEMMA PageIsFirst ==
  ASSUME GlobalInv, NEW r \in NewRows, NEW p \in PageRows, r.offset <= p.offset
  PROVE  r \in PageRows
<1> DEFINE below(x) == {u \in NewRows : u.offset < x.offset}
<1>0. GlobalLimit \in Nat
  BY GlobalAssumption
<1>1. NewRows \in SUBSET runEvents
  BY DEF NewRows
<1>2. Orderable(NewRows)
  BY <1>1, RunEventsOrderable DEF GlobalInv
<1>3. p \in NewRows /\ Cardinality(below(p)) < GlobalLimit
  BY DEF PageRows
<1>4. IsFiniteSet(NewRows) /\ \A u \in NewRows : u.offset \in Nat
  BY <1>2 DEF Orderable
<1>5. below(r) \subseteq below(p)
  BY <1>3, <1>4
<1>6. IsFiniteSet(below(p))
  BY <1>4, FS_Subset
<1>7. IsFiniteSet(below(r)) /\ Cardinality(below(r)) <= Cardinality(below(p))
  BY <1>5, <1>6, FS_Subset
<1>8. Cardinality(below(r)) \in Nat /\ Cardinality(below(p)) \in Nat
  BY <1>6, <1>7, FS_CardinalityType
<1>9. Cardinality(below(r)) < GlobalLimit
  BY <1>0, <1>3, <1>7, <1>8
<1> QED
  BY <1>9 DEF PageRows

\* A poll sends, in order, every committed row of the user from the old cursor
\* to the new one.
LEMMA PollSends ==
  ASSUME GlobalInv, Poll
  PROVE  /\ cursor' \in Nat /\ cursor < cursor'
         /\ \E p \in PageRows : p.offset = cursor'
         /\ \A p \in PageRows : p \in runEvents /\ p.conv \in Mine
                                /\ cursor < p.offset /\ p.offset <= cursor'
         /\ \A r \in NewRows : r.offset <= cursor' => r \in PageRows
<1>1. PageRows \in SUBSET runEvents /\ PageRows # {}
  BY DEF PageRows, NewRows, Poll
<1>2. Orderable(PageRows)
  BY <1>1, RunEventsOrderable DEF GlobalInv
<1>3. /\ cursor' \in Nat
      /\ \E p \in PageRows : p.offset = cursor'
      /\ \A p \in PageRows : p.offset <= cursor'
  BY <1>1, <1>2, MaxOffsetOf DEF Poll
<1>4. \A p \in PageRows : p \in runEvents /\ p.conv \in Mine /\ cursor < p.offset
  <2>1. \A p \in PageRows : p \in runEvents /\ p.conv \in Mine /\ p.offset > cursor
    BY DEF PageRows, NewRows
  <2>2. cursor \in Nat /\ \A p \in PageRows : p.offset \in Nat
    BY <1>2 DEF GlobalInv, SocketTypes, Orderable
  <2> QED
    BY <2>1, <2>2
<1>5. \A r \in NewRows : r.offset <= cursor' => r \in PageRows
  BY <1>3, PageIsFirst
<1> QED
  BY <1>3, <1>4, <1>5

-----------------------------------------------------------------------------
(* The invariant                                                             *)

LEMMA GlobalInit == Init => GlobalInv
<1> SUFFICES ASSUME Init PROVE GlobalInv
  OBVIOUS
<1>1. StoreInv
  BY InitInv DEF Init
<1>2. OffsetsUnique(AllRows)
  BY DEF Init, StoreInit, OffsetsUnique, AllRows
<1>3. connected = FALSE /\ start = 0 /\ cursor = 0 /\ sent = <<>>
  BY DEF Init
<1>4. SocketTypes
  <2>1. sent \in Seq(Row)
    BY <1>3
  <2> QED
    BY <1>3, <2>1 DEF SocketTypes
<1>5. SocketInv
  BY <1>3 DEF SocketInv
<1> QED
  BY <1>1, <1>2, <1>4, <1>5 DEF GlobalInv

LEMMA StoreMoves ==
  ASSUME GlobalInv, [Next]_vars
  PROVE  [StoreNext]_storeVars
BY DEF Next, HandlerStep, CrashAll, Connect, Poll, Disconnect, StoreNext, vars

LEMMA StoreKept ==
  ASSUME GlobalInv, [Next]_vars
  PROVE  StoreInv' /\ OffsetsUnique(AllRows)' /\ runEvents \subseteq runEvents'
<1>1. [StoreNext]_storeVars
  BY StoreMoves
<1> QED
  BY <1>1, NextInv, UniqueNext DEF GlobalInv

\* The connection keeps what it sent while the store goes on.
LEMMA SocketKept ==
  ASSUME GlobalInv, [Next]_vars, UNCHANGED <<start, cursor, sent>>, connected' \in BOOLEAN
  PROVE  SocketTypes' /\ SocketInv'
<1>1. runEvents \subseteq runEvents'
  BY StoreKept
<1> QED
  BY <1>1 DEF GlobalInv, SocketTypes, SocketInv

\* The cursor of a new connection: the newest committed row of anybody.
LEMMA CurrentOffsetType ==
  ASSUME GlobalInv
  PROVE  CurrentOffset \in Nat
<1> DEFINE S == {r.offset : r \in runEvents}
<1>1. Orderable(runEvents)
  BY RunEventsOrderable DEF GlobalInv
<1>2. \A x \in {0} \cup S : x \in Nat
  BY <1>1 DEF Orderable
<1>3. \E x \in {0} \cup S : \A y \in {0} \cup S : x >= y
  <2>1. CASE runEvents = {}
    BY <2>1
  <2>2. CASE runEvents # {}
    <3>1. PICK r \in runEvents : \A u \in runEvents : u.offset <= r.offset
      BY <1>1, <2>2, NewestRow
    <3>2. r.offset \in {0} \cup S /\ \A y \in {0} \cup S : r.offset >= y
      BY <1>1, <3>1 DEF Orderable
    <3> QED
      BY <3>2
  <2> QED
    BY <2>1, <2>2
<1>4. Max({0} \cup S) \in {0} \cup S
  <2> HIDE DEF S
  <2> QED
    BY <1>3 DEF Max
<1> QED
  BY <1>2, <1>4 DEF CurrentOffset

LEMMA ConnectInv ==
  ASSUME GlobalInv, Connect
  PROVE  SocketTypes' /\ SocketInv'
<1>1. CurrentOffset \in Nat
  BY CurrentOffsetType
<1>2. connected' = TRUE /\ start' = CurrentOffset /\ cursor' = CurrentOffset /\ sent' = <<>>
  BY DEF Connect
<1>3. SocketTypes'
  BY <1>1, <1>2 DEF SocketTypes
<1>4. SocketInv'
  BY <1>2 DEF SocketInv
<1> QED
  BY <1>3, <1>4

LEMMA Concatenated ==
  ASSUME NEW S, NEW s \in Seq(S), NEW t \in Seq(S)
  PROVE  /\ s \o t \in Seq(S) /\ Len(s) \in Nat /\ Len(t) \in Nat
         /\ Len(s \o t) = Len(s) + Len(t)
         /\ DOMAIN (s \o t) = 1 .. (Len(s) + Len(t))
         /\ \A i \in 1 .. (Len(s) + Len(t)) :
              (s \o t)[i] = IF i <= Len(s) THEN s[i] ELSE t[i - Len(s)]
<1>1. s \o t \in Seq(S) /\ Len(s) \in Nat /\ Len(t) \in Nat
  OBVIOUS
<1>2. Len(s \o t) = Len(s) + Len(t)
  OBVIOUS
<1>3. DOMAIN (s \o t) = 1 .. (Len(s) + Len(t))
  BY <1>1, <1>2
<1>4. \A i \in 1 .. (Len(s) + Len(t)) :
        (s \o t)[i] = IF i <= Len(s) THEN s[i] ELSE t[i - Len(s)]
  BY <1>1, <1>2
<1> QED
  BY <1>1, <1>2, <1>3, <1>4

\* What a poll adds comes behind what was sent.
LEMMA PollExtends ==
  ASSUME GlobalInv, Poll
  PROVE  /\ sent' \in Seq(Row) /\ Len(sent) <= Len(sent')
         /\ \A i \in 1 .. Len(sent) : sent'[i] = sent[i]
         /\ \A i \in DOMAIN sent' : i \notin 1 .. Len(sent) => sent'[i] \in PageRows
         /\ \A i, j \in DOMAIN sent' :
              i \notin 1 .. Len(sent) /\ i < j => sent'[i].offset < sent'[j].offset
         /\ \A p \in PageRows : \E i \in DOMAIN sent' : sent'[i] = p
<1> DEFINE page == InOffsetOrder(PageRows)
           n == Cardinality(PageRows)
           m == Len(sent)
<1>1. PageRows \in SUBSET runEvents /\ PageRows \subseteq Row
  BY DEF PageRows, NewRows, GlobalInv, StoreInv, StoreTypeOK
<1>2. Orderable(PageRows)
  BY <1>1, RunEventsOrderable DEF GlobalInv
<1>3. /\ n \in Nat /\ page \in Seq(PageRows) /\ DOMAIN page = 1 .. n
      /\ \A i, j \in 1 .. n : i < j => page[i].offset < page[j].offset
      /\ \A p \in PageRows : \E i \in 1 .. n : page[i] = p
  BY <1>2, OrderedRows
<1>4. sent \in Seq(Row) /\ sent' = sent \o page
  BY DEF Poll, GlobalInv, SocketTypes
<1> HIDE DEF page, n
<1>5. page \in Seq(Row) /\ Len(page) = n /\ \A i \in 1 .. n : page[i] \in PageRows
  BY <1>1, <1>3
<1>6. /\ sent' \in Seq(Row) /\ Len(sent') = m + n /\ m \in Nat
      /\ DOMAIN sent' = 1 .. (m + n)
      /\ \A i \in 1 .. (m + n) : sent'[i] = IF i <= m THEN sent[i] ELSE page[i - m]
  BY <1>4, <1>5, Concatenated
<1>7. \A i \in 1 .. m : sent'[i] = sent[i]
  BY <1>3, <1>6
<1>8. \A i \in DOMAIN sent' : i \notin 1 .. m => i - m \in 1 .. n /\ sent'[i] = page[i - m]
  BY <1>3, <1>6
<1>9. \A i \in DOMAIN sent' : i \notin 1 .. m => sent'[i] \in PageRows
  BY <1>5, <1>8
<1>10. ASSUME NEW i \in DOMAIN sent', NEW j \in DOMAIN sent', i \notin 1 .. m, i < j
       PROVE  sent'[i].offset < sent'[j].offset
  <2>1. j \notin 1 .. m /\ i - m < j - m
    BY <1>3, <1>6, <1>10
  <2> QED
    BY <1>3, <1>8, <1>10, <2>1
<1>11. ASSUME NEW p \in PageRows PROVE \E i \in DOMAIN sent' : sent'[i] = p
  <2>1. PICK k \in 1 .. n : page[k] = p
    BY <1>3
  <2>2. k + m \in DOMAIN sent' /\ k + m \notin 1 .. m /\ (k + m) - m = k
    BY <1>3, <1>6
  <2> QED
    BY <1>8, <2>1, <2>2
<1> QED
  BY <1>3, <1>6, <1>7, <1>9, <1>10, <1>11

LEMMA PollInv ==
  ASSUME GlobalInv, Poll
  PROVE  SocketTypes' /\ SocketInv'
<1>0. /\ cursor \in Nat /\ start \in Nat /\ sent \in Seq(Row) /\ connected \in BOOLEAN
      /\ \A i \in DOMAIN sent : sent[i] \in runEvents /\ sent[i].offset <= cursor
      /\ \A i, j \in DOMAIN sent : i < j => sent[i].offset < sent[j].offset
  BY DEF GlobalInv, SocketTypes, SocketInv
<1>1. UNCHANGED <<runEvents, start, connected>>
  BY DEF Poll, storeVars
<1>2. /\ cursor' \in Nat /\ cursor < cursor'
      /\ \E p \in PageRows : p.offset = cursor'
      /\ \A p \in PageRows : p \in runEvents /\ p.conv \in Mine
                             /\ cursor < p.offset /\ p.offset <= cursor'
  BY PollSends
<1>3. /\ sent' \in Seq(Row) /\ Len(sent) <= Len(sent')
      /\ \A i \in 1 .. Len(sent) : sent'[i] = sent[i]
      /\ \A i \in DOMAIN sent' : i \notin 1 .. Len(sent) => sent'[i] \in PageRows
      /\ \A i, j \in DOMAIN sent' :
           i \notin 1 .. Len(sent) /\ i < j => sent'[i].offset < sent'[j].offset
  BY PollExtends
<1>4. DOMAIN sent = 1 .. Len(sent)
  BY <1>0
<1>5. \A r \in runEvents : r.offset \in Nat
  BY DEF GlobalInv, StoreInv, StoreTypeOK, Row
<1>6. \A i \in DOMAIN sent' : sent'[i] \in runEvents' /\ sent'[i].offset <= cursor'
  BY <1>0, <1>1, <1>2, <1>3, <1>4, <1>5
<1>7. ASSUME NEW i \in DOMAIN sent', NEW j \in DOMAIN sent', i < j
      PROVE  sent'[i].offset < sent'[j].offset
  <2>1. CASE i \notin 1 .. Len(sent)
    BY <1>3, <1>7, <2>1
  <2>2. CASE i \in 1 .. Len(sent) /\ j \in 1 .. Len(sent)
    BY <1>0, <1>3, <1>4, <1>7, <2>2
  <2>3. CASE i \in 1 .. Len(sent) /\ j \notin 1 .. Len(sent)
    <3>1. sent'[i] = sent[i] /\ sent[i] \in runEvents /\ sent[i].offset <= cursor
      BY <1>0, <1>3, <1>4, <2>3
    <3>2. sent'[j] \in runEvents /\ cursor < sent'[j].offset
      BY <1>2, <1>3, <2>3
    <3> QED
      BY <1>0, <1>5, <3>1, <3>2
  <2> QED
    BY <2>1, <2>2, <2>3
<1>8. \E r \in runEvents' : r.conv \in Mine /\ r.offset = cursor'
  BY <1>1, <1>2
<1>9. SocketInv'
  BY <1>6, <1>7, <1>8 DEF SocketInv
<1>10. SocketTypes'
  BY <1>0, <1>1, <1>2, <1>3 DEF SocketTypes
<1> QED
  BY <1>9, <1>10

LEMMA GlobalNext == GlobalInv /\ [Next]_vars => GlobalInv'
<1> SUFFICES ASSUME GlobalInv, [Next]_vars PROVE GlobalInv'
  OBVIOUS
<1>0. StoreInv' /\ OffsetsUnique(AllRows)'
  BY StoreKept
<1>1. CASE Connect
  BY <1>0, <1>1, ConnectInv DEF GlobalInv
<1>2. CASE Poll
  BY <1>0, <1>2, PollInv DEF GlobalInv
<1>3. CASE HandlerStep \/ CrashAll \/ Disconnect \/ UNCHANGED vars
  <2>1. UNCHANGED <<start, cursor, sent>> /\ connected' \in BOOLEAN
    BY <1>3 DEF HandlerStep, CrashAll, Disconnect, vars, globalVars, GlobalInv, SocketTypes
  <2> QED
    BY <1>0, <2>1, SocketKept DEF GlobalInv
<1> QED
  BY <1>1, <1>2, <1>3 DEF Next

\* The inductive invariant: whatever the handlers and the connection do, no
\* offset is used twice and the rows sent rise by offset up to the cursor
\* (send_new_global_events, run_events_stream_offset_seq).
THEOREM GlobalInvariant == Spec => []GlobalInv
<1> QED
  BY GlobalInit, GlobalNext, PTL DEF Spec

\* Type correctness of the renderer's socket.
THEOREM GlobalTypeCorrect == Spec => []TypeOK
<1>1. GlobalInv => TypeOK
  BY DEF GlobalInv, StoreInv, SocketTypes, TypeOK
<1> QED
  BY <1>1, GlobalInvariant, PTL

\* Each conversation reaches the renderer in the order of its log and no event
\* twice, for any number of conversations, although the query orders by
\* stream_offset and never looks at seq.
THEOREM GlobalConversationOrder == Spec => []ConversationOrder
<1>1. ASSUME GlobalInv PROVE ConversationOrder
  <2> SUFFICES ASSUME NEW i \in DOMAIN sent, NEW j \in DOMAIN sent, i < j,
                      sent[i].conv = sent[j].conv
               PROVE  sent[i].seq < sent[j].seq
    BY DEF ConversationOrder
  <2> DEFINE a == sent[i]
             b == sent[j]
  <2>1. a \in runEvents /\ b \in runEvents /\ a.offset < b.offset
    BY <1>1 DEF GlobalInv, SocketInv
  <2>2. /\ a.seq \in Nat /\ b.seq \in Nat /\ a.offset \in Nat /\ b.offset \in Nat
    BY <1>1, <2>1 DEF GlobalInv, StoreInv, StoreTypeOK, Row
  <2>3. CASE a.seq = b.seq
    <3>1. a = b
      BY <1>1, <2>1, <2>3 DEF GlobalInv, StoreInv, CommittedInv
    <3> QED
      BY <2>1, <2>2, <3>1
  <2>4. CASE b.seq < a.seq
    <3>1. PICK t \in Txn : TRUE
      BY EventStoreAssumption
    <3>2. a \in Visible(t) /\ b \in Visible(t)
      BY <2>1 DEF Visible
    <3>3. b.offset < a.offset
      BY <1>1, <2>4, <3>2 DEF GlobalInv, StoreInv, OffsetInv
    <3> QED
      BY <2>1, <2>2, <3>3
  <2> QED
    BY <2>2, <2>3, <2>4
<1> QED
  BY <1>1, GlobalInvariant, PTL

\* What the connection may not do: move its cursor past a committed row of its
\* user that it does not send.
PassesNothingCommitted ==
  [][connected /\ connected' =>
       \A r \in runEvents :
         r.conv \in Mine /\ cursor < r.offset /\ r.offset <= cursor' => r \in SentRows']_vars

\* For any number of conversations a poll sends all that it passes.  A row that
\* is missed all the same was not committed when the cursor passed its offset.
THEOREM GlobalPassesNothing == Spec => PassesNothingCommitted
<1>1. ASSUME GlobalInv, [Next]_vars, connected, connected', NEW r \in runEvents,
             r.conv \in Mine, cursor < r.offset, r.offset <= cursor'
      PROVE  r \in SentRows'
  <2>1. cursor \in Nat /\ r.offset \in Nat
    BY <1>1 DEF GlobalInv, SocketTypes, StoreInv, StoreTypeOK, Row
  <2>2. CASE Poll
    <3>1. r \in NewRows
      BY <1>1, <2>1 DEF NewRows
    <3>2. r \in PageRows
      BY <1>1, <2>2, <3>1, PollSends
    <3> QED
      BY <1>1, <2>2, <3>2, PollExtends DEF SentRows
  <2>3. CASE ~Poll
    <3>1. cursor' = cursor
      BY <1>1, <2>3 DEF Next, HandlerStep, CrashAll, Connect, Disconnect, vars, globalVars
    <3> QED
      BY <1>1, <2>1, <3>1
  <2> QED
    BY <2>2, <2>3
<1>2. GlobalInv /\ [Next]_vars =>
        [connected /\ connected' =>
           \A r \in runEvents :
             r.conv \in Mine /\ cursor < r.offset /\ r.offset <= cursor' => r \in SentRows']_vars
  BY <1>1
<1> QED
  BY <1>2, GlobalInvariant, PTL DEF Spec, PassesNothingCommitted

-----------------------------------------------------------------------------
(* A user with one conversation                                              *)

LEMMA NothingSkippedNext ==
  ASSUME \A c, d \in Mine : c = d, GlobalInv, NothingSkipped, [Next]_vars
  PROVE  NothingSkipped'
<1> SUFFICES ASSUME connected', NEW r \in runEvents', r.conv \in Mine,
                    start' < r.offset, r.offset <= cursor'
             PROVE  r \in SentRows'
  BY DEF NothingSkipped
<1>0. cursor \in Nat /\ start \in Nat /\ StoreInv'
  BY StoreKept DEF GlobalInv, SocketTypes
<1>1. r.offset \in Nat
  BY <1>0 DEF StoreInv, StoreTypeOK, Row
<1>2. CASE Connect
  BY <1>1, <1>2, CurrentOffsetType DEF Connect
<1>3. CASE Poll
  <2>1. UNCHANGED <<runEvents, start>> /\ connected
    BY <1>3 DEF Poll, storeVars
  <2>2. CASE r.offset <= cursor
    <3>1. r \in SentRows
      BY <2>1, <2>2 DEF NothingSkipped
    <3>2. /\ \A i \in 1 .. Len(sent) : sent'[i] = sent[i]
          /\ sent' \in Seq(Row) /\ Len(sent) <= Len(sent') /\ sent \in Seq(Row)
      BY <1>3, PollExtends DEF GlobalInv, SocketTypes
    <3>3. DOMAIN sent = 1 .. Len(sent) /\ DOMAIN sent' = 1 .. Len(sent')
          /\ Len(sent) \in Nat /\ Len(sent') \in Nat
      BY <3>2
    <3>4. PICK i \in 1 .. Len(sent) : sent[i] = r
      BY <3>1, <3>3 DEF SentRows
    <3>5. i \in DOMAIN sent' /\ sent'[i] = r
      BY <3>2, <3>3, <3>4
    <3> QED
      BY <3>5 DEF SentRows
  <2>3. CASE ~(r.offset <= cursor)
    <3>1. r \in NewRows
      BY <1>0, <1>1, <2>1, <2>3 DEF NewRows
    <3>2. r \in PageRows
      BY <1>3, <3>1, PollSends
    <3> QED
      BY <1>3, <3>2, PollExtends DEF SentRows
  <2> QED
    BY <2>2, <2>3
<1>4. CASE HandlerStep \/ CrashAll \/ Disconnect \/ UNCHANGED vars
  <2>1. UNCHANGED <<start, cursor, sent>> /\ connected
    BY <1>4 DEF HandlerStep, CrashAll, Disconnect, vars, globalVars
  <2>2. CASE r \in runEvents
    BY <2>1, <2>2 DEF NothingSkipped, SentRows
  <2>3. CASE r \notin runEvents
    <3>1. PICK e \in runEvents : e.conv \in Mine /\ e.offset = cursor
      BY <1>0, <1>1, <2>1 DEF GlobalInv, SocketInv
    <3>2. r.conv = e.conv
      BY <3>1
    <3>3. e.offset < r.offset
      BY <2>3, <3>2, StoreMoves, CommittedIsNewer DEF GlobalInv
    <3> QED
      BY <1>0, <1>1, <2>1, <3>1, <3>3
  <2> QED
    BY <2>2, <2>3
<1> QED
  BY <1>2, <1>3, <1>4 DEF Next

\* For the user of one conversation, and for the events with an offset above the
\* start of the connection: whatever the page limit and however many other
\* conversations store events, none of them is passed by the cursor unsent.  With
\* two conversations one may be (global_skips).  Nothing is said of an event that
\* drew its offset before Connect and commits after it, below the start that a
\* foreign conversation has set: the connection never sends it.
THEOREM GlobalNothingSkipped ==
  ASSUME \A c, d \in Mine : c = d
  PROVE  Spec => []NothingSkipped
<1>1. Init => NothingSkipped
  BY DEF Init, NothingSkipped
<1>2. GlobalInv /\ NothingSkipped /\ [Next]_vars => NothingSkipped'
  BY NothingSkippedNext
<1> QED
  BY <1>1, <1>2, GlobalInvariant, PTL DEF Spec
===============================================================================
