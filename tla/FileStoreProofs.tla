---------------------------- MODULE FileStoreProofs ----------------------------
(***************************************************************************)
(* Proofs about FileStore, for any sessions, requests and failures.  The   *)
(* invariant says who holds the file and the row at each stage of a write, *)
(* that what it expects is still so while it holds the file, and who may   *)
(* write after a stranger has.                                             *)
(***************************************************************************)
EXTENDS FileStore, TLAPS

\* The stages at which a session holds the advisory lock of the file.
Holds(s) == req[s].pc \in {"check", "put", "insert"}
Passed(s) == req[s].pc \in {"put", "insert"}

\* What the stage of a request says of its other fields.
StageInv ==
  \A s \in Session :
    /\ At(s, "fetch") => req[s].kind \in {"edit", "save"}
    /\ At(s, "begun") \/ Holds(s) => req[s].kind \in {"write", "edit", "save"}
    /\ req[s].missed => Holds(s) \/ At(s, "cleanup")

\* Who holds the file and the row.
HoldInv ==
  /\ \A s \in Session : Holds(s) <=> fileLock = s
  /\ \A s \in Session : rowLock = s => Passed(s) /\ lock # NoLock
  /\ rowLock = Dropped => fileLock = Dropped
  /\ \A s \in Session : Passed(s) /\ (req[s].removes \/ req[s].under # 0) => rowLock = s

\* The revision a request expects and the one its content comes from.
RevisionInv ==
  \A s \in Session :
    /\ known[s] <= Latest
    /\ Passed(s) => req[s].expected = Latest
    /\ req[s].kind = "write" => req[s].from = req[s].expected
    /\ req[s].kind = "edit" /\ At(s, "fetch") => req[s].expected <= Latest
    /\ req[s].kind = "edit" /\ (At(s, "begun") \/ Holds(s)) =>
         req[s].expected <= req[s].from /\ req[s].from <= Latest

\* Once a stranger has written, nobody who may yet write is one.
StrangerInv ==
  lock # NoLock =>
    /\ strangers <= 1
    /\ strangers > 0 =>
         \A s \in Session : /\ Passed(s) => req[s].removes \/ Permits(s)
                            /\ At(s, "check") => ~req[s].missed

\* The version a session has put is in the bucket.
VersionInv ==
  \A s \in Session :
    At(s, "insert") => [key |-> Latest + 1, version |-> req[s].version] \in objects

FileInv ==
  /\ TypeOK
  /\ StageInv
  /\ HoldInv
  /\ RevisionInv
  /\ StrangerInv
  /\ VersionInv
  /\ NothingOverwritten
  /\ LockOutlivesWrite
  /\ RevisionsReadable

-----------------------------------------------------------------------------
(* Types *)

\* The numbers a request takes over from the state.
LEMMA Numbers ==
  ASSUME TypeOK
  PROVE  /\ Latest \in Nat
         /\ lock.token \in Nat /\ lock.lease \in Nat /\ DeadLease \in Nat
         /\ NoLock \in LockRow
         /\ NoRequest \in RequestRow
<1>1. Latest \in Nat
  BY DEF TypeOK, Latest
<1>2. lock.token \in Nat /\ lock.lease \in Nat
  BY DEF TypeOK, LockRow
<1>3. DeadLease \in Nat
  BY <1>2 DEF DeadLease
<1>4. NoLock \in LockRow
  BY DEF NoLock, LockRow
<1>5. NoRequest \in RequestRow
  BY DEF NoRequest, RequestRow
<1>6. QED
  BY <1>1, <1>2, <1>3, <1>4, <1>5

LEMMA TypeInit ==
  ASSUME FileStoreAssumption, Init
  PROVE  TypeOK
<1>1. revisions \in Seq([from : Nat, kind : {"write", "edit", "save"}, object : ObjectVersion])
  BY DEF Init
<1>2. lock \in LockRow /\ NoRequest \in RequestRow
  BY DEF Init, NoLock, LockRow, NoRequest, RequestRow
<1>3. req \in [Session -> RequestRow]
  BY <1>2 DEF Init
<1>4. QED
  BY <1>1, <1>2, <1>3 DEF Init, TypeOK

LEMMA OneRequest ==
  ASSUME req \in [Session -> RequestRow], NEW s \in Session, NEW x \in RequestRow,
         req' = [req EXCEPT ![s] = x]
  PROVE  req' \in [Session -> RequestRow]
OBVIOUS

\* A commit follows a put.
LEMMA CommitStage ==
  ASSUME NEW s \in Session, WriteSucceeds(s) \/ ReplyLost(s) \/ CommitUnknown(s)
  PROVE  CommitRevision(s) /\ At(s, "insert")
BY DEF WriteSucceeds, ReplyLost, CommitUnknown

\* Every action leaves a request of the right form.
LEMMA RequestType ==
  ASSUME TypeOK, StageInv, NEW s \in Session,
         SessionAsks(s) \/ HandlerStep(s) \/ SessionFault(s)
  PROVE  req' \in [Session -> RequestRow]
<1>0. /\ req \in [Session -> RequestRow] /\ req[s] \in RequestRow
      /\ known[s] \in Nat /\ puts \in Nat /\ puts + 1 \in Nat
  BY DEF TypeOK
<1>1. CASE AskWrite(s)
  <2>1. ASSUME NEW r \in {0, known[s]}
        PROVE  [NoRequest EXCEPT !.pc = "begun", !.kind = "write", !.expected = r, !.from = r,
                                     !.dead = DeadLease] \in RequestRow
    BY <1>0, <2>1, Numbers DEF NoRequest, RequestRow, Releases
  <2>2. QED
    BY <1>1, <1>0, <2>1 DEF AskWrite
<1>2. CASE AskEdit(s)
  <2>1. ASSUME NEW k \in {"edit", "save"}
        PROVE  [NoRequest EXCEPT !.pc = "fetch", !.kind = k, !.expected = known[s], !.from = known[s]] \in RequestRow
    BY <1>0, <2>1, Numbers DEF NoRequest, RequestRow, Releases
  <2>2. QED
    BY <1>2, <1>0, <2>1 DEF AskEdit
<1>3. CASE AskLock(s)
  <2>1. ASSUME NEW k \in {"acquire", "release", "release_token"}
        PROVE  [NoRequest EXCEPT !.pc = "lock", !.kind = k, !.dead = DeadLease] \in RequestRow
    BY <1>0, <2>1, Numbers DEF NoRequest, RequestRow, Releases
  <2>2. QED
    BY <1>3, <1>0, <2>1 DEF AskLock
<1>4. CASE FetchToEdit(s)
  <2>1. [req[s] EXCEPT !.pc = "begun", !.from = Latest, !.dead = DeadLease] \in RequestRow
    BY <1>0, Numbers DEF RequestRow
  <2>2. QED
    BY <1>4, <1>0, <2>1 DEF FetchToEdit
<1>5. CASE FetchToSave(s)
  <2>1. [req[s] EXCEPT !.pc = "begun", !.expected = Latest, !.dead = DeadLease] \in RequestRow
    BY <1>0, Numbers DEF RequestRow
  <2>2. QED
    BY <1>5, <1>0, <2>1 DEF FetchToSave
<1>6. CASE LockFile(s)
  <2>1. [req[s] EXCEPT !.pc = "check"] \in RequestRow
    BY <1>0, Numbers DEF RequestRow
  <2>2. QED
    BY <1>6, <1>0, <2>1 DEF LockFile
<1>7. CASE CheckPasses(s)
  <2>1. [req[s] EXCEPT !.pc = "put", !.removes = Finds(s) /\ ExpiredFor(s),
                             !.under = IF Finds(s) /\ LiveFor(s) THEN lock.token ELSE 0] \in RequestRow
    BY <1>0, Numbers DEF RequestRow
  <2>2. QED
    BY <1>7, <1>0, <2>1 DEF CheckPasses
<1>8. CASE PutObject(s)
  <2>1. [req[s] EXCEPT !.pc = "insert", !.version = puts + 1] \in RequestRow
    BY <1>0, Numbers DEF RequestRow
  <2>2. QED
    BY <1>8, <1>0, <2>1 DEF PutObject
<1>9. CASE CommitUnknown(s) \/ StatementFails(s)
  <2>1. [req[s] EXCEPT !.pc = "cleanup"] \in RequestRow
    BY <1>0, Numbers DEF RequestRow
  <2>2. QED
    BY <1>9, <1>0, <2>1 DEF CommitUnknown, StatementFails
<1>10. CASE Grant(s)
  <2>1. ASSUME NEW t \in Session, NEW b \in BOOLEAN
        PROVE  [req[t] EXCEPT !.missed = @ \/ b] \in RequestRow
    <3>1. req[t] \in RequestRow
      BY DEF TypeOK
    <3>2. req[t].missed \/ b \in BOOLEAN
      BY <3>1 DEF RequestRow
    <3>3. [req[t] EXCEPT !.missed = @ \/ b] = [req[t] EXCEPT !.missed = req[t].missed \/ b]
      OBVIOUS
    <3>4. QED
      BY <3>1, <3>2, <3>3 DEF RequestRow
  <2>2. PICK waiting : req' = [t \in Session |->
                 IF t = s THEN NoRequest
                 ELSE [req[t] EXCEPT !.missed = @ \/ t \in waiting]]
    BY <1>10 DEF Grant
  <2>3. \A t \in Session : [req[t] EXCEPT !.missed = @ \/ t \in waiting] \in RequestRow
    BY <2>1
  <2>4. QED
    BY <2>2, <2>3, Numbers
<1>11. CASE Answer(s)
  BY <1>11, <1>0, Numbers DEF Answer
<1>12. CASE UNCHANGED req
  BY <1>0, <1>12
<1>13. QED
  BY <1>1, <1>2, <1>3, <1>4, <1>5, <1>6, <1>7, <1>8, <1>9, <1>10, <1>11, <1>12
     DEF SessionAsks, HandlerStep, SessionFault, FetchFile, CheckFile, StoreRevision, LockRequest,
         Read, NothingToEdit, CheckRefuses, WriteSucceeds, CleanUp, AcquireRefused, Extend, Release,
         ReleaseRefused, ReplyLost, PutFails, HandlerDies

LEMMA FileVarsType ==
  ASSUME TypeOK, StageInv, NEW s \in Session,
         SessionAsks(s) \/ HandlerStep(s) \/ SessionFault(s)
  PROVE  /\ revisions' \in Seq([from : Nat, kind : {"write", "edit", "save"},
                                object : ObjectVersion])
         /\ objects' \subseteq ObjectVersion /\ puts' \in Nat /\ marked' \subseteq Nat
<1>0. /\ Latest \in Nat /\ Latest + 1 \in Nat /\ puts \in Nat /\ puts + 1 \in Nat
      /\ req[s] \in RequestRow /\ objects \subseteq ObjectVersion /\ marked \subseteq Nat
      /\ revisions \in Seq([from : Nat, kind : {"write", "edit", "save"}, object : ObjectVersion])
  BY Numbers DEF TypeOK
<1>1. CASE UNCHANGED fileVars
  BY <1>0, <1>1 DEF fileVars
<1>2. CASE Put
  <2>1. [key |-> Latest + 1, version |-> puts + 1] \in ObjectVersion
    BY <1>0 DEF ObjectVersion
  <2>2. QED
    BY <1>0, <1>2, <2>1 DEF Put
<1>3. CASE DeleteObject(req[s].expected + 1)
  <2>1. req[s].expected + 1 \in Nat
    BY <1>0 DEF RequestRow
  <2>2. QED
    BY <1>0, <1>3, <2>1 DEF DeleteObject
<1>4. CASE CommitRevision(s) /\ At(s, "insert")
  <2> DEFINE x == [from |-> req[s].from, kind |-> req[s].kind,
                   object |-> [key |-> Latest + 1, version |-> req[s].version]]
  <2>1. req[s].kind \in {"write", "edit", "save"} /\ req[s].from \in Nat /\ req[s].version \in Nat
    BY <1>0, <1>4 DEF StageInv, Holds, At, RequestRow
  <2>2. x \in [from : Nat, kind : {"write", "edit", "save"}, object : ObjectVersion]
    BY <1>0, <2>1 DEF ObjectVersion
  <2>3. revisions' = Append(revisions, x)
    BY <1>4 DEF CommitRevision
  <2> HIDE DEF x
  <2>4. QED
    BY <1>0, <1>4, <2>2, <2>3 DEF CommitRevision
<1>5. QED
  BY <1>1, <1>2, <1>3, <1>4, CommitStage
     DEF SessionAsks, HandlerStep, SessionFault, FetchFile, CheckFile, StoreRevision, LockRequest,
         Read, AskWrite, AskEdit, AskLock, FetchToEdit, NothingToEdit, FetchToSave, LockFile,
         CheckRefuses, CheckPasses, PutObject, CleanUp, AcquireRefused, Extend, Grant, Release,
         ReleaseRefused, PutFails, StatementFails, HandlerDies

LEMMA LockVarsType ==
  ASSUME TypeOK, NEW s \in Session, SessionAsks(s) \/ HandlerStep(s) \/ SessionFault(s)
  PROVE  /\ lock' \in LockRow /\ expired' \in BOOLEAN /\ leases' \in Nat /\ strangers' \in Nat
         /\ token' \in [Session -> Nat]
<1>0. /\ lock \in LockRow /\ expired \in BOOLEAN /\ leases \in Nat /\ leases + 1 \in Nat
      /\ strangers \in Nat /\ strangers + 1 \in Nat
      /\ token \in [Session -> Nat] /\ NoLock \in LockRow /\ lock.token \in Nat
  BY Numbers DEF TypeOK
<1>1. CASE UNCHANGED <<lockVars, token>>
  BY <1>0, <1>1 DEF lockVars
<1>2. CASE CommitRevision(s) /\ UNCHANGED token
  BY <1>0, <1>2 DEF CommitRevision
<1>3. CASE Extend(s)
  <2>1. [lock EXCEPT !.lease = leases + 1] \in LockRow
    BY <1>0 DEF LockRow
  <2>2. QED
    BY <1>0, <1>3, <2>1 DEF Extend
<1>4. CASE Grant(s)
  <2>1. [token |-> leases + 1, lease |-> leases + 1, user |-> UserOf[s], run |-> RunOf[s]]
          \in LockRow
    BY <1>0 DEF LockRow
  <2>2. QED
    BY <1>0, <1>4, <2>1 DEF Grant
<1>5. CASE Release(s)
  BY <1>0, <1>5 DEF Release
<1>6. QED
  BY <1>1, <1>2, <1>3, <1>4, <1>5
     DEF SessionAsks, HandlerStep, SessionFault, FetchFile, CheckFile, StoreRevision, LockRequest,
         Read, AskWrite, AskEdit, AskLock, FetchToEdit, NothingToEdit, FetchToSave, LockFile,
         CheckRefuses, CheckPasses, PutObject, WriteSucceeds, CleanUp, AcquireRefused,
         ReleaseRefused, ReplyLost, CommitUnknown, PutFails, StatementFails, HandlerDies

LEMMA HoldVarsType ==
  ASSUME TypeOK, NEW s \in Session, SessionAsks(s) \/ HandlerStep(s) \/ SessionFault(s)
  PROVE  fileLock' \in Session \cup {Nobody, Dropped} /\ rowLock' \in Session \cup {Nobody, Dropped}
<1>0. fileLock \in Session \cup {Nobody, Dropped} /\ rowLock \in Session \cup {Nobody, Dropped}
  BY DEF TypeOK
<1>1. CASE UNCHANGED holdVars
  BY <1>0, <1>1 DEF holdVars
<1>2. CASE LockFile(s) \/ CheckRefuses(s) \/ CheckPasses(s)
  BY <1>0, <1>2 DEF LockFile, CheckRefuses, CheckPasses
<1>3. CASE CommitRevision(s) \/ Drop(s)
  BY <1>0, <1>3 DEF CommitRevision, Drop
<1>4. QED
  BY <1>1, <1>2, <1>3, CommitStage
     DEF SessionAsks, HandlerStep, SessionFault, FetchFile, CheckFile, StoreRevision, LockRequest,
         Read, AskWrite, AskEdit, AskLock, FetchToEdit, NothingToEdit, FetchToSave, PutObject,
         CleanUp, AcquireRefused, Extend, Grant, Release, ReleaseRefused, PutFails,
         StatementFails, HandlerDies

LEMMA CountersType ==
  ASSUME TypeOK, NEW s \in Session, SessionAsks(s) \/ HandlerStep(s) \/ SessionFault(s)
  PROVE  known' \in [Session -> Nat] /\ asked' \in Nat /\ faults' \in Nat
<1>0. known \in [Session -> Nat] /\ Latest \in Nat /\ Latest + 1 \in Nat /\ asked \in Nat
      /\ faults \in Nat
  BY Numbers DEF TypeOK
<1>1. CASE UNCHANGED <<known, counters>>
  BY <1>0, <1>1 DEF counters
<1>2. CASE UNCHANGED known /\ (Ask \/ Fault)
  BY <1>0, <1>2 DEF Ask, Fault
<1>3. CASE Read(s) \/ WriteSucceeds(s)
  BY <1>0, <1>3 DEF Read, WriteSucceeds, counters
<1>4. QED
  BY <1>1, <1>2, <1>3
     DEF SessionAsks, HandlerStep, SessionFault, FetchFile, CheckFile, StoreRevision, LockRequest,
         AskWrite, AskEdit, AskLock, FetchToEdit, NothingToEdit, FetchToSave, LockFile,
         CheckRefuses, CheckPasses, PutObject, CleanUp, AcquireRefused, Extend, Grant, Release,
         ReleaseRefused, ReplyLost, CommitUnknown, PutFails, StatementFails, HandlerDies

LEMMA TypeStep ==
  ASSUME FileStoreAssumption, TypeOK, StageInv, [Next]_vars
  PROVE  TypeOK'
<1>1. ASSUME NEW s \in Session, SessionAsks(s) \/ HandlerStep(s) \/ SessionFault(s)
      PROVE  TypeOK'
  BY <1>1, RequestType, FileVarsType, LockVarsType, HoldVarsType, CountersType DEF TypeOK
<1>2. CASE RollBack
  BY <1>2 DEF RollBack, TypeOK, fileVars, lockVars, counters
<1>3. CASE Expire
  BY <1>3 DEF Expire, TypeOK, fileVars, holdVars, counters
<1>4. CASE UNCHANGED vars
  BY <1>4 DEF vars, TypeOK, fileVars, lockVars, holdVars, counters
<1>5. QED
  BY <1>1, <1>2, <1>3, <1>4 DEF Next

-----------------------------------------------------------------------------
(* Stages and locks *)

\* A step of s changes no other request, but that a write may miss a row that s
\* replaces.
LEMMA OthersKeep ==
  ASSUME TypeOK, NEW s \in Session, SessionAsks(s) \/ HandlerStep(s) \/ SessionFault(s),
         NEW t \in Session, t # s
  PROVE  /\ req'[t].pc = req[t].pc /\ req'[t].kind = req[t].kind
         /\ req'[t].expected = req[t].expected /\ req'[t].from = req[t].from
         /\ req'[t].under = req[t].under /\ req'[t].removes = req[t].removes
         /\ req'[t].version = req[t].version
         /\ req'[t].missed => req[t].missed \/ (Grant(s) /\ At(t, "check"))
<1>0. req \in [Session -> RequestRow] /\ req[t] \in RequestRow
  BY DEF TypeOK
<1>1. CASE Grant(s)
  <2>1. PICK waiting \in SUBSET {u \in Session : At(u, "check") /\ Finds(u) /\ LiveFor(u)} :
          req' = [u \in Session |->
                 IF u = s THEN NoRequest
                 ELSE [req[u] EXCEPT !.missed = @ \/ u \in waiting]]
    BY <1>1 DEF Grant
  <2>2. req'[t] = [req[t] EXCEPT !.missed = @ \/ t \in waiting]
    BY <2>1
  <2>3. t \in waiting => At(t, "check")
    BY <2>1
  <2>4. QED
    BY <1>0, <1>1, <2>2, <2>3 DEF RequestRow
<1>2. CASE req'[t] = req[t]
  BY <1>2
<1>3. QED
  BY <1>0, <1>1, <1>2
     DEF SessionAsks, HandlerStep, SessionFault, FetchFile, CheckFile, StoreRevision, LockRequest,
         Read, AskWrite, AskEdit, AskLock, FetchToEdit, NothingToEdit, FetchToSave, LockFile,
         CheckRefuses, CheckPasses, PutObject, WriteSucceeds, CleanUp, AcquireRefused, Extend,
         Release, ReleaseRefused, ReplyLost, CommitUnknown, PutFails, StatementFails,
         HandlerDies, Answer

LEMMA StageStep ==
  ASSUME TypeOK, StageInv, [Next]_vars
  PROVE  StageInv'
<1>1. ASSUME NEW s \in Session, SessionAsks(s) \/ HandlerStep(s) \/ SessionFault(s)
      PROVE  StageInv'
  <2> DEFINE Good(x) == /\ x.pc = "fetch" => x.kind \in {"edit", "save"}
                        /\ x.pc \in {"begun", "check", "put", "insert"} =>
                             x.kind \in {"write", "edit", "save"}
                        /\ x.missed => x.pc \in {"check", "put", "insert", "cleanup"}
  <2>0. req \in [Session -> RequestRow] /\ \A t \in Session : Good(req[t])
    BY DEF TypeOK, StageInv, At, Holds
  <2>1. \A t \in Session : t # s => Good(req'[t])
    <3>1. TAKE t \in Session
    <3>2. HAVE t # s
    <3>3. QED
      BY <1>1, <2>0, <3>2, OthersKeep DEF At
  <2>2. Good(req'[s])
    <3>0. req[s] \in RequestRow /\ Good(req[s])
      BY <2>0
    <3>1. CASE AskWrite(s)
      BY <2>0, <3>1 DEF AskWrite, NoRequest
    <3>2. CASE AskEdit(s)
      BY <2>0, <3>2 DEF AskEdit, NoRequest
    <3>3. CASE AskLock(s)
      BY <2>0, <3>3 DEF AskLock, NoRequest
    <3>4. CASE FetchToEdit(s) \/ FetchToSave(s)
      BY <2>0, <3>0, <3>4 DEF FetchToEdit, FetchToSave, At, RequestRow
    <3>5. CASE LockFile(s) \/ PutObject(s)
      BY <2>0, <3>0, <3>5 DEF LockFile, PutObject, At, RequestRow
    <3>6. CASE CheckPasses(s)
      BY <2>0, <3>0, <3>6 DEF CheckPasses, CanCheck, At, RequestRow
    <3>7. CASE CommitUnknown(s) \/ StatementFails(s)
      BY <2>0, <3>0, <3>7 DEF CommitUnknown, StatementFails, At, RequestRow
    <3>8. CASE Answer(s) \/ Grant(s)
      BY <2>0, <3>8 DEF Answer, Grant, NoRequest
    <3>9. CASE UNCHANGED req
      BY <3>0, <3>9
    <3>10. QED
      BY <1>1, <3>1, <3>2, <3>3, <3>4, <3>5, <3>6, <3>7, <3>8, <3>9
         DEF SessionAsks, HandlerStep, SessionFault, FetchFile, CheckFile, StoreRevision,
             LockRequest, Read, NothingToEdit, CheckRefuses, WriteSucceeds, CleanUp,
             AcquireRefused, Extend, Release, ReleaseRefused, ReplyLost, PutFails, HandlerDies
  <2>3. QED
    BY <2>1, <2>2 DEF StageInv, At, Holds
<1>2. CASE UNCHANGED req
  BY <1>2 DEF StageInv, At, Holds
<1>3. QED
  BY <1>1, <1>2 DEF Next, RollBack, Expire, vars

\* At most one session holds the file, and while a session holds the row nobody
\* changes the lock.
LEMMA OneHolder ==
  ASSUME HoldInv, NEW s \in Session, NEW t \in Session, Holds(s), Holds(t)
  PROVE  s = t
BY DEF HoldInv

LEMMA RowHeld ==
  ASSUME FileStoreAssumption, HoldInv, RowFree
  PROVE  rowLock \notin Session
BY DEF FileStoreAssumption, HoldInv, RowFree

LEMMA HoldStep ==
  ASSUME FileStoreAssumption, TypeOK, HoldInv, [Next]_vars
  PROVE  HoldInv'
<1>1. ASSUME NEW s \in Session, SessionAsks(s) \/ HandlerStep(s) \/ SessionFault(s)
      PROVE  HoldInv'
  <2>0. /\ req \in [Session -> RequestRow] /\ req[s] \in RequestRow
        /\ Nobody \notin Session /\ Dropped \notin Session /\ Nobody # Dropped
        /\ NoRequest.pc = "idle"
    BY DEF TypeOK, FileStoreAssumption, NoRequest
  <2>1. \A t \in Session : t # s => /\ req'[t].pc = req[t].pc
                                    /\ req'[t].under = req[t].under
                                    /\ req'[t].removes = req[t].removes
    BY <1>1, OthersKeep
  <2>2. CASE AskWrite(s) \/ AskEdit(s) \/ AskLock(s)
    <3>1. /\ req'[s].pc \in {"begun", "fetch", "lock"} /\ req[s].pc = "idle"
          /\ UNCHANGED <<lock, fileLock, rowLock>>
      BY <2>0, <2>2 DEF AskWrite, AskEdit, AskLock, At, NoRequest, lockVars, holdVars
    <3>2. QED
      BY <2>0, <2>1, <3>1 DEF HoldInv, Holds, Passed
  <2>3. CASE FetchFile(s) \/ CleanUp(s) \/ AcquireRefused(s) \/ ReleaseRefused(s)
    <3>1. /\ req'[s].pc \in {"begun", "idle"} /\ req[s].pc \in {"fetch", "cleanup", "lock"}
          /\ UNCHANGED <<lock, fileLock, rowLock>>
      BY <2>0, <2>3 DEF FetchFile, FetchToEdit, NothingToEdit, FetchToSave, CleanUp,
         AcquireRefused, ReleaseRefused, CanLock, Answer, At, lockVars, holdVars, RequestRow
    <3>2. QED
      BY <2>0, <2>1, <3>1 DEF HoldInv, Holds, Passed
  <2>4. CASE Extend(s) \/ Grant(s) \/ Release(s)
    <3>1. /\ req'[s].pc = "idle" /\ req[s].pc = "lock" /\ RowFree /\ UNCHANGED <<fileLock, rowLock>>
      BY <2>0, <2>4 DEF Extend, Grant, Release, CanLock, Answer, At, holdVars
    <3>2. QED
      BY <2>0, <2>1, <3>1, RowHeld DEF HoldInv, Holds, Passed
  <2>5. CASE LockFile(s)
    <3>1. /\ req'[s].pc = "check" /\ req[s].pc = "begun" /\ UNCHANGED <<lock, rowLock>>
          /\ fileLock = Nobody /\ fileLock' = s
      BY <2>0, <2>5 DEF LockFile, At, lockVars, RequestRow
    <3>2. QED
      BY <2>0, <2>1, <3>1 DEF HoldInv, Holds, Passed
  <2>6. CASE CheckRefuses(s)
    <3>1. /\ req'[s].pc = "idle" /\ req[s].pc = "check" /\ UNCHANGED <<lock, rowLock>>
          /\ fileLock' = Nobody
      BY <2>0, <2>6 DEF CheckRefuses, CanCheck, Answer, At, lockVars
    <3>2. QED
      BY <2>0, <2>1, <3>1 DEF HoldInv, Holds, Passed
  <2>7. CASE CheckPasses(s)
    <3>1. /\ req'[s].pc = "put" /\ req[s].pc = "check" /\ UNCHANGED <<lock, fileLock>>
          /\ rowLock' = IF Finds(s) THEN s ELSE rowLock
          /\ req'[s].removes => Finds(s)
          /\ req'[s].under # 0 => Finds(s)
          /\ Finds(s) => lock # NoLock /\ rowLock = Nobody
      BY <2>0, <2>7 DEF CheckPasses, CanCheck, Finds, RowFree, At, lockVars, RequestRow
    <3>2. QED
      BY <2>0, <2>1, <3>1 DEF HoldInv, Holds, Passed
  <2>8. CASE PutObject(s)
    <3>1. /\ req'[s].pc = "insert" /\ req[s].pc = "put" /\ UNCHANGED <<lock, fileLock, rowLock>>
          /\ UNCHANGED <<req[s].under, req[s].removes>>
      BY <2>0, <2>8 DEF PutObject, At, lockVars, holdVars, RequestRow
    <3>2. QED
      BY <2>0, <2>1, <3>1 DEF HoldInv, Holds, Passed
  <2>9. CASE WriteSucceeds(s) \/ ReplyLost(s) \/ CommitUnknown(s)
    <3>1. /\ req'[s].pc \in {"idle", "cleanup"} /\ req[s].pc = "insert"
          /\ fileLock' = Nobody /\ rowLock' = IF rowLock = s THEN Nobody ELSE rowLock
      BY <2>0, <2>9 DEF WriteSucceeds, ReplyLost, CommitUnknown, CommitRevision, Answer, At, RequestRow
    <3>2. fileLock = s /\ rowLock \notin Session \ {s}
      BY <3>1 DEF HoldInv, Holds, Passed
    <3>3. QED
      BY <2>0, <2>1, <3>1, <3>2 DEF HoldInv, Holds, Passed
  <2>10. CASE PutFails(s) \/ StatementFails(s) \/ HandlerDies(s)
    <3>1. /\ req'[s].pc \in {"idle", "cleanup"} /\ UNCHANGED lock /\ Drop(s)
      BY <2>0, <2>10 DEF PutFails, StatementFails, HandlerDies, Answer, At, lockVars, RequestRow
    <3>2. QED
      BY <2>0, <2>1, <3>1 DEF HoldInv, Holds, Passed, Drop
  <2>11. CASE Read(s)
    BY <2>11 DEF Read, HoldInv, Holds, Passed, lockVars, holdVars
  <2>12. QED
    BY <1>1, <2>2, <2>3, <2>4, <2>5, <2>6, <2>7, <2>8, <2>9, <2>10, <2>11
       DEF SessionAsks, HandlerStep, SessionFault, CheckFile, StoreRevision, LockRequest
<1>2. CASE RollBack
  BY <1>2, FileStoreAssumption DEF RollBack, FileStoreAssumption, HoldInv, Holds, Passed, lockVars
<1>3. CASE Expire
  BY <1>3 DEF Expire, HoldInv, Holds, Passed, holdVars
<1>4. CASE UNCHANGED vars
  BY <1>4 DEF vars, lockVars, holdVars, HoldInv, Holds, Passed
<1>5. QED
  BY <1>1, <1>2, <1>3, <1>4 DEF Next

-----------------------------------------------------------------------------
(* Revisions *)

LEMMA CommitFacts ==
  ASSUME TypeOK, NEW s \in Session, CommitRevision(s)
  PROVE  /\ Latest' = Latest + 1
         /\ \A n \in 1 .. Latest : revisions'[n] = revisions[n]
         /\ revisions'[Latest + 1].from = req[s].from
         /\ revisions'[Latest + 1].kind = req[s].kind
         /\ revisions'[Latest + 1].object = [key |-> Latest + 1, version |-> req[s].version]
<1> DEFINE x == [from |-> req[s].from, kind |-> req[s].kind,
                 object |-> [key |-> Latest + 1, version |-> req[s].version]]
           R == [from : Nat, kind : {"write", "edit", "save"}, object : ObjectVersion]
<1>1. revisions \in Seq(R) /\ revisions' = Append(revisions, x)
  BY DEF TypeOK, CommitRevision
<1> HIDE DEF x, R
<1>2. /\ Len(revisions') = Len(revisions) + 1
      /\ \A n \in 1 .. Len(revisions) : revisions'[n] = revisions[n]
      /\ revisions'[Len(revisions) + 1] = x
  BY <1>1
<1>3. /\ x.from = req[s].from /\ x.kind = req[s].kind
      /\ x.object = [key |-> Latest + 1, version |-> req[s].version]
  BY DEF x
<1>4. QED
  BY <1>2, <1>3 DEF Latest

\* The commit of a revision, whether its answer arrives or not.
Commits(s) == WriteSucceeds(s) \/ ReplyLost(s) \/ CommitUnknown(s)

LEMMA RevisionsMove ==
  ASSUME NEW s \in Session, SessionAsks(s) \/ HandlerStep(s) \/ SessionFault(s), ~Commits(s)
  PROVE  UNCHANGED revisions
BY DEF Commits, SessionAsks, HandlerStep, SessionFault, FetchFile, CheckFile, StoreRevision,
       LockRequest, Read, AskWrite, AskEdit, AskLock, FetchToEdit, NothingToEdit, FetchToSave,
       LockFile, CheckRefuses, CheckPasses, PutObject, CleanUp, AcquireRefused, Extend, Grant,
       Release, ReleaseRefused, PutFails, StatementFails, HandlerDies, Put, DeleteObject,
       fileVars

LEMMA RevisionStep ==
  ASSUME TypeOK, HoldInv, RevisionInv, [Next]_vars
  PROVE  RevisionInv'
<1> DEFINE Good(x, latest) ==
             /\ x.pc \in {"put", "insert"} => x.expected = latest
             /\ x.kind = "write" => x.from = x.expected
             /\ x.kind = "edit" /\ x.pc = "fetch" => x.expected <= latest
             /\ x.kind = "edit" /\ x.pc \in {"begun", "check", "put", "insert"} =>
                  x.expected <= x.from /\ x.from <= latest
<1>0. /\ req \in [Session -> RequestRow] /\ known \in [Session -> Nat] /\ Latest \in Nat
      /\ \A t \in Session : Good(req[t], Latest) /\ known[t] <= Latest
  BY Numbers DEF TypeOK, RevisionInv, Passed, Holds, At
<1>1. ASSUME NEW s \in Session, SessionAsks(s) \/ HandlerStep(s) \/ SessionFault(s)
      PROVE  RevisionInv'
  <2>0. req[s] \in RequestRow /\ Good(req[s], Latest) /\ known[s] <= Latest /\ known[s] \in Nat
    BY <1>0
  <2>1. CASE Commits(s)
    <3>1. CommitRevision(s) /\ req[s].pc = "insert"
      BY <2>1 DEF Commits, WriteSucceeds, ReplyLost, CommitUnknown, At
    <3>2. Latest' = Latest + 1
      BY <3>1, CommitFacts
    <3>3. req'[s] = NoRequest \/ req'[s] = [req[s] EXCEPT !.pc = "cleanup"]
      BY <1>0, <2>1 DEF Commits, WriteSucceeds, ReplyLost, CommitUnknown, Answer
    <3>4. Good(req'[s], Latest')
      BY <2>0, <3>1, <3>3 DEF NoRequest, RequestRow
    <3>5. \A t \in Session : known'[t] <= Latest'
      BY <1>0, <2>1, <3>2 DEF Commits, WriteSucceeds, ReplyLost, CommitUnknown
    <3>6. ASSUME NEW t \in Session, t # s
          PROVE  Good(req'[t], Latest')
      <4>1. req[t].pc \notin {"check", "put", "insert"}
        BY <3>1, <3>6, OneHolder DEF Holds
      <4>2. /\ req'[t].pc = req[t].pc /\ req'[t].kind = req[t].kind
            /\ req'[t].expected = req[t].expected /\ req'[t].from = req[t].from
        BY <1>1, <3>6, OthersKeep
      <4>3. req[t] \in RequestRow /\ Good(req[t], Latest)
        BY <1>0
      <4>4. req[t].expected \in Nat /\ req[t].from \in Nat
        BY <4>3 DEF RequestRow
      <4>5. QED
        BY <1>0, <3>2, <4>1, <4>2, <4>3, <4>4
    <3>7. QED
      BY <3>4, <3>5, <3>6 DEF RevisionInv, Passed, Holds, At
  <2>2. CASE ~Commits(s)
    <3>1. Latest' = Latest
      BY <1>1, <2>2, RevisionsMove DEF Latest
    <3>2. \A t \in Session : known'[t] <= Latest
      <4>1. CASE UNCHANGED known
        BY <1>0, <4>1
      <4>2. CASE Read(s)
        BY <1>0, <4>2 DEF Read
      <4>3. QED
        BY <1>1, <2>2, <4>1, <4>2
           DEF Commits, SessionAsks, HandlerStep, SessionFault, FetchFile, CheckFile,
               StoreRevision, LockRequest, AskWrite, AskEdit, AskLock, FetchToEdit,
               NothingToEdit, FetchToSave, LockFile, CheckRefuses, CheckPasses, PutObject,
               CleanUp, AcquireRefused, Extend, Grant, Release, ReleaseRefused, PutFails,
               StatementFails, HandlerDies
    <3>3. ASSUME NEW t \in Session, t # s
          PROVE  Good(req'[t], Latest)
      BY <1>0, <1>1, <3>3, OthersKeep
    <3>4. Good(req'[s], Latest)
      <4>0. req[s].expected \in Nat /\ req[s].from \in Nat /\ DeadLease \in Nat
        BY <2>0, Numbers DEF RequestRow
      <4>1. CASE AskWrite(s)
        BY <1>0, <4>1 DEF AskWrite, NoRequest
      <4>2. CASE AskEdit(s)
        BY <1>0, <2>0, <4>2 DEF AskEdit, NoRequest
      <4>3. CASE AskLock(s)
        BY <1>0, <4>3 DEF AskLock, NoRequest
      <4>4. CASE FetchToEdit(s)
        BY <1>0, <2>0, <4>0, <4>4 DEF FetchToEdit, At, RequestRow
      <4>5. CASE FetchToSave(s)
        BY <1>0, <2>0, <4>0, <4>5 DEF FetchToSave, At, RequestRow
      <4>6. CASE LockFile(s)
        BY <1>0, <2>0, <4>0, <4>6 DEF LockFile, At, RequestRow
      <4>7. CASE CheckPasses(s)
        BY <1>0, <2>0, <4>0, <4>7 DEF CheckPasses, CanCheck, At, RequestRow
      <4>8. CASE PutObject(s)
        BY <1>0, <2>0, <4>0, <4>8 DEF PutObject, At, RequestRow
      <4>9. CASE StatementFails(s)
        BY <1>0, <2>0, <4>0, <4>9 DEF StatementFails, At, RequestRow
      <4>10. CASE Answer(s) \/ Grant(s)
        BY <1>0, <4>10 DEF Answer, Grant, NoRequest
      <4>11. CASE UNCHANGED req
        BY <2>0, <4>11
      <4>12. QED
        BY <1>1, <2>2, <4>1, <4>2, <4>3, <4>4, <4>5, <4>6, <4>7, <4>8, <4>9, <4>10, <4>11
           DEF Commits, SessionAsks, HandlerStep, SessionFault, FetchFile, CheckFile,
               StoreRevision, LockRequest, Read, NothingToEdit, CheckRefuses, CleanUp,
               AcquireRefused, Extend, Release, ReleaseRefused, PutFails, HandlerDies
    <3>5. QED
      BY <3>1, <3>2, <3>3, <3>4 DEF RevisionInv, Passed, Holds, At
  <2>3. QED
    BY <2>1, <2>2
<1>2. CASE UNCHANGED <<revisions, known, req>>
  BY <1>2 DEF RevisionInv, Passed, Holds, At, Latest
<1>3. QED
  BY <1>1, <1>2 DEF Next, RollBack, Expire, vars, fileVars

LEMMA OverwriteStep ==
  ASSUME TypeOK, StageInv, RevisionInv, NothingOverwritten, [Next]_vars
  PROVE  NothingOverwritten'
<1>1. ASSUME NEW s \in Session, Commits(s)
      PROVE  NothingOverwritten'
  <2>1. CommitRevision(s) /\ req[s].pc = "insert"
    BY <1>1 DEF Commits, WriteSucceeds, ReplyLost, CommitUnknown, At
  <2>2. /\ Latest' = Latest + 1 /\ Latest \in Nat
        /\ \A n \in 1 .. Latest : revisions'[n] = revisions[n]
        /\ revisions'[Latest + 1].from = req[s].from
        /\ revisions'[Latest + 1].kind = req[s].kind
    BY <2>1, CommitFacts, Numbers
  <2>3. req[s] \in RequestRow
    BY DEF TypeOK
  <2>4. req[s].expected \in Nat /\ req[s].from \in Nat
    BY <2>3 DEF RequestRow
  <2>5. req[s].kind # "save" => req[s].from = Latest
    BY <2>1, <2>2, <2>4 DEF StageInv, RevisionInv, Passed, Holds, At
  <2>6. ASSUME NEW n \in 1 .. (Latest + 1), revisions'[n].kind # "save"
        PROVE  revisions'[n].from = n - 1
    <3>1. CASE n \in 1 .. Latest
      BY <2>2, <2>6, <3>1 DEF NothingOverwritten
    <3>2. CASE n = Latest + 1
      BY <2>2, <2>5, <2>6, <3>2
    <3>3. QED
      BY <2>2, <3>1, <3>2
  <2>7. QED
    BY <2>2, <2>6 DEF NothingOverwritten
<1>2. CASE UNCHANGED revisions
  BY <1>2 DEF NothingOverwritten, Latest
<1>3. QED
  BY <1>1, <1>2, RevisionsMove DEF Next, RollBack, Expire, vars, fileVars

-----------------------------------------------------------------------------
(* Contents *)

LEMMA ObjectsStay ==
  ASSUME NEW s \in Session, SessionAsks(s) \/ HandlerStep(s) \/ SessionFault(s)
  PROVE  objects \subseteq objects'
BY DEF SessionAsks, HandlerStep, SessionFault, FetchFile, CheckFile, StoreRevision,
       LockRequest, Read, AskWrite, AskEdit, AskLock, FetchToEdit, NothingToEdit, FetchToSave,
       LockFile, CheckRefuses, CheckPasses, PutObject, WriteSucceeds, CleanUp, AcquireRefused,
       Extend, Grant, Release, ReleaseRefused, ReplyLost, CommitUnknown, PutFails,
       StatementFails, HandlerDies, CommitRevision, Put, DeleteObject, fileVars

\* Who is at the insert has just put the object, or was there before.
LEMMA AtInsert ==
  ASSUME TypeOK, NEW s \in Session, SessionAsks(s) \/ HandlerStep(s) \/ SessionFault(s),
         req'[s].pc = "insert"
  PROVE  PutObject(s) \/ (UNCHANGED req /\ ~Commits(s))
<1>0. req \in [Session -> RequestRow] /\ req[s] \in RequestRow
  BY DEF TypeOK
<1>1. CASE Answer(s) \/ Grant(s)
  BY <1>0, <1>1 DEF Answer, Grant, NoRequest
<1>2. CASE AskWrite(s) \/ AskEdit(s) \/ AskLock(s)
  BY <1>0, <1>2 DEF AskWrite, AskEdit, AskLock, NoRequest
<1>3. CASE FetchToEdit(s) \/ FetchToSave(s) \/ LockFile(s) \/ CheckPasses(s)
  BY <1>0, <1>3 DEF FetchToEdit, FetchToSave, LockFile, CheckPasses, RequestRow
<1>4. CASE CommitUnknown(s) \/ StatementFails(s)
  BY <1>0, <1>4 DEF CommitUnknown, StatementFails, RequestRow
<1>5. CASE Read(s) \/ PutObject(s)
  BY <1>0, <1>5 DEF Read, PutObject, Commits, WriteSucceeds, ReplyLost, CommitUnknown,
                    CommitRevision, fileVars, lockVars, holdVars
<1>6. QED
  BY <1>1, <1>2, <1>3, <1>4, <1>5
     DEF SessionAsks, HandlerStep, SessionFault, FetchFile, CheckFile, StoreRevision,
         LockRequest, NothingToEdit, CheckRefuses, WriteSucceeds, CleanUp, AcquireRefused,
         Extend, Release, ReleaseRefused, ReplyLost, PutFails, HandlerDies

LEMMA VersionStep ==
  ASSUME TypeOK, HoldInv, VersionInv, [Next]_vars
  PROVE  VersionInv'
<1>1. ASSUME NEW s \in Session, SessionAsks(s) \/ HandlerStep(s) \/ SessionFault(s),
             NEW t \in Session, req'[t].pc = "insert"
      PROVE  [key |-> Latest' + 1, version |-> req'[t].version] \in objects'
  <2>0. req \in [Session -> RequestRow] /\ req[s] \in RequestRow
    BY DEF TypeOK
  <2>1. CASE t = s /\ PutObject(s)
    <3>1. req'[s].version = puts + 1 /\ Latest' = Latest
      BY <2>0, <2>1 DEF PutObject, Put, Latest, RequestRow
    <3>2. [key |-> Latest + 1, version |-> puts + 1] \in objects'
      BY <2>1 DEF PutObject, Put
    <3>3. QED
      BY <2>1, <3>1, <3>2
  <2>2. CASE t = s /\ UNCHANGED req /\ ~Commits(s)
    <3>1. Latest' = Latest
      BY <1>1, <2>2, RevisionsMove DEF Latest
    <3>2. QED
      BY <1>1, <2>2, <3>1, ObjectsStay DEF VersionInv, At
  <2>3. CASE t # s
    <3>1. req[t].pc = "insert" /\ req'[t].version = req[t].version
      BY <1>1, <2>3, OthersKeep
    <3>2. ~Commits(s)
      BY <2>3, <3>1, OneHolder
         DEF Commits, WriteSucceeds, ReplyLost, CommitUnknown, Holds, At
    <3>3. Latest' = Latest
      BY <1>1, <3>2, RevisionsMove DEF Latest
    <3>4. QED
      BY <1>1, <3>1, <3>3, ObjectsStay DEF VersionInv, At
  <2>4. QED
    BY <1>1, <2>1, <2>2, <2>3, AtInsert
<1>2. CASE UNCHANGED <<req, fileVars>>
  BY <1>2 DEF VersionInv, At, Latest, fileVars
<1>3. QED
  BY <1>1, <1>2 DEF Next, RollBack, Expire, vars, VersionInv, At

LEMMA ReadableStep ==
  ASSUME TypeOK, VersionInv, RevisionsReadable, [Next]_vars
  PROVE  RevisionsReadable'
<1>1. ASSUME NEW s \in Session, SessionAsks(s) \/ HandlerStep(s) \/ SessionFault(s)
      PROVE  RevisionsReadable'
  <2>1. objects \subseteq objects' /\ Latest \in Nat
    BY <1>1, ObjectsStay, Numbers
  <2>2. CASE Commits(s)
    <3>1. CommitRevision(s) /\ At(s, "insert")
      BY <2>2, CommitStage DEF Commits
    <3>2. /\ Latest' = Latest + 1
          /\ \A n \in 1 .. Latest : revisions'[n] = revisions[n]
          /\ revisions'[Latest + 1].object \in objects
      BY <3>1, CommitFacts DEF VersionInv
    <3>3. ASSUME NEW n \in 1 .. (Latest + 1)
          PROVE  revisions'[n].object \in objects'
      <4>1. CASE n \in 1 .. Latest
        BY <2>1, <3>2, <4>1 DEF RevisionsReadable, Readable
      <4>2. CASE n = Latest + 1
        BY <2>1, <3>2, <4>2
      <4>3. QED
        BY <2>1, <4>1, <4>2
    <3>4. QED
      BY <3>2, <3>3 DEF RevisionsReadable, Readable
  <2>3. CASE ~Commits(s)
    BY <1>1, <2>1, <2>3, RevisionsMove DEF RevisionsReadable, Readable, Latest
  <2>4. QED
    BY <2>2, <2>3
<1>2. CASE UNCHANGED fileVars
  BY <1>2 DEF RevisionsReadable, Readable, Latest, fileVars
<1>3. QED
  BY <1>1, <1>2 DEF Next, RollBack, Expire, vars

-----------------------------------------------------------------------------
(* Writes under a lock *)

\* Who writes has just passed the check, has put the object, or was there before.
LEMMA EntersPassed ==
  ASSUME TypeOK, NEW s \in Session, SessionAsks(s) \/ HandlerStep(s) \/ SessionFault(s),
         req'[s].pc \in {"put", "insert"}
  PROVE  \/ CheckPasses(s) /\ req'[s].kind = req[s].kind
            /\ req'[s].removes = (Finds(s) /\ ExpiredFor(s))
            /\ req'[s].under = IF Finds(s) /\ LiveFor(s) THEN lock.token ELSE 0
         \/ /\ req[s].pc \in {"put", "insert"} /\ UNCHANGED <<lockVars, token>>
            /\ UNCHANGED <<req[s].kind, req[s].removes, req[s].under>>
<1>0. req \in [Session -> RequestRow] /\ req[s] \in RequestRow
  BY DEF TypeOK
<1>1. CASE Answer(s) \/ Grant(s)
  BY <1>0, <1>1 DEF Answer, Grant, NoRequest
<1>2. CASE AskWrite(s) \/ AskEdit(s) \/ AskLock(s)
  <2>1. req'[s].pc \in {"begun", "fetch", "lock"}
    BY <1>0, <1>2 DEF AskWrite, AskEdit, AskLock, NoRequest
  <2>2. QED
    BY <2>1
<1>3. CASE FetchToEdit(s) \/ FetchToSave(s) \/ LockFile(s)
  <2>1. req'[s].pc \in {"begun", "check"}
    BY <1>0, <1>3 DEF FetchToEdit, FetchToSave, LockFile, RequestRow
  <2>2. QED
    BY <2>1
<1>4. CASE CommitUnknown(s) \/ StatementFails(s)
  BY <1>0, <1>4 DEF CommitUnknown, StatementFails, RequestRow
<1>5. CASE CheckPasses(s)
  BY <1>0, <1>5 DEF CheckPasses, RequestRow
<1>6. CASE Read(s) \/ PutObject(s)
  BY <1>0, <1>6 DEF Read, PutObject, At, RequestRow
<1>7. QED
  BY <1>1, <1>2, <1>3, <1>4, <1>5, <1>6
     DEF SessionAsks, HandlerStep, SessionFault, FetchFile, CheckFile, StoreRevision,
         LockRequest, NothingToEdit, CheckRefuses, WriteSucceeds, CleanUp, AcquireRefused,
         Extend, Release, ReleaseRefused, ReplyLost, PutFails, HandlerDies

\* Who is at the check has just locked the file or was there before.
LEMMA EntersCheck ==
  ASSUME TypeOK, NEW s \in Session, SessionAsks(s) \/ HandlerStep(s) \/ SessionFault(s),
         req'[s].pc = "check"
  PROVE  req[s].pc \in {"begun", "check"} /\ req'[s].missed = req[s].missed
<1>0. req \in [Session -> RequestRow] /\ req[s] \in RequestRow
  BY DEF TypeOK
<1>1. CASE Answer(s) \/ Grant(s)
  BY <1>0, <1>1 DEF Answer, Grant, NoRequest
<1>2. CASE AskWrite(s) \/ AskEdit(s) \/ AskLock(s)
  BY <1>0, <1>2 DEF AskWrite, AskEdit, AskLock, NoRequest
<1>3. CASE FetchToEdit(s) \/ FetchToSave(s) \/ CheckPasses(s) \/ PutObject(s)
  BY <1>0, <1>3 DEF FetchToEdit, FetchToSave, CheckPasses, PutObject, RequestRow
<1>4. CASE CommitUnknown(s) \/ StatementFails(s)
  BY <1>0, <1>4 DEF CommitUnknown, StatementFails, RequestRow
<1>5. CASE Read(s) \/ LockFile(s)
  BY <1>0, <1>5 DEF Read, LockFile, At, RequestRow
<1>6. QED
  BY <1>1, <1>2, <1>3, <1>4, <1>5
     DEF SessionAsks, HandlerStep, SessionFault, FetchFile, CheckFile, StoreRevision,
         LockRequest, NothingToEdit, CheckRefuses, WriteSucceeds, CleanUp, AcquireRefused,
         Extend, Release, ReleaseRefused, ReplyLost, PutFails, HandlerDies

\* How a step changes the lock.
LEMMA LockMoves ==
  ASSUME NEW s \in Session, SessionAsks(s) \/ HandlerStep(s) \/ SessionFault(s)
  PROVE  \/ UNCHANGED <<lockVars, token>>
         \/ Commits(s) /\ CommitRevision(s) /\ At(s, "insert") /\ UNCHANGED token
         \/ (Extend(s) \/ Grant(s) \/ Release(s)) /\ RowFree /\ At(s, "lock")
BY DEF Commits, CanLock, SessionAsks, HandlerStep, SessionFault, FetchFile, CheckFile,
       StoreRevision, LockRequest, Read, AskWrite, AskEdit, AskLock, FetchToEdit,
       NothingToEdit, FetchToSave, LockFile, CheckRefuses, CheckPasses, PutObject,
       WriteSucceeds, CleanUp, AcquireRefused, Extend, Grant, Release, ReleaseRefused,
       ReplyLost, CommitUnknown, PutFails, StatementFails, HandlerDies

LEMMA OutlivesStep ==
  ASSUME FileStoreAssumption, TypeOK, HoldInv, LockOutlivesWrite, [Next]_vars
  PROVE  LockOutlivesWrite'
<1>1. ASSUME NEW s \in Session, SessionAsks(s) \/ HandlerStep(s) \/ SessionFault(s),
             NEW t \in Session, req'[t].pc \in {"put", "insert"}, req'[t].under # 0
      PROVE  lock'.token = req'[t].under
  <2>1. CASE t = s /\ CheckPasses(s)
    <3>1. lock' = lock
      BY <2>1 DEF CheckPasses, lockVars
    <3>2. req'[s].under = IF Finds(s) /\ LiveFor(s) THEN lock.token ELSE 0
      <4>1. req[s].pc = "check"
        BY <2>1 DEF CheckPasses, CanCheck, At
      <4>2. QED
        BY <1>1, <2>1, <4>1, EntersPassed
    <3>3. QED
      BY <1>1, <2>1, <3>1, <3>2
  <2>2. CASE t = s /\ ~CheckPasses(s)
    <3>1. /\ req[s].pc \in {"put", "insert"} /\ req'[s].under = req[s].under /\ lock' = lock
      BY <1>1, <2>2, EntersPassed DEF lockVars
    <3>2. QED
      BY <1>1, <2>2, <3>1 DEF LockOutlivesWrite, At
  <2>3. CASE t # s
    <3>1. req[t].pc \in {"put", "insert"} /\ req'[t].under = req[t].under
      BY <1>1, <2>3, OthersKeep
    <3>2. lock.token = req[t].under /\ rowLock = t
      BY <1>1, <3>1 DEF LockOutlivesWrite, At, HoldInv, Passed
    <3>3. ~(CommitRevision(s) /\ At(s, "insert"))
      BY <2>3, <3>1, OneHolder DEF Holds, At
    <3>4. ~RowFree
      BY <3>2, RowHeld
    <3>5. lock' = lock
      BY <1>1, <3>3, <3>4, LockMoves DEF lockVars
    <3>6. QED
      BY <3>1, <3>2, <3>5
  <2>4. QED
    BY <2>1, <2>2, <2>3
<1>2. CASE UNCHANGED <<req, lock>>
  BY <1>2 DEF LockOutlivesWrite, At
<1>3. QED
  BY <1>1, <1>2 DEF Next, RollBack, Expire, vars, lockVars, LockOutlivesWrite, At

\* Before a write by a stranger nobody else holds the file, and after it nobody
\* gets past the check who is one.
LEMMA StrangerStep ==
  ASSUME FileStoreAssumption, TypeOK, StageInv, HoldInv, StrangerInv, [Next]_vars
  PROVE  StrangerInv'
<1> DEFINE May(l, x, tk, t) ==
             \/ x.removes
             \/ IF l.run # NoRun THEN l.run = RunOf[t] ELSE l.user = UserOf[t]
             \/ x.kind = "write" /\ l.token = tk
<1>0. /\ strangers \in Nat
      /\ lock # NoLock /\ strangers > 0 =>
           \A t \in Session :
             /\ req[t].pc \in {"put", "insert"} => May(lock, req[t], token[t], t)
             /\ req[t].pc = "check" => ~req[t].missed
  BY DEF StrangerInv, Passed, At, Permits, HeldByActor, TypeOK
<1>1. ASSUME NEW s \in Session, SessionAsks(s) \/ HandlerStep(s) \/ SessionFault(s),
             lock' # NoLock
      PROVE  /\ strangers' <= 1
             /\ strangers' > 0 =>
                  \A t \in Session :
                    /\ req'[t].pc \in {"put", "insert"} => May(lock', req'[t], token'[t], t)
                    /\ req'[t].pc = "check" => ~req'[t].missed
  <2>0. req \in [Session -> RequestRow] /\ req[s] \in RequestRow /\ token \in [Session -> Nat]
    BY DEF TypeOK
  <2>1. CASE Commits(s) /\ CommitRevision(s) /\ At(s, "insert")
    <3>1. lock' = lock /\ ~req[s].removes
      BY <1>1, <2>1 DEF CommitRevision
    <3>2. strangers > 0 => Permits(s)
      BY <1>0, <1>1, <2>1, <3>1 DEF At, Permits, HeldByActor
    <3>3. strangers' <= 1
      BY <1>0, <1>1, <2>1, <3>1, <3>2 DEF CommitRevision, StrangerInv
    <3>4. \A t \in Session : req'[t].pc \notin {"check", "put", "insert"}
      <4>1. req'[s].pc \notin {"check", "put", "insert"}
        BY <2>0, <2>1 DEF Commits, WriteSucceeds, ReplyLost, CommitUnknown, Answer, NoRequest,
                          RequestRow
      <4>2. ASSUME NEW t \in Session, t # s
            PROVE  req'[t].pc \notin {"check", "put", "insert"}
        BY <1>1, <2>1, <4>2, OneHolder, OthersKeep DEF Holds, At
      <4>3. QED
        BY <4>1, <4>2
    <3>5. QED
      BY <3>3, <3>4
  <2>2. CASE Grant(s)
    BY <1>0, <2>2 DEF Grant
  <2>3. CASE Release(s)
    BY <1>1, <2>3 DEF Release
  <2>4. CASE Extend(s)
    <3>1. /\ lock # NoLock /\ strangers' = strangers /\ lock'.token = lock.token
          /\ lock'.run = lock.run /\ lock'.user = lock.user
          /\ req' = [req EXCEPT ![s] = NoRequest]
          /\ \A t \in Session : t # s => token'[t] = token[t]
      <4>1. lock \in LockRow
        BY DEF TypeOK
      <4>2. lock' = [lock EXCEPT !.lease = leases + 1]
        BY <2>4 DEF Extend
      <4>3. lock'.token = lock.token /\ lock'.run = lock.run /\ lock'.user = lock.user
        BY <4>1, <4>2 DEF LockRow
      <4>4. QED
        BY <2>0, <2>4, <4>3 DEF Extend, LiveFor, Answer
    <3>2. \A t \in Session : t # s => req'[t] = req[t]
      BY <2>0, <3>1
    <3>3. req'[s].pc = "idle"
      BY <2>0, <3>1 DEF NoRequest
    <3>4. QED
      BY <1>0, <1>1, <3>1, <3>2, <3>3 DEF StrangerInv
  <2>5. CASE UNCHANGED <<lockVars, token>>
    <3>0. lock' = lock /\ token' = token /\ strangers' = strangers /\ strangers <= 1
      BY <1>1, <2>5 DEF lockVars, StrangerInv
    <3>1. ASSUME NEW t \in Session, t # s, strangers > 0
          PROVE  /\ req'[t].pc \in {"put", "insert"} => May(lock', req'[t], token'[t], t)
                 /\ req'[t].pc = "check" => ~req'[t].missed
      <4>1. ~Grant(s)
        BY <1>0, <3>0, <3>1 DEF Grant
      <4>2. QED
        BY <1>0, <1>1, <3>0, <3>1, <4>1, OthersKeep
    <3>2. ASSUME strangers > 0, req'[s].pc = "check"
          PROVE  ~req'[s].missed
      <4>1. /\ req[s].pc \in {"begun", "check"}
            /\ req'[s].missed = req[s].missed
        BY <1>1, <3>2, EntersCheck
      <4>2. QED
        BY <1>0, <1>1, <3>0, <3>2, <4>1 DEF StageInv, Holds, At
    <3>3. ASSUME strangers > 0, req'[s].pc \in {"put", "insert"}
          PROVE  May(lock', req'[s], token'[s], s)
      <4>1. CASE CheckPasses(s) /\ req'[s].kind = req[s].kind
                 /\ req'[s].removes = (Finds(s) /\ ExpiredFor(s))
        <5>1. Finds(s)
          BY <1>0, <1>1, <3>0, <3>3, <4>1 DEF CheckPasses, CanCheck, Finds, At
        <5>2. ExpiredFor(s) \/ Permits(s)
          BY <4>1, <5>1 DEF CheckPasses, Refused, LiveFor, ExpiredFor, Finds
        <5>3. QED
          BY <3>0, <4>1, <5>1, <5>2 DEF Permits, HeldByActor
      <4>2. CASE req[s].pc \in {"put", "insert"} /\ UNCHANGED <<req[s].kind, req[s].removes>>
        BY <1>0, <1>1, <3>0, <3>3, <4>2
      <4>3. QED
        BY <1>1, <3>3, <4>1, <4>2, EntersPassed
    <3>4. QED
      BY <3>0, <3>1, <3>2, <3>3
  <2>6. QED
    BY <1>1, <2>1, <2>2, <2>3, <2>4, <2>5, LockMoves
<1>2. CASE UNCHANGED <<req, lock, token, strangers>>
  BY <1>2 DEF StrangerInv, Passed, At, Permits, HeldByActor
<1>3. QED
  BY <1>1, <1>2
     DEF Next, RollBack, Expire, vars, lockVars, StrangerInv, Passed, At, Permits, HeldByActor

-----------------------------------------------------------------------------
(* Theorems *)

LEMMA InitInv ==
  ASSUME FileStoreAssumption, Init
  PROVE  FileInv
<1>1. TypeOK
  BY TypeInit
<1>2. StageInv /\ HoldInv /\ RevisionInv /\ StrangerInv /\ VersionInv
  BY FileStoreAssumption
     DEF FileStoreAssumption, Init, StageInv, HoldInv, RevisionInv, StrangerInv, VersionInv,
         At, Holds, Passed, Latest, NoRequest
<1>3. NothingOverwritten /\ LockOutlivesWrite /\ RevisionsReadable
  BY DEF Init, NothingOverwritten, LockOutlivesWrite, RevisionsReadable, Latest, At, NoRequest
<1>4. QED
  BY <1>1, <1>2, <1>3 DEF FileInv

\* FileInv is an invariant: who holds the file and the row of its lock, that
\* what a write expects stays so while it holds the file, and who may write.
THEOREM FileInvariant == Spec => []FileInv
<1>1. Init => FileInv
  BY InitInv, FileStoreAssumption
<1>2. FileInv /\ [Next]_vars => FileInv'
  BY FileStoreAssumption, TypeStep, StageStep, HoldStep, RevisionStep, StrangerStep,
     VersionStep, OverwriteStep, OutlivesStep, ReadableStep DEF FileInv
<1>3. QED
  BY <1>1, <1>2, PTL DEF Spec

\* Type correctness of the file store.
THEOREM FileTypeCorrect == Spec => []TypeOK
<1>1. FileInv => TypeOK
  BY DEF FileInv
<1>2. QED
  BY <1>1, FileInvariant, PTL

\* No write or edit is lost (file_store.rs, write_revision): the content of each
\* revision comes from the revision before it.
THEOREM FileNothingOverwritten == Spec => []NothingOverwritten
<1>1. FileInv => NothingOverwritten
  BY DEF FileInv
<1>2. QED
  BY <1>1, FileInvariant, PTL

\* At most one write of another actor is committed under a lock
\* (file_lock.rs, acquire_lock and ensure_write_permitted_tx).
THEOREM FileOneStranger == Spec => []OneStranger
<1>1. FileInv => OneStranger
  BY DEF FileInv, StrangerInv, OneStranger
<1>2. QED
  BY <1>1, FileInvariant, PTL

\* A lock under which a write passed outlives the write (file_lock.rs,
\* load_active_lock_tx with FOR UPDATE).
THEOREM FileLockOutlivesWrite == Spec => []LockOutlivesWrite
<1>1. FileInv => LockOutlivesWrite
  BY DEF FileInv
<1>2. QED
  BY <1>1, FileInvariant, PTL

\* Every committed revision can be read, whatever failed writes cleaned up
\* (file_store.rs, cleanup_orphan_file_object, on a bucket with versions).
THEOREM FileRevisionsReadable == Spec => []RevisionsReadable
<1>1. FileInv => RevisionsReadable
  BY DEF FileInv
<1>2. QED
  BY <1>1, FileInvariant, PTL
=============================================================================
