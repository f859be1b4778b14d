------------------------------- MODULE FileStore -------------------------------
(***************************************************************************)
(* One file of a project: its revisions (file_store.rs), its lock          *)
(* (file_lock.rs) and the objects with its contents, in a bucket with      *)
(* versioning (rustfs.rs).                                                 *)
(*                                                                         *)
(* A session is a client with one request at a time: the backend of a run, *)
(* a preview tab, an API caller.  A write is a transaction that holds the  *)
(* advisory lock of the file up to its end, and the row of file_locks if   *)
(* it found one; meanwhile it puts the object.  The requests of locks take *)
(* another advisory lock, so only the row keeps them and a write apart;    *)
(* each of them is one action, at its commit.                              *)
(*                                                                         *)
(* CURRENT_TIMESTAMP is the time at which a transaction began: whether a   *)
(* lock has expired is for each request what it was when it began.         *)
(*                                                                         *)
(* Left out: contents, authorization, audit, the event of a write, the     *)
(* search index, and the storage of contents in the row itself.            *)
(***************************************************************************)
EXTENDS Naturals, Sequences

CONSTANTS
  Session,
  UserOf,       \* the user of each session
  RunOf,        \* the run in whose name a session works, or NoRun
  NoRun,
  Nobody,       \* no transaction, no user
  Dropped,      \* a transaction that failed and is not rolled back yet
  MaxRequests,  \* bound on the requests
  MaxFaults     \* bound on failures

ASSUME FileStoreAssumption ==
  /\ Nobody \notin Session
  /\ Dropped \notin Session
  /\ Nobody # Dropped
  /\ MaxRequests \in Nat
  /\ MaxFaults \in Nat

VARIABLES
  revisions,   \* the rows of file_revisions, by revision
  objects,     \* the versions in the bucket
  puts,
  marked,      \* keys whose latest version is a delete marker
  lock,        \* the row of file_locks, NoLock if there is none
  expired,     \* its expires_at has passed
  leases,      \* locks granted and extended so far
  strangers,   \* writes of others committed since the lock was granted
  fileLock,    \* who holds the advisory lock of the file
  rowLock,     \* who holds the row of file_locks
  known,       \* the revision a session last read or wrote
  token,       \* the lock token a session was given last
  req,         \* the request of each session
  asked, faults

fileVars == <<revisions, objects, puts, marked>>
lockVars == <<lock, expired, leases, strangers>>
holdVars == <<fileLock, rowLock>>
counters == <<asked, faults>>
vars == <<fileVars, lockVars, holdVars, known, token, req, counters>>

\* token names the row, lease one value of its expires_at.
NoLock == [token |-> 0, lease |-> 0, user |-> Nobody, run |-> NoRun]

\* kind: a write is sent with the revision its content comes from, an edit with
\* a revision but takes the content the server reads, a save has no revision.
\* expected, from: the revision it expects, the one its content comes from.
\* dead: the lease that had expired when the transaction began.  under: the
\* token of the lock under which it writes.  removes: it deleted the expired
\* row.  missed: it waited for a row that was replaced.
NoRequest == [pc |-> "idle", kind |-> "none", expected |-> 0, from |-> 0, dead |-> 0,
              under |-> 0, removes |-> FALSE, missed |-> FALSE, version |-> 0]

Init ==
  /\ revisions = <<>>
  /\ objects = {}
  /\ puts = 0
  /\ marked = {}
  /\ lock = NoLock
  /\ expired = FALSE
  /\ leases = 0
  /\ strangers = 0
  /\ fileLock = Nobody
  /\ rowLock = Nobody
  /\ known = [s \in Session |-> 0]
  /\ token = [s \in Session |-> 0]
  /\ req = [s \in Session |-> NoRequest]
  /\ asked = 0
  /\ faults = 0

At(s, place) == req[s].pc = place
Latest == Len(revisions)

\* Bounds of the model.
Ask == asked < MaxRequests /\ asked' = asked + 1 /\ UNCHANGED faults
Fault == faults < MaxFaults /\ faults' = faults + 1 /\ UNCHANGED asked

\* The request of s ends, with whatever answer.
Answer(s) == req' = [req EXCEPT ![s] = NoRequest]

-------------------------------------------------------------------------------
(* The lock as a request sees it *)

\* The lease that has expired by now.
DeadLease == IF expired THEN lock.lease ELSE 0

ExpiredFor(s) == lock # NoLock /\ lock.lease = req[s].dead
LiveFor(s) == lock # NoLock /\ lock.lease # req[s].dead

\* lock_held_by_actor: the lock of a run is that run's, the lock of a user also
\* of the user's runs.
HeldByActor(s) ==
  IF lock.run # NoRun THEN lock.run = RunOf[s] ELSE lock.user = UserOf[s]

\* ensure_write_permitted_tx accepts the actor, or the token a file_write names.
Permits(s) == HeldByActor(s) \/ (req[s].kind = "write" /\ lock.token = token[s])

\* Mutation of RowFree: SELECT without FOR UPDATE.
RowIgnored == TRUE

\* Nobody holds the row; who deleted it and has not committed holds it too.
RowFree == lock # NoLock => rowLock = Nobody

-------------------------------------------------------------------------------
(* Clients *)

\* A session reads the latest revision.
Read(s) ==
  /\ At(s, "idle")
  /\ known' = [known EXCEPT ![s] = Latest]
  /\ UNCHANGED <<fileVars, lockVars, holdVars, token, req, counters>>

\* file_write: the content comes from the revision that is sent; 0 creates.
AskWrite(s) ==
  /\ At(s, "idle")
  /\ Ask
  /\ \E r \in {0, known[s]} :
       req' = [req EXCEPT ![s] = [NoRequest EXCEPT
                 !.pc = "begun", !.kind = "write", !.expected = r, !.from = r,
                 !.dead = DeadLease]]
  /\ UNCHANGED <<fileVars, lockVars, holdVars, known, token>>

\* file_edit reads first, and so does the biwork_fs_write of a user that comes
\* without expected_revision.
AskEdit(s) ==
  /\ At(s, "idle")
  /\ Ask
  /\ \E k \in {"edit", "save"} :
       /\ k = "save" => RunOf[s] = NoRun
       /\ req' = [req EXCEPT ![s] = [NoRequest EXCEPT
                    !.pc = "fetch", !.kind = k, !.expected = known[s], !.from = known[s]]]
  /\ UNCHANGED <<fileVars, lockVars, holdVars, known, token>>

\* file_edit takes the content it reads and the revision the client sent.
FetchToEdit(s) ==
  /\ At(s, "fetch")
  /\ req[s].kind = "edit"
  /\ Latest > 0
  /\ req' = [req EXCEPT ![s].pc = "begun", ![s].from = Latest, ![s].dead = DeadLease]
  /\ UNCHANGED <<fileVars, lockVars, holdVars, known, token, counters>>

\* There is no file, or the text to replace is not in it.
NothingToEdit(s) ==
  /\ At(s, "fetch")
  /\ req[s].kind = "edit"
  /\ Answer(s)
  /\ UNCHANGED <<fileVars, lockVars, holdVars, known, token, counters>>

\* biwork_fs_write takes the client's content and the latest revision.
FetchToSave(s) ==
  /\ At(s, "fetch")
  /\ req[s].kind = "save"
  /\ req' = [req EXCEPT ![s].pc = "begun", ![s].expected = Latest, ![s].dead = DeadLease]
  /\ UNCHANGED <<fileVars, lockVars, holdVars, known, token, counters>>

AskLock(s) ==
  /\ At(s, "idle")
  /\ Ask
  /\ \E k \in {"acquire", "release", "release_token"} :
       /\ k = "release_token" => token[s] # 0
       /\ req' = [req EXCEPT ![s] = [NoRequest EXCEPT
                    !.pc = "lock", !.kind = k, !.dead = DeadLease]]
  /\ UNCHANGED <<fileVars, lockVars, holdVars, known, token>>

-------------------------------------------------------------------------------
(* write_revision *)

\* Mutation of LockFile: pg_try_advisory_xact_lock, its answer ignored.
TryLockFile(s) ==
  /\ At(s, "begun")
  /\ fileLock' = IF fileLock = Nobody THEN s ELSE fileLock
  /\ req' = [req EXCEPT ![s].pc = "check"]
  /\ UNCHANGED <<fileVars, lockVars, rowLock, known, token, counters>>

\* lock_file_revision_tx
LockFile(s) ==
  /\ At(s, "begun")
  /\ fileLock = Nobody
  /\ fileLock' = s
  /\ req' = [req EXCEPT ![s].pc = "check"]
  /\ UNCHANGED <<fileVars, lockVars, rowLock, known, token, counters>>

\* Whether the statements of the check find the row; they wait for who holds it.
Finds(s) == lock # NoLock /\ ~req[s].missed
CanCheck(s) == At(s, "check") /\ (Finds(s) => RowFree)

\* Mutation of Refused: the lock of a run admits the user's other sessions.
RefusedToOtherUser(s) == Finds(s) /\ LiveFor(s) /\ lock.user # UserOf[s]

Refused(s) == Finds(s) /\ LiveFor(s) /\ ~Permits(s)

\* The lock is another actor's, or the revision is not the expected one: 409.
CheckRefuses(s) ==
  /\ CanCheck(s)
  /\ Refused(s) \/ req[s].expected # Latest
  /\ fileLock' = Nobody
  /\ Answer(s)
  /\ UNCHANGED <<fileVars, lockVars, rowLock, known, token, counters>>

\* ensure_write_permitted_tx has deleted the expired row, or locked the live
\* one, and the revision is the expected one.
CheckPasses(s) ==
  /\ CanCheck(s)
  /\ ~Refused(s)
  /\ req[s].expected = Latest
  /\ rowLock' = IF Finds(s) THEN s ELSE rowLock
  /\ req' = [req EXCEPT ![s].pc = "put",
                        ![s].removes = Finds(s) /\ ExpiredFor(s),
                        ![s].under = IF Finds(s) /\ LiveFor(s) THEN lock.token ELSE 0]
  /\ UNCHANGED <<fileVars, lockVars, fileLock, known, token, counters>>

\* A new version under the key of the revision.
Put ==
  /\ objects' = objects \cup {[key |-> Latest + 1, version |-> puts + 1]}
  /\ puts' = puts + 1
  /\ marked' = marked \ {Latest + 1}
  /\ UNCHANGED revisions

PutObject(s) ==
  /\ At(s, "put")
  /\ Put
  /\ req' = [req EXCEPT ![s].pc = "insert", ![s].version = puts + 1]
  /\ UNCHANGED <<lockVars, holdVars, known, token, counters>>

\* The INSERT of the revision and the commit.
CommitRevision(s) ==
  /\ revisions' = Append(revisions,
                    [from |-> req[s].from, kind |-> req[s].kind,
                     object |-> [key |-> Latest + 1, version |-> req[s].version]])
  /\ lock' = IF req[s].removes THEN NoLock ELSE lock
  /\ expired' = (expired /\ ~req[s].removes)
  /\ strangers' = IF lock # NoLock /\ ~req[s].removes /\ ~Permits(s)
                    THEN strangers + 1 ELSE strangers
  /\ fileLock' = Nobody
  /\ rowLock' = IF rowLock = s THEN Nobody ELSE rowLock
  /\ UNCHANGED <<objects, puts, marked, leases>>

WriteSucceeds(s) ==
  /\ At(s, "insert")
  /\ CommitRevision(s)
  /\ Answer(s)
  /\ known' = [known EXCEPT ![s] = Latest + 1]
  /\ UNCHANGED <<token, counters>>

ReplyLost(s) ==
  /\ At(s, "insert")
  /\ Fault
  /\ CommitRevision(s)
  /\ Answer(s)
  /\ UNCHANGED <<known, token>>

\* The commit takes place and the handler gets an error for it.
CommitUnknown(s) ==
  /\ At(s, "insert")
  /\ Fault
  /\ CommitRevision(s)
  /\ req' = [req EXCEPT ![s].pc = "cleanup"]
  /\ UNCHANGED <<known, token>>

\* A transaction whose handle is dropped is rolled back a little later.
Drop(s) ==
  /\ fileLock' = IF fileLock = s THEN Dropped ELSE fileLock
  /\ rowLock' = IF rowLock = s THEN Dropped ELSE rowLock

\* The put fails, perhaps after the object was stored; nothing cleans up.
PutFails(s) ==
  /\ At(s, "put")
  /\ Fault
  /\ Put \/ UNCHANGED fileVars
  /\ Drop(s)
  /\ Answer(s)
  /\ UNCHANGED <<lockVars, known, token>>

\* A statement after the put fails, or the commit.
StatementFails(s) ==
  /\ At(s, "insert")
  /\ Fault
  /\ Drop(s)
  /\ req' = [req EXCEPT ![s].pc = "cleanup"]
  /\ UNCHANGED <<fileVars, lockVars, known, token>>

\* Mutation of RollBack: the row stays locked.
RollBackFile ==
  /\ fileLock = Dropped
  /\ fileLock' = Nobody
  /\ UNCHANGED <<fileVars, lockVars, rowLock, known, token, req, counters>>

RollBack ==
  /\ fileLock = Dropped
  /\ fileLock' = Nobody
  /\ rowLock' = IF rowLock = Dropped THEN Nobody ELSE rowLock
  /\ UNCHANGED <<fileVars, lockVars, known, token, req, counters>>

\* Mutation of DeleteObject: the versions are deleted too.
DeleteVersions(key) ==
  /\ objects' = {o \in objects : o.key # key}
  /\ marked' = marked \ {key}
  /\ UNCHANGED <<revisions, puts>>

\* cleanup_orphan_file_object names no version, so the key gets a delete marker;
\* its own failure is only logged.
DeleteObject(key) ==
  /\ marked' = marked \cup {key}
  /\ UNCHANGED <<revisions, objects, puts>>

CleanUp(s) ==
  /\ At(s, "cleanup")
  /\ DeleteObject(req[s].expected + 1) \/ UNCHANGED fileVars
  /\ Answer(s)
  /\ UNCHANGED <<lockVars, holdVars, known, token, counters>>

\* The server dies, or the client leaves and its handler is dropped.
HandlerDies(s) ==
  /\ ~At(s, "idle")
  /\ Fault
  /\ Drop(s)
  /\ Answer(s)
  /\ UNCHANGED <<fileVars, lockVars, known, token>>

\* hydrate_revision_content asks for the version in the row of the revision.
Readable(object) == object \in objects

-------------------------------------------------------------------------------
(* acquire_lock and release_lock *)

\* Time passes.
Expire ==
  /\ lock # NoLock
  /\ ~expired
  /\ expired' = TRUE
  /\ UNCHANGED <<fileVars, lock, leases, strangers, holdVars, known, token, req, counters>>

CanLock(s, kinds) == At(s, "lock") /\ req[s].kind \in kinds /\ RowFree

\* A live lock of another actor: 409.
AcquireRefused(s) ==
  /\ CanLock(s, {"acquire"})
  /\ LiveFor(s)
  /\ ~HeldByActor(s)
  /\ Answer(s)
  /\ UNCHANGED <<fileVars, lockVars, holdVars, known, token, counters>>

\* A live lock of the same actor keeps its holder and its token.
Extend(s) ==
  /\ CanLock(s, {"acquire"})
  /\ LiveFor(s)
  /\ HeldByActor(s)
  /\ lock' = [lock EXCEPT !.lease = leases + 1]
  /\ leases' = leases + 1
  /\ expired' = FALSE
  /\ token' = [token EXCEPT ![s] = lock.token]
  /\ Answer(s)
  /\ UNCHANGED <<fileVars, strangers, holdVars, known, counters>>

\* Mutation of Grant: the column of the user gets no user.
GrantToNobody(s) ==
  /\ CanLock(s, {"acquire"})
  /\ ~LiveFor(s)
  /\ lock' = [token |-> leases + 1, lease |-> leases + 1, user |-> NoRun, run |-> RunOf[s]]
  /\ leases' = leases + 1
  /\ expired' = FALSE
  /\ strangers' = 0
  /\ token' = [token EXCEPT ![s] = leases + 1]
  /\ Answer(s)
  /\ UNCHANGED <<fileVars, holdVars, known, counters>>

\* An expired row is deleted and the new one inserted.  A write that began
\* before the expiry may be waiting for the old row: it finds that one deleted
\* and does not see the new one.
Grant(s) ==
  /\ CanLock(s, {"acquire"})
  /\ ~LiveFor(s)
  /\ lock' = [token |-> leases + 1, lease |-> leases + 1,
              user |-> UserOf[s], run |-> RunOf[s]]
  /\ leases' = leases + 1
  /\ expired' = FALSE
  /\ strangers' = 0
  /\ token' = [token EXCEPT ![s] = leases + 1]
  /\ \E waiting \in SUBSET {t \in Session : At(t, "check") /\ Finds(t) /\ LiveFor(t)} :
       req' = [t \in Session |->
                 IF t = s THEN NoRequest
                 ELSE [req[t] EXCEPT !.missed = @ \/ t \in waiting]]
  /\ UNCHANGED <<fileVars, holdVars, known, counters>>

\* A token that is given must be that of the row; without one the actor decides.
HeldByUnlocker(s) ==
  IF req[s].kind = "release_token" THEN lock.token = token[s] ELSE HeldByActor(s)

Releases == {"release", "release_token"}

Release(s) ==
  /\ CanLock(s, Releases)
  /\ LiveFor(s)
  /\ HeldByUnlocker(s)
  /\ lock' = NoLock
  /\ expired' = FALSE
  /\ Answer(s)
  /\ UNCHANGED <<fileVars, leases, strangers, holdVars, known, token, counters>>

\* There is no live lock, and the deletion of an expired one is rolled back with
\* the 404; or it is another actor's: 409.
ReleaseRefused(s) ==
  /\ CanLock(s, Releases)
  /\ ~(LiveFor(s) /\ HeldByUnlocker(s))
  /\ Answer(s)
  /\ UNCHANGED <<fileVars, lockVars, holdVars, known, token, counters>>

-------------------------------------------------------------------------------
CheckFile(s) == CheckRefuses(s) \/ CheckPasses(s)

FetchFile(s) == FetchToEdit(s) \/ NothingToEdit(s) \/ FetchToSave(s)

StoreRevision(s) == PutObject(s) \/ WriteSucceeds(s) \/ CleanUp(s)

LockRequest(s) ==
  AcquireRefused(s) \/ Extend(s) \/ Grant(s) \/ Release(s) \/ ReleaseRefused(s)

SessionAsks(s) == Read(s) \/ AskWrite(s) \/ AskEdit(s) \/ AskLock(s)

SessionFault(s) ==
  ReplyLost(s) \/ CommitUnknown(s) \/ PutFails(s) \/ StatementFails(s) \/ HandlerDies(s)

HandlerStep(s) ==
  FetchFile(s) \/ LockFile(s) \/ CheckFile(s) \/ StoreRevision(s) \/ LockRequest(s)

Next ==
  \/ \E s \in Session : SessionAsks(s) \/ HandlerStep(s) \/ SessionFault(s)
  \/ RollBack
  \/ Expire

Spec == Init /\ [][Next]_vars

\* A handler that can go on does; one that queues for a lock gets it at last,
\* since Postgres grants locks in the order in which they were asked for.
HandlerFairness == (\A s \in Session : SF_vars(HandlerStep(s))) /\ WF_vars(RollBack)

FairSpec == Spec /\ HandlerFairness

-------------------------------------------------------------------------------
\* Type correctness.
LockRow == [token : Nat, lease : Nat, user : {UserOf[s] : s \in Session} \cup {Nobody},
            run : {RunOf[s] : s \in Session} \cup {NoRun}]

RequestRow ==
  [pc : {"idle", "fetch", "begun", "check", "put", "insert", "cleanup", "lock"},
   kind : {"none", "write", "edit", "save", "acquire"} \cup Releases,
   expected : Nat, from : Nat, dead : Nat, under : Nat,
   removes : BOOLEAN, missed : BOOLEAN, version : Nat]

ObjectVersion == [key : Nat, version : Nat]

TypeOK ==
  /\ revisions \in Seq([from : Nat, kind : {"write", "edit", "save"},
                        object : ObjectVersion])
  /\ objects \subseteq ObjectVersion
  /\ puts \in Nat
  /\ marked \subseteq Nat
  /\ lock \in LockRow
  /\ expired \in BOOLEAN
  /\ leases \in Nat
  /\ strangers \in Nat
  /\ fileLock \in Session \cup {Nobody, Dropped}
  /\ rowLock \in Session \cup {Nobody, Dropped}
  /\ known \in [Session -> Nat]
  /\ token \in [Session -> Nat]
  /\ req \in [Session -> RequestRow]
  /\ asked \in Nat
  /\ faults \in Nat

\* No update is lost: the content of a revision comes from the revision before
\* it, whether the client or the server read it, and whatever was committed in
\* between.  A save without a revision replaces what is there and is left out.
NothingOverwritten ==
  \A n \in 1..Latest : revisions[n].kind # "save" => revisions[n].from = n - 1

\* A lock keeps the writes of other actors out, except one: that which held the
\* file when the lock was granted, past its check or waiting for the old row.
OneStranger == lock # NoLock => strangers <= 1

\* A write that passed under a lock ends before the lock is released, replaced
\* after its expiry, or taken by somebody else.
LockOutlivesWrite ==
  \A s \in Session :
    (At(s, "put") \/ At(s, "insert")) /\ req[s].under # 0 => lock.token = req[s].under

\* Every revision can be read: the cleanup after a failed write, which may
\* follow a commit, or another write of the same revision, takes no content away.
RevisionsReadable == \A n \in 1..Latest : Readable(revisions[n].object)

\* Every request is answered: no write and no request of a lock wait for each
\* other, and what a dropped transaction holds is given back.
RequestsAnswered == \A s \in Session : ~At(s, "idle") ~> At(s, "idle")
===============================================================================
