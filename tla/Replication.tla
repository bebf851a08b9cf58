---------------------------- MODULE Replication ----------------------------
(***************************************************************************)
(* One stored object, its row, its replica rows and its blobs: uploads,    *)
(* the replication jobs they queue, and the operations that refresh,       *)
(* repair, switch and delete replicas.                                     *)
(*                                                                         *)
(* Sources: internal/server/upload_services.go, object_replication.go,     *)
(* object_ops_handlers.go, switch_handlers.go, site_delete.go and the      *)
(* statements of internal/db/db.go they use.                               *)
(*                                                                         *)
(* A handler is not one transaction.  Each database statement and each     *)
(* call to a storage target is a step of its own, taken by a process: an   *)
(* HTTP request, or a job loop of JobQueue running replicateObject.  What  *)
(* a process read earlier is in its local record.  Reads that follow one   *)
(* another with nothing decided in between are one step.                   *)
(*                                                                         *)
(* The object's path and its storage key never change, as for /assets      *)
(* (project and path make the key).  IPFS pins, locators and the transfer  *)
(* semaphore are left out.                                                 *)
(***************************************************************************)
EXTENDS Naturals, Sequences, FiniteSets

CONSTANTS
  Workers,      \* job loops
  Requests,     \* slots for requests that are served at the same time
  Kinds,        \* the kinds of request each slot may serve
  Primary,      \* the route profile's primary target
  Backups,      \* its backup targets, in order
  Policies,     \* the replication_policy it may be configured with
  Contents,     \* what clients upload
  NoContent,    \* no blob, nothing read
  MaxAttempts,  \* attempts of a job (5 in the code)
  MaxJobs,      \* bound on jobs, for the type of the queue
  MaxRequests,  \* bound: how many requests each slot serves in a behaviour
  MaxFaults     \* bound: restarts, cancelled requests and database errors

Targets == {Primary} \cup {Backups[i] : i \in 1..Len(Backups)}

ASSUME TargetsAssumption ==
  Backups \in Seq(Targets) /\ Cardinality(Targets) = 1 + Len(Backups)

ASSUME WorkersAssumption == Workers \cap Requests = {}

ASSUME ContentsAssumption == NoContent \notin Contents

ASSUME BoundsAssumption ==
  MaxAttempts \in Nat \ {0} /\ MaxJobs \in Nat /\ MaxFaults \in Nat

\* Replica rows get their ids in this order: the primary's first, then backups.
RowOrder == <<Primary>> \o Backups

Place(t) == CHOOSE i \in DOMAIN RowOrder : RowOrder[i] = t

\* The target of S that the loops come to first.  A delete goes by the targets'
\* names, which are taken to sort in the same order.
First(S) == CHOOSE t \in S : \A u \in S : Place(t) <= Place(u)

Processes == Workers \cup Requests

VARIABLES
  jobs, worker, faults,  \* the job queue
  policy,                \* the configured replication_policy
  object,                \* the object's row; id 0 when there is none
  lastId,                \* AUTOINCREMENT
  replica,               \* the status in each target's replica row, or "none"
  blob,                  \* what each target stores under the key
  proc,                  \* what each process is doing
  acked,                 \* history: the slot's last upload was answered with success
  overlapped,            \* history: a delete ran beside an upload or a replication
  started                \* requests served by each slot so far (bound only)

queueVars == <<jobs, worker, faults>>
rowVars == <<object, lastId, replica>>
historyVars == <<policy, acked, overlapped, started>>
vars == <<queueVars, rowVars, blob, proc, historyVars>>

Queue == INSTANCE JobQueue WITH Payloads <- [object : Nat, target : Targets]

Statuses == {"ready", "pending", "failed", "stale", "deleted"}

NoRow == [t \in Targets |-> "none"]

NoObject == [id |-> 0, content |-> NoContent, primary |-> Primary]

Idle == [pc |-> "idle", op |-> "none", content |-> NoContent, id |-> 0,
         target |-> Primary, source |-> Primary, seen |-> NoRow, status |-> "none",
         todo |-> {}, failed |-> FALSE, force |-> FALSE]

Init ==
  /\ Queue!Init
  /\ policy \in Policies
  /\ object = NoObject
  /\ lastId = 0
  /\ replica = NoRow
  /\ blob = [t \in Targets |-> NoContent]
  /\ proc = [p \in Processes |-> Idle]
  /\ acked = [r \in Requests |-> TRUE]
  /\ overlapped = FALSE
  /\ started = [r \in Requests |-> 0]

-----------------------------------------------------------------------------
(* Shared pieces.                                                          *)

Exists(id) == id # 0 /\ object.id = id

\* Broken variant: the row does not reference its object (foreign_keys off).
UpsertUnchecked(id, t, status) ==
  /\ replica' = [replica EXCEPT ![t] = status]
  /\ UNCHANGED <<object, lastId>>

\* UpsertReplica.  The row references its object: when the object is gone the
\* statement fails and nothing is written.
Upsert(id, t, status) ==
  /\ replica' = IF Exists(id) THEN [replica EXCEPT ![t] = status] ELSE replica
  /\ UNCHANGED <<object, lastId>>

Goto(p, pc) == proc' = [proc EXCEPT ![p].pc = pc]

Writing(p) == proc[p].op \in {"upload", "job"}

Deleting(p) == proc[p].op = "delete"

\* A process starts a delete beside a write, or a write beside a delete.
NoteOverlap(Others(_)) ==
  overlapped' = (overlapped \/ \E p \in Processes : Others(p))

End(p) == proc' = [proc EXCEPT ![p] = Idle]

\* Where p's loop over targets is, and what is left for after it.
Current(p) == First(proc[p].todo)

Rest(p) == proc[p].todo \ {Current(p)}

\* The loop over targets moves on; the loop's head is `pc`.
NextTarget(p, pc) ==
  proc' = [proc EXCEPT ![p] = [@ EXCEPT !.pc = pc, !.todo = Rest(p)]]

\* The next target of p's loop, when p is at the head of that loop.
AtTarget(p, pc) == proc[p].pc = pc /\ proc[p].todo # {}

\* A request of this kind arrives on an idle slot.
Start(r, kind) ==
  /\ proc[r] = Idle
  /\ kind \in Kinds[r]
  /\ started[r] < MaxRequests[r]
  /\ started' = [started EXCEPT ![r] = @ + 1]
  /\ UNCHANGED policy

-----------------------------------------------------------------------------
(* putObjectFromFile                                                       *)

StartUpload(r, c) ==
  /\ Start(r, "upload")
  /\ proc' = [proc EXCEPT ![r] = [@ EXCEPT !.pc = "put", !.op = "upload", !.content = c]]
  /\ acked' = [acked EXCEPT ![r] = FALSE]
  /\ NoteOverlap(Deleting)
  /\ UNCHANGED <<queueVars, rowVars, blob>>

PutPrimary(r) ==
  /\ proc[r].pc = "put"
  /\ blob' = [blob EXCEPT ![Primary] = proc[r].content]
  /\ Goto(r, "save")
  /\ UNCHANGED <<queueVars, rowVars, historyVars>>

\* The target reports an error; the bytes may or may not have arrived.
PutPrimaryFails(r) ==
  /\ proc[r].pc = "put"
  /\ blob' \in {blob, [blob EXCEPT ![Primary] = proc[r].content]}
  /\ End(r)
  /\ UNCHANGED <<queueVars, rowVars, historyVars>>

\* SaveObject: insert, or overwrite the row of the same path and keep its id.
SaveObject(r) ==
  /\ proc[r].pc = "save"
  /\ LET id == IF object.id = 0 THEN lastId + 1 ELSE object.id IN
       /\ object' = [id |-> id, content |-> proc[r].content, primary |-> Primary]
       /\ lastId' = IF object.id = 0 THEN id ELSE lastId
       /\ proc' = [proc EXCEPT ![r] = [@ EXCEPT !.pc = "mark", !.id = id]]
  /\ UNCHANGED <<queueVars, replica, blob, historyVars>>

MarkPrimary(r) ==
  /\ proc[r].pc = "mark"
  /\ Upsert(proc[r].id, Primary, "ready")
  /\ IF Exists(proc[r].id)
       THEN proc' = [proc EXCEPT ![r] = [@ EXCEPT !.pc = "backups", !.todo = Targets \ {Primary}]]
       ELSE End(r)
  /\ UNCHANGED <<queueVars, blob, historyVars>>

\* What the policy makes of a backup: recorded as deleted; pending and copied
\* within the request; pending and left to a job.
BackupStatus == IF policy = "primary_only" THEN "deleted" ELSE "pending"

AfterBackupRow ==
  CASE policy = "primary_only" -> "backups"
    [] policy = "require_backups" -> "load"
    [] OTHER -> "queue"

\* Broken variant: a backup that is ready already is passed over.
MarkBackupOnce(r) ==
  /\ AtTarget(r, "backups")
  /\ LET t == Current(r) IN
       IF replica[t] = "ready"
         THEN NextTarget(r, "backups") /\ UNCHANGED rowVars
         ELSE /\ Upsert(proc[r].id, t, BackupStatus)
              /\ proc' = [proc EXCEPT ![r] = [@ EXCEPT !.pc = AfterBackupRow, !.target = t]]
  /\ UNCHANGED <<queueVars, blob, historyVars>>

MarkBackup(r) ==
  /\ AtTarget(r, "backups")
  /\ LET t == Current(r) IN
       /\ Upsert(proc[r].id, t, BackupStatus)
       /\ CASE ~Exists(proc[r].id) -> End(r)
            [] Exists(proc[r].id) /\ AfterBackupRow = "backups" -> NextTarget(r, "backups")
            [] OTHER -> proc' = [proc EXCEPT
                 ![r] = [@ EXCEPT !.pc = AfterBackupRow, !.target = t]]
  /\ UNCHANGED <<queueVars, blob, historyVars>>

\* Broken variant: the loop that queues jobs stops one backup early.
QueueButLastBackup(r) ==
  /\ proc[r].pc = "queue"
  /\ IF Rest(r) = {}
       THEN UNCHANGED queueVars
       ELSE Queue!CreateJob(Queue!ReplicateObject,
                            [object |-> proc[r].id, target |-> proc[r].target])
  /\ NextTarget(r, "backups")
  /\ UNCHANGED <<rowVars, blob, historyVars>>

QueueBackup(r) ==
  /\ proc[r].pc = "queue"
  /\ Queue!CreateJob(Queue!ReplicateObject,
                     [object |-> proc[r].id, target |-> proc[r].target])
  /\ NextTarget(r, "backups")
  /\ UNCHANGED <<rowVars, blob, historyVars>>

FinishUpload(r) ==
  /\ proc[r].pc = "backups"
  /\ proc[r].todo = {}
  /\ End(r)
  /\ acked' = [acked EXCEPT ![r] = TRUE]
  /\ UNCHANGED <<queueVars, rowVars, blob, policy, overlapped, started>>

-----------------------------------------------------------------------------
(* replicateObject, run by a job loop or inside a require_backups upload.  *)

StartJob(w) ==
  /\ Queue!NextQueuedJob(w)
  /\ LET payload == jobs[worker'[w].job].payload IN
       proc' = [proc EXCEPT ![w] = [@ EXCEPT !.pc = "load", !.op = "job",
                                             !.id = payload.object,
                                             !.target = payload.target]]
  /\ NoteOverlap(Deleting)
  /\ UNCHANGED <<rowVars, blob, policy, acked, started>>

\* replicateObject returns: to the job loop, or to the upload, which goes on with
\* its next backup or gives up.
Return(p, ok) ==
  \/ /\ p \in Workers
     /\ Queue!RunJob(p, ok)
     /\ End(p)
  \/ /\ p \in Requests
     /\ IF ok THEN NextTarget(p, "backups") ELSE End(p)
     /\ UNCHANGED queueVars

\* The replicas that can be copied from; the code looks at the primary first.
Sources(t) == {s \in Targets \ {t} : replica[s] = "ready"}

FirstSource(t) ==
  IF object.primary \in Sources(t) THEN object.primary ELSE First(Sources(t))

CanLoad(p) == Exists(proc[p].id) /\ Sources(proc[p].target) # {}

\* Reads the object and its replicas, and opens the source's stream.
LoadSource(p) ==
  /\ proc[p].pc = "load"
  /\ CanLoad(p)
  /\ LET s == FirstSource(proc[p].target) IN
       proc' = [proc EXCEPT ![p] = [@ EXCEPT !.pc = "get", !.source = s]]
  /\ UNCHANGED <<queueVars, rowVars, blob, historyVars>>

\* Broken variant: without a source the job counts as done.
NothingToCopyIsDone(p) ==
  /\ proc[p].pc = "load"
  /\ ~CanLoad(p)
  /\ Return(p, TRUE)
  /\ UNCHANGED <<rowVars, blob, historyVars>>

\* The object is gone, or no other replica is ready: an error, no row is touched.
NothingToCopy(p) ==
  /\ proc[p].pc = "load"
  /\ ~CanLoad(p)
  /\ Return(p, FALSE)
  /\ UNCHANGED <<rowVars, blob, historyVars>>

\* The source's bytes are copied to a staging file.
GetSource(p) ==
  /\ proc[p].pc = "get"
  /\ blob[proc[p].source] # NoContent
  /\ proc' = [proc EXCEPT ![p] = [@ EXCEPT !.pc = "copy", !.content = blob[proc[p].source]]]
  /\ UNCHANGED <<queueVars, rowVars, blob, historyVars>>

\* Sixty attempts to open the source failed, or it does not have the blob.
GetSourceFails(p) ==
  /\ proc[p].pc = "get"
  /\ Goto(p, "markFailed")
  /\ UNCHANGED <<queueVars, rowVars, blob, historyVars>>

\* The staging file could not be created, or the stream broke: no row is touched.
StagingFails(p) ==
  /\ proc[p].pc = "copy"
  /\ Return(p, FALSE)
  /\ UNCHANGED <<rowVars, blob, historyVars>>

PutBackup(p) ==
  /\ proc[p].pc = "copy"
  /\ blob' = [blob EXCEPT ![proc[p].target] = proc[p].content]
  /\ Goto(p, "markReady")
  /\ UNCHANGED <<queueVars, rowVars, historyVars>>

\* Broken variant: the error of Put is lost on its way out of the transfer slot.
PutBackupErrorLost(p) ==
  /\ proc[p].pc = "copy"
  /\ blob' \in {blob, [blob EXCEPT ![proc[p].target] = proc[p].content]}
  /\ Goto(p, "markReady")
  /\ UNCHANGED <<queueVars, rowVars, historyVars>>

PutBackupFails(p) ==
  /\ proc[p].pc = "copy"
  /\ blob' \in {blob, [blob EXCEPT ![proc[p].target] = proc[p].content]}
  /\ Goto(p, "markFailed")
  /\ UNCHANGED <<queueVars, rowVars, historyVars>>

MarkReady(p) ==
  /\ proc[p].pc = "markReady"
  /\ Upsert(proc[p].id, proc[p].target, "ready")
  /\ Return(p, Exists(proc[p].id))
  /\ UNCHANGED <<blob, historyVars>>

\* The outcome of this write is ignored; the error that led here is returned.
MarkFailed(p) ==
  /\ proc[p].pc = "markFailed"
  /\ Upsert(proc[p].id, proc[p].target, "failed")
  /\ Return(p, FALSE)
  /\ UNCHANGED <<blob, historyVars>>

-----------------------------------------------------------------------------
(* refreshObjectReplicas                                                   *)

Rows == {t \in Targets : replica[t] # "none"}

\* All the object's replicas, or the one asked for.
StartRefresh(r) ==
  /\ Start(r, "refresh")
  /\ object.id # 0 /\ Rows # {}
  /\ \E S \in {Rows} \cup {{t} : t \in Rows} :
       proc' = [proc EXCEPT ![r] = [@ EXCEPT
         !.pc = "stat", !.op = "refresh", !.id = object.id, !.seen = replica,
         !.todo = S]]
  /\ UNCHANGED <<queueVars, rowVars, blob, acked, overlapped>>

\* A pending row never has a locator: every writer of "pending" clears it.
RefreshSkips(r) == proc[r].seen[Current(r)] \in {"deleted", "pending"}

SkipRefresh(r) ==
  /\ AtTarget(r, "stat") /\ RefreshSkips(r)
  /\ NextTarget(r, "stat")
  /\ UNCHANGED <<queueVars, rowVars, blob, historyVars>>

\* What Stat makes of the replica: it looks for the blob, not at its content.
StatOutcomes(t) == {"failed", IF blob[t] # NoContent THEN "ready" ELSE "stale"}

StatReplica(r) ==
  /\ AtTarget(r, "stat") /\ ~RefreshSkips(r)
  /\ \E status \in StatOutcomes(Current(r)) :
       proc' = [proc EXCEPT ![r] = [@ EXCEPT !.pc = "statMark", !.status = status]]
  /\ UNCHANGED <<queueVars, rowVars, blob, historyVars>>

MarkStat(r) ==
  /\ AtTarget(r, "statMark")
  /\ Upsert(proc[r].id, Current(r), proc[r].status)
  /\ NextTarget(r, "stat")
  /\ UNCHANGED <<queueVars, blob, historyVars>>

-----------------------------------------------------------------------------
(* repairObjectReplicas                                                    *)

\* objectReplicaRepairTargets: the profile's targets, the primary, every row.
RepairTargets ==
  {Primary, object.primary} \cup Rows
    \cup (IF policy = "primary_only" THEN {} ELSE Targets)

StartRepair(r, force) ==
  /\ Start(r, "repair")
  /\ object.id # 0
  /\ \E S \in {RepairTargets} \cup {{t} : t \in RepairTargets} :
       proc' = [proc EXCEPT ![r] = [@ EXCEPT
         !.pc = "repair", !.op = "repair", !.id = object.id, !.seen = replica,
         !.todo = S, !.force = force]]
  /\ UNCHANGED <<queueVars, rowVars, blob, acked, overlapped>>

RepairSkips(r) ==
  /\ ~proc[r].force
  /\ proc[r].seen[Current(r)] \in {"ready", "pending", "deleted"}

SkipRepair(r) ==
  /\ AtTarget(r, "repair") /\ RepairSkips(r)
  /\ NextTarget(r, "repair")
  /\ UNCHANGED <<queueVars, rowVars, blob, historyVars>>

\* If the object is gone the row cannot be written and the target is passed over.
MarkRepair(r) ==
  /\ AtTarget(r, "repair") /\ ~RepairSkips(r)
  /\ Upsert(proc[r].id, Current(r), "pending")
  /\ IF Exists(proc[r].id) THEN Goto(r, "repairQueue") ELSE NextTarget(r, "repair")
  /\ UNCHANGED <<queueVars, blob, historyVars>>

QueueRepair(r) ==
  /\ AtTarget(r, "repairQueue")
  /\ Queue!CreateJob(Queue!ReplicateObject,
                     [object |-> proc[r].id, target |-> Current(r)])
  /\ NextTarget(r, "repair")
  /\ UNCHANGED <<rowVars, blob, historyVars>>

-----------------------------------------------------------------------------
(* switchObjectPrimaryTarget                                               *)

\* The checks: the target is in the profile and its replica is ready.  A caller
\* may give the primary it expects; one that does not match is refused here.
StartSwitch(r, t) ==
  /\ Start(r, "switch")
  /\ object.id # 0
  /\ replica[t] = "ready" /\ t # object.primary
  /\ proc' = [proc EXCEPT ![r] = [@ EXCEPT !.pc = "switch", !.op = "switch",
                                            !.id = object.id, !.target = t]]
  /\ UNCHANGED <<queueVars, rowVars, blob, acked, overlapped>>

\* UpdateObjectPrimaryTarget: by id, whatever has become of the checks.
UpdatePrimaryTarget(r) ==
  /\ proc[r].pc = "switch"
  /\ object' = IF Exists(proc[r].id) THEN [object EXCEPT !.primary = proc[r].target]
                                     ELSE object
  /\ End(r)
  /\ UNCHANGED <<queueVars, lastId, replica, blob, historyVars>>

-----------------------------------------------------------------------------
(* deleteSiteDeploymentObject, deleteBucketObjectItem: remote blobs first, *)
(* then the row; the row stays if any target reported an error.            *)

\* Broken variant: the targets come from the replica rows that are ready.
DeleteReadyTargets == {t \in Targets : replica[t] = "ready"}

DeleteTargets == {object.primary} \cup Rows

StartDelete(r) ==
  /\ Start(r, "delete")
  /\ object.id # 0
  /\ proc' = [proc EXCEPT ![r] = [@ EXCEPT !.pc = "delete", !.op = "delete",
                                            !.id = object.id,
                                            !.todo = DeleteTargets]]
  /\ NoteOverlap(Writing)
  /\ UNCHANGED <<queueVars, rowVars, blob, acked>>

\* Deleted, or not found.
DeleteBlob(r) ==
  /\ AtTarget(r, "delete")
  /\ blob' = [blob EXCEPT ![Current(r)] = NoContent]
  /\ NextTarget(r, "delete")
  /\ UNCHANGED <<queueVars, rowVars, historyVars>>

DeleteBlobFails(r) ==
  /\ AtTarget(r, "delete")
  /\ blob' \in {blob, [blob EXCEPT ![Current(r)] = NoContent]}
  /\ proc' = [proc EXCEPT ![r] = [@ EXCEPT !.todo = Rest(r), !.failed = TRUE]]
  /\ UNCHANGED <<queueVars, rowVars, historyVars>>

DeleteObject(r) ==
  /\ proc[r].pc = "delete" /\ proc[r].todo = {}
  /\ IF Exists(proc[r].id) /\ ~proc[r].failed
       THEN object' = NoObject /\ replica' = NoRow
       ELSE UNCHANGED <<object, replica>>
  /\ End(r)
  /\ UNCHANGED <<queueVars, lastId, blob, historyVars>>

-----------------------------------------------------------------------------
(* Endings that are not the handlers' own.                                 *)

\* A refresh or a repair that has passed its last target answers.
Answer(r) ==
  /\ proc[r].pc \in {"stat", "repair"} /\ proc[r].todo = {}
  /\ End(r)
  /\ UNCHANGED <<queueVars, rowVars, blob, historyVars>>

\* The client goes away and its context is cancelled: the next statement or call
\* fails and the handler returns.
Cancel(r) ==
  /\ proc[r] # Idle
  /\ faults < MaxFaults
  /\ faults' = faults + 1
  /\ End(r)
  /\ UNCHANGED <<jobs, worker, rowVars, blob, historyVars>>

\* The process stops at any point and starts again.
Restart ==
  /\ faults < MaxFaults
  /\ Queue!Restart
  /\ proc' = [p \in Processes |-> Idle]
  /\ UNCHANGED <<rowVars, blob, historyVars>>

-----------------------------------------------------------------------------
Upload(r) ==
  \/ \E c \in Contents : StartUpload(r, c)
  \/ PutPrimary(r) \/ PutPrimaryFails(r) \/ SaveObject(r) \/ MarkPrimary(r)
  \/ MarkBackup(r) \/ QueueBackup(r) \/ FinishUpload(r)

Replicate(p) ==
  \/ LoadSource(p) \/ NothingToCopy(p) \/ GetSource(p) \/ GetSourceFails(p)
  \/ StagingFails(p) \/ PutBackup(p) \/ PutBackupFails(p)
  \/ MarkReady(p) \/ MarkFailed(p)

Refresh(r) == StartRefresh(r) \/ SkipRefresh(r) \/ StatReplica(r) \/ MarkStat(r)

Repair(r) ==
  \/ \E force \in BOOLEAN : StartRepair(r, force)
  \/ SkipRepair(r) \/ MarkRepair(r) \/ QueueRepair(r)

Switch(r) == (\E t \in Targets : StartSwitch(r, t)) \/ UpdatePrimaryTarget(r)

Delete(r) == StartDelete(r) \/ DeleteBlob(r) \/ DeleteBlobFails(r) \/ DeleteObject(r)

Request(r) ==
  \/ Upload(r) \/ Replicate(r) \/ Refresh(r) \/ Repair(r) \/ Switch(r) \/ Delete(r)
  \/ Answer(r)

\* The job loop around replicateObject.
QueueStep(w) ==
  /\ \/ Queue!Tick(w) \/ Queue!NoQueuedJob(w) \/ Queue!FinishJob(w) \/ Queue!FailJob(w)
  /\ UNCHANGED <<rowVars, blob, proc, historyVars>>

JobLoop(w) == QueueStep(w) \/ StartJob(w) \/ Replicate(w)

Next ==
  \/ \E r \in Requests : Request(r) \/ Cancel(r)
  \/ \E w \in Workers : JobLoop(w)
  \/ Restart

Spec == Init /\ [][Next]_vars

\* Every goroutine runs; every call to a storage target returns.
FairSpec ==
  /\ Spec
  /\ \A r \in Requests : WF_vars(Request(r) /\ proc[r] # Idle)
  /\ \A w \in Workers : WF_vars(JobLoop(w))

-----------------------------------------------------------------------------
(* Properties.                                                             *)

TypeOK ==
  /\ Queue!TypeOK
  /\ object \in [id : Nat, content : Contents \cup {NoContent}, primary : Targets]
  /\ lastId \in Nat /\ object.id <= lastId
  /\ replica \in [Targets -> Statuses \cup {"none"}]
  /\ blob \in [Targets -> Contents \cup {NoContent}]
  /\ object.id = 0 => replica = NoRow

AllAcked == \A r \in Requests : acked[r]

NoneWriting == \A p \in Processes : ~Writing(p)

Payload(t) == [object |-> object.id, target |-> t]

\* A job for the object's replica at t with any of these statuses.
JobAt(t, statuses) ==
  \E i \in Queue!Ids : jobs[i].payload = Payload(t) /\ jobs[i].status \in statuses

\* A request that marked t pending and has yet to queue the job, or to copy.
AboutToReplicate(r, t) ==
  /\ proc[r].id = object.id
  /\ \/ proc[r].op = "upload" /\ proc[r].target = t /\ proc[r].pc # "backups"
     \/ proc[r].pc = "repairQueue" /\ Current(r) = t

\* A row is marked ready only for a target that stores something under the key:
\* uploads, jobs, refreshes and repairs of one object may interleave in any way
\* and targets may fail at any call, as long as nothing deletes the object.
ReadyIsBacked == \A t \in Targets : replica[t] = "ready" => blob[t] # NoContent

\* The newest job for the replica at t has succeeded, or there never was one.
NewestJobDone(t) ==
  LET mine == {i \in Queue!Ids : jobs[i].payload = Payload(t)}
  IN \A i \in mine : (\A k \in mine : k <= i) => jobs[i].status = "done"

\* No repair has ever copied over the primary.
PrimaryOnlyUploaded == \A i \in Queue!Ids : jobs[i].payload # Payload(object.primary)

\* After overwrites of one path, when every upload was answered with success, the
\* queue has drained and a replica's newest job succeeded, a ready replica holds
\* what the object's row says, whatever failed or was restarted on the way.  It
\* needs one job loop, so that an older copy never lands after a newer one; no
\* refresh, which takes any blob for the right one; no repair of the primary, which
\* copies a backup that an upload is about to replace over it; a policy that leaves
\* the backups to jobs; and uploads of one path one after the other.
SettledReplicasCurrent ==
  /\ object.id # 0 /\ AllAcked /\ NoneWriting
  /\ Queue!Queued = {} /\ PrimaryOnlyUploaded
  => \A t \in Targets :
       replica[t] = "ready" /\ NewestJobDone(t) => blob[t] = object.content

\* Nothing is left pending by itself.  Repair refuses to touch a pending row, so a
\* pending row must have a job, or a request about to queue it; or its last job
\* was given up.  A request cut short between the two statements breaks it, and
\* so does a require_backups upload that fails, which queues nothing.
PendingHasJob ==
  faults = 0 /\ policy # "require_backups" =>
    \A t \in Targets : replica[t] = "pending" =>
      \/ JobAt(t, {"queued", "running", "failed"})
      \/ \E r \in Requests : AboutToReplicate(r, t)

\* Deleting an object leaves no blob behind at any target, even where the primary
\* was switched, replicas are stale, failed or recorded as deleted, targets fail
\* and the delete is repeated, or jobs for the object are still queued: a job that
\* starts after the delete finds no object.  Only an upload or a replication that
\* runs beside the delete, or an upload that did not succeed, may leave one.
NoOrphans ==
  object.id = 0 /\ AllAcked /\ ~overlapped => \A t \in Targets : blob[t] = NoContent

\* Every pending replica comes to an end: ready, or failed, or its job was given
\* up without a word in the row (a copy that broke), or a fault got in the way.
PendingResolves ==
  \A t \in Targets :
    (replica[t] = "pending") ~>
      (replica[t] # "pending" \/ JobAt(t, {"failed"}) \/ faults > 0 \/ ~AllAcked)
=============================================================================
