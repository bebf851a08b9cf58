--------------------------- MODULE SiteDeployments ---------------------------
(***************************************************************************)
(* The deployments of one site: uploaded and built by a job, recorded for  *)
(* Cloudflare, promoted, activated with evidence and deleted.              *)
(*                                                                         *)
(* Sources: internal/db/site_deployments.go and, in internal/server,       *)
(* site_deploy_handlers.go, site_delete.go, jobs.go.                       *)
(*                                                                         *)
(* As in Replication a handler takes a step per statement, and builds are  *)
(* jobs of JobQueue.  An object (with its replicas and blobs) is only      *)
(* there or not.  Quotas are in UploadQuota.  Domains, the site's own row  *)
(* and its deletion, and the evidence of hybrid deployments, which no      *)
(* decision reads, are left out.                                           *)
(***************************************************************************)
EXTENDS Naturals, Sequences, FiniteSets

CONSTANTS
  Workers,         \* job loops
  Requests,        \* slots for requests that are served at the same time
  Kinds,           \* the kinds of request each slot may serve
  Forms,           \* what uploads ask for: [target, environment, pinned, promote]
  Records,         \* what Cloudflare records say, in the same fields
  Files,           \* the files of a bundle, in order
  MaxDeployments,  \* bound: deployments created
  MaxRequests,     \* bound: how many requests each slot serves in a behaviour
  MaxFaults        \* bound: restarts, cancelled requests, failed reads

ASSUME WorkersAssumption == Workers \cap Requests = {}

ASSUME FilesAssumption == Files \in Seq(STRING)

ASSUME BoundsAssumption == MaxDeployments \in Nat /\ MaxFaults \in Nat

Environments == {"preview", "production"}

DeploymentTargets == {"origin_assisted", "cloudflare_static", "hybrid_edge"}

Form == [target : DeploymentTargets, environment : Environments,
         pinned : BOOLEAN, promote : BOOLEAN]

ASSUME FormsAssumption ==
  /\ Forms \subseteq Form
  /\ Records \subseteq {form \in Form : form.target = "cloudflare_static"}

VARIABLES
  jobs, worker, faults,  \* the job queue
  issued,    \* how many deployment ids have been given out
  row,       \* site_deployments
  files,     \* site_deployment_files: pairs of a deployment and a path
  objects,   \* stored objects: pairs of a deployment and a part of it
  proc,      \* what each process is doing
  purged,    \* history: deployments whose objects a delete has begun to delete
  cleaned,   \* history: built deployments that were deleted with their objects
  started    \* requests served by each slot so far (bound only)

queueVars == <<jobs, worker, faults>>
tableVars == <<issued, row, files, objects>>
historyVars == <<purged, cleaned, started>>
vars == <<queueVars, tableVars, proc, historyVars>>

\* Ids are times in nanoseconds: never given twice, and they grow.
Deployments == 1..MaxDeployments
NoDeployment == 0

\* The payload of a deploy_site job.
Queue == INSTANCE JobQueue
           WITH Payloads <- [deployment : Deployments, promote : BOOLEAN],
                MaxAttempts <- 1, MaxJobs <- MaxDeployments

Processes == Workers \cup Requests

Artifact == "artifact"
Manifest == "manifest"

\* What buildSiteDeployment stores, in order.
Parts == <<Artifact>> \o Files \o <<Manifest>>

FilePaths == {Files[i] : i \in 1..Len(Files)}

PartSet == FilePaths \cup {Artifact, Manifest}

Statuses == {"queued", "processing", "ready", "active", "failed"}

\* `built`: the row has the artifact's and the manifest's object ids, or is the
\* record of a Cloudflare upload; `evidence`: the latter.
NoRow == [status |-> "none", environment |-> "preview", target |-> "origin_assisted",
          pinned |-> FALSE, active |-> FALSE, built |-> FALSE, evidence |-> FALSE]

Exists(d) == row[d].status # "none"

Idle == [pc |-> "idle", op |-> "none", deployment |-> NoDeployment, promote |-> FALSE,
         todo |-> <<>>, failed |-> FALSE, whole |-> FALSE]

Init ==
  /\ Queue!Init
  /\ issued = 0
  /\ row = [d \in Deployments |-> NoRow]
  /\ files = {} /\ objects = {}
  /\ proc = [p \in Processes |-> Idle]
  /\ purged = {} /\ cleaned = {}
  /\ started = [r \in Requests |-> 0]

-----------------------------------------------------------------------------
(* Shared pieces.                                                          *)

Goto(p, pc) == proc' = [proc EXCEPT ![p].pc = pc]

End(p) == proc' = [proc EXCEPT ![p] = Idle]

\* A request of this kind arrives on an idle slot and goes on at pc, about d.
Start(r, kind) ==
  /\ proc[r] = Idle
  /\ kind \in Kinds[r]
  /\ started[r] < MaxRequests[r]
  /\ started' = [started EXCEPT ![r] = @ + 1]

Begin(r, op, pc, d) ==
  proc' = [proc EXCEPT ![r] = [@ EXCEPT !.pc = pc, !.op = op, !.deployment = d]]

PartsIn(S, d) == {pair[2] : pair \in {q \in S : q[1] = d}}

\* UpdateSiteDeploymentStatus: by id, whatever the row says now.
SetStatus(d, status) ==
  row' = IF Exists(d) THEN [row EXCEPT ![d].status = status] ELSE row

Activatable(d) == row[d].status \in {"ready", "active"}

Activated(dep) ==
  [dep EXCEPT !.environment = "production", !.active = TRUE, !.status = "active"]

\* Broken variant: the deployment that was live keeps its status.
DeactivatedOnly(dep) ==
  IF dep.active /\ dep.environment = "production"
    THEN [dep EXCEPT !.active = FALSE] ELSE dep

Deactivated(dep) ==
  IF dep.active /\ dep.environment = "production"
    THEN [dep EXCEPT !.active = FALSE, !.status = "ready"] ELSE dep

\* Broken variant: nothing is rolled back when d cannot be activated.
ActivateTxCommitted(d) ==
  row' = [e \in Deployments |->
            IF e = d /\ Activatable(d) THEN Activated(row[d]) ELSE Deactivated(row[e])]

\* ActivateSiteDeployment: one transaction, rolled back if d cannot be activated.
ActivateTx(d) ==
  row' = IF Activatable(d)
           THEN [e \in Deployments |-> IF e = d THEN Activated(row[d]) ELSE Deactivated(row[e])]
           ELSE row

-----------------------------------------------------------------------------
(* handleCreateSiteDeployment: the row, then the job.                      *)

\* The next id and a row for it.
Insert(form, status) ==
  /\ issued < MaxDeployments
  /\ issued' = issued + 1
  /\ row' = [row EXCEPT ![issued + 1] =
       [NoRow EXCEPT !.status = status, !.environment = form.environment,
                     !.target = form.target, !.pinned = form.pinned,
                     !.built = (status = "ready"), !.evidence = (status = "ready")]]
  /\ UNCHANGED <<files, objects>>

CreateDeployment(r, form) ==
  /\ Start(r, "create")
  /\ Insert(form, "queued")
  /\ proc' = [proc EXCEPT ![r] = [@ EXCEPT !.pc = "queue", !.op = "create",
                                            !.deployment = issued',
                                            !.promote = form.promote]]
  /\ UNCHANGED <<queueVars, purged, cleaned>>

QueueDeployment(r) ==
  /\ proc[r].pc = "queue"
  /\ Queue!CreateJob(Queue!DeploySite, [deployment |-> proc[r].deployment,
                                        promote |-> proc[r].promote])
  /\ End(r)
  /\ UNCHANGED <<tableVars, historyVars>>

-----------------------------------------------------------------------------
(* processSiteDeployment, in a job loop.                                   *)

StartJob(w) ==
  /\ Queue!NextQueuedJob(w)
  /\ LET payload == jobs[worker'[w].job].payload IN
       proc' = [proc EXCEPT ![w] = [@ EXCEPT !.pc = "begin", !.op = "job",
                                             !.deployment = payload.deployment,
                                             !.promote = payload.promote]]
  /\ UNCHANGED <<tableVars, historyVars>>

Return(w, ok) == Queue!RunJob(w, ok) /\ End(w)

\* Reads the row and marks it processing.  If it has been deleted, the job ends.
MarkProcessing(w) ==
  /\ proc[w].pc = "begin"
  /\ LET d == proc[w].deployment IN
       /\ SetStatus(d, "processing")
       /\ IF Exists(d)
            THEN /\ proc' = [proc EXCEPT ![w] = [@ EXCEPT !.pc = "build", !.todo = Parts]]
                 /\ UNCHANGED queueVars
            ELSE Return(w, FALSE)
  /\ UNCHANGED <<issued, files, objects, historyVars>>

\* putObjectFromFile of the next part.  A file is then entered in the table.
PutPart(w) ==
  /\ proc[w].pc = "build" /\ proc[w].todo # <<>>
  /\ LET part == Head(proc[w].todo) IN
       /\ objects' = objects \cup {<<proc[w].deployment, part>>}
       /\ IF part \in FilePaths
            THEN Goto(w, "addFile")
            ELSE proc' = [proc EXCEPT ![w].todo = Tail(@)]
  /\ UNCHANGED <<queueVars, issued, row, files, historyVars>>

\* The row of a file needs its deployment and its object.
AddFile(w) ==
  /\ proc[w].pc = "addFile"
  /\ LET file == <<proc[w].deployment, Head(proc[w].todo)>> IN
       IF Exists(proc[w].deployment) /\ file \in objects
         THEN /\ files' = files \cup {file}
              /\ proc' = [proc EXCEPT ![w] = [@ EXCEPT !.pc = "build", !.todo = Tail(proc[w].todo)]]
         ELSE Goto(w, "fail") /\ UNCHANGED files
  /\ UNCHANGED <<queueVars, issued, row, objects, historyVars>>

\* Broken variant: an error of AddSiteDeploymentFile is ignored.
BuildIgnoresFileRow(w) ==
  /\ proc[w].pc = "addFile"
  /\ proc' = [proc EXCEPT ![w] = [@ EXCEPT !.pc = "build", !.todo = Tail(proc[w].todo)]]
  /\ UNCHANGED <<queueVars, tableVars, historyVars>>

\* A bundle that cannot be read, a limit, a storage target, the database: whatever
\* goes wrong ends the build, and what it has stored stays.
BuildFails(w) ==
  /\ proc[w].pc \in {"build", "addFile"}
  /\ Goto(w, "fail")
  /\ UNCHANGED <<queueVars, tableVars, historyVars>>

\* MarkSiteDeploymentReady, and reading the row back.
MarkReady(w) ==
  /\ proc[w].pc = "build" /\ proc[w].todo = <<>>
  /\ LET d == proc[w].deployment IN
       /\ row' = IF Exists(d) THEN [row EXCEPT ![d].status = "ready", ![d].built = TRUE]
                              ELSE row
       /\ CASE ~Exists(d) -> Goto(w, "fail") /\ UNCHANGED queueVars
            [] Exists(d) /\ proc[w].promote -> Goto(w, "activate") /\ UNCHANGED queueVars
            [] OTHER -> Return(w, TRUE)
  /\ UNCHANGED <<issued, files, objects, historyVars>>

ActivateBuilt(w) ==
  /\ proc[w].op = "job" /\ proc[w].pc = "activate"
  /\ LET d == proc[w].deployment IN
       /\ ActivateTx(d)
       /\ IF Activatable(d) THEN Return(w, TRUE) ELSE Goto(w, "fail") /\ UNCHANGED queueVars
  /\ UNCHANGED <<issued, files, objects, historyVars>>

\* Broken variant: the failure is returned to the job loop only.
FailQuietly(w) ==
  /\ proc[w].pc = "fail"
  /\ Return(w, FALSE)
  /\ UNCHANGED <<tableVars, historyVars>>

\* The deployment is marked failed, without a look at what it is by now.
FailDeployment(w) ==
  /\ proc[w].pc = "fail"
  /\ SetStatus(proc[w].deployment, "failed")
  /\ Return(w, FALSE)
  /\ UNCHANGED <<issued, files, objects, historyVars>>

-----------------------------------------------------------------------------
(* Handlers that check the row and then activate it.                       *)

\* handlePromoteSiteDeployment.
PromoteAllowed(dep) ==
  /\ dep.status \in {"ready", "active"}
  /\ dep.active \/ dep.target = "origin_assisted"

StartPromote(r, d) ==
  /\ Start(r, "promote")
  /\ PromoteAllowed(row[d])
  /\ Begin(r, "promote", "activate", d)
  /\ UNCHANGED <<queueVars, tableVars, purged, cleaned>>

\* handleRecordCloudflareStaticDeployment: a row that is ready from the start.
RecordCloudflareStatic(r, form) ==
  /\ Start(r, "record")
  /\ Insert(form, "ready")
  /\ IF form.promote THEN Begin(r, "record", "activate", issued') ELSE UNCHANGED proc
  /\ UNCHANGED <<queueVars, purged, cleaned>>

\* handleActivateCloudflareStaticDeployment: the caller's evidence matches the row's.
StartActivateCloudflare(r, d) ==
  /\ Start(r, "activate")
  /\ row[d].target = "cloudflare_static" /\ row[d].evidence
  /\ row[d].status \in {"ready", "active"}
  /\ Begin(r, "activate", "activate", d)
  /\ UNCHANGED <<queueVars, tableVars, purged, cleaned>>

Activate(r) ==
  /\ r \in Requests /\ proc[r].pc = "activate"
  /\ ActivateTx(proc[r].deployment)
  /\ End(r)
  /\ UNCHANGED <<queueVars, issued, files, objects, historyVars>>

-----------------------------------------------------------------------------
(* handleDeleteSiteDeployment                                              *)

\* Broken variant: the manifest is forgotten.
BuiltPartsNoManifest(d) == IF row[d].built THEN <<Artifact>> ELSE <<>>

\* The objects the row names; a record of a Cloudflare upload names none.
BuiltParts(d) ==
  IF row[d].built /\ ~row[d].evidence THEN <<Artifact, Manifest>> ELSE <<>>

\* ListSiteDeploymentFiles: the paths of the deployment's file rows, in order (one
\* sequence, as a set).
FilesListed(d) ==
  LET paths == PartsIn(files, d)
      place(path) == CHOOSE i \in 1..Len(Files) : Files[i] = path
  IN  {list \in UNION {[1..n -> paths] : n \in 0..Len(Files)} :
         /\ {list[i] : i \in DOMAIN list} = paths
         /\ \A i, j \in DOMAIN list : i < j => place(list[i]) < place(list[j])}

\* The checks, and with delete_objects the list of the objects: those of the file
\* rows, then those the deployment's row names.
StartDelete(r, d, deleteObjects) ==
  /\ Start(r, "delete")
  /\ Exists(d) /\ ~row[d].active /\ ~row[d].pinned
  /\ \E todo \in IF deleteObjects THEN {list \o BuiltParts(d) : list \in FilesListed(d)}
                                    ELSE {<<>>} :
       /\ proc' = [proc EXCEPT ![r] = [@ EXCEPT
            !.pc = "delete", !.op = "delete", !.deployment = d, !.todo = todo,
            !.whole = deleteObjects /\ row[d].built]]
       /\ purged' = IF todo # <<>> THEN purged \cup {d} ELSE purged
  /\ UNCHANGED <<queueVars, tableVars, cleaned>>

\* The object goes, and with it the file row that refers to it.
DeletePart(r) ==
  /\ proc[r].pc = "delete" /\ proc[r].todo # <<>>
  /\ LET part == <<proc[r].deployment, Head(proc[r].todo)>> IN
       objects' = objects \ {part} /\ files' = files \ {part}
  /\ proc' = [proc EXCEPT ![r].todo = Tail(@)]
  /\ UNCHANGED <<queueVars, issued, row, historyVars>>

DeletePartFails(r) ==
  /\ proc[r].pc = "delete" /\ proc[r].todo # <<>>
  /\ proc' = [proc EXCEPT ![r] = [@ EXCEPT !.todo = Tail(proc[r].todo), !.failed = TRUE]]
  /\ UNCHANGED <<queueVars, tableVars, historyVars>>

\* Broken variant: the file rows do not go with the deployment (foreign_keys off).
DeleteRowOnly(d) ==
  /\ row' = IF row[d].active THEN row ELSE [row EXCEPT ![d] = NoRow]
  /\ UNCHANGED files

\* DELETE ... WHERE active = 0, with the file rows.
DeleteRow(d) ==
  IF row[d].active
    THEN UNCHANGED <<row, files>>
    ELSE /\ row' = [row EXCEPT ![d] = NoRow]
         /\ files' = {file \in files : file[1] # d}

\* An object that could not be deleted keeps the row.
DropDeployment(r) ==
  /\ proc[r].pc = "delete" /\ proc[r].todo = <<>>
  /\ LET d == proc[r].deployment IN
       /\ IF proc[r].failed THEN UNCHANGED <<row, files>> ELSE DeleteRow(d)
       /\ cleaned' = IF proc[r].whole /\ Exists(d) /\ row'[d] = NoRow
                       THEN cleaned \cup {d} ELSE cleaned
  /\ End(r)
  /\ UNCHANGED <<queueVars, issued, objects, purged, started>>

-----------------------------------------------------------------------------
(* Faults.                                                                 *)

\* The client goes away: the next statement fails and the handler returns.
Cancel(r) ==
  /\ proc[r] # Idle
  /\ faults < MaxFaults
  /\ faults' = faults + 1
  /\ End(r)
  /\ UNCHANGED <<jobs, worker, tableVars, historyVars>>

\* The process stops at any point and starts again.
Restart ==
  /\ faults < MaxFaults
  /\ Queue!Restart
  /\ proc' = [p \in Processes |-> Idle]
  /\ UNCHANGED <<tableVars, historyVars>>

\* The activation commits, then reading the row back fails: to the job that is
\* the same as no activation.
ActivateReadBackFails(w) ==
  /\ faults < MaxFaults
  /\ faults' = faults + 1
  /\ proc[w].op = "job" /\ proc[w].pc = "activate"
  /\ Activatable(proc[w].deployment)
  /\ ActivateTx(proc[w].deployment)
  /\ Goto(w, "fail")
  /\ UNCHANGED <<jobs, worker, issued, files, objects, historyVars>>

-----------------------------------------------------------------------------
Create(r) == (\E form \in Forms : CreateDeployment(r, form)) \/ QueueDeployment(r)

Publish(r) ==
  \/ \E d \in Deployments : StartPromote(r, d) \/ StartActivateCloudflare(r, d)
  \/ \E form \in Records : RecordCloudflareStatic(r, form)
  \/ Activate(r)

Delete(r) ==
  \/ \E d \in Deployments, deleteObjects \in BOOLEAN : StartDelete(r, d, deleteObjects)
  \/ DeletePart(r) \/ DeletePartFails(r) \/ DropDeployment(r)

Request(r) == Create(r) \/ Publish(r) \/ Delete(r)

\* The job loop around processSiteDeployment.
QueueStep(w) ==
  /\ \/ Queue!Tick(w) \/ Queue!NoQueuedJob(w) \/ Queue!FinishJob(w) \/ Queue!FailJob(w)
  /\ UNCHANGED <<tableVars, proc, historyVars>>

JobLoop(w) ==
  \/ QueueStep(w) \/ StartJob(w) \/ MarkProcessing(w) \/ PutPart(w) \/ AddFile(w)
  \/ BuildFails(w) \/ MarkReady(w) \/ ActivateBuilt(w) \/ FailDeployment(w)

Next ==
  \/ \E r \in Requests : Request(r) \/ Cancel(r)
  \/ \E w \in Workers : JobLoop(w) \/ ActivateReadBackFails(w)
  \/ Restart

Spec == Init /\ [][Next]_vars

-----------------------------------------------------------------------------
(* Properties.                                                             *)

TypeOK ==
  /\ Queue!TypeOK
  /\ issued \in 0..MaxDeployments
  /\ row \in [Deployments -> [status : Statuses \cup {"none"}, environment : Environments,
                              target : DeploymentTargets, pinned : BOOLEAN,
                              active : BOOLEAN, built : BOOLEAN, evidence : BOOLEAN]]
  /\ objects \subseteq Deployments \X PartSet
  /\ files \subseteq objects
  /\ \A file \in files : Exists(file[1]) /\ file[2] \in FilePaths

IsActive(d) == row[d].active

\* `active` and `status` are two columns that several handlers write, by id and
\* without reading them again; they agree: the live deployment has status active
\* and no other has.  A failed read after the activation has committed breaks it
\* (the job then marks the live deployment failed), so this needs no fault.  That at
\* most one is live holds whatever fails.
ActiveAgrees ==
  /\ faults = 0 => \A d \in Deployments : IsActive(d) <=> row[d].status = "active"
  /\ \A d, e \in Deployments : IsActive(d) /\ IsActive(e) => d = e

\* What is live was built to the end: every file is entered and stored, and so are
\* the bundle and the manifest.  Builds that fail half way, deletes of other
\* deployments and promotions may interleave with it in any way.  Only a delete
\* that began to delete the objects of this deployment may have spoilt it.
LiveIsComplete ==
  \A d \in Deployments \ purged :
    IsActive(d) /\ ~row[d].evidence =>
      /\ PartsIn(files, d) = FilePaths
      /\ PartsIn(objects, d) = PartSet

\* The documented rule behind LiveIsComplete's exception: an active production
\* deployment is not deleted.  Its rows and its objects are then all there.
ActiveDeploymentServable ==
  \A d \in Deployments :
    IsActive(d) /\ ~row[d].evidence => PartsIn(files, d) = FilePaths

\* Deleting a built deployment with its objects leaves no object behind, even if
\* deletes of it overlap or an earlier one stopped at an object it could not delete.
DeletedLeavesNothing ==
  \A d \in cleaned : PartsIn(objects, d) = {}

\* A deployment that waits to be built, or is being built, has a job that will say
\* how it ended: nothing else ever moves it on, and the job is attempted once.  A
\* request cut short before it queued the job, and a restart, break it.
WaitingHasJob ==
  faults = 0 =>
    \A d \in Deployments : row[d].status \in {"queued", "processing"} =>
      \/ \E i \in Queue!Ids : jobs[i].payload.deployment = d
                            /\ jobs[i].status \in {"queued", "running"}
      \/ \E r \in Requests : proc[r].pc = "queue" /\ proc[r].deployment = d

Current ==
  IF \E d \in Deployments : IsActive(d)
    THEN CHOOSE d \in Deployments : IsActive(d)
    ELSE NoDeployment

Release == INSTANCE SiteRelease
  WITH built <- {d \in Deployments : row[d].built}, current <- Current

\* What SiteRelease promises, whatever fails: publishing replaces one finished build
\* by another in one step, and the live one is never taken away.
ImplementsRelease == Release!Spec
=============================================================================
