------------------------ MODULE SiteDeployments_proofs ------------------------
(***************************************************************************)
(* Proofs about SiteDeployments, for every number of job loops, requests,  *)
(* deployments and faults and every list of files.                         *)
(*                                                                         *)
(* The inductive invariant Inv has six layers:                             *)
(*   QueueInv    what JobQueue_proofs shows of the queue;                  *)
(*   ProcInv     where loops and requests are, and about which deployment; *)
(*   RowsInv     what a deployment's row says of itself, and one is live;  *)
(*   JobsInv     a deployment has one job, taken once, and nobody builds   *)
(*               what is built or is being deleted with its objects;       *)
(*   PartsInv    which objects and file rows there are;                    *)
(*   StatusInv   without a fault, what the status says of the job.         *)
(* A lemma per action shows that it keeps Inv.  The frames (JobsFrame,     *)
(* PartsFrame, ...) say which steps cannot disturb a layer, so that each   *)
(* action only argues about what it changes.                               *)
(***************************************************************************)
EXTENDS SiteDeployments, SequenceTheorems, TLAPS

QueueProofs == INSTANCE JobQueue_proofs
                 WITH Payloads <- [deployment : Deployments, promote : BOOLEAN],
                      MaxAttempts <- 1, MaxJobs <- MaxDeployments

QueueInv == QueueProofs!Inv

Row == [status : Statuses \cup {"none"}, environment : Environments,
        target : DeploymentTargets, pinned : BOOLEAN,
        active : BOOLEAN, built : BOOLEAN, evidence : BOOLEAN]

ProcState ==
  [pc : {"idle", "queue", "begin", "build", "addFile", "fail", "activate", "delete"},
   op : {"none", "job", "create", "promote", "record", "activate", "delete"},
   deployment : 0..MaxDeployments, promote : BOOLEAN, todo : Seq(PartSet),
   failed : BOOLEAN, whole : BOOLEAN]

\* A loop that runs a job is at one of its steps; whoever is busy is so with a
\* deployment that exists or existed.
ProcInv ==
  /\ issued \in 0..MaxDeployments
  /\ proc \in [Processes -> ProcState]
  /\ \A p \in Processes : proc[p].pc # "idle" => proc[p].deployment \in 1..issued
  /\ \A r \in Requests : proc[r].pc \in {"idle", "queue", "activate", "delete"}
  /\ \A w \in Workers :
       /\ proc[w].pc \in {"idle", "begin", "build", "addFile", "fail", "activate"}
       /\ proc[w].pc # "idle" <=> worker[w].pc = "run"
       /\ proc[w].pc = "addFile" => proc[w].todo # <<>> /\ Head(proc[w].todo) \in FilePaths

RowInv(d) ==
  /\ d > issued => row[d] = NoRow
  /\ row[d].status = "none" => row[d] = NoRow
  /\ row[d].status \in {"ready", "active"} => row[d].built
  /\ row[d].active => row[d].built /\ row[d].environment = "production"

OneLive == \A d, e \in Deployments : row[d].active /\ row[e].active => d = e

RowsInv ==
  /\ row \in [Deployments -> Row]
  /\ \A d \in Deployments : RowInv(d)
  /\ OneLive

\* Nobody has finished d, and nobody is to say that nothing is left of it.
Unbuilt(d) ==
  /\ ~row[d].built /\ ~row[d].evidence
  /\ d \notin cleaned
  /\ \A r \in Requests : proc[r].pc = "delete" /\ proc[r].whole => proc[r].deployment # d

Building(w) == proc[w].pc \in {"begin", "build", "addFile"}

JobsInv ==
  /\ \A i \in Queue!Ids : jobs[i].type = Queue!DeploySite
                        /\ jobs[i].payload.deployment \in 1..issued
  /\ \A i, k \in Queue!Ids : jobs[i].payload.deployment = jobs[k].payload.deployment => i = k
  /\ \A r \in Requests : proc[r].pc = "queue" =>
       /\ \A i \in Queue!Ids : jobs[i].payload.deployment # proc[r].deployment
       /\ \A q \in Requests : proc[q].pc = "queue" /\ proc[q].deployment = proc[r].deployment
                               => q = r
       /\ Unbuilt(proc[r].deployment)
  /\ \A i \in Queue!Ids : jobs[i].status = "queued" => Unbuilt(jobs[i].payload.deployment)
  /\ \A w \in Workers : worker[w].pc = "run" =>
       jobs[worker[w].job].payload.deployment = proc[w].deployment
  /\ \A w \in Workers : Building(w) => Unbuilt(proc[w].deployment)

Elements(seq) == {seq[i] : i \in 1..Len(seq)}

\* All parts of d are stored.
PartsStored(d) == \A part \in PartSet : <<d, part>> \in objects

\* A stored file has its row.
NoStray(d, paths) ==
  \A path \in FilePaths \ paths : <<d, path>> \in objects => <<d, path>> \in files

PartsInv ==
  /\ objects \subseteq (1..issued) \X PartSet
  /\ files \subseteq objects
  /\ \A file \in files : Exists(file[1]) /\ file[2] \in FilePaths
  /\ purged \subseteq 1..issued /\ cleaned \subseteq 1..issued
  /\ \A d \in Deployments : row[d].evidence => \A part \in PartSet : <<d, part>> \notin objects
  /\ \A w \in Workers : proc[w].pc \in {"build", "addFile"} =>
       LET d == proc[w].deployment
           left == Elements(proc[w].todo)
       IN  /\ Exists(d) => NoStray(d, left)
           /\ d \notin purged => \A part \in PartSet \ left : <<d, part>> \in objects
  /\ \A d \in Deployments : row[d].built =>
       /\ NoStray(d, {})
       /\ ~row[d].evidence /\ d \notin purged => PartsStored(d)
  /\ \A r \in Requests : proc[r].pc = "delete" =>
       LET d == proc[r].deployment
       IN  /\ proc[r].todo # <<>> => d \in purged
           /\ proc[r].whole /\ ~proc[r].failed =>
                \A part \in PartSet \ Elements(proc[r].todo) : <<d, part>> \notin objects
  /\ DeletedLeavesNothing

\* What the status of a deployment may be while its job is at pc.
StatusAt(pc) ==
  CASE pc = "begin" -> {"queued", "none"}
    [] pc = "activate" -> {"ready", "active", "none"}
    [] OTHER -> {"processing", "none"}

StatusInv ==
  faults = 0 =>
    /\ \A d \in Deployments : row[d].active <=> row[d].status = "active"
    /\ \A i \in Queue!Ids : jobs[i].status = "queued" =>
         row[jobs[i].payload.deployment].status \in {"queued", "none"}
    /\ \A r \in Requests : proc[r].pc = "queue" =>
         row[proc[r].deployment].status \in {"queued", "none"}
    /\ \A w \in Workers : proc[w].pc # "idle" =>
         row[proc[w].deployment].status \in StatusAt(proc[w].pc)
    /\ \A w \in Workers : worker[w].pc \in {"ok", "err"} =>
         row[jobs[worker[w].job].payload.deployment].status \notin {"queued", "processing"}
    /\ WaitingHasJob

Inv == QueueInv /\ ProcInv /\ RowsInv /\ JobsInv /\ PartsInv /\ StatusInv


-----------------------------------------------------------------------------
(* What the steps do to the queue.                                         *)

\* What the proofs of the queue say, in the words of this module.
LEMMA QueueFacts ==
  ASSUME QueueInv
  PROVE  /\ jobs \in Seq(Queue!Job) /\ faults \in Nat
         /\ worker \in [Workers -> Queue!LoopState]
         /\ \A i \in Queue!Ids : jobs[i] \in Queue!Job
         /\ \A w \in Workers : worker[w].pc \in {"run", "ok", "err"} =>
              /\ worker[w].job \in Queue!Ids
              /\ jobs[worker[w].job].status = "running"
         /\ \A v, w \in Workers :
              /\ worker[v].pc \in {"run", "ok", "err"} /\ worker[w].pc \in {"run", "ok", "err"}
              /\ worker[v].job = worker[w].job
              => v = w
<1>1. /\ QueueProofs!Job = Queue!Job
      /\ QueueProofs!LoopState = Queue!LoopState
      /\ QueueProofs!Ids = Queue!Ids
  BY DEF QueueProofs!Ids, QueueProofs!Job, QueueProofs!LoopState, QueueProofs!JobTypes,
         QueueProofs!JobStatuses, QueueProofs!DeploySite, QueueProofs!ReplicateObject,
         QueueProofs!InitLibraries, Queue!Job, Queue!LoopState, Queue!Ids, Queue!JobTypes,
         Queue!JobStatuses, Queue!DeploySite, Queue!ReplicateObject, Queue!InitLibraries
<1>2. /\ jobs \in Seq(Queue!Job) /\ faults \in Nat
      /\ worker \in [Workers -> Queue!LoopState]
  BY <1>1 DEF QueueInv, QueueProofs!Inv, QueueProofs!TypeOK
<1>3. \A i \in Queue!Ids : jobs[i] \in Queue!Job
  BY <1>2, ElementOfSeq DEF Queue!Ids
<1> QED
  BY <1>1, <1>2, <1>3 DEF QueueInv, QueueProofs!Inv, QueueProofs!HeldRowIsOwn,
                          QueueProofs!ExclusiveClaim, QueueProofs!Holding

\* The queue's own steps keep what is known of it.
LEMMA LoopKeepsQueueInv ==
  ASSUME QueueInv, NEW w \in Workers,
         \/ Queue!Tick(w) \/ Queue!NoQueuedJob(w) \/ Queue!NextQueuedJob(w)
         \/ Queue!FinishJob(w) \/ Queue!FailJob(w)
         \/ \E ok \in BOOLEAN : Queue!RunJob(w, ok)
  PROVE  QueueInv'
<1>1. QueueProofs!Loop(w)
  <2>1. CASE Queue!Tick(w)
    BY <2>1 DEF Queue!Tick, QueueProofs!Tick, QueueProofs!Loop
  <2>2. CASE Queue!NoQueuedJob(w)
    BY <2>2 DEF Queue!NoQueuedJob, Queue!Queued, Queue!Ids, Queue!NotHolding,
                QueueProofs!NoQueuedJob, QueueProofs!Queued, QueueProofs!Ids,
                QueueProofs!NotHolding, QueueProofs!Loop
  <2>3. CASE Queue!NextQueuedJob(w)
    BY <2>3 DEF Queue!NextQueuedJob, Queue!Queued, Queue!Ids, Queue!Running, Queue!Taken,
                QueueProofs!NextQueuedJob, QueueProofs!Queued, QueueProofs!Ids,
                QueueProofs!Running, QueueProofs!Taken, QueueProofs!Loop
  <2>4. CASE Queue!FinishJob(w)
    BY <2>4 DEF Queue!FinishJob, Queue!WithStatus, Queue!NotHolding,
                QueueProofs!FinishJob, QueueProofs!WithStatus, QueueProofs!NotHolding,
                QueueProofs!Loop
  <2>5. CASE Queue!FailJob(w)
    BY <2>5 DEF Queue!FailJob, Queue!WithStatus, Queue!NotHolding, Queue!FailStatus,
                Queue!Retry, Queue!DeploySite,
                QueueProofs!FailJob, QueueProofs!WithStatus, QueueProofs!NotHolding,
                QueueProofs!FailStatus, QueueProofs!Retry, QueueProofs!DeploySite,
                QueueProofs!Loop
  <2>6. CASE \E ok \in BOOLEAN : Queue!RunJob(w, ok)
    BY <2>6 DEF Queue!RunJob, QueueProofs!RunJob, QueueProofs!Loop
  <2> QED
    BY <2>1, <2>2, <2>3, <2>4, <2>5, <2>6
<1> QED
  BY <1>1, QueueProofs!NextInv, BoundsAssumption DEF QueueInv, QueueProofs!Next

\* So does queueing a deployment.
LEMMA CreateKeepsQueueInv ==
  ASSUME QueueInv, NEW payload \in [deployment : Deployments, promote : BOOLEAN],
         Queue!CreateJob(Queue!DeploySite, payload)
  PROVE  QueueInv'
<1>1. QueueProofs!CreateJob(QueueProofs!DeploySite, payload)
  BY DEF Queue!CreateJob, Queue!DeploySite, QueueProofs!CreateJob, QueueProofs!DeploySite
<1> QED
  BY <1>1, QueueProofs!CreateInv, BoundsAssumption
     DEF QueueInv, QueueProofs!JobTypes

\* And a fault that leaves the loops alone, or lets go of all jobs.
LEMMA FaultKeepsQueueInv ==
  ASSUME QueueInv, jobs' = jobs, faults' = faults + 1,
         worker' = worker \/ worker' = [w \in Workers |-> Queue!NotHolding("wait")]
  PROVE  QueueInv'
<1>1. worker \in [Workers -> QueueProofs!LoopState] /\ faults \in Nat
  BY DEF QueueInv, QueueProofs!Inv, QueueProofs!TypeOK
<1>2. /\ worker' \in [Workers -> QueueProofs!LoopState]
      /\ \A w \in Workers : worker'[w].pc \in {"run", "ok", "err"} => worker'[w] = worker[w]
  BY <1>1 DEF QueueProofs!LoopState, Queue!NotHolding
<1>3. faults' \in Nat /\ faults' # 0
  BY <1>1
<1> QED
  BY <1>1, <1>2, <1>3, QueueProofs!LoopsInv, BoundsAssumption DEF QueueInv, QueueProofs!Holding

\* And a step that does not touch it.
LEMMA StutterKeepsQueueInv ==
  ASSUME QueueInv, UNCHANGED queueVars
  PROVE  QueueInv'
BY QueueProofs!NextInv, BoundsAssumption DEF QueueInv, queueVars, QueueProofs!vars

\* The rows are the same, but for the status and the attempts of row i.
OnlyRow(i) ==
  /\ Queue!Ids' = Queue!Ids
  /\ \A k \in Queue!Ids : /\ jobs'[k].type = jobs[k].type
                          /\ jobs'[k].payload = jobs[k].payload
                          /\ k # i => jobs'[k] = jobs[k]

OnlyLoop(w) == \A v \in Workers : v # w => worker'[v] = worker[v]

\* An update of one row's status changes nothing else of the table.
LEMMA StatusChange ==
  ASSUME QueueInv, NEW i \in Queue!Ids, NEW status \in Queue!JobStatuses,
         NEW attempts \in Nat,
         \/ jobs' = [jobs EXCEPT ![i] = [[@ EXCEPT !.status = status] EXCEPT !.attempts = attempts]]
         \/ jobs' = [jobs EXCEPT ![i] = [@ EXCEPT !.status = status]]
  PROVE  OnlyRow(i) /\ jobs'[i].status = status
<1>1. jobs \in Seq(Queue!Job) /\ jobs[i] \in Queue!Job
  BY QueueFacts
<1> DEFINE first == [jobs[i] EXCEPT !.status = status]
           second == [first EXCEPT !.attempts = attempts]
<1>2. /\ first \in Queue!Job /\ first.status = status
      /\ first.type = jobs[i].type /\ first.payload = jobs[i].payload
  BY <1>1 DEF Queue!Job
<1>3. jobs' = [jobs EXCEPT ![i] = second] \/ jobs' = [jobs EXCEPT ![i] = first]
  OBVIOUS
<1> HIDE DEF first
<1>4. /\ second \in Queue!Job /\ second.status = status
      /\ second.type = jobs[i].type /\ second.payload = jobs[i].payload
  BY <1>2 DEF Queue!Job
<1> HIDE DEF second
<1> QED
  BY <1>1, <1>2, <1>3, <1>4 DEF OnlyRow, Queue!Ids

\* Taking a job: a queued row becomes the loop's.
LEMMA TakeEffect ==
  ASSUME QueueInv, NEW w \in Workers, Queue!NextQueuedJob(w)
  PROVE  /\ OnlyRow(worker'[w].job) /\ OnlyLoop(w)
         /\ worker'[w].job \in Queue!Ids
         /\ jobs[worker'[w].job].status = "queued"
         /\ jobs'[worker'[w].job].status = "running"
         /\ worker[w].pc = "poll" /\ worker'[w].pc = "run"
<1>1. PICK i \in Queue!Ids :
        /\ jobs[i].status = "queued"
        /\ jobs' = [jobs EXCEPT ![i] = Queue!Taken(@)]
        /\ worker' = [worker EXCEPT ![w] = Queue!Running(i, Queue!Taken(jobs[i]))]
  BY DEF Queue!NextQueuedJob, Queue!Queued
<1>2. jobs[i].attempts + 1 \in Nat
  BY QueueFacts DEF Queue!Job
<1>3. jobs' = [jobs EXCEPT ![i] = [[@ EXCEPT !.status = "running"]
                                      EXCEPT !.attempts = jobs[i].attempts + 1]]
  BY <1>1 DEF Queue!Taken
<1>4. OnlyRow(i) /\ jobs'[i].status = "running"
  BY <1>2, <1>3, StatusChange DEF Queue!JobStatuses
<1>5. OnlyLoop(w) /\ worker'[w].pc = "run" /\ worker'[w].job = i
  BY <1>1, QueueFacts DEF OnlyLoop, Queue!Running
<1> QED
  BY <1>1, <1>4, <1>5 DEF Queue!NextQueuedJob

\* Writing an outcome: no row that is not a deployment's is put back.
LEMMA OutcomeEffect ==
  ASSUME QueueInv, NEW w \in Workers, Queue!FinishJob(w) \/ Queue!FailJob(w)
  PROVE  /\ OnlyRow(worker[w].job) /\ OnlyLoop(w)
         /\ worker[w].pc \in {"ok", "err"} /\ worker'[w].pc = "poll"
         /\ jobs[worker[w].job].type = Queue!DeploySite =>
              jobs'[worker[w].job].status \in {"done", "failed"}
         /\ faults' = faults
<1>1. worker[w].pc \in {"ok", "err"}
  BY DEF Queue!FinishJob, Queue!FailJob
<1>2. worker[w].job \in Queue!Ids
  BY <1>1, QueueFacts
<1>3. PICK status \in {"done", "failed", "queued"} :
        /\ jobs' = [jobs EXCEPT ![worker[w].job] = [@ EXCEPT !.status = status]]
        /\ jobs[worker[w].job].type = Queue!DeploySite => status # "queued"
  BY DEF Queue!FinishJob, Queue!FailJob, Queue!WithStatus, Queue!FailStatus, Queue!Retry
<1>4. OnlyRow(worker[w].job) /\ jobs'[worker[w].job].status = status
  BY <1>2, <1>3, StatusChange DEF Queue!JobStatuses
<1>5. OnlyLoop(w) /\ worker'[w].pc = "poll"
  BY QueueFacts DEF OnlyLoop, Queue!FinishJob, Queue!FailJob, Queue!NotHolding
<1> QED
  BY <1>1, <1>3, <1>4, <1>5 DEF Queue!FinishJob, Queue!FailJob

\* Going from a tick to the next one without a job.
LEMMA WaitEffect ==
  ASSUME QueueInv, NEW w \in Workers, Queue!Tick(w) \/ Queue!NoQueuedJob(w)
  PROVE  /\ jobs' = jobs /\ Queue!Ids' = Queue!Ids /\ faults' = faults /\ OnlyLoop(w)
         /\ worker[w].pc \in {"wait", "poll"} /\ worker'[w].pc \in {"wait", "poll"}
BY QueueFacts DEF Queue!Tick, Queue!NoQueuedJob, Queue!NotHolding, Queue!Ids, OnlyLoop,
                  Queue!LoopState

\* The job returns: its row is settled later.
LEMMA ReturnEffect ==
  ASSUME QueueInv, NEW w \in Workers, NEW ok \in BOOLEAN, Queue!RunJob(w, ok)
  PROVE  /\ jobs' = jobs /\ Queue!Ids' = Queue!Ids /\ faults' = faults /\ OnlyLoop(w)
         /\ worker[w].pc = "run" /\ worker'[w].pc \in {"ok", "err"}
         /\ worker'[w].job = worker[w].job
BY QueueFacts DEF Queue!RunJob, Queue!Ids, OnlyLoop, Queue!LoopState

\* A new job is the last row.
LEMMA CreateJobEffect ==
  ASSUME QueueInv, NEW payload \in [deployment : Deployments, promote : BOOLEAN],
         Queue!CreateJob(Queue!DeploySite, payload)
  PROVE  /\ Queue!Ids' = Queue!Ids \cup {Len(jobs) + 1} /\ Len(jobs) + 1 \notin Queue!Ids
         /\ \A i \in Queue!Ids : jobs'[i] = jobs[i]
         /\ jobs'[Len(jobs) + 1].type = Queue!DeploySite
         /\ jobs'[Len(jobs) + 1].payload = payload
         /\ jobs'[Len(jobs) + 1].status = "queued"
         /\ worker' = worker /\ faults' = faults
<1> DEFINE new == [type |-> Queue!DeploySite, payload |-> payload,
                   status |-> "queued", attempts |-> 0]
<1>1. /\ new \in Queue!Job
      /\ new.type = Queue!DeploySite /\ new.payload = payload /\ new.status = "queued"
  BY DEF Queue!Job, Queue!JobTypes, Queue!JobStatuses
<1>2. jobs' = Append(jobs, new) /\ worker' = worker /\ faults' = faults
  BY DEF Queue!CreateJob
<1> HIDE DEF new
<1>3. jobs \in Seq(Queue!Job)
  BY QueueFacts
<1> QED
  BY <1>1, <1>2, <1>3 DEF Queue!Ids

-----------------------------------------------------------------------------
(* What the steps do to the processes.                                     *)

\* Only process p moves.
Moves(p) ==
  /\ proc' \in [Processes -> ProcState]
  /\ \A q \in Processes : q # p => proc'[q] = proc[q]

\* Process p goes to pc, about d, with todo left to do.
Becomes(p, pc, d, todo, failed, whole) ==
  /\ Moves(p)
  /\ proc'[p].pc = pc /\ proc'[p].deployment = d /\ proc'[p].todo = todo
  /\ proc'[p].failed = failed /\ proc'[p].whole = whole

Pcs == {"idle", "queue", "begin", "build", "addFile", "fail", "activate", "delete"}
Ops == {"none", "job", "create", "promote", "record", "activate", "delete"}

\* The shapes of the updates the handlers make.
LEMMA ProcUpdate ==
  ASSUME ProcInv, NEW p \in Processes, NEW state \in ProcState,
         proc' = [proc EXCEPT ![p] = state]
  PROVE  Becomes(p, state.pc, state.deployment, state.todo, state.failed, state.whole)
BY DEF Becomes, Moves, ProcInv

\* Bundles are made of strings; what is built of one are its parts.
LEMMA PartsAreParts ==
  /\ Parts \in Seq(PartSet)
  /\ Parts # <<>>
  /\ Elements(Parts) = PartSet
  /\ Files \in Seq(FilePaths)
<1>1. Files \in Seq(FilePaths)
  BY FilesAssumption DEF FilePaths
<1>2. Files \in Seq(PartSet) /\ <<Artifact>> \in Seq(PartSet) /\ <<Manifest>> \in Seq(PartSet)
  BY FilesAssumption DEF FilePaths, PartSet
<1>3. /\ Parts \in Seq(PartSet)
      /\ Len(Parts) = Len(Files) + 2 /\ Len(Files) \in Nat
      /\ Parts[1] = Artifact /\ Parts[Len(Files) + 2] = Manifest
      /\ \A i \in 1..Len(Files) : Parts[i + 1] = Files[i]
  BY <1>2 DEF Parts
<1>4. Parts # <<>>
  BY <1>3
<1>5. Elements(Parts) \subseteq PartSet
  BY <1>3 DEF Elements
<1>6. ASSUME NEW part \in PartSet PROVE part \in Elements(Parts)
  <2>1. CASE part = Artifact
    <3>1. 1 \in 1..Len(Parts) BY <1>3
    <3> QED BY <1>3, <2>1, <3>1 DEF Elements
  <2>2. CASE part = Manifest
    <3>1. Len(Files) + 2 \in 1..Len(Parts) BY <1>3
    <3> QED BY <1>3, <2>2, <3>1 DEF Elements
  <2>3. CASE part \in FilePaths
    <3>1. PICK i \in 1..Len(Files) : part = Files[i]
      BY <2>3 DEF FilePaths
    <3>2. i + 1 \in 1..Len(Parts) /\ part = Parts[i + 1]
      BY <1>3, <3>1
    <3> QED BY <3>2 DEF Elements
  <2> QED
    BY <2>1, <2>2, <2>3 DEF PartSet
<1> QED
  BY <1>1, <1>3, <1>4, <1>5, <1>6

\* What is left after the first part is done.
LEMMA TailElements ==
  ASSUME NEW todo \in Seq(PartSet), todo # <<>>
  PROVE  /\ Head(todo) \in PartSet /\ Tail(todo) \in Seq(PartSet)
         /\ Head(todo) \in Elements(todo)
         /\ Elements(todo) = Elements(Tail(todo)) \cup {Head(todo)}
<1>1. /\ Len(todo) \in Nat \ {0} /\ Len(Tail(todo)) = Len(todo) - 1
      /\ Tail(todo) \in Seq(PartSet)
      /\ Head(todo) = todo[1] /\ todo[1] \in PartSet
      /\ \A i \in 1..Len(Tail(todo)) : Tail(todo)[i] = todo[i + 1]
  OBVIOUS
<1>2. Elements(todo) \subseteq Elements(Tail(todo)) \cup {Head(todo)}
  <2> SUFFICES ASSUME NEW i \in 1..Len(todo)
               PROVE  todo[i] \in Elements(Tail(todo)) \cup {Head(todo)}
    BY DEF Elements
  <2>1. CASE i = 1
    BY <1>1, <2>1
  <2>2. CASE i # 1
    <3>1. i - 1 \in 1..Len(Tail(todo)) /\ Tail(todo)[i - 1] = todo[i]
      BY <1>1, <2>2
    <3> QED BY <3>1 DEF Elements
  <2> QED BY <2>1, <2>2
<1>3. Elements(Tail(todo)) \cup {Head(todo)} \subseteq Elements(todo)
  <2>1. \A i \in 1..Len(Tail(todo)) : i + 1 \in 1..Len(todo) /\ Tail(todo)[i] = todo[i + 1]
    BY <1>1
  <2>2. 1 \in 1..Len(todo)
    BY <1>1
  <2> QED BY <1>1, <2>1, <2>2 DEF Elements
<1> QED
  BY <1>1, <1>2, <1>3

\* Nothing is left of nothing.
LEMMA EmptyElements ==
  /\ Elements(<<>>) = {} /\ <<>> \in Seq(PartSet)
BY DEF Elements

\* An idle process.
LEMMA IdleState ==
  /\ Idle \in ProcState
  /\ Idle.pc = "idle" /\ Idle.deployment = 0 /\ Idle.todo = <<>>
  /\ Idle.failed = FALSE /\ Idle.whole = FALSE
BY BoundsAssumption, EmptyElements DEF Idle, ProcState, NoDeployment

\* End: a process becomes idle.
LEMMA EndEffect ==
  ASSUME ProcInv, NEW p \in Processes, End(p)
  PROVE  Becomes(p, "idle", 0, <<>>, FALSE, FALSE)
BY IdleState, ProcUpdate DEF End

\* A step to another point of the same handler.
LEMMA GotoEffect ==
  ASSUME ProcInv, NEW p \in Processes, NEW pc \in Pcs, Goto(p, pc)
  PROVE  Becomes(p, pc, proc[p].deployment, proc[p].todo, proc[p].failed, proc[p].whole)
<1> DEFINE state == [proc[p] EXCEPT !.pc = pc]
<1>1. proc[p] \in ProcState
  BY DEF ProcInv
<1>2. /\ state \in ProcState /\ state.pc = pc
      /\ state.deployment = proc[p].deployment /\ state.todo = proc[p].todo
      /\ state.failed = proc[p].failed /\ state.whole = proc[p].whole
  BY <1>1 DEF ProcState, Pcs
<1>3. proc' = [proc EXCEPT ![p] = state]
  BY DEF Goto
<1> HIDE DEF state
<1> QED
  BY <1>2, <1>3, ProcUpdate

\* A handler begins: with a deployment to activate,
LEMMA BeginEffect ==
  ASSUME ProcInv, NEW p \in Processes, NEW pc \in Pcs, NEW op \in Ops,
         NEW d \in 0..MaxDeployments,
         proc' = [proc EXCEPT ![p] = [@ EXCEPT !.pc = pc, !.op = op, !.deployment = d]]
  PROVE  Becomes(p, pc, d, proc[p].todo, proc[p].failed, proc[p].whole)
<1> DEFINE state == [proc[p] EXCEPT !.pc = pc, !.op = op, !.deployment = d]
<1>1. proc[p] \in ProcState
  BY DEF ProcInv
<1>2. /\ state \in ProcState /\ state.pc = pc /\ state.deployment = d
      /\ state.todo = proc[p].todo /\ state.failed = proc[p].failed /\ state.whole = proc[p].whole
  BY <1>1 DEF ProcState, Pcs, Ops
<1>3. proc' = [proc EXCEPT ![p] = state]
  OBVIOUS
<1> HIDE DEF state
<1> QED
  BY <1>2, <1>3, ProcUpdate

\* with a deployment to build,
LEMMA TakeUpEffect ==
  ASSUME ProcInv, NEW p \in Processes, NEW pc \in Pcs, NEW op \in Ops,
         NEW d \in 0..MaxDeployments, NEW promote \in BOOLEAN,
         proc' = [proc EXCEPT ![p] = [@ EXCEPT !.pc = pc, !.op = op, !.deployment = d, !.promote = promote]]
  PROVE  Becomes(p, pc, d, proc[p].todo, proc[p].failed, proc[p].whole)
<1> DEFINE state == [proc[p] EXCEPT !.pc = pc, !.op = op, !.deployment = d, !.promote = promote]
<1>1. proc[p] \in ProcState
  BY DEF ProcInv
<1>2. /\ state \in ProcState /\ state.pc = pc /\ state.deployment = d
      /\ state.todo = proc[p].todo /\ state.failed = proc[p].failed /\ state.whole = proc[p].whole
  BY <1>1 DEF ProcState, Pcs, Ops
<1>3. proc' = [proc EXCEPT ![p] = state]
  OBVIOUS
<1> HIDE DEF state
<1> QED
  BY <1>2, <1>3, ProcUpdate

\* with a deployment to delete.
LEMMA BeginDeleteEffect ==
  ASSUME ProcInv, NEW p \in Processes, NEW d \in 0..MaxDeployments,
         NEW todo \in Seq(PartSet), NEW whole \in BOOLEAN,
         proc' = [proc EXCEPT ![p] = [@ EXCEPT !.pc = "delete", !.op = "delete", !.deployment = d,
                                  !.todo = todo, !.whole = whole]]
  PROVE  Becomes(p, "delete", d, todo, proc[p].failed, whole)
<1> DEFINE state == [proc[p] EXCEPT !.pc = "delete", !.op = "delete", !.deployment = d,
                                  !.todo = todo, !.whole = whole]
<1>1. proc[p] \in ProcState
  BY DEF ProcInv
<1>2. /\ state \in ProcState /\ state.pc = "delete" /\ state.deployment = d
      /\ state.todo = todo /\ state.failed = proc[p].failed /\ state.whole = whole
  BY <1>1 DEF ProcState, Pcs, Ops
<1>3. proc' = [proc EXCEPT ![p] = state]
  OBVIOUS
<1> HIDE DEF state
<1> QED
  BY <1>2, <1>3, ProcUpdate, ZenonT(60)

\* A handler goes on with what is left to do:
LEMMA GoOnEffect ==
  ASSUME ProcInv, NEW p \in Processes, NEW pc \in Pcs, NEW todo \in Seq(PartSet),
         proc' = [proc EXCEPT ![p] = [@ EXCEPT !.pc = pc, !.todo = todo]]
  PROVE  Becomes(p, pc, proc[p].deployment, todo, proc[p].failed, proc[p].whole)
<1> DEFINE state == [proc[p] EXCEPT !.pc = pc, !.todo = todo]
<1>1. proc[p] \in ProcState
  BY DEF ProcInv
<1>2. /\ state \in ProcState /\ state.pc = pc /\ state.deployment = proc[p].deployment
      /\ state.todo = todo /\ state.failed = proc[p].failed /\ state.whole = proc[p].whole
  BY <1>1 DEF ProcState, Pcs, Ops
<1>3. proc' = [proc EXCEPT ![p] = state]
  OBVIOUS
<1> HIDE DEF state
<1> QED
  BY <1>2, <1>3, ProcUpdate

\* where it is,
LEMMA TodoEffect ==
  ASSUME ProcInv, NEW p \in Processes, NEW todo \in Seq(PartSet),
         proc' = [proc EXCEPT ![p].todo = todo]
  PROVE  Becomes(p, proc[p].pc, proc[p].deployment, todo, proc[p].failed, proc[p].whole)
<1> DEFINE state == [proc[p] EXCEPT !.todo = todo]
<1>1. proc[p] \in ProcState
  BY DEF ProcInv
<1>2. /\ state \in ProcState /\ state.pc = proc[p].pc /\ state.deployment = proc[p].deployment
      /\ state.todo = todo /\ state.failed = proc[p].failed /\ state.whole = proc[p].whole
  BY <1>1 DEF ProcState, Pcs, Ops
<1>3. proc' = [proc EXCEPT ![p] = state]
  OBVIOUS
<1> HIDE DEF state
<1> QED
  BY <1>2, <1>3, ProcUpdate

\* or after a failure.
LEMMA FailedEffect ==
  ASSUME ProcInv, NEW p \in Processes, NEW todo \in Seq(PartSet),
         proc' = [proc EXCEPT ![p] = [@ EXCEPT !.todo = todo, !.failed = TRUE]]
  PROVE  Becomes(p, proc[p].pc, proc[p].deployment, todo, TRUE, proc[p].whole)
<1> DEFINE state == [proc[p] EXCEPT !.todo = todo, !.failed = TRUE]
<1>1. proc[p] \in ProcState
  BY DEF ProcInv
<1>2. /\ state \in ProcState /\ state.pc = proc[p].pc /\ state.deployment = proc[p].deployment
      /\ state.todo = todo /\ state.failed = TRUE /\ state.whole = proc[p].whole
  BY <1>1 DEF ProcState, Pcs, Ops
<1>3. proc' = [proc EXCEPT ![p] = state]
  OBVIOUS
<1> HIDE DEF state
<1> QED
  BY <1>2, <1>3, ProcUpdate

-----------------------------------------------------------------------------
(* Frames: what a step may do without disturbing a layer.                  *)

\* One job is followed for ever: the rows stay, none is queued again, no loop or
\* request takes up another deployment, and what is unbuilt stays so.
LEMMA JobsFrame ==
  ASSUME Inv, issued' \in Nat, issued <= issued',
         Queue!Ids' = Queue!Ids,
         \A i \in Queue!Ids : /\ jobs'[i].type = jobs[i].type
                              /\ jobs'[i].payload = jobs[i].payload
                              /\ jobs'[i].status = "queued" => jobs[i].status = "queued",
         \A r \in Requests : proc'[r].pc = "queue" => proc'[r] = proc[r],
         \A w \in Workers : worker'[w].pc = "run" =>
            /\ worker[w].pc = "run" /\ worker'[w].job = worker[w].job
            /\ proc'[w].deployment = proc[w].deployment,
         \A w \in Workers : Building(w)' => Building(w) /\ worker'[w].pc = "run",
         \A d \in 1..issued : Unbuilt(d) => Unbuilt(d)'
  PROVE  JobsInv'
<1>1. /\ \A r \in Requests : proc[r].pc = "queue" => proc[r].deployment \in 1..issued
      /\ \A w \in Workers : Building(w) => proc[w].deployment \in 1..issued
      /\ \A w \in Workers : worker[w].pc = "run" => worker[w].job \in Queue!Ids
      /\ issued \in Nat
  BY QueueFacts, BoundsAssumption DEF Inv, ProcInv, Processes, Building
<1>2. JobsInv
  BY DEF Inv
<1>3. \A i \in Queue!Ids' : jobs'[i].type = Queue!DeploySite
                          /\ jobs'[i].payload.deployment \in 1..issued'
  BY <1>1, <1>2 DEF JobsInv
<1>4. \A i, k \in Queue!Ids' :
        jobs'[i].payload.deployment = jobs'[k].payload.deployment => i = k
  BY <1>2 DEF JobsInv
<1>5. \A r \in Requests : proc'[r].pc = "queue" =>
        /\ \A i \in Queue!Ids' : jobs'[i].payload.deployment # proc'[r].deployment
        /\ \A q \in Requests : proc'[q].pc = "queue" /\ proc'[q].deployment = proc'[r].deployment
                                => q = r
        /\ Unbuilt(proc[r].deployment)'
  BY <1>1, <1>2 DEF JobsInv
<1>6. \A i \in Queue!Ids' : jobs'[i].status = "queued" => Unbuilt(jobs[i].payload.deployment)'
  BY <1>2 DEF JobsInv
<1>7. \A w \in Workers : worker'[w].pc = "run" =>
        jobs'[worker'[w].job].payload.deployment = proc'[w].deployment
  BY <1>1, <1>2 DEF JobsInv
<1>8. \A w \in Workers : Building(w)' => Unbuilt(proc[w].deployment)'
  BY <1>1, <1>2 DEF JobsInv
<1> QED
  BY <1>3, <1>4, <1>5, <1>6, <1>7, <1>8 DEF JobsInv

\* Objects and file rows are as they were, and so is what is asked of them.
LEMMA PartsFrame ==
  ASSUME Inv, issued' \in Nat, issued <= issued',
         UNCHANGED <<objects, files, purged, cleaned>>,
         \A d \in Deployments : Exists(d) => Exists(d)',
         \A d \in Deployments : (Exists(d)' => Exists(d)) \/ d > issued,
         \A d \in Deployments : row'[d].built \/ row'[d].evidence =>
            \/ row[d].built = row'[d].built /\ row[d].evidence = row'[d].evidence
            \/ d > issued /\ row'[d].evidence,
         \A w \in Workers : proc'[w].pc \in {"build", "addFile"} =>
            /\ proc[w].pc \in {"build", "addFile"}
            /\ proc'[w].deployment = proc[w].deployment /\ proc'[w].todo = proc[w].todo,
         \A r \in Requests : proc'[r].pc = "delete" => proc'[r] = proc[r]
  PROVE  PartsInv'
<1>0. PartsInv
  BY DEF Inv
<1>1. /\ issued \in Nat /\ Deployments \in SUBSET Nat
      /\ \A w \in Workers : proc[w].pc \in {"build", "addFile"} =>
           proc[w].deployment \in Deployments /\ ~(proc[w].deployment > issued)
  BY BoundsAssumption DEF Inv, ProcInv, Processes, Deployments
<1>2. /\ objects' \subseteq (1..issued') \X PartSet
      /\ files' \subseteq objects'
      /\ purged' \subseteq 1..issued' /\ cleaned' \subseteq 1..issued'
  BY <1>0, <1>1 DEF PartsInv
<1>3. \A file \in files' : Exists(file[1])' /\ file[2] \in FilePaths
  <2>1. \A file \in files : file[1] \in Deployments
    BY <1>0, <1>1, BoundsAssumption DEF PartsInv, Deployments, Inv, ProcInv
  <2> QED BY <1>0, <2>1 DEF PartsInv
<1>4. \A d \in Deployments : row'[d].evidence => \A part \in PartSet : <<d, part>> \notin objects'
  BY <1>0, <1>1 DEF PartsInv
<1>5. ASSUME NEW w \in Workers, proc'[w].pc \in {"build", "addFile"}
      PROVE  /\ Exists(proc[w].deployment)' => NoStray(proc[w].deployment, Elements(proc[w].todo))'
             /\ proc'[w].deployment \notin purged' =>
                  \A part \in PartSet \ Elements(proc'[w].todo) :
                     <<proc'[w].deployment, part>> \in objects'
  BY <1>0, <1>1, <1>5 DEF PartsInv, NoStray, Exists
<1>6. ASSUME NEW d \in Deployments, row'[d].built
      PROVE  /\ NoStray(d, {})'
             /\ ~row'[d].evidence /\ d \notin purged' => PartsStored(d)'
  BY <1>0, <1>1, <1>6 DEF PartsInv, NoStray, PartsStored
<1>7. \A r \in Requests : proc'[r].pc = "delete" =>
       /\ proc'[r].todo # <<>> => proc'[r].deployment \in purged'
       /\ proc'[r].whole /\ ~proc'[r].failed =>
            \A part \in PartSet \ Elements(proc'[r].todo) : <<proc'[r].deployment, part>> \notin objects'
  BY <1>0 DEF PartsInv
<1>8. DeletedLeavesNothing'
  BY <1>0 DEF PartsInv, DeletedLeavesNothing, PartsIn
<1> QED
  BY <1>2, <1>3, <1>4, <1>5, <1>6, <1>7, <1>8 DEF PartsInv

\* The status of e does not go back to waiting, nor comes from there.
StatusKept(e) ==
  \/ row'[e].status = row[e].status
  \/ row'[e].status = "none"
  \/ row[e].status \in {"ready", "active"} /\ row'[e].status \in {"ready", "active"}

\* No deployment begins or ceases to wait, and jobs and processes stay with theirs.
LEMMA StatusFrame ==
  ASSUME Inv, faults' = faults,
         faults = 0 => \A d \in Deployments : d <= issued => StatusKept(d),
         \A d \in Deployments : d > issued => row'[d].status \notin {"queued", "processing"},
         faults = 0 => \A d \in Deployments : row'[d].active <=> row'[d].status = "active",
         Queue!Ids' = Queue!Ids,
         \A i \in Queue!Ids : /\ jobs'[i].payload = jobs[i].payload
                              /\ jobs'[i].status = "queued" => jobs[i].status = "queued"
                              /\ jobs[i].status \in {"queued", "running"} =>
                                   jobs'[i].status \in {"queued", "running"},
         \A r \in Requests : proc'[r].pc = "queue" <=> proc[r].pc = "queue",
         \A r \in Requests : proc[r].pc = "queue" => proc'[r] = proc[r],
         \A w \in Workers : proc'[w].pc # "idle" =>
            /\ proc[w].pc # "idle" /\ proc'[w].deployment = proc[w].deployment
            /\ StatusAt(proc[w].pc) \subseteq StatusAt(proc'[w].pc),
         \A w \in Workers : worker'[w].pc \in {"ok", "err"} =>
            worker[w].pc \in {"ok", "err"} /\ worker'[w].job = worker[w].job
  PROVE  StatusInv'
<1> SUFFICES ASSUME faults = 0 PROVE StatusInv'
  BY DEF StatusInv
<1>0. /\ issued \in Nat /\ Deployments \in SUBSET Nat
      /\ \A i \in Queue!Ids : jobs[i].payload.deployment \in Deployments
                           /\ jobs[i].payload.deployment <= issued
      /\ \A p \in Processes : proc[p].pc # "idle" =>
           proc[p].deployment \in Deployments /\ proc[p].deployment <= issued
  BY BoundsAssumption DEF Inv, ProcInv, JobsInv, Deployments
<1>1. \A w \in Workers : worker[w].pc \in {"ok", "err"} => worker[w].job \in Queue!Ids
  BY QueueFacts DEF Inv
<1>2. \A d \in Deployments : row[d].active <=> row[d].status = "active"
  BY DEF Inv, StatusInv
<1>3. \A i \in Queue!Ids' : jobs'[i].status = "queued" =>
        row'[jobs'[i].payload.deployment].status \in {"queued", "none"}
  BY <1>0 DEF Inv, StatusInv, StatusKept
<1>4. ASSUME NEW r \in Requests, proc'[r].pc = "queue"
      PROVE  row'[proc'[r].deployment].status \in {"queued", "none"}
  <2>1. proc[r].pc = "queue" /\ proc'[r] = proc[r]
    BY <1>4
  <2>2. proc[r].deployment \in Deployments /\ proc[r].deployment <= issued
    BY <1>0, <2>1 DEF Processes
  <2>3. row[proc[r].deployment].status \in {"queued", "none"}
    BY <2>1 DEF Inv, StatusInv
  <2> QED BY <2>1, <2>2, <2>3 DEF StatusKept
<1>5. ASSUME NEW w \in Workers, proc'[w].pc # "idle"
      PROVE  row'[proc'[w].deployment].status \in StatusAt(proc'[w].pc)
  <2>1. row[proc[w].deployment].status \in StatusAt(proc[w].pc)
    BY <1>5 DEF Inv, StatusInv
  <2>2. row'[proc[w].deployment].status \in StatusAt(proc[w].pc)
    BY <1>0, <1>5, <2>1 DEF StatusKept, StatusAt, Processes
  <2> QED BY <1>5, <2>2
<1>6. \A w \in Workers : worker'[w].pc \in {"ok", "err"} =>
        row'[jobs'[worker'[w].job].payload.deployment].status \notin {"queued", "processing"}
  BY <1>0, <1>1 DEF Inv, StatusInv, StatusKept
<1>7. WaitingHasJob'
  <2> SUFFICES ASSUME NEW d \in Deployments, row'[d].status \in {"queued", "processing"}
               PROVE  \/ \E i \in Queue!Ids' : jobs'[i].payload.deployment = d
                                             /\ jobs'[i].status \in {"queued", "running"}
                      \/ \E r \in Requests : proc'[r].pc = "queue" /\ proc'[r].deployment = d
    BY DEF WaitingHasJob
  <2>1. row[d].status \in {"queued", "processing"}
    BY <1>0 DEF StatusKept
  <2>2. \/ \E i \in Queue!Ids : jobs[i].payload.deployment = d
                              /\ jobs[i].status \in {"queued", "running"}
        \/ \E r \in Requests : proc[r].pc = "queue" /\ proc[r].deployment = d
    BY <2>1 DEF Inv, StatusInv, WaitingHasJob
  <2> QED BY <2>2
<1> QED
  BY <1>3, <1>4, <1>5, <1>6, <1>7 DEF StatusInv

\* A process moves to a point of its own program.
LEMMA ProcFrame ==
  ASSUME ProcInv, NEW p \in Processes, Moves(p),
         issued' \in 0..MaxDeployments, issued <= issued',
         proc'[p].pc # "idle" => proc'[p].deployment \in 1..issued',
         p \in Requests => proc'[p].pc \in {"idle", "queue", "activate", "delete"},
         \A w \in Workers : w # p => (worker'[w].pc = "run" <=> worker[w].pc = "run"),
         p \in Workers =>
           /\ proc'[p].pc \in {"idle", "begin", "build", "addFile", "fail", "activate"}
           /\ proc'[p].pc # "idle" <=> worker'[p].pc = "run"
           /\ proc'[p].pc = "addFile" => proc'[p].todo # <<>> /\ Head(proc'[p].todo) \in FilePaths
  PROVE  ProcInv'
<1>1. issued \in Nat /\ issued' \in Nat
  BY BoundsAssumption DEF ProcInv
<1>2. \A q \in Processes : proc'[q].pc # "idle" => proc'[q].deployment \in 1..issued'
  BY <1>1 DEF ProcInv, Moves
<1>3. \A r \in Requests : proc'[r].pc \in {"idle", "queue", "activate", "delete"}
  BY DEF ProcInv, Moves, Processes
<1>4. \A w \in Workers :
       /\ proc'[w].pc \in {"idle", "begin", "build", "addFile", "fail", "activate"}
       /\ proc'[w].pc # "idle" <=> worker'[w].pc = "run"
       /\ proc'[w].pc = "addFile" => proc'[w].todo # <<>> /\ Head(proc'[w].todo) \in FilePaths
  BY DEF ProcInv, Moves, Processes
<1> QED
  BY <1>2, <1>3, <1>4 DEF ProcInv, Moves

\* UpdateSiteDeploymentStatus
LEMMA SetStatusEffect ==
  ASSUME RowsInv, issued' = issued, NEW d \in Deployments,
         NEW status \in {"processing", "failed"}, SetStatus(d, status)
  PROVE  /\ RowsInv'
         /\ \A e \in Deployments : row'[e].active = row[e].active /\ row'[e].built = row[e].built
                                 /\ row'[e].evidence = row[e].evidence
                                 /\ (Exists(e)' <=> Exists(e))
                                 /\ (e # d => row'[e] = row[e])
         /\ row'[d].status \in {status, "none"}
<1>1. CASE ~Exists(d)
  BY <1>1 DEF SetStatus, RowsInv, RowInv, OneLive, Exists
<1>2. CASE Exists(d)
  <2> DEFINE new == [row[d] EXCEPT !.status = status]
  <2>1. /\ new \in Row /\ new.status = status /\ new.active = row[d].active
        /\ new.built = row[d].built /\ new.evidence = row[d].evidence
        /\ new.environment = row[d].environment
    BY DEF Row, RowsInv, Statuses
  <2>2. row' = [row EXCEPT ![d] = new]
    BY <1>2 DEF SetStatus
  <2> HIDE DEF new
  <2>3. /\ row' \in [Deployments -> Row] /\ row'[d] = new
        /\ \A e \in Deployments : e # d => row'[e] = row[e]
    BY <2>1, <2>2 DEF RowsInv
  <2>4. ~(d > issued)
    BY <1>2 DEF RowsInv, RowInv, Exists, NoRow
  <2>5. \A e \in Deployments : RowInv(e)'
    BY <2>1, <2>3, <2>4 DEF RowsInv, RowInv
  <2>6. \A e \in Deployments : row'[e].active = row[e].active
    BY <2>1, <2>3
  <2>7. OneLive'
    BY <2>6 DEF RowsInv, OneLive
  <2> QED
    BY <1>2, <2>1, <2>3, <2>5, <2>6, <2>7 DEF RowsInv, Exists
<1> QED
  BY <1>1, <1>2

\* MarkSiteDeploymentReady
LEMMA ReadyEffect ==
  ASSUME RowsInv, issued' = issued, NEW d \in Deployments, Exists(d),
         row' = [row EXCEPT ![d].status = "ready", ![d].built = TRUE]
  PROVE  /\ RowsInv'
         /\ \A e \in Deployments : row'[e].active = row[e].active
                                 /\ row'[e].evidence = row[e].evidence
                                 /\ (Exists(e)' <=> Exists(e))
                                 /\ (e # d => row'[e] = row[e])
         /\ row'[d].status = "ready" /\ row'[d].built
<1> DEFINE new == [row[d] EXCEPT !.status = "ready", !.built = TRUE]
<1>1. /\ new \in Row /\ new.status = "ready" /\ new.active = row[d].active
      /\ new.built = TRUE /\ new.evidence = row[d].evidence
      /\ new.environment = row[d].environment
  BY DEF Row, RowsInv, Statuses
<1>2. row' = [row EXCEPT ![d] = new]
  OBVIOUS
<1> HIDE DEF new
<1>3. /\ row' \in [Deployments -> Row] /\ row'[d] = new
      /\ \A e \in Deployments : e # d => row'[e] = row[e]
  BY <1>1, <1>2 DEF RowsInv
<1>4. ~(d > issued)
  BY DEF RowsInv, RowInv, Exists, NoRow
<1>5. \A e \in Deployments : RowInv(e)'
  BY <1>1, <1>3, <1>4 DEF RowsInv, RowInv
<1>6. \A e \in Deployments : row'[e].active = row[e].active
  BY <1>1, <1>3
<1>7. OneLive'
  BY <1>6 DEF RowsInv, OneLive
<1> QED
  BY <1>1, <1>3, <1>5, <1>6, <1>7 DEF RowsInv, Exists

\* DeleteSiteDeployment
LEMMA DeleteEffect ==
  ASSUME RowsInv, issued' = issued, NEW d \in Deployments, ~row[d].active,
         row' = [row EXCEPT ![d] = NoRow]
  PROVE  /\ RowsInv'
         /\ row'[d] = NoRow
         /\ \A e \in Deployments : e # d => row'[e] = row[e]
<1>1. /\ NoRow \in Row /\ NoRow.active = FALSE /\ NoRow.built = FALSE /\ NoRow.evidence = FALSE
      /\ NoRow.status = "none"
  BY DEF Row, NoRow, Statuses, Environments, DeploymentTargets
<1>2. /\ row' \in [Deployments -> Row] /\ row'[d] = NoRow
      /\ \A e \in Deployments : e # d => row'[e] = row[e]
  BY <1>1 DEF RowsInv
<1>3. \A e \in Deployments : RowInv(e)'
  BY <1>1, <1>2 DEF RowsInv, RowInv
<1>4. OneLive'
  BY <1>1, <1>2 DEF RowsInv, OneLive
<1> QED
  BY <1>2, <1>3, <1>4 DEF RowsInv

\* ActivateSiteDeployment: d is live afterwards, or nothing has changed.
LEMMA ActivateEffect ==
  ASSUME RowsInv, issued' = issued, NEW d \in Deployments, ActivateTx(d)
  PROVE  /\ RowsInv'
         /\ ~Activatable(d) => row' = row
         /\ Activatable(d) =>
              /\ row[d].built
              /\ row'[d].active /\ row'[d].status = "active"
              /\ \A e \in Deployments : e # d =>
                   /\ ~row'[e].active
                   /\ row'[e].status = IF row[e].active THEN "ready" ELSE row[e].status
         /\ \A e \in Deployments : row'[e].built = row[e].built
                                 /\ row'[e].evidence = row[e].evidence
                                 /\ (Exists(e)' <=> Exists(e))
<1>1. CASE ~Activatable(d)
  BY <1>1 DEF ActivateTx, RowsInv, RowInv, OneLive, Exists
<1>2. CASE Activatable(d)
  <2>1. \A dep \in Row :
          /\ Activated(dep) \in Row /\ Activated(dep).active /\ Activated(dep).status = "active"
          /\ Activated(dep).environment = "production"
          /\ Activated(dep).built = dep.built /\ Activated(dep).evidence = dep.evidence
    BY DEF Activated, Row, Statuses, Environments
  <2>2. \A dep \in Row : dep.active /\ dep.environment = "production" =>
          /\ Deactivated(dep) \in Row /\ ~Deactivated(dep).active
          /\ Deactivated(dep).status = "ready"
          /\ Deactivated(dep).built = dep.built /\ Deactivated(dep).evidence = dep.evidence
    BY DEF Deactivated, Row, Statuses, Environments
  <2>3. \A dep \in Row : ~dep.active => Deactivated(dep) = dep
    BY DEF Deactivated, Row
  <2>4. /\ row \in [Deployments -> Row]
        /\ \A e \in Deployments : RowInv(e)
    BY DEF RowsInv
  <2>5. /\ row'[d] = Activated(row[d])
        /\ \A e \in Deployments : e # d => row'[e] = Deactivated(row[e])
        /\ DOMAIN row' = Deployments
        /\ row' = [e \in Deployments |-> row'[e]]
    BY <1>2 DEF ActivateTx
  <2>6. \A e \in Deployments : e # d =>
          /\ row'[e] \in Row /\ ~row'[e].active
          /\ row'[e].status = IF row[e].active THEN "ready" ELSE row[e].status
          /\ row'[e].built = row[e].built /\ row'[e].evidence = row[e].evidence
          /\ ~row[e].active => row'[e] = row[e]
    BY <2>2, <2>3, <2>4, <2>5 DEF RowInv
  <2>7. row' \in [Deployments -> Row]
    BY <2>1, <2>4, <2>5, <2>6
  <2>8. ~(d > issued) /\ row[d].built
    BY <1>2, <2>4 DEF RowInv, Activatable, NoRow
  <2>9. RowInv(d)'
    BY <2>1, <2>4, <2>5, <2>8 DEF RowInv
  <2>10. ASSUME NEW e \in Deployments, e # d PROVE RowInv(e)'
    <3>1. CASE row[e].active
      <4>1. ~(e > issued) /\ row[e].built
        BY <2>4, <3>1 DEF RowInv, NoRow
      <4> QED BY <2>6, <2>10, <3>1, <4>1 DEF RowInv
    <3>2. CASE ~row[e].active
      BY <2>4, <2>6, <2>10, <3>2 DEF RowInv
    <3> QED BY <3>1, <3>2
  <2>11. OneLive'
    BY <2>6 DEF OneLive
  <2>12. \A e \in Deployments : Exists(e)' <=> Exists(e)
    <3>1. Exists(d) /\ Exists(d)'
      BY <1>2, <2>1, <2>4, <2>5 DEF Exists, Activatable
    <3>2. \A e \in Deployments : row[e].active => row[e].status # "none"
      BY <2>4 DEF RowInv, NoRow
    <3> QED BY <2>6, <3>1, <3>2 DEF Exists
  <2> QED
    BY <1>2, <2>1, <2>4, <2>5, <2>6, <2>7, <2>8, <2>9, <2>10, <2>11, <2>12 DEF RowsInv
<1> QED
  BY <1>1, <1>2

\* CreateSiteDeployment: the next row of the table, and nothing else.
LEMMA InsertEffect ==
  ASSUME ProcInv, RowsInv, NEW form \in Form, NEW status \in {"queued", "ready"},
         Insert(form, status)
  PROVE  /\ issued + 1 \in Deployments /\ issued' = issued + 1 /\ issued' \in 0..MaxDeployments
         /\ \A d \in Deployments : d # issued + 1 => row'[d] = row[d]
         /\ row[issued + 1] = NoRow
         /\ row'[issued + 1].status = status /\ ~row'[issued + 1].active
         /\ row'[issued + 1].built <=> status = "ready"
         /\ row'[issued + 1].evidence <=> status = "ready"
         /\ RowsInv'
<1> DEFINE ready == status = "ready"
           new == [NoRow EXCEPT !.status = status, !.environment = form.environment,
                     !.target = form.target, !.pinned = form.pinned,
                     !.built = ready, !.evidence = ready]
<1>1. row' = [row EXCEPT ![issued + 1] = new]
  BY DEF Insert
<1>2. ready \in BOOLEAN /\ (ready <=> status = "ready")
  OBVIOUS
<1> HIDE DEF ready
<1>3. /\ new \in Row /\ new.status = status /\ new.active = FALSE
      /\ new.built = ready /\ new.evidence = ready
  BY <1>2 DEF Row, NoRow, Form, Statuses, Environments, DeploymentTargets
<1>4. issued \in Nat /\ issued < MaxDeployments /\ issued' = issued + 1
  BY BoundsAssumption DEF ProcInv, Insert
<1>5. /\ issued + 1 \in Deployments /\ issued' \in 0..MaxDeployments
      /\ row[issued + 1] = NoRow
  BY <1>4, BoundsAssumption DEF Deployments, RowsInv, RowInv
<1> HIDE DEF new
<1>6. /\ row' \in [Deployments -> Row]
      /\ \A d \in Deployments : d # issued + 1 => row'[d] = row[d]
      /\ row'[issued + 1] = new
  BY <1>1, <1>3, <1>5 DEF RowsInv
<1>7. \A d \in Deployments : RowInv(d)'
  BY <1>2, <1>3, <1>4, <1>5, <1>6 DEF RowsInv, RowInv, Deployments
<1>8. OneLive'
  BY <1>3, <1>6 DEF RowsInv, OneLive
<1> QED
  BY <1>2, <1>3, <1>4, <1>5, <1>6, <1>7, <1>8 DEF RowsInv

-----------------------------------------------------------------------------
(* Every step keeps the invariant.                                         *)

\* Of idle things, of slots and of loops.
LEMMA Slots ==
  ASSUME Inv
  PROVE  /\ issued \in Nat /\ MaxDeployments \in Nat /\ issued \in 0..MaxDeployments
         /\ Requests \subseteq Processes /\ Workers \subseteq Processes
         /\ \A r \in Requests : r \notin Workers
         /\ Deployments = 1..MaxDeployments
BY WorkersAssumption, BoundsAssumption DEF Inv, ProcInv, Processes, Deployments

\* The layers, one by one.
LEMMA Layers ==
  ASSUME Inv
  PROVE  QueueInv /\ ProcInv /\ RowsInv /\ JobsInv /\ PartsInv /\ StatusInv
BY DEF Inv

\* handleCreateSiteDeployment inserts the row.
LEMMA CreateDeploymentInv ==
  ASSUME Inv, NEW r \in Requests, NEW form \in Forms, CreateDeployment(r, form)
  PROVE  Inv'
<1>1. form \in Form /\ Insert(form, "queued")
  BY FormsAssumption DEF CreateDeployment
<1>2. PICK d \in Deployments :
        /\ d = issued + 1 /\ issued' = d /\ issued' \in 0..MaxDeployments
        /\ \A e \in Deployments : e # d => row'[e] = row[e]
        /\ row[d] = NoRow
        /\ row'[d].status = "queued" /\ ~row'[d].active
        /\ ~row'[d].built /\ ~row'[d].evidence
        /\ RowsInv'
  BY <1>1, InsertEffect, Layers
<1>3. /\ proc[r] = Idle /\ form.promote \in BOOLEAN
      /\ files' = files /\ objects' = objects /\ purged' = purged /\ cleaned' = cleaned
      /\ UNCHANGED queueVars
  BY <1>1 DEF CreateDeployment, Start, Form, Insert
<1>4. /\ jobs' = jobs /\ worker' = worker /\ faults' = faults /\ Queue!Ids' = Queue!Ids
  BY <1>3 DEF queueVars, Queue!Ids
<1>5. Becomes(r, "queue", d, <<>>, FALSE, FALSE)
  <2>1. proc' = [proc EXCEPT ![r] = [@ EXCEPT !.pc = "queue", !.op = "create",
                                             !.deployment = d, !.promote = form.promote]]
    BY <1>2 DEF CreateDeployment
  <2>2. "queue" \in Pcs /\ "create" \in Ops /\ d \in 0..MaxDeployments /\ r \in Processes
    BY Slots DEF Pcs, Ops
  <2> QED
    BY <1>3, <2>1, <2>2, TakeUpEffect, IdleState, Layers
<1>6. /\ \A q \in Processes : q # r => proc'[q] = proc[q]
      /\ proc'[r].pc = "queue" /\ proc'[r].deployment = d /\ proc[r].pc = "idle"
      /\ \A w \in Workers : proc'[w] = proc[w] /\ w # r
      /\ Moves(r)
  BY <1>3, <1>5, IdleState, Slots DEF Becomes, Moves
<1>7. /\ \A q \in Processes : proc[q].pc # "idle" =>
           proc[q].deployment # d /\ proc[q].deployment \in 1..issued
      /\ \A i \in Queue!Ids : jobs[i].payload.deployment # d
                           /\ jobs[i].payload.deployment \in 1..issued
      /\ d \notin cleaned
      /\ \A e \in 1..issued : e \in Deployments /\ e # d
  BY <1>2, Layers, Slots DEF ProcInv, JobsInv, PartsInv
<1>8. QueueInv'
  BY <1>3, StutterKeepsQueueInv, Layers
<1>9. ProcInv'
  BY <1>2, <1>4, <1>6, ProcFrame, Slots, Layers
<1>10. Unbuilt(d)' /\ \A e \in 1..issued : Unbuilt(e) => Unbuilt(e)'
  BY <1>2, <1>3, <1>6, <1>7, Slots DEF Unbuilt
<1>11. JobsInv'
  <2>1. \A i \in Queue!Ids' : jobs'[i].type = Queue!DeploySite
                            /\ jobs'[i].payload.deployment \in 1..issued'
    BY <1>2, <1>4, <1>7, Layers, Slots DEF JobsInv
  <2>2. ASSUME NEW q \in Requests, proc'[q].pc = "queue"
        PROVE  /\ \A i \in Queue!Ids' : jobs'[i].payload.deployment # proc'[q].deployment
               /\ \A s \in Requests : proc'[s].pc = "queue" /\ proc'[s].deployment = proc'[q].deployment
                                        => s = q
               /\ Unbuilt(proc[q].deployment)'
    <3>1. CASE q = r
      BY <1>4, <1>6, <1>7, <1>10, <3>1, Slots
    <3>2. CASE q # r
      <4>1. proc'[q] = proc[q] /\ proc[q].pc = "queue" /\ proc[q].deployment \in 1..issued
        BY <1>6, <1>7, <2>2, <3>2, Slots
      <4>2. Unbuilt(proc[q].deployment)'
        BY <1>10, <4>1, Layers DEF JobsInv
      <4> QED BY <1>4, <1>6, <1>7, <3>2, <4>1, <4>2, Slots, Layers DEF JobsInv
    <3> QED BY <3>1, <3>2
  <2>3. \A i \in Queue!Ids' : jobs'[i].status = "queued" => Unbuilt(jobs[i].payload.deployment)'
    BY <1>4, <1>7, <1>10, Layers DEF JobsInv
  <2>4. \A w \in Workers : Building(w)' => Unbuilt(proc[w].deployment)'
    BY <1>6, <1>7, <1>10, Slots, Layers DEF JobsInv, Building
  <2> QED
    BY <1>4, <1>6, <2>1, <2>2, <2>3, <2>4, Layers DEF JobsInv
<1>12. PartsInv'
  <2>1. /\ \A e \in Deployments : Exists(e)' <=> Exists(e) \/ e = d
        /\ \A e \in Deployments : row'[e].built \/ row'[e].evidence => row'[e] = row[e]
        /\ \A q \in Requests : proc'[q].pc = "delete" => proc'[q] = proc[q]
    BY <1>2, <1>6, Slots DEF Exists, NoRow
  <2> QED
    BY <1>2, <1>3, <1>6, <2>1, PartsFrame, Slots
<1>13. StatusInv'
  <2> SUFFICES ASSUME faults = 0 PROVE StatusInv'
    BY <1>4 DEF StatusInv
  <2>1. StatusInv /\ JobsInv
    BY Layers
  <2>2. \A e \in Deployments : row'[e].active <=> row'[e].status = "active"
    BY <1>2, <2>1 DEF StatusInv
  <2>3. \A e \in 1..issued : row'[e] = row[e]
    BY <1>2, <1>7
  <2>4. \A i \in Queue!Ids' : jobs'[i].status = "queued" =>
          row'[jobs'[i].payload.deployment].status \in {"queued", "none"}
    BY <1>4, <1>7, <2>1, <2>3 DEF StatusInv
  <2>5. \A q \in Requests : proc'[q].pc = "queue" =>
          row'[proc'[q].deployment].status \in {"queued", "none"}
    BY <1>2, <1>6, <1>7, <2>1, <2>3, Slots DEF StatusInv
  <2>6. \A w \in Workers : proc'[w].pc # "idle" =>
          row'[proc'[w].deployment].status \in StatusAt(proc'[w].pc)
    BY <1>6, <1>7, <2>1, <2>3, Slots DEF StatusInv
  <2>7. \A w \in Workers : worker'[w].pc \in {"ok", "err"} =>
          row'[jobs'[worker'[w].job].payload.deployment].status \notin {"queued", "processing"}
    BY <1>4, <1>7, <2>1, <2>3, QueueFacts, Layers DEF StatusInv
  <2>8. WaitingHasJob'
    <3> SUFFICES ASSUME NEW e \in Deployments, row'[e].status \in {"queued", "processing"}
                 PROVE  \/ \E i \in Queue!Ids' : jobs'[i].payload.deployment = e
                                               /\ jobs'[i].status \in {"queued", "running"}
                        \/ \E q \in Requests : proc'[q].pc = "queue" /\ proc'[q].deployment = e
      BY DEF WaitingHasJob
    <3>1. CASE e = d
      BY <1>6, <3>1
    <3>2. CASE e # d
      BY <1>2, <1>4, <1>6, <2>1, <3>2, Slots DEF StatusInv, WaitingHasJob
    <3> QED BY <3>1, <3>2
  <2> QED
    BY <2>2, <2>4, <2>5, <2>6, <2>7, <2>8 DEF StatusInv
<1> QED
  BY <1>2, <1>8, <1>9, <1>11, <1>12, <1>13 DEF Inv

\* handleCreateSiteDeployment queues the job.
LEMMA QueueDeploymentInv ==
  ASSUME Inv, NEW r \in Requests, QueueDeployment(r)
  PROVE  Inv'
<1> DEFINE d == proc[r].deployment
           n == Len(jobs) + 1
           payload == [deployment |-> d, promote |-> proc[r].promote]
<1>1. /\ proc[r] \in ProcState /\ proc[r].pc = "queue" /\ r \in Processes
      /\ d \in 1..issued /\ d \in Deployments
  BY Slots, Layers DEF QueueDeployment, ProcInv
<1>2. /\ payload \in [deployment : Deployments, promote : BOOLEAN]
      /\ payload.deployment = d
      /\ Queue!CreateJob(Queue!DeploySite, payload)
  BY <1>1 DEF QueueDeployment, ProcState
<1> HIDE DEF payload
<1>3. /\ Queue!Ids' = Queue!Ids \cup {n} /\ n \notin Queue!Ids
      /\ \A i \in Queue!Ids : jobs'[i] = jobs[i]
      /\ jobs'[n].type = Queue!DeploySite /\ jobs'[n].payload.deployment = d
      /\ jobs'[n].status = "queued"
      /\ worker' = worker /\ faults' = faults
  BY <1>2, CreateJobEffect, Layers
<1>4. /\ issued' = issued /\ row' = row /\ files' = files /\ objects' = objects
      /\ purged' = purged /\ cleaned' = cleaned
  BY DEF QueueDeployment, tableVars, historyVars
<1>5. /\ \A q \in Processes : q # r => proc'[q] = proc[q]
      /\ proc'[r].pc = "idle" /\ Moves(r)
      /\ \A w \in Workers : proc'[w] = proc[w] /\ w # r
  BY <1>1, EndEffect, Slots, Layers DEF QueueDeployment, Becomes, Moves
<1>6. QueueInv'
  BY <1>2, CreateKeepsQueueInv, Layers
<1>7. ProcInv'
  BY <1>3, <1>4, <1>5, ProcFrame, Slots, Layers
<1>8. RowsInv'
  BY <1>4, Layers DEF RowsInv, RowInv, OneLive
<1>9. /\ \A i \in Queue!Ids : jobs[i].payload.deployment # d
      /\ \A q \in Requests : q # r /\ proc[q].pc = "queue" => proc[q].deployment # d
      /\ Unbuilt(d)
  BY <1>1, Layers DEF JobsInv
<1>10. \A e : Unbuilt(e) => Unbuilt(e)'
  BY <1>4, <1>5, Slots DEF Unbuilt
<1>11. JobsInv'
  <2>1. \A i \in Queue!Ids' : jobs'[i].type = Queue!DeploySite
                            /\ jobs'[i].payload.deployment \in 1..issued'
    BY <1>1, <1>3, <1>4, Layers DEF JobsInv
  <2>2. \A i, k \in Queue!Ids' :
          jobs'[i].payload.deployment = jobs'[k].payload.deployment => i = k
    BY <1>3, <1>9, Layers DEF JobsInv
  <2>3. ASSUME NEW q \in Requests, proc'[q].pc = "queue"
        PROVE  /\ \A i \in Queue!Ids' : jobs'[i].payload.deployment # proc'[q].deployment
               /\ \A s \in Requests : proc'[s].pc = "queue" /\ proc'[s].deployment = proc'[q].deployment
                                        => s = q
               /\ Unbuilt(proc[q].deployment)'
    <3>1. q # r /\ proc'[q] = proc[q] /\ proc[q].pc = "queue"
      BY <1>5, <2>3, Slots
    <3>2. Unbuilt(proc[q].deployment)'
      BY <1>10, <3>1, Layers DEF JobsInv
    <3> QED BY <1>3, <1>5, <1>9, <3>1, <3>2, Slots, Layers DEF JobsInv
  <2>4. \A i \in Queue!Ids' : jobs'[i].status = "queued" => Unbuilt(jobs[i].payload.deployment)'
    BY <1>3, <1>9, <1>10, Layers DEF JobsInv
  <2>5. \A w \in Workers : worker'[w].pc = "run" =>
          jobs'[worker'[w].job].payload.deployment = proc'[w].deployment
    BY <1>3, <1>5, QueueFacts, Layers DEF JobsInv
  <2>6. \A w \in Workers : Building(w)' => Unbuilt(proc[w].deployment)'
    BY <1>5, <1>10, Layers DEF JobsInv, Building
  <2> QED
    BY <2>1, <2>2, <2>3, <2>4, <2>5, <2>6 DEF JobsInv
<1>12. PartsInv'
  <2>1. /\ \A e \in Deployments : Exists(e)' <=> Exists(e)
        /\ \A q \in Requests : proc'[q].pc = "delete" => proc'[q] = proc[q]
    BY <1>4, <1>5, Slots DEF Exists
  <2> QED
    BY <1>4, <1>5, <2>1, PartsFrame, Slots
<1>13. StatusInv'
  <2> SUFFICES ASSUME faults = 0 PROVE StatusInv'
    BY <1>3 DEF StatusInv
  <2>1. StatusInv
    BY Layers
  <2>2. \A e \in Deployments : row'[e].active <=> row'[e].status = "active"
    BY <1>4, <2>1 DEF StatusInv
  <2>3. row[d].status \in {"queued", "none"}
    BY <1>1, <2>1 DEF StatusInv
  <2>4. \A i \in Queue!Ids' : jobs'[i].status = "queued" =>
          row'[jobs'[i].payload.deployment].status \in {"queued", "none"}
    BY <1>3, <1>4, <2>1, <2>3 DEF StatusInv
  <2>5. \A q \in Requests : proc'[q].pc = "queue" =>
          row'[proc'[q].deployment].status \in {"queued", "none"}
    BY <1>4, <1>5, <2>1, Slots DEF StatusInv
  <2>6. \A w \in Workers : proc'[w].pc # "idle" =>
          row'[proc'[w].deployment].status \in StatusAt(proc'[w].pc)
    BY <1>4, <1>5, <2>1 DEF StatusInv
  <2>7. \A w \in Workers : worker'[w].pc \in {"ok", "err"} =>
          row'[jobs'[worker'[w].job].payload.deployment].status \notin {"queued", "processing"}
    BY <1>3, <1>4, <2>1, QueueFacts, Layers DEF StatusInv
  <2>8. WaitingHasJob'
    <3> SUFFICES ASSUME NEW e \in Deployments, row'[e].status \in {"queued", "processing"}
                 PROVE  \/ \E i \in Queue!Ids' : jobs'[i].payload.deployment = e
                                               /\ jobs'[i].status \in {"queued", "running"}
                        \/ \E q \in Requests : proc'[q].pc = "queue" /\ proc'[q].deployment = e
      BY DEF WaitingHasJob
    <3>1. CASE e = d
      BY <1>3, <3>1
    <3>2. CASE e # d
      BY <1>3, <1>4, <1>5, <2>1, <3>2, Slots DEF StatusInv, WaitingHasJob
    <3> QED BY <3>1, <3>2
  <2> QED
    BY <2>2, <2>4, <2>5, <2>6, <2>7, <2>8 DEF StatusInv
<1> QED
  BY <1>6, <1>7, <1>8, <1>11, <1>12, <1>13 DEF Inv

\* Promotion, or the activation of a Cloudflare upload, finds d publishable.
LEMMA StartActivationInv ==
  ASSUME Inv, NEW r \in Requests, NEW d \in Deployments, NEW op \in Ops,
         row[d].status \in {"ready", "active"}, proc[r] = Idle,
         Begin(r, op, "activate", d),
         UNCHANGED <<queueVars, tableVars, purged, cleaned>>
  PROVE  Inv'
<1>1. /\ jobs' = jobs /\ worker' = worker /\ faults' = faults /\ Queue!Ids' = Queue!Ids
      /\ issued' = issued /\ row' = row /\ files' = files /\ objects' = objects
      /\ purged' = purged /\ cleaned' = cleaned /\ UNCHANGED queueVars
  BY DEF queueVars, tableVars, Queue!Ids
<1>2. d \in 1..issued
  BY Slots, Layers DEF RowsInv, RowInv, NoRow
<1>3. /\ \A q \in Processes : q # r => proc'[q] = proc[q]
      /\ proc'[r].pc = "activate" /\ proc'[r].deployment = d /\ proc[r].pc = "idle"
      /\ Moves(r)
      /\ \A w \in Workers : proc'[w] = proc[w] /\ w # r
  <2>1. "activate" \in Pcs /\ d \in 0..MaxDeployments /\ r \in Processes
    BY Slots DEF Pcs
  <2>2. Becomes(r, "activate", d, proc[r].todo, proc[r].failed, proc[r].whole)
    BY <2>1, BeginEffect, Layers DEF Begin
  <2> QED
    BY <2>1, <2>2, IdleState, Slots DEF Becomes, Moves
<1>4. QueueInv'
  BY <1>1, StutterKeepsQueueInv, Layers
<1>5. ProcInv'
  BY <1>1, <1>2, <1>3, ProcFrame, Slots, Layers
<1>6. RowsInv'
  BY <1>1, Layers DEF RowsInv, RowInv, OneLive
<1>7. /\ \A q \in Requests : proc'[q].pc \in {"queue", "delete"} => proc'[q] = proc[q]
      /\ \A q \in Requests : proc'[q].pc = "queue" <=> proc[q].pc = "queue"
      /\ \A q \in Requests : proc[q].pc = "queue" => proc'[q] = proc[q]
  BY <1>3, Slots
<1>8. JobsInv'
  <2>1. \A e \in 1..issued : Unbuilt(e) => Unbuilt(e)'
    BY <1>1, <1>7 DEF Unbuilt
  <2>2. \A w \in Workers : Building(w)' => Building(w) /\ worker'[w].pc = "run"
    BY <1>1, <1>3, Slots, Layers DEF Building, ProcInv
  <2> QED
    BY <1>1, <1>3, <1>7, <2>1, <2>2, JobsFrame, Slots
<1>9. PartsInv'
  BY <1>1, <1>3, <1>7, PartsFrame, Slots DEF Exists
<1>10. StatusInv'
  <2>1. /\ faults = 0 => \A e \in Deployments : e <= issued => StatusKept(e)
        /\ \A e \in Deployments : e > issued => row'[e].status \notin {"queued", "processing"}
        /\ faults = 0 => \A e \in Deployments : row'[e].active <=> row'[e].status = "active"
    BY <1>1, Layers DEF StatusKept, RowsInv, RowInv, NoRow, StatusInv
  <2> QED
    BY <1>1, <1>3, <1>7, <2>1, StatusFrame
<1> QED
  BY <1>4, <1>5, <1>6, <1>8, <1>9, <1>10 DEF Inv

\* handleRecordCloudflareStaticDeployment: nobody has waited for the new row.
LEMMA RecordInv ==
  ASSUME Inv, NEW r \in Requests, NEW form \in Records, RecordCloudflareStatic(r, form)
  PROVE  Inv'
<1>1. form \in Form /\ Insert(form, "ready")
  BY FormsAssumption DEF RecordCloudflareStatic
<1>2. PICK d \in Deployments :
        /\ d = issued + 1 /\ issued' = d /\ issued' \in 0..MaxDeployments
        /\ \A e \in Deployments : e # d => row'[e] = row[e]
        /\ row[d] = NoRow
        /\ row'[d].status = "ready" /\ ~row'[d].active
        /\ row'[d].built /\ row'[d].evidence
        /\ RowsInv'
  BY <1>1, InsertEffect, Layers
<1>3. /\ proc[r] = Idle
      /\ files' = files /\ objects' = objects /\ purged' = purged /\ cleaned' = cleaned
      /\ UNCHANGED queueVars
  BY <1>1 DEF RecordCloudflareStatic, Start, Insert
<1>4. /\ jobs' = jobs /\ worker' = worker /\ faults' = faults /\ Queue!Ids' = Queue!Ids
  BY <1>3 DEF queueVars, Queue!Ids
<1>5. /\ \A q \in Processes : q # r => proc'[q] = proc[q]
      /\ Moves(r) /\ proc[r].pc = "idle"
      /\ proc'[r].pc \in {"idle", "activate"}
      /\ proc'[r].pc = "activate" => proc'[r].deployment = d
      /\ \A w \in Workers : proc'[w] = proc[w] /\ w # r
  <2>1. r \in Processes /\ proc \in [Processes -> ProcState] /\ proc[r].pc = "idle"
    BY <1>3, IdleState, Slots, Layers DEF ProcInv
  <2>2. CASE form.promote
    <3>1. Begin(r, "record", "activate", d)
      BY <1>2, <2>2 DEF RecordCloudflareStatic
    <3>2. "activate" \in Pcs /\ "record" \in Ops /\ d \in 0..MaxDeployments
      BY Slots DEF Pcs, Ops
    <3>3. Becomes(r, "activate", d, proc[r].todo, proc[r].failed, proc[r].whole)
      BY <2>1, <3>1, <3>2, BeginEffect, Layers DEF Begin
    <3> QED
      BY <2>1, <3>3, Slots DEF Becomes, Moves
  <2>3. CASE ~form.promote
    <3>1. proc' = proc
      BY <2>3 DEF RecordCloudflareStatic
    <3> QED BY <2>1, <3>1, Slots DEF Moves
  <2> QED BY <2>2, <2>3
<1>6. QueueInv'
  BY <1>3, StutterKeepsQueueInv, Layers
<1>7. ProcInv'
  BY <1>2, <1>4, <1>5, ProcFrame, Slots, Layers
<1>8. /\ \A q \in Requests : proc'[q].pc \in {"queue", "delete"} => proc'[q] = proc[q]
      /\ \A q \in Requests : proc'[q].pc = "queue" <=> proc[q].pc = "queue"
      /\ \A q \in Requests : proc[q].pc = "queue" => proc'[q] = proc[q]
  BY <1>5, Slots
<1>9. JobsInv'
  <2>1. \A e \in 1..issued : Unbuilt(e) => Unbuilt(e)'
    BY <1>2, <1>3, <1>8, Slots DEF Unbuilt
  <2>2. \A w \in Workers : Building(w)' => Building(w) /\ worker'[w].pc = "run"
    BY <1>4, <1>5, Slots, Layers DEF Building, ProcInv
  <2> QED
    BY <1>2, <1>4, <1>5, <1>8, <2>1, <2>2, JobsFrame, Slots
<1>10. PartsInv'
  <2>1. /\ \A e \in Deployments : Exists(e)' <=> Exists(e) \/ e = d
        /\ \A e \in Deployments : row'[e].built \/ row'[e].evidence => row'[e] = row[e] \/ e = d
    BY <1>2 DEF Exists, NoRow
  <2> QED
    BY <1>2, <1>3, <1>5, <1>8, <2>1, PartsFrame, Slots
<1>11. StatusInv'
  <2>1. \A e \in Deployments : e # d => row'[e] = row[e] /\ (e > issued => row[e] = NoRow)
    BY <1>2, Layers DEF RowsInv, RowInv
  <2>2. faults = 0 => \A e \in Deployments : row[e].active <=> row[e].status = "active"
    BY Layers DEF StatusInv
  <2>3. faults = 0 => \A e \in Deployments : e <= issued => StatusKept(e)
    BY <1>2, <2>1, Slots DEF StatusKept
  <2>4. \A e \in Deployments : e > issued => row'[e].status \notin {"queued", "processing"}
    BY <1>2, <2>1 DEF NoRow
  <2>5. faults = 0 => \A e \in Deployments : row'[e].active <=> row'[e].status = "active"
    BY <1>2, <2>1, <2>2
  <2> QED
    BY <1>4, <1>5, <1>8, <2>3, <2>4, <2>5, StatusFrame
<1> QED
  BY <1>2, <1>6, <1>7, <1>9, <1>10, <1>11 DEF Inv

\* A request activates, or finds that it cannot.
LEMMA ActivateInv ==
  ASSUME Inv, NEW r \in Requests, Activate(r)
  PROVE  Inv'
<1> DEFINE d == proc[r].deployment
<1>1. proc[r].pc = "activate" /\ r \in Processes /\ d \in Deployments
  BY Slots, Layers DEF Activate, ProcInv
<1>2. /\ jobs' = jobs /\ worker' = worker /\ faults' = faults /\ Queue!Ids' = Queue!Ids
      /\ issued' = issued /\ files' = files /\ objects' = objects
      /\ purged' = purged /\ cleaned' = cleaned /\ UNCHANGED queueVars
  BY DEF Activate, queueVars, historyVars, Queue!Ids
<1>3. /\ RowsInv'
      /\ ~Activatable(d) => row' = row
      /\ Activatable(d) =>
           /\ row'[d].active /\ row'[d].status = "active"
           /\ \A e \in Deployments : e # d =>
                /\ ~row'[e].active
                /\ row'[e].status = IF row[e].active THEN "ready" ELSE row[e].status
      /\ \A e \in Deployments : row'[e].built = row[e].built
                              /\ row'[e].evidence = row[e].evidence
                              /\ (Exists(e)' <=> Exists(e))
  BY <1>1, <1>2, ActivateEffect, Layers DEF Activate
<1>4. /\ \A q \in Processes : q # r => proc'[q] = proc[q]
      /\ proc'[r].pc = "idle" /\ Moves(r)
      /\ \A w \in Workers : proc'[w] = proc[w] /\ w # r
  BY <1>1, EndEffect, Slots, Layers DEF Activate, Becomes, Moves
<1>5. QueueInv'
  BY <1>2, StutterKeepsQueueInv, Layers
<1>6. ProcInv'
  BY <1>1, <1>2, <1>4, ProcFrame, Slots, Layers
<1>7. /\ \A q \in Requests : proc'[q].pc \in {"queue", "delete"} => proc'[q] = proc[q]
      /\ \A q \in Requests : proc'[q].pc = "queue" <=> proc[q].pc = "queue"
      /\ \A q \in Requests : proc[q].pc = "queue" => proc'[q] = proc[q]
  BY <1>1, <1>4, Slots
<1>8. JobsInv'
  <2>1. \A e \in 1..issued : Unbuilt(e) => Unbuilt(e)'
    BY <1>2, <1>3, <1>7, Slots DEF Unbuilt
  <2>2. \A w \in Workers : Building(w)' => Building(w) /\ worker'[w].pc = "run"
    BY <1>2, <1>4, Slots, Layers DEF Building, ProcInv
  <2> QED
    BY <1>2, <1>4, <1>7, <2>1, <2>2, JobsFrame, Slots
<1>9. PartsInv'
  BY <1>2, <1>3, <1>4, <1>7, PartsFrame, Slots
<1>10. StatusInv'
  <2>1. /\ faults = 0 => \A e \in Deployments : e <= issued => StatusKept(e)
        /\ faults = 0 => \A e \in Deployments : row'[e].active <=> row'[e].status = "active"
    <3>1. CASE ~Activatable(d)
      BY <1>3, <3>1, Layers DEF StatusKept, StatusInv
    <3>2. CASE Activatable(d)
      <4>1. faults = 0 => \A e \in Deployments : row[e].active <=> row[e].status = "active"
        BY Layers DEF StatusInv
      <4>2. faults = 0 => \A e \in Deployments : e <= issued => StatusKept(e)
        BY <1>3, <3>2, <4>1 DEF StatusKept, Activatable
      <4> QED BY <1>3, <3>2, <4>1, <4>2 DEF StatusKept, Activatable
    <3> QED BY <3>1, <3>2
  <2>2. \A e \in Deployments : e > issued => row'[e].status \notin {"queued", "processing"}
    BY <1>2, <1>3, Slots DEF RowsInv, RowInv, NoRow
  <2> QED
    BY <1>2, <1>4, <1>7, <2>1, <2>2, StatusFrame
<1> QED
  BY <1>3, <1>5, <1>6, <1>8, <1>9, <1>10 DEF Inv

\* A request ends, whatever it was doing: it has noted the fault.
LEMMA CancelInv ==
  ASSUME Inv, NEW r \in Requests, Cancel(r)
  PROVE  Inv'
<1>1. /\ jobs' = jobs /\ worker' = worker /\ faults' = faults + 1 /\ Queue!Ids' = Queue!Ids
      /\ issued' = issued /\ row' = row /\ files' = files /\ objects' = objects
      /\ purged' = purged /\ cleaned' = cleaned
  BY DEF Cancel, tableVars, historyVars, Queue!Ids
<1>2. /\ \A q \in Processes : q # r => proc'[q] = proc[q]
      /\ proc'[r].pc = "idle" /\ Moves(r) /\ r \in Processes
      /\ \A w \in Workers : proc'[w] = proc[w] /\ w # r
  BY EndEffect, Slots, Layers DEF Cancel, Becomes, Moves
<1>3. QueueInv'
  BY <1>1, FaultKeepsQueueInv, Layers
<1>4. ProcInv'
  BY <1>1, <1>2, ProcFrame, Slots, Layers
<1>5. RowsInv'
  BY <1>1, Layers DEF RowsInv, RowInv, OneLive
<1>6. \A q \in Requests : proc'[q].pc \in {"queue", "delete"} => proc'[q] = proc[q]
  BY <1>2, Slots
<1>7. JobsInv'
  <2>1. \A e \in 1..issued : Unbuilt(e) => Unbuilt(e)'
    BY <1>1, <1>6 DEF Unbuilt
  <2>2. \A w \in Workers : Building(w)' => Building(w) /\ worker'[w].pc = "run"
    BY <1>1, <1>2, Slots, Layers DEF Building, ProcInv
  <2> QED
    BY <1>1, <1>2, <1>6, <2>1, <2>2, JobsFrame, Slots
<1>8. PartsInv'
  BY <1>1, <1>2, <1>6, PartsFrame, Slots DEF Exists
<1>9. faults' # 0
  BY <1>1, QueueFacts, Layers
<1> QED
  BY <1>3, <1>4, <1>5, <1>7, <1>8, <1>9 DEF Inv, StatusInv

\* After a restart nobody does anything.
LEMMA RestartInv ==
  ASSUME Inv, Restart
  PROVE  Inv'
<1>1. /\ jobs' = jobs /\ faults' = faults + 1 /\ Queue!Ids' = Queue!Ids
      /\ worker' = [w \in Workers |-> Queue!NotHolding("wait")]
      /\ issued' = issued /\ row' = row /\ files' = files /\ objects' = objects
      /\ purged' = purged /\ cleaned' = cleaned
  BY DEF Restart, tableVars, historyVars, Queue!Ids, Queue!Restart
<1>2. /\ proc' \in [Processes -> ProcState]
      /\ \A p \in Processes : proc'[p].pc = "idle"
      /\ \A w \in Workers : worker'[w].pc = "wait"
  BY <1>1, IdleState DEF Restart, Queue!NotHolding
<1>3. QueueInv'
  BY <1>1, FaultKeepsQueueInv, Layers
<1>4. ProcInv'
  BY <1>1, <1>2, Slots, Layers DEF ProcInv
<1>5. RowsInv'
  BY <1>1, Layers DEF RowsInv, RowInv, OneLive
<1>6. JobsInv'
  <2>1. \A e \in 1..issued : Unbuilt(e) => Unbuilt(e)'
    BY <1>1, <1>2, Slots DEF Unbuilt
  <2>2. \A w \in Workers : ~Building(w)'
    BY <1>2, Slots DEF Building
  <2> QED
    BY <1>1, <1>2, <2>1, <2>2, JobsFrame, Slots
<1>7. PartsInv'
  BY <1>1, <1>2, PartsFrame, Slots DEF Exists
<1>8. faults' # 0
  BY <1>1, QueueFacts, Layers
<1> QED
  BY <1>3, <1>4, <1>5, <1>6, <1>7, <1>8 DEF Inv, StatusInv

\* Between two jobs, and when the outcome of one is written.
LEMMA QueueStepInv ==
  ASSUME Inv, NEW w \in Workers, QueueStep(w)
  PROVE  Inv'
<1>1. /\ proc' = proc /\ issued' = issued /\ row' = row /\ files' = files /\ objects' = objects
      /\ purged' = purged /\ cleaned' = cleaned
  BY DEF QueueStep, tableVars, historyVars
<1>2. /\ Queue!Ids' = Queue!Ids /\ faults' = faults /\ OnlyLoop(w)
      /\ worker[w].pc \in {"wait", "poll", "ok", "err"}
      /\ worker'[w].pc \in {"wait", "poll"}
      /\ \A i \in Queue!Ids : /\ jobs'[i].type = jobs[i].type
                              /\ jobs'[i].payload = jobs[i].payload
                              /\ jobs'[i].status = "queued" => jobs[i].status = "queued"
      /\ \A i \in Queue!Ids : jobs'[i] # jobs[i] =>
           worker[w].pc \in {"ok", "err"} /\ i = worker[w].job
  <2>1. CASE Queue!Tick(w) \/ Queue!NoQueuedJob(w)
    BY <2>1, WaitEffect, Layers
  <2>2. CASE Queue!FinishJob(w) \/ Queue!FailJob(w)
    <3>1. worker[w].job \in Queue!Ids /\ jobs[worker[w].job].type = Queue!DeploySite
      BY <2>2, OutcomeEffect, QueueFacts, Layers DEF JobsInv
    <3> QED BY <2>2, <3>1, OutcomeEffect, Layers DEF OnlyRow
  <2> QED BY <2>1, <2>2 DEF QueueStep
<1>3. \A v \in Workers : v # w => worker'[v] = worker[v]
  BY <1>2 DEF OnlyLoop
<1>4. QueueInv'
  BY LoopKeepsQueueInv, Layers DEF QueueStep
<1>5. ProcInv'
  BY <1>1, <1>2, <1>3, Layers DEF ProcInv
<1>6. RowsInv'
  BY <1>1, Layers DEF RowsInv, RowInv, OneLive
<1>7. JobsInv'
  <2>1. \A e \in 1..issued : Unbuilt(e) => Unbuilt(e)'
    BY <1>1 DEF Unbuilt
  <2>2. \A v \in Workers : Building(v)' => Building(v) /\ worker'[v].pc = "run"
    BY <1>1, <1>2, <1>3, Layers DEF Building, ProcInv
  <2>3. \A v \in Workers : worker'[v].pc = "run" =>
          worker[v].pc = "run" /\ worker'[v].job = worker[v].job
    BY <1>2, <1>3
  <2> QED
    BY <1>1, <1>2, <2>1, <2>2, <2>3, JobsFrame, Slots
<1>8. PartsInv'
  BY <1>1, PartsFrame, Slots DEF Exists
<1>9. StatusInv'
  <2> SUFFICES ASSUME faults = 0 PROVE StatusInv'
    BY <1>2 DEF StatusInv
  <2>1. StatusInv
    BY Layers
  <2>2. \A d \in Deployments : row'[d].active <=> row'[d].status = "active"
    BY <1>1, <2>1 DEF StatusInv
  <2>3. \A i \in Queue!Ids' : jobs'[i].status = "queued" =>
          row'[jobs'[i].payload.deployment].status \in {"queued", "none"}
    BY <1>1, <1>2, <2>1 DEF StatusInv
  <2>4. /\ \A q \in Requests : proc'[q].pc = "queue" =>
             row'[proc'[q].deployment].status \in {"queued", "none"}
        /\ \A v \in Workers : proc'[v].pc # "idle" =>
             row'[proc'[v].deployment].status \in StatusAt(proc'[v].pc)
    BY <1>1, <2>1 DEF StatusInv
  <2>5. \A v \in Workers : worker'[v].pc \in {"ok", "err"} =>
          row'[jobs'[worker'[v].job].payload.deployment].status \notin {"queued", "processing"}
    <3> SUFFICES ASSUME NEW v \in Workers, worker'[v].pc \in {"ok", "err"}
                 PROVE  row'[jobs'[worker'[v].job].payload.deployment].status
                          \notin {"queued", "processing"}
      OBVIOUS
    <3>1. v # w /\ worker'[v] = worker[v] /\ worker[v].job \in Queue!Ids
      BY <1>2, <1>3, QueueFacts, Layers
    <3> QED BY <1>1, <1>2, <2>1, <3>1 DEF StatusInv
  <2>6. WaitingHasJob'
    <3> SUFFICES ASSUME NEW e \in Deployments, row'[e].status \in {"queued", "processing"}
                 PROVE  \/ \E i \in Queue!Ids' : jobs'[i].payload.deployment = e
                                               /\ jobs'[i].status \in {"queued", "running"}
                        \/ \E q \in Requests : proc'[q].pc = "queue" /\ proc'[q].deployment = e
      BY DEF WaitingHasJob
    <3>1. \/ \E i \in Queue!Ids : jobs[i].payload.deployment = e
                                /\ jobs[i].status \in {"queued", "running"}
          \/ \E q \in Requests : proc[q].pc = "queue" /\ proc[q].deployment = e
      BY <1>1, <2>1 DEF StatusInv, WaitingHasJob
    <3>2. \A i \in Queue!Ids : jobs[i].payload.deployment = e => jobs'[i] = jobs[i]
      BY <1>1, <1>2, <2>1 DEF StatusInv
    <3> QED BY <1>1, <1>2, <3>1, <3>2
  <2> QED
    BY <2>2, <2>3, <2>4, <2>5, <2>6 DEF StatusInv
<1> QED
  BY <1>4, <1>5, <1>6, <1>7, <1>8, <1>9 DEF Inv

\* A loop takes up a job, and with it the deployment.
LEMMA StartJobInv ==
  ASSUME Inv, NEW w \in Workers, StartJob(w)
  PROVE  Inv'
<1> DEFINE n == worker'[w].job
<1>1. /\ issued' = issued /\ row' = row /\ files' = files /\ objects' = objects
      /\ purged' = purged /\ cleaned' = cleaned /\ faults' = faults
      /\ Queue!NextQueuedJob(w)
  BY DEF StartJob, tableVars, historyVars, Queue!NextQueuedJob
<1>2. /\ n \in Queue!Ids /\ jobs[n].status = "queued" /\ jobs'[n].status = "running"
      /\ worker[w].pc = "poll" /\ worker'[w].pc = "run"
      /\ \A v \in Workers : v # w => worker'[v] = worker[v]
      /\ Queue!Ids' = Queue!Ids
      /\ \A k \in Queue!Ids : /\ jobs'[k].type = jobs[k].type
                              /\ jobs'[k].payload = jobs[k].payload
                              /\ k # n => jobs'[k] = jobs[k]
  BY <1>1, TakeEffect, Layers DEF OnlyRow, OnlyLoop
<1>3. PICK d \in Deployments : d = jobs[n].payload.deployment /\ d \in 1..issued /\ Unbuilt(d)
  BY <1>2, Slots, Layers DEF JobsInv
<1>4. /\ \A q \in Processes : q # w => proc'[q] = proc[q]
      /\ proc'[w].pc = "begin" /\ proc'[w].deployment = d /\ proc[w].pc = "idle"
      /\ Moves(w) /\ w \in Processes
      /\ \A q \in Requests : proc'[q] = proc[q]
  <2>1. jobs[n].payload.promote \in BOOLEAN
    BY <1>2, QueueFacts, Layers DEF Queue!Job
  <2>2. "begin" \in Pcs /\ "job" \in Ops /\ d \in 0..MaxDeployments /\ w \in Processes
    BY Slots DEF Pcs, Ops
  <2>3. proc' = [proc EXCEPT ![w] = [@ EXCEPT !.pc = "begin", !.op = "job",
                     !.deployment = d, !.promote = jobs[n].payload.promote]]
    BY <1>3 DEF StartJob
  <2>4. Becomes(w, "begin", d, proc[w].todo, proc[w].failed, proc[w].whole)
    BY <2>1, <2>2, <2>3, TakeUpEffect, Layers
  <2> QED
    BY <1>2, <2>4, Slots, Layers DEF Becomes, Moves, ProcInv
<1>5. QueueInv'
  BY <1>1, LoopKeepsQueueInv, Layers
<1>6. ProcInv'
  BY <1>1, <1>2, <1>3, <1>4, ProcFrame, Slots, Layers
<1>7. RowsInv'
  BY <1>1, Layers DEF RowsInv, RowInv, OneLive
<1>8. \A e : Unbuilt(e) => Unbuilt(e)'
  BY <1>1, <1>4 DEF Unbuilt
<1>9. JobsInv'
  <2>1. /\ \A i \in Queue!Ids' : jobs'[i].type = Queue!DeploySite
                               /\ jobs'[i].payload.deployment \in 1..issued'
        /\ \A i, k \in Queue!Ids' :
             jobs'[i].payload.deployment = jobs'[k].payload.deployment => i = k
    BY <1>1, <1>2, Layers DEF JobsInv
  <2>2. ASSUME NEW q \in Requests, proc'[q].pc = "queue"
        PROVE  /\ \A i \in Queue!Ids' : jobs'[i].payload.deployment # proc'[q].deployment
               /\ \A s \in Requests : proc'[s].pc = "queue" /\ proc'[s].deployment = proc'[q].deployment
                                        => s = q
               /\ Unbuilt(proc[q].deployment)'
    BY <1>2, <1>4, <1>8, <2>2, Layers DEF JobsInv
  <2>3. \A i \in Queue!Ids' : jobs'[i].status = "queued" => Unbuilt(jobs[i].payload.deployment)'
    BY <1>2, <1>8, Layers DEF JobsInv
  <2>4. \A v \in Workers : worker'[v].pc = "run" =>
          jobs'[worker'[v].job].payload.deployment = proc'[v].deployment
    <3> SUFFICES ASSUME NEW v \in Workers, worker'[v].pc = "run"
                 PROVE  jobs'[worker'[v].job].payload.deployment = proc'[v].deployment
      OBVIOUS
    <3>1. CASE v = w
      BY <1>2, <1>3, <1>4, <3>1
    <3>2. CASE v # w
      <4>1. worker'[v] = worker[v] /\ proc'[v] = proc[v] /\ worker[v].job \in Queue!Ids
        BY <1>2, <1>4, <3>2, QueueFacts, Slots, Layers
      <4> QED BY <1>2, <4>1, Layers DEF JobsInv
    <3> QED BY <3>1, <3>2
  <2>5. \A v \in Workers : Building(v)' => Unbuilt(proc[v].deployment)'
    <3> SUFFICES ASSUME NEW v \in Workers, Building(v)' PROVE Unbuilt(proc[v].deployment)'
      OBVIOUS
    <3>1. CASE v = w
      BY <1>3, <1>4, <1>8, <3>1
    <3>2. CASE v # w
      <4>1. proc'[v] = proc[v] /\ Building(v)
        BY <1>4, <3>2, Slots DEF Building
      <4> QED BY <1>8, <4>1, Layers DEF JobsInv
    <3> QED BY <3>1, <3>2
  <2> QED
    BY <2>1, <2>2, <2>3, <2>4, <2>5 DEF JobsInv
<1>10. PartsInv'
  BY <1>1, <1>4, PartsFrame, Slots DEF Exists
<1>11. StatusInv'
  <2> SUFFICES ASSUME faults = 0 PROVE StatusInv'
    BY <1>1 DEF StatusInv
  <2>1. StatusInv
    BY Layers
  <2>2. \A e \in Deployments : row'[e].active <=> row'[e].status = "active"
    BY <1>1, <2>1 DEF StatusInv
  <2>3. \A i \in Queue!Ids' : jobs'[i].status = "queued" =>
          row'[jobs'[i].payload.deployment].status \in {"queued", "none"}
    BY <1>1, <1>2, <2>1 DEF StatusInv
  <2>4. \A q \in Requests : proc'[q].pc = "queue" =>
          row'[proc'[q].deployment].status \in {"queued", "none"}
    BY <1>1, <1>4, <2>1 DEF StatusInv
  <2>5. \A v \in Workers : proc'[v].pc # "idle" =>
          row'[proc'[v].deployment].status \in StatusAt(proc'[v].pc)
    <3>1. row[d].status \in StatusAt("begin")
      BY <1>2, <1>3, <2>1 DEF StatusInv, StatusAt
    <3> QED BY <1>1, <1>4, <2>1, <3>1, Slots, SMTT(30) DEF StatusInv
  <2>6. \A v \in Workers : worker'[v].pc \in {"ok", "err"} =>
          row'[jobs'[worker'[v].job].payload.deployment].status \notin {"queued", "processing"}
    BY <1>1, <1>2, <2>1, QueueFacts, Layers DEF StatusInv
  <2>7. WaitingHasJob'
    BY <1>1, <1>2, <1>4, <2>1 DEF StatusInv, WaitingHasJob
  <2> QED
    BY <2>2, <2>3, <2>4, <2>5, <2>6, <2>7 DEF StatusInv
<1> QED
  BY <1>5, <1>6, <1>7, <1>9, <1>10, <1>11 DEF Inv

\* The files listed of d, and with them the objects its row names.
LEMMA ListedElements ==
  ASSUME Inv, NEW d \in Deployments, NEW list \in FilesListed(d)
  PROVE  /\ list \o BuiltParts(d) \in Seq(PartSet)
         /\ PartsIn(files, d) \subseteq Elements(list \o BuiltParts(d))
         /\ row[d].built /\ ~row[d].evidence =>
              {Artifact, Manifest} \subseteq Elements(list \o BuiltParts(d))
<1>1. PartsIn(files, d) \subseteq FilePaths
  BY Layers DEF PartsInv, PartsIn
<1>2. PICK n \in 0..Len(Files) : list \in [1..n -> PartsIn(files, d)]
  BY DEF FilesListed
<1>3. /\ list \in Seq(PartSet) /\ Len(list) = n /\ n \in Nat
      /\ PartsIn(files, d) = {list[i] : i \in 1..n}
  BY <1>1, <1>2, FilesAssumption DEF FilesListed, PartSet
<1>4. /\ BuiltParts(d) \in Seq(PartSet)
      /\ row[d].built /\ ~row[d].evidence => BuiltParts(d) = <<Artifact, Manifest>>
  <2>1. Artifact \in PartSet /\ Manifest \in PartSet
    BY DEF PartSet
  <2>2. <<Artifact, Manifest>> \in Seq(PartSet)
    BY <2>1
  <2>3. <<>> \in Seq(PartSet)
    OBVIOUS
  <2> QED BY <2>2, <2>3 DEF BuiltParts
<1> DEFINE all == list \o BuiltParts(d)
<1>5. /\ all \in Seq(PartSet) /\ Len(all) = n + Len(BuiltParts(d)) /\ Len(BuiltParts(d)) \in Nat
      /\ \A i \in 1..n : all[i] = list[i]
      /\ \A i \in 1..Len(BuiltParts(d)) : all[n + i] = BuiltParts(d)[i]
  BY <1>3, <1>4
<1>6. \A i \in 1..n : i \in 1..Len(all) /\ all[i] = list[i]
  BY <1>3, <1>5
<1>7. ASSUME row[d].built, ~row[d].evidence
      PROVE  /\ n + 1 \in 1..Len(all) /\ all[n + 1] = Artifact
             /\ n + 2 \in 1..Len(all) /\ all[n + 2] = Manifest
  <2>1. /\ Len(BuiltParts(d)) = 2
        /\ BuiltParts(d)[1] = Artifact /\ BuiltParts(d)[2] = Manifest
    BY <1>4, <1>7
  <2> HIDE DEF all
  <2> QED BY <1>3, <1>5, <2>1
<1> HIDE DEF all
<1>8. PartsIn(files, d) \subseteq Elements(all)
  BY <1>3, <1>6 DEF Elements
<1>9. row[d].built /\ ~row[d].evidence => {Artifact, Manifest} \subseteq Elements(all)
  BY <1>7 DEF Elements
<1> QED
  BY <1>5, <1>8, <1>9 DEF all

\* A delete passes its checks.
LEMMA StartDeleteInv ==
  ASSUME Inv, NEW r \in Requests, NEW d \in Deployments, NEW deleteObjects \in BOOLEAN,
         StartDelete(r, d, deleteObjects)
  PROVE  Inv'
<1> DEFINE whole == deleteObjects /\ row[d].built
<1>1. /\ jobs' = jobs /\ worker' = worker /\ faults' = faults /\ Queue!Ids' = Queue!Ids
      /\ issued' = issued /\ row' = row /\ files' = files /\ objects' = objects
      /\ cleaned' = cleaned /\ UNCHANGED queueVars
      /\ Exists(d) /\ ~row[d].active /\ proc[r] = Idle
  BY DEF StartDelete, Start, queueVars, tableVars, Queue!Ids
<1>2. d \in 1..issued
  BY <1>1, Slots, Layers DEF RowsInv, RowInv, Exists, NoRow
<1>3. PICK todo \in Seq(PartSet) :
        /\ proc' = [proc EXCEPT ![r] = [@ EXCEPT
             !.pc = "delete", !.op = "delete", !.deployment = d, !.todo = todo,
             !.whole = whole]]
        /\ purged' = IF todo # <<>> THEN purged \cup {d} ELSE purged
        /\ deleteObjects =>
             /\ PartsIn(files, d) \subseteq Elements(todo)
             /\ row[d].built /\ ~row[d].evidence => {Artifact, Manifest} \subseteq Elements(todo)
  <2>1. PICK todo \in IF deleteObjects THEN {list \o BuiltParts(d) : list \in FilesListed(d)}
                                       ELSE {<<>>} :
          /\ proc' = [proc EXCEPT ![r] = [@ EXCEPT
               !.pc = "delete", !.op = "delete", !.deployment = d, !.todo = todo,
               !.whole = whole]]
          /\ purged' = IF todo # <<>> THEN purged \cup {d} ELSE purged
    BY DEF StartDelete
  <2>2. CASE deleteObjects
    BY <2>1, <2>2, ListedElements
  <2>3. CASE ~deleteObjects
    BY <2>1, <2>3, EmptyElements
  <2> QED BY <2>2, <2>3
<1>4. whole \in BOOLEAN /\ row[d].built \in BOOLEAN /\ row[d].evidence \in BOOLEAN
  BY Layers DEF RowsInv, Row
<1>5. /\ \A q \in Processes : q # r => proc'[q] = proc[q]
      /\ proc'[r].pc = "delete" /\ proc'[r].deployment = d /\ proc[r].pc = "idle"
      /\ proc'[r].todo = todo /\ proc'[r].whole = whole /\ ~proc'[r].failed
      /\ Moves(r)
      /\ \A w \in Workers : proc'[w] = proc[w] /\ w # r
  <2>1. r \in Processes /\ d \in 0..MaxDeployments
    BY Slots
  <2> HIDE DEF whole
  <2>2. Becomes(r, "delete", d, todo, proc[r].failed, whole)
    BY <1>3, <1>4, <2>1, BeginDeleteEffect, Layers
  <2> QED
    BY <1>1, <2>2, IdleState, Slots DEF Becomes, Moves
<1>6. QueueInv'
  BY <1>1, StutterKeepsQueueInv, Layers
<1>7. ProcInv'
  BY <1>1, <1>2, <1>5, ProcFrame, Slots, Layers
<1>8. RowsInv'
  BY <1>1, Layers DEF RowsInv, RowInv, OneLive
<1>9. /\ \A q \in Requests : proc'[q].pc = "queue" => proc'[q] = proc[q]
      /\ \A q \in Requests : proc'[q].pc = "queue" <=> proc[q].pc = "queue"
      /\ \A q \in Requests : proc[q].pc = "queue" => proc'[q] = proc[q]
      /\ \A q \in Requests : q # r => proc'[q] = proc[q]
  BY <1>5, Slots
<1>10. JobsInv'
  <2>1. \A e \in 1..issued : Unbuilt(e) => Unbuilt(e)'
    BY <1>1, <1>5, <1>9 DEF Unbuilt
  <2>2. \A w \in Workers : Building(w)' => Building(w) /\ worker'[w].pc = "run"
    BY <1>1, <1>5, Slots, Layers DEF Building, ProcInv
  <2> QED
    BY <1>1, <1>5, <1>9, <2>1, <2>2, JobsFrame, Slots
<1>11. PartsInv'
  <2>1. PartsInv
    BY Layers
  <2>2. purged \subseteq purged' /\ purged' \subseteq 1..issued'
    BY <1>1, <1>2, <1>3, <2>1 DEF PartsInv
  <2>3. /\ objects' \subseteq (1..issued') \X PartSet
        /\ files' \subseteq objects' /\ cleaned' \subseteq 1..issued'
        /\ \A file \in files' : Exists(file[1])' /\ file[2] \in FilePaths
        /\ \A e \in Deployments : row'[e].evidence => \A part \in PartSet : <<e, part>> \notin objects'
    BY <1>1, <2>1 DEF PartsInv, Exists
  <2>4. \A w \in Workers : proc'[w].pc \in {"build", "addFile"} =>
          /\ Exists(proc[w].deployment)' => NoStray(proc[w].deployment, Elements(proc[w].todo))'
          /\ proc'[w].deployment \notin purged' =>
               \A part \in PartSet \ Elements(proc'[w].todo) :
                  <<proc'[w].deployment, part>> \in objects'
    BY <1>1, <1>5, <2>1, <2>2 DEF PartsInv, Exists, NoStray
  <2>5. \A e \in Deployments : row'[e].built =>
          /\ NoStray(e, {})'
          /\ ~row'[e].evidence /\ e \notin purged' => PartsStored(e)'
    BY <1>1, <2>1, <2>2 DEF PartsInv, NoStray, PartsStored
  <2>6. ASSUME whole PROVE \A part \in PartSet \ Elements(todo) : <<d, part>> \notin objects
    <3>1. CASE row[d].evidence
      BY <2>1, <3>1 DEF PartsInv
    <3>2. CASE ~row[d].evidence
      <4>1. NoStray(d, {})
        BY <2>1, <2>6 DEF PartsInv
      <4>2. \A path \in FilePaths : <<d, path>> \in objects => path \in PartsIn(files, d)
        BY <4>1 DEF NoStray, PartsIn
      <4> QED BY <1>3, <2>6, <3>2, <4>2 DEF PartSet
    <3> QED BY <1>4, <3>1, <3>2
  <2>7. \A q \in Requests : proc'[q].pc = "delete" =>
          /\ proc'[q].todo # <<>> => proc'[q].deployment \in purged'
          /\ proc'[q].whole /\ ~proc'[q].failed =>
               \A part \in PartSet \ Elements(proc'[q].todo) :
                  <<proc'[q].deployment, part>> \notin objects'
    <3> SUFFICES ASSUME NEW q \in Requests, proc'[q].pc = "delete"
                 PROVE  /\ proc'[q].todo # <<>> => proc'[q].deployment \in purged'
                        /\ proc'[q].whole /\ ~proc'[q].failed =>
                             \A part \in PartSet \ Elements(proc'[q].todo) :
                                <<proc'[q].deployment, part>> \notin objects'
      OBVIOUS
    <3>1. CASE q = r
      <4>1. proc'[r].todo # <<>> => proc'[r].deployment \in purged'
        BY <1>3, <1>5
      <4>2. proc'[r].whole => whole
        BY <1>5
      <4> HIDE DEF whole
      <4>3. proc'[r].whole =>
              \A part \in PartSet \ Elements(proc'[r].todo) :
                 <<proc'[r].deployment, part>> \notin objects'
        BY <1>1, <1>5, <2>6, <4>2
      <4> QED BY <3>1, <4>1, <4>3
    <3>2. CASE q # r
      BY <1>1, <1>9, <2>1, <2>2, <3>2 DEF PartsInv
    <3> QED BY <3>1, <3>2
  <2>8. DeletedLeavesNothing'
    BY <1>1, <2>1 DEF PartsInv, DeletedLeavesNothing, PartsIn
  <2> QED
    BY <2>2, <2>3, <2>4, <2>5, <2>7, <2>8 DEF PartsInv
<1>12. StatusInv'
  <2>1. /\ \A e \in Deployments : e <= issued => StatusKept(e)
        /\ \A e \in Deployments : e > issued => row'[e].status \notin {"queued", "processing"}
        /\ faults = 0 => \A e \in Deployments : row'[e].active <=> row'[e].status = "active"
    BY <1>1, Layers DEF StatusKept, RowsInv, RowInv, NoRow, StatusInv
  <2> QED
    BY <1>1, <1>5, <1>9, <2>1, StatusFrame
<1> QED
  BY <1>6, <1>7, <1>8, <1>10, <1>11, <1>12 DEF Inv

\* A delete goes on: only PartsInv is at stake.
LEMMA DeleteFrame ==
  ASSUME Inv, NEW r \in Requests, proc[r].pc = "delete",
         Moves(r), proc'[r].pc = "delete", proc'[r].deployment = proc[r].deployment,
         proc'[r].whole = proc[r].whole,
         UNCHANGED queueVars, row' = row, issued' = issued, cleaned' = cleaned
  PROVE  QueueInv' /\ ProcInv' /\ RowsInv' /\ JobsInv' /\ StatusInv'
<1>1. /\ jobs' = jobs /\ worker' = worker /\ faults' = faults /\ Queue!Ids' = Queue!Ids
      /\ r \in Processes /\ proc[r].deployment \in 1..issued
  BY Slots, Layers DEF queueVars, Queue!Ids, ProcInv
<1>2. /\ \A q \in Processes : q # r => proc'[q] = proc[q]
      /\ \A w \in Workers : proc'[w] = proc[w] /\ w # r
  BY Slots DEF Moves
<1>3. /\ \A q \in Requests : proc'[q].pc = "queue" => proc'[q] = proc[q]
      /\ \A q \in Requests : proc'[q].pc = "queue" <=> proc[q].pc = "queue"
      /\ \A q \in Requests : proc[q].pc = "queue" => proc'[q] = proc[q]
      /\ \A q \in Requests : proc'[q].pc = proc[q].pc /\ proc'[q].whole = proc[q].whole
                          /\ proc'[q].deployment = proc[q].deployment
  BY <1>2, Slots
<1>4. QueueInv'
  BY StutterKeepsQueueInv, Layers
<1>5. ProcInv'
  BY <1>1, <1>2, ProcFrame, Slots, Layers
<1>6. RowsInv'
  BY Layers DEF RowsInv, RowInv, OneLive
<1>7. JobsInv'
  <2>1. \A e \in 1..issued : Unbuilt(e) => Unbuilt(e)'
    BY <1>3 DEF Unbuilt
  <2>2. \A w \in Workers : Building(w)' => Building(w) /\ worker'[w].pc = "run"
    BY <1>1, <1>2, Slots, Layers DEF Building, ProcInv
  <2> QED
    BY <1>1, <1>2, <1>3, <2>1, <2>2, JobsFrame, Slots
<1>8. StatusInv'
  <2>1. /\ \A e \in Deployments : e <= issued => StatusKept(e)
        /\ \A e \in Deployments : e > issued => row'[e].status \notin {"queued", "processing"}
        /\ faults = 0 => \A e \in Deployments : row'[e].active <=> row'[e].status = "active"
    BY Layers DEF StatusKept, RowsInv, RowInv, NoRow, StatusInv
  <2> QED
    BY <1>1, <1>2, <1>3, <2>1, StatusFrame
<1> QED
  BY <1>4, <1>5, <1>6, <1>7, <1>8

\* The next part of a deployment is deleted.
LEMMA DeletePartInv ==
  ASSUME Inv, NEW r \in Requests, DeletePart(r)
  PROVE  Inv'
<1>1. PICK d \in 1..issued, todo \in Seq(PartSet) :
        /\ d = proc[r].deployment /\ todo = proc[r].todo /\ todo # <<>> /\ d \in purged
  BY Slots, Layers DEF DeletePart, ProcInv, ProcState, PartsInv
<1> DEFINE part == Head(todo)
<1>2. /\ objects' = objects \ {<<d, part>>} /\ files' = files \ {<<d, part>>}
      /\ issued' = issued /\ row' = row /\ purged' = purged /\ cleaned' = cleaned
      /\ UNCHANGED queueVars /\ proc[r].pc = "delete"
  BY <1>1 DEF DeletePart, historyVars
<1>3. /\ part \in PartSet /\ Tail(todo) \in Seq(PartSet)
      /\ Elements(todo) = Elements(Tail(todo)) \cup {part}
  BY <1>1, TailElements
<1> HIDE DEF part
<1>4. /\ Moves(r)
      /\ proc'[r].pc = "delete" /\ proc'[r].deployment = d /\ proc'[r].todo = Tail(todo)
      /\ proc'[r].failed = proc[r].failed /\ proc'[r].whole = proc[r].whole
  <2>1. proc' = [proc EXCEPT ![r].todo = Tail(todo)]
    BY <1>1 DEF DeletePart
  <2> QED BY <1>1, <1>2, <1>3, <2>1, TodoEffect, Slots, Layers DEF Becomes
<1>5. QueueInv' /\ ProcInv' /\ RowsInv' /\ JobsInv' /\ StatusInv'
  BY <1>1, <1>2, <1>4, DeleteFrame
<1>6. PartsInv'
  <2>1. PartsInv
    BY Layers
  <2>2. /\ objects' \subseteq (1..issued') \X PartSet
        /\ files' \subseteq objects' /\ purged' \subseteq 1..issued' /\ cleaned' \subseteq 1..issued'
        /\ \A file \in files' : Exists(file[1])' /\ file[2] \in FilePaths
        /\ \A e \in Deployments : row'[e].evidence => \A p \in PartSet : <<e, p>> \notin objects'
    BY <1>2, <2>1 DEF PartsInv, Exists
  <2>3. \A e, paths : NoStray(e, paths) => NoStray(e, paths)'
    BY <1>2 DEF NoStray
  <2>4. \A e, p : e \notin purged => (<<e, p>> \in objects' <=> <<e, p>> \in objects)
    BY <1>1, <1>2
  <2>5. \A w \in Workers : proc'[w].pc \in {"build", "addFile"} =>
          /\ Exists(proc[w].deployment)' => NoStray(proc[w].deployment, Elements(proc[w].todo))'
          /\ proc'[w].deployment \notin purged' =>
               \A p \in PartSet \ Elements(proc'[w].todo) : <<proc'[w].deployment, p>> \in objects'
    <3>1. \A w \in Workers : proc'[w] = proc[w]
      BY <1>4, Slots DEF Moves
    <3>2. \A w \in Workers : Exists(proc[w].deployment)' <=> Exists(proc[w].deployment)
      BY <1>2, <3>1 DEF Exists
    <3> QED BY <1>2, <2>1, <2>3, <2>4, <3>1, <3>2 DEF PartsInv
  <2>6. \A e \in Deployments : row'[e].built =>
          /\ NoStray(e, {})'
          /\ ~row'[e].evidence /\ e \notin purged' => PartsStored(e)'
    BY <1>2, <2>1, <2>3, <2>4 DEF PartsInv, PartsStored
  <2>7. ASSUME NEW q \in Requests, proc'[q].pc = "delete"
        PROVE  /\ proc'[q].todo # <<>> => proc'[q].deployment \in purged'
               /\ proc'[q].whole /\ ~proc'[q].failed =>
                    \A p \in PartSet \ Elements(proc'[q].todo) :
                       <<proc'[q].deployment, p>> \notin objects'
    <3>1. CASE q = r
      <4>1. proc[r].whole /\ ~proc[r].failed =>
              \A p \in PartSet \ Elements(todo) : <<d, p>> \notin objects
        BY <1>1, <1>2, <2>1 DEF PartsInv
      <4> QED BY <1>1, <1>2, <1>3, <1>4, <3>1, <4>1
    <3>2. CASE q # r
      <4>1. proc'[q] = proc[q]
        BY <1>4, <3>2, Slots DEF Moves
      <4> QED BY <1>2, <2>1, <2>7, <4>1 DEF PartsInv
    <3> QED BY <3>1, <3>2
  <2>8. DeletedLeavesNothing'
    BY <1>2, <2>1 DEF PartsInv, DeletedLeavesNothing, PartsIn
  <2> QED
    BY <2>2, <2>5, <2>6, <2>7, <2>8 DEF PartsInv
<1> QED
  BY <1>5, <1>6 DEF Inv

\* The next part cannot be deleted.
LEMMA DeletePartFailsInv ==
  ASSUME Inv, NEW r \in Requests, DeletePartFails(r)
  PROVE  Inv'
<1> DEFINE todo == proc[r].todo
<1>1. todo \in Seq(PartSet) /\ todo # <<>>
  BY Slots, Layers DEF DeletePartFails, ProcInv, ProcState
<1>2. /\ issued' = issued /\ row' = row /\ purged' = purged /\ cleaned' = cleaned
      /\ objects' = objects /\ files' = files
      /\ UNCHANGED queueVars /\ proc[r].pc = "delete"
  BY DEF DeletePartFails, historyVars, tableVars
<1>3. /\ Moves(r)
      /\ proc'[r].pc = "delete" /\ proc'[r].deployment = proc[r].deployment
      /\ proc'[r].failed /\ proc'[r].whole = proc[r].whole
  <2>1. proc' = [proc EXCEPT ![r] = [@ EXCEPT !.todo = Tail(todo), !.failed = TRUE]]
    BY DEF DeletePartFails
  <2>2. Tail(todo) \in Seq(PartSet)
    BY <1>1, TailElements
  <2> QED BY <1>2, <2>1, <2>2, FailedEffect, Slots, Layers DEF Becomes
<1>4. QueueInv' /\ ProcInv' /\ RowsInv' /\ JobsInv' /\ StatusInv'
  BY <1>2, <1>3, DeleteFrame
<1>5. PartsInv'
  <2>1. PartsInv
    BY Layers
  <2>2. /\ objects' \subseteq (1..issued') \X PartSet
        /\ files' \subseteq objects' /\ purged' \subseteq 1..issued' /\ cleaned' \subseteq 1..issued'
        /\ \A file \in files' : Exists(file[1])' /\ file[2] \in FilePaths
        /\ \A e \in Deployments : row'[e].evidence => \A p \in PartSet : <<e, p>> \notin objects'
        /\ \A e \in Deployments : row'[e].built =>
             /\ NoStray(e, {})'
             /\ ~row'[e].evidence /\ e \notin purged' => PartsStored(e)'
        /\ DeletedLeavesNothing'
    BY <1>2, <2>1 DEF PartsInv, Exists, NoStray, PartsStored, DeletedLeavesNothing, PartsIn
  <2>3. \A w \in Workers : proc'[w].pc \in {"build", "addFile"} =>
          /\ Exists(proc[w].deployment)' => NoStray(proc[w].deployment, Elements(proc[w].todo))'
          /\ proc'[w].deployment \notin purged' =>
               \A p \in PartSet \ Elements(proc'[w].todo) : <<proc'[w].deployment, p>> \in objects'
    <3>1. \A w \in Workers : proc'[w] = proc[w]
      BY <1>3, Slots DEF Moves
    <3> QED BY <1>2, <2>1, <3>1 DEF PartsInv, Exists, NoStray
  <2>4. ASSUME NEW q \in Requests, proc'[q].pc = "delete"
        PROVE  /\ proc'[q].todo # <<>> => proc'[q].deployment \in purged'
               /\ proc'[q].whole /\ ~proc'[q].failed =>
                    \A p \in PartSet \ Elements(proc'[q].todo) :
                       <<proc'[q].deployment, p>> \notin objects'
    <3>1. CASE q = r
      BY <1>1, <1>2, <1>3, <2>1, <3>1 DEF PartsInv
    <3>2. CASE q # r
      <4>1. proc'[q] = proc[q]
        BY <1>3, <3>2, Slots DEF Moves
      <4> QED BY <1>2, <2>1, <2>4, <4>1 DEF PartsInv
    <3> QED BY <3>1, <3>2
  <2> QED
    BY <2>1, <2>2, <2>3, <2>4, <1>2 DEF PartsInv
<1> QED
  BY <1>4, <1>5 DEF Inv

\* A delete ends, and the row goes unless an object is left or it is live.
LEMMA DropDeploymentInv ==
  ASSUME Inv, NEW r \in Requests, DropDeployment(r)
  PROVE  Inv'
<1>1. PICK d \in 1..issued : d = proc[r].deployment /\ d \in Deployments
  BY Slots, Layers DEF DropDeployment, ProcInv
<1>2. /\ jobs' = jobs /\ worker' = worker /\ faults' = faults /\ Queue!Ids' = Queue!Ids
      /\ issued' = issued /\ objects' = objects /\ purged' = purged
      /\ UNCHANGED queueVars /\ proc[r].pc = "delete" /\ proc[r].todo = <<>>
  BY DEF DropDeployment, queueVars, Queue!Ids
<1>3. /\ RowsInv'
      /\ \A e \in Deployments : e # d => row'[e] = row[e]
      /\ row' = row \/ row'[d] = NoRow
      /\ row' # row => files' = {file \in files : file[1] # d}
      /\ \/ files' = files
         \/ files' = {file \in files : file[1] # d} /\ row'[d] = NoRow
      /\ row'[d] = NoRow /\ Exists(d) => ~proc[r].failed
  <2>1. CASE proc[r].failed \/ row[d].active
    <3>1. row' = row /\ files' = files
      BY <1>1, <2>1 DEF DropDeployment, DeleteRow
    <3>2. row[d] = NoRow => ~Exists(d)
      BY DEF Exists, NoRow
    <3>3. RowsInv'
      BY <1>2, <3>1, Layers DEF RowsInv, RowInv, OneLive
    <3>4. row[d] = NoRow => ~row[d].active
      BY DEF NoRow
    <3> QED BY <2>1, <3>1, <3>2, <3>3, <3>4
  <2>2. CASE ~proc[r].failed /\ ~row[d].active
    <3>1. row' = [row EXCEPT ![d] = NoRow] /\ files' = {file \in files : file[1] # d}
      BY <1>1, <2>2 DEF DropDeployment, DeleteRow
    <3> QED BY <1>1, <1>2, <2>2, <3>1, DeleteEffect, Layers
  <2> QED BY <2>1, <2>2
<1>4. /\ \/ cleaned' = cleaned
         \/ cleaned' = cleaned \cup {d} /\ proc[r].whole /\ ~proc[r].failed
      /\ cleaned \subseteq cleaned'
  <2>1. cleaned' = IF proc[r].whole /\ Exists(d) /\ row'[d] = NoRow
                     THEN cleaned \cup {d} ELSE cleaned
    BY <1>1 DEF DropDeployment
  <2> QED BY <1>3, <2>1
<1>5. /\ \A q \in Processes : q # r => proc'[q] = proc[q]
      /\ proc'[r].pc = "idle" /\ Moves(r) /\ r \in Processes
      /\ \A w \in Workers : proc'[w] = proc[w] /\ w # r
  BY EndEffect, Slots, Layers DEF DropDeployment, Becomes, Moves
<1>6. QueueInv'
  BY <1>2, StutterKeepsQueueInv, Layers
<1>7. ProcInv'
  BY <1>2, <1>5, ProcFrame, Slots, Layers
<1>8. /\ \A q \in Requests : proc'[q].pc \in {"queue", "delete"} => proc'[q] = proc[q]
      /\ \A q \in Requests : proc'[q].pc = "queue" <=> proc[q].pc = "queue"
      /\ \A q \in Requests : proc[q].pc = "queue" => proc'[q] = proc[q]
  BY <1>2, <1>5, Slots
<1>9. NoRow.built = FALSE /\ NoRow.evidence = FALSE /\ NoRow.active = FALSE /\ NoRow.status = "none"
  BY DEF NoRow
<1>10. JobsInv'
  <2>1. \A e \in 1..issued : Unbuilt(e) => Unbuilt(e)'
    BY <1>1, <1>2, <1>3, <1>4, <1>8, <1>9, Slots DEF Unbuilt
  <2>2. \A w \in Workers : Building(w)' => Building(w) /\ worker'[w].pc = "run"
    BY <1>2, <1>5, Slots, Layers DEF Building, ProcInv
  <2> QED
    BY <1>2, <1>5, <1>8, <2>1, <2>2, JobsFrame, Slots
<1>11. PartsInv'
  <2>1. PartsInv
    BY Layers
  <2>2. \A e \in Deployments : \/ row'[e] = row[e] /\ (Exists(e)' <=> Exists(e))
                               \/ e = d /\ row'[e] = NoRow /\ ~Exists(e)'
    <3>1. row'[d] = NoRow => ~Exists(d)'
      BY <1>9 DEF Exists
    <3>2. \A e \in Deployments : row'[e] = row[e] => (Exists(e)' <=> Exists(e))
      BY DEF Exists
    <3> QED BY <1>3, <3>1, <3>2
  <2>3. \A e \in Deployments : (Exists(e)' => Exists(e)) /\ (row'[e].built => row[e].built)
                            /\ (row'[e].evidence => row[e].evidence)
                            /\ (row'[e].built => row'[e].evidence = row[e].evidence)
    BY <1>9, <2>2
  <2>4. \A e \in Deployments : \A paths : Exists(e)' /\ NoStray(e, paths) => NoStray(e, paths)'
    BY <1>2, <1>3, <2>2, <1>9 DEF NoStray, Exists
  <2>5. /\ objects' \subseteq (1..issued') \X PartSet
        /\ files' \subseteq objects' /\ purged' \subseteq 1..issued' /\ cleaned' \subseteq 1..issued'
        /\ \A e \in Deployments : row'[e].evidence => \A p \in PartSet : <<e, p>> \notin objects'
    BY <1>2, <1>3, <1>4, <2>1, <2>3 DEF PartsInv
  <2>6. \A file \in files' : Exists(file[1])' /\ file[2] \in FilePaths
    <3>1. \A file \in files : file[1] \in Deployments
      BY <2>1, Slots DEF PartsInv
    <3>2. row' # row => \A file \in files' : file[1] # d
      BY <1>3
    <3>3. \A file \in files' : file \in files
      BY <1>3
    <3> QED BY <1>3, <2>1, <3>1, <3>2, <3>3 DEF PartsInv, Exists
  <2>7. \A w \in Workers : proc'[w].pc \in {"build", "addFile"} =>
          /\ Exists(proc[w].deployment)' => NoStray(proc[w].deployment, Elements(proc[w].todo))'
          /\ proc'[w].deployment \notin purged' =>
               \A p \in PartSet \ Elements(proc'[w].todo) : <<proc'[w].deployment, p>> \in objects'
    <3>1. \A w \in Workers : proc[w].pc \in {"build", "addFile"} => proc[w].deployment \in Deployments
      BY Slots, Layers DEF ProcInv
    <3> QED BY <1>2, <1>5, <2>1, <2>3, <2>4, <3>1 DEF PartsInv
  <2>8. \A e \in Deployments : row'[e].built =>
          /\ NoStray(e, {})'
          /\ ~row'[e].evidence /\ e \notin purged' => PartsStored(e)'
    <3>1. \A e \in Deployments : row'[e].built => Exists(e)'
      BY <1>3, <1>9 DEF RowsInv, RowInv, Exists
    <3> QED BY <1>2, <2>1, <2>3, <2>4, <3>1 DEF PartsInv, PartsStored
  <2>9. \A q \in Requests : proc'[q].pc = "delete" =>
          /\ proc'[q].todo # <<>> => proc'[q].deployment \in purged'
          /\ proc'[q].whole /\ ~proc'[q].failed =>
               \A p \in PartSet \ Elements(proc'[q].todo) :
                  <<proc'[q].deployment, p>> \notin objects'
    BY <1>2, <1>8, <2>1 DEF PartsInv
  <2>10. DeletedLeavesNothing'
    <3>1. ASSUME proc[r].whole, ~proc[r].failed PROVE PartsIn(objects, d) = {}
      <4>1. \A p \in PartSet \ Elements(<<>>) : <<d, p>> \notin objects
        BY <1>1, <1>2, <2>1, <3>1 DEF PartsInv
      <4>2. \A pair \in objects : pair[1] = d => pair[2] \in PartSet /\ pair = <<d, pair[2]>>
        BY <2>1 DEF PartsInv
      <4> QED BY <4>1, <4>2, EmptyElements DEF PartsIn
    <3> QED BY <1>2, <1>4, <2>1, <3>1 DEF PartsInv, DeletedLeavesNothing, PartsIn
  <2> QED
    BY <2>5, <2>6, <2>7, <2>8, <2>9, <2>10 DEF PartsInv
<1>12. StatusInv'
  <2>1. /\ \A e \in Deployments : e <= issued => StatusKept(e)
        /\ faults = 0 => \A e \in Deployments : row'[e].active <=> row'[e].status = "active"
    BY <1>3, <1>9, Layers DEF StatusKept, StatusInv
  <2>2. \A e \in Deployments : e > issued => row'[e].status \notin {"queued", "processing"}
    BY <1>2, <1>3, <1>9 DEF RowsInv, RowInv
  <2> QED
    BY <1>2, <1>5, <1>8, <2>1, <2>2, StatusFrame
<1> QED
  BY <1>3, <1>6, <1>7, <1>10, <1>11, <1>12 DEF Inv

\* Two loops are never busy with the same deployment.
LEMMA OneBuilder ==
  ASSUME Inv, NEW v \in Workers, NEW w \in Workers, proc[v].pc # "idle", proc[w].pc # "idle",
         proc[v].deployment = proc[w].deployment
  PROVE  v = w
<1>1. worker[v].pc = "run" /\ worker[w].pc = "run"
  BY Layers DEF ProcInv
<1>2. worker[v].job \in Queue!Ids /\ worker[w].job \in Queue!Ids
  BY <1>1, QueueFacts, Layers
<1>3. worker[v].job = worker[w].job
  BY <1>1, <1>2, Layers DEF JobsInv
<1> QED
  BY <1>1, <1>3, QueueFacts, Layers

\* A build goes on or gives up: only PartsInv is at stake.
LEMMA BuildFrame ==
  ASSUME Inv, NEW w \in Workers, proc[w].pc \in {"build", "addFile"},
         Moves(w), proc'[w].pc \in {"build", "addFile", "fail"},
         proc'[w].deployment = proc[w].deployment,
         proc'[w].pc = "addFile" => proc'[w].todo # <<>> /\ Head(proc'[w].todo) \in FilePaths,
         UNCHANGED queueVars, row' = row, issued' = issued, cleaned' = cleaned
  PROVE  QueueInv' /\ ProcInv' /\ RowsInv' /\ JobsInv' /\ StatusInv'
<1>1. /\ jobs' = jobs /\ worker' = worker /\ faults' = faults /\ Queue!Ids' = Queue!Ids
      /\ w \in Processes /\ proc[w].deployment \in 1..issued
  BY Slots, Layers DEF queueVars, Queue!Ids, ProcInv
<1>2. /\ \A q \in Processes : q # w => proc'[q] = proc[q]
      /\ \A r \in Requests : proc'[r] = proc[r]
  BY Slots DEF Moves
<1>3. QueueInv'
  BY StutterKeepsQueueInv, Layers
<1>4. ProcInv'
  BY <1>1, <1>2, ProcFrame, Slots, Layers DEF ProcInv
<1>5. RowsInv'
  BY Layers DEF RowsInv, RowInv, OneLive
<1>6. \A v \in Workers : proc'[v].pc # "idle" <=> proc[v].pc # "idle"
  BY <1>2, Slots
<1>7. \A v \in Workers : proc'[v].deployment = proc[v].deployment
  BY <1>2, Slots
<1>8. JobsInv'
  <2>1. \A e \in 1..issued : Unbuilt(e) => Unbuilt(e)'
    BY <1>2 DEF Unbuilt
  <2>2. \A v \in Workers : Building(v)' => Building(v) /\ worker'[v].pc = "run"
    BY <1>1, <1>2, Slots, Layers DEF Building, ProcInv
  <2> QED
    BY <1>1, <1>2, <1>7, <2>1, <2>2, JobsFrame, Slots
<1>9. StatusInv'
  <2>1. /\ \A e \in Deployments : e <= issued => StatusKept(e)
        /\ \A e \in Deployments : e > issued => row'[e].status \notin {"queued", "processing"}
        /\ faults = 0 => \A e \in Deployments : row'[e].active <=> row'[e].status = "active"
    BY Layers DEF StatusKept, RowsInv, RowInv, NoRow, StatusInv
  <2>2. \A v \in Workers : proc'[v].pc # "idle" =>
          StatusAt(proc[v].pc) \subseteq StatusAt(proc'[v].pc)
    <3>1. StatusAt(proc[w].pc) = StatusAt(proc'[w].pc)
      BY DEF StatusAt
    <3> QED BY <1>2, <3>1, Slots
  <2> QED
    BY <1>1, <1>2, <1>6, <1>7, <2>1, <2>2, StatusFrame
<1> QED
  BY <1>3, <1>4, <1>5, <1>8, <1>9

\* The next part of a build is stored.
LEMMA PutPartInv ==
  ASSUME Inv, NEW w \in Workers, PutPart(w)
  PROVE  Inv'
<1>1. PICK d \in 1..issued, todo \in Seq(PartSet) :
        /\ d = proc[w].deployment /\ todo = proc[w].todo /\ todo # <<>> /\ d \in Deployments
        /\ Unbuilt(d)
  BY Slots, Layers DEF PutPart, ProcInv, ProcState, JobsInv, Building
<1> DEFINE part == Head(todo)
<1>2. /\ objects' = objects \cup {<<d, part>>} /\ files' = files
      /\ issued' = issued /\ row' = row /\ purged' = purged /\ cleaned' = cleaned
      /\ UNCHANGED queueVars /\ proc[w].pc = "build"
  BY <1>1 DEF PutPart, historyVars
<1>3. /\ part \in PartSet /\ Tail(todo) \in Seq(PartSet) /\ part \in Elements(todo)
      /\ Elements(todo) = Elements(Tail(todo)) \cup {part}
  BY <1>1, TailElements
<1>4. /\ Moves(w) /\ proc'[w].deployment = d
      /\ \/ /\ part \in FilePaths /\ proc'[w].pc = "addFile" /\ proc'[w].todo = todo
            /\ Head(proc'[w].todo) \in FilePaths
         \/ part \notin FilePaths /\ proc'[w].pc = "build" /\ proc'[w].todo = Tail(todo)
  <2>1. CASE part \in FilePaths
    <3>1. Goto(w, "addFile") /\ "addFile" \in Pcs
      BY <1>1, <2>1 DEF PutPart, Pcs
    <3> QED BY <1>1, <2>1, <3>1, GotoEffect, Slots, Layers DEF Becomes
  <2>2. CASE part \notin FilePaths
    <3>1. proc' = [proc EXCEPT ![w].todo = Tail(todo)]
      BY <1>1, <2>2 DEF PutPart
    <3> QED BY <1>1, <1>2, <1>3, <2>2, <3>1, TodoEffect, Slots, Layers DEF Becomes
  <2> QED BY <2>1, <2>2
<1> HIDE DEF part
<1>5. QueueInv' /\ ProcInv' /\ RowsInv' /\ JobsInv' /\ StatusInv'
  BY <1>1, <1>2, <1>4, BuildFrame
<1>6. /\ \A q \in Requests : proc'[q] = proc[q]
      /\ \A v \in Workers : v # w => proc'[v] = proc[v]
      /\ \A v \in Workers : proc'[v].pc \in {"build", "addFile"} => proc[v].pc \in {"build", "addFile"}
      /\ \A v \in Workers : proc[v].pc \in {"build", "addFile"} /\ v # w => proc[v].deployment # d
  BY <1>1, <1>2, <1>4, Slots, OneBuilder DEF Moves
<1>7. PartsInv'
  <2>1. PartsInv
    BY Layers
  <2>2. \A e, p : e # d => (<<e, p>> \in objects' <=> <<e, p>> \in objects)
    BY <1>2
  <2>3. \A e, paths : e # d => (NoStray(e, paths) => NoStray(e, paths)')
    BY <1>2, <2>2 DEF NoStray
  <2>4. /\ objects' \subseteq (1..issued') \X PartSet
        /\ files' \subseteq objects' /\ purged' \subseteq 1..issued' /\ cleaned' \subseteq 1..issued'
        /\ \A file \in files' : Exists(file[1])' /\ file[2] \in FilePaths
        /\ \A e \in Deployments : row'[e].evidence => \A p \in PartSet : <<e, p>> \notin objects'
    BY <1>1, <1>2, <1>3, <2>1, <2>2 DEF PartsInv, Exists, Unbuilt
  <2>5. ASSUME NEW v \in Workers, proc'[v].pc \in {"build", "addFile"}
        PROVE  /\ Exists(proc[v].deployment)' => NoStray(proc[v].deployment, Elements(proc[v].todo))'
               /\ proc'[v].deployment \notin purged' =>
                    \A p \in PartSet \ Elements(proc'[v].todo) : <<proc'[v].deployment, p>> \in objects'
    <3>1. CASE v = w
      <4>1. /\ Exists(d) => NoStray(d, Elements(todo))
            /\ d \notin purged => \A p \in PartSet \ Elements(todo) : <<d, p>> \in objects
        BY <1>1, <1>2, <2>1 DEF PartsInv
      <4>2. Exists(d) => NoStray(d, Elements(todo))'
        BY <1>2, <1>3, <4>1 DEF NoStray
      <4>3. FilePaths \ Elements(proc'[w].todo) = FilePaths \ Elements(todo)
        BY <1>3, <1>4
      <4>4. Exists(proc[w].deployment)' => NoStray(proc[w].deployment, Elements(proc[w].todo))'
        BY <1>2, <1>4, <4>2, <4>3 DEF NoStray, Exists
      <4>5. d \notin purged' => \A p \in PartSet \ Elements(proc'[w].todo) : <<d, p>> \in objects'
        BY <1>2, <1>3, <1>4, <4>1
      <4> QED BY <1>4, <3>1, <4>4, <4>5
    <3>2. CASE v # w
      <4>1. /\ proc'[v] = proc[v] /\ proc[v].deployment # d
            /\ Exists(proc[v].deployment) => NoStray(proc[v].deployment, Elements(proc[v].todo))
        BY <1>6, <2>1, <2>5, <3>2 DEF PartsInv
      <4>2. Exists(proc[v].deployment)' => NoStray(proc[v].deployment, Elements(proc[v].todo))'
        BY <1>2, <2>2, <4>1 DEF NoStray, Exists
      <4> QED BY <1>2, <2>1, <2>2, <2>5, <4>1, <4>2 DEF PartsInv
    <3> QED BY <3>1, <3>2
  <2>6. \A e \in Deployments : row'[e].built =>
          /\ NoStray(e, {})'
          /\ ~row'[e].evidence /\ e \notin purged' => PartsStored(e)'
    <3>1. \A e \in Deployments : row'[e].built => e # d /\ row[e].built
      BY <1>1, <1>2 DEF Unbuilt
    <3>2. \A e : PartsStored(e) => PartsStored(e)'
      BY <1>2 DEF PartsStored
    <3> QED BY <1>2, <2>1, <2>3, <3>1, <3>2 DEF PartsInv
  <2>7. \A q \in Requests : proc'[q].pc = "delete" =>
          /\ proc'[q].todo # <<>> => proc'[q].deployment \in purged'
          /\ proc'[q].whole /\ ~proc'[q].failed =>
               \A p \in PartSet \ Elements(proc'[q].todo) : <<proc'[q].deployment, p>> \notin objects'
    <3>1. \A q \in Requests : proc[q].pc = "delete" /\ proc[q].whole => proc[q].deployment # d
      BY <1>1 DEF Unbuilt
    <3> QED BY <1>2, <1>6, <2>1, <2>2, <3>1 DEF PartsInv
  <2>8. DeletedLeavesNothing'
    BY <1>1, <1>2, <2>1 DEF PartsInv, DeletedLeavesNothing, PartsIn, Unbuilt
  <2> QED
    BY <2>4, <2>5, <2>6, <2>7, <2>8 DEF PartsInv
<1> QED
  BY <1>5, <1>7 DEF Inv

\* A step of a build that neither stores nor enters anything.
LEMMA BuildIdles ==
  ASSUME Inv, NEW w \in Workers, proc[w].pc \in {"build", "addFile"}, Goto(w, "fail"),
         UNCHANGED queueVars, UNCHANGED tableVars, purged' = purged, cleaned' = cleaned
  PROVE  Inv'
<1>1. /\ Moves(w) /\ proc'[w].deployment = proc[w].deployment /\ proc'[w].pc = "fail"
      /\ issued' = issued /\ row' = row /\ files' = files /\ objects' = objects
  BY GotoEffect, Slots, Layers DEF Becomes, Pcs, tableVars
<1>2. QueueInv' /\ ProcInv' /\ RowsInv' /\ JobsInv' /\ StatusInv'
  BY <1>1, BuildFrame
<1>3. PartsInv'
  <2>1. /\ \A q \in Requests : proc'[q] = proc[q]
        /\ \A v \in Workers : v # w => proc'[v] = proc[v]
    BY <1>1, Slots DEF Moves
  <2> QED BY <1>1, <2>1, PartsFrame, Slots DEF Exists
<1> QED
  BY <1>2, <1>3 DEF Inv

\* A build fails.
LEMMA BuildFailsInv ==
  ASSUME Inv, NEW w \in Workers, BuildFails(w)
  PROVE  Inv'
BY BuildIdles DEF BuildFails, historyVars

\* A stored file is entered in the table, or the build fails.
LEMMA AddFileInv ==
  ASSUME Inv, NEW w \in Workers, AddFile(w)
  PROVE  Inv'
<1>1. PICK d \in 1..issued, todo \in Seq(PartSet) :
        /\ d = proc[w].deployment /\ todo = proc[w].todo /\ todo # <<>> /\ d \in Deployments
        /\ Head(todo) \in FilePaths
  BY Slots, Layers DEF AddFile, ProcInv, ProcState
<1> DEFINE part == Head(todo)
<1>2. /\ objects' = objects
      /\ issued' = issued /\ row' = row /\ purged' = purged /\ cleaned' = cleaned
      /\ UNCHANGED queueVars /\ proc[w].pc = "addFile"
  BY DEF AddFile, historyVars
<1>3. CASE ~(Exists(d) /\ <<d, part>> \in objects)
  <2>1. Goto(w, "fail") /\ files' = files
    BY <1>1, <1>3 DEF AddFile
  <2> QED BY <1>2, <2>1, BuildIdles DEF tableVars
<1>4. CASE Exists(d) /\ <<d, part>> \in objects
  <2>1. /\ part \in PartSet /\ Tail(todo) \in Seq(PartSet)
        /\ Elements(todo) = Elements(Tail(todo)) \cup {part}
    BY <1>1, TailElements
  <2>2. /\ Moves(w) /\ proc'[w].deployment = d
        /\ proc'[w].pc = "build" /\ proc'[w].todo = Tail(todo)
    <3>1. proc' = [proc EXCEPT ![w] = [@ EXCEPT !.pc = "build", !.todo = Tail(todo)]]
      BY <1>1, <1>4 DEF AddFile
    <3>2. "build" \in Pcs
      BY DEF Pcs
    <3>3. Becomes(w, "build", proc[w].deployment, Tail(todo), proc[w].failed, proc[w].whole)
      BY <2>1, <3>1, <3>2, GoOnEffect, Slots, Layers
    <3> QED BY <1>1, <3>3 DEF Becomes
  <2>3. files' = files \cup {<<d, part>>}
    BY <1>1, <1>4 DEF AddFile
  <2>4. part \in FilePaths /\ <<d, part>> \in objects /\ Exists(d)
    BY <1>1, <1>4
  <2> HIDE DEF part
  <2>5. QueueInv' /\ ProcInv' /\ RowsInv' /\ JobsInv' /\ StatusInv'
    BY <1>1, <1>2, <2>2, BuildFrame
  <2>6. /\ \A q \in Requests : proc'[q] = proc[q]
        /\ \A v \in Workers : v # w => proc'[v] = proc[v]
    BY <2>2, Slots DEF Moves
  <2>7. PartsInv'
    <3>1. PartsInv
      BY Layers
    <3>2. \A e, paths : NoStray(e, paths) => NoStray(e, paths)'
      BY <1>2, <2>3 DEF NoStray
    <3>3. /\ objects' \subseteq (1..issued') \X PartSet
          /\ files' \subseteq objects' /\ purged' \subseteq 1..issued' /\ cleaned' \subseteq 1..issued'
          /\ \A file \in files' : Exists(file[1])' /\ file[2] \in FilePaths
          /\ \A e \in Deployments : row'[e].evidence => \A p \in PartSet : <<e, p>> \notin objects'
          /\ DeletedLeavesNothing'
      BY <1>2, <2>3, <2>4, <3>1 DEF PartsInv, Exists, DeletedLeavesNothing, PartsIn
    <3>4. ASSUME NEW v \in Workers, proc'[v].pc \in {"build", "addFile"}
          PROVE  /\ Exists(proc[v].deployment)' => NoStray(proc[v].deployment, Elements(proc[v].todo))'
                 /\ proc'[v].deployment \notin purged' =>
                      \A p \in PartSet \ Elements(proc'[v].todo) :
                         <<proc'[v].deployment, p>> \in objects'
      <4>1. CASE v = w
        <5>1. /\ NoStray(d, Elements(todo))
              /\ d \notin purged => \A p \in PartSet \ Elements(todo) : <<d, p>> \in objects
          BY <1>1, <1>2, <2>4, <3>1 DEF PartsInv
        <5>2. NoStray(proc[w].deployment, Elements(proc[w].todo))'
          BY <1>2, <2>1, <2>2, <2>3, <5>1 DEF NoStray
        <5>3. d \notin purged' => \A p \in PartSet \ Elements(proc'[w].todo) : <<d, p>> \in objects'
          BY <1>2, <2>1, <2>2, <2>4, <5>1
        <5> QED BY <2>2, <4>1, <5>2, <5>3
      <4>2. CASE v # w
        <5>1. /\ proc'[v] = proc[v]
              /\ Exists(proc[v].deployment) => NoStray(proc[v].deployment, Elements(proc[v].todo))
          BY <2>6, <3>1, <3>4, <4>2 DEF PartsInv
        <5>2. Exists(proc[v].deployment)' => NoStray(proc[v].deployment, Elements(proc[v].todo))'
          BY <1>2, <2>3, <5>1 DEF NoStray, Exists
        <5> QED BY <1>2, <3>1, <3>4, <5>1, <5>2 DEF PartsInv
      <4> QED BY <4>1, <4>2
    <3>5. \A e \in Deployments : row'[e].built =>
            /\ NoStray(e, {})'
            /\ ~row'[e].evidence /\ e \notin purged' => PartsStored(e)'
      BY <1>2, <3>1, <3>2 DEF PartsInv, PartsStored
    <3>6. \A q \in Requests : proc'[q].pc = "delete" =>
            /\ proc'[q].todo # <<>> => proc'[q].deployment \in purged'
            /\ proc'[q].whole /\ ~proc'[q].failed =>
                 \A p \in PartSet \ Elements(proc'[q].todo) : <<proc'[q].deployment, p>> \notin objects'
      BY <1>2, <2>6, <3>1 DEF PartsInv
    <3> QED
      BY <3>3, <3>4, <3>5, <3>6 DEF PartsInv
  <2> QED
    BY <2>5, <2>7 DEF Inv
<1> QED
  BY <1>3, <1>4

\* A loop's job goes on, with the deployment it was given, or ends.
JobGoesOn(w) ==
  \/ /\ worker' = worker
     /\ proc'[w].pc \in {"build", "fail", "activate"} /\ proc'[w].deployment = proc[w].deployment
  \/ /\ OnlyLoop(w) /\ proc'[w].pc = "idle"
     /\ worker'[w].pc \in {"ok", "err"} /\ worker'[w].job = worker[w].job

\* A job disturbs nobody else's deployment: it is enough to look at its own.
LEMMA JobStep ==
  ASSUME Inv, NEW w \in Workers, proc[w].pc # "idle", NEW d \in 1..issued, d = proc[w].deployment,
         jobs' = jobs, issued' = issued, cleaned' = cleaned, RowsInv', Moves(w), JobGoesOn(w),
         Building(w)' => Building(w) /\ Unbuilt(d)',
         \A e \in 1..issued : e # d => (Unbuilt(e) => Unbuilt(e)'),
         faults' = 0 =>
           /\ faults = 0
           /\ \A e \in Deployments : e # d => StatusKept(e)
           /\ \A e \in Deployments : row'[e].active <=> row'[e].status = "active"
           /\ proc'[w].pc # "idle" => row'[d].status \in StatusAt(proc'[w].pc)
           /\ proc'[w].pc = "idle" => row'[d].status \notin {"queued", "processing"}
  PROVE  ProcInv' /\ JobsInv' /\ StatusInv'
<1>1. /\ Queue!Ids' = Queue!Ids
      /\ w \in Processes /\ d \in Deployments /\ \A e \in 1..issued : e \in Deployments
      /\ \A q \in Processes : q # w => proc'[q] = proc[q]
      /\ \A q \in Requests : proc'[q] = proc[q]
      /\ \A v \in Workers : v # w => worker'[v] = worker[v] /\ proc'[v] = proc[v]
  BY Slots DEF Queue!Ids, Moves, JobGoesOn, OnlyLoop
<1>2. JobsInv
  BY Layers
<1>3. /\ worker[w].pc = "run" /\ worker[w].job \in Queue!Ids
      /\ jobs[worker[w].job].status = "running"
      /\ jobs[worker[w].job].payload.deployment = d
  BY <1>2, QueueFacts, Layers DEF ProcInv, JobsInv
<1>4. \A i \in Queue!Ids : jobs[i].payload.deployment = d => i = worker[w].job
  BY <1>2, <1>3 DEF JobsInv
<1>5. \A q \in Requests : proc[q].pc = "queue" => proc[q].deployment # d
  BY <1>2, <1>3 DEF JobsInv
<1>6. \A v \in Workers : proc[v].pc # "idle" /\ v # w => proc[v].deployment # d
  BY OneBuilder
<1>7. /\ \A i \in Queue!Ids : jobs[i].payload.deployment \in 1..issued
      /\ \A p \in Processes : proc[p].pc # "idle" => proc[p].deployment \in 1..issued
  BY <1>2, Layers DEF JobsInv, ProcInv
<1>8. ProcInv'
  BY <1>1, ProcFrame, Slots, Layers DEF ProcInv, JobGoesOn
<1>9. JobsInv'
  <2>1. /\ \A i \in Queue!Ids' : jobs'[i].type = Queue!DeploySite
                               /\ jobs'[i].payload.deployment \in 1..issued'
        /\ \A i, k \in Queue!Ids' :
             jobs'[i].payload.deployment = jobs'[k].payload.deployment => i = k
    BY <1>1, <1>2 DEF JobsInv
  <2>2. ASSUME NEW q \in Requests, proc'[q].pc = "queue"
        PROVE  /\ \A i \in Queue!Ids' : jobs'[i].payload.deployment # proc'[q].deployment
               /\ \A s \in Requests : proc'[s].pc = "queue" /\ proc'[s].deployment = proc'[q].deployment
                                        => s = q
               /\ Unbuilt(proc[q].deployment)'
    BY <1>1, <1>2, <1>5, <1>7, <2>2, Slots DEF JobsInv
  <2>3. \A i \in Queue!Ids' : jobs'[i].status = "queued" => Unbuilt(jobs[i].payload.deployment)'
    BY <1>1, <1>2, <1>3, <1>4, <1>7 DEF JobsInv
  <2>4. ASSUME NEW v \in Workers, worker'[v].pc = "run"
        PROVE  jobs'[worker'[v].job].payload.deployment = proc'[v].deployment
    <3>1. CASE v = w
      BY <1>3, <2>4, <3>1 DEF JobGoesOn
    <3>2. CASE v # w
      BY <1>1, <1>2, <2>4, <3>2 DEF JobsInv
    <3> QED BY <3>1, <3>2
  <2>5. ASSUME NEW v \in Workers, Building(v)' PROVE Unbuilt(proc[v].deployment)'
    <3>1. CASE v = w
      <4>1. proc'[w].deployment = d
        BY <2>5, <3>1 DEF JobGoesOn, Building
      <4> QED BY <2>5, <3>1, <4>1
    <3>2. CASE v # w
      <4>1. proc'[v] = proc[v] /\ Building(v) /\ proc[v].deployment # d
            /\ proc[v].deployment \in 1..issued
        BY <1>1, <1>6, <1>7, <2>5, <3>2, Slots DEF Building
      <4> QED BY <1>2, <4>1 DEF JobsInv
    <3> QED BY <3>1, <3>2
  <2> QED
    BY <2>1, <2>2, <2>3, <2>4, <2>5 DEF JobsInv
<1>10. StatusInv'
  <2> SUFFICES ASSUME faults' = 0 PROVE StatusInv'
    BY DEF StatusInv
  <2>1. StatusInv /\ faults = 0
    BY Layers
  <2>2. \A i \in Queue!Ids' : jobs'[i].status = "queued" =>
          row'[jobs'[i].payload.deployment].status \in {"queued", "none"}
    <3>1. \A i \in Queue!Ids : jobs[i].status = "queued" =>
            /\ row[jobs[i].payload.deployment].status \in {"queued", "none"}
            /\ StatusKept(jobs[i].payload.deployment)
      BY <1>1, <1>3, <1>4, <1>7, <2>1 DEF StatusInv
    <3> QED BY <1>1, <3>1 DEF StatusKept
  <2>3. \A q \in Requests : proc'[q].pc = "queue" =>
          row'[proc'[q].deployment].status \in {"queued", "none"}
    <3>1. \A q \in Requests : proc[q].pc = "queue" =>
            /\ row[proc[q].deployment].status \in {"queued", "none"}
            /\ StatusKept(proc[q].deployment)
      BY <1>1, <1>5, <1>7, <2>1, Slots DEF StatusInv
    <3> QED BY <1>1, <3>1 DEF StatusKept
  <2>4. ASSUME NEW v \in Workers, proc'[v].pc # "idle"
        PROVE  row'[proc'[v].deployment].status \in StatusAt(proc'[v].pc)
    <3>1. CASE v = w
      BY <2>4, <3>1 DEF JobGoesOn
    <3>2. CASE v # w
      <4>1. proc'[v] = proc[v] /\ proc[v].pc # "idle" /\ proc[v].deployment # d
            /\ proc[v].deployment \in Deployments
        BY <1>1, <1>6, <1>7, <2>4, <3>2, Slots
      <4>2. row[proc[v].deployment].status \in StatusAt(proc[v].pc) /\ StatusKept(proc[v].deployment)
        BY <2>1, <4>1 DEF StatusInv
      <4> QED BY <4>1, <4>2 DEF StatusAt, StatusKept
    <3> QED BY <3>1, <3>2
  <2>5. ASSUME NEW v \in Workers, worker'[v].pc \in {"ok", "err"}
        PROVE  row'[jobs'[worker'[v].job].payload.deployment].status \notin {"queued", "processing"}
    <3>1. CASE v = w
      <4>1. worker'[w].job = worker[w].job /\ proc'[w].pc = "idle"
        BY <1>3, <2>5, <3>1, SMTT(30) DEF JobGoesOn
      <4> QED BY <1>3, <3>1, <4>1
    <3>2. CASE v # w
      <4>1. worker'[v] = worker[v] /\ worker[v].job \in Queue!Ids /\ worker[v].job # worker[w].job
        BY <1>1, <1>3, <2>5, <3>2, QueueFacts, Layers
      <4>2. jobs[worker[v].job].payload.deployment # d
            /\ jobs[worker[v].job].payload.deployment \in Deployments
        BY <1>1, <1>4, <1>7, <4>1
      <4>3. row[jobs[worker[v].job].payload.deployment].status \notin {"queued", "processing"}
        BY <2>1, <2>5, <4>1 DEF StatusInv
      <4>4. StatusKept(jobs[worker[v].job].payload.deployment)
        BY <4>2
      <4> QED BY <4>1, <4>3, <4>4 DEF StatusKept
    <3> QED BY <3>1, <3>2
  <2>6. WaitingHasJob'
    <3> SUFFICES ASSUME NEW e \in Deployments, row'[e].status \in {"queued", "processing"}
                 PROVE  \/ \E i \in Queue!Ids' : jobs'[i].payload.deployment = e
                                               /\ jobs'[i].status \in {"queued", "running"}
                        \/ \E q \in Requests : proc'[q].pc = "queue" /\ proc'[q].deployment = e
      BY DEF WaitingHasJob
    <3>1. CASE e = d
      BY <1>1, <1>3, <3>1
    <3>2. CASE e # d
      <4>1. row[e].status \in {"queued", "processing"}
        BY <3>2 DEF StatusKept
      <4> QED BY <1>1, <2>1, <4>1 DEF StatusInv, WaitingHasJob
    <3> QED BY <3>1, <3>2
  <2> QED
    BY <2>2, <2>3, <2>4, <2>5, <2>6 DEF StatusInv
<1> QED
  BY <1>8, <1>9, <1>10

\* The job's function returns.
LEMMA ReturnGoesOn ==
  ASSUME Inv, NEW w \in Workers, NEW ok \in BOOLEAN, Return(w, ok)
  PROVE  /\ QueueInv' /\ Moves(w) /\ JobGoesOn(w) /\ proc'[w].pc = "idle"
         /\ jobs' = jobs /\ faults' = faults
<1>1. Queue!RunJob(w, ok) /\ End(w)
  BY DEF Return
<1>2. QueueInv'
  BY <1>1, LoopKeepsQueueInv, Layers
<1>3. Moves(w) /\ proc'[w].pc = "idle"
  BY <1>1, EndEffect, Slots, Layers DEF Becomes
<1> QED
  BY <1>1, <1>2, <1>3, ReturnEffect, Layers DEF JobGoesOn

\* The job's function goes on at pc.
LEMMA GotoGoesOn ==
  ASSUME Inv, NEW w \in Workers, NEW pc \in {"build", "fail", "activate"}, Goto(w, pc),
         UNCHANGED queueVars
  PROVE  /\ QueueInv' /\ Moves(w) /\ JobGoesOn(w) /\ proc'[w].pc = pc
         /\ jobs' = jobs /\ faults' = faults
<1>1. Moves(w) /\ proc'[w].pc = pc /\ proc'[w].deployment = proc[w].deployment
  BY GotoEffect, Slots, Layers DEF Becomes, Pcs
<1>2. QueueInv'
  BY StutterKeepsQueueInv, Layers
<1> QED
  BY <1>1, <1>2 DEF JobGoesOn, queueVars

\* A job begins: the deployment is processing, unless it has been deleted.
LEMMA MarkProcessingInv ==
  ASSUME Inv, NEW w \in Workers, MarkProcessing(w)
  PROVE  Inv'
<1>1. PICK d \in 1..issued : d = proc[w].deployment /\ d \in Deployments /\ Unbuilt(d)
  BY Slots, Layers DEF MarkProcessing, ProcInv, JobsInv, Building
<1>2. /\ issued' = issued /\ files' = files /\ objects' = objects
      /\ purged' = purged /\ cleaned' = cleaned /\ proc[w].pc = "begin" /\ w \in Processes
  BY Slots DEF MarkProcessing, historyVars
<1>3. /\ RowsInv'
      /\ \A e \in Deployments : /\ row'[e].active = row[e].active /\ row'[e].built = row[e].built
                                /\ row'[e].evidence = row[e].evidence
                                /\ Exists(e)' <=> Exists(e)
                                /\ e # d => row'[e] = row[e]
      /\ row'[d].status \in {"processing", "none"}
  BY <1>1, <1>2, SetStatusEffect, Layers DEF MarkProcessing
<1>4. \A e \in 1..issued : e \in Deployments
  BY Slots
<1>5. /\ QueueInv' /\ Moves(w) /\ JobGoesOn(w) /\ jobs' = jobs /\ faults' = faults
      /\ \/ proc'[w].pc = "build" /\ proc'[w].todo = Parts /\ proc'[w].deployment = d
         \/ proc'[w].pc = "idle" /\ row'[d].status = "none"
  <2>1. CASE Exists(d)
    <3>1. /\ proc' = [proc EXCEPT ![w] = [@ EXCEPT !.pc = "build", !.todo = Parts]]
          /\ UNCHANGED queueVars
      BY <1>1, <2>1 DEF MarkProcessing
    <3>2. "build" \in Pcs
      BY DEF Pcs
    <3>3. Becomes(w, "build", proc[w].deployment, Parts, proc[w].failed, proc[w].whole)
      BY <1>2, <3>1, <3>2, GoOnEffect, PartsAreParts, Layers
    <3>4. QueueInv'
      BY <3>1, StutterKeepsQueueInv, Layers
    <3> QED BY <1>1, <3>1, <3>3, <3>4 DEF Becomes, JobGoesOn, queueVars
  <2>2. CASE ~Exists(d)
    <3>1. row'[d].status = "none"
      BY <1>1, <2>2 DEF MarkProcessing, SetStatus, Exists
    <3> QED BY <1>1, <2>2, <3>1, ReturnGoesOn DEF MarkProcessing
  <2> QED BY <2>1, <2>2
<1>6. /\ \A q \in Requests : proc'[q] = proc[q]
      /\ \A v \in Workers : v # w => proc'[v] = proc[v]
  BY <1>5, Slots DEF Moves
<1>7. ProcInv' /\ JobsInv' /\ StatusInv'
  <2>1. \A e \in 1..issued : Unbuilt(e) => Unbuilt(e)'
    BY <1>2, <1>3, <1>4, <1>6 DEF Unbuilt
  <2>2. Building(w)
    BY <1>2 DEF Building
  <2>3. faults = 0 => \A e \in Deployments : row'[e].active <=> row'[e].status = "active"
    <3>1. faults = 0 => \A e \in Deployments : row[e].active <=> row[e].status = "active"
      BY Layers DEF StatusInv
    <3>2. ~row[d].active
      BY <1>1, Layers DEF RowsInv, RowInv, Unbuilt
    <3> QED BY <1>3, <3>1, <3>2
  <2>4. \A e \in Deployments : e # d => StatusKept(e)
    BY <1>3 DEF StatusKept
  <2>5. proc'[w].pc # "idle" => row'[d].status \in StatusAt(proc'[w].pc)
    BY <1>3, <1>5 DEF StatusAt
  <2>6. proc'[w].pc = "idle" => row'[d].status \notin {"queued", "processing"}
    BY <1>5
  <2> QED
    BY <1>1, <1>2, <1>3, <1>5, <2>1, <2>2, <2>3, <2>4, <2>5, <2>6, JobStep
<1>8. PartsInv'
  <2>1. PartsInv
    BY Layers
  <2>2. /\ objects' \subseteq (1..issued') \X PartSet
        /\ files' \subseteq objects' /\ purged' \subseteq 1..issued' /\ cleaned' \subseteq 1..issued'
        /\ \A e \in Deployments : row'[e].evidence => \A p \in PartSet : <<e, p>> \notin objects'
        /\ DeletedLeavesNothing'
    BY <1>2, <1>3, <2>1 DEF PartsInv, DeletedLeavesNothing, PartsIn
  <2>3. \A file \in files' : Exists(file[1])' /\ file[2] \in FilePaths
    <3>1. \A file \in files : file[1] \in Deployments
      BY <1>4, <2>1 DEF PartsInv
    <3> QED BY <1>2, <1>3, <2>1, <3>1 DEF PartsInv
  <2>4. ASSUME NEW v \in Workers, proc'[v].pc \in {"build", "addFile"}
        PROVE  /\ Exists(proc[v].deployment)' => NoStray(proc[v].deployment, Elements(proc[v].todo))'
               /\ proc'[v].deployment \notin purged' =>
                    \A p \in PartSet \ Elements(proc'[v].todo) :
                       <<proc'[v].deployment, p>> \in objects'
    <3>1. CASE v = w
      <4>1. Elements(proc'[w].todo) = PartSet
        BY <1>5, <2>4, <3>1, PartsAreParts
      <4>2. FilePaths \ Elements(proc'[w].todo) = {}
        BY <4>1 DEF PartSet
      <4> QED BY <3>1, <4>1, <4>2 DEF NoStray
    <3>2. CASE v # w
      <4>1. /\ proc'[v] = proc[v]
            /\ Exists(proc[v].deployment) => NoStray(proc[v].deployment, Elements(proc[v].todo))
        BY <1>6, <2>1, <2>4, <3>2 DEF PartsInv
      <4>2. proc[v].deployment \in Deployments
        BY <2>4, <4>1, Slots, Layers DEF ProcInv
      <4>3. Exists(proc[v].deployment)' <=> Exists(proc[v].deployment)
        BY <1>3, <4>1, <4>2 DEF Exists
      <4>4. Exists(proc[v].deployment)' => NoStray(proc[v].deployment, Elements(proc[v].todo))'
        BY <1>2, <4>1, <4>3 DEF NoStray
      <4> QED BY <1>2, <2>1, <2>4, <4>1, <4>4 DEF PartsInv
    <3> QED BY <3>1, <3>2
  <2>5. \A e \in Deployments : row'[e].built =>
          /\ NoStray(e, {})'
          /\ ~row'[e].evidence /\ e \notin purged' => PartsStored(e)'
    BY <1>2, <1>3, <2>1 DEF PartsInv, PartsStored, NoStray
  <2>6. \A q \in Requests : proc'[q].pc = "delete" =>
          /\ proc'[q].todo # <<>> => proc'[q].deployment \in purged'
          /\ proc'[q].whole /\ ~proc'[q].failed =>
               \A p \in PartSet \ Elements(proc'[q].todo) : <<proc'[q].deployment, p>> \notin objects'
    BY <1>2, <1>6, <2>1 DEF PartsInv
  <2> QED
    BY <2>2, <2>3, <2>4, <2>5, <2>6 DEF PartsInv
<1> QED
  BY <1>3, <1>5, <1>7, <1>8 DEF Inv

\* A build ends, and the deployment is ready unless it has been deleted.
LEMMA MarkReadyInv ==
  ASSUME Inv, NEW w \in Workers, MarkReady(w)
  PROVE  Inv'
<1>1. PICK d \in 1..issued : /\ d = proc[w].deployment /\ d \in Deployments /\ Unbuilt(d)
                             /\ w \in Processes
  BY Slots, Layers DEF MarkReady, ProcInv, JobsInv, Building
<1>2. /\ issued' = issued /\ files' = files /\ objects' = objects
      /\ purged' = purged /\ cleaned' = cleaned /\ proc[w].pc = "build" /\ proc[w].todo = <<>>
  BY DEF MarkReady, historyVars
<1>3. /\ RowsInv'
      /\ \A e \in Deployments : /\ row'[e].active = row[e].active
                                /\ row'[e].evidence = row[e].evidence
                                /\ Exists(e)' <=> Exists(e)
                                /\ e # d => row'[e] = row[e]
      /\ Exists(d) => row'[d].status = "ready" /\ row'[d].built
      /\ ~Exists(d) => row'[d].status = "none" /\ row' = row
  <2>1. CASE Exists(d)
    <3>1. row' = [row EXCEPT ![d].status = "ready", ![d].built = TRUE]
      BY <1>1, <2>1 DEF MarkReady
    <3> QED BY <1>1, <1>2, <2>1, <3>1, ReadyEffect, Layers
  <2>2. CASE ~Exists(d)
    <3>1. row' = row
      BY <1>1, <2>2 DEF MarkReady
    <3> QED BY <1>2, <2>2, <3>1, Layers DEF RowsInv, RowInv, OneLive, Exists
  <2> QED BY <2>1, <2>2, SMTT(30)
<1>4. \A e \in 1..issued : e \in Deployments
  BY Slots
<1>5. /\ QueueInv' /\ Moves(w) /\ JobGoesOn(w) /\ jobs' = jobs /\ faults' = faults
      /\ \/ Exists(d) /\ proc'[w].pc \in {"idle", "activate"}
         \/ ~Exists(d) /\ proc'[w].pc = "fail"
  <2>1. CASE ~Exists(d)
    <3>1. Goto(w, "fail") /\ UNCHANGED queueVars
      BY <1>1, <2>1 DEF MarkReady
    <3> QED BY <2>1, <3>1, GotoGoesOn
  <2>2. CASE Exists(d) /\ proc[w].promote
    <3>1. Goto(w, "activate") /\ UNCHANGED queueVars
      BY <1>1, <2>2 DEF MarkReady
    <3> QED BY <2>2, <3>1, GotoGoesOn
  <2>3. CASE Exists(d) /\ ~proc[w].promote
    <3>1. Return(w, TRUE)
      BY <1>1, <2>3 DEF MarkReady
    <3> QED BY <2>3, <3>1, ReturnGoesOn
  <2> QED BY <2>1, <2>2, <2>3
<1>6. /\ \A q \in Requests : proc'[q] = proc[q]
      /\ \A v \in Workers : v # w => proc'[v] = proc[v]
  BY <1>5, Slots DEF Moves
<1>7. ProcInv' /\ JobsInv' /\ StatusInv'
  <2>1. \A e \in 1..issued : e # d => (Unbuilt(e) => Unbuilt(e)')
    BY <1>2, <1>3, <1>4, <1>6 DEF Unbuilt
  <2>2. ~Building(w)'
    BY <1>5 DEF Building
  <2>3. faults = 0 => \A e \in Deployments : row'[e].active <=> row'[e].status = "active"
    <3>1. faults = 0 => \A e \in Deployments : row[e].active <=> row[e].status = "active"
      BY Layers DEF StatusInv
    <3>2. ~row[d].active
      BY <1>1, Layers DEF RowsInv, RowInv, Unbuilt
    <3> QED BY <1>3, <3>1, <3>2
  <2>4. \A e \in Deployments : e # d => StatusKept(e)
    BY <1>3 DEF StatusKept
  <2>5. /\ proc'[w].pc # "idle" => row'[d].status \in StatusAt(proc'[w].pc)
        /\ proc'[w].pc = "idle" => row'[d].status \notin {"queued", "processing"}
    BY <1>3, <1>5 DEF StatusAt
  <2> QED
    BY <1>1, <1>2, <1>3, <1>5, <2>1, <2>2, <2>3, <2>4, <2>5, JobStep
<1>8. PartsInv'
  <2>1. PartsInv
    BY Layers
  <2>2. /\ objects' \subseteq (1..issued') \X PartSet
        /\ files' \subseteq objects' /\ purged' \subseteq 1..issued' /\ cleaned' \subseteq 1..issued'
        /\ \A e \in Deployments : row'[e].evidence => \A p \in PartSet : <<e, p>> \notin objects'
        /\ DeletedLeavesNothing'
    BY <1>2, <1>3, <2>1 DEF PartsInv, DeletedLeavesNothing, PartsIn
  <2>3. \A file \in files' : Exists(file[1])' /\ file[2] \in FilePaths
    <3>1. \A file \in files : file[1] \in Deployments
      BY <1>4, <2>1 DEF PartsInv
    <3> QED BY <1>2, <1>3, <2>1, <3>1 DEF PartsInv
  <2>4. ASSUME NEW v \in Workers, proc'[v].pc \in {"build", "addFile"}
        PROVE  /\ Exists(proc[v].deployment)' => NoStray(proc[v].deployment, Elements(proc[v].todo))'
               /\ proc'[v].deployment \notin purged' =>
                    \A p \in PartSet \ Elements(proc'[v].todo) :
                       <<proc'[v].deployment, p>> \in objects'
    <3>1. v # w
      BY <1>5, <2>4
    <3>2. /\ proc'[v] = proc[v]
          /\ Exists(proc[v].deployment) => NoStray(proc[v].deployment, Elements(proc[v].todo))
      BY <1>6, <2>1, <2>4, <3>1 DEF PartsInv
    <3>3. proc[v].deployment \in Deployments
      BY <2>4, <3>2, Slots, Layers DEF ProcInv
    <3>4. Exists(proc[v].deployment)' <=> Exists(proc[v].deployment)
      BY <1>3, <3>2, <3>3 DEF Exists
    <3>5. Exists(proc[v].deployment)' => NoStray(proc[v].deployment, Elements(proc[v].todo))'
      BY <1>2, <3>2, <3>4 DEF NoStray
    <3> QED BY <1>2, <2>1, <2>4, <3>2, <3>5 DEF PartsInv
  <2>5. ASSUME NEW e \in Deployments, row'[e].built
        PROVE  /\ NoStray(e, {})'
               /\ ~row'[e].evidence /\ e \notin purged' => PartsStored(e)'
    <3>1. CASE e # d \/ ~Exists(d)
      BY <1>2, <1>3, <2>1, <2>5, <3>1 DEF PartsInv, PartsStored, NoStray
    <3>2. CASE e = d /\ Exists(d)
      <4>1. /\ NoStray(d, Elements(<<>>))
            /\ d \notin purged => \A p \in PartSet \ Elements(<<>>) : <<d, p>> \in objects
        BY <1>1, <1>2, <2>1, <3>2 DEF PartsInv
      <4> QED BY <1>2, <3>2, <4>1, EmptyElements DEF PartsStored, NoStray
    <3> QED BY <3>1, <3>2
  <2>6. \A q \in Requests : proc'[q].pc = "delete" =>
          /\ proc'[q].todo # <<>> => proc'[q].deployment \in purged'
          /\ proc'[q].whole /\ ~proc'[q].failed =>
               \A p \in PartSet \ Elements(proc'[q].todo) : <<proc'[q].deployment, p>> \notin objects'
    BY <1>2, <1>6, <2>1 DEF PartsInv
  <2> QED
    BY <2>2, <2>3, <2>4, <2>5, <2>6 DEF PartsInv
<1> QED
  BY <1>3, <1>5, <1>7, <1>8 DEF Inv

\* The rows of a step that activates the deployment of a job, or marks it failed:
\* what is left to show is where the job goes.
LEMMA JobSettles ==
  ASSUME Inv, NEW w \in Workers, NEW d \in 1..issued, d = proc[w].deployment,
         proc[w].pc \in {"activate", "fail"},
         jobs' = jobs, issued' = issued, files' = files, objects' = objects,
         purged' = purged, cleaned' = cleaned,
         QueueInv', RowsInv', Moves(w), JobGoesOn(w), proc'[w].pc \in {"idle", "fail"},
         \A e \in Deployments : /\ row'[e].built = row[e].built
                                /\ row'[e].evidence = row[e].evidence
                                /\ Exists(e)' <=> Exists(e),
         faults' = 0 =>
           /\ faults = 0
           /\ \A e \in Deployments : e # d => StatusKept(e)
           /\ \A e \in Deployments : row'[e].active <=> row'[e].status = "active"
           /\ proc'[w].pc # "idle" => row'[d].status \in StatusAt(proc'[w].pc)
           /\ proc'[w].pc = "idle" => row'[d].status \notin {"queued", "processing"}
  PROVE  Inv'
<1>1. /\ \A q \in Requests : proc'[q] = proc[q]
      /\ \A v \in Workers : v # w => proc'[v] = proc[v]
  BY Slots DEF Moves
<1>2. ProcInv' /\ JobsInv' /\ StatusInv'
  <2>1. \A e \in 1..issued : Unbuilt(e) => Unbuilt(e)'
    BY <1>1, Slots DEF Unbuilt
  <2>2. ~Building(w)'
    BY DEF Building
  <2> QED
    BY <2>1, <2>2, JobStep
<1>3. PartsInv'
  BY <1>1, PartsFrame, Slots
<1> QED
  BY <1>2, <1>3 DEF Inv

\* A promotion ends a job, or fails it if the deployment cannot be activated.
LEMMA ActivateBuiltInv ==
  ASSUME Inv, NEW w \in Workers, ActivateBuilt(w)
  PROVE  Inv'
<1>1. PICK d \in 1..issued : d = proc[w].deployment /\ d \in Deployments
  BY Slots, Layers DEF ActivateBuilt, ProcInv
<1>2. /\ issued' = issued /\ files' = files /\ objects' = objects
      /\ purged' = purged /\ cleaned' = cleaned /\ proc[w].pc = "activate"
  BY DEF ActivateBuilt, historyVars
<1>3. /\ RowsInv'
      /\ ~Activatable(d) => row' = row
      /\ Activatable(d) =>
           /\ row'[d].active /\ row'[d].status = "active"
           /\ \A e \in Deployments : e # d =>
                /\ ~row'[e].active
                /\ row'[e].status = IF row[e].active THEN "ready" ELSE row[e].status
      /\ \A e \in Deployments : /\ row'[e].built = row[e].built
                                /\ row'[e].evidence = row[e].evidence
                                /\ Exists(e)' <=> Exists(e)
  BY <1>1, <1>2, ActivateEffect, Layers DEF ActivateBuilt
<1>4. /\ QueueInv' /\ Moves(w) /\ JobGoesOn(w) /\ jobs' = jobs /\ faults' = faults
      /\ \/ Activatable(d) /\ proc'[w].pc = "idle"
         \/ ~Activatable(d) /\ proc'[w].pc = "fail"
  <2>1. CASE Activatable(d)
    <3>1. Return(w, TRUE)
      BY <1>1, <2>1 DEF ActivateBuilt
    <3> QED BY <2>1, <3>1, ReturnGoesOn
  <2>2. CASE ~Activatable(d)
    <3>1. Goto(w, "fail") /\ UNCHANGED queueVars
      BY <1>1, <2>2 DEF ActivateBuilt
    <3> QED BY <2>2, <3>1, GotoGoesOn
  <2> QED BY <2>1, <2>2
<1>5. ASSUME faults = 0
      PROVE  /\ \A e \in Deployments : e # d => StatusKept(e)
             /\ \A e \in Deployments : row'[e].active <=> row'[e].status = "active"
             /\ proc'[w].pc # "idle" => row'[d].status \in StatusAt(proc'[w].pc)
             /\ proc'[w].pc = "idle" => row'[d].status \notin {"queued", "processing"}
  <2>1. /\ \A e \in Deployments : row[e].active <=> row[e].status = "active"
        /\ row[d].status \in StatusAt("activate")
    BY <1>1, <1>2, <1>5, Layers DEF StatusInv
  <2>2. CASE Activatable(d)
    <3>1. \A e \in Deployments : e # d => StatusKept(e)
      BY <1>3, <2>1, <2>2 DEF StatusKept
    <3>2. \A e \in Deployments : row'[e].active <=> row'[e].status = "active"
      BY <1>3, <2>1, <2>2
    <3> QED BY <1>3, <1>4, <2>2, <3>1, <3>2
  <2>3. CASE ~Activatable(d)
    <3>1. row' = row /\ row[d].status = "none"
      BY <1>3, <2>1, <2>3 DEF Activatable, StatusAt
    <3> QED BY <1>4, <2>1, <2>3, <3>1 DEF StatusKept, StatusAt
  <2> QED BY <2>2, <2>3
<1> QED
  BY <1>1, <1>2, <1>3, <1>4, <1>5, JobSettles

\* A job that failed says so: in the row, then to the job loop.
LEMMA FailDeploymentInv ==
  ASSUME Inv, NEW w \in Workers, FailDeployment(w)
  PROVE  Inv'
<1>1. PICK d \in 1..issued : d = proc[w].deployment /\ d \in Deployments
  BY Slots, Layers DEF FailDeployment, ProcInv
<1>2. /\ issued' = issued /\ files' = files /\ objects' = objects
      /\ purged' = purged /\ cleaned' = cleaned /\ proc[w].pc = "fail"
  BY DEF FailDeployment, historyVars
<1>3. /\ RowsInv'
      /\ \A e \in Deployments : /\ row'[e].active = row[e].active /\ row'[e].built = row[e].built
                                /\ row'[e].evidence = row[e].evidence
                                /\ Exists(e)' <=> Exists(e)
                                /\ e # d => row'[e] = row[e]
      /\ row'[d].status \in {"failed", "none"}
  BY <1>1, <1>2, SetStatusEffect, Layers DEF FailDeployment
<1>4. /\ QueueInv' /\ Moves(w) /\ JobGoesOn(w) /\ jobs' = jobs /\ faults' = faults
      /\ proc'[w].pc = "idle"
  BY ReturnGoesOn DEF FailDeployment
<1>5. ASSUME faults = 0
      PROVE  /\ \A e \in Deployments : e # d => StatusKept(e)
             /\ \A e \in Deployments : row'[e].active <=> row'[e].status = "active"
  <2>1. /\ \A e \in Deployments : row[e].active <=> row[e].status = "active"
        /\ row[d].status \in StatusAt("fail")
    BY <1>1, <1>2, <1>5, Layers DEF StatusInv
  <2>2. ~row[d].active
    BY <1>1, <2>1 DEF StatusAt
  <2> QED BY <1>3, <2>1, <2>2 DEF StatusKept
<1> QED
  BY <1>1, <1>2, <1>3, <1>4, <1>5, JobSettles

\* A promotion that is taken for one that failed: it has noted the fault.
LEMMA ActivateReadBackFailsInv ==
  ASSUME Inv, NEW w \in Workers, ActivateReadBackFails(w)
  PROVE  Inv'
<1>1. PICK d \in 1..issued : d = proc[w].deployment /\ d \in Deployments
  BY Slots, Layers DEF ActivateReadBackFails, ProcInv
<1>2. /\ issued' = issued /\ files' = files /\ objects' = objects
      /\ purged' = purged /\ cleaned' = cleaned /\ proc[w].pc = "activate"
      /\ jobs' = jobs /\ worker' = worker /\ faults' = faults + 1 /\ Goto(w, "fail")
  BY DEF ActivateReadBackFails, historyVars
<1>3. /\ RowsInv'
      /\ \A e \in Deployments : /\ row'[e].built = row[e].built
                                /\ row'[e].evidence = row[e].evidence
                                /\ Exists(e)' <=> Exists(e)
  BY <1>1, <1>2, ActivateEffect, Layers DEF ActivateReadBackFails
<1>4. Moves(w) /\ proc'[w].pc = "fail" /\ JobGoesOn(w)
  BY <1>2, GotoEffect, Slots, Layers DEF Becomes, Pcs, JobGoesOn
<1>5. QueueInv' /\ faults' # 0
  BY <1>2, FaultKeepsQueueInv, QueueFacts, Layers
<1> QED
  BY <1>1, <1>2, <1>3, <1>4, <1>5, JobSettles

-----------------------------------------------------------------------------
(* The invariant holds.                                                    *)

\* At first there is nothing.
LEMMA InitInv ==
  ASSUME Init
  PROVE  Inv
<1>1. QueueInv
  <2>1. QueueProofs!Init
    BY DEF Init, Queue!Init, Queue!NotHolding, QueueProofs!Init, QueueProofs!NotHolding
  <2> QED BY <2>1, QueueProofs!InitInv, BoundsAssumption DEF QueueInv
<1>2. /\ \A p \in Processes : proc[p] = Idle
      /\ proc \in [Processes -> ProcState]
      /\ \A w \in Workers : worker[w].pc = "wait"
      /\ Queue!Ids = {}
  <2>1. Len(jobs) = 0
    BY DEF Init, Queue!Init
  <2>2. Queue!Ids = {}
    BY <2>1 DEF Queue!Ids
  <2> QED BY <2>2, IdleState DEF Init, Queue!Init, Queue!NotHolding
<1>3. /\ NoRow \in Row /\ NoRow.active = FALSE /\ NoRow.built = FALSE /\ NoRow.evidence = FALSE
      /\ NoRow.status = "none"
  BY DEF Row, NoRow, Statuses, Environments, DeploymentTargets
<1>4. ProcInv
  <2>1. \A p \in Processes : proc[p].pc = "idle"
    BY <1>2, IdleState
  <2>2. issued \in 0..MaxDeployments
    BY BoundsAssumption DEF Init
  <2> QED BY <1>2, <2>1, <2>2 DEF ProcInv, Processes
<1>5. RowsInv
  BY <1>3 DEF Init, RowsInv, RowInv, OneLive
<1>6. \A p \in Processes : proc[p].pc = "idle"
  BY <1>2, IdleState
<1>7. JobsInv
  BY <1>2, <1>6 DEF JobsInv, Building, Processes
<1>8. PartsInv
  BY <1>3, <1>6 DEF Init, PartsInv, Processes, DeletedLeavesNothing
<1>9. StatusInv
  BY <1>2, <1>3, <1>6 DEF Init, StatusInv, Processes, WaitingHasJob
<1> QED
  BY <1>1, <1>4, <1>5, <1>7, <1>8, <1>9 DEF Inv

\* A step of nobody.
LEMMA StutterInv ==
  ASSUME Inv, UNCHANGED vars
  PROVE  Inv'
<1>1. /\ jobs' = jobs /\ worker' = worker /\ faults' = faults /\ Queue!Ids' = Queue!Ids
      /\ issued' = issued /\ row' = row /\ files' = files /\ objects' = objects
      /\ purged' = purged /\ cleaned' = cleaned /\ proc' = proc /\ UNCHANGED queueVars
  BY DEF vars, queueVars, tableVars, historyVars, Queue!Ids
<1>2. QueueInv'
  BY <1>1, StutterKeepsQueueInv, Layers
<1>3. ProcInv' /\ RowsInv'
  BY <1>1, Layers DEF ProcInv, RowsInv, RowInv, OneLive
<1>4. JobsInv'
  <2>1. \A e \in 1..issued : Unbuilt(e) => Unbuilt(e)'
    BY <1>1 DEF Unbuilt
  <2>2. \A w \in Workers : Building(w)' => Building(w) /\ worker'[w].pc = "run"
    BY <1>1, Layers DEF Building, ProcInv
  <2> QED BY <1>1, <2>1, <2>2, JobsFrame, Slots
<1>5. PartsInv'
  BY <1>1, PartsFrame, Slots DEF Exists
<1>6. StatusInv'
  <2>1. /\ \A e \in Deployments : e <= issued => StatusKept(e)
        /\ \A e \in Deployments : e > issued => row'[e].status \notin {"queued", "processing"}
        /\ faults = 0 => \A e \in Deployments : row'[e].active <=> row'[e].status = "active"
    BY <1>1, Layers DEF StatusKept, RowsInv, RowInv, NoRow, StatusInv
  <2> QED BY <1>1, <2>1, StatusFrame
<1> QED
  BY <1>2, <1>3, <1>4, <1>5, <1>6 DEF Inv

\* Every step keeps the invariant.
LEMMA NextInv == Inv /\ [Next]_vars => Inv'
<1> SUFFICES ASSUME Inv, [Next]_vars PROVE Inv'
  OBVIOUS
<1>1. ASSUME NEW r \in Requests, Create(r) PROVE Inv'
  BY <1>1, CreateDeploymentInv, QueueDeploymentInv DEF Create
<1>2. ASSUME NEW r \in Requests, Publish(r) PROVE Inv'
  <2>1. ASSUME NEW d \in Deployments, StartPromote(r, d) PROVE Inv'
    BY <2>1, StartActivationInv DEF StartPromote, Start, PromoteAllowed, Ops
  <2>2. ASSUME NEW d \in Deployments, StartActivateCloudflare(r, d) PROVE Inv'
    BY <2>2, StartActivationInv DEF StartActivateCloudflare, Start, Ops
  <2> QED BY <1>2, <2>1, <2>2, RecordInv, ActivateInv DEF Publish
<1>3. ASSUME NEW r \in Requests, Delete(r) PROVE Inv'
  BY <1>3, StartDeleteInv, DeletePartInv, DeletePartFailsInv, DropDeploymentInv DEF Delete
<1>4. ASSUME NEW r \in Requests, Cancel(r) PROVE Inv'
  BY <1>4, CancelInv
<1>5. ASSUME NEW w \in Workers, JobLoop(w) PROVE Inv'
  BY <1>5, QueueStepInv, StartJobInv, MarkProcessingInv, PutPartInv, AddFileInv, BuildFailsInv,
     MarkReadyInv, ActivateBuiltInv, FailDeploymentInv DEF JobLoop
<1>6. ASSUME NEW w \in Workers, ActivateReadBackFails(w) PROVE Inv'
  BY <1>6, ActivateReadBackFailsInv
<1>7. CASE Restart
  BY <1>7, RestartInv
<1>8. CASE UNCHANGED vars
  BY <1>8, StutterInv
<1> QED
  BY <1>1, <1>2, <1>3, <1>4, <1>5, <1>6, <1>7, <1>8 DEF Next, Request

\* The invariant, for ever.
LEMMA Invariant == Spec => []Inv
<1>1. Init => Inv
  BY InitInv
<1> QED
  BY <1>1, NextInv, PTL DEF Spec

\* Jobs, rows, objects and file rows are what they should be, whoever writes them.
THEOREM TypeCorrect == Spec => []TypeOK
<1>1. Inv => TypeOK
  <2> SUFFICES ASSUME Inv PROVE TypeOK
    OBVIOUS
  <2>1. Queue!TypeOK
    BY QueueFacts, Layers DEF Queue!TypeOK
  <2>2. issued \in 0..MaxDeployments /\ row \in [Deployments -> Row]
    BY Layers DEF ProcInv, RowsInv
  <2>3. /\ objects \subseteq (1..issued) \X PartSet /\ files \subseteq objects
        /\ \A file \in files : Exists(file[1]) /\ file[2] \in FilePaths
    BY Layers DEF PartsInv
  <2>4. objects \subseteq Deployments \X PartSet
    BY <2>3, Slots
  <2> QED BY <2>1, <2>2, <2>3, <2>4 DEF TypeOK, Row
<1> QED
  BY Invariant, <1>1, PTL

\* At most one deployment is live, whatever fails; and unless something has failed, it
\* is the one whose status is active.
THEOREM Agreement == Spec => []ActiveAgrees
<1>1. Inv => ActiveAgrees
  BY DEF Inv, RowsInv, OneLive, StatusInv, ActiveAgrees, IsActive
<1> QED
  BY Invariant, <1>1, PTL

\* What is live has all its files and parts, but for a delete that began to delete them.
THEOREM Complete == Spec => []LiveIsComplete
<1>1. Inv => LiveIsComplete
  <2> SUFFICES ASSUME Inv, NEW d \in Deployments \ purged, row[d].active, ~row[d].evidence
               PROVE  PartsIn(files, d) = FilePaths /\ PartsIn(objects, d) = PartSet
    BY DEF LiveIsComplete, IsActive
  <2>1. row[d].built
    BY Layers DEF RowsInv, RowInv
  <2>2. NoStray(d, {}) /\ PartsStored(d)
    BY <2>1, Layers DEF PartsInv
  <2>3. /\ \A path \in FilePaths : <<d, path>> \in files
        /\ \A part \in PartSet : <<d, part>> \in objects
    BY <2>2 DEF NoStray, PartsStored, PartSet
  <2>4. /\ \A pair \in files : pair[2] \in FilePaths
        /\ \A pair \in objects : pair[2] \in PartSet
    BY Layers DEF PartsInv
  <2>5. FilePaths \subseteq PartsIn(files, d) /\ PartSet \subseteq PartsIn(objects, d)
    <3>1. \A path \in FilePaths : <<d, path>> \in {q \in files : q[1] = d} /\ <<d, path>>[2] = path
      BY <2>3
    <3>2. \A part \in PartSet : <<d, part>> \in {q \in objects : q[1] = d} /\ <<d, part>>[2] = part
      BY <2>3
    <3>3. FilePaths \subseteq PartsIn(files, d)
      BY <3>1 DEF PartsIn
    <3>4. PartSet \subseteq PartsIn(objects, d)
      BY <3>2 DEF PartsIn
    <3> QED BY <3>3, <3>4
  <2> QED BY <2>4, <2>5 DEF PartsIn
<1> QED
  BY Invariant, <1>1, PTL

\* Nothing is left of what was deleted with its objects.
THEOREM NothingLeft == Spec => []DeletedLeavesNothing
<1>1. Inv => DeletedLeavesNothing
  BY DEF Inv, PartsInv
<1> QED
  BY Invariant, <1>1, PTL

\* Without a fault, a deployment that waits has a job, or a request about to queue it.
THEOREM HasJob == Spec => []WaitingHasJob
<1>1. Inv => WaitingHasJob
  BY DEF Inv, StatusInv, WaitingHasJob
<1> QED
  BY Invariant, <1>1, PTL

-----------------------------------------------------------------------------
(* Deployments implement SiteRelease.                                      *)

\* What visitors see: the live deployment, if there is one.
LEMMA CurrentIs ==
  ASSUME OneLive
  PROVE  /\ \A d \in Deployments : row[d].active => Current = d
         /\ (\A d \in Deployments : ~row[d].active) => Current = NoDeployment
BY DEF OneLive, Current, IsActive

\* The same of the next state.
LEMMA NextCurrentIs ==
  ASSUME OneLive'
  PROVE  /\ \A d \in Deployments : row'[d].active => Current' = d
         /\ (\A d \in Deployments : ~row'[d].active) => Current' = NoDeployment
BY DEF OneLive, Current, IsActive

\* The four kinds of steps the rows make.
Same == \A e \in Deployments : /\ row'[e].active = row[e].active
                               /\ row'[e].built = row[e].built

Finished(d) ==
  /\ row'[d].built
  /\ \A e \in Deployments : /\ row'[e].active = row[e].active
                            /\ e # d => row'[e].built = row[e].built

Published(d) ==
  /\ row[d].built /\ row'[d].active
  /\ \A e \in Deployments : row'[e].built = row[e].built

Discarded(d) ==
  /\ ~row[d].active /\ ~row'[d].active /\ ~row'[d].built
  /\ \A e \in Deployments : e # d => row'[e] = row[e]

RowStep ==
  \/ Same
  \/ \E d \in Deployments : Finished(d) \/ Published(d) \/ Discarded(d)

\* Each is a step of SiteRelease.
LEMMA RowStepsRelease ==
  ASSUME Inv, Inv', RowStep
  PROVE  [Release!Next]_(Release!vars)
<1>1. /\ OneLive /\ OneLive'
      /\ row \in [Deployments -> Row] /\ row' \in [Deployments -> Row]
  BY DEF Inv, RowsInv
<1> DEFINE B == {d \in Deployments : row[d].built}
<1>2. ASSUME \A e \in Deployments : row'[e].active = row[e].active
      PROVE  Current' = Current
  <2>1. CASE \E d \in Deployments : row[d].active
    BY <1>1, <1>2, <2>1, CurrentIs, NextCurrentIs
  <2>2. CASE \A d \in Deployments : ~row[d].active
    BY <1>1, <1>2, <2>2, CurrentIs, NextCurrentIs
  <2> QED BY <2>1, <2>2
<1>3. CASE Same
  <2>1. B' = B /\ Current' = Current
    BY <1>2, <1>3 DEF Same
  <2> QED BY <2>1 DEF Release!vars
<1>4. ASSUME NEW d \in Deployments, Finished(d)
      PROVE  Release!Finish(d)
  <2>1. B' = B \cup {d}
    BY <1>4 DEF Finished
  <2>2. Current' = Current
    BY <1>2, <1>4 DEF Finished
  <2> QED BY <2>1, <2>2 DEF Release!Finish
<1>5. ASSUME NEW d \in Deployments, Published(d)
      PROVE  Release!Publish(d)
  <2>1. B' = B /\ d \in B
    BY <1>5 DEF Published
  <2>2. Current' = d
    BY <1>1, <1>5, NextCurrentIs DEF Published
  <2> QED BY <2>1, <2>2 DEF Release!Publish
<1>6. ASSUME NEW d \in Deployments, Discarded(d)
      PROVE  Release!Discard(d)
  <2>1. B' = B \ {d}
    BY <1>6 DEF Discarded
  <2>2. \A e \in Deployments : row'[e].active = row[e].active
    BY <1>1, <1>6 DEF Discarded, Row
  <2>3. Current' = Current
    BY <1>2, <2>2
  <2>4. d # Current
    <3>1. CASE \E e \in Deployments : row[e].active
      BY <1>1, <1>6, <3>1, CurrentIs DEF Discarded
    <3>2. CASE \A e \in Deployments : ~row[e].active
      <4>1. Current = NoDeployment /\ d # NoDeployment
        BY <1>1, <3>2, CurrentIs, BoundsAssumption DEF NoDeployment, Deployments
      <4> QED BY <4>1
    <3> QED BY <3>1, <3>2
  <2> QED BY <2>1, <2>3, <2>4 DEF Release!Discard
<1> QED
  BY <1>3, <1>4, <1>5, <1>6 DEF RowStep, Release!Next

\* Activating is publishing, or nothing.
LEMMA ActivateIsPublish ==
  ASSUME Inv, issued' = issued, NEW d \in Deployments, ActivateTx(d)
  PROVE  RowStep
<1>1. CASE Activatable(d)
  <2>1. Published(d)
    BY <1>1, ActivateEffect, Layers DEF Published
  <2> QED BY <2>1 DEF RowStep
<1>2. CASE ~Activatable(d)
  <2>1. row' = row
    BY <1>2, ActivateEffect, Layers
  <2> QED BY <2>1 DEF RowStep, Same
<1> QED
  BY <1>1, <1>2

\* A change of status is nothing.
LEMMA SetStatusIsNothing ==
  ASSUME Inv, issued' = issued, NEW d \in Deployments, NEW status \in {"processing", "failed"},
         SetStatus(d, status)
  PROVE  RowStep
BY SetStatusEffect, Layers DEF RowStep, Same

\* A new row is a finished build, or nothing.
LEMMA InsertIsFinish ==
  ASSUME Inv, NEW form \in Form, NEW status \in {"queued", "ready"}, Insert(form, status)
  PROVE  RowStep
<1>1. PICK d \in Deployments :
        /\ \A e \in Deployments : e # d => row'[e] = row[e]
        /\ row[d] = NoRow /\ ~row'[d].active
        /\ row'[d].built <=> status = "ready"
        /\ row' \in [Deployments -> Row]
  BY InsertEffect, Layers DEF RowsInv
<1>2. NoRow.active = FALSE /\ NoRow.built = FALSE
  BY DEF NoRow
<1>3. row'[d].active = FALSE /\ row'[d].built \in BOOLEAN
  BY <1>1 DEF Row
<1>4. CASE status = "ready"
  BY <1>1, <1>2, <1>3, <1>4 DEF RowStep, Finished
<1>5. CASE status = "queued"
  BY <1>1, <1>2, <1>3, <1>5 DEF RowStep, Same
<1> QED
  BY <1>4, <1>5

\* Every step is one of the four kinds.
LEMMA StepsOfRows ==
  ASSUME Inv, [Next]_vars
  PROVE  RowStep
<1>1. ASSUME row' = row PROVE RowStep
  BY <1>1 DEF RowStep, Same
<1>2. ASSUME NEW r \in Requests, Create(r) PROVE RowStep
  <2>1. ASSUME NEW form \in Forms, CreateDeployment(r, form) PROVE RowStep
    BY <2>1, InsertIsFinish, FormsAssumption DEF CreateDeployment
  <2>2. CASE QueueDeployment(r)
    BY <1>1, <2>2 DEF QueueDeployment, tableVars
  <2> QED BY <1>2, <2>1, <2>2 DEF Create
<1>3. ASSUME NEW r \in Requests, Publish(r) PROVE RowStep
  <2>1. ASSUME NEW d \in Deployments, StartPromote(r, d) \/ StartActivateCloudflare(r, d)
        PROVE  RowStep
    BY <1>1, <2>1 DEF StartPromote, StartActivateCloudflare, tableVars
  <2>2. ASSUME NEW form \in Records, RecordCloudflareStatic(r, form) PROVE RowStep
    BY <2>2, InsertIsFinish, FormsAssumption DEF RecordCloudflareStatic
  <2>3. CASE Activate(r)
    <3>1. proc[r].deployment \in Deployments
      BY <2>3, Slots, Layers DEF Activate, ProcInv
    <3> QED BY <2>3, <3>1, ActivateIsPublish DEF Activate
  <2> QED BY <1>3, <2>1, <2>2, <2>3 DEF Publish
<1>4. ASSUME NEW r \in Requests, Delete(r) PROVE RowStep
  <2>1. ASSUME NEW d \in Deployments, NEW deleteObjects \in BOOLEAN, StartDelete(r, d, deleteObjects)
        PROVE  RowStep
    BY <1>1, <2>1 DEF StartDelete, tableVars
  <2>2. CASE DeletePart(r) \/ DeletePartFails(r)
    BY <1>1, <2>2 DEF DeletePart, DeletePartFails, tableVars
  <2>3. CASE DropDeployment(r)
    <3>1. PICK d \in Deployments : d = proc[r].deployment
      BY <2>3, Slots, Layers DEF DropDeployment, ProcInv
    <3>2. CASE proc[r].failed \/ row[d].active
      BY <1>1, <2>3, <3>1, <3>2 DEF DropDeployment, DeleteRow
    <3>3. CASE ~proc[r].failed /\ ~row[d].active
      <4>1. row' = [row EXCEPT ![d] = NoRow] /\ issued' = issued
        BY <2>3, <3>1, <3>3 DEF DropDeployment, DeleteRow
      <4>2. row'[d] = NoRow /\ \A e \in Deployments : e # d => row'[e] = row[e]
        BY <3>3, <4>1, DeleteEffect, Layers
      <4>3. Discarded(d)
        BY <3>3, <4>2 DEF Discarded, NoRow
      <4> QED BY <4>3 DEF RowStep
    <3> QED BY <3>2, <3>3
  <2> QED BY <1>4, <2>1, <2>2, <2>3 DEF Delete
<1>5. ASSUME NEW w \in Workers, JobLoop(w) PROVE RowStep
  <2>1. CASE QueueStep(w) \/ StartJob(w) \/ PutPart(w) \/ AddFile(w) \/ BuildFails(w)
    BY <1>1, <2>1 DEF QueueStep, StartJob, PutPart, AddFile, BuildFails, tableVars
  <2>2. ASSUME proc[w].pc # "idle" PROVE proc[w].deployment \in Deployments
    BY <2>2, Slots, Layers DEF ProcInv
  <2>3. CASE MarkProcessing(w)
    BY <2>2, <2>3, SetStatusIsNothing DEF MarkProcessing
  <2>4. CASE MarkReady(w)
    <3>1. PICK d \in Deployments : d = proc[w].deployment
      BY <2>2, <2>4 DEF MarkReady
    <3>2. CASE Exists(d)
      <4>1. /\ row' = [row EXCEPT ![d].status = "ready", ![d].built = TRUE]
            /\ issued' = issued
        BY <2>4, <3>1, <3>2 DEF MarkReady
      <4>2. Finished(d)
        BY <3>2, <4>1, ReadyEffect, Layers DEF Finished
      <4> QED BY <4>2 DEF RowStep
    <3>3. CASE ~Exists(d)
      BY <1>1, <2>4, <3>1, <3>3 DEF MarkReady
    <3> QED BY <3>2, <3>3
  <2>5. CASE ActivateBuilt(w)
    BY <2>2, <2>5, ActivateIsPublish DEF ActivateBuilt
  <2>6. CASE FailDeployment(w)
    BY <2>2, <2>6, SetStatusIsNothing DEF FailDeployment
  <2> QED BY <1>5, <2>1, <2>3, <2>4, <2>5, <2>6 DEF JobLoop
<1>6. ASSUME NEW w \in Workers, ActivateReadBackFails(w) PROVE RowStep
  <2>1. proc[w].deployment \in Deployments
    BY <1>6, Slots, Layers DEF ActivateReadBackFails, ProcInv
  <2> QED BY <1>6, <2>1, ActivateIsPublish DEF ActivateReadBackFails
<1>7. CASE \/ \E r \in Requests : Cancel(r)
           \/ Restart
           \/ UNCHANGED vars
  BY <1>1, <1>7 DEF Cancel, Restart, vars, tableVars
<1> QED
  BY <1>2, <1>3, <1>4, <1>5, <1>6, <1>7 DEF Next, Request

\* Whatever fails, visitors see one finished build after another, each published in one
\* step, and a site that has been published stays so: SiteDeployments implements
\* SiteRelease.
THEOREM Releases == Spec => ImplementsRelease
<1>1. Init => Release!Init
  <2> SUFFICES ASSUME Init PROVE Release!Init
    OBVIOUS
  <2>1. \A d \in Deployments : ~row[d].active /\ ~row[d].built
    BY DEF Init, NoRow
  <2>2. OneLive
    BY <2>1 DEF OneLive
  <2>3. Current = NoDeployment
    BY <2>1, <2>2, CurrentIs
  <2> QED BY <2>1, <2>3 DEF Release!Init
<1>2. Inv /\ Inv' /\ [Next]_vars => [Release!Next]_(Release!vars)
  BY StepsOfRows, RowStepsRelease
<1> QED
  BY Invariant, <1>1, <1>2, PTL DEF Spec, ImplementsRelease, Release!Spec
=============================================================================
