-------------------------- MODULE Replication_proofs --------------------------
(***************************************************************************)
(* Proofs about Replication, for every number of job loops, requests,      *)
(* backups and contents, every policy and every bound.                     *)
(*                                                                         *)
(* The inductive invariant Inv has seven layers:                           *)
(*   QueueInv     what JobQueue_proofs shows of the queue;                 *)
(*   ProcInv      where loops and requests are, and what loops work on;    *)
(*   RowsInv      the shape of the rows and the blobs;                     *)
(*   RecordedInv  whatever is to be copied to a target has a row there;    *)
(*   CoverInv     a delete that is under way, or is to come, finds every   *)
(*                blob: NoOrphans rests on it;                             *)
(*   PendingInv   who sees to a pending replica: PendingHasJob;            *)
(*   BackedInv    without deletes, blobs do not go away: ReadyIsBacked.    *)
(* A lemma per layer says which steps keep it, and what they have to show  *)
(* of the process that moves; a lemma per action shows that.               *)
(*                                                                         *)
(* SettledReplicasCurrent holds only of overwrites that are Orderly.  The  *)
(* invariant CurrentInv, on top of Inv, has six layers of its own:         *)
(*   PlainInv     the object stays, and all jobs are its jobs;             *)
(*   TurnInv      jobs are tried in the order they were queued in;         *)
(*   StoredInv    when the primary holds what the row says;                *)
(*   SourcedInv   when the primary is what backups are copied from;        *)
(*   CopiedInv    what a job in hand, or one that is done, has brought to  *)
(*                its target;                                              *)
(*   QueuedInv    whatever is marked ready has a job.                      *)
(***************************************************************************)
EXTENDS Replication, SequenceTheorems, WellFoundedInduction, TLAPS

QueueProofs == INSTANCE JobQueue_proofs
                 WITH Payloads <- [object : Nat, target : Targets]

QueueInv == QueueProofs!Inv

CopyPcs == {"load", "get", "copy", "markReady", "markFailed"}

\* What a process can be at, by what it is there for.
At(op, pc) ==
  \/ op = "none" /\ pc = "idle"
  \/ op = "upload" /\ pc \in {"put", "save", "mark", "backups", "queue"} \cup CopyPcs
  \/ op = "job" /\ pc \in CopyPcs
  \/ op = "refresh" /\ pc \in {"stat", "statMark"}
  \/ op = "repair" /\ pc \in {"repair", "repairQueue"}
  \/ op = "switch" /\ pc = "switch"
  \/ op = "delete" /\ pc = "delete"

Marks == {"failed", "ready", "stale"}

Pcs == {"idle", "put", "save", "mark", "backups", "queue", "stat", "statMark", "repair",
        "repairQueue", "switch", "delete"} \cup CopyPcs

ProcState ==
  [pc : Pcs, op : {"none", "upload", "job", "refresh", "repair", "switch", "delete"},
   content : Contents \cup {NoContent}, id : Nat, target : Targets, source : Targets,
   seen : [Targets -> Statuses \cup {"none"}], status : Marks \cup {"none"},
   todo : SUBSET Targets, failed : BOOLEAN, force : BOOLEAN]

Shape(q) ==
  /\ q \in ProcState /\ At(q.op, q.pc)
  /\ q.pc = "statMark" => q.status \in Marks
  /\ q.pc \in {"statMark", "repairQueue"} => q.todo # {}

\* A loop that runs a job is replicating what the job's row says.
ProcInv ==
  /\ proc \in [Processes -> ProcState]
  /\ \A p \in Processes : Shape(proc[p]) /\ proc[p].id <= lastId
  /\ \A r \in Requests : proc[r].op # "job" /\ (proc[r].op = "upload" => ~acked[r])
  /\ \A w \in Workers :
       /\ proc[w].op \in {"none", "job"}
       /\ proc[w].op = "job" <=> worker[w].pc = "run"
       /\ proc[w].op = "job" =>
            jobs[worker[w].job].payload = [object |-> proc[w].id, target |-> proc[w].target]

Row == [id : Nat, content : Contents \cup {NoContent}, primary : Targets]

RowsInv ==
  /\ object \in Row
  /\ lastId \in Nat /\ object.id <= lastId
  /\ replica \in [Targets -> Statuses \cup {"none"}]
  /\ blob \in [Targets -> Contents \cup {NoContent}]
  /\ object.id = 0 => replica = NoRow
  /\ acked \in [Requests -> BOOLEAN] /\ overlapped \in BOOLEAN
  /\ \A i \in Queue!Ids : jobs[i].payload.object <= lastId

\* As long as the object is there, t has a row.
HasRow(id, t) == Exists(id) => replica[t] # "none"

Recorded(p) ==
  /\ proc[p].pc \in CopyPcs \cup {"queue", "switch"} => HasRow(proc[p].id, proc[p].target)
  /\ proc[p].pc = "repairQueue" => HasRow(proc[p].id, Current(p))

RecordedInv ==
  /\ \A i \in Queue!Ids : HasRow(jobs[i].payload.object, jobs[i].payload.target)
  /\ \A p \in Processes : Recorded(p)
  /\ object.id # 0 /\ object.primary # Primary => replica[object.primary] # "none"

\* The blob of an upload that did not succeed.
Excused(t) == t = Primary /\ ~AllAcked

Covered(t) == object.id # 0 /\ t \in DeleteTargets

Careful(p) ==
  /\ Deleting(p) /\ Exists(proc[p].id) /\ ~proc[p].failed =>
       \A t \in Targets : blob[t] # NoContent => t \in proc[p].todo \/ Excused(t)
  /\ proc[p].op = "upload" /\ proc[p].pc \notin {"put", "save"} => Exists(proc[p].id)
  /\ proc[p].op = "upload" /\ proc[p].pc \notin {"put", "save", "mark"} =>
       replica[Primary] # "none"
  /\ proc[p].pc \in {"get", "copy", "markReady", "markFailed"} => Exists(proc[p].id)

Alone == \A p, q \in Processes : ~(Deleting(p) /\ Writing(q))

CoverInv ==
  ~overlapped =>
    /\ Alone
    /\ \A p \in Processes : Careful(p)
    /\ \A t \in Targets : blob[t] # NoContent => Covered(t) \/ Excused(t)
    /\ object.id # 0 => replica[Primary] # "none" \/ ~AllAcked

\* Somebody will see to the replica at t, or has given it up.
Queueing(r, t) ==
  /\ proc[r].id = object.id
  /\ \/ proc[r].pc = "queue" /\ proc[r].target = t
     \/ proc[r].pc = "repairQueue" /\ Current(r) = t

Trying(w, t) == worker[w].pc \in {"run", "err"} /\ jobs[worker[w].job].payload = Payload(t)

Attended(t) ==
  \/ JobAt(t, {"queued", "failed"})
  \/ \E w \in Workers : Trying(w, t)
  \/ \E r \in Requests : Queueing(r, t)

PendingInv ==
  faults = 0 /\ policy # "require_backups" =>
    \A t \in Targets : replica[t] = "pending" => Attended(t)

NoDeletes == \A r \in Requests : "delete" \notin Kinds[r]

Backed(p) ==
  /\ ~Deleting(p)
  /\ proc[p].op = "upload" \/ proc[p].pc = "copy" => proc[p].content # NoContent
  /\ proc[p].pc \in {"save", "mark"} => blob[Primary] # NoContent
  /\ proc[p].pc = "markReady" => blob[proc[p].target] # NoContent
  /\ proc[p].pc = "statMark" /\ proc[p].status = "ready" => blob[Current(p)] # NoContent

BackedInv ==
  NoDeletes => /\ \A p \in Processes : Backed(p)
               /\ ReadyIsBacked

Inv == /\ QueueInv /\ ProcInv /\ RowsInv /\ RecordedInv
       /\ CoverInv /\ PendingInv /\ BackedInv

-----------------------------------------------------------------------------
(* Targets in their order.                                                 *)

\* A set of naturals that is not empty has a least element.
LEMMA Least ==
  ASSUME NEW T, T \subseteq Nat, T # {}
  PROVE  \E n \in T : \A m \in T : n <= m
<1>1. PICK n \in T : \A m \in T : ~(<<m, n>> \in OpToRel(<, Nat))
  BY NatLessThanWellFounded, WFMin
<1>2. ASSUME NEW m \in T
      PROVE  n <= m
  <2>1. n \in Nat /\ m \in Nat
    OBVIOUS
  <2>2. ~(m < n)
    BY <1>1, <2>1 DEF OpToRel
  <2> QED BY <2>1, <2>2
<1> QED BY <1>2

\* Every target has a place in the order of the rows.
LEMMA Places ==
  /\ RowOrder \in Seq(Targets)
  /\ \A t \in Targets : Place(t) \in Nat /\ RowOrder[Place(t)] = t
<1>1. /\ Backups \in Seq(Targets) /\ Primary \in Targets
  BY TargetsAssumption DEF Targets
<1>2. /\ RowOrder \in Seq(Targets) /\ Len(RowOrder) = Len(Backups) + 1
      /\ RowOrder[1] = Primary
      /\ \A i \in 1..Len(Backups) : RowOrder[i + 1] = Backups[i]
  BY <1>1 DEF RowOrder
<1>3. ASSUME NEW t \in Targets
      PROVE  \E i \in DOMAIN RowOrder : RowOrder[i] = t
  <2>1. CASE t = Primary
    <3>1. 1 \in DOMAIN RowOrder
      BY <1>1, <1>2
    <3> QED BY <1>2, <2>1, <3>1
  <2>2. CASE t # Primary
    <3>1. PICK i \in 1..Len(Backups) : t = Backups[i]
      BY <2>2 DEF Targets
    <3>2. i + 1 \in DOMAIN RowOrder
      BY <1>1, <1>2, <3>1
    <3> QED BY <1>2, <3>1, <3>2
  <2> QED BY <2>1, <2>2
<1>4. DOMAIN RowOrder \subseteq Nat
  BY <1>2
<1> QED
  BY <1>2, <1>3, <1>4 DEF Place

\* The first of a set of targets is one of them.
LEMMA FirstIsIn ==
  ASSUME NEW S, S \subseteq Targets, S # {}
  PROVE  First(S) \in S
<1> DEFINE P == {Place(t) : t \in S}
<1>1. P \subseteq Nat /\ P # {}
  BY Places
<1>2. PICK n \in P : \A m \in P : n <= m
  BY <1>1, Least
<1>3. PICK t \in S : Place(t) = n
  OBVIOUS
<1>4. \A u \in S : Place(t) <= Place(u)
  BY <1>2, <1>3
<1> QED
  BY <1>4 DEF First

-----------------------------------------------------------------------------
(* The queue.                                                              *)

\* What is known of the queue, in its own words.
LEMMA QueueFacts ==
  ASSUME QueueInv
  PROVE  /\ jobs \in Seq(Queue!Job) /\ faults \in Nat
         /\ worker \in [Workers -> Queue!LoopState]
         /\ \A i \in Queue!Ids : jobs[i] \in Queue!Job
         /\ \A w \in Workers : worker[w].pc \in {"run", "ok", "err"} =>
              /\ worker[w].job \in Queue!Ids
              /\ jobs[worker[w].job].status = "running"
         /\ \A v, w \in Workers :
              /\ worker[v].pc \in {"run", "ok", "err"} /\ worker[w].pc \in {"run", "ok", "err"}
              /\ worker[v].job = worker[w].job
              => v = w
<1>1. /\ QueueProofs!Job = Queue!Job
      /\ QueueProofs!LoopState = Queue!LoopState
      /\ QueueProofs!Ids = Queue!Ids
  BY DEF QueueProofs!Ids, QueueProofs!Job, QueueProofs!LoopState, QueueProofs!JobTypes,
         QueueProofs!JobStatuses, QueueProofs!DeploySite, QueueProofs!ReplicateObject,
         QueueProofs!InitLibraries, Queue!Job, Queue!LoopState, Queue!Ids, Queue!JobTypes,
         Queue!JobStatuses, Queue!DeploySite, Queue!ReplicateObject, Queue!InitLibraries
<1>2. /\ jobs \in Seq(Queue!Job) /\ faults \in Nat
      /\ worker \in [Workers -> Queue!LoopState]
  BY <1>1 DEF QueueInv, QueueProofs!Inv, QueueProofs!TypeOK
<1>3. \A i \in Queue!Ids : jobs[i] \in Queue!Job
  BY <1>2, ElementOfSeq DEF Queue!Ids
<1> QED
  BY <1>1, <1>2, <1>3 DEF QueueInv, QueueProofs!Inv, QueueProofs!HeldRowIsOwn,
                          QueueProofs!ExclusiveClaim, QueueProofs!Holding

\* The queue's own steps keep what is known of it.
LEMMA LoopKeepsQueueInv ==
  ASSUME QueueInv, NEW w \in Workers,
         \/ Queue!Tick(w) \/ Queue!NoQueuedJob(w) \/ Queue!NextQueuedJob(w)
         \/ Queue!FinishJob(w) \/ Queue!FailJob(w)
         \/ \E ok \in BOOLEAN : Queue!RunJob(w, ok)
  PROVE  QueueInv'
<1>1. QueueProofs!Loop(w)
  <2>1. CASE Queue!Tick(w)
    BY <2>1 DEF Queue!Tick, QueueProofs!Tick, QueueProofs!Loop
  <2>2. CASE Queue!NoQueuedJob(w)
    BY <2>2 DEF Queue!NoQueuedJob, Queue!Queued, Queue!Ids, Queue!NotHolding,
                QueueProofs!NoQueuedJob, QueueProofs!Queued, QueueProofs!Ids,
                QueueProofs!NotHolding, QueueProofs!Loop
  <2>3. CASE Queue!NextQueuedJob(w)
    BY <2>3 DEF Queue!NextQueuedJob, Queue!Queued, Queue!Ids, Queue!Running, Queue!Taken,
                QueueProofs!NextQueuedJob, QueueProofs!Queued, QueueProofs!Ids,
                QueueProofs!Running, QueueProofs!Taken, QueueProofs!Loop
  <2>4. CASE Queue!FinishJob(w)
    BY <2>4 DEF Queue!FinishJob, Queue!WithStatus, Queue!NotHolding,
                QueueProofs!FinishJob, QueueProofs!WithStatus, QueueProofs!NotHolding,
                QueueProofs!Loop
  <2>5. CASE Queue!FailJob(w)
    BY <2>5 DEF Queue!FailJob, Queue!WithStatus, Queue!NotHolding, Queue!FailStatus,
                Queue!Retry, Queue!DeploySite,
                QueueProofs!FailJob, QueueProofs!WithStatus, QueueProofs!NotHolding,
                QueueProofs!FailStatus, QueueProofs!Retry, QueueProofs!DeploySite,
                QueueProofs!Loop
  <2>6. CASE \E ok \in BOOLEAN : Queue!RunJob(w, ok)
    BY <2>6 DEF Queue!RunJob, QueueProofs!RunJob, QueueProofs!Loop
  <2> QED
    BY <2>1, <2>2, <2>3, <2>4, <2>5, <2>6
<1> QED
  BY <1>1, QueueProofs!NextInv, BoundsAssumption DEF QueueInv, QueueProofs!Next

\* So does queueing a replication.
LEMMA CreateKeepsQueueInv ==
  ASSUME QueueInv, NEW payload \in [object : Nat, target : Targets],
         Queue!CreateJob(Queue!ReplicateObject, payload)
  PROVE  QueueInv'
<1>1. QueueProofs!CreateJob(QueueProofs!ReplicateObject, payload)
  BY DEF Queue!CreateJob, Queue!ReplicateObject, QueueProofs!CreateJob,
         QueueProofs!ReplicateObject
<1> QED
  BY <1>1, QueueProofs!CreateInv, BoundsAssumption
     DEF QueueInv, QueueProofs!JobTypes

\* And a fault that leaves the loops alone, or lets go of all jobs.
LEMMA FaultKeepsQueueInv ==
  ASSUME QueueInv, jobs' = jobs, faults' = faults + 1,
         worker' = worker \/ worker' = [w \in Workers |-> Queue!NotHolding("wait")]
  PROVE  QueueInv'
<1>1. worker \in [Workers -> QueueProofs!LoopState] /\ faults \in Nat
  BY DEF QueueInv, QueueProofs!Inv, QueueProofs!TypeOK
<1>2. /\ worker' \in [Workers -> QueueProofs!LoopState]
      /\ \A w \in Workers : worker'[w].pc \in {"run", "ok", "err"} => worker'[w] = worker[w]
  BY <1>1 DEF QueueProofs!LoopState, Queue!NotHolding
<1>3. faults' \in Nat /\ faults' # 0
  BY <1>1
<1> QED
  BY <1>1, <1>2, <1>3, QueueProofs!LoopsInv, BoundsAssumption DEF QueueInv, QueueProofs!Holding

\* And a step that does not touch it.
LEMMA StutterKeepsQueueInv ==
  ASSUME QueueInv, UNCHANGED queueVars
  PROVE  QueueInv'
BY QueueProofs!NextInv, BoundsAssumption DEF QueueInv, queueVars, QueueProofs!vars

\* The rows are the same, but for the status and the attempts of row i.
OnlyRow(i) ==
  /\ Queue!Ids' = Queue!Ids
  /\ \A k \in Queue!Ids : /\ jobs'[k].payload = jobs[k].payload
                          /\ k # i => jobs'[k] = jobs[k]

\* All loops but p, if p is a loop, stay as they are.
OnlyLoop(p) == \A v \in Workers : v # p => worker'[v] = worker[v]

\* An update of one row's status changes nothing else of the table.
LEMMA StatusChange ==
  ASSUME QueueInv, NEW i \in Queue!Ids, NEW status \in Queue!JobStatuses,
         NEW attempts \in Nat,
         \/ jobs' = [jobs EXCEPT ![i] = [[@ EXCEPT !.status = status] EXCEPT !.attempts = attempts]]
         \/ jobs' = [jobs EXCEPT ![i] = [@ EXCEPT !.status = status]]
  PROVE  OnlyRow(i) /\ jobs'[i].status = status
<1>1. jobs \in Seq(Queue!Job) /\ jobs[i] \in Queue!Job
  BY QueueFacts
<1> DEFINE first == [jobs[i] EXCEPT !.status = status]
           second == [first EXCEPT !.attempts = attempts]
<1>2. /\ first \in Queue!Job /\ first.status = status
      /\ first.payload = jobs[i].payload
  BY <1>1 DEF Queue!Job
<1>3. jobs' = [jobs EXCEPT ![i] = second] \/ jobs' = [jobs EXCEPT ![i] = first]
  OBVIOUS
<1> HIDE DEF first
<1>4. /\ second \in Queue!Job /\ second.status = status
      /\ second.payload = jobs[i].payload
  BY <1>2 DEF Queue!Job
<1> HIDE DEF second
<1> QED
  BY <1>1, <1>2, <1>3, <1>4 DEF OnlyRow, Queue!Ids

\* Taking a job: a queued row becomes the loop's.
LEMMA TakeEffect ==
  ASSUME QueueInv, NEW w \in Workers, Queue!NextQueuedJob(w)
  PROVE  /\ OnlyRow(worker'[w].job) /\ OnlyLoop(w) /\ faults' = faults
         /\ worker'[w].job \in Queue!Ids
         /\ jobs[worker'[w].job].status = "queued"
         /\ worker[w].pc = "poll" /\ worker'[w].pc = "run"
<1>1. PICK i \in Queue!Ids :
        /\ jobs[i].status = "queued"
        /\ jobs' = [jobs EXCEPT ![i] = Queue!Taken(@)]
        /\ worker' = [worker EXCEPT ![w] = Queue!Running(i, Queue!Taken(jobs[i]))]
  BY DEF Queue!NextQueuedJob, Queue!Queued
<1>2. jobs[i].attempts + 1 \in Nat
  BY QueueFacts DEF Queue!Job
<1>3. jobs' = [jobs EXCEPT ![i] = [[@ EXCEPT !.status = "running"]
                                      EXCEPT !.attempts = jobs[i].attempts + 1]]
  BY <1>1 DEF Queue!Taken
<1>4. OnlyRow(i) /\ jobs'[i].status = "running"
  BY <1>2, <1>3, StatusChange DEF Queue!JobStatuses
<1>5. OnlyLoop(w) /\ worker'[w].pc = "run" /\ worker'[w].job = i
  BY <1>1, QueueFacts DEF OnlyLoop, Queue!Running
<1> QED
  BY <1>1, <1>4, <1>5 DEF Queue!NextQueuedJob

\* Writing an outcome: after an error the job is queued again or given up.
LEMMA OutcomeEffect ==
  ASSUME QueueInv, NEW w \in Workers, Queue!FinishJob(w) \/ Queue!FailJob(w)
  PROVE  /\ OnlyRow(worker[w].job) /\ OnlyLoop(w)
         /\ worker[w].pc \in {"ok", "err"} /\ worker'[w].pc = "poll"
         /\ worker[w].pc = "err" => jobs'[worker[w].job].status \in {"queued", "failed"}
         /\ worker[w].job \in Queue!Ids
         /\ jobs[worker[w].job].status = "running"
         /\ faults' = faults
<1>1. worker[w].pc \in {"ok", "err"}
  BY DEF Queue!FinishJob, Queue!FailJob
<1>2. worker[w].job \in Queue!Ids /\ jobs[worker[w].job].status = "running"
  BY <1>1, QueueFacts
<1>3. PICK status \in {"done", "failed", "queued"} :
        /\ jobs' = [jobs EXCEPT ![worker[w].job] = [@ EXCEPT !.status = status]]
        /\ worker[w].pc = "err" => status # "done"
  BY DEF Queue!FinishJob, Queue!FailJob, Queue!WithStatus, Queue!FailStatus
<1>4. OnlyRow(worker[w].job) /\ jobs'[worker[w].job].status = status
  BY <1>2, <1>3, StatusChange DEF Queue!JobStatuses
<1>5. OnlyLoop(w) /\ worker'[w].pc = "poll"
  BY QueueFacts DEF OnlyLoop, Queue!FinishJob, Queue!FailJob, Queue!NotHolding
<1> QED
  BY <1>1, <1>2, <1>3, <1>4, <1>5 DEF Queue!FinishJob, Queue!FailJob

\* Going from a tick to the next one without a job.
LEMMA WaitEffect ==
  ASSUME QueueInv, NEW w \in Workers, Queue!Tick(w) \/ Queue!NoQueuedJob(w)
  PROVE  /\ jobs' = jobs /\ Queue!Ids' = Queue!Ids /\ faults' = faults /\ OnlyLoop(w)
         /\ worker[w].pc \in {"wait", "poll"} /\ worker'[w].pc \in {"wait", "poll"}
BY QueueFacts DEF Queue!Tick, Queue!NoQueuedJob, Queue!NotHolding, Queue!Ids, OnlyLoop,
                  Queue!LoopState

\* The job returns: its row is settled later.
LEMMA ReturnEffect ==
  ASSUME QueueInv, NEW w \in Workers, NEW ok \in BOOLEAN, Queue!RunJob(w, ok)
  PROVE  /\ jobs' = jobs /\ Queue!Ids' = Queue!Ids /\ faults' = faults /\ OnlyLoop(w)
         /\ worker[w].pc = "run" /\ worker'[w].job = worker[w].job
         /\ worker'[w].pc = IF ok THEN "ok" ELSE "err"
BY QueueFacts DEF Queue!RunJob, Queue!Ids, OnlyLoop, Queue!LoopState

\* A new job is the last row.
LEMMA CreateJobEffect ==
  ASSUME QueueInv, NEW payload \in [object : Nat, target : Targets],
         Queue!CreateJob(Queue!ReplicateObject, payload)
  PROVE  /\ Queue!Ids' = Queue!Ids \cup {Len(jobs) + 1} /\ Len(jobs) + 1 \notin Queue!Ids
         /\ \A i \in Queue!Ids : jobs'[i] = jobs[i]
         /\ jobs'[Len(jobs) + 1].payload = payload
         /\ jobs'[Len(jobs) + 1].status = "queued"
         /\ worker' = worker /\ faults' = faults
<1> DEFINE new == [type |-> Queue!ReplicateObject, payload |-> payload,
                   status |-> "queued", attempts |-> 0]
<1>1. /\ new \in Queue!Job /\ new.payload = payload /\ new.status = "queued"
  BY DEF Queue!Job, Queue!JobTypes, Queue!JobStatuses
<1>2. jobs' = Append(jobs, new) /\ worker' = worker /\ faults' = faults
  BY DEF Queue!CreateJob
<1> HIDE DEF new
<1>3. jobs \in Seq(Queue!Job)
  BY QueueFacts
<1> QED
  BY <1>1, <1>2, <1>3 DEF Queue!Ids

-----------------------------------------------------------------------------
(* What a step does to the processes.                                      *)

\* Only process p moves.
Moves(p) ==
  /\ proc' \in [Processes -> ProcState]
  /\ \A q \in Processes : q # p => proc'[q] = proc[q]

\* What p is there for stays the same.
SameTask(p) ==
  /\ proc'[p].op = proc[p].op /\ proc'[p].id = proc[p].id
  /\ proc'[p].seen = proc[p].seen /\ proc'[p].force = proc[p].force

SameTarget(p) == proc'[p].target = proc[p].target /\ proc'[p].content = proc[p].content

\* A process changes its place.
LEMMA GotoFields ==
  ASSUME ProcInv, NEW p \in Processes, NEW pc \in Pcs,
         proc' = [proc EXCEPT ![p].pc = pc]
  PROVE  /\ Moves(p) /\ SameTask(p) /\ SameTarget(p)
         /\ proc'[p].pc = pc /\ proc'[p].todo = proc[p].todo
         /\ proc'[p].status = proc[p].status /\ proc'[p].failed = proc[p].failed
<1>1. proc[p] \in ProcState
  BY DEF ProcInv
<1>2. PICK q : q = [proc[p] EXCEPT !.pc = pc]
  OBVIOUS
<1>3. q \in ProcState
  BY <1>1, <1>2 DEF ProcState
<1>4. /\ q.pc = pc /\ q.op = proc[p].op /\ q.id = proc[p].id
      /\ q.seen = proc[p].seen /\ q.force = proc[p].force
      /\ q.target = proc[p].target /\ q.content = proc[p].content
      /\ q.todo = proc[p].todo /\ q.status = proc[p].status /\ q.failed = proc[p].failed
  BY <1>1, <1>2 DEF ProcState
<1>5. proc' = [proc EXCEPT ![p] = q]
  BY <1>2 DEF ProcInv
<1> QED
  BY <1>3, <1>4, <1>5 DEF ProcInv, Moves, SameTask, SameTarget

\* A loop over targets goes on to the next.
LEMMA NextFields ==
  ASSUME ProcInv, NEW p \in Processes, NEW pc \in Pcs, NextTarget(p, pc)
  PROVE  /\ Moves(p) /\ SameTask(p) /\ SameTarget(p)
         /\ proc'[p].pc = pc /\ proc'[p].todo = Rest(p)
         /\ proc'[p].status = proc[p].status /\ proc'[p].failed = proc[p].failed
<1>1. proc[p] \in ProcState
  BY DEF ProcInv
<1>2. PICK q : q = [proc[p] EXCEPT !.pc = pc, !.todo = Rest(p)]
  OBVIOUS
<1>3. proc[p].todo \subseteq Targets
  BY <1>1 DEF ProcState
<1>4. Rest(p) \subseteq Targets
  BY <1>3 DEF Rest
<1>5. q \in ProcState
  BY <1>1, <1>2, <1>4 DEF ProcState
<1>6. /\ q.pc = pc /\ q.op = proc[p].op /\ q.id = proc[p].id
      /\ q.seen = proc[p].seen /\ q.force = proc[p].force
      /\ q.target = proc[p].target /\ q.content = proc[p].content
      /\ q.todo = Rest(p) /\ q.status = proc[p].status /\ q.failed = proc[p].failed
  BY <1>1, <1>2 DEF ProcState
<1>7. proc' = [proc EXCEPT ![p] = q]
  BY <1>2 DEF ProcInv, NextTarget
<1> QED
  BY <1>5, <1>6, <1>7 DEF ProcInv, Moves, SameTask, SameTarget

\* Nothing at all.
LEMMA IdleFields ==
  /\ Idle \in ProcState /\ Shape(Idle)
  /\ Idle.pc = "idle" /\ Idle.op = "none" /\ Idle.id = 0 /\ Idle.todo = {}
  /\ Idle.content = NoContent /\ ~Idle.failed /\ Idle.target = Primary
<1>1. Primary \in Targets /\ NoRow \in [Targets -> Statuses \cup {"none"}]
  BY DEF Targets, NoRow
<1>2. /\ Idle.pc = "idle" /\ Idle.op = "none" /\ Idle.id = 0 /\ Idle.todo = {}
      /\ Idle.content = NoContent /\ Idle.target = Primary
  BY DEF Idle
<1>3. ~Idle.failed
  BY DEF Idle
<1>4. Idle \in ProcState
  BY <1>1 DEF Idle, ProcState, Pcs
<1> QED
  BY <1>2, <1>3, <1>4 DEF Shape, At

\* A process is done.
LEMMA EndFields ==
  ASSUME ProcInv, NEW p \in Processes, End(p)
  PROVE  Moves(p) /\ proc'[p] = Idle
BY IdleFields DEF ProcInv, End, Moves

\* The fields of a process.
LEMMA ProcFields ==
  ASSUME ProcInv, NEW p \in Processes
  PROVE  /\ proc[p] \in ProcState /\ Shape(proc[p]) /\ At(proc[p].op, proc[p].pc)
         /\ proc[p].id \in Nat /\ proc[p].target \in Targets
         /\ proc[p].content \in Contents \cup {NoContent}
         /\ proc[p].todo \subseteq Targets /\ proc[p].failed \in BOOLEAN
         /\ proc[p].seen \in [Targets -> Statuses \cup {"none"}]
         /\ proc[p].pc \in Pcs
         /\ proc[p].id <= lastId
<1>1. proc[p] \in ProcState /\ Shape(proc[p]) /\ proc[p].id <= lastId
  BY DEF ProcInv
<1> QED
  BY <1>1 DEF ProcState, Shape

-----------------------------------------------------------------------------
(* What every step has to show of the layers.                              *)

\* No job goes away or becomes another's.
JobsKept ==
  /\ Queue!Ids \subseteq Queue!Ids'
  /\ \A i \in Queue!Ids : jobs'[i].payload = jobs[i].payload

\* A row that is there stays, as long as its object does, and ids are not reused.
RowsKept ==
  \/ /\ object'.id = object.id
     /\ \A t \in Targets : replica[t] # "none" => replica'[t] # "none"
  \/ object'.id = 0
  \/ object.id = 0 /\ object'.id = lastId + 1

\* Whatever has a row keeps it as long as its object is there.
LEMMA HasRowStays ==
  ASSUME RowsInv, RowsKept, NEW id \in Nat, id <= lastId, NEW t \in Targets, HasRow(id, t)
  PROVE  HasRow(id, t)'
BY DEF RowsInv, Row, RowsKept, HasRow, Exists

\* Requests are not loops.
LEMMA Disjoint ==
  ASSUME NEW r \in Requests
  PROVE  r \notin Workers /\ r \in Processes
BY WorkersAssumption DEF Processes

\* Processes and loops other than p are where they were.
LEMMA ProcStays ==
  ASSUME Inv, NEW p \in Processes, Moves(p), Shape(proc'[p]), proc'[p].id <= lastId',
         lastId' \in Nat, lastId <= lastId', JobsKept, OnlyLoop(p),
         p \in Requests => /\ proc'[p].op # "job"
                           /\ proc'[p].op = "upload" => ~acked'[p],
         \A r \in Requests : r # p => acked'[r] = acked[r],
         p \in Workers =>
           /\ proc'[p].op \in {"none", "job"}
           /\ proc'[p].op = "job" <=> worker'[p].pc = "run"
           /\ proc'[p].op = "job" =>
                jobs'[worker'[p].job].payload = [object |-> proc'[p].id,
                                                 target |-> proc'[p].target]
  PROVE  ProcInv'
<1>1. ASSUME NEW q \in Processes
      PROVE  Shape(proc'[q]) /\ proc'[q].id <= lastId'
  <2>1. Shape(proc[q]) /\ proc[q].id <= lastId /\ proc[q].id \in Nat /\ lastId \in Nat
    BY ProcFields DEF Inv, RowsInv
  <2> QED BY <2>1 DEF Moves
<1>2. ASSUME NEW r \in Requests
      PROVE  proc'[r].op # "job" /\ (proc'[r].op = "upload" => ~acked'[r])
  BY DEF Inv, ProcInv, Moves, Processes
<1>3. ASSUME NEW w \in Workers
      PROVE  /\ proc'[w].op \in {"none", "job"}
             /\ proc'[w].op = "job" <=> worker'[w].pc = "run"
             /\ proc'[w].op = "job" =>
                  jobs'[worker'[w].job].payload = [object |-> proc'[w].id,
                                                   target |-> proc'[w].target]
  <2>1. /\ proc[w].op \in {"none", "job"}
        /\ proc[w].op = "job" <=> worker[w].pc = "run"
        /\ proc[w].op = "job" =>
             jobs[worker[w].job].payload = [object |-> proc[w].id, target |-> proc[w].target]
    BY DEF Inv, ProcInv
  <2>2. proc[w].op = "job" => worker[w].job \in Queue!Ids
    BY <2>1, QueueFacts DEF Inv
  <2>3. CASE w = p
    BY <2>3
  <2>4. CASE w # p
    <3>1. proc'[w] = proc[w] /\ worker'[w] = worker[w]
      BY <2>4 DEF Moves, OnlyLoop, Processes
    <3> QED BY <2>1, <2>2, <3>1 DEF JobsKept
  <2> QED BY <2>3, <2>4
<1> QED BY <1>1, <1>2, <1>3 DEF ProcInv, Moves

\* Rows stay with the object, so what has one keeps it.
LEMMA RecordedStays ==
  ASSUME Inv, NEW p \in Processes, Moves(p), RowsKept, JobsKept, Recorded(p)',
         \A i \in Queue!Ids' : i \notin Queue!Ids =>
           HasRow(jobs[i].payload.object, jobs[i].payload.target)',
         object'.id # 0 /\ object'.primary # Primary => replica'[object'.primary] # "none"
  PROVE  RecordedInv'
<1>1. ASSUME NEW i \in Queue!Ids'
      PROVE  HasRow(jobs[i].payload.object, jobs[i].payload.target)'
  <2>1. CASE i \in Queue!Ids
    <3>1. /\ jobs[i].payload.object \in Nat /\ jobs[i].payload.target \in Targets
          /\ jobs[i].payload.object <= lastId
      BY <2>1, QueueFacts DEF Inv, RowsInv, Queue!Job
    <3>2. HasRow(jobs[i].payload.object, jobs[i].payload.target)
      BY <2>1 DEF Inv, RecordedInv
    <3>3. jobs'[i].payload = jobs[i].payload
      BY <2>1 DEF JobsKept
    <3> QED BY <3>1, <3>2, <3>3, HasRowStays DEF Inv, HasRow, Exists
  <2>2. CASE i \notin Queue!Ids
    BY <2>2
  <2> QED BY <2>1, <2>2
<1>2. ASSUME NEW q \in Processes, q # p
      PROVE  Recorded(q)'
  <2>1. proc'[q] = proc[q]
    BY <1>2 DEF Moves
  <2>2. /\ proc[q].id \in Nat /\ proc[q].id <= lastId /\ proc[q].target \in Targets
        /\ proc[q].todo \subseteq Targets
        /\ proc[q].pc = "repairQueue" => proc[q].todo # {}
    BY ProcFields DEF Inv, Shape
  <2>3. proc[q].pc = "repairQueue" => Current(q) \in Targets
    BY <2>2, FirstIsIn DEF Current
  <2>4. Current(q)' = Current(q)
    BY <2>1 DEF Current
  <2>5. Recorded(q)
    BY DEF Inv, RecordedInv
  <2>6. proc[q].pc \in CopyPcs \cup {"queue", "switch"} => HasRow(proc[q].id, proc[q].target)'
    BY <2>1, <2>2, <2>5, HasRowStays DEF Inv, Recorded, HasRow, Exists
  <2>7. proc[q].pc = "repairQueue" => HasRow(proc[q].id, Current(q))'
    BY <2>1, <2>2, <2>3, <2>4, <2>5, HasRowStays DEF Inv, Recorded, HasRow, Exists
  <2> QED BY <2>1, <2>6, <2>7 DEF Recorded
<1> QED BY <1>1, <1>2 DEF RecordedInv

\* What the others' part in a careful delete rests on.
LEMMA CoverStays ==
  ASSUME Inv, NEW p \in Processes, Moves(p),
         ~overlapped' =>
           /\ ~overlapped
           /\ Alone' /\ Careful(p)'
           /\ \A q \in Processes : q # p /\ Writing(q) =>
                /\ Exists(proc[q].id) => object'.id = object.id
                /\ replica[Primary] # "none" => replica'[Primary] # "none"
           /\ \A q \in Processes : q # p /\ Deleting(q) =>
                /\ object'.id \in {object.id, 0}
                /\ \A t \in Targets : /\ blob'[t] # NoContent => blob[t] # NoContent
                                      /\ Excused(t) => Excused(t)'
           /\ \A t \in Targets : blob'[t] # NoContent => (Covered(t) \/ Excused(t))'
           /\ object'.id # 0 => replica'[Primary] # "none" \/ ~AllAcked'
  PROVE  CoverInv'
<1> SUFFICES ASSUME ~overlapped'
             PROVE  \A q \in Processes : Careful(q)'
  BY DEF CoverInv
<1>1. ASSUME NEW q \in Processes, q # p
      PROVE  Careful(q)'
  <2>1. proc'[q] = proc[q]
    BY <1>1 DEF Moves
  <2>2. Careful(q)
    BY DEF Inv, CoverInv
  <2>3. proc[q].op = "upload" \/ proc[q].pc \in {"get", "copy", "markReady", "markFailed"} =>
          Writing(q)
    <3>1. At(proc[q].op, proc[q].pc)
      BY ProcFields DEF Inv
    <3> QED BY <3>1 DEF At, Writing, CopyPcs
  <2>4. Writing(q) /\ Exists(proc[q].id) => Exists(proc[q].id)'
    BY <1>1, <2>1 DEF Exists
  <2>5. Deleting(q) /\ Exists(proc[q].id)' => Exists(proc[q].id)
    BY <1>1, <2>1 DEF Exists
  <2>6. Deleting(q)' /\ Exists(proc[q].id)' /\ ~proc'[q].failed =>
          \A t \in Targets : blob'[t] # NoContent => t \in proc'[q].todo \/ Excused(t)'
    BY <1>1, <2>1, <2>2, <2>5 DEF Careful, Deleting
  <2> QED BY <1>1, <2>1, <2>2, <2>3, <2>4, <2>6 DEF Careful
<1> QED BY <1>1

\* A pending replica keeps whoever sees to it, unless that is p.
LEMMA PendingStays ==
  ASSUME Inv, NEW p \in Processes, Moves(p), OnlyLoop(p), JobsKept, policy' = policy,
         faults' = 0 /\ policy # "require_backups" =>
           /\ faults = 0
           /\ \A t \in Targets : replica'[t] = "pending" =>
                \/ /\ object'.id = object.id /\ replica[t] = "pending"
                   /\ ~Queueing(p, t)
                   /\ p \in Workers => ~Trying(p, t)
                   /\ \A i \in Queue!Ids :
                        jobs[i].payload = Payload(t) /\ jobs[i].status \in {"queued", "failed"} =>
                          jobs'[i].status \in {"queued", "failed"}
                \/ Attended(t)'
  PROVE  PendingInv'
<1> SUFFICES ASSUME faults' = 0, policy # "require_backups",
                    NEW t \in Targets, replica'[t] = "pending"
             PROVE  Attended(t)'
  BY DEF PendingInv
<1>1. CASE Attended(t)'
  BY <1>1
<1>2. CASE ~Attended(t)'
  <2>1. /\ object'.id = object.id /\ replica[t] = "pending"
        /\ ~Queueing(p, t)
        /\ p \in Workers => ~Trying(p, t)
        /\ \A i \in Queue!Ids :
             jobs[i].payload = Payload(t) /\ jobs[i].status \in {"queued", "failed"} =>
               jobs'[i].status \in {"queued", "failed"}
    BY <1>2
  <2>2. Attended(t)
    BY <2>1 DEF Inv, PendingInv
  <2>3. Payload(t)' = Payload(t)
    BY <2>1 DEF Payload
  <2>4. CASE JobAt(t, {"queued", "failed"})
    <3>1. JobAt(t, {"queued", "failed"})'
      BY <2>1, <2>3, <2>4 DEF JobAt, JobsKept
    <3> QED BY <3>1 DEF Attended
  <2>5. CASE \E w \in Workers : Trying(w, t)
    <3>1. PICK w \in Workers : Trying(w, t)
      BY <2>5
    <3>2. w # p /\ worker'[w] = worker[w]
      BY <2>1, <3>1 DEF OnlyLoop
    <3>3. worker[w].job \in Queue!Ids
      BY <3>1, QueueFacts DEF Inv, Trying
    <3>4. Trying(w, t)'
      BY <2>3, <3>1, <3>2, <3>3 DEF Trying, JobsKept
    <3> QED BY <3>4 DEF Attended
  <2>6. CASE \E r \in Requests : Queueing(r, t)
    <3>1. PICK r \in Requests : Queueing(r, t)
      BY <2>6
    <3>2. r # p /\ proc'[r] = proc[r]
      BY <2>1, <3>1 DEF Moves, Processes
    <3>3. Queueing(r, t)'
      BY <2>1, <3>1, <3>2 DEF Queueing, Current
    <3> QED BY <3>3 DEF Attended
  <2> QED BY <2>2, <2>4, <2>5, <2>6 DEF Attended
<1> QED BY <1>1, <1>2

\* Blobs do not go away, and rows are marked ready where there is one.
LEMMA BackedStays ==
  ASSUME Inv, NEW p \in Processes, Moves(p),
         NoDeletes =>
           /\ Backed(p)'
           /\ \A t \in Targets : blob[t] # NoContent => blob'[t] # NoContent
           /\ \A t \in Targets : replica'[t] = "ready" =>
                replica[t] = "ready" \/ blob'[t] # NoContent
  PROVE  BackedInv'
<1> SUFFICES ASSUME NoDeletes
             PROVE  (\A q \in Processes : Backed(q)') /\ ReadyIsBacked'
  BY DEF BackedInv, NoDeletes
<1>1. (\A q \in Processes : Backed(q)) /\ ReadyIsBacked
  BY DEF Inv, BackedInv
<1>2. ASSUME NEW q \in Processes, q # p
      PROVE  Backed(q)'
  <2>1. proc'[q] = proc[q]
    BY <1>2 DEF Moves
  <2>2. Current(q)' = Current(q)
    BY <2>1 DEF Current
  <2>3. /\ proc[q].target \in Targets /\ Primary \in Targets /\ proc[q].todo \subseteq Targets
        /\ proc[q].pc = "statMark" => proc[q].todo # {}
    BY ProcFields DEF Inv, Shape, Targets
  <2>4. proc[q].pc = "statMark" => Current(q) \in Targets
    BY <2>3, FirstIsIn DEF Current
  <2> QED BY <1>1, <2>1, <2>2, <2>3, <2>4 DEF Backed, Deleting
<1>3. ReadyIsBacked'
  BY <1>1 DEF ReadyIsBacked
<1> QED BY <1>2, <1>3

-----------------------------------------------------------------------------
(* Steps that leave the object's row alone.                                *)

\* Process p moves, and if it is a loop it goes on with its job or returns; the
\* only jobs that are new are about rows that exist; no row goes away.
Ordinary(p) ==
  /\ Moves(p) /\ Shape(proc'[p]) /\ proc'[p].id <= lastId
  /\ \/ proc'[p].op = proc[p].op
     \/ proc'[p].op \in {"none", "refresh", "repair", "switch"}
  /\ QueueInv' /\ JobsKept /\ OnlyLoop(p)
  /\ \A i \in Queue!Ids' : i \notin Queue!Ids =>
       /\ jobs'[i].payload.object <= lastId
       /\ HasRow(jobs[i].payload.object, jobs[i].payload.target)'
  /\ p \in Workers =>
       /\ proc'[p].op = "none" <=> worker'[p].pc # "run"
       /\ proc'[p].op # "none" => /\ SameTask(p) /\ worker'[p].job = worker[p].job
                                  /\ proc'[p].target = proc[p].target
  /\ UNCHANGED <<object, lastId, acked, overlapped, policy>>
  /\ replica' \in [Targets -> Statuses \cup {"none"}]
  /\ \A t \in Targets : replica[t] # "none" => replica'[t] # "none"
  /\ object.id = 0 => replica' = replica
  /\ blob' \in [Targets -> Contents \cup {NoContent}]

\* An ordinary step keeps what is known of the processes, the rows and the blobs.
LEMMA OrdinaryProc ==
  ASSUME Inv, NEW p \in Processes, Ordinary(p)
  PROVE  ProcInv' /\ RowsInv'
<1>1. \A q \in Processes : Shape(proc'[q]) /\ proc'[q].id <= lastId
  BY DEF Inv, ProcInv, Ordinary, Moves
<1>2. \A r \in Requests : proc'[r].op # "job" /\ (proc'[r].op = "upload" => ~acked'[r])
  BY DEF Inv, ProcInv, Ordinary, Moves, Processes
<1>3. ASSUME NEW w \in Workers
      PROVE  /\ proc'[w].op \in {"none", "job"}
             /\ proc'[w].op = "job" <=> worker'[w].pc = "run"
             /\ proc'[w].op = "job" =>
                  jobs'[worker'[w].job].payload = [object |-> proc'[w].id,
                                                   target |-> proc'[w].target]
  <2>1. /\ proc[w].op \in {"none", "job"}
        /\ proc[w].op = "job" <=> worker[w].pc = "run"
        /\ proc[w].op = "job" =>
             jobs[worker[w].job].payload = [object |-> proc[w].id, target |-> proc[w].target]
    BY DEF Inv, ProcInv
  <2>2. proc[w].op = "job" => worker[w].job \in Queue!Ids
    BY <2>1, QueueFacts DEF Inv
  <2>3. CASE w = p
    <3>1. /\ proc'[p].op = "none" <=> worker'[p].pc # "run"
          /\ proc'[p].op # "none" => /\ SameTask(p) /\ worker'[p].job = worker[p].job
                                     /\ proc'[p].target = proc[p].target
          /\ JobsKept
      BY <2>3 DEF Ordinary
    <3> QED BY <2>1, <2>2, <2>3, <3>1 DEF SameTask, JobsKept
  <2>4. CASE w # p
    <3>1. proc'[w] = proc[w] /\ worker'[w] = worker[w] /\ JobsKept
      BY <2>4 DEF Ordinary, Moves, OnlyLoop, Processes
    <3> QED BY <2>1, <2>2, <3>1 DEF JobsKept
  <2> QED BY <2>3, <2>4
<1>4. ProcInv'
  BY <1>1, <1>2, <1>3 DEF ProcInv, Ordinary, Moves
<1>5. RowsInv'
  <2>1. \A i \in Queue!Ids' : jobs'[i].payload.object <= lastId
    BY DEF Inv, RowsInv, Ordinary, JobsKept
  <2> QED BY <2>1 DEF Inv, RowsInv, Ordinary
<1> QED BY <1>4, <1>5

\* What p itself has to see to is a row for what it is about to copy.
LEMMA OrdinaryRecorded ==
  ASSUME Inv, NEW p \in Processes, Ordinary(p), Recorded(p)'
  PROVE  RecordedInv'
<1>1. RowsKept
  BY DEF Ordinary, RowsKept
<1>2. object'.id # 0 /\ object'.primary # Primary => replica'[object'.primary] # "none"
  <2>1. object.primary \in Targets
    BY DEF Inv, RowsInv, Row
  <2> QED BY <2>1 DEF Inv, RecordedInv, Ordinary
<1> QED BY <1>1, <1>2, RecordedStays DEF Ordinary

\* Blobs may come only by processes that write, and where a delete will look.
LEMMA OrdinaryCover ==
  ASSUME Inv, NEW p \in Processes, Ordinary(p),
         ~overlapped => Careful(p)',
         \A t \in Targets : blob'[t] # NoContent /\ ~overlapped =>
           blob[t] # NoContent \/ (Writing(p) /\ (Covered(t) \/ Excused(t)))
  PROVE  CoverInv'
<1> SUFFICES ASSUME ~overlapped
             PROVE  /\ Alone'
                    /\ \A q \in Processes : Careful(q)'
                    /\ \A t \in Targets : blob'[t] # NoContent => (Covered(t) \/ Excused(t))'
                    /\ object'.id # 0 => replica'[Primary] # "none" \/ ~AllAcked'
  BY DEF Ordinary, CoverInv
<1>1. /\ Alone
      /\ \A q \in Processes : Careful(q)
      /\ \A t \in Targets : blob[t] # NoContent => Covered(t) \/ Excused(t)
      /\ object.id # 0 => replica[Primary] # "none" \/ ~AllAcked
  BY DEF Inv, CoverInv
<1>2. /\ object' = object /\ AllAcked' = AllAcked /\ Moves(p)
      /\ \A t \in Targets : replica[t] # "none" => replica'[t] # "none"
      /\ Primary \in Targets
  BY DEF Ordinary, AllAcked, Targets
<1>3. \A t \in Targets : /\ Excused(t)' = Excused(t)
                         /\ Covered(t) => Covered(t)'
  BY <1>2 DEF Excused, Covered, DeleteTargets, Rows
<1>4. \A q \in Processes : (Deleting(q)' => Deleting(q)) /\ (Writing(q)' => Writing(q))
  BY <1>2 DEF Ordinary, Moves, Deleting, Writing
<1>5. Alone'
  BY <1>1, <1>4 DEF Alone
<1>6. ASSUME NEW q \in Processes, q # p
      PROVE  Careful(q)'
  <2>1. proc'[q] = proc[q]
    BY <1>2, <1>6 DEF Moves
  <2>2. Careful(q)
    BY <1>1
  <2>3. Exists(proc[q].id)' = Exists(proc[q].id)
    BY <1>2, <2>1 DEF Exists
  <2>4. Deleting(q) => \A t \in Targets : blob'[t] # NoContent => blob[t] # NoContent
    BY <1>1 DEF Alone
  <2>5. Deleting(q)' /\ Exists(proc[q].id)' /\ ~proc'[q].failed =>
          \A t \in Targets : blob'[t] # NoContent => t \in proc'[q].todo \/ Excused(t)'
    BY <1>3, <2>1, <2>2, <2>3, <2>4 DEF Careful, Deleting
  <2> QED BY <1>2, <2>1, <2>2, <2>3, <2>5 DEF Careful
<1>7. \A t \in Targets : blob'[t] # NoContent => (Covered(t) \/ Excused(t))'
  BY <1>1, <1>3
<1> QED BY <1>1, <1>2, <1>5, <1>6, <1>7

\* A replica that was pending keeps whoever sees to it, unless that is p.
LEMMA OrdinaryPending ==
  ASSUME Inv, NEW p \in Processes, Ordinary(p),
         faults' = 0 /\ policy # "require_backups" =>
           /\ faults = 0
           /\ \A i \in Queue!Ids : jobs'[i] = jobs[i]
           /\ \A t \in Targets : replica'[t] = "pending" =>
                \/ /\ replica[t] = "pending"
                   /\ ~Queueing(p, t)
                   /\ p \in Workers => ~Trying(p, t)
                \/ Attended(t)'
  PROVE  PendingInv'
BY PendingStays DEF Ordinary

\* Blobs do not go away, and rows are marked ready where there is one.
LEMMA OrdinaryBacked ==
  ASSUME Inv, NEW p \in Processes, Ordinary(p),
         NoDeletes =>
           /\ Backed(p)'
           /\ \A t \in Targets : blob[t] # NoContent => blob'[t] # NoContent
           /\ \A t \in Targets : replica'[t] = "ready" =>
                replica[t] = "ready" \/ blob'[t] # NoContent
  PROVE  BackedInv'
BY BackedStays DEF Ordinary

\* The layers together.
LEMMA OrdinaryInv ==
  ASSUME Inv, NEW p \in Processes, Ordinary(p),
         RecordedInv', CoverInv', PendingInv', BackedInv'
  PROVE  Inv'
BY OrdinaryProc DEF Inv, Ordinary

-----------------------------------------------------------------------------
(* Requests that only look, and endings.                                   *)

\* What it is for the queue to be left alone.
LEMMA QuietQueue ==
  ASSUME Inv, UNCHANGED queueVars
  PROVE  /\ QueueInv' /\ JobsKept /\ Queue!Ids' = Queue!Ids
         /\ jobs' = jobs /\ worker' = worker /\ faults' = faults
         /\ \A p \in Processes : OnlyLoop(p)
<1>1. QueueInv'
  BY StutterKeepsQueueInv DEF Inv
<1>2. jobs' = jobs /\ worker' = worker /\ faults' = faults
  BY DEF queueVars
<1>3. Queue!Ids' = Queue!Ids
  BY <1>2 DEF Queue!Ids
<1> QED BY <1>1, <1>2, <1>3 DEF JobsKept, OnlyLoop

\* A request that moves, while the queue stays as it is.
LEMMA RequestIsOrdinary ==
  ASSUME Inv, NEW r \in Requests, Moves(r), Shape(proc'[r]), proc'[r].id <= lastId,
         \/ proc'[r].op = proc[r].op
         \/ proc'[r].op \in {"none", "refresh", "repair", "switch"},
         jobs' = jobs, worker' = worker, QueueInv',
         UNCHANGED <<object, lastId, acked, overlapped, policy>>,
         replica' \in [Targets -> Statuses \cup {"none"}],
         \A t \in Targets : replica[t] # "none" => replica'[t] # "none",
         object.id = 0 => replica' = replica,
         blob' \in [Targets -> Contents \cup {NoContent}]
  PROVE  Ordinary(r)
<1>1. Queue!Ids' = Queue!Ids
  BY DEF Queue!Ids
<1>2. r \notin Workers
  BY Disjoint
<1> QED BY <1>1, <1>2 DEF Ordinary, JobsKept, OnlyLoop

\* A request that writes nothing, and is not going to copy or to delete.
LEMMA StillInv ==
  ASSUME Inv, NEW r \in Requests, Moves(r), Shape(proc'[r]), proc'[r].id <= lastId,
         proc'[r].op \in {"none", "refresh", "repair", "switch"},
         proc'[r].pc \notin {"repairQueue"},
         proc'[r].pc = "switch" => HasRow(proc'[r].id, proc'[r].target),
         proc'[r].pc = "statMark" /\ proc'[r].status = "ready"
           => blob[Current(r)'] # NoContent,
         jobs' = jobs, worker' = worker, QueueInv',
         \/ faults' = faults /\ proc[r].pc \notin {"queue", "repairQueue"}
         \/ faults' # 0,
         UNCHANGED <<rowVars, blob, acked, overlapped, policy>>
  PROVE  Inv'
<1>0. /\ object' = object /\ lastId' = lastId /\ replica' = replica /\ blob' = blob
      /\ r \in Processes /\ r \notin Workers
  BY Disjoint DEF rowVars
<1>1. Ordinary(r)
  BY <1>0, RequestIsOrdinary DEF Inv, RowsInv
<1>2. /\ proc'[r].pc \notin CopyPcs \cup {"queue", "save", "mark"}
      /\ ~Deleting(r)' /\ ~Writing(r)'
  BY DEF Shape, At, CopyPcs, Deleting, Writing
<1>3. Recorded(r)'
  BY <1>0, <1>2 DEF Recorded, HasRow, Exists
<1>4. Careful(r)'
  BY <1>2 DEF Careful, CopyPcs, Writing
<1>5. Backed(r)'
  BY <1>0, <1>2 DEF Backed, CopyPcs, Writing
<1>6. RecordedInv'
  BY <1>0, <1>1, <1>3, OrdinaryRecorded
<1>7. CoverInv'
  BY <1>0, <1>1, <1>4, OrdinaryCover
<1>8. PendingInv'
  BY <1>0, <1>1, OrdinaryPending DEF Queueing
<1>9. BackedInv'
  BY <1>0, <1>1, <1>5, OrdinaryBacked
<1> QED BY <1>0, <1>1, <1>6, <1>7, <1>8, <1>9, OrdinaryInv

\* A request that answers, or is cut off, gives up only what it was about to queue.
LEMMA EndInv ==
  ASSUME Inv, NEW r \in Requests, End(r), jobs' = jobs, worker' = worker, QueueInv',
         \/ faults' = faults /\ proc[r].pc \notin {"queue", "repairQueue"}
         \/ faults' # 0,
         UNCHANGED <<rowVars, blob, acked, overlapped, policy>>
  PROVE  Inv'
<1>1. Moves(r) /\ proc'[r] = Idle
  BY EndFields, Disjoint DEF Inv
<1>2. lastId \in Nat
  BY DEF Inv, RowsInv
<1> QED BY <1>1, <1>2, IdleFields, StillInv

\* A refresh or a repair that has passed its last target.
LEMMA AnswerInv ==
  ASSUME Inv, NEW r \in Requests, Answer(r)
  PROVE  Inv'
BY QuietQueue, EndInv DEF Answer, historyVars

\* A client that goes away.
LEMMA CancelInv ==
  ASSUME Inv, NEW r \in Requests, Cancel(r)
  PROVE  Inv'
<1>1. faults \in Nat
  BY QueueFacts DEF Inv
<1>2. QueueInv' /\ faults' # 0
  BY <1>1, FaultKeepsQueueInv DEF Inv, Cancel
<1> QED BY <1>2, EndInv DEF Cancel, historyVars

\* A request on an idle slot: what it becomes.
LEMMA StartFields ==
  ASSUME Inv, NEW r \in Requests, NEW kind, Start(r, kind)
  PROVE  /\ proc[r] = Idle /\ r \in Processes /\ r \notin Workers
         /\ kind \in Kinds[r] /\ policy' = policy
         /\ replica \in [Targets -> Statuses \cup {"none"}]
         /\ object.id \in Nat /\ object.primary \in Targets
BY Disjoint DEF Start, Inv, RowsInv, Row

\* What the loops over targets are given is made of targets.
LEMMA RowsAreTargets ==
  ASSUME Inv
  PROVE  /\ Rows \subseteq Targets /\ RepairTargets \subseteq Targets
         /\ DeleteTargets \subseteq Targets
BY DEF Inv, RowsInv, Row, Rows, RepairTargets, DeleteTargets, Targets

\* A refresh reads the replicas and sets out.
LEMMA StartRefreshInv ==
  ASSUME Inv, NEW r \in Requests, StartRefresh(r)
  PROVE  Inv'
<1>1. /\ proc[r] = Idle /\ r \in Processes /\ policy' = policy
      /\ replica \in [Targets -> Statuses \cup {"none"}] /\ object.id \in Nat
  BY StartFields DEF StartRefresh
<1>2. PICK S \in SUBSET Targets :
        proc' = [proc EXCEPT ![r] = [@ EXCEPT
          !.pc = "stat", !.op = "refresh", !.id = object.id, !.seen = replica, !.todo = S]]
  BY RowsAreTargets DEF StartRefresh
<1>3. PICK q : q = [Idle EXCEPT !.pc = "stat", !.op = "refresh", !.id = object.id,
                                !.seen = replica, !.todo = S]
  OBVIOUS
<1>4. /\ q \in ProcState
      /\ q.pc = "stat" /\ q.op = "refresh" /\ q.id = object.id
  BY <1>1, <1>3, IdleFields DEF ProcState, Pcs
<1>5. Moves(r) /\ proc'[r] = q
  BY <1>1, <1>2, <1>3, <1>4 DEF Inv, ProcInv, Moves
<1>6. Shape(q) /\ q.id <= lastId
  BY <1>4 DEF Shape, At, Inv, RowsInv
<1>7. proc[r].pc = "idle"
  BY <1>1, IdleFields
<1> QED BY <1>4, <1>5, <1>6, <1>7, QuietQueue, StillInv, <1>1 DEF StartRefresh

\* A repair reads the replicas and sets out.
LEMMA StartRepairInv ==
  ASSUME Inv, NEW r \in Requests, NEW force \in BOOLEAN, StartRepair(r, force)
  PROVE  Inv'
<1>1. /\ proc[r] = Idle /\ r \in Processes /\ policy' = policy
      /\ replica \in [Targets -> Statuses \cup {"none"}] /\ object.id \in Nat
  BY StartFields DEF StartRepair
<1>2. PICK S \in SUBSET Targets :
        proc' = [proc EXCEPT ![r] = [@ EXCEPT
          !.pc = "repair", !.op = "repair", !.id = object.id, !.seen = replica,
          !.todo = S, !.force = force]]
  BY RowsAreTargets DEF StartRepair
<1>3. PICK q : q = [Idle EXCEPT !.pc = "repair", !.op = "repair", !.id = object.id,
                                !.seen = replica, !.todo = S, !.force = force]
  OBVIOUS
<1>4. /\ q \in ProcState
      /\ q.pc = "repair" /\ q.op = "repair" /\ q.id = object.id
  BY <1>1, <1>3, IdleFields DEF ProcState, Pcs
<1>5. Moves(r) /\ proc'[r] = q
  BY <1>1, <1>2, <1>3, <1>4 DEF Inv, ProcInv, Moves
<1>6. Shape(q) /\ q.id <= lastId
  BY <1>4 DEF Shape, At, Inv, RowsInv
<1>7. proc[r].pc = "idle"
  BY <1>1, IdleFields
<1> QED BY <1>4, <1>5, <1>6, <1>7, QuietQueue, StillInv, <1>1 DEF StartRepair

\* A switch has seen a replica that is ready, so there is a row.
LEMMA StartSwitchInv ==
  ASSUME Inv, NEW r \in Requests, NEW t \in Targets, StartSwitch(r, t)
  PROVE  Inv'
<1>1. /\ proc[r] = Idle /\ r \in Processes /\ policy' = policy /\ object.id \in Nat
  BY StartFields DEF StartSwitch
<1>2. PICK q : q = [Idle EXCEPT !.pc = "switch", !.op = "switch", !.id = object.id,
                                !.target = t]
  OBVIOUS
<1>3. /\ q \in ProcState
      /\ q.pc = "switch" /\ q.op = "switch" /\ q.id = object.id /\ q.target = t
  BY <1>1, <1>2, IdleFields DEF ProcState, Pcs
<1>4. Moves(r) /\ proc'[r] = q
  BY <1>1, <1>2, <1>3 DEF Inv, ProcInv, Moves, StartSwitch
<1>5. Shape(q) /\ q.id <= lastId
  BY <1>3 DEF Shape, At, Inv, RowsInv
<1>6. proc[r].pc = "idle"
  BY <1>1, IdleFields
<1>7. HasRow(q.id, q.target)
  BY <1>3 DEF StartSwitch, HasRow
<1> QED BY <1>3, <1>4, <1>5, <1>6, <1>7, QuietQueue, StillInv, <1>1 DEF StartSwitch

\* A refresh and a repair pass a target over.
LEMMA SkipInv ==
  ASSUME Inv, NEW r \in Requests, SkipRefresh(r) \/ SkipRepair(r)
  PROVE  Inv'
<1>1. PICK pc \in {"stat", "repair"} : proc[r].pc = pc /\ NextTarget(r, pc)
  BY DEF SkipRefresh, SkipRepair, AtTarget
<1>2. /\ Moves(r) /\ SameTask(r) /\ proc'[r].pc = pc
      /\ r \in Processes
  BY <1>1, NextFields, Disjoint DEF Inv, Pcs
<1>3. Shape(proc[r]) /\ proc[r].id <= lastId
  BY <1>2, ProcFields DEF Inv
<1>4. proc'[r].op \in {"refresh", "repair"} /\ proc'[r].op = proc[r].op
  BY <1>1, <1>2, <1>3 DEF Shape, At, SameTask, CopyPcs
<1>5. Shape(proc'[r]) /\ proc'[r].id <= lastId
  BY <1>1, <1>2, <1>3, <1>4 DEF Shape, At, SameTask, Moves
<1>6. UNCHANGED <<queueVars, rowVars, blob, acked, overlapped, policy>>
  BY DEF SkipRefresh, SkipRepair, historyVars
<1> QED BY <1>1, <1>2, <1>4, <1>5, <1>6, QuietQueue, StillInv

\* What Stat found is to be written next; "ready" only where there is a blob.
LEMMA StatReplicaInv ==
  ASSUME Inv, NEW r \in Requests, StatReplica(r)
  PROVE  Inv'
<1>0. r \in Processes
  BY Disjoint
<1>1. PICK status \in Marks :
        /\ status = "ready" => blob[Current(r)] # NoContent
        /\ proc' = [proc EXCEPT ![r] = [@ EXCEPT !.pc = "statMark", !.status = status]]
  BY DEF StatReplica, StatOutcomes, Marks
<1>2. Shape(proc[r]) /\ proc[r].id <= lastId /\ proc[r].pc = "stat" /\ proc[r].todo # {}
  BY <1>0, ProcFields DEF Inv, StatReplica, AtTarget
<1>3. PICK q : q = [proc[r] EXCEPT !.pc = "statMark", !.status = status]
  OBVIOUS
<1>4. /\ q \in ProcState
      /\ q.pc = "statMark" /\ q.op = proc[r].op /\ q.id = proc[r].id
      /\ q.status = status /\ q.todo = proc[r].todo
  BY <1>2, <1>3 DEF Shape, ProcState, Pcs
<1>5. Moves(r) /\ proc'[r] = q
  BY <1>0, <1>1, <1>3, <1>4 DEF Inv, ProcInv, Moves
<1>6. q.op = "refresh"
  BY <1>2, <1>4 DEF Shape, At, CopyPcs
<1>7. Shape(q) /\ q.id <= lastId
  BY <1>2, <1>4, <1>6 DEF Shape, At
<1>8. Current(r)' = Current(r)
  BY <1>4, <1>5 DEF Current
<1> QED BY <1>1, <1>2, <1>4, <1>5, <1>6, <1>7, <1>8, QuietQueue, StillInv
        DEF StatReplica, historyVars

-----------------------------------------------------------------------------
(* Requests that write rows.                                               *)

\* A row is written as long as its object is there.
LEMMA UpsertEffect ==
  ASSUME Inv, NEW id \in Nat, NEW t \in Targets, NEW status \in Statuses,
         Upsert(id, t, status)
  PROVE  /\ object' = object /\ lastId' = lastId
         /\ replica' \in [Targets -> Statuses \cup {"none"}]
         /\ \A u \in Targets : replica[u] # "none" => replica'[u] # "none"
         /\ \A u \in Targets : u # t => replica'[u] = replica[u]
         /\ object.id = 0 => replica' = replica
         /\ IF Exists(id) THEN replica'[t] = status ELSE replica' = replica
<1>1. /\ replica \in [Targets -> Statuses \cup {"none"}] /\ status # "none"
      /\ object' = object /\ lastId' = lastId
  BY DEF Inv, RowsInv, Upsert, Statuses
<1>2. CASE Exists(id)
  <2>1. replica' = [replica EXCEPT ![t] = status]
    BY <1>2 DEF Upsert
  <2> QED BY <1>1, <1>2, <2>1 DEF Exists
<1>3. CASE ~Exists(id)
  <2>1. replica' = replica
    BY <1>3 DEF Upsert
  <2> QED BY <1>1, <1>3, <2>1 DEF Exists
<1> QED BY <1>2, <1>3

\* What the loop over targets is at, and what comes after.
LEMMA CurrentIsTarget ==
  ASSUME Inv, NEW p \in Processes, proc[p].todo # {}
  PROVE  Current(p) \in Targets /\ Current(p) \in proc[p].todo
BY ProcFields, FirstIsIn DEF Inv, Current

\* A refresh writes what it found.
LEMMA MarkStatInv ==
  ASSUME Inv, NEW r \in Requests, MarkStat(r)
  PROVE  Inv'
<1>1. /\ r \in Processes /\ r \notin Workers
      /\ proc[r].pc = "statMark" /\ proc[r].todo # {}
      /\ Upsert(proc[r].id, Current(r), proc[r].status) /\ NextTarget(r, "stat")
  BY Disjoint DEF MarkStat, AtTarget
<1>2. /\ Shape(proc[r]) /\ proc[r].id <= lastId /\ proc[r].id \in Nat
      /\ proc[r].status \in Marks /\ proc[r].op = "refresh"
  <2>1. Shape(proc[r]) /\ proc[r].id <= lastId /\ proc[r].id \in Nat
    BY <1>1, ProcFields DEF Inv
  <2> QED BY <1>1, <2>1 DEF Shape, At, CopyPcs
<1>3. Current(r) \in Targets
  BY <1>1, CurrentIsTarget
<1>4. /\ object' = object /\ lastId' = lastId
      /\ replica' \in [Targets -> Statuses \cup {"none"}]
      /\ \A u \in Targets : replica[u] # "none" => replica'[u] # "none"
      /\ \A u \in Targets : u # Current(r) => replica'[u] = replica[u]
      /\ object.id = 0 => replica' = replica
      /\ IF Exists(proc[r].id) THEN replica'[Current(r)] = proc[r].status
                               ELSE replica' = replica
  <2>1. proc[r].status \in Statuses
    BY <1>2 DEF Marks, Statuses
  <2> QED BY <1>1, <1>2, <1>3, <2>1, UpsertEffect
<1>5. Moves(r) /\ SameTask(r) /\ proc'[r].pc = "stat"
  BY <1>1, NextFields DEF Inv, Pcs
<1>6. Shape(proc'[r]) /\ proc'[r].id <= lastId /\ proc'[r].op = "refresh"
  BY <1>1, <1>2, <1>5 DEF Shape, At, SameTask, Moves
<1>7. /\ UNCHANGED <<queueVars, blob, acked, overlapped, policy>>
  BY DEF MarkStat, historyVars
<1>8. Ordinary(r)
  BY <1>4, <1>5, <1>6, <1>7, RequestIsOrdinary, QuietQueue DEF Inv, RowsInv
<1>9. RecordedInv'
  BY <1>1, <1>5, <1>8, OrdinaryRecorded DEF Recorded, CopyPcs
<1>10. CoverInv'
  <2>1. Careful(r)'
    BY <1>5, <1>6 DEF Careful, Deleting
  <2> QED BY <1>1, <1>7, <1>8, <2>1, OrdinaryCover
<1>11. PendingInv'
  <2>1. \A t \in Targets : replica'[t] = "pending" => replica[t] = "pending"
    BY <1>2, <1>4 DEF Marks
  <2>2. jobs' = jobs /\ faults' = faults
    BY <1>7 DEF queueVars
  <2> QED BY <1>1, <1>8, <2>1, <2>2, OrdinaryPending DEF Queueing
<1>12. BackedInv'
  <2>1. Backed(r)'
    BY <1>5, <1>6 DEF Backed, Deleting
  <2>2. NoDeletes => \A t \in Targets : replica'[t] = "ready" =>
                       replica[t] = "ready" \/ blob'[t] # NoContent
    <3>1. NoDeletes => Backed(r)
      BY <1>1 DEF Inv, BackedInv
    <3> QED BY <1>1, <1>4, <1>7, <3>1 DEF Backed
  <2> QED BY <1>1, <1>7, <1>8, <2>1, <2>2, OrdinaryBacked
<1> QED BY <1>1, <1>8, <1>9, <1>10, <1>11, <1>12, OrdinaryInv

\* A repair marks a replica pending: from here on it is the one who sees to it.
LEMMA MarkRepairInv ==
  ASSUME Inv, NEW r \in Requests, MarkRepair(r)
  PROVE  Inv'
<1>1. /\ r \in Processes /\ r \notin Workers
      /\ proc[r].pc = "repair" /\ proc[r].todo # {}
      /\ Upsert(proc[r].id, Current(r), "pending")
      /\ IF Exists(proc[r].id) THEN Goto(r, "repairQueue") ELSE NextTarget(r, "repair")
  BY Disjoint DEF MarkRepair, AtTarget
<1>2. /\ Shape(proc[r]) /\ proc[r].id <= lastId /\ proc[r].id \in Nat
      /\ proc[r].op = "repair"
  <2>1. Shape(proc[r]) /\ proc[r].id <= lastId /\ proc[r].id \in Nat
    BY <1>1, ProcFields DEF Inv
  <2> QED BY <1>1, <2>1 DEF Shape, At, CopyPcs
<1>3. Current(r) \in Targets
  BY <1>1, CurrentIsTarget
<1>4. /\ object' = object /\ lastId' = lastId
      /\ replica' \in [Targets -> Statuses \cup {"none"}]
      /\ \A u \in Targets : replica[u] # "none" => replica'[u] # "none"
      /\ \A u \in Targets : u # Current(r) => replica'[u] = replica[u]
      /\ object.id = 0 => replica' = replica
      /\ IF Exists(proc[r].id) THEN replica'[Current(r)] = "pending" ELSE replica' = replica
  <2>1. "pending" \in Statuses
    BY DEF Statuses
  <2> QED BY <1>1, <1>2, <1>3, <2>1, UpsertEffect
<1>5. /\ Moves(r) /\ SameTask(r)
      /\ IF Exists(proc[r].id)
         THEN proc'[r].pc = "repairQueue" /\ proc'[r].todo = proc[r].todo
         ELSE proc'[r].pc = "repair"
  <2>1. CASE Exists(proc[r].id)
    BY <1>1, <2>1, GotoFields DEF Inv, Pcs, Goto
  <2>2. CASE ~Exists(proc[r].id)
    BY <1>1, <2>2, NextFields DEF Inv, Pcs
  <2> QED BY <2>1, <2>2
<1>6. Shape(proc'[r]) /\ proc'[r].id <= lastId /\ proc'[r].op = "repair"
  BY <1>1, <1>2, <1>5 DEF Shape, At, SameTask, Moves
<1>7. /\ UNCHANGED <<queueVars, blob, acked, overlapped, policy>>
  BY DEF MarkRepair, historyVars
<1>8. Ordinary(r)
  BY <1>4, <1>5, <1>6, <1>7, RequestIsOrdinary, QuietQueue DEF Inv, RowsInv
<1>9. RecordedInv'
  <2>1. proc'[r].pc = "repairQueue" => Current(r)' = Current(r)
    BY <1>5 DEF Current
  <2>2. Recorded(r)'
    BY <1>4, <1>5, <2>1 DEF Recorded, CopyPcs, SameTask, HasRow, Exists
  <2> QED BY <1>1, <1>8, <2>2, OrdinaryRecorded
<1>10. CoverInv'
  <2>1. Careful(r)'
    BY <1>5, <1>6 DEF Careful, Deleting
  <2> QED BY <1>1, <1>7, <1>8, <2>1, OrdinaryCover
<1>11. PendingInv'
  <2>1. ASSUME NEW t \in Targets, replica'[t] = "pending", replica[t] # "pending"
        PROVE  Attended(t)'
    <3>1. t = Current(r) /\ Exists(proc[r].id)
      BY <1>4, <2>1
    <3>2. Current(r)' = Current(r)
      BY <1>5, <3>1 DEF Current
    <3>3. Queueing(r, t)'
      BY <1>4, <1>5, <3>1, <3>2 DEF Queueing, Exists, SameTask
    <3> QED BY <3>3 DEF Attended
  <2>2. jobs' = jobs /\ faults' = faults
    BY <1>7 DEF queueVars
  <2> QED BY <1>1, <1>8, <2>1, <2>2, OrdinaryPending DEF Queueing
<1>12. BackedInv'
  <2>1. Backed(r)'
    BY <1>5, <1>6 DEF Backed, Deleting
  <2>2. \A t \in Targets : replica'[t] = "ready" => replica[t] = "ready"
    BY <1>4
  <2> QED BY <1>1, <1>7, <1>8, <2>1, <2>2, OrdinaryBacked
<1> QED BY <1>1, <1>8, <1>9, <1>10, <1>11, <1>12, OrdinaryInv

\* A request queues a job for a row it has written, and goes on.
LEMMA QueueingIsOrdinary ==
  ASSUME Inv, NEW r \in Requests, NEW t \in Targets, NEW pc \in {"backups", "repair"},
         \/ proc[r].op = "upload" /\ pc = "backups"
         \/ proc[r].op = "repair" /\ pc = "repair",
         HasRow(proc[r].id, t),
         Queue!CreateJob(Queue!ReplicateObject, [object |-> proc[r].id, target |-> t]),
         NextTarget(r, pc),
         UNCHANGED <<rowVars, blob, historyVars>>
  PROVE  /\ Ordinary(r) /\ SameTask(r) /\ SameTarget(r) /\ proc'[r].pc = pc
         /\ \A i \in Queue!Ids : jobs'[i] = jobs[i]
         /\ faults' = faults
         /\ proc[r].id = object.id => JobAt(t, {"queued", "failed"})'
<1>0. r \in Processes /\ r \notin Workers
  BY Disjoint
<1>1. Shape(proc[r]) /\ proc[r].id <= lastId /\ proc[r].id \in Nat
  BY <1>0, ProcFields DEF Inv
<1>2. PICK payload : payload = [object |-> proc[r].id, target |-> t]
  OBVIOUS
<1>3. /\ payload \in [object : Nat, target : Targets]
      /\ payload.object = proc[r].id /\ payload.target = t
  BY <1>1, <1>2
<1>4. /\ Queue!Ids' = Queue!Ids \cup {Len(jobs) + 1} /\ Len(jobs) + 1 \notin Queue!Ids
      /\ \A i \in Queue!Ids : jobs'[i] = jobs[i]
      /\ jobs'[Len(jobs) + 1].payload = payload
      /\ jobs'[Len(jobs) + 1].status = "queued"
      /\ worker' = worker /\ faults' = faults
      /\ QueueInv'
  BY <1>2, <1>3, CreateJobEffect, CreateKeepsQueueInv DEF Inv
<1>5. Moves(r) /\ SameTask(r) /\ SameTarget(r) /\ proc'[r].pc = pc
  BY <1>0, NextFields DEF Inv, Pcs
<1>6. Shape(proc'[r]) /\ proc'[r].id <= lastId
  BY <1>0, <1>1, <1>5 DEF Shape, At, SameTask, Moves
<1>7. object' = object /\ lastId' = lastId /\ replica' = replica /\ blob' = blob
      /\ UNCHANGED <<acked, overlapped, policy>>
  BY DEF rowVars, historyVars
<1>9. ASSUME NEW i \in Queue!Ids', i \notin Queue!Ids
      PROVE  /\ jobs'[i].payload.object <= lastId
             /\ HasRow(jobs[i].payload.object, jobs[i].payload.target)'
  <2>1. jobs'[i].payload = payload
    BY <1>4, <1>9
  <2> QED BY <1>1, <1>3, <1>7, <2>1 DEF HasRow, Exists
<1>10. JobsKept /\ OnlyLoop(r)
  BY <1>4 DEF JobsKept, OnlyLoop
<1>11. Ordinary(r)
  BY <1>0, <1>4, <1>5, <1>6, <1>7, <1>9, <1>10 DEF Ordinary, SameTask, Inv, RowsInv
<1>12. proc[r].id = object.id => JobAt(t, {"queued", "failed"})'
  <2>1. proc[r].id = object.id => payload = Payload(t)'
    BY <1>2, <1>7 DEF Payload
  <2> QED BY <1>4, <2>1 DEF JobAt
<1> QED BY <1>4, <1>5, <1>11, <1>12

\* The repair has queued the job, which sees to the replica now.
LEMMA QueueRepairInv ==
  ASSUME Inv, NEW r \in Requests, QueueRepair(r)
  PROVE  Inv'
<1>1. /\ r \in Processes /\ r \notin Workers
      /\ proc[r].pc = "repairQueue" /\ proc[r].todo # {} /\ NextTarget(r, "repair")
  BY Disjoint DEF QueueRepair, AtTarget
<1>2. Shape(proc[r]) /\ proc[r].op = "repair"
  <2>1. Shape(proc[r])
    BY <1>1, ProcFields DEF Inv
  <2> QED BY <1>1, <2>1 DEF Shape, At, CopyPcs
<1>3. PICK t \in Targets : t = Current(r)
  BY <1>1, CurrentIsTarget
<1>4. HasRow(proc[r].id, t)
  BY <1>1, <1>3 DEF Inv, RecordedInv, Recorded
<1>5. /\ Ordinary(r) /\ SameTask(r) /\ SameTarget(r) /\ proc'[r].pc = "repair"
      /\ \A i \in Queue!Ids : jobs'[i] = jobs[i]
      /\ faults' = faults
      /\ proc[r].id = object.id => JobAt(t, {"queued", "failed"})'
  BY <1>1, <1>2, <1>3, <1>4, QueueingIsOrdinary DEF QueueRepair
<1>6. replica' = replica /\ blob' = blob
  BY DEF QueueRepair, rowVars
<1>7. RecordedInv'
  BY <1>1, <1>5, OrdinaryRecorded DEF Recorded, CopyPcs
<1>8. CoverInv'
  <2>1. Careful(r)'
    BY <1>2, <1>5 DEF Careful, Deleting, SameTask
  <2> QED BY <1>1, <1>5, <1>6, <2>1, OrdinaryCover
<1>9. PendingInv'
  <2>1. \A u \in Targets : Queueing(r, u) => Attended(u)'
    BY <1>1, <1>3, <1>5 DEF Queueing, Attended
  <2> QED BY <1>1, <1>5, <1>6, <2>1, OrdinaryPending
<1>10. BackedInv'
  <2>1. Backed(r)'
    BY <1>2, <1>5 DEF Backed, Deleting, SameTask
  <2> QED BY <1>1, <1>5, <1>6, <2>1, OrdinaryBacked
<1> QED BY <1>1, <1>5, <1>7, <1>8, <1>9, <1>10, OrdinaryInv

-----------------------------------------------------------------------------
(* Uploads.                                                                *)

\* Where an upload is, it is an upload's.
LEMMA UploadFacts ==
  ASSUME Inv, NEW r \in Requests,
         proc[r].pc \in {"put", "save", "mark", "backups", "queue"}
  PROVE  /\ r \in Processes /\ r \notin Workers
         /\ Shape(proc[r]) /\ proc[r].id <= lastId /\ proc[r].id \in Nat
         /\ proc[r].op = "upload" /\ ~acked[r] /\ ~AllAcked
         /\ proc[r].content \in Contents \cup {NoContent}
         /\ Primary \in Targets /\ Excused(Primary)
         /\ NoDeletes => Backed(r) /\ proc[r].content # NoContent
         /\ ~overlapped => Careful(r)
         /\ Writing(r) /\ ~Deleting(r)
<1>1. r \in Processes /\ r \notin Workers
  BY Disjoint
<1>2. /\ Shape(proc[r]) /\ proc[r].id <= lastId /\ proc[r].id \in Nat
      /\ proc[r].content \in Contents \cup {NoContent}
  BY <1>1, ProcFields DEF Inv
<1>3. proc[r].op = "upload"
  BY <1>2 DEF Shape, At, CopyPcs
<1>4. ~acked[r] /\ ~AllAcked
  BY <1>3 DEF Inv, ProcInv, AllAcked
<1>5. Primary \in Targets
  BY DEF Targets
<1>6. NoDeletes => Backed(r) /\ proc[r].content # NoContent
  BY <1>1, <1>3 DEF Inv, BackedInv, Backed
<1>7. ~overlapped => Careful(r)
  BY <1>1 DEF Inv, CoverInv
<1> QED BY <1>1, <1>2, <1>3, <1>4, <1>5, <1>6, <1>7 DEF Excused, Writing, Deleting

\* The primary has the bytes; the upload is not answered, which excuses them.
LEMMA PutPrimaryInv ==
  ASSUME Inv, NEW r \in Requests, PutPrimary(r)
  PROVE  Inv'
<1>1. /\ r \in Processes /\ proc[r].pc = "put" /\ proc[r].op = "upload"
      /\ Shape(proc[r]) /\ proc[r].id <= lastId
      /\ proc[r].content \in Contents \cup {NoContent}
      /\ Primary \in Targets /\ Excused(Primary) /\ Writing(r)
      /\ NoDeletes => proc[r].content # NoContent
  BY UploadFacts DEF PutPrimary
<1>2. /\ blob' = [blob EXCEPT ![Primary] = proc[r].content]
      /\ UNCHANGED <<queueVars, rowVars, acked, overlapped, policy>>
  BY DEF PutPrimary, historyVars
<1>3. /\ Moves(r) /\ SameTask(r) /\ SameTarget(r) /\ proc'[r].pc = "save"
  BY <1>1, GotoFields DEF PutPrimary, Goto, Inv, Pcs
<1>4. Shape(proc'[r]) /\ proc'[r].id <= lastId
  BY <1>1, <1>3 DEF Shape, At, SameTask, Moves
<1>5. /\ replica' = replica /\ object' = object /\ lastId' = lastId
      /\ replica' \in [Targets -> Statuses \cup {"none"}]
      /\ blob \in [Targets -> Contents \cup {NoContent}]
      /\ blob' \in [Targets -> Contents \cup {NoContent}]
  BY <1>1, <1>2 DEF rowVars, Inv, RowsInv
<1>6. Ordinary(r)
  BY <1>2, <1>3, <1>4, <1>5, QuietQueue, RequestIsOrdinary DEF SameTask
<1>7. RecordedInv'
  BY <1>1, <1>3, <1>6, OrdinaryRecorded DEF Recorded, CopyPcs
<1>8. CoverInv'
  <2>1. Careful(r)'
    BY <1>1, <1>3 DEF Careful, Deleting, SameTask
  <2>2. \A t \in Targets : blob'[t] # NoContent => blob[t] # NoContent \/ t = Primary
    BY <1>2, <1>5
  <2> QED BY <1>1, <1>6, <2>1, <2>2, OrdinaryCover
<1>9. PendingInv'
  BY <1>1, <1>2, <1>5, <1>6, Disjoint, OrdinaryPending DEF Queueing, queueVars
<1>10. BackedInv'
  <2>1. NoDeletes => Backed(r)'
    BY <1>1, <1>2, <1>3, <1>5 DEF Backed, Deleting, SameTask, SameTarget
  <2>2. NoDeletes => \A t \in Targets : blob[t] # NoContent => blob'[t] # NoContent
    BY <1>1, <1>2, <1>5
  <2> QED BY <1>1, <1>5, <1>6, <2>1, <2>2, OrdinaryBacked
<1> QED BY <1>1, <1>6, <1>7, <1>8, <1>9, <1>10, OrdinaryInv

\* The primary may have the bytes of an upload that is never answered.
LEMMA PutPrimaryFailsInv ==
  ASSUME Inv, NEW r \in Requests, PutPrimaryFails(r)
  PROVE  Inv'
<1>1. /\ r \in Processes /\ proc[r].pc = "put" /\ proc[r].op = "upload"
      /\ proc[r].content \in Contents \cup {NoContent}
      /\ Primary \in Targets /\ Excused(Primary) /\ Writing(r)
      /\ NoDeletes => proc[r].content # NoContent
  BY UploadFacts DEF PutPrimaryFails
<1>2. /\ blob' \in {blob, [blob EXCEPT ![Primary] = proc[r].content]}
      /\ UNCHANGED <<queueVars, rowVars, acked, overlapped, policy>>
  BY DEF PutPrimaryFails, historyVars
<1>3. /\ Moves(r) /\ proc'[r] = Idle
  BY <1>1, EndFields DEF PutPrimaryFails, Inv
<1>4. Shape(proc'[r]) /\ proc'[r].id <= lastId
  BY <1>3, IdleFields DEF Inv, RowsInv
<1>5. /\ replica' = replica /\ object' = object /\ lastId' = lastId
      /\ replica' \in [Targets -> Statuses \cup {"none"}]
      /\ blob \in [Targets -> Contents \cup {NoContent}]
      /\ blob' \in [Targets -> Contents \cup {NoContent}]
  BY <1>1, <1>2 DEF rowVars, Inv, RowsInv
<1>6. Ordinary(r)
  BY <1>2, <1>3, <1>4, <1>5, IdleFields, QuietQueue, RequestIsOrdinary
<1>7. RecordedInv'
  BY <1>1, <1>3, <1>6, IdleFields, OrdinaryRecorded DEF Recorded, CopyPcs
<1>8. CoverInv'
  <2>1. Careful(r)'
    BY <1>3, IdleFields DEF Careful, Deleting
  <2>2. \A t \in Targets : blob'[t] # NoContent => blob[t] # NoContent \/ t = Primary
    BY <1>2, <1>5
  <2> QED BY <1>1, <1>6, <2>1, <2>2, OrdinaryCover
<1>9. PendingInv'
  BY <1>1, <1>2, <1>5, <1>6, Disjoint, OrdinaryPending DEF Queueing, queueVars
<1>10. BackedInv'
  <2>1. NoDeletes => Backed(r)'
    BY <1>3, IdleFields DEF Backed, Deleting
  <2>2. NoDeletes => \A t \in Targets : blob[t] # NoContent => blob'[t] # NoContent
    BY <1>1, <1>2, <1>5
  <2> QED BY <1>1, <1>5, <1>6, <2>1, <2>2, OrdinaryBacked
<1> QED BY <1>1, <1>6, <1>7, <1>8, <1>9, <1>10, OrdinaryInv

\* The primary's row is written, for a blob that is there.
LEMMA MarkPrimaryInv ==
  ASSUME Inv, NEW r \in Requests, MarkPrimary(r)
  PROVE  Inv'
<1>1. /\ r \in Processes /\ r \notin Workers /\ proc[r].pc = "mark" /\ proc[r].op = "upload"
      /\ Shape(proc[r]) /\ proc[r].id <= lastId /\ proc[r].id \in Nat
      /\ Primary \in Targets
      /\ NoDeletes => Backed(r) /\ proc[r].content # NoContent
  BY UploadFacts DEF MarkPrimary
<1>2. UNCHANGED <<queueVars, blob, acked, overlapped, policy>>
  BY DEF MarkPrimary, historyVars
<1>3. /\ object' = object /\ lastId' = lastId
      /\ replica' \in [Targets -> Statuses \cup {"none"}]
      /\ \A u \in Targets : replica[u] # "none" => replica'[u] # "none"
      /\ \A u \in Targets : u # Primary => replica'[u] = replica[u]
      /\ object.id = 0 => replica' = replica
      /\ IF Exists(proc[r].id) THEN replica'[Primary] = "ready" ELSE replica' = replica
  <2>1. "ready" \in Statuses /\ Upsert(proc[r].id, Primary, "ready")
    BY DEF Statuses, MarkPrimary
  <2> QED BY <1>1, <2>1, UpsertEffect
<1>4. /\ Moves(r) /\ Shape(proc'[r]) /\ proc'[r].id <= lastId
      /\ \/ proc'[r] = Idle
         \/ /\ Exists(proc[r].id) /\ proc'[r].op = "upload" /\ proc'[r].pc = "backups"
            /\ proc'[r].id = proc[r].id /\ proc'[r].content = proc[r].content
  <2>1. CASE Exists(proc[r].id)
    <3>1. PICK q : q = [proc[r] EXCEPT !.pc = "backups", !.todo = Targets \ {Primary}]
      OBVIOUS
    <3>2. /\ q \in ProcState /\ q.pc = "backups" /\ q.op = "upload"
          /\ q.id = proc[r].id /\ q.content = proc[r].content
      BY <1>1, <3>1 DEF Shape, ProcState, Pcs
    <3>3. Moves(r) /\ proc'[r] = q
      BY <1>1, <2>1, <3>1, <3>2 DEF MarkPrimary, Inv, ProcInv, Moves
    <3>4. Shape(q)
      BY <3>2 DEF Shape, At
    <3> QED BY <1>1, <2>1, <3>2, <3>3, <3>4
  <2>2. CASE ~Exists(proc[r].id)
    <3>1. End(r)
      BY <2>2 DEF MarkPrimary
    <3> QED BY <1>1, <3>1, EndFields, IdleFields DEF Inv, RowsInv
  <2> QED BY <2>1, <2>2
<1>5. proc'[r].op = proc[r].op \/ proc'[r].op = "none"
  BY <1>1, <1>4, IdleFields
<1>6. Ordinary(r)
  BY <1>2, <1>3, <1>4, <1>5, QuietQueue, RequestIsOrdinary DEF Inv, RowsInv
<1>7. proc'[r].pc \in {"idle", "backups"} /\ ~Deleting(r)'
  BY <1>4, IdleFields DEF Deleting
<1>8. RecordedInv'
  BY <1>1, <1>6, <1>7, OrdinaryRecorded DEF Recorded, CopyPcs
<1>9. CoverInv'
  <2>1. Careful(r)'
    BY <1>3, <1>4, <1>7, IdleFields DEF Careful, Exists
  <2> QED BY <1>1, <1>2, <1>6, <2>1, OrdinaryCover
<1>10. PendingInv'
  <2>1. \A t \in Targets : replica'[t] = "pending" => replica[t] = "pending"
    BY <1>3
  <2> QED BY <1>1, <1>2, <1>6, <2>1, OrdinaryPending DEF Queueing, queueVars
<1>11. BackedInv'
  <2>1. NoDeletes => Backed(r)'
    BY <1>1, <1>4, <1>7, IdleFields DEF Backed
  <2>2. NoDeletes => \A t \in Targets : replica'[t] = "ready" =>
                       replica[t] = "ready" \/ blob'[t] # NoContent
    BY <1>1, <1>2, <1>3 DEF Backed
  <2> QED BY <1>1, <1>2, <1>6, <2>1, <2>2, OrdinaryBacked
<1> QED BY <1>1, <1>6, <1>8, <1>9, <1>10, <1>11, OrdinaryInv

\* A backup is marked pending by an upload that is about to queue or to copy.
LEMMA MarkBackupInv ==
  ASSUME Inv, NEW r \in Requests, MarkBackup(r)
  PROVE  Inv'
<1>1. /\ r \in Processes /\ r \notin Workers /\ proc[r].pc = "backups"
      /\ proc[r].op = "upload" /\ proc[r].todo # {}
      /\ Shape(proc[r]) /\ proc[r].id <= lastId /\ proc[r].id \in Nat
      /\ NoDeletes => Backed(r) /\ proc[r].content # NoContent
      /\ ~overlapped => Careful(r)
  BY UploadFacts DEF MarkBackup, AtTarget
<1>2. UNCHANGED <<queueVars, blob, acked, overlapped, policy>>
  BY DEF MarkBackup, historyVars
<1>3. PICK t \in Targets : t = Current(r)
  BY <1>1, CurrentIsTarget
<1>4. /\ object' = object /\ lastId' = lastId
      /\ replica' \in [Targets -> Statuses \cup {"none"}]
      /\ \A u \in Targets : replica[u] # "none" => replica'[u] # "none"
      /\ \A u \in Targets : u # t => replica'[u] = replica[u]
      /\ object.id = 0 => replica' = replica
      /\ IF Exists(proc[r].id) THEN replica'[t] = BackupStatus ELSE replica' = replica
  <2>1. BackupStatus \in Statuses /\ Upsert(proc[r].id, t, BackupStatus)
    BY <1>3 DEF Statuses, MarkBackup, BackupStatus
  <2> QED BY <1>1, <2>1, UpsertEffect
<1>5. /\ Moves(r) /\ Shape(proc'[r]) /\ proc'[r].id <= lastId
      /\ \/ proc'[r] = Idle /\ ~Exists(proc[r].id)
         \/ /\ Exists(proc[r].id) /\ proc'[r].op = "upload"
            /\ proc'[r].id = proc[r].id /\ proc'[r].content = proc[r].content
            /\ proc'[r].pc = AfterBackupRow
            /\ AfterBackupRow # "backups" => proc'[r].target = t
  <2>0. AfterBackupRow \in {"backups", "load", "queue"}
    BY DEF AfterBackupRow
  <2>1. CASE ~Exists(proc[r].id)
    <3>1. End(r)
      BY <2>1 DEF MarkBackup
    <3> QED BY <1>1, <2>1, <3>1, EndFields, IdleFields DEF Inv, RowsInv
  <2>2. CASE Exists(proc[r].id) /\ AfterBackupRow = "backups"
    <3>1. NextTarget(r, "backups")
      BY <2>2 DEF MarkBackup
    <3>2. Moves(r) /\ SameTask(r) /\ SameTarget(r) /\ proc'[r].pc = "backups"
      BY <1>1, <3>1, NextFields DEF Inv, Pcs
    <3>3. Shape(proc'[r])
      BY <1>1, <3>2 DEF Shape, At, SameTask, Moves
    <3> QED BY <1>1, <2>2, <3>2, <3>3 DEF SameTask, SameTarget
  <2>3. CASE Exists(proc[r].id) /\ AfterBackupRow # "backups"
    <3>1. proc' = [proc EXCEPT ![r] = [@ EXCEPT !.pc = AfterBackupRow, !.target = t]]
      BY <1>3, <2>3 DEF MarkBackup
    <3>2. PICK q : q = [proc[r] EXCEPT !.pc = AfterBackupRow, !.target = t]
      OBVIOUS
    <3>3. /\ q \in ProcState /\ q.pc = AfterBackupRow /\ q.op = "upload"
          /\ q.id = proc[r].id /\ q.content = proc[r].content /\ q.target = t
      BY <1>1, <2>0, <3>2 DEF Shape, ProcState, Pcs, CopyPcs
    <3>4. Moves(r) /\ proc'[r] = q
      BY <1>1, <3>1, <3>2, <3>3 DEF Inv, ProcInv, Moves
    <3>5. Shape(q)
      BY <2>0, <3>3 DEF Shape, At, CopyPcs
    <3> QED BY <1>1, <2>3, <3>3, <3>4, <3>5
  <2> QED BY <2>1, <2>2, <2>3
<1>6. proc'[r].op = proc[r].op \/ proc'[r].op = "none"
  BY <1>1, <1>5, IdleFields
<1>7. Ordinary(r)
  BY <1>2, <1>4, <1>5, <1>6, QuietQueue, RequestIsOrdinary DEF Inv, RowsInv
<1>8. proc'[r].pc \in {"idle", "backups", "load", "queue"} /\ ~Deleting(r)'
  BY <1>5, IdleFields DEF Deleting, AfterBackupRow
<1>9. RecordedInv'
  <2>1. BackupStatus # "none"
    BY DEF BackupStatus
  <2>2. Recorded(r)'
    BY <1>4, <1>5, <1>8, <2>1, IdleFields DEF Recorded, HasRow, Exists, CopyPcs
  <2> QED BY <1>1, <1>7, <2>2, OrdinaryRecorded
<1>10. CoverInv'
  <2>1. Primary \in Targets
    BY DEF Targets
  <2>2. ~overlapped => Careful(r)'
    BY <1>1, <1>4, <1>5, <1>8, <2>1, IdleFields DEF Careful, Exists
  <2> QED BY <1>1, <1>2, <1>7, <2>2, OrdinaryCover
<1>11. PendingInv'
  <2>1. ASSUME policy # "require_backups", NEW u \in Targets,
               replica'[u] = "pending", replica[u] # "pending"
        PROVE  Attended(u)'
    <3>1. u = t /\ Exists(proc[r].id) /\ BackupStatus = "pending"
      BY <1>4, <2>1
    <3>2. AfterBackupRow = "queue"
      BY <2>1, <3>1 DEF BackupStatus, AfterBackupRow
    <3>3. Queueing(r, u)'
      BY <1>4, <1>5, <3>1, <3>2, IdleFields DEF Queueing, Exists
    <3> QED BY <3>3 DEF Attended
  <2> QED BY <1>1, <1>2, <1>7, <2>1, OrdinaryPending DEF Queueing, queueVars
<1>12. BackedInv'
  <2>1. NoDeletes => Backed(r)'
    BY <1>1, <1>5, <1>8, IdleFields DEF Backed
  <2>2. \A u \in Targets : replica'[u] = "ready" => replica[u] = "ready"
    BY <1>4 DEF BackupStatus
  <2> QED BY <1>1, <1>2, <1>7, <2>1, <2>2, OrdinaryBacked
<1> QED BY <1>1, <1>7, <1>9, <1>10, <1>11, <1>12, OrdinaryInv

\* The upload has queued the job, which sees to the backup now.
LEMMA QueueBackupInv ==
  ASSUME Inv, NEW r \in Requests, QueueBackup(r)
  PROVE  Inv'
<1>1. /\ r \in Processes /\ r \notin Workers /\ proc[r].pc = "queue"
      /\ proc[r].op = "upload"
      /\ NoDeletes => Backed(r) /\ proc[r].content # NoContent
      /\ ~overlapped => Careful(r)
  BY UploadFacts DEF QueueBackup
<1>2. PICK t \in Targets : t = proc[r].target
  BY <1>1, ProcFields DEF Inv
<1>3. HasRow(proc[r].id, t)
  BY <1>1, <1>2 DEF Inv, RecordedInv, Recorded
<1>4. /\ Ordinary(r) /\ SameTask(r) /\ SameTarget(r) /\ proc'[r].pc = "backups"
      /\ \A i \in Queue!Ids : jobs'[i] = jobs[i]
      /\ faults' = faults
      /\ proc[r].id = object.id => JobAt(t, {"queued", "failed"})'
  BY <1>1, <1>2, <1>3, QueueingIsOrdinary DEF QueueBackup
<1>5. replica' = replica /\ blob' = blob /\ object' = object
  BY DEF QueueBackup, rowVars
<1>6. RecordedInv'
  BY <1>1, <1>4, OrdinaryRecorded DEF Recorded, CopyPcs
<1>7. CoverInv'
  <2>1. ~overlapped => Careful(r)'
    BY <1>1, <1>4, <1>5 DEF Careful, Deleting, SameTask, Exists
  <2> QED BY <1>1, <1>4, <1>5, <2>1, OrdinaryCover
<1>8. PendingInv'
  <2>1. \A u \in Targets : Queueing(r, u) => Attended(u)'
    BY <1>1, <1>2, <1>4 DEF Queueing, Attended
  <2> QED BY <1>1, <1>4, <1>5, <2>1, OrdinaryPending
<1>9. BackedInv'
  <2>1. NoDeletes => Backed(r)'
    BY <1>1, <1>4 DEF Backed, Deleting, SameTask, SameTarget
  <2> QED BY <1>1, <1>4, <1>5, <2>1, OrdinaryBacked
<1> QED BY <1>1, <1>4, <1>6, <1>7, <1>8, <1>9, OrdinaryInv

-----------------------------------------------------------------------------
(* Replication, by a loop or within an upload.                             *)

\* Where a replication is, it is a job's or an upload's.
LEMMA CopyFacts ==
  ASSUME Inv, NEW p \in Processes, proc[p].pc \in CopyPcs
  PROVE  /\ Shape(proc[p]) /\ proc[p].id <= lastId /\ proc[p].id \in Nat
         /\ proc[p].target \in Targets
         /\ proc[p].content \in Contents \cup {NoContent}
         /\ proc[p].op \in {"upload", "job"} /\ Writing(p) /\ ~Deleting(p)
         /\ HasRow(proc[p].id, proc[p].target)
         /\ ~overlapped => Careful(p)
         /\ NoDeletes => Backed(p)
         /\ p \in Workers =>
              /\ proc[p].op = "job" /\ worker[p].pc = "run"
              /\ jobs[worker[p].job].payload = [object |-> proc[p].id,
                                                target |-> proc[p].target]
         /\ p \in Requests => proc[p].op = "upload" /\ p \notin Workers
<1>1. /\ Shape(proc[p]) /\ proc[p].id <= lastId /\ proc[p].id \in Nat
      /\ proc[p].target \in Targets
      /\ proc[p].content \in Contents \cup {NoContent}
  BY ProcFields DEF Inv
<1>2. proc[p].op \in {"upload", "job"}
  BY <1>1 DEF Shape, At, CopyPcs
<1>3. HasRow(proc[p].id, proc[p].target)
  BY DEF Inv, RecordedInv, Recorded
<1>4. (~overlapped => Careful(p)) /\ (NoDeletes => Backed(p))
  BY DEF Inv, CoverInv, BackedInv
<1>5. p \in Workers =>
        /\ proc[p].op = "job" /\ worker[p].pc = "run"
        /\ jobs[worker[p].job].payload = [object |-> proc[p].id, target |-> proc[p].target]
  BY <1>2 DEF Inv, ProcInv
<1>6. p \in Requests => proc[p].op = "upload" /\ p \notin Workers
  BY <1>2, Disjoint DEF Inv, ProcInv
<1> QED BY <1>1, <1>2, <1>3, <1>4, <1>5, <1>6 DEF Writing, Deleting

\* A step within replicateObject that writes no row.
LEMMA CopyingInv ==
  ASSUME Inv, NEW p \in Processes, proc[p].pc \in CopyPcs,
         Moves(p), SameTask(p), proc'[p].target = proc[p].target,
         proc'[p].pc \in CopyPcs,
         UNCHANGED <<queueVars, rowVars, historyVars>>,
         blob' \in [Targets -> Contents \cup {NoContent}],
         ~overlapped => Exists(proc[p].id),
         \A t \in Targets : blob'[t] # NoContent =>
           blob[t] # NoContent \/ t = proc[p].target,
         NoDeletes => /\ Backed(p)'
                      /\ \A t \in Targets : blob[t] # NoContent => blob'[t] # NoContent
  PROVE  Inv'
<1>1. /\ Shape(proc[p]) /\ proc[p].id <= lastId
      /\ proc[p].op \in {"upload", "job"} /\ Writing(p) /\ ~Deleting(p)
      /\ HasRow(proc[p].id, proc[p].target)
      /\ ~overlapped => Careful(p)
      /\ p \in Workers => proc[p].op = "job" /\ worker[p].pc = "run"
  BY CopyFacts
<1>2. /\ object' = object /\ lastId' = lastId /\ replica' = replica
      /\ UNCHANGED <<acked, overlapped, policy>>
  BY DEF rowVars, historyVars
<1>3. Shape(proc'[p]) /\ proc'[p].id <= lastId
  BY <1>1 DEF Shape, At, SameTask, Moves, CopyPcs
<1>4. /\ QueueInv' /\ JobsKept /\ Queue!Ids' = Queue!Ids
      /\ jobs' = jobs /\ worker' = worker /\ faults' = faults /\ OnlyLoop(p)
  BY QuietQueue
<1>5. Ordinary(p)
  BY <1>1, <1>2, <1>3, <1>4 DEF Ordinary, SameTask, Inv, RowsInv
<1>6. RecordedInv'
  <2>1. Recorded(p)'
    BY <1>1, <1>2 DEF Recorded, SameTask, HasRow, Exists, CopyPcs
  <2> QED BY <1>5, <2>1, OrdinaryRecorded
<1>7. CoverInv'
  <2>1. ~overlapped => Careful(p)'
    <3>1. ~overlapped => Exists(proc[p].id) /\ Careful(p)
      BY <1>1
    <3>2. ~Deleting(p)'
      BY <1>1 DEF Deleting, SameTask
    <3>3. Exists(proc[p].id) => Exists(proc[p].id)'
      BY <1>2 DEF Exists, SameTask
    <3>4. proc[p].pc \notin {"put", "save", "mark"}
      BY DEF CopyPcs
    <3> QED BY <1>2, <3>1, <3>2, <3>3, <3>4 DEF Careful, SameTask
  <2>2. ~overlapped => Covered(proc[p].target)
    BY <1>1, ProcFields DEF Covered, HasRow, Exists, DeleteTargets, Rows, Inv
  <2> QED BY <1>1, <1>5, <2>1, <2>2, OrdinaryCover
<1>8. PendingInv'
  <2>1. ASSUME NEW t \in Targets, replica[t] = "pending", p \in Workers, Trying(p, t)
        PROVE  Attended(t)'
    <3>1. Trying(p, t)'
      BY <1>2, <1>4, <2>1 DEF Trying, Payload
    <3> QED BY <2>1, <3>1 DEF Attended
  <2> QED BY <1>2, <1>4, <1>5, <2>1, OrdinaryPending DEF Queueing, CopyPcs
<1>9. BackedInv'
  BY <1>2, <1>5, OrdinaryBacked
<1> QED BY <1>5, <1>6, <1>7, <1>8, <1>9, OrdinaryInv

\* replicateObject returns.
LEMMA ReturnMoves ==
  ASSUME Inv, NEW p \in Processes, proc[p].pc \in CopyPcs, NEW ok \in BOOLEAN,
         Return(p, ok)
  PROVE  /\ Moves(p) /\ Shape(proc'[p]) /\ proc'[p].id <= lastId
         /\ QueueInv' /\ JobsKept /\ Queue!Ids' = Queue!Ids
         /\ jobs' = jobs /\ faults' = faults /\ OnlyLoop(p)
         /\ \/ /\ p \in Workers /\ proc'[p] = Idle
               /\ worker'[p].job = worker[p].job
               /\ worker'[p].pc = IF ok THEN "ok" ELSE "err"
            \/ /\ p \in Requests /\ p \notin Workers /\ worker' = worker
               /\ \/ ~ok /\ proc'[p] = Idle
                  \/ /\ ok /\ SameTask(p) /\ SameTarget(p) /\ proc'[p].pc = "backups"
<1>1. /\ Shape(proc[p]) /\ proc[p].id <= lastId
      /\ p \in Requests => proc[p].op = "upload" /\ p \notin Workers
  BY CopyFacts
<1>2. lastId \in Nat
  BY DEF Inv, RowsInv
<1>3. CASE p \in Workers /\ Queue!RunJob(p, ok) /\ End(p)
  <2>1. /\ Moves(p) /\ proc'[p] = Idle
    BY <1>3, EndFields DEF Inv
  <2>2. /\ jobs' = jobs /\ Queue!Ids' = Queue!Ids /\ faults' = faults /\ OnlyLoop(p)
        /\ worker'[p].job = worker[p].job
        /\ worker'[p].pc = IF ok THEN "ok" ELSE "err"
        /\ QueueInv'
    BY <1>3, ReturnEffect, LoopKeepsQueueInv DEF Inv
  <2> QED BY <1>2, <1>3, <2>1, <2>2, IdleFields DEF JobsKept
<1>4. CASE p \in Requests /\ UNCHANGED queueVars
                /\ IF ok THEN NextTarget(p, "backups") ELSE End(p)
  <2>1. CASE ok
    <3>1. Moves(p) /\ SameTask(p) /\ SameTarget(p) /\ proc'[p].pc = "backups"
      BY <1>4, <2>1, NextFields DEF Inv, Pcs
    <3>2. Shape(proc'[p]) /\ proc'[p].id <= lastId
      BY <1>1, <1>4, <3>1 DEF Shape, At, SameTask, Moves
    <3> QED BY <1>1, <1>4, <2>1, <3>1, <3>2, QuietQueue
  <2>2. CASE ~ok
    <3>1. Moves(p) /\ proc'[p] = Idle
      BY <1>4, <2>2, EndFields DEF Inv
    <3> QED BY <1>1, <1>2, <1>4, <2>2, <3>1, IdleFields, QuietQueue
  <2> QED BY <2>1, <2>2
<1> QED BY <1>3, <1>4 DEF Return

\* A replication returns: a loop that failed has still to give its job an outcome.
LEMMA ReturnInv ==
  ASSUME Inv, NEW p \in Processes, proc[p].pc \in CopyPcs, NEW ok \in BOOLEAN,
         Return(p, ok),
         UNCHANGED <<object, lastId, blob, acked, overlapped, policy>>,
         replica' \in [Targets -> Statuses \cup {"none"}],
         \A t \in Targets : replica[t] # "none" => replica'[t] # "none",
         object.id = 0 => replica' = replica,
         \A t \in Targets : replica'[t] = "pending" => replica[t] = "pending",
         ok => replica'[proc[p].target] # "pending",
         NoDeletes => \A t \in Targets : replica'[t] = "ready" =>
                        replica[t] = "ready" \/ blob[t] # NoContent
  PROVE  Inv'
<1>1. /\ proc[p].op \in {"upload", "job"} /\ Writing(p) /\ ~Deleting(p)
      /\ ~overlapped => Careful(p)
      /\ NoDeletes => Backed(p)
      /\ p \in Workers =>
           /\ proc[p].op = "job" /\ worker[p].pc = "run"
           /\ jobs[worker[p].job].payload = [object |-> proc[p].id, target |-> proc[p].target]
      /\ p \in Requests => proc[p].op = "upload" /\ p \notin Workers
  BY CopyFacts
<1>2. /\ Moves(p) /\ Shape(proc'[p]) /\ proc'[p].id <= lastId
      /\ QueueInv' /\ JobsKept /\ Queue!Ids' = Queue!Ids
      /\ jobs' = jobs /\ faults' = faults /\ OnlyLoop(p)
      /\ \/ /\ p \in Workers /\ proc'[p] = Idle
            /\ worker'[p].job = worker[p].job
            /\ worker'[p].pc = IF ok THEN "ok" ELSE "err"
         \/ /\ p \in Requests /\ p \notin Workers /\ worker' = worker
            /\ \/ ~ok /\ proc'[p] = Idle
               \/ /\ ok /\ SameTask(p) /\ SameTarget(p) /\ proc'[p].pc = "backups"
  BY ReturnMoves
<1>3. \/ proc'[p] = Idle
      \/ /\ p \in Requests /\ SameTask(p) /\ SameTarget(p) /\ proc'[p].pc = "backups"
  BY <1>2
<1>4. proc'[p].op = proc[p].op \/ proc'[p].op = "none"
  BY <1>3, IdleFields DEF SameTask
<1>5. p \in Workers => proc'[p].op = "none" /\ worker'[p].pc # "run"
  BY <1>2, IdleFields
<1>6. Ordinary(p)
  BY <1>2, <1>4, <1>5, IdleFields DEF Ordinary, Inv, RowsInv
<1>7. RecordedInv'
  <2>1. Recorded(p)'
    BY <1>3, IdleFields DEF Recorded, CopyPcs
  <2> QED BY <1>6, <2>1, OrdinaryRecorded
<1>8. CoverInv'
  <2>1. ~overlapped => Careful(p)'
    <3>1. CASE proc'[p] = Idle
      BY <3>1, IdleFields DEF Careful, Deleting
    <3>2. CASE p \in Requests /\ SameTask(p) /\ SameTarget(p) /\ proc'[p].pc = "backups"
      <4>1. ~Deleting(p)' /\ proc[p].op = "upload" /\ proc'[p].id = proc[p].id
        BY <1>1, <3>2 DEF Deleting, SameTask
      <4>2. Primary \in Targets /\ (Exists(proc[p].id) => Exists(proc[p].id)')
        BY <4>1 DEF Targets, Exists
      <4>3. ~overlapped => Exists(proc[p].id) /\ replica[Primary] # "none"
        BY <1>1, <4>1 DEF Careful, CopyPcs
      <4> QED BY <3>2, <4>1, <4>2, <4>3 DEF Careful
    <3> QED BY <1>3, <3>1, <3>2
  <2> QED BY <1>6, <2>1, OrdinaryCover
<1>9. PendingInv'
  <2>1. ASSUME NEW t \in Targets, replica'[t] = "pending", p \in Workers, Trying(p, t)
        PROVE  Attended(t)'
    <3>1. t = proc[p].target
      BY <1>1, <2>1 DEF Trying, Payload
    <3>2. worker'[p].pc = "err" /\ worker'[p].job = worker[p].job
      BY <1>1, <1>2, <2>1, <3>1
    <3>3. Trying(p, t)'
      BY <1>2, <2>1, <3>2 DEF Trying, Payload
    <3> QED BY <2>1, <3>3 DEF Attended
  <2> QED BY <1>2, <1>6, <2>1, OrdinaryPending DEF Queueing, CopyPcs
<1>10. BackedInv'
  <2>1. NoDeletes => Backed(p)'
    BY <1>1, <1>3, IdleFields DEF Backed, Deleting, SameTask, SameTarget
  <2> QED BY <1>6, <2>1, OrdinaryBacked
<1> QED BY <1>6, <1>7, <1>8, <1>9, <1>10, OrdinaryInv

\* A replication has found the object and a source.
LEMMA LoadSourceInv ==
  ASSUME Inv, NEW p \in Processes, LoadSource(p)
  PROVE  Inv'
<1>1. proc[p].pc = "load" /\ proc[p].pc \in CopyPcs /\ Exists(proc[p].id)
      /\ Sources(proc[p].target) # {}
  BY DEF LoadSource, CopyPcs, CanLoad
<1>2. /\ Shape(proc[p]) /\ NoDeletes => Backed(p)
      /\ proc[p].op \in {"upload", "job"}
  BY <1>1, CopyFacts
<1>3. FirstSource(proc[p].target) \in Targets
  BY <1>1, FirstIsIn DEF FirstSource, Sources
<1>4. PICK q : q = [proc[p] EXCEPT !.pc = "get", !.source = FirstSource(proc[p].target)]
  OBVIOUS
<1>5. Shape(proc[p]) /\ (NoDeletes => Backed(p))
  BY <1>1, CopyFacts
<1>6. /\ q \in ProcState /\ q.pc = "get" /\ q.op = proc[p].op /\ q.id = proc[p].id
      /\ q.seen = proc[p].seen /\ q.force = proc[p].force
      /\ q.target = proc[p].target /\ q.content = proc[p].content
  BY <1>3, <1>4, <1>5 DEF Shape, ProcState, Pcs, CopyPcs
<1>7. Moves(p) /\ proc'[p] = q
  BY <1>4, <1>6 DEF LoadSource, Inv, ProcInv, Moves
<1>8. UNCHANGED <<queueVars, rowVars, blob, historyVars>>
  BY DEF LoadSource
<1>9. NoDeletes => Backed(p)'
  BY <1>5, <1>6, <1>7 DEF Backed, Deleting
<1> QED BY <1>1, <1>6, <1>7, <1>8, <1>9, CopyingInv DEF SameTask, CopyPcs, Inv, RowsInv

\* A replication that gives up without touching a row.
LEMMA NothingToCopyInv ==
  ASSUME Inv, NEW p \in Processes, NothingToCopy(p) \/ StagingFails(p)
  PROVE  Inv'
<1>1. /\ proc[p].pc \in CopyPcs /\ Return(p, FALSE)
      /\ object' = object /\ lastId' = lastId /\ replica' = replica
      /\ UNCHANGED <<blob, acked, overlapped, policy>>
  BY DEF NothingToCopy, StagingFails, CopyPcs, rowVars, historyVars
<1>2. replica \in [Targets -> Statuses \cup {"none"}]
  BY DEF Inv, RowsInv
<1> QED BY <1>1, <1>2, ReturnInv

\* The source's bytes are staged; no missing blob is.
LEMMA GetSourceInv ==
  ASSUME Inv, NEW p \in Processes, GetSource(p)
  PROVE  Inv'
<1>1. proc[p].pc = "get" /\ proc[p].pc \in CopyPcs
  BY DEF GetSource, CopyPcs
<1>2. Shape(proc[p]) /\ (NoDeletes => Backed(p)) /\ (~overlapped => Careful(p))
  BY <1>1, CopyFacts
<1>3. /\ blob[proc[p].source] \in Contents \cup {NoContent}
      /\ blob[proc[p].source] # NoContent
  BY <1>2 DEF GetSource, Shape, ProcState, Inv, RowsInv
<1>4. PICK q : q = [proc[p] EXCEPT !.pc = "copy", !.content = blob[proc[p].source]]
  OBVIOUS
<1>5. /\ q \in ProcState /\ q.pc = "copy" /\ q.op = proc[p].op /\ q.id = proc[p].id
      /\ q.seen = proc[p].seen /\ q.force = proc[p].force
      /\ q.target = proc[p].target /\ q.content # NoContent
  BY <1>2, <1>3, <1>4 DEF Shape, ProcState, Pcs, CopyPcs
<1>6. Moves(p) /\ proc'[p] = q
  BY <1>4, <1>5 DEF GetSource, Inv, ProcInv, Moves
<1>7. UNCHANGED <<queueVars, rowVars, blob, historyVars>>
  BY DEF GetSource
<1>8. NoDeletes => Backed(p)'
  BY <1>2, <1>5, <1>6 DEF Backed, Deleting
<1>9. ~overlapped => Exists(proc[p].id)
  BY <1>1, <1>2 DEF Careful
<1> QED BY <1>1, <1>5, <1>6, <1>7, <1>8, <1>9, CopyingInv DEF SameTask, CopyPcs, Inv, RowsInv

\* The source has nothing to offer.
LEMMA GetSourceFailsInv ==
  ASSUME Inv, NEW p \in Processes, GetSourceFails(p)
  PROVE  Inv'
<1>1. proc[p].pc = "get" /\ proc[p].pc \in CopyPcs
  BY DEF GetSourceFails, CopyPcs
<1>2. (NoDeletes => Backed(p)) /\ (~overlapped => Careful(p))
  BY <1>1, CopyFacts
<1>3. Moves(p) /\ SameTask(p) /\ SameTarget(p) /\ proc'[p].pc = "markFailed"
  BY GotoFields DEF GetSourceFails, Goto, Inv, Pcs, CopyPcs
<1>4. UNCHANGED <<queueVars, rowVars, blob, historyVars>>
  BY DEF GetSourceFails
<1>5. NoDeletes => Backed(p)'
  BY <1>2, <1>3 DEF Backed, Deleting, SameTask, SameTarget
<1>6. ~overlapped => Exists(proc[p].id)
  BY <1>1, <1>2 DEF Careful
<1> QED BY <1>1, <1>3, <1>4, <1>5, <1>6, CopyingInv DEF SameTarget, CopyPcs, Inv, RowsInv

\* The bytes go to the target, which has a row by now, or fail to.
LEMMA PutBackupInv ==
  ASSUME Inv, NEW p \in Processes, PutBackup(p) \/ PutBackupFails(p)
  PROVE  Inv'
<1>1. proc[p].pc = "copy" /\ proc[p].pc \in CopyPcs
  BY DEF PutBackup, PutBackupFails, CopyPcs
<1>2. /\ NoDeletes => Backed(p)
      /\ ~overlapped => Careful(p)
      /\ proc[p].target \in Targets /\ proc[p].content \in Contents \cup {NoContent}
  BY <1>1, CopyFacts
<1>3. PICK pc \in {"markReady", "markFailed"} :
        /\ Goto(p, pc)
        /\ pc = "markReady" => blob' = [blob EXCEPT ![proc[p].target] = proc[p].content]
  BY DEF PutBackup, PutBackupFails
<1>4. Moves(p) /\ SameTask(p) /\ SameTarget(p) /\ proc'[p].pc = pc
  BY <1>3, GotoFields DEF Goto, Inv, Pcs, CopyPcs
<1>5. UNCHANGED <<queueVars, rowVars, historyVars>>
  BY DEF PutBackup, PutBackupFails
<1>6. /\ blob \in [Targets -> Contents \cup {NoContent}]
      /\ blob' \in {blob, [blob EXCEPT ![proc[p].target] = proc[p].content]}
  BY DEF PutBackup, PutBackupFails, Inv, RowsInv
<1>7. /\ blob' \in [Targets -> Contents \cup {NoContent}]
      /\ \A t \in Targets : t # proc[p].target => blob'[t] = blob[t]
      /\ blob'[proc[p].target] \in {blob[proc[p].target], proc[p].content}
      /\ pc = "markReady" => blob'[proc[p].target] = proc[p].content
  BY <1>2, <1>3, <1>6
<1>8. NoDeletes => /\ Backed(p)'
                   /\ \A t \in Targets : blob[t] # NoContent => blob'[t] # NoContent
  <2>1. NoDeletes => proc[p].content # NoContent
    BY <1>1, <1>2 DEF Backed
  <2> QED BY <1>2, <1>3, <1>4, <1>7, <2>1 DEF Backed, Deleting, SameTask, SameTarget
<1>9. ~overlapped => Exists(proc[p].id)
  BY <1>1, <1>2 DEF Careful
<1>10. proc'[p].pc \in CopyPcs
  BY <1>4 DEF CopyPcs
<1>11. \A t \in Targets : blob'[t] # NoContent => blob[t] # NoContent \/ t = proc[p].target
  BY <1>7
<1> QED BY <1>1, <1>4, <1>5, <1>7, <1>8, <1>9, <1>10, <1>11, CopyingInv DEF SameTarget

\* The replica is marked ready, for a blob that is there.
LEMMA MarkReadyInv ==
  ASSUME Inv, NEW p \in Processes, MarkReady(p)
  PROVE  Inv'
<1>1. proc[p].pc = "markReady" /\ proc[p].pc \in CopyPcs
  BY DEF MarkReady, CopyPcs
<1>2. proc[p].id \in Nat /\ proc[p].target \in Targets /\ (NoDeletes => Backed(p))
  BY <1>1, CopyFacts
<1>3. /\ object' = object /\ lastId' = lastId
      /\ replica' \in [Targets -> Statuses \cup {"none"}]
      /\ \A u \in Targets : replica[u] # "none" => replica'[u] # "none"
      /\ \A u \in Targets : u # proc[p].target => replica'[u] = replica[u]
      /\ object.id = 0 => replica' = replica
      /\ IF Exists(proc[p].id) THEN replica'[proc[p].target] = "ready" ELSE replica' = replica
  <2>1. "ready" \in Statuses /\ Upsert(proc[p].id, proc[p].target, "ready")
    BY DEF Statuses, MarkReady
  <2> QED BY <1>2, <2>1, UpsertEffect
<1>4. PICK ok \in BOOLEAN : ok = Exists(proc[p].id)
  BY DEF Exists
<1>5. Return(p, ok)
  BY <1>4 DEF MarkReady
<1>6. UNCHANGED <<object, lastId, blob, acked, overlapped, policy>>
  BY <1>3 DEF MarkReady, historyVars
<1>7. NoDeletes => \A t \in Targets : replica'[t] = "ready" =>
                     replica[t] = "ready" \/ blob[t] # NoContent
  BY <1>1, <1>2, <1>3 DEF Backed
<1>8. /\ \A t \in Targets : replica'[t] = "pending" => replica[t] = "pending"
      /\ ok => replica'[proc[p].target] # "pending"
  BY <1>2, <1>3, <1>4
<1> QED BY <1>1, <1>3, <1>5, <1>6, <1>7, <1>8, ReturnInv

\* The replica is marked failed.
LEMMA MarkFailedInv ==
  ASSUME Inv, NEW p \in Processes, MarkFailed(p)
  PROVE  Inv'
<1>1. proc[p].pc = "markFailed" /\ proc[p].pc \in CopyPcs
  BY DEF MarkFailed, CopyPcs
<1>2. proc[p].id \in Nat /\ proc[p].target \in Targets
  BY <1>1, CopyFacts
<1>3. /\ object' = object /\ lastId' = lastId
      /\ replica' \in [Targets -> Statuses \cup {"none"}]
      /\ \A u \in Targets : replica[u] # "none" => replica'[u] # "none"
      /\ \A u \in Targets : u # proc[p].target => replica'[u] = replica[u]
      /\ object.id = 0 => replica' = replica
      /\ IF Exists(proc[p].id) THEN replica'[proc[p].target] = "failed" ELSE replica' = replica
  <2>1. "failed" \in Statuses /\ Upsert(proc[p].id, proc[p].target, "failed")
    BY DEF Statuses, MarkFailed
  <2> QED BY <1>2, <2>1, UpsertEffect
<1>4. /\ Return(p, FALSE)
      /\ UNCHANGED <<object, lastId, blob, acked, overlapped, policy>>
  BY <1>3 DEF MarkFailed, historyVars
<1>5. /\ \A t \in Targets : replica'[t] = "ready" => replica[t] = "ready"
      /\ \A t \in Targets : replica'[t] = "pending" => replica[t] = "pending"
  BY <1>3
<1> QED BY <1>1, <1>3, <1>4, <1>5, ReturnInv

-----------------------------------------------------------------------------
(* Deletes and switches.                                                   *)

\* Where a delete is, and that there is one.
LEMMA DeleteFacts ==
  ASSUME Inv, NEW r \in Requests, proc[r].pc = "delete"
  PROVE  /\ r \in Processes /\ r \notin Workers
         /\ Shape(proc[r]) /\ proc[r].id <= lastId /\ proc[r].id \in Nat
         /\ proc[r].op = "delete" /\ Deleting(r) /\ ~Writing(r)
         /\ proc[r].failed \in BOOLEAN
         /\ ~overlapped => Careful(r) /\ Alone
         /\ ~NoDeletes
<1>1. r \in Processes /\ r \notin Workers
  BY Disjoint
<1>2. /\ Shape(proc[r]) /\ proc[r].id <= lastId /\ proc[r].id \in Nat
      /\ proc[r].failed \in BOOLEAN
  BY <1>1, ProcFields DEF Inv
<1>3. proc[r].op = "delete"
  BY <1>2 DEF Shape, At, CopyPcs
<1>4. ~overlapped => Careful(r) /\ Alone
  BY <1>1 DEF Inv, CoverInv
<1>5. ~NoDeletes
  BY <1>1, <1>3 DEF Inv, BackedInv, Backed, Deleting
<1> QED BY <1>1, <1>2, <1>3, <1>4, <1>5 DEF Deleting, Writing

\* A target's blob is deleted, or the delete is marked as failed.
LEMMA DeleteBlobInv ==
  ASSUME Inv, NEW r \in Requests, DeleteBlob(r) \/ DeleteBlobFails(r)
  PROVE  Inv'
<1>1. /\ r \in Processes /\ r \notin Workers /\ proc[r].pc = "delete" /\ proc[r].todo # {}
      /\ Shape(proc[r]) /\ proc[r].id <= lastId
      /\ proc[r].op = "delete" /\ ~Writing(r) /\ proc[r].failed \in BOOLEAN
      /\ ~overlapped => Careful(r)
      /\ ~NoDeletes
  BY DeleteFacts DEF DeleteBlob, DeleteBlobFails, AtTarget
<1>2. Current(r) \in Targets
  BY <1>1, CurrentIsTarget
<1>3. UNCHANGED <<queueVars, rowVars, historyVars>>
  BY DEF DeleteBlob, DeleteBlobFails
<1>4. /\ Moves(r) /\ proc'[r].pc = "delete" /\ proc'[r].op = "delete"
      /\ proc'[r].id = proc[r].id /\ proc'[r].todo = Rest(r)
      /\ \/ proc'[r].failed
         \/ /\ proc'[r].failed = proc[r].failed
            /\ blob' = [blob EXCEPT ![Current(r)] = NoContent]
  <2>1. CASE DeleteBlob(r)
    <3>1. NextTarget(r, "delete") /\ blob' = [blob EXCEPT ![Current(r)] = NoContent]
      BY <2>1 DEF DeleteBlob
    <3> QED BY <1>1, <3>1, NextFields DEF Inv, Pcs, SameTask
  <2>2. CASE DeleteBlobFails(r)
    <3>1. PICK q : q = [proc[r] EXCEPT !.todo = Rest(r), !.failed = TRUE]
      OBVIOUS
    <3>2. proc[r].todo \subseteq Targets
      BY <1>1, ProcFields DEF Inv
    <3>3. Rest(r) \subseteq Targets
      BY <3>2 DEF Rest
    <3>4. /\ q \in ProcState /\ q.pc = "delete" /\ q.op = "delete" /\ q.id = proc[r].id
          /\ q.todo = Rest(r) /\ q.failed
      BY <1>1, <3>1, <3>3 DEF Shape, ProcState
    <3>5. Moves(r) /\ proc'[r] = q
      BY <1>1, <2>2, <3>1, <3>4 DEF DeleteBlobFails, Inv, ProcInv, Moves
    <3> QED BY <3>4, <3>5
  <2> QED BY <2>1, <2>2
<1>5. Shape(proc'[r]) /\ proc'[r].id <= lastId
  BY <1>1, <1>4 DEF Shape, At, Moves
<1>6. /\ blob' \in [Targets -> Contents \cup {NoContent}]
      /\ \A t \in Targets : blob'[t] # NoContent => blob[t] # NoContent
      /\ proc'[r].failed \/ blob'[Current(r)] = NoContent
  BY <1>2, <1>4 DEF DeleteBlob, DeleteBlobFails, Inv, RowsInv
<1>7. /\ object' = object /\ lastId' = lastId /\ replica' = replica
      /\ UNCHANGED <<acked, overlapped, policy>>
  BY <1>3 DEF rowVars, historyVars
<1>8. Ordinary(r)
  BY <1>1, <1>3, <1>4, <1>5, <1>6, <1>7, QuietQueue, RequestIsOrdinary DEF Inv, RowsInv
<1>9. RecordedInv'
  BY <1>1, <1>4, <1>8, OrdinaryRecorded DEF Recorded, CopyPcs
<1>10. CoverInv'
  <2>1. ASSUME ~overlapped, Exists(proc[r].id), ~proc'[r].failed, NEW t \in Targets,
               blob'[t] # NoContent
        PROVE  t \in proc'[r].todo \/ Excused(t)'
    <3>1. Excused(t)' = Excused(t)
      BY <1>7 DEF Excused, AllAcked
    <3>2. t \in proc[r].todo \/ Excused(t)
      BY <1>1, <1>4, <1>6, <2>1 DEF Careful, Deleting
    <3>3. t # Current(r)
      BY <1>6, <2>1
    <3> QED BY <1>4, <3>1, <3>2, <3>3 DEF Rest
  <2>2. Exists(proc[r].id)' => Exists(proc[r].id)
    BY <1>4, <1>7 DEF Exists
  <2>3. ~overlapped => Careful(r)'
    BY <1>4, <2>1, <2>2 DEF Careful
  <2> QED BY <1>1, <1>6, <1>8, <2>3, OrdinaryCover
<1>11. PendingInv'
  BY <1>1, <1>3, <1>7, <1>8, OrdinaryPending DEF Queueing, queueVars
<1>12. BackedInv'
  BY <1>1, <1>8, OrdinaryBacked
<1> QED BY <1>1, <1>8, <1>9, <1>10, <1>11, <1>12, OrdinaryInv

\* A delete starts: unless it runs beside a write, it is going to every blob.
LEMMA StartDeleteInv ==
  ASSUME Inv, NEW r \in Requests, StartDelete(r)
  PROVE  Inv'
<1>1. /\ proc[r] = Idle /\ r \in Processes /\ r \notin Workers /\ policy' = policy
      /\ "delete" \in Kinds[r] /\ object.id \in Nat /\ object.id # 0
  BY StartFields DEF StartDelete
<1>2. /\ object' = object /\ lastId' = lastId /\ replica' = replica /\ blob' = blob
      /\ acked' = acked /\ UNCHANGED queueVars
      /\ overlapped' = (overlapped \/ \E p \in Processes : Writing(p))
  BY DEF StartDelete, rowVars, NoteOverlap
<1>3. PICK q : q = [Idle EXCEPT !.pc = "delete", !.op = "delete", !.id = object.id,
                                !.todo = DeleteTargets]
  OBVIOUS
<1>4. /\ q \in ProcState
      /\ q.pc = "delete" /\ q.op = "delete" /\ q.id = object.id /\ q.todo = DeleteTargets
  BY <1>1, <1>3, IdleFields, RowsAreTargets DEF ProcState, Pcs
<1>5. Moves(r) /\ proc'[r] = q
  BY <1>1, <1>3, <1>4 DEF StartDelete, Inv, ProcInv, Moves
<1>6. Shape(q) /\ q.id <= lastId /\ lastId \in Nat
  BY <1>4 DEF Shape, At, Inv, RowsInv
<1>7. /\ QueueInv' /\ JobsKept /\ Queue!Ids' = Queue!Ids /\ OnlyLoop(r)
      /\ jobs' = jobs /\ faults' = faults
  BY <1>1, <1>2, QuietQueue
<1>8. ProcInv'
  <2>1. proc'[r].id <= lastId' /\ lastId' \in Nat /\ lastId <= lastId'
    BY <1>1, <1>2, <1>4, <1>5, <1>6, <1>7
  <2>2. \A s \in Requests : acked'[s] = acked[s]
    BY <1>1, <1>2, <1>4, <1>5, <1>6, <1>7
  <2>3. Moves(r) /\ Shape(proc'[r]) /\ proc'[r].op \notin {"job", "upload"}
    BY <1>1, <1>2, <1>4, <1>5, <1>6, <1>7
  <2> QED BY <1>1, <1>7, <2>1, <2>2, <2>3, ProcStays
<1>9. RowsInv'
  <2>1. overlapped' \in BOOLEAN
    BY <1>2 DEF Inv, RowsInv
  <2> QED BY <1>2, <1>7, <2>1 DEF Inv, RowsInv
<1>10. RecordedInv'
  <2>1. Recorded(r)'
    BY <1>4, <1>5 DEF Recorded, CopyPcs
  <2>2. RowsKept
    BY <1>2 DEF RowsKept
  <2>3. object'.id # 0 /\ object'.primary # Primary => replica'[object'.primary] # "none"
    BY <1>2 DEF Inv, RecordedInv
  <2> QED BY <1>1, <1>5, <1>7, <2>1, <2>2, <2>3, RecordedStays
<1>11. CoverInv'
  <2> SUFFICES ASSUME ~overlapped'
               PROVE  CoverInv'
    BY DEF CoverInv
  <2>1. ~overlapped /\ \A p \in Processes : ~Writing(p)
    BY <1>2
  <2>2. ~Writing(r)' /\ \A p \in Processes : p # r => ~Writing(p)'
    BY <1>4, <1>5, <2>1 DEF Writing, Moves
  <2>3. Alone'
    BY <2>2 DEF Alone
  <2>4. \A t \in Targets : Excused(t)' = Excused(t) /\ Covered(t)' = Covered(t)
    BY <1>2 DEF Excused, AllAcked, Covered, DeleteTargets, Rows
  <2>5. \A t \in Targets : blob[t] # NoContent => Covered(t) \/ Excused(t)
    BY <2>1 DEF Inv, CoverInv
  <2>6. Careful(r)'
    <3>1. \A t \in Targets : blob'[t] # NoContent => t \in proc'[r].todo \/ Excused(t)'
      BY <1>2, <1>4, <1>5, <2>4, <2>5 DEF Covered
    <3> QED BY <1>4, <1>5, <3>1 DEF Careful
  <2>7. object'.id # 0 => replica'[Primary] # "none" \/ ~AllAcked'
    BY <1>2, <2>1 DEF Inv, CoverInv, AllAcked
  <2> QED BY <1>1, <1>2, <1>5, <2>1, <2>3, <2>4, <2>5, <2>6, <2>7, CoverStays
<1>12. PendingInv'
  BY <1>1, <1>2, <1>5, <1>7, IdleFields, PendingStays DEF Queueing
<1>13. BackedInv'
  BY <1>1, <1>5, BackedStays DEF NoDeletes
<1> QED BY <1>7, <1>8, <1>9, <1>10, <1>11, <1>12, <1>13 DEF Inv

\* A delete that has seen to every target, none of which failed, deletes the row.
LEMMA DeleteObjectInv ==
  ASSUME Inv, NEW r \in Requests, DeleteObject(r)
  PROVE  Inv'
<1>1. /\ r \in Processes /\ r \notin Workers /\ proc[r].pc = "delete" /\ proc[r].todo = {}
      /\ proc[r].op = "delete" /\ Deleting(r) /\ ~Writing(r)
      /\ ~overlapped => Careful(r) /\ Alone
      /\ ~NoDeletes
  BY DeleteFacts DEF DeleteObject
<1>2. /\ UNCHANGED <<queueVars, lastId, blob, acked, overlapped, policy>> /\ End(r)
      /\ \/ /\ Exists(proc[r].id) /\ ~proc[r].failed
            /\ object' = NoObject /\ replica' = NoRow
         \/ object' = object /\ replica' = replica
  BY DEF DeleteObject, historyVars
<1>3. Moves(r) /\ proc'[r] = Idle
  BY <1>1, <1>2, EndFields DEF Inv
<1>4. /\ proc'[r].pc = "idle" /\ proc'[r].op = "none" /\ proc'[r].id = 0 /\ Shape(proc'[r])
      /\ lastId \in Nat /\ lastId' = lastId
  BY <1>2, <1>3, IdleFields DEF Inv, RowsInv
<1>5. /\ QueueInv' /\ JobsKept /\ Queue!Ids' = Queue!Ids /\ OnlyLoop(r)
      /\ jobs' = jobs /\ faults' = faults
  BY <1>1, <1>2, QuietQueue
<1>6. ProcInv'
  <2>1. proc'[r].id <= lastId' /\ lastId' \in Nat /\ lastId <= lastId'
    BY <1>1, <1>2, <1>3, <1>4, <1>5
  <2>2. \A s \in Requests : acked'[s] = acked[s]
    BY <1>1, <1>2, <1>3, <1>4, <1>5
  <2>3. Moves(r) /\ Shape(proc'[r]) /\ proc'[r].op \notin {"job", "upload"}
    BY <1>1, <1>2, <1>3, <1>4, <1>5
  <2> QED BY <1>1, <1>5, <2>1, <2>2, <2>3, ProcStays
<1>7. /\ NoObject \in Row /\ NoObject.id = 0
      /\ NoRow \in [Targets -> Statuses \cup {"none"}]
      /\ \A t \in Targets : NoRow[t] = "none"
  BY DEF NoObject, NoRow, Row, Targets
<1>8. RowsInv'
  BY <1>2, <1>4, <1>5, <1>7 DEF Inv, RowsInv
<1>9. RecordedInv'
  <2>1. Recorded(r)'
    BY <1>4 DEF Recorded, CopyPcs
  <2>2. RowsKept
    BY <1>2, <1>7 DEF RowsKept
  <2>3. object'.id # 0 /\ object'.primary # Primary => replica'[object'.primary] # "none"
    BY <1>2, <1>7 DEF Inv, RecordedInv
  <2> QED BY <1>1, <1>3, <1>5, <2>1, <2>2, <2>3, RecordedStays
<1>10. CoverInv'
  <2> SUFFICES ASSUME ~overlapped
               PROVE  CoverInv'
    BY <1>2 DEF CoverInv
  <2>1. \A p \in Processes : ~Writing(p)
    BY <1>1 DEF Alone
  <2>2. \A p \in Processes : ~Writing(p)'
    BY <1>3, <1>4, <2>1 DEF Writing, Moves
  <2>3. Alone'
    BY <2>2 DEF Alone
  <2>4. Careful(r)'
    BY <1>4 DEF Careful, Deleting
  <2>5. \A t \in Targets : Excused(t)' = Excused(t)
    BY <1>2 DEF Excused, AllAcked
  <2>6. object'.id \in {object.id, 0}
    BY <1>2, <1>7
  <2>7. ASSUME NEW t \in Targets, blob'[t] # NoContent
        PROVE  (Covered(t) \/ Excused(t))'
    <3>1. CASE Exists(proc[r].id) /\ ~proc[r].failed
      <4>1. Excused(t)
        BY <1>1, <1>2, <2>7, <3>1 DEF Careful
      <4> QED BY <2>5, <4>1
    <3>2. CASE object' = object /\ replica' = replica
      <4>1. Covered(t) \/ Excused(t)
        BY <1>2, <2>7 DEF Inv, CoverInv
      <4>2. Covered(t)' = Covered(t)
        BY <3>2 DEF Covered, DeleteTargets, Rows
      <4> QED BY <2>5, <4>1, <4>2
    <3> QED BY <1>2, <3>1, <3>2
  <2>8. object'.id # 0 => replica'[Primary] # "none" \/ ~AllAcked'
    BY <1>2, <1>7 DEF Inv, CoverInv, AllAcked
  <2> QED BY <1>1, <1>2, <1>3, <2>1, <2>3, <2>4, <2>5, <2>6, <2>7, <2>8, CoverStays
<1>11. PendingInv'
  <2>1. \A t \in Targets : replica'[t] = "pending" => replica[t] = "pending" /\ object' = object
    BY <1>2, <1>7
  <2> QED BY <1>1, <1>2, <1>3, <1>5, <2>1, PendingStays DEF Queueing
<1>12. BackedInv'
  BY <1>1, <1>3, BackedStays
<1> QED BY <1>5, <1>6, <1>8, <1>9, <1>10, <1>11, <1>12 DEF Inv

\* The primary is switched to a target that has a row, and the old one keeps its.
LEMMA UpdatePrimaryTargetInv ==
  ASSUME Inv, NEW r \in Requests, UpdatePrimaryTarget(r)
  PROVE  Inv'
<1>1. r \in Processes /\ r \notin Workers /\ proc[r].pc = "switch"
  BY Disjoint DEF UpdatePrimaryTarget
<1>2. PICK t \in Targets : t = proc[r].target
  BY <1>1, ProcFields DEF Inv
<1>3. HasRow(proc[r].id, t)
  BY <1>1, <1>2 DEF Inv, RecordedInv, Recorded
<1>4. /\ UNCHANGED <<queueVars, lastId, replica, blob, acked, overlapped, policy>> /\ End(r)
      /\ \/ Exists(proc[r].id) /\ object' = [object EXCEPT !.primary = t]
         \/ object' = object
  BY <1>2 DEF UpdatePrimaryTarget, historyVars
<1>5. Moves(r) /\ proc'[r] = Idle
  BY <1>1, <1>4, EndFields DEF Inv
<1>6. /\ proc'[r].pc = "idle" /\ proc'[r].op = "none" /\ proc'[r].id = 0 /\ Shape(proc'[r])
      /\ lastId \in Nat /\ lastId' = lastId
  BY <1>4, <1>5, IdleFields DEF Inv, RowsInv
<1>7. /\ QueueInv' /\ JobsKept /\ Queue!Ids' = Queue!Ids /\ OnlyLoop(r)
      /\ jobs' = jobs /\ faults' = faults
  BY <1>1, <1>4, QuietQueue
<1>8. ProcInv'
  <2>1. proc'[r].id <= lastId' /\ lastId' \in Nat /\ lastId <= lastId'
    BY <1>1, <1>4, <1>5, <1>6, <1>7
  <2>2. \A s \in Requests : acked'[s] = acked[s]
    BY <1>1, <1>4, <1>5, <1>6, <1>7
  <2>3. Moves(r) /\ Shape(proc'[r]) /\ proc'[r].op \notin {"job", "upload"}
    BY <1>1, <1>4, <1>5, <1>6, <1>7
  <2> QED BY <1>1, <1>7, <2>1, <2>2, <2>3, ProcStays
<1>9. /\ object' \in Row /\ object'.id = object.id
      /\ \/ object'.primary = object.primary
         \/ object'.primary = t /\ replica[t] # "none"
  BY <1>3, <1>4 DEF Inv, RowsInv, Row, HasRow
<1>10. RowsInv'
  BY <1>4, <1>7, <1>9 DEF Inv, RowsInv
<1>11. RecordedInv'
  <2>1. Recorded(r)'
    BY <1>6 DEF Recorded, CopyPcs
  <2>2. RowsKept
    BY <1>4, <1>9 DEF RowsKept
  <2>3. object'.id # 0 /\ object'.primary # Primary => replica'[object'.primary] # "none"
    BY <1>4, <1>9 DEF Inv, RecordedInv
  <2> QED BY <1>1, <1>5, <1>7, <2>1, <2>2, <2>3, RecordedStays
<1>12. CoverInv'
  <2> SUFFICES ASSUME ~overlapped
               PROVE  CoverInv'
    BY <1>4 DEF CoverInv
  <2>1. /\ Alone
        /\ \A u \in Targets : blob[u] # NoContent => Covered(u) \/ Excused(u)
        /\ object.id # 0 => replica[Primary] # "none" \/ ~AllAcked
    BY DEF Inv, CoverInv
  <2>2. Alone'
    BY <1>5, <1>6, <2>1 DEF Alone, Moves, Writing, Deleting
  <2>3. Careful(r)'
    BY <1>6 DEF Careful, Deleting
  <2>4. AllAcked' = AllAcked /\ \A u \in Targets : Excused(u)' = Excused(u)
    BY <1>4 DEF Excused, AllAcked
  <2>5. ASSUME NEW u \in Targets, Covered(u)
        PROVE  (Covered(u) \/ Excused(u))'
    <3>1. CASE u \in Rows
      BY <1>4, <1>9, <2>5, <3>1 DEF Covered, DeleteTargets, Rows
    <3>2. CASE u = object.primary /\ u \notin Rows
      <4>1. replica[u] = "none"
        BY <3>2 DEF Rows
      <4>2. u = Primary
        BY <2>5, <3>2, <4>1 DEF Inv, RecordedInv, Covered
      <4>3. Excused(u)
        BY <2>1, <2>5, <4>1, <4>2 DEF Covered, Excused
      <4> QED BY <2>4, <4>3
    <3> QED BY <2>5, <3>1, <3>2 DEF Covered, DeleteTargets
  <2> QED BY <1>1, <1>4, <1>5, <1>9, <2>1, <2>2, <2>3, <2>4, <2>5, CoverStays
<1>13. PendingInv'
  BY <1>1, <1>4, <1>5, <1>7, <1>9, PendingStays DEF Queueing
<1>14. BackedInv'
  BY <1>4, <1>5, <1>6, <1>1, BackedStays DEF Backed, Deleting
<1> QED BY <1>7, <1>8, <1>10, <1>11, <1>12, <1>13, <1>14 DEF Inv

-----------------------------------------------------------------------------
(* An upload's first and last step, and the object's row.                  *)

\* An upload starts: it is not answered, and a delete beside it is noted.
LEMMA StartUploadInv ==
  ASSUME Inv, NEW r \in Requests, NEW c \in Contents, StartUpload(r, c)
  PROVE  Inv'
<1>1. /\ proc[r] = Idle /\ r \in Processes /\ r \notin Workers /\ policy' = policy
  BY StartFields DEF StartUpload
<1>2. /\ object' = object /\ lastId' = lastId /\ replica' = replica /\ blob' = blob
      /\ acked' = [acked EXCEPT ![r] = FALSE] /\ UNCHANGED queueVars
      /\ overlapped' = (overlapped \/ \E p \in Processes : Deleting(p))
  BY DEF StartUpload, rowVars, NoteOverlap
<1>3. PICK q : q = [Idle EXCEPT !.pc = "put", !.op = "upload", !.content = c]
  OBVIOUS
<1>4. /\ q \in ProcState
      /\ q.pc = "put" /\ q.op = "upload" /\ q.id = 0 /\ q.content = c
  BY <1>1, <1>3, IdleFields DEF ProcState, Pcs
<1>5. Moves(r) /\ proc'[r] = q
  BY <1>1, <1>3, <1>4 DEF StartUpload, Inv, ProcInv, Moves
<1>6. Shape(q) /\ lastId \in Nat /\ q.id <= lastId
  BY <1>4 DEF Shape, At, Inv, RowsInv
<1>7. /\ QueueInv' /\ JobsKept /\ Queue!Ids' = Queue!Ids /\ OnlyLoop(r)
      /\ jobs' = jobs /\ faults' = faults
  BY <1>1, <1>2, QuietQueue
<1>8. /\ acked' \in [Requests -> BOOLEAN] /\ ~acked'[r] /\ ~AllAcked'
      /\ \A s \in Requests : s # r => acked'[s] = acked[s]
  BY <1>2 DEF Inv, RowsInv, AllAcked
<1>9. ProcInv'
  <2>1. proc'[r].id <= lastId' /\ lastId' \in Nat /\ lastId <= lastId'
    BY <1>2, <1>5, <1>6
  <2>2. Moves(r) /\ Shape(proc'[r]) /\ proc'[r].op = "upload"
    BY <1>4, <1>5, <1>6
  <2> QED BY <1>1, <1>7, <1>8, <2>1, <2>2, ProcStays
<1>10. RowsInv'
  <2>1. overlapped' \in BOOLEAN
    BY <1>2 DEF Inv, RowsInv
  <2> QED BY <1>2, <1>7, <1>8, <2>1 DEF Inv, RowsInv
<1>11. RecordedInv'
  <2>1. Recorded(r)'
    BY <1>4, <1>5 DEF Recorded, CopyPcs
  <2>2. RowsKept
    BY <1>2 DEF RowsKept
  <2>3. object'.id # 0 /\ object'.primary # Primary => replica'[object'.primary] # "none"
    BY <1>2 DEF Inv, RecordedInv
  <2> QED BY <1>1, <1>5, <1>7, <2>1, <2>2, <2>3, RecordedStays
<1>12. CoverInv'
  <2> SUFFICES ASSUME ~overlapped'
               PROVE  CoverInv'
    BY DEF CoverInv
  <2>1. ~overlapped /\ \A p \in Processes : ~Deleting(p)
    BY <1>2
  <2>2. \A p \in Processes : ~Deleting(p)'
    BY <1>4, <1>5, <2>1 DEF Deleting, Moves
  <2>3. Alone'
    BY <2>2 DEF Alone
  <2>4. Careful(r)'
    BY <1>1, <1>4, <1>5, <2>2 DEF Careful
  <2>5. \A t \in Targets : (Covered(t) \/ Excused(t)) => (Covered(t) \/ Excused(t))'
    BY <1>2, <1>8 DEF Excused, Covered, DeleteTargets, Rows
  <2>6. \A t \in Targets : blob[t] # NoContent => Covered(t) \/ Excused(t)
    BY <2>1 DEF Inv, CoverInv
  <2> QED BY <1>1, <1>2, <1>5, <1>8, <2>1, <2>3, <2>4, <2>5, <2>6, CoverStays
<1>13. PendingInv'
  BY <1>1, <1>2, <1>5, <1>7, IdleFields, PendingStays DEF Queueing
<1>14. BackedInv'
  <2>1. c # NoContent
    BY ContentsAssumption
  <2>2. Backed(r)'
    BY <1>4, <1>5, <2>1 DEF Backed, Deleting
  <2> QED BY <1>1, <1>2, <1>5, <2>2, BackedStays
<1> QED BY <1>7, <1>9, <1>10, <1>11, <1>12, <1>13, <1>14 DEF Inv

\* The object's row is written: an old one keeps its id and its replicas, a new
\* one gets an id that nothing refers to.
LEMMA SaveObjectInv ==
  ASSUME Inv, NEW r \in Requests, SaveObject(r)
  PROVE  Inv'
<1>1. /\ r \in Processes /\ r \notin Workers /\ proc[r].pc = "save" /\ proc[r].op = "upload"
      /\ Shape(proc[r]) /\ ~acked[r] /\ ~AllAcked /\ Writing(r)
      /\ proc[r].content \in Contents \cup {NoContent}
      /\ Primary \in Targets
      /\ NoDeletes => Backed(r) /\ proc[r].content # NoContent
  BY UploadFacts DEF SaveObject
<1>2. UNCHANGED <<queueVars, replica, blob, acked, overlapped, policy>>
  BY DEF SaveObject, historyVars
<1>3. /\ object \in Row /\ object.id \in Nat /\ lastId \in Nat /\ object.id <= lastId
      /\ object.id = 0 => replica = NoRow
  BY DEF Inv, RowsInv, Row
<1> DEFINE id == IF object.id = 0 THEN lastId + 1 ELSE object.id
<1>4. /\ id \in Nat
      /\ object' = [id |-> id, content |-> proc[r].content, primary |-> Primary]
      /\ lastId' = IF object.id = 0 THEN id ELSE lastId
      /\ proc' = [proc EXCEPT ![r] = [@ EXCEPT !.pc = "mark", !.id = id]]
      /\ id = IF object.id = 0 THEN lastId + 1 ELSE object.id
  BY <1>3 DEF SaveObject
<1> HIDE DEF id
<1>5. /\ object' \in Row /\ object'.id = id /\ object'.primary = Primary
      /\ id # 0 /\ id <= lastId' /\ lastId' \in Nat /\ lastId <= lastId'
      /\ object.id # 0 => object'.id = object.id
      /\ object.id = 0 => object'.id = lastId + 1
  BY <1>1, <1>3, <1>4 DEF Row
<1>6. PICK q : q = [proc[r] EXCEPT !.pc = "mark", !.id = id]
  OBVIOUS
<1>7. /\ q \in ProcState
      /\ q.pc = "mark" /\ q.op = "upload" /\ q.id = id /\ q.content = proc[r].content
  BY <1>1, <1>4, <1>6 DEF Shape, ProcState, Pcs
<1>8. Moves(r) /\ proc'[r] = q
  BY <1>1, <1>4, <1>6, <1>7 DEF Inv, ProcInv, Moves
<1>9. Shape(q)
  BY <1>7 DEF Shape, At
<1>10. /\ QueueInv' /\ JobsKept /\ Queue!Ids' = Queue!Ids /\ OnlyLoop(r)
       /\ jobs' = jobs /\ faults' = faults
  BY <1>1, <1>2, QuietQueue
<1>11. ProcInv'
  <2>1. proc'[r].id <= lastId' /\ lastId' \in Nat /\ lastId <= lastId'
    BY <1>5, <1>7, <1>8
  <2>2. Moves(r) /\ Shape(proc'[r]) /\ proc'[r].op = "upload" /\ ~acked'[r]
    BY <1>1, <1>2, <1>7, <1>8, <1>9
  <2>3. \A s \in Requests : acked'[s] = acked[s]
    BY <1>2
  <2> QED BY <1>1, <1>10, <2>1, <2>2, <2>3, ProcStays
<1>12. RowsInv'
  <2>1. \A i \in Queue!Ids : jobs[i].payload.object <= lastId'
    <3>1. \A i \in Queue!Ids : jobs[i].payload.object \in Nat
      BY QueueFacts DEF Inv, Queue!Job
    <3> QED BY <1>3, <1>5, <3>1 DEF Inv, RowsInv
  <2> QED BY <1>2, <1>5, <1>10, <2>1 DEF Inv, RowsInv
<1>13. RecordedInv'
  <2>1. Recorded(r)'
    BY <1>7, <1>8 DEF Recorded, CopyPcs
  <2>2. RowsKept
    BY <1>2, <1>5 DEF RowsKept
  <2> QED BY <1>1, <1>5, <1>8, <1>10, <2>1, <2>2, RecordedStays
<1>14. CoverInv'
  <2> SUFFICES ASSUME ~overlapped
               PROVE  CoverInv'
    BY <1>2 DEF CoverInv
  <2>1. Alone /\ \A t \in Targets : blob[t] # NoContent => Covered(t) \/ Excused(t)
    BY DEF Inv, CoverInv
  <2>2. \A p \in Processes : ~Deleting(p)
    BY <1>1, <2>1 DEF Alone
  <2>3. \A p \in Processes : ~Deleting(p)'
    BY <1>7, <1>8, <2>2 DEF Deleting, Moves
  <2>4. Alone'
    BY <2>3 DEF Alone
  <2>5. Careful(r)'
    BY <1>1, <1>5, <1>7, <1>8, <2>3 DEF Careful, Exists
  <2>6. ~AllAcked' /\ \A t \in Targets : Excused(t)' = Excused(t)
    BY <1>1, <1>2 DEF Excused, AllAcked
  <2>7. ASSUME NEW t \in Targets, Covered(t) \/ Excused(t)
        PROVE  (Covered(t) \/ Excused(t))'
    <3>1. CASE t = Primary
      BY <1>1, <2>6, <3>1 DEF Excused
    <3>2. CASE t # Primary
      <4>1. t = object.primary \/ t \in Rows
        BY <2>7, <3>2 DEF Covered, Excused, DeleteTargets
      <4>2. replica[t] # "none"
        BY <2>7, <3>2, <4>1 DEF Inv, RecordedInv, Covered, Excused, Rows
      <4> QED BY <1>2, <1>5, <4>2 DEF Covered, DeleteTargets, Rows
    <3> QED BY <3>1, <3>2
  <2>8. \A p \in Processes : Exists(proc[p].id) => object'.id = object.id
    BY <1>5 DEF Exists
  <2> QED BY <1>1, <1>2, <1>8, <2>1, <2>2, <2>4, <2>5, <2>6, <2>7, <2>8, CoverStays
<1>15. PendingInv'
  <2>1. \A t \in Targets : replica[t] = "pending" => object'.id = object.id
    BY <1>3, <1>5 DEF NoRow
  <2> QED BY <1>1, <1>2, <1>8, <1>10, <2>1, PendingStays DEF Queueing
<1>16. BackedInv'
  <2>1. NoDeletes => Backed(r)'
    BY <1>1, <1>2, <1>7, <1>8 DEF Backed, Deleting
  <2> QED BY <1>1, <1>2, <1>8, <2>1, BackedStays
<1> QED BY <1>10, <1>11, <1>12, <1>13, <1>14, <1>15, <1>16 DEF Inv

\* The upload is answered: by now the primary has its row, and needs no excuse.
LEMMA FinishUploadInv ==
  ASSUME Inv, NEW r \in Requests, FinishUpload(r)
  PROVE  Inv'
<1>1. /\ r \in Processes /\ r \notin Workers /\ proc[r].pc = "backups"
      /\ proc[r].op = "upload" /\ Writing(r)
      /\ ~overlapped => Careful(r)
      /\ Primary \in Targets
  BY UploadFacts DEF FinishUpload
<1>2. /\ object' = object /\ lastId' = lastId /\ replica' = replica /\ blob' = blob
      /\ acked' = [acked EXCEPT ![r] = TRUE] /\ overlapped' = overlapped /\ policy' = policy
      /\ UNCHANGED queueVars /\ End(r)
  BY DEF FinishUpload, rowVars
<1>3. Moves(r) /\ proc'[r] = Idle
  BY <1>1, <1>2, EndFields DEF Inv
<1>4. /\ proc'[r].pc = "idle" /\ proc'[r].op = "none" /\ proc'[r].id = 0 /\ Shape(proc'[r])
      /\ lastId \in Nat
  BY <1>3, IdleFields DEF Inv, RowsInv
<1>5. /\ QueueInv' /\ JobsKept /\ Queue!Ids' = Queue!Ids /\ OnlyLoop(r)
      /\ jobs' = jobs /\ faults' = faults
  BY <1>1, <1>2, QuietQueue
<1>6. /\ acked' \in [Requests -> BOOLEAN]
      /\ \A s \in Requests : s # r => acked'[s] = acked[s]
  BY <1>2 DEF Inv, RowsInv
<1>7. ProcInv'
  <2>1. proc'[r].id <= lastId' /\ lastId' \in Nat /\ lastId <= lastId'
    BY <1>2, <1>4
  <2> QED BY <1>1, <1>3, <1>4, <1>5, <1>6, <2>1, ProcStays
<1>8. RowsInv'
  BY <1>2, <1>5, <1>6 DEF Inv, RowsInv
<1>9. RecordedInv'
  <2>1. Recorded(r)'
    BY <1>4 DEF Recorded, CopyPcs
  <2>2. RowsKept
    BY <1>2 DEF RowsKept
  <2>3. object'.id # 0 /\ object'.primary # Primary => replica'[object'.primary] # "none"
    BY <1>2 DEF Inv, RecordedInv
  <2> QED BY <1>1, <1>3, <1>5, <2>1, <2>2, <2>3, RecordedStays
<1>10. CoverInv'
  <2> SUFFICES ASSUME ~overlapped
               PROVE  CoverInv'
    BY <1>2 DEF CoverInv
  <2>1. Alone /\ \A t \in Targets : blob[t] # NoContent => Covered(t) \/ Excused(t)
    BY DEF Inv, CoverInv
  <2>2. \A p \in Processes : ~Deleting(p)
    BY <1>1, <2>1 DEF Alone
  <2>3. \A p \in Processes : ~Deleting(p)'
    BY <1>3, <1>4, <2>2 DEF Deleting, Moves
  <2>4. Alone'
    BY <2>3 DEF Alone
  <2>5. Careful(r)'
    BY <1>4, <2>3, <1>1 DEF Careful
  <2>6. object.id # 0 /\ replica[Primary] # "none"
    BY <1>1 DEF Careful, Exists
  <2>7. \A t \in Targets : (Covered(t) \/ Excused(t)) => (Covered(t) \/ Excused(t))'
    BY <1>1, <1>2, <2>6 DEF Covered, Excused, DeleteTargets, Rows
  <2> QED BY <1>1, <1>2, <1>3, <2>1, <2>2, <2>4, <2>5, <2>6, <2>7, CoverStays
<1>11. PendingInv'
  BY <1>1, <1>2, <1>3, <1>5, PendingStays DEF Queueing
<1>12. BackedInv'
  BY <1>1, <1>2, <1>3, <1>4, BackedStays DEF Backed, Deleting
<1> QED BY <1>5, <1>7, <1>8, <1>9, <1>10, <1>11, <1>12 DEF Inv

-----------------------------------------------------------------------------
(* The job loops, a restart, and nothing.                                  *)

\* A loop takes a job and starts to replicate what its row says.
LEMMA StartJobInv ==
  ASSUME Inv, NEW w \in Workers, StartJob(w)
  PROVE  Inv'
<1>1. /\ w \in Processes /\ w \notin Requests
  BY WorkersAssumption DEF Processes
<1>2. /\ object' = object /\ lastId' = lastId /\ replica' = replica /\ blob' = blob
      /\ acked' = acked /\ policy' = policy
      /\ overlapped' = (overlapped \/ \E p \in Processes : Deleting(p))
      /\ Queue!NextQueuedJob(w)
  BY DEF StartJob, rowVars, NoteOverlap
<1>3. PICK i \in Queue!Ids :
        /\ i = worker'[w].job /\ OnlyRow(i) /\ OnlyLoop(w) /\ faults' = faults
        /\ jobs[i].status = "queued"
        /\ worker[w].pc = "poll" /\ worker'[w].pc = "run"
  BY <1>2, TakeEffect DEF Inv
<1>4. QueueInv'
  BY <1>2, LoopKeepsQueueInv DEF Inv
<1>5. PICK id \in Nat, t \in Targets : jobs[i].payload = [object |-> id, target |-> t]
  BY QueueFacts DEF Inv, Queue!Job
<1>6. /\ JobsKept /\ Queue!Ids' = Queue!Ids /\ id <= lastId /\ HasRow(id, t)
      /\ jobs'[i].payload = [object |-> id, target |-> t]
  BY <1>3, <1>5 DEF OnlyRow, JobsKept, Inv, RowsInv, RecordedInv
<1>7. PICK q : q = [proc[w] EXCEPT !.pc = "load", !.op = "job", !.id = id, !.target = t]
  OBVIOUS
<1>8. Shape(proc[w])
  BY <1>1, ProcFields DEF Inv
<1>9. /\ q \in ProcState
      /\ q.pc = "load" /\ q.op = "job" /\ q.id = id /\ q.target = t
  BY <1>7, <1>8 DEF Shape, ProcState, Pcs, CopyPcs
<1>10. Moves(w) /\ proc'[w] = q
  BY <1>1, <1>3, <1>5, <1>7, <1>9 DEF StartJob, Inv, ProcInv, Moves
<1>11. Shape(q) /\ q.id <= lastId /\ lastId \in Nat
  BY <1>6, <1>9 DEF Shape, At, CopyPcs, Inv, RowsInv
<1>12. ProcInv'
  <2>1. proc'[w].id <= lastId' /\ lastId' \in Nat /\ lastId <= lastId'
    BY <1>2, <1>10, <1>11
  <2>2. Moves(w) /\ Shape(proc'[w]) /\ proc'[w].op = "job"
    BY <1>9, <1>10, <1>11
  <2>3. jobs'[worker'[w].job].payload = [object |-> proc'[w].id, target |-> proc'[w].target]
    BY <1>3, <1>6, <1>9, <1>10
  <2>4. JobsKept /\ OnlyLoop(w) /\ worker'[w].pc = "run"
    BY <1>3, <1>6
  <2> QED BY <1>1, <1>2, <2>1, <2>2, <2>3, <2>4, ProcStays
<1>13. RowsInv'
  <2>1. overlapped' \in BOOLEAN
    BY <1>2 DEF Inv, RowsInv
  <2>2. \A k \in Queue!Ids' : jobs'[k].payload.object <= lastId
    BY <1>6 DEF JobsKept, Inv, RowsInv
  <2> QED BY <1>2, <2>1, <2>2 DEF Inv, RowsInv
<1>14. RecordedInv'
  <2>1. Recorded(w)'
    BY <1>2, <1>6, <1>9, <1>10 DEF Recorded, HasRow, Exists
  <2>2. RowsKept
    BY <1>2 DEF RowsKept
  <2>3. object'.id # 0 /\ object'.primary # Primary => replica'[object'.primary] # "none"
    BY <1>2 DEF Inv, RecordedInv
  <2> QED BY <1>1, <1>6, <1>10, <2>1, <2>2, <2>3, RecordedStays
<1>15. CoverInv'
  <2> SUFFICES ASSUME ~overlapped'
               PROVE  CoverInv'
    BY DEF CoverInv
  <2>1. ~overlapped /\ \A p \in Processes : ~Deleting(p)
    BY <1>2
  <2>2. \A p \in Processes : ~Deleting(p)'
    BY <1>9, <1>10, <2>1 DEF Deleting, Moves
  <2>3. Alone'
    BY <2>2 DEF Alone
  <2>4. Careful(w)'
    BY <1>1, <1>9, <1>10, <2>2 DEF Careful
  <2>5. AllAcked' = AllAcked /\ \A u \in Targets : (Covered(u) \/ Excused(u))' = (Covered(u) \/ Excused(u))
    BY <1>2 DEF Excused, AllAcked, Covered, DeleteTargets, Rows
  <2>6. /\ \A u \in Targets : blob[u] # NoContent => Covered(u) \/ Excused(u)
        /\ object.id # 0 => replica[Primary] # "none" \/ ~AllAcked
    BY <2>1 DEF Inv, CoverInv
  <2> QED BY <1>1, <1>2, <1>10, <2>1, <2>3, <2>4, <2>5, <2>6, CoverStays
<1>16. PendingInv'
  <2>1. ASSUME NEW u \in Targets, jobs[i].payload = Payload(u)
        PROVE  Attended(u)'
    <3>1. Trying(w, u)'
      BY <1>2, <1>3, <1>5, <1>6, <2>1 DEF Trying, Payload
    <3> QED BY <3>1 DEF Attended
  <2>2. \A k \in Queue!Ids : k # i => jobs'[k] = jobs[k]
    BY <1>3 DEF OnlyRow
  <2>3. ASSUME NEW u \in Targets, replica'[u] = "pending"
        PROVE  \/ /\ object'.id = object.id /\ replica[u] = "pending"
                  /\ ~Queueing(w, u)
                  /\ ~Trying(w, u)
                  /\ \A k \in Queue!Ids :
                       jobs[k].payload = Payload(u) /\ jobs[k].status \in {"queued", "failed"} =>
                         jobs'[k].status \in {"queued", "failed"}
               \/ Attended(u)'
    <3>1. CASE jobs[i].payload = Payload(u)
      BY <2>1, <3>1
    <3>2. CASE jobs[i].payload # Payload(u)
      <4>1. ~Trying(w, u)
        BY <1>3 DEF Trying
      <4>2. ~Queueing(w, u)
        <5>1. proc[w].op = "none"
          BY <1>3 DEF Inv, ProcInv
        <5> QED BY <1>8, <5>1 DEF Queueing, Shape, At
      <4> QED BY <1>2, <2>2, <2>3, <3>2, <4>1, <4>2
    <3> QED BY <3>1, <3>2
  <2>4. JobsKept /\ OnlyLoop(w)
    BY <1>3, <1>6
  <2> QED BY <1>1, <1>2, <1>3, <1>10, <2>3, <2>4, PendingStays
<1>17. BackedInv'
  <2>1. NoDeletes => Backed(w)'
    BY <1>9, <1>10 DEF Backed, Deleting
  <2> QED BY <1>1, <1>2, <1>10, <2>1, BackedStays
<1> QED BY <1>4, <1>12, <1>13, <1>14, <1>15, <1>16, <1>17 DEF Inv

\* The rest of the loop: looking for a job, and writing an outcome.
LEMMA QueueStepInv ==
  ASSUME Inv, NEW w \in Workers, QueueStep(w)
  PROVE  Inv'
<1>1. /\ w \in Processes /\ w \notin Requests
  BY WorkersAssumption DEF Processes
<1>2. /\ object' = object /\ lastId' = lastId /\ replica' = replica /\ blob' = blob
      /\ acked' = acked /\ policy' = policy /\ overlapped' = overlapped /\ proc' = proc
      /\ Queue!Tick(w) \/ Queue!NoQueuedJob(w) \/ Queue!FinishJob(w) \/ Queue!FailJob(w)
  BY DEF QueueStep, rowVars, historyVars
<1>3. QueueInv'
  BY <1>2, LoopKeepsQueueInv DEF Inv
<1>4. /\ Queue!Ids' = Queue!Ids /\ OnlyLoop(w) /\ faults' = faults /\ JobsKept
      /\ worker[w].pc # "run" /\ worker'[w].pc # "run"
      /\ \/ jobs' = jobs /\ worker[w].pc \notin {"run", "err"}
         \/ /\ \A k \in Queue!Ids : k # worker[w].job => jobs'[k] = jobs[k]
            /\ worker[w].job \in Queue!Ids
            /\ jobs[worker[w].job].status = "running"
            /\ worker[w].pc = "err" => jobs'[worker[w].job].status \in {"queued", "failed"}
  <2>1. CASE Queue!Tick(w) \/ Queue!NoQueuedJob(w)
    BY <2>1, WaitEffect DEF Inv, JobsKept
  <2>2. CASE Queue!FinishJob(w) \/ Queue!FailJob(w)
    BY <2>2, OutcomeEffect DEF Inv, JobsKept, OnlyRow
  <2> QED BY <1>2, <2>1, <2>2
<1>5. /\ Moves(w) /\ Shape(proc'[w]) /\ proc'[w].id <= lastId' /\ lastId' \in Nat
      /\ lastId <= lastId' /\ proc'[w].op = "none" /\ proc'[w] = proc[w]
  <2>1. proc[w].op = "none" /\ lastId \in Nat
    BY <1>4 DEF Inv, ProcInv, RowsInv
  <2> QED BY <1>1, <1>2, <2>1, ProcFields DEF Inv, ProcInv, Moves
<1>6. ProcInv'
  BY <1>1, <1>2, <1>4, <1>5, ProcStays
<1>7. RowsInv'
  <2>1. \A k \in Queue!Ids' : jobs'[k].payload.object <= lastId
    BY <1>4 DEF JobsKept, Inv, RowsInv
  <2> QED BY <1>2, <2>1 DEF Inv, RowsInv
<1>8. RecordedInv'
  <2>1. proc[w].pc = "idle"
    BY <1>2, <1>5 DEF Shape, At
  <2>2. Recorded(w)'
    BY <1>5, <2>1 DEF Recorded, CopyPcs
  <2>3. RowsKept
    BY <1>2 DEF RowsKept
  <2>4. object'.id # 0 /\ object'.primary # Primary => replica'[object'.primary] # "none"
    BY <1>2 DEF Inv, RecordedInv
  <2> QED BY <1>1, <1>4, <1>5, <2>2, <2>3, <2>4, RecordedStays
<1>9. CoverInv'
  BY <1>2 DEF Inv, CoverInv, Alone, Careful, Deleting, Writing, Exists, Covered, Excused,
              DeleteTargets, Rows, AllAcked
<1>10. PendingInv'
  <2>1. ASSUME NEW u \in Targets, replica'[u] = "pending"
        PROVE  \/ /\ object'.id = object.id /\ replica[u] = "pending"
                  /\ ~Queueing(w, u)
                  /\ ~Trying(w, u)
                  /\ \A k \in Queue!Ids :
                       jobs[k].payload = Payload(u) /\ jobs[k].status \in {"queued", "failed"} =>
                         jobs'[k].status \in {"queued", "failed"}
               \/ Attended(u)'
    <3>1. \A k \in Queue!Ids : jobs[k].status \in {"queued", "failed"} =>
                                 jobs'[k].status \in {"queued", "failed"}
      BY <1>4
    <3>2. ~Queueing(w, u)
      BY <1>2, <1>5 DEF Queueing, Shape, At
    <3>3. CASE Trying(w, u)
      <4>1. /\ worker[w].pc = "err" /\ worker[w].job \in Queue!Ids
            /\ jobs'[worker[w].job].status \in {"queued", "failed"}
            /\ jobs[worker[w].job].payload = Payload(u)
        BY <1>4, <3>3 DEF Trying
      <4>2. JobAt(u, {"queued", "failed"})'
        BY <1>2, <1>4, <4>1 DEF JobAt, Payload, JobsKept
      <4> QED BY <4>2 DEF Attended
    <3>4. CASE ~Trying(w, u)
      BY <1>2, <2>1, <3>1, <3>2, <3>4
    <3> QED BY <3>3, <3>4
  <2> QED BY <1>1, <1>2, <1>4, <1>5, <2>1, PendingStays
<1>11. BackedInv'
  <2>1. NoDeletes => Backed(w)'
    BY <1>5, <1>2 DEF Backed, Deleting, Shape, At
  <2> QED BY <1>1, <1>2, <1>5, <2>1, BackedStays
<1> QED BY <1>3, <1>6, <1>7, <1>8, <1>9, <1>10, <1>11 DEF Inv

\* The process stops and starts again: the rows stay, everything under way is lost.
LEMMA RestartInv ==
  ASSUME Inv, Restart
  PROVE  Inv'
<1>1. /\ object' = object /\ lastId' = lastId /\ replica' = replica /\ blob' = blob
      /\ acked' = acked /\ policy' = policy /\ overlapped' = overlapped
      /\ jobs' = jobs /\ faults' = faults + 1
      /\ worker' = [w \in Workers |-> Queue!NotHolding("wait")]
      /\ proc' = [p \in Processes |-> Idle]
  BY DEF Restart, Queue!Restart, rowVars, historyVars
<1>2. QueueInv' /\ faults' # 0
  BY <1>1, QueueFacts, FaultKeepsQueueInv DEF Inv
<1>3. Queue!Ids' = Queue!Ids
  BY <1>1 DEF Queue!Ids
<1>4. \A p \in Processes : proc'[p] = Idle
  BY <1>1
<1>5. ProcInv'
  <2>1. \A w \in Workers : worker'[w].pc # "run"
    BY <1>1 DEF Queue!NotHolding
  <2>2. lastId \in Nat
    BY DEF Inv, RowsInv
  <2>3. \A p \in Processes : /\ proc'[p].op = "none" /\ Shape(proc'[p])
                             /\ proc'[p].id <= lastId' /\ proc'[p] \in ProcState
    BY <1>1, <1>4, <2>2, IdleFields
  <2> QED BY <1>1, <2>1, <2>3 DEF ProcInv, Processes
<1>6. RowsInv'
  BY <1>1, <1>3 DEF Inv, RowsInv
<1>7. RecordedInv'
  <2>1. \A p \in Processes : Recorded(p)'
    BY <1>4, IdleFields DEF Recorded, CopyPcs
  <2>2. \A i \in Queue!Ids' : HasRow(jobs[i].payload.object, jobs[i].payload.target)'
    BY <1>1, <1>3 DEF Inv, RecordedInv, HasRow, Exists
  <2> QED BY <1>1, <2>1, <2>2 DEF Inv, RecordedInv
<1>8. CoverInv'
  <2>1. \A p \in Processes : ~Deleting(p)' /\ Careful(p)'
    BY <1>4, IdleFields DEF Deleting, Careful
  <2>2. AllAcked' = AllAcked /\ \A t \in Targets : (Covered(t) \/ Excused(t))' = (Covered(t) \/ Excused(t))
    BY <1>1 DEF Excused, AllAcked, Covered, DeleteTargets, Rows
  <2> QED BY <1>1, <2>1, <2>2 DEF Inv, CoverInv, Alone
<1>9. PendingInv'
  BY <1>2 DEF PendingInv
<1>10. BackedInv'
  <2>1. \A p \in Processes : Backed(p)'
    BY <1>4, IdleFields DEF Deleting, Backed
  <2> QED BY <1>1, <2>1 DEF Inv, BackedInv, ReadyIsBacked, NoDeletes
<1> QED BY <1>2, <1>5, <1>6, <1>7, <1>8, <1>9, <1>10 DEF Inv

-----------------------------------------------------------------------------
(* The theorems.                                                           *)

\* At the start nothing is stored and nothing runs.
LEMMA InitInv ==
  ASSUME Init
  PROVE  Inv
<1>1. /\ object = NoObject /\ lastId = 0 /\ replica = NoRow
      /\ blob = [t \in Targets |-> NoContent] /\ proc = [p \in Processes |-> Idle]
      /\ acked = [r \in Requests |-> TRUE] /\ overlapped = FALSE
      /\ jobs = <<>> /\ worker = [w \in Workers |-> Queue!NotHolding("wait")] /\ faults = 0
  BY DEF Init, Queue!Init
<1>2. QueueInv
  BY <1>1, QueueProofs!InitInv, BoundsAssumption
     DEF QueueInv, QueueProofs!Init, QueueProofs!NotHolding,
         Queue!NotHolding
<1>3. Queue!Ids = {}
  BY <1>1 DEF Queue!Ids
<1>4. /\ Primary \in Targets /\ NoObject \in Row /\ NoObject.id = 0
      /\ NoObject.primary = Primary
      /\ NoRow \in [Targets -> Statuses \cup {"none"}]
      /\ \A t \in Targets : NoRow[t] = "none"
  BY DEF NoObject, NoRow, Row, Targets
<1>5. ProcInv
  <2>1. \A p \in Processes : proc[p] = Idle
    BY <1>1
  <2>2. \A w \in Workers : worker[w].pc # "run"
    BY <1>1 DEF Queue!NotHolding
  <2> QED BY <1>1, <2>1, <2>2, IdleFields DEF ProcInv, Processes
<1>6. RowsInv
  <2>1. /\ object \in Row /\ lastId \in Nat /\ object.id <= lastId
        /\ replica \in [Targets -> Statuses \cup {"none"}]
        /\ blob \in [Targets -> Contents \cup {NoContent}]
        /\ replica = NoRow
    BY <1>1, <1>4
  <2>2. acked \in [Requests -> BOOLEAN]
    BY <1>1
  <2>3. overlapped \in BOOLEAN
    BY <1>1
  <2> QED BY <1>3, <2>1, <2>2, <2>3 DEF RowsInv
<1>7. RecordedInv
  BY <1>1, <1>3, <1>4, IdleFields DEF RecordedInv, Recorded, CopyPcs
<1>8. CoverInv
  <2>1. \A p \in Processes : ~Deleting(p) /\ Careful(p)
    BY <1>1, IdleFields DEF Deleting, Careful
  <2> QED BY <1>1, <1>4, <2>1 DEF CoverInv, Alone
<1>9. PendingInv
  BY <1>1, <1>4 DEF PendingInv
<1>10. BackedInv
  BY <1>1, <1>4, IdleFields DEF BackedInv, Backed, Deleting, ReadyIsBacked
<1> QED BY <1>2, <1>5, <1>6, <1>7, <1>8, <1>9, <1>10 DEF Inv

\* A step that changes nothing keeps what is known.
LEMMA StutterInv ==
  ASSUME Inv, UNCHANGED vars
  PROVE  Inv'
<1>1. /\ UNCHANGED queueVars /\ UNCHANGED rowVars /\ blob' = blob /\ proc' = proc
      /\ UNCHANGED historyVars
  BY DEF vars
<1>2. /\ object' = object /\ lastId' = lastId /\ replica' = replica
      /\ jobs' = jobs /\ worker' = worker /\ faults' = faults
      /\ policy' = policy /\ acked' = acked /\ overlapped' = overlapped
  BY <1>1 DEF queueVars, rowVars, historyVars
<1>3. QueueInv'
  BY <1>1, StutterKeepsQueueInv DEF Inv
<1>4. Queue!Ids' = Queue!Ids
  BY <1>2 DEF Queue!Ids
<1>5. ProcInv'
  BY <1>1, <1>2 DEF Inv, ProcInv
<1>6. RowsInv'
  BY <1>1, <1>2, <1>4 DEF Inv, RowsInv
<1>7. RecordedInv'
  BY <1>1, <1>2, <1>4 DEF Inv, RecordedInv, Recorded, HasRow, Exists, Current
<1>8. CoverInv'
  BY <1>1, <1>2 DEF Inv, CoverInv, Alone, Careful, Deleting, Writing, Exists, Covered, Excused,
                    DeleteTargets, Rows, AllAcked
<1>9. PendingInv'
  BY <1>1, <1>2, <1>4 DEF Inv, PendingInv, Attended, JobAt, Payload, Trying, Queueing, Current
<1>10. BackedInv'
  BY <1>1, <1>2 DEF Inv, BackedInv, Backed, Deleting, ReadyIsBacked, Current, NoDeletes
<1> QED BY <1>3, <1>5, <1>6, <1>7, <1>8, <1>9, <1>10 DEF Inv

\* Every step of replicateObject, wherever it runs.
LEMMA ReplicateInv ==
  ASSUME Inv, NEW p \in Processes, Replicate(p)
  PROVE  Inv'
BY LoadSourceInv, NothingToCopyInv, GetSourceInv, GetSourceFailsInv, PutBackupInv,
   MarkReadyInv, MarkFailedInv DEF Replicate

\* Every step of a request.
LEMMA RequestInv ==
  ASSUME Inv, NEW r \in Requests, Request(r)
  PROVE  Inv'
<1>1. CASE Upload(r)
  BY <1>1, StartUploadInv, PutPrimaryInv, PutPrimaryFailsInv, SaveObjectInv, MarkPrimaryInv,
     MarkBackupInv, QueueBackupInv, FinishUploadInv DEF Upload
<1>2. CASE Replicate(r)
  BY <1>2, Disjoint, ReplicateInv
<1>3. CASE Refresh(r)
  BY <1>3, StartRefreshInv, SkipInv, StatReplicaInv, MarkStatInv DEF Refresh
<1>4. CASE Repair(r)
  BY <1>4, StartRepairInv, SkipInv, MarkRepairInv, QueueRepairInv DEF Repair
<1>5. CASE Switch(r)
  BY <1>5, StartSwitchInv, UpdatePrimaryTargetInv DEF Switch
<1>6. CASE Delete(r)
  BY <1>6, StartDeleteInv, DeleteBlobInv, DeleteObjectInv DEF Delete
<1>7. CASE Answer(r)
  BY <1>7, AnswerInv
<1> QED
  BY <1>1, <1>2, <1>3, <1>4, <1>5, <1>6, <1>7 DEF Request

\* Every step there is.
LEMMA NextInv ==
  ASSUME Inv, [Next]_vars
  PROVE  Inv'
<1>1. CASE \E r \in Requests : Request(r) \/ Cancel(r)
  BY <1>1, RequestInv, CancelInv
<1>2. CASE \E w \in Workers : JobLoop(w)
  BY <1>2, QueueStepInv, StartJobInv, ReplicateInv DEF JobLoop, Processes
<1>3. CASE Restart
  BY <1>3, RestartInv
<1>4. CASE UNCHANGED vars
  BY <1>4, StutterInv
<1> QED
  BY <1>1, <1>2, <1>3, <1>4 DEF Next

\* The inductive invariant holds in every behaviour.
LEMMA Invariance == Spec => []Inv
<1>1. Init => Inv
  BY InitInv
<1>2. Inv /\ [Next]_vars => Inv'
  BY NextInv
<1> QED
  BY <1>1, <1>2, PTL DEF Spec

\* The queue, the object's row, its replicas and its blobs keep their types; the
\* rows of replicas go with the object (the foreign key of UpsertReplica).
THEOREM TypeCorrect == Spec => []TypeOK
<1>1. Inv => TypeOK
  BY QueueFacts DEF Inv, RowsInv, Row, TypeOK, Queue!TypeOK
<1> QED
  BY <1>1, Invariance, PTL

\* Deleting an object leaves no blob behind, at any number of targets and however
\* switches, repairs, refreshes, copies, failed deletes and restarts interleave:
\* whatever was ever written somewhere is the primary's, or has a replica row that
\* the delete goes by, unless an upload failed or a write ran beside the delete.
THEOREM DeletesLeaveNothing == Spec => []NoOrphans
<1>1. Inv => NoOrphans
  BY DEF Inv, CoverInv, NoOrphans, Covered, Excused
<1> QED
  BY <1>1, Invariance, PTL

\* A pending replica has a job that is queued, runs or was given up, or a request
\* that is about to queue one, as long as no fault has cut a request short and the
\* policy does not copy within the upload.
THEOREM PendingIsSeenTo == Spec => []PendingHasJob
<1>1. ASSUME Inv
      PROVE  PendingHasJob
  <2> SUFFICES ASSUME faults = 0, policy # "require_backups",
                      NEW t \in Targets, replica[t] = "pending"
               PROVE  \/ JobAt(t, {"queued", "running", "failed"})
                      \/ \E r \in Requests : AboutToReplicate(r, t)
    BY DEF PendingHasJob
  <2>1. Attended(t)
    BY <1>1 DEF Inv, PendingInv
  <2>2. CASE JobAt(t, {"queued", "failed"})
    BY <2>2 DEF JobAt
  <2>3. CASE \E w \in Workers : Trying(w, t)
    <3>1. PICK w \in Workers : Trying(w, t)
      BY <2>3
    <3>2. /\ worker[w].job \in Queue!Ids /\ jobs[worker[w].job].status = "running"
          /\ jobs[worker[w].job].payload = Payload(t)
      BY <1>1, <3>1, QueueFacts DEF Inv, Trying
    <3> QED BY <3>2 DEF JobAt
  <2>4. CASE \E r \in Requests : Queueing(r, t)
    <3>1. PICK r \in Requests : Queueing(r, t)
      BY <2>4
    <3>2. At(proc[r].op, proc[r].pc)
      BY <1>1, Disjoint, ProcFields DEF Inv
    <3>3. AboutToReplicate(r, t)
      BY <3>1, <3>2 DEF AboutToReplicate, Queueing, At, CopyPcs
    <3> QED BY <3>3
  <2> QED BY <2>1, <2>2, <2>3, <2>4 DEF Attended
<1> QED
  BY <1>1, Invariance, PTL

\* As long as nothing deletes the object, a replica is marked ready only at a target
\* that stores something: uploads, jobs, refreshes, repairs, switches and faults may
\* interleave in any way.
THEOREM ReadyHasBlob ==
  ASSUME \A r \in Requests : "delete" \notin Kinds[r]
  PROVE  Spec => []ReadyIsBacked
<1>1. Inv => ReadyIsBacked
  BY DEF Inv, BackedInv, NoDeletes
<1> QED
  BY <1>1, Invariance, PTL
-----------------------------------------------------------------------------
(* Overwrites: what SettledReplicasCurrent rests on.                       *)

Several == Len(Backups) > 1

\* One client writes the object, under a policy that leaves the backups to one loop;
\* others may repair it if there is one backup.
Orderly ==
  /\ \A v, w \in Workers : v = w
  /\ Policies \cap {"primary_only", "require_backups"} = {}
  /\ \A r \in Requests : Kinds[r] \subseteq {"upload", "repair"}
  /\ \A r, s \in Requests : "upload" \in Kinds[r] /\ "upload" \in Kinds[s] => r = s
  /\ Several => \A r \in Requests : "repair" \notin Kinds[r]

Plain(p) ==
  /\ proc[p].op \in {"none", "upload", "repair", "job"}
  /\ proc[p].op \in {"upload", "repair"} =>
       p \in Requests /\ proc[p].op \in Kinds[p] /\ proc[p].pc \notin CopyPcs
  /\ proc[p].pc \notin {"idle", "put", "save"} => Exists(proc[p].id)
  /\ proc[p].pc \in {"backups", "queue"} => Primary \notin proc[p].todo
  /\ proc[p].pc = "queue" => proc[p].todo # {} /\ proc[p].target = Current(p)
  /\ proc[p].pc = "get" =>
       /\ proc[p].source # proc[p].target
       /\ Several /\ PrimaryOnlyUploaded => proc[p].source = Primary

\* The object is there for good, and all jobs are its own.
PlainInv ==
  /\ policy \notin {"primary_only", "require_backups"}
  /\ object.primary = Primary
  /\ \A i \in Queue!Ids : Exists(jobs[i].payload.object)
  /\ \A p \in Processes : Plain(p)
  /\ \A r \in Requests : acked[r] \/ "upload" \in Kinds[r]

\* Once a job has been tried, no older one is tried any more.
TurnInv ==
  \A i, k \in Queue!Ids : i < k /\ jobs[k].attempts # 0 =>
    /\ jobs[i].status # "queued"
    /\ \A w \in Workers : Queue!Holding(w) => worker[w].job # i

\* An upload that has written the row, and that goes by the bytes it has put.
Past(r) == proc[r].op = "upload" /\ proc[r].pc \in {"mark", "backups", "queue"}

StoredInv ==
  PrimaryOnlyUploaded =>
    /\ \A r \in Requests : proc[r].pc = "save" => blob[Primary] = proc[r].content
    /\ AllAcked \/ (\E r \in Requests : Past(r)) => blob[Primary] = object.content

\* From the first upload on, the primary is what backups are copied from.
Marked(r) == proc[r].pc \in {"backups", "queue"}

SourcedInv ==
  /\ Several /\ PrimaryOnlyUploaded
  /\ Queue!Ids # {} \/ \E r \in Requests : Marked(r)
  => replica[Primary] = "ready"

\* No upload has changed the primary's bytes without having queued a job for t since.
Announced(t) ==
  \A r \in Requests :
    acked[r] \/ (proc[r].op = "upload" /\ Marked(r) /\ t \notin proc[r].todo)

Latest(i) == \A k \in Queue!Ids : jobs[k].payload = jobs[i].payload => k <= i

Copied(i) == blob[jobs[i].payload.target] = object.content

\* What the loop w has in hand for job i, and what it has done with it.
InHand(w, i) ==
  Queue!Holding(w) /\ worker[w].job = i =>
    /\ proc[w].pc = "copy" => proc[w].content = object.content
    /\ proc[w].pc = "markReady" \/ worker[w].pc = "ok" => Copied(i)

Delivered(i) ==
  /\ jobs[i].status = "done" => Copied(i)
  /\ \A w \in Workers : InHand(w, i)

CopiedInv ==
  PrimaryOnlyUploaded =>
    \A i \in Queue!Ids : Latest(i) /\ Announced(jobs[i].payload.target) => Delivered(i)

QueuedInv ==
  \A t \in Targets \ {Primary} : replica[t] = "ready" =>
    \E i \in Queue!Ids : jobs[i].payload.target = t

CurrentInv ==
  /\ PlainInv /\ TurnInv /\ StoredInv
  /\ SourcedInv /\ CopiedInv /\ QueuedInv

\* One backup is all there is besides the primary.
LEMMA TwoTargets ==
  ASSUME ~Several, NEW t \in Targets, NEW u \in Targets, t # Primary, u # Primary
  PROVE  t = u
<1>1. Len(Backups) \in Nat /\ ~(Len(Backups) > 1)
  BY TargetsAssumption DEF Several
<1>2. \A i, j \in 1 .. Len(Backups) : i = j
  BY <1>1
<1>3. PICK i, j \in 1 .. Len(Backups) : t = Backups[i] /\ u = Backups[j]
  BY DEF Targets
<1> QED BY <1>2, <1>3

\* The queue, as it stands.
LEMMA TableFacts ==
  ASSUME Inv
  PROVE  /\ jobs \in Seq(Queue!Job) /\ Len(jobs) \in Nat /\ Queue!Ids = 1 .. Len(jobs)
         /\ \A i \in Queue!Ids : jobs[i] \in Queue!Job /\ jobs[i].attempts \in Nat
         /\ \A i \in Queue!Ids : jobs[i].status # "queued" => jobs[i].attempts # 0
         /\ \A w \in Workers : Queue!Holding(w) =>
              worker[w].job \in Queue!Ids /\ jobs[worker[w].job].status = "running"
<1>1. /\ jobs \in Seq(Queue!Job) /\ \A i \in Queue!Ids : jobs[i] \in Queue!Job
      /\ \A w \in Workers : worker[w].pc \in {"run", "ok", "err"} =>
              /\ worker[w].job \in Queue!Ids
              /\ jobs[worker[w].job].status = "running"
  BY QueueFacts DEF Inv
<1>2. \A i \in Queue!Ids : jobs[i].attempts \in Nat
  BY <1>1 DEF Queue!Job
<1>3. \A i \in Queue!Ids : jobs[i].status # "queued" => jobs[i].attempts # 0
  BY <1>2 DEF Inv, QueueInv, QueueProofs!Inv, QueueProofs!Counted, QueueProofs!Ids, Queue!Ids
<1> QED BY <1>1, <1>2, <1>3 DEF Queue!Holding, Queue!Ids

\* The job that is newest among some of them.
LEMMA Newest ==
  ASSUME Inv, NEW S, S \subseteq Queue!Ids, S # {}
  PROVE  \E i \in S : \A k \in S : k <= i
<1>1. Len(jobs) \in Nat /\ S \subseteq 1 .. Len(jobs)
  BY TableFacts
<1> DEFINE ages == {Len(jobs) - i : i \in S}
<1>2. ages \subseteq Nat /\ ages # {}
  <2>1. \A i \in S : i \in Nat /\ Len(jobs) - i \in Nat
    BY <1>1
  <2> QED BY <2>1
<1>3. PICK n \in ages : \A m \in ages : n <= m
  BY <1>2, Least
<1>4. PICK i \in S : n = Len(jobs) - i
  OBVIOUS
<1>5. \A k \in S : Len(jobs) - i <= Len(jobs) - k
  BY <1>3, <1>4
<1>6. \A k \in S : k <= i
  <2> SUFFICES ASSUME NEW k \in S
               PROVE  k <= i
    OBVIOUS
  <2>1. i \in Nat /\ k \in Nat
    BY <1>1
  <2> QED BY <1>1, <1>5, <2>1
<1> QED BY <1>6

\* What a step of p leaves as it is: jobs stay, and so does the object.
KeepsTable(p) ==
  /\ Moves(p) /\ JobsKept /\ policy' = policy
  /\ object'.primary = Primary
  /\ object.id # 0 => object'.id = object.id
  /\ \A r \in Requests : r # p => acked'[r] = acked[r]

\* A primary that only uploads write to was so before.
LEMMA UploadedBefore ==
  ASSUME CurrentInv, JobsKept, object'.primary = Primary,
         object.id # 0 => object'.id = object.id, PrimaryOnlyUploaded'
  PROVE  PrimaryOnlyUploaded
<1> SUFFICES ASSUME NEW i \in Queue!Ids
             PROVE  jobs[i].payload # Payload(Primary)
  BY DEF PrimaryOnlyUploaded, CurrentInv, PlainInv
<1>1. /\ i \in Queue!Ids' /\ jobs'[i].payload = jobs[i].payload
      /\ object'.id = object.id
  BY DEF JobsKept, CurrentInv, PlainInv, Exists
<1>2. jobs'[i].payload # Payload(object.primary)'
  BY <1>1 DEF PrimaryOnlyUploaded
<1> QED BY <1>1, <1>2 DEF Payload

\* Then all jobs are the backups'.
LEMMA OnlyBackups ==
  ASSUME Inv, CurrentInv, NEW i \in Queue!Ids
  PROVE  /\ jobs[i].payload.target \in Targets
         /\ jobs[i].payload = Payload(jobs[i].payload.target)
         /\ PrimaryOnlyUploaded => jobs[i].payload.target # Primary
<1>1. PICK id \in Nat, t \in Targets : jobs[i].payload = [object |-> id, target |-> t]
  BY QueueFacts DEF Inv, Queue!Job
<1>2. id = object.id
  BY <1>1 DEF CurrentInv, PlainInv, Exists
<1> QED BY <1>1, <1>2 DEF PrimaryOnlyUploaded, CurrentInv, PlainInv, Payload

\* Others stay plain, if p does.
LEMMA PlainStays ==
  ASSUME CurrentInv, NEW p \in Processes, KeepsTable(p), Plain(p)',
         \A i \in Queue!Ids' : i \notin Queue!Ids => Exists(jobs[i].payload.object)',
         p \in Requests => acked'[p] \/ "upload" \in Kinds[p]
  PROVE  PlainInv'
<1>1. \A id : Exists(id) => Exists(id)'
  BY DEF Exists, KeepsTable
<1>2. \A i \in Queue!Ids' : Exists(jobs[i].payload.object)'
  <2> SUFFICES ASSUME NEW i \in Queue!Ids', i \in Queue!Ids
               PROVE  Exists(jobs[i].payload.object)'
    OBVIOUS
  <2>1. Exists(jobs[i].payload.object) /\ jobs'[i].payload = jobs[i].payload
    BY DEF CurrentInv, PlainInv, KeepsTable, JobsKept
  <2>2. object'.id = object.id /\ jobs[i].payload.object # 0
    BY <2>1 DEF Exists, KeepsTable
  <2> QED BY <2>1, <2>2 DEF Exists
<1>3. ASSUME NEW q \in Processes
      PROVE  Plain(q)'
  <2>1. CASE q = p
    BY <2>1
  <2>2. CASE q # p
    <3>1. Plain(q) /\ proc'[q] = proc[q]
      BY <2>2 DEF CurrentInv, PlainInv, KeepsTable, Moves
    <3>2. Current(q)' = Current(q)
      BY <3>1 DEF Current
    <3>3. PrimaryOnlyUploaded' => PrimaryOnlyUploaded
      BY UploadedBefore DEF KeepsTable
    <3> QED BY <1>1, <3>1, <3>2, <3>3 DEF Plain
  <2> QED BY <2>1, <2>2
<1> QED BY <1>2, <1>3 DEF PlainInv, CurrentInv, KeepsTable

\* A step of p that leaves what is stored, or one of the client that writes.
LEMMA StoredStays ==
  ASSUME Orderly, Inv, CurrentInv, NEW p \in Processes, KeepsTable(p),
         PrimaryOnlyUploaded' =>
           \/ /\ blob'[Primary] = blob[Primary] /\ object'.content = object.content
              /\ p \in Requests => acked'[p] = acked[p]
              /\ proc'[p].pc # "save" /\ (Past(p)' => Past(p))
           \/ /\ p \in Requests /\ "upload" \in Kinds[p]
              /\ proc'[p].pc = "save" => blob'[Primary] = proc'[p].content
              /\ Past(p)' \/ acked'[p] => blob'[Primary] = object'.content
  PROVE  StoredInv'
<1> SUFFICES ASSUME PrimaryOnlyUploaded'
             PROVE  /\ \A r \in Requests : proc'[r].pc = "save" =>
                         blob'[Primary] = proc'[r].content
                    /\ AllAcked' \/ (\E r \in Requests : Past(r)') =>
                         blob'[Primary] = object'.content
  BY DEF StoredInv
<1>1. PrimaryOnlyUploaded
  BY UploadedBefore DEF KeepsTable
<1>2. /\ \A r \in Requests : proc[r].pc = "save" => blob[Primary] = proc[r].content
      /\ AllAcked \/ (\E r \in Requests : Past(r)) => blob[Primary] = object.content
  BY <1>1 DEF CurrentInv, StoredInv
<1>3. \A r \in Requests : r # p => proc'[r] = proc[r] /\ acked'[r] = acked[r]
  BY DEF KeepsTable, Moves, Processes
<1>4. \A r \in Requests : proc[r].pc = "save" => proc[r].op = "upload"
  BY UploadFacts
<1>5. CASE /\ blob'[Primary] = blob[Primary] /\ object'.content = object.content
           /\ p \in Requests => acked'[p] = acked[p]
           /\ proc'[p].pc # "save" /\ (Past(p)' => Past(p))
  <2>1. AllAcked' => AllAcked
    BY <1>3, <1>5 DEF AllAcked
  <2>2. \A r \in Requests : Past(r)' => Past(r)
    BY <1>3, <1>5 DEF Past
  <2> QED BY <1>2, <1>3, <1>5, <2>1, <2>2
<1>6. CASE /\ p \in Requests /\ "upload" \in Kinds[p]
           /\ proc'[p].pc = "save" => blob'[Primary] = proc'[p].content
           /\ Past(p)' \/ acked'[p] => blob'[Primary] = object'.content
  <2>1. \A r \in Requests : r # p => proc[r].op # "upload"
    BY <1>6 DEF CurrentInv, PlainInv, Plain, Processes, Orderly
  <2>2. \A r \in Requests : r # p => proc'[r].pc # "save" /\ ~Past(r)'
    BY <1>3, <1>4, <2>1 DEF Past
  <2> QED BY <1>6, <2>2 DEF AllAcked
<1> QED BY <1>5, <1>6

\* The primary stays ready once it is.
LEMMA SourcedStays ==
  ASSUME CurrentInv, NEW p \in Processes, KeepsTable(p),
         Several /\ PrimaryOnlyUploaded =>
           \/ replica'[Primary] = "ready"
           \/ /\ replica'[Primary] = replica[Primary]
              /\ Queue!Ids' # {} => Queue!Ids # {} \/ (p \in Requests /\ Marked(p))
              /\ p \in Requests /\ Marked(p)' => Marked(p)
  PROVE  SourcedInv'
<1> SUFFICES ASSUME Several, PrimaryOnlyUploaded',
                    Queue!Ids' # {} \/ \E r \in Requests : Marked(r)'
             PROVE  replica'[Primary] = "ready"
  BY DEF SourcedInv
<1>1. PrimaryOnlyUploaded
  BY UploadedBefore DEF KeepsTable
<1>2. \A r \in Requests : r # p => (Marked(r)' <=> Marked(r))
  BY DEF KeepsTable, Moves, Processes, Marked
<1> QED BY <1>1, <1>2 DEF CurrentInv, SourcedInv

\* As long as no job changes, and no loop takes another, all keep their turn.
LEMMA TurnStays ==
  ASSUME CurrentInv, jobs' = jobs,
         \A w \in Workers : Queue!Holding(w)' =>
           Queue!Holding(w) /\ worker'[w].job = worker[w].job
  PROVE  TurnInv'
BY DEF CurrentInv, TurnInv, Queue!Ids

\* Whatever is marked ready has a job.
LEMMA QueuedStays ==
  ASSUME CurrentInv, JobsKept,
         \A t \in Targets \ {Primary} : replica'[t] = "ready" =>
           replica[t] = "ready" \/ \E i \in Queue!Ids : jobs[i].payload.target = t
  PROVE  QueuedInv'
BY DEF CurrentInv, QueuedInv, JobsKept

\* What a request does to what has been announced: nothing, or it is no longer so.
LEMMA CopiedStays ==
  ASSUME Inv, CurrentInv, NEW r \in Requests, KeepsTable(r), UNCHANGED <<jobs, worker>>,
         \A t \in Targets \ {Primary} : Announced(t)' =>
           Announced(t) /\ blob' = blob /\ object'.content = object.content
  PROVE  CopiedInv'
<1> SUFFICES ASSUME PrimaryOnlyUploaded', NEW i \in Queue!Ids', Latest(i)',
                    Announced(jobs[i].payload.target)'
             PROVE  Delivered(i)'
  BY DEF CopiedInv
<1>1. PrimaryOnlyUploaded
  BY UploadedBefore DEF KeepsTable
<1>2. i \in Queue!Ids /\ Queue!Ids' = Queue!Ids /\ Latest(i)
  BY DEF Queue!Ids, Latest
<1>3. PICK t \in Targets \ {Primary} : t = jobs[i].payload.target
  BY <1>1, <1>2, OnlyBackups
<1>4. Announced(t) /\ blob' = blob /\ object'.content = object.content
  BY <1>3
<1>5. \A w \in Workers : proc'[w] = proc[w] /\ (Queue!Holding(w)' <=> Queue!Holding(w))
  BY WorkersAssumption DEF KeepsTable, Moves, Processes, Queue!Holding
<1>6. Delivered(i)
  BY <1>1, <1>2, <1>3, <1>4 DEF CurrentInv, CopiedInv
<1>7. Copied(i)' <=> Copied(i)
  BY <1>4 DEF Copied
<1> QED BY <1>5, <1>6, <1>7, <1>4 DEF Delivered, InHand

\* A step of a request that leaves the queue alone.
LEMMA RequestStays ==
  ASSUME Orderly, Inv, CurrentInv, NEW r \in Requests, KeepsTable(r), Plain(r)',
         UNCHANGED queueVars,
         acked'[r] \/ "upload" \in Kinds[r],
         \A t \in Targets \ {Primary} : replica'[t] = "ready" => replica[t] = "ready",
         Several /\ PrimaryOnlyUploaded =>
           \/ replica'[Primary] = "ready"
           \/ replica'[Primary] = replica[Primary] /\ (Marked(r)' => Marked(r)),
         \A t \in Targets \ {Primary} : Announced(t)' =>
           Announced(t) /\ blob' = blob /\ object'.content = object.content,
         \/ /\ blob'[Primary] = blob[Primary] /\ object'.content = object.content
            /\ acked'[r] = acked[r]
            /\ proc'[r].pc # "save" /\ (Past(r)' => Past(r))
         \/ /\ "upload" \in Kinds[r]
            /\ PrimaryOnlyUploaded =>
                 /\ proc'[r].pc = "save" => blob'[Primary] = proc'[r].content
                 /\ Past(r)' \/ acked'[r] => blob'[Primary] = object'.content
  PROVE  CurrentInv'
<1>1. r \in Processes /\ UNCHANGED <<jobs, worker>> /\ Queue!Ids' = Queue!Ids /\ JobsKept
  BY Disjoint, QuietQueue
<1>2. PlainInv'
  BY <1>1, PlainStays
<1>3. StoredInv'
  BY <1>1, StoredStays, UploadedBefore DEF KeepsTable
<1>4. TurnInv'
  BY <1>1, TurnStays DEF Queue!Holding
<1>5. SourcedInv'
  BY <1>1, SourcedStays
<1>6. CopiedInv'
  BY <1>1, CopiedStays
<1>7. QueuedInv'
  BY <1>1, QueuedStays
<1> QED BY <1>2, <1>3, <1>4, <1>5, <1>6, <1>7 DEF CurrentInv

\* The steps of an upload.  Until it has queued its last job nothing is announced.
LEMMA StartUploadCurrent ==
  ASSUME Orderly, Inv, CurrentInv, NEW r \in Requests, NEW c \in Contents, StartUpload(r, c)
  PROVE  CurrentInv'
<1>1. /\ proc[r] = Idle /\ r \in Processes /\ policy' = policy /\ "upload" \in Kinds[r]
  BY StartFields DEF StartUpload
<1>2. /\ object' = object /\ replica' = replica /\ blob' = blob
      /\ acked' = [acked EXCEPT ![r] = FALSE] /\ UNCHANGED queueVars
  BY DEF StartUpload, rowVars
<1>3. PICK q : q = [Idle EXCEPT !.pc = "put", !.op = "upload", !.content = c]
  OBVIOUS
<1>4. q \in ProcState /\ q.pc = "put" /\ q.op = "upload"
  BY <1>1, <1>3, IdleFields DEF ProcState, Pcs
<1>5. Moves(r) /\ proc'[r] = q
  BY <1>1, <1>3, <1>4 DEF StartUpload, Inv, ProcInv, Moves
<1>6. ~acked'[r] /\ \A s \in Requests : s # r => acked'[s] = acked[s]
  BY <1>2 DEF Inv, RowsInv
<1>7. KeepsTable(r)
  BY <1>1, <1>2, <1>5, <1>6, QuietQueue DEF KeepsTable, CurrentInv, PlainInv
<1>8. Plain(r)'
  BY <1>1, <1>4, <1>5 DEF Plain, CopyPcs
<1>9. \A t : ~Announced(t)'
  BY <1>4, <1>5, <1>6 DEF Announced, Marked
<1>10. proc'[r].pc # "save" /\ ~Past(r)' /\ ~Marked(r)'
  BY <1>4, <1>5 DEF Past, Marked
<1> QED BY <1>1, <1>2, <1>6, <1>7, <1>8, <1>9, <1>10, RequestStays

\* The fields of one that is under way.
LEMMA UploadPlain ==
  ASSUME Orderly, Inv, CurrentInv, NEW r \in Requests,
         proc[r].pc \in {"put", "save", "mark", "backups", "queue"}
  PROVE  /\ r \in Processes /\ r \notin Workers /\ Shape(proc[r]) /\ proc[r].op = "upload"
         /\ ~acked[r] /\ "upload" \in Kinds[r] /\ Primary \in Targets
         /\ proc[r].pc \notin {"put", "save"} => Exists(proc[r].id)
         /\ PrimaryOnlyUploaded /\ proc[r].pc = "save" => blob[Primary] = proc[r].content
         /\ PrimaryOnlyUploaded /\ Past(r) => blob[Primary] = object.content
         /\ object.primary = Primary /\ policy \notin {"primary_only", "require_backups"}
         /\ Marked(r) => Primary \notin proc[r].todo
<1>1. /\ r \in Processes /\ r \notin Workers /\ Shape(proc[r]) /\ proc[r].op = "upload"
      /\ ~acked[r] /\ Primary \in Targets
  BY UploadFacts
<1>2. /\ "upload" \in Kinds[r] /\ proc[r].pc \notin {"put", "save"} => Exists(proc[r].id)
      /\ Marked(r) => Primary \notin proc[r].todo
  BY <1>1 DEF CurrentInv, PlainInv, Plain, Marked
<1> QED BY <1>1, <1>2 DEF CurrentInv, PlainInv, StoredInv

\* An upload that ends early leaves its slot without an answer.
LEMMA BreakOff ==
  ASSUME Orderly, Inv, CurrentInv, NEW r \in Requests, End(r),
         UNCHANGED <<jobs, worker, object, replica, acked, policy>>,
         blob' = blob \/ (~acked[r] /\ "upload" \in Kinds[r])
  PROVE  CurrentInv'
<1>1. r \in Processes /\ r \notin Workers
  BY Disjoint
<1>2. /\ Moves(r) /\ proc'[r] = Idle
  BY <1>1, EndFields DEF Inv
<1>3. /\ Idle.pc = "idle" /\ Idle.op = "none"
  BY IdleFields
<1>4. Queue!Ids' = Queue!Ids /\ JobsKept
  BY DEF Queue!Ids, JobsKept
<1>5. KeepsTable(r) /\ Plain(r)'
  BY <1>2, <1>3, <1>4 DEF KeepsTable, Plain, CopyPcs, CurrentInv, PlainInv
<1>6. acked'[r] \/ "upload" \in Kinds[r]
  BY DEF CurrentInv, PlainInv
<1>7. \A t : Announced(t)' => Announced(t) /\ acked[r]
  BY <1>1, <1>2, <1>3 DEF Announced, Moves, Processes, Marked
<1>8. PlainInv'
  BY <1>1, <1>4, <1>5, <1>6, PlainStays
<1>9. StoredInv'
  BY <1>1, <1>2, <1>3, <1>5, StoredStays DEF Past
<1>10. TurnInv'
  BY TurnStays DEF Queue!Holding
<1>11. CopiedInv'
  BY <1>5, <1>7, CopiedStays
<1>12. QueuedInv'
  BY <1>4, QueuedStays
<1>13. SourcedInv'
  BY <1>1, <1>2, <1>3, <1>4, <1>5, SourcedStays DEF Marked
<1> QED BY <1>8, <1>9, <1>10, <1>11, <1>12, <1>13 DEF CurrentInv

\* The primary's bytes change: nothing is announced until the row and the jobs follow.
LEMMA PutPrimaryCurrent ==
  ASSUME Orderly, Inv, CurrentInv, NEW r \in Requests, PutPrimary(r)
  PROVE  CurrentInv'
<1>1. /\ r \in Processes /\ proc[r].pc = "put" /\ proc[r].op = "upload"
      /\ ~acked[r] /\ "upload" \in Kinds[r] /\ Primary \in Targets /\ object.primary = Primary
  BY UploadPlain DEF PutPrimary
<1>2. /\ blob' = [blob EXCEPT ![Primary] = proc[r].content]
      /\ UNCHANGED <<queueVars, rowVars, acked, policy>>
  BY DEF PutPrimary, historyVars
<1>3. /\ Moves(r) /\ SameTask(r) /\ SameTarget(r) /\ proc'[r].pc = "save"
  BY <1>1, GotoFields DEF PutPrimary, Goto, Inv, Pcs
<1>4. /\ replica' = replica /\ object' = object /\ blob'[Primary] = proc[r].content
  BY <1>1, <1>2 DEF rowVars, Inv, RowsInv
<1>5. KeepsTable(r) /\ Plain(r)'
  BY <1>1, <1>2, <1>3, <1>4, QuietQueue DEF KeepsTable, Plain, CopyPcs, SameTask
<1>6. (\A t : ~Announced(t)') /\ ~Past(r)' /\ ~acked'[r] /\ ~Marked(r)'
  BY <1>1, <1>2, <1>3 DEF Announced, Past, Marked
<1> QED BY <1>1, <1>2, <1>3, <1>4, <1>5, <1>6, RequestStays DEF SameTarget

\* They may have changed, and the upload is never answered.
LEMMA PutPrimaryFailsCurrent ==
  ASSUME Orderly, Inv, CurrentInv, NEW r \in Requests, PutPrimaryFails(r)
  PROVE  CurrentInv'
<1>1. ~acked[r] /\ "upload" \in Kinds[r]
  BY UploadPlain DEF PutPrimaryFails
<1> QED BY <1>1, BreakOff DEF PutPrimaryFails, rowVars, queueVars, historyVars

\* The row says what the primary has been given.
LEMMA SaveObjectCurrent ==
  ASSUME Orderly, Inv, CurrentInv, NEW r \in Requests, SaveObject(r)
  PROVE  CurrentInv'
<1>1. /\ r \in Processes /\ proc[r].pc = "save" /\ proc[r].op = "upload" /\ Shape(proc[r])
      /\ ~acked[r] /\ "upload" \in Kinds[r]
      /\ PrimaryOnlyUploaded => blob[Primary] = proc[r].content
  BY UploadPlain DEF SaveObject
<1>2. UNCHANGED <<queueVars, replica, blob, acked, policy>>
  BY DEF SaveObject, historyVars
<1>3. object.id \in Nat /\ lastId \in Nat
  BY DEF Inv, RowsInv, Row
<1> DEFINE id == IF object.id = 0 THEN lastId + 1 ELSE object.id
<1>4. /\ object' = [id |-> id, content |-> proc[r].content, primary |-> Primary]
      /\ proc' = [proc EXCEPT ![r] = [@ EXCEPT !.pc = "mark", !.id = id]]
      /\ id \in Nat /\ id # 0 /\ (object.id # 0 => id = object.id)
  BY <1>3 DEF SaveObject
<1> HIDE DEF id
<1>5. /\ object'.id = id /\ object'.primary = Primary /\ object'.content = proc[r].content
  BY <1>4
<1>6. PICK q : q = [proc[r] EXCEPT !.pc = "mark", !.id = id]
  OBVIOUS
<1>7. q \in ProcState /\ q.pc = "mark" /\ q.op = "upload" /\ q.id = id
  BY <1>1, <1>4, <1>6 DEF Shape, ProcState, Pcs
<1>8. Moves(r) /\ proc'[r] = q
  BY <1>1, <1>4, <1>6, <1>7 DEF Inv, ProcInv, Moves
<1>9. KeepsTable(r)
  BY <1>2, <1>4, <1>5, <1>8, QuietQueue DEF KeepsTable
<1>10. Plain(r)'
  BY <1>1, <1>4, <1>5, <1>7, <1>8 DEF Plain, CopyPcs, Exists
<1>11. (\A t : ~Announced(t)') /\ proc'[r].pc # "save" /\ ~Marked(r)'
  BY <1>1, <1>2, <1>7, <1>8 DEF Announced, Marked
<1> QED BY <1>1, <1>2, <1>5, <1>9, <1>10, <1>11, RequestStays

\* Every backup is still to be told.
LEMMA MarkPrimaryCurrent ==
  ASSUME Orderly, Inv, CurrentInv, NEW r \in Requests, MarkPrimary(r)
  PROVE  CurrentInv'
<1>1. /\ r \in Processes /\ proc[r].pc = "mark" /\ proc[r].op = "upload" /\ Shape(proc[r])
      /\ ~acked[r] /\ "upload" \in Kinds[r] /\ Primary \in Targets /\ Exists(proc[r].id)
      /\ object.primary = Primary
      /\ PrimaryOnlyUploaded /\ Past(r) => blob[Primary] = object.content
  BY UploadPlain DEF MarkPrimary
<1>2. /\ UNCHANGED <<queueVars, blob, acked, policy>> /\ object' = object
      /\ \A t \in Targets \ {Primary} : replica'[t] = replica[t]
      /\ replica'[Primary] = "ready"
  BY <1>1 DEF MarkPrimary, historyVars, Upsert, Inv, RowsInv
<1>3. PICK q : q = [proc[r] EXCEPT !.pc = "backups", !.todo = Targets \ {Primary}]
  OBVIOUS
<1>4. /\ q \in ProcState /\ q.pc = "backups" /\ q.op = "upload" /\ q.id = proc[r].id
      /\ q.todo = Targets \ {Primary}
  BY <1>1, <1>3 DEF Shape, ProcState, Pcs
<1>5. Moves(r) /\ proc'[r] = q
  BY <1>1, <1>3, <1>4 DEF MarkPrimary, Inv, ProcInv, Moves
<1>6. KeepsTable(r) /\ Plain(r)'
  BY <1>1, <1>2, <1>4, <1>5, QuietQueue DEF KeepsTable, Plain, CopyPcs, Exists
<1>7. /\ \A t \in Targets \ {Primary} : ~Announced(t)'
      /\ proc'[r].pc # "save" /\ Past(r)
  BY <1>1, <1>2, <1>4, <1>5 DEF Announced, Past
<1> QED BY <1>1, <1>2, <1>6, <1>7, RequestStays

\* A backup is marked before its job is queued.
LEMMA MarkBackupCurrent ==
  ASSUME Orderly, Inv, CurrentInv, NEW r \in Requests, MarkBackup(r)
  PROVE  CurrentInv'
<1>1. /\ r \in Processes /\ proc[r].pc = "backups" /\ proc[r].op = "upload"
      /\ proc[r].todo # {} /\ Shape(proc[r]) /\ Primary \notin proc[r].todo
      /\ ~acked[r] /\ "upload" \in Kinds[r] /\ Exists(proc[r].id) /\ object.primary = Primary
      /\ policy \notin {"primary_only", "require_backups"}
      /\ PrimaryOnlyUploaded /\ Past(r) => blob[Primary] = object.content
  BY UploadPlain DEF MarkBackup, AtTarget, Marked
<1>2. UNCHANGED <<queueVars, blob, acked, policy>>
  BY DEF MarkBackup, historyVars
<1>3. PICK t \in Targets \ {Primary} : t = Current(r)
  BY <1>1, FirstIsIn DEF Current, Shape, ProcState
<1>4. BackupStatus = "pending" /\ AfterBackupRow = "queue"
  BY <1>1 DEF BackupStatus, AfterBackupRow
<1>5. /\ object' = object
      /\ \A u \in Targets : replica'[u] = "ready" => replica[u] = "ready"
      /\ replica'[Primary] = replica[Primary]
  BY <1>3, <1>4 DEF MarkBackup, Upsert, Inv, RowsInv
<1>6. proc' = [proc EXCEPT ![r] = [@ EXCEPT !.pc = "queue", !.target = t]]
  BY <1>1, <1>3, <1>4 DEF MarkBackup
<1>7. PICK q : q = [proc[r] EXCEPT !.pc = "queue", !.target = t]
  OBVIOUS
<1>8. /\ q \in ProcState /\ q.pc = "queue" /\ q.op = "upload" /\ q.id = proc[r].id
      /\ q.target = t /\ q.todo = proc[r].todo
  BY <1>1, <1>7 DEF Shape, ProcState, Pcs
<1>9. Moves(r) /\ proc'[r] = q
  BY <1>1, <1>6, <1>7, <1>8 DEF Inv, ProcInv, Moves
<1>10. KeepsTable(r)
  BY <1>1, <1>2, <1>5, <1>9, QuietQueue DEF KeepsTable
<1>11. Plain(r)'
  <2>1. Current(r)' = t
    BY <1>3, <1>8, <1>9 DEF Current
  <2> QED BY <1>1, <1>5, <1>8, <1>9, <2>1 DEF Plain, CopyPcs, Exists
<1>12. \A u : Announced(u)' => Announced(u)
  BY <1>1, <1>2, <1>8, <1>9 DEF Announced, Marked, Moves, Processes
<1>13. proc'[r].pc # "save" /\ Past(r) /\ Marked(r)
  BY <1>1, <1>8, <1>9 DEF Past, Marked
<1> QED BY <1>1, <1>2, <1>5, <1>10, <1>11, <1>12, <1>13, RequestStays

\* The answer comes when the last of them has been queued.
LEMMA FinishUploadCurrent ==
  ASSUME Orderly, Inv, CurrentInv, NEW r \in Requests, FinishUpload(r)
  PROVE  CurrentInv'
<1>1. /\ r \in Processes /\ proc[r].pc = "backups" /\ proc[r].op = "upload"
      /\ proc[r].todo = {} /\ "upload" \in Kinds[r] /\ object.primary = Primary
      /\ PrimaryOnlyUploaded /\ Past(r) => blob[Primary] = object.content
  BY UploadPlain DEF FinishUpload
<1>2. /\ object' = object /\ replica' = replica /\ blob' = blob
      /\ acked' = [acked EXCEPT ![r] = TRUE] /\ policy' = policy
      /\ UNCHANGED queueVars /\ End(r)
  BY DEF FinishUpload, rowVars
<1>3. /\ Moves(r) /\ proc'[r] = Idle /\ Idle.pc = "idle" /\ Idle.op = "none"
  BY <1>1, <1>2, EndFields, IdleFields DEF Inv
<1>4. acked'[r] /\ \A s \in Requests : s # r => acked'[s] = acked[s]
  BY <1>2 DEF Inv, RowsInv
<1>5. KeepsTable(r) /\ Plain(r)'
  BY <1>1, <1>2, <1>3, <1>4, QuietQueue DEF KeepsTable, Plain, CopyPcs
<1>6. \A t : Announced(t)' => Announced(t)
  BY <1>1, <1>3, <1>4 DEF Announced, Moves, Processes, Marked
<1>7. Past(r) /\ Marked(r) /\ proc'[r].pc # "save"
  BY <1>1, <1>3 DEF Past, Marked
<1> QED BY <1>1, <1>2, <1>4, <1>5, <1>6, <1>7, RequestStays

\* A step of a repair, which there is only with one backup.
LEMMA RepairStays ==
  ASSUME Orderly, Inv, CurrentInv, NEW r \in Requests, Moves(r), Plain(r)',
         proc'[r].op = "repair", proc'[r].pc # "save",
         UNCHANGED <<queueVars, blob, object, acked, policy>>,
         \A t \in Targets : replica'[t] = "ready" => replica[t] = "ready"
  PROVE  CurrentInv'
<1>1. KeepsTable(r)
  BY Disjoint, QuietQueue DEF KeepsTable, CurrentInv, PlainInv
<1>2. \A t : Announced(t)' => Announced(t)
  BY DEF Announced, Moves, Processes, Marked
<1>3. ~Past(r)' /\ (acked'[r] \/ "upload" \in Kinds[r])
  BY DEF Past, CurrentInv, PlainInv
<1>4. ~Several
  BY DEF Plain, Orderly
<1> QED BY <1>1, <1>2, <1>3, <1>4, RequestStays

\* It starts with a list of targets.
LEMMA StartRepairCurrent ==
  ASSUME Orderly, Inv, CurrentInv, NEW r \in Requests, NEW force \in BOOLEAN,
         StartRepair(r, force)
  PROVE  CurrentInv'
<1>1. /\ proc[r] = Idle /\ r \in Processes /\ policy' = policy
      /\ replica \in [Targets -> Statuses \cup {"none"}] /\ object.id \in Nat
  BY StartFields DEF StartRepair
<1>2. PICK S \in SUBSET Targets :
        proc' = [proc EXCEPT ![r] = [@ EXCEPT
          !.pc = "repair", !.op = "repair", !.id = object.id, !.seen = replica,
          !.todo = S, !.force = force]]
  BY RowsAreTargets DEF StartRepair
<1>3. PICK q : q = [Idle EXCEPT !.pc = "repair", !.op = "repair", !.id = object.id,
                                !.seen = replica, !.todo = S, !.force = force]
  OBVIOUS
<1>4. /\ q \in ProcState
      /\ q.pc = "repair" /\ q.op = "repair" /\ q.id = object.id
  BY <1>1, <1>3, IdleFields DEF ProcState, Pcs
<1>5. Moves(r) /\ proc'[r] = q
  BY <1>1, <1>2, <1>3, <1>4 DEF Inv, ProcInv, Moves
<1>6. UNCHANGED <<queueVars, blob, object, acked, policy, replica>> /\ object.id # 0
  BY <1>1 DEF StartRepair, rowVars
<1>7. Plain(r)'
  BY <1>1, <1>4, <1>5, <1>6 DEF Plain, Exists, StartRepair, Start, CopyPcs
<1> QED BY <1>4, <1>5, <1>6, <1>7, RepairStays

\* A repair that is under way.
LEMMA RepairPlain ==
  ASSUME Inv, CurrentInv, NEW r \in Requests, proc[r].pc \in {"repair", "repairQueue"}
  PROVE  /\ r \in Processes /\ r \notin Workers /\ proc[r].op = "repair"
         /\ Exists(proc[r].id) /\ proc[r].id \in Nat /\ "repair" \in Kinds[r]
<1>1. r \in Processes /\ r \notin Workers
  BY Disjoint
<1>2. At(proc[r].op, proc[r].pc) /\ proc[r].id \in Nat
  BY <1>1, ProcFields DEF Inv
<1>3. proc[r].op = "repair"
  BY <1>2 DEF At, CopyPcs
<1> QED BY <1>1, <1>2, <1>3 DEF CurrentInv, PlainInv, Plain

\* It passes over a target.
LEMMA SkipRepairCurrent ==
  ASSUME Orderly, Inv, CurrentInv, NEW r \in Requests, SkipRepair(r)
  PROVE  CurrentInv'
<1>1. /\ r \in Processes /\ proc[r].op = "repair" /\ Exists(proc[r].id)
      /\ "repair" \in Kinds[r]
  BY RepairPlain DEF SkipRepair, AtTarget
<1>2. Moves(r) /\ SameTask(r) /\ proc'[r].pc = "repair"
  BY <1>1, NextFields DEF SkipRepair, Inv, Pcs
<1>3. UNCHANGED <<queueVars, blob, object, acked, policy, replica>>
  BY DEF SkipRepair, rowVars, historyVars
<1>4. Plain(r)'
  BY <1>1, <1>2, <1>3 DEF Plain, Exists, SameTask, CopyPcs
<1> QED BY <1>1, <1>2, <1>3, <1>4, RepairStays DEF SameTask

\* It marks one pending.
LEMMA MarkRepairCurrent ==
  ASSUME Orderly, Inv, CurrentInv, NEW r \in Requests, MarkRepair(r)
  PROVE  CurrentInv'
<1>1. /\ r \in Processes /\ proc[r].op = "repair" /\ Exists(proc[r].id)
      /\ proc[r].todo # {} /\ "repair" \in Kinds[r]
  BY RepairPlain DEF MarkRepair, AtTarget
<1>2. Moves(r) /\ SameTask(r) /\ proc'[r].pc = "repairQueue"
  BY <1>1, GotoFields DEF MarkRepair, Goto, Inv, Pcs
<1>3. UNCHANGED <<queueVars, blob, object, acked, policy>>
  BY DEF MarkRepair, Upsert, historyVars
<1>4. \A t \in Targets : replica'[t] = "ready" => replica[t] = "ready"
  BY <1>1, CurrentIsTarget DEF MarkRepair, Upsert, Inv, RowsInv
<1>5. Plain(r)'
  BY <1>1, <1>2, <1>3 DEF Plain, Exists, SameTask, CopyPcs
<1> QED BY <1>1, <1>2, <1>3, <1>4, <1>5, RepairStays DEF SameTask

\* A request that ends, or is cut short.
LEMMA AnswerCurrent ==
  ASSUME Orderly, Inv, CurrentInv, NEW r \in Requests, Answer(r) \/ Cancel(r)
  PROVE  CurrentInv'
BY BreakOff DEF Answer, Cancel, rowVars, queueVars, historyVars

\* Queueing a job makes it the newest for its target, which nobody has tried.
LEMMA QueueingCurrent ==
  ASSUME Orderly, Inv, CurrentInv, NEW r \in Requests, NEW t \in Targets, t = Current(r),
         NEW pc \in {"backups", "repair"}, NextTarget(r, pc),
         proc[r].pc = IF pc = "backups" THEN "queue" ELSE "repairQueue",
         Queue!CreateJob(Queue!ReplicateObject, [object |-> proc[r].id, target |-> t]),
         UNCHANGED <<rowVars, blob, historyVars>>
  PROVE  CurrentInv'
<1>1. /\ r \in Processes /\ r \notin Workers /\ Exists(proc[r].id) /\ proc[r].id \in Nat
      /\ proc[r].op = IF pc = "backups" THEN "upload" ELSE "repair"
      /\ proc[r].op \in Kinds[r] /\ (pc = "backups" => Primary \notin proc[r].todo)
  <2>1. CASE proc[r].pc = "queue"
    BY <2>1, UploadPlain, UploadFacts DEF Marked
  <2>2. CASE proc[r].pc = "repairQueue"
    BY <2>2, RepairPlain
  <2> QED BY <2>1, <2>2
<1>2. /\ Moves(r) /\ SameTask(r) /\ proc'[r].pc = pc
      /\ proc'[r].todo = proc[r].todo \ {t}
  BY <1>1, NextFields DEF Inv, Pcs, Rest
<1> DEFINE new == [type |-> Queue!ReplicateObject,
                   payload |-> [object |-> proc[r].id, target |-> t],
                   status |-> "queued", attempts |-> 0]
<1>3. /\ jobs' = Append(jobs, new) /\ worker' = worker
      /\ new.payload = [object |-> proc[r].id, target |-> t]
      /\ new.payload.object = proc[r].id
      /\ new.status = "queued" /\ new.attempts = 0
  BY DEF Queue!CreateJob
<1> HIDE DEF new
<1> DEFINE n == Len(jobs) + 1
<1>4. /\ jobs \in Seq(Queue!Job) /\ Len(jobs) \in Nat /\ Queue!Ids = 1 .. Len(jobs)
      /\ \A w \in Workers : Queue!Holding(w) => worker[w].job \in Queue!Ids
  BY TableFacts
<1>5. /\ Queue!Ids' = Queue!Ids \cup {n} /\ n \notin Queue!Ids
      /\ \A i \in Queue!Ids : jobs'[i] = jobs[i] /\ i < n
      /\ jobs'[n] = new
  BY <1>3, <1>4 DEF Queue!Ids
<1> HIDE DEF n
<1>6. /\ object' = object /\ replica' = replica /\ blob' = blob /\ acked' = acked
      /\ policy' = policy
  BY DEF rowVars, historyVars
<1>7. KeepsTable(r)
  BY <1>2, <1>5, <1>6 DEF KeepsTable, JobsKept, CurrentInv, PlainInv
<1>8. Plain(r)'
  BY <1>1, <1>2, <1>6 DEF Plain, CopyPcs, SameTask, Exists
<1>9. PlainInv'
  <2>1. \A i \in Queue!Ids' : i \notin Queue!Ids => Exists(jobs[i].payload.object)'
    BY <1>1, <1>3, <1>5, <1>6 DEF Exists
  <2>2. acked'[r] \/ "upload" \in Kinds[r]
    BY <1>6 DEF CurrentInv, PlainInv
  <2> QED BY <1>1, <1>7, <1>8, <2>1, <2>2, PlainStays
<1>10. StoredInv'
  <2>1. proc'[r].pc # "save" /\ (Past(r)' => Past(r))
    BY <1>2 DEF Past, SameTask
  <2> QED BY <1>1, <1>6, <1>7, <2>1, StoredStays
<1>11. TurnInv'
  <2> SUFFICES ASSUME NEW i \in Queue!Ids', NEW k \in Queue!Ids', i < k,
                      jobs'[k].attempts # 0
               PROVE  /\ jobs'[i].status # "queued"
                      /\ \A w \in Workers : Queue!Holding(w)' => worker'[w].job # i
    BY DEF TurnInv
  <2>1. k \in Queue!Ids
    BY <1>3, <1>5
  <2>2. i \in Queue!Ids
    BY <1>4, <1>5, <2>1 DEF n
  <2> QED BY <1>3, <1>5, <2>1, <2>2 DEF CurrentInv, TurnInv, Queue!Holding
<1>12. SourcedInv'
  <2>1. Several => pc = "backups"
    BY <1>1 DEF Orderly
  <2> QED BY <1>1, <1>2, <1>6, <1>7, <2>1, SourcedStays DEF Marked
<1>13. CopiedInv'
  <2> SUFFICES ASSUME PrimaryOnlyUploaded', NEW i \in Queue!Ids', Latest(i)',
                      Announced(jobs[i].payload.target)'
               PROVE  Delivered(i)'
    BY DEF CopiedInv
  <2>1. CASE i = n
    <3>1. \A w \in Workers : ~(Queue!Holding(w)' /\ worker'[w].job = n)
      BY <1>3, <1>4, <1>5 DEF Queue!Holding
    <3> QED BY <1>3, <1>5, <2>1, <3>1 DEF Delivered, InHand
  <2>2. CASE i # n
    <3>1. i \in Queue!Ids /\ jobs'[i] = jobs[i]
      BY <1>5, <2>2
    <3>2. jobs[i].payload.target # t
      <4>1. jobs[i].payload # new.payload
        BY <1>4, <1>5, <3>1 DEF Latest, n
      <4>2. jobs[i].payload = [object |-> object.id, target |-> jobs[i].payload.target]
        BY <3>1, OnlyBackups DEF Payload
      <4> QED BY <1>1, <1>3, <4>1, <4>2 DEF Exists
    <3>3. Announced(jobs[i].payload.target)
      <4>1. \A s \in Requests : s # r => proc'[s] = proc[s]
        BY <1>2 DEF Moves, Processes
      <4> QED BY <1>1, <1>2, <1>6, <3>1, <3>2, <4>1 DEF Announced, Marked, SameTask
    <3>4. Latest(i)
      BY <1>5, <3>1 DEF Latest
    <3>5. PrimaryOnlyUploaded
      BY <1>7, UploadedBefore DEF KeepsTable
    <3>6. Delivered(i)
      BY <3>1, <3>3, <3>4, <3>5 DEF CurrentInv, CopiedInv
    <3>7. \A w \in Workers : proc'[w] = proc[w]
      BY <1>1, <1>2 DEF Moves, Processes
    <3> QED BY <1>3, <1>6, <3>1, <3>6, <3>7 DEF Delivered, InHand, Copied, Queue!Holding
  <2> QED BY <2>1, <2>2
<1>14. QueuedInv'
  BY <1>6, <1>7, QueuedStays DEF KeepsTable
<1> QED BY <1>9, <1>10, <1>11, <1>12, <1>13, <1>14 DEF CurrentInv

\* An upload does so for the backup it has marked,
LEMMA QueueBackupCurrent ==
  ASSUME Orderly, Inv, CurrentInv, NEW r \in Requests, QueueBackup(r)
  PROVE  CurrentInv'
<1>1. proc[r].target \in Targets
  BY Disjoint, ProcFields DEF Inv
<1>2. PICK t \in Targets : t = proc[r].target
  BY <1>1
<1>3. PICK pc \in {"backups", "repair"} : pc = "backups"
  OBVIOUS
<1>4. /\ NextTarget(r, pc) /\ proc[r].pc = "queue"
      /\ Queue!CreateJob(Queue!ReplicateObject, [object |-> proc[r].id, target |-> t])
      /\ UNCHANGED <<rowVars, blob, historyVars>>
  BY <1>2, <1>3 DEF QueueBackup
<1>5. proc[r].pc = IF pc = "backups" THEN "queue" ELSE "repairQueue"
  BY <1>3, <1>4
<1>6. t = Current(r)
  BY <1>2, <1>4 DEF CurrentInv, PlainInv, Plain, Processes
<1> QED BY <1>4, <1>5, <1>6, QueueingCurrent

\* and a repair for the one it has come to.
LEMMA QueueRepairCurrent ==
  ASSUME Orderly, Inv, CurrentInv, NEW r \in Requests, QueueRepair(r)
  PROVE  CurrentInv'
<1>1. Current(r) \in Targets
  BY Disjoint, CurrentIsTarget DEF QueueRepair, AtTarget
<1>2. PICK t \in Targets : t = Current(r)
  BY <1>1
<1>3. PICK pc \in {"backups", "repair"} : pc = "repair"
  OBVIOUS
<1>4. /\ NextTarget(r, pc) /\ proc[r].pc = IF pc = "backups" THEN "queue" ELSE "repairQueue"
      /\ Queue!CreateJob(Queue!ReplicateObject, [object |-> proc[r].id, target |-> t])
      /\ UNCHANGED <<rowVars, blob, historyVars>>
  BY <1>2, <1>3 DEF QueueRepair, AtTarget
<1> QED BY <1>2, <1>4, QueueingCurrent

\* No request does anything else.
LEMMA RequestCurrent ==
  ASSUME Orderly, Inv, CurrentInv, NEW r \in Requests, Request(r) \/ Cancel(r)
  PROVE  CurrentInv'
<1>1. /\ r \in Processes /\ At(proc[r].op, proc[r].pc)
      /\ Kinds[r] \subseteq {"upload", "repair"}
  BY Disjoint, ProcFields DEF Inv, Orderly
<1>2. proc[r].op \in {"none", "upload", "repair"} /\ proc[r].pc \notin CopyPcs
  BY <1>1, CopyFacts DEF Inv, ProcInv, CurrentInv, PlainInv, Plain
<1>3. proc[r].pc \notin {"stat", "statMark", "switch", "delete"}
  BY <1>1, <1>2 DEF At, CopyPcs
<1>4. CASE Upload(r)
  BY <1>4, StartUploadCurrent, PutPrimaryCurrent, PutPrimaryFailsCurrent, SaveObjectCurrent,
     MarkPrimaryCurrent, MarkBackupCurrent, QueueBackupCurrent, FinishUploadCurrent DEF Upload
<1>5. ~Replicate(r)
  BY <1>2 DEF Replicate, LoadSource, NothingToCopy, GetSource, GetSourceFails, StagingFails,
              PutBackup, PutBackupFails, MarkReady, MarkFailed, CopyPcs
<1>6. ~Refresh(r)
  BY <1>1, <1>3 DEF Refresh, StartRefresh, SkipRefresh, StatReplica, MarkStat, Start, AtTarget
<1>7. ~Switch(r) /\ ~Delete(r)
  BY <1>1, <1>3 DEF Switch, StartSwitch, UpdatePrimaryTarget, Delete, StartDelete, DeleteBlob,
                    DeleteBlobFails, DeleteObject, Start, AtTarget
<1>8. CASE Repair(r)
  BY <1>8, StartRepairCurrent, SkipRepairCurrent, MarkRepairCurrent, QueueRepairCurrent
     DEF Repair
<1>9. CASE Answer(r) \/ Cancel(r)
  BY <1>9, AnswerCurrent
<1> QED BY <1>4, <1>5, <1>6, <1>7, <1>8, <1>9 DEF Request

\* As long as nobody writes to the primary but uploads, and none is in the middle of
\* it, the primary has what the row says.
LEMMA PrimaryHolds ==
  ASSUME CurrentInv, PrimaryOnlyUploaded, NEW t, Announced(t)
  PROVE  blob[Primary] = object.content
BY DEF CurrentInv, StoredInv, Announced, AllAcked, Past, Marked

\* The loop with a job in hand.
LEMMA CopyPlain ==
  ASSUME Inv, CurrentInv, NEW w \in Workers, proc[w].pc \in CopyPcs
  PROVE  /\ w \in Processes /\ w \notin Requests /\ proc[w].op = "job" /\ Shape(proc[w])
         /\ Queue!Holding(w) /\ worker[w].pc = "run"
         /\ worker[w].job \in Queue!Ids /\ jobs[worker[w].job].status = "running"
         /\ jobs[worker[w].job].payload = Payload(proc[w].target)
         /\ jobs[worker[w].job].payload.target = proc[w].target
         /\ Exists(proc[w].id) /\ proc[w].target \in Targets /\ object.primary = Primary
         /\ PrimaryOnlyUploaded => proc[w].target # Primary
<1>1. w \in Processes /\ w \notin Requests
  BY WorkersAssumption DEF Processes
<1>2. /\ Shape(proc[w]) /\ proc[w].op = "job" /\ worker[w].pc = "run"
      /\ proc[w].target \in Targets
      /\ jobs[worker[w].job].payload = [object |-> proc[w].id, target |-> proc[w].target]
  BY <1>1, CopyFacts
<1>3. Queue!Holding(w)
  BY <1>2 DEF Queue!Holding
<1>4. worker[w].job \in Queue!Ids /\ jobs[worker[w].job].status = "running"
  BY <1>3, TableFacts
<1>5. Exists(proc[w].id) /\ object.primary = Primary
  BY <1>2, <1>4 DEF CurrentInv, PlainInv
<1>6. /\ jobs[worker[w].job].payload = Payload(proc[w].target)
      /\ PrimaryOnlyUploaded => proc[w].target # Primary
  BY <1>2, <1>4, <1>5, OnlyBackups DEF Payload, Exists
<1> QED BY <1>1, <1>2, <1>3, <1>4, <1>5, <1>6

\* A step of the loop that leaves the objects and the requests alone.
LEMMA LoopStays ==
  ASSUME Orderly, Inv, CurrentInv, NEW w \in Workers, Moves(w), Plain(w)',
         proc'[w].pc # "save", Queue!Ids' = Queue!Ids, JobsKept, TurnInv',
         UNCHANGED <<object, acked, policy>>,
         PrimaryOnlyUploaded =>
           blob'[Primary] = blob[Primary] /\ replica'[Primary] = replica[Primary],
         \A t \in Targets \ {Primary} : replica'[t] = "ready" =>
           replica[t] = "ready" \/ \E i \in Queue!Ids : jobs[i].payload.target = t,
         PrimaryOnlyUploaded =>
           \A i \in Queue!Ids : Latest(i) /\ Announced(jobs[i].payload.target) =>
             (jobs'[i].status = "done" => Copied(i)') /\ InHand(w, i)'
  PROVE  CurrentInv'
<1>1. w \in Processes /\ w \notin Requests
  BY WorkersAssumption DEF Processes
<1>2. KeepsTable(w)
  BY DEF KeepsTable, CurrentInv, PlainInv
<1>3. PlainInv'
  BY <1>1, <1>2, PlainStays
<1>4. PrimaryOnlyUploaded' => PrimaryOnlyUploaded
  BY <1>2, UploadedBefore DEF KeepsTable
<1>5. StoredInv'
  <2>1. ~Past(w)'
    BY <1>1 DEF Plain, Past
  <2> QED BY <1>1, <1>2, <1>4, <2>1, StoredStays
<1>6. SourcedInv'
  BY <1>1, <1>2, SourcedStays
<1>7. CopiedInv'
  <2> SUFFICES ASSUME PrimaryOnlyUploaded', NEW i \in Queue!Ids', Latest(i)',
                      Announced(jobs[i].payload.target)'
               PROVE  Delivered(i)'
    BY DEF CopiedInv
  <2>1. i \in Queue!Ids /\ Latest(i) /\ jobs'[i].payload = jobs[i].payload
    BY DEF Latest, JobsKept
  <2>2. Announced(jobs[i].payload.target)
    <3>1. \A r \in Requests : proc'[r] = proc[r]
      BY <1>1 DEF Moves, Processes
    <3> QED BY <2>1, <3>1 DEF Announced, Marked
  <2>3. \A v \in Workers : v = w
    BY DEF Orderly
  <2> QED BY <1>4, <2>1, <2>2, <2>3 DEF Delivered
<1>8. QueuedInv'
  BY QueuedStays
<1> QED BY <1>3, <1>5, <1>6, <1>7, <1>8 DEF CurrentInv

\* A step of replicateObject in the loop, which keeps the job in hand: a copy to a
\* target is of no account to its newest job, if that is another one.
LEMMA CopyStays ==
  ASSUME Orderly, Inv, CurrentInv, NEW w \in Workers, proc[w].pc \in CopyPcs,
         Moves(w), proc'[w].pc \in CopyPcs, proc'[w].op = proc[w].op, proc'[w].id = proc[w].id,
         proc'[w].pc = "get" =>
           /\ proc'[w].source # proc'[w].target
           /\ Several /\ PrimaryOnlyUploaded => proc'[w].source = Primary,
         UNCHANGED <<queueVars, rowVars, historyVars>>,
         \A t \in Targets : t # proc[w].target => blob'[t] = blob[t],
         blob' = blob \/ proc[w].pc = "copy",
         PrimaryOnlyUploaded /\ Latest(worker[w].job) /\ Announced(proc[w].target) =>
           /\ proc'[w].pc = "copy" => proc'[w].content = object.content
           /\ proc'[w].pc = "markReady" => blob'[proc[w].target] = object.content
  PROVE  CurrentInv'
<1>1. /\ w \in Processes /\ w \notin Requests /\ proc[w].op = "job"
      /\ Queue!Holding(w) /\ worker[w].pc = "run"
      /\ worker[w].job \in Queue!Ids /\ jobs[worker[w].job].status = "running"
      /\ jobs[worker[w].job].payload = Payload(proc[w].target)
      /\ jobs[worker[w].job].payload.target = proc[w].target
      /\ Exists(proc[w].id) /\ proc[w].target \in Targets
      /\ PrimaryOnlyUploaded => proc[w].target # Primary
  BY CopyPlain
<1>2. UNCHANGED <<jobs, worker, object, replica, acked, policy>>
  BY DEF queueVars, rowVars, historyVars
<1>3. Queue!Ids' = Queue!Ids /\ JobsKept
  BY QuietQueue
<1>4. TurnInv'
  BY <1>2, TurnStays DEF Queue!Holding
<1>5. Plain(w)'
  <2>1. PrimaryOnlyUploaded' => PrimaryOnlyUploaded
    BY <1>2, <1>3, UploadedBefore DEF CurrentInv, PlainInv
  <2> QED BY <1>1, <1>2, <2>1 DEF Plain, Exists, CopyPcs
<1>6. proc'[w].pc # "save"
  BY DEF CopyPcs
<1>7. PrimaryOnlyUploaded => blob'[Primary] = blob[Primary]
  BY <1>1 DEF Targets
<1>8. ASSUME PrimaryOnlyUploaded, NEW i \in Queue!Ids, Latest(i),
             Announced(jobs[i].payload.target)
      PROVE  (jobs'[i].status = "done" => Copied(i)') /\ InHand(w, i)'
  <2>1. Delivered(i)
    BY <1>8 DEF CurrentInv, CopiedInv
  <2>2. PICK t \in Targets : t = jobs[i].payload.target /\ jobs[i].payload = Payload(t)
    BY OnlyBackups
  <2>3. InHand(w, i)'
    BY <1>1, <1>2, <1>8 DEF InHand, Copied
  <2>4. CASE blob' = blob \/ t # proc[w].target
    <3>1. Copied(i)' <=> Copied(i)
      BY <1>2, <2>2, <2>4 DEF Copied
    <3> QED BY <1>2, <2>1, <2>3, <3>1 DEF Delivered
  <2>5. CASE t = proc[w].target
    <3>1. worker[w].job <= i
      BY <1>1, <1>8, <2>2, <2>5 DEF Latest
    <3>2. jobs[i].status # "done"
      <4>1. CASE i = worker[w].job
        BY <1>1, <4>1
      <4>2. CASE i # worker[w].job
        <5>1. worker[w].job < i
          BY <1>1, <3>1, <4>2, TableFacts
        <5>2. jobs[i].attempts = 0
          BY <1>1, <5>1 DEF CurrentInv, TurnInv
        <5> QED BY <5>2, TableFacts
      <4> QED BY <4>1, <4>2
    <3> QED BY <1>2, <2>3, <3>2
  <2> QED BY <2>4, <2>5
<1> QED BY <1>2, <1>3, <1>4, <1>5, <1>6, <1>7, <1>8, LoopStays

\* The source is another target, and the primary if it is ready.
LEMMA LoadSourceCurrent ==
  ASSUME Orderly, Inv, CurrentInv, NEW w \in Workers, LoadSource(w)
  PROVE  CurrentInv'
<1>1. /\ w \in Processes /\ proc[w].pc \in CopyPcs /\ Shape(proc[w])
      /\ Sources(proc[w].target) # {} /\ Queue!Ids # {} /\ object.primary = Primary
      /\ PrimaryOnlyUploaded => proc[w].target # Primary
  BY CopyPlain DEF LoadSource, CopyPcs, CanLoad
<1>2. PICK s \in Targets : s = FirstSource(proc[w].target) /\ s # proc[w].target
  BY <1>1, FirstIsIn DEF FirstSource, Sources
<1>3. Several /\ PrimaryOnlyUploaded => s = Primary
  BY <1>1, <1>2 DEF CurrentInv, SourcedInv, FirstSource, Sources, Targets
<1>4. PICK q : q = [proc[w] EXCEPT !.pc = "get", !.source = s]
  OBVIOUS
<1>5. /\ q \in ProcState /\ q.pc = "get" /\ q.op = proc[w].op /\ q.id = proc[w].id
      /\ q.target = proc[w].target /\ q.source = s
  BY <1>1, <1>4 DEF Shape, ProcState, Pcs, CopyPcs
<1>6. Moves(w) /\ proc'[w] = q
  BY <1>1, <1>2, <1>4, <1>5 DEF LoadSource, Inv, ProcInv, Moves
<1>7. UNCHANGED <<queueVars, rowVars, blob, historyVars>>
  BY DEF LoadSource
<1>8. proc'[w].pc \in CopyPcs
  BY <1>5, <1>6 DEF CopyPcs
<1> QED BY <1>1, <1>2, <1>5, <1>6, <1>7, <1>8, <1>3, CopyStays

\* What is copied to a backup is the primary's.
LEMMA GetSourceCurrent ==
  ASSUME Orderly, Inv, CurrentInv, NEW w \in Workers, GetSource(w)
  PROVE  CurrentInv'
<1>1. /\ w \in Processes /\ proc[w].pc = "get" /\ proc[w].pc \in CopyPcs /\ Shape(proc[w])
      /\ PrimaryOnlyUploaded => proc[w].target # Primary
  BY CopyPlain DEF GetSource, CopyPcs
<1>2. /\ proc[w].source \in Targets /\ proc[w].target \in Targets
      /\ proc[w].source # proc[w].target
  BY <1>1 DEF Shape, ProcState, CurrentInv, PlainInv, Plain
<1>3. PrimaryOnlyUploaded => proc[w].source = Primary
  BY <1>1, <1>2, TwoTargets DEF CurrentInv, PlainInv, Plain
<1>4. PICK c \in Contents \cup {NoContent} : c = blob[proc[w].source]
  BY <1>2 DEF Inv, RowsInv
<1>5. PICK q : q = [proc[w] EXCEPT !.pc = "copy", !.content = c]
  OBVIOUS
<1>6. /\ q \in ProcState /\ q.pc = "copy" /\ q.op = proc[w].op /\ q.id = proc[w].id
      /\ q.content = c
  BY <1>1, <1>5 DEF Shape, ProcState, Pcs, CopyPcs
<1>7. Moves(w) /\ proc'[w] = q
  BY <1>1, <1>4, <1>5, <1>6 DEF GetSource, Inv, ProcInv, Moves
<1>8. UNCHANGED <<queueVars, rowVars, blob, historyVars>>
  BY DEF GetSource
<1>9. PrimaryOnlyUploaded /\ Announced(proc[w].target) => c = object.content
  BY <1>3, <1>4, PrimaryHolds
<1>10. proc'[w].pc \in CopyPcs
  BY <1>6, <1>7 DEF CopyPcs
<1> QED BY <1>1, <1>6, <1>7, <1>8, <1>9, <1>10, CopyStays

\* A source that cannot be opened.
LEMMA GetSourceFailsCurrent ==
  ASSUME Orderly, Inv, CurrentInv, NEW w \in Workers, GetSourceFails(w)
  PROVE  CurrentInv'
<1>1. w \in Processes /\ proc[w].pc \in CopyPcs
  BY CopyPlain DEF GetSourceFails, CopyPcs
<1>2. Moves(w) /\ SameTask(w) /\ proc'[w].pc = "markFailed" /\ proc'[w].pc \in CopyPcs
  BY <1>1, GotoFields DEF GetSourceFails, Goto, Inv, Pcs, CopyPcs
<1>3. UNCHANGED <<queueVars, rowVars, blob, historyVars>>
  BY DEF GetSourceFails
<1> QED BY <1>1, <1>2, <1>3, CopyStays DEF SameTask

\* Putting it to the backup brings that one up to date.
LEMMA PutBackupCurrent ==
  ASSUME Orderly, Inv, CurrentInv, NEW w \in Workers, PutBackup(w) \/ PutBackupFails(w)
  PROVE  CurrentInv'
<1>1. /\ w \in Processes /\ proc[w].pc = "copy" /\ proc[w].pc \in CopyPcs
      /\ Queue!Holding(w) /\ worker[w].job \in Queue!Ids /\ proc[w].target \in Targets
      /\ jobs[worker[w].job].payload.target = proc[w].target
  BY CopyPlain DEF PutBackup, PutBackupFails, CopyPcs
<1>2. PICK pc \in {"markReady", "markFailed"} :
        /\ Goto(w, pc)
        /\ pc = "markReady" => blob' = [blob EXCEPT ![proc[w].target] = proc[w].content]
  BY SMTT(30) DEF PutBackup, PutBackupFails
<1>3. /\ Moves(w) /\ SameTask(w) /\ proc'[w].pc = pc /\ proc'[w].pc \in CopyPcs
  BY <1>1, <1>2, GotoFields DEF Goto, Inv, Pcs, CopyPcs
<1>4. UNCHANGED <<queueVars, rowVars, historyVars>>
  BY DEF PutBackup, PutBackupFails
<1>5. /\ blob \in [Targets -> Contents \cup {NoContent}]
      /\ blob' \in {blob, [blob EXCEPT ![proc[w].target] = proc[w].content]}
  BY DEF PutBackup, PutBackupFails, Inv, RowsInv
<1>6. /\ \A t \in Targets : t # proc[w].target => blob'[t] = blob[t]
      /\ pc = "markReady" => blob'[proc[w].target] = proc[w].content
  BY <1>1, <1>2, <1>5
<1>7. PrimaryOnlyUploaded /\ Latest(worker[w].job) /\ Announced(proc[w].target) =>
        proc[w].content = object.content
  BY <1>1 DEF CurrentInv, CopiedInv, Delivered, InHand
<1> QED BY <1>1, <1>2, <1>3, <1>4, <1>6, <1>7, CopyStays DEF SameTask

\* The job returns: with success, if the copy has been made.
LEMMA ReturnCurrent ==
  ASSUME Orderly, Inv, CurrentInv, NEW w \in Workers, proc[w].pc \in CopyPcs,
         NEW ok \in BOOLEAN, Return(w, ok), ok => proc[w].pc = "markReady",
         \A t \in Targets : t # proc[w].target => replica'[t] = replica[t],
         UNCHANGED <<object, blob, acked, policy>>
  PROVE  CurrentInv'
<1>1. /\ w \in Processes /\ w \notin Requests /\ Queue!Holding(w) /\ Primary \in Targets
      /\ worker[w].job \in Queue!Ids
      /\ jobs[worker[w].job].payload.target = proc[w].target
      /\ PrimaryOnlyUploaded => proc[w].target # Primary
  BY CopyPlain DEF Targets
<1>2. /\ Moves(w) /\ JobsKept /\ jobs' = jobs /\ proc'[w] = Idle /\ Queue!Ids' = Queue!Ids
      /\ worker'[w].job = worker[w].job /\ worker'[w].pc = IF ok THEN "ok" ELSE "err"
  BY <1>1, ReturnMoves
<1>3. Idle.pc = "idle" /\ Idle.op = "none"
  BY IdleFields
<1>4. Plain(w)' /\ proc'[w].pc # "save"
  BY <1>2, <1>3 DEF Plain, CopyPcs
<1>5. TurnInv'
  <2>1. \A v \in Workers : v = w
    BY DEF Orderly
  <2> QED BY <1>1, <1>2, <2>1, TurnStays
<1>6. ASSUME PrimaryOnlyUploaded, NEW i \in Queue!Ids, Latest(i),
             Announced(jobs[i].payload.target)
      PROVE  (jobs'[i].status = "done" => Copied(i)') /\ InHand(w, i)'
  <2>1. Delivered(i)
    BY <1>6 DEF CurrentInv, CopiedInv
  <2>2. Copied(i)' <=> Copied(i)
    BY <1>2 DEF Copied
  <2> QED BY <1>1, <1>2, <1>3, <2>1, <2>2 DEF Delivered, InHand
<1> QED BY <1>1, <1>2, <1>4, <1>5, <1>6, LoopStays

\* It does so in four places.
LEMMA ReturningCurrent ==
  ASSUME Orderly, Inv, CurrentInv, NEW w \in Workers,
         NothingToCopy(w) \/ StagingFails(w) \/ MarkReady(w) \/ MarkFailed(w)
  PROVE  CurrentInv'
<1>1. /\ UNCHANGED <<object, blob, acked, policy>> /\ proc[w].pc \in CopyPcs
      /\ \A t \in Targets : t # proc[w].target => replica'[t] = replica[t]
  BY DEF NothingToCopy, StagingFails, MarkReady, MarkFailed, Upsert, CopyPcs, rowVars,
         historyVars, Inv, RowsInv
<1>2. PICK ok \in BOOLEAN : Return(w, ok) /\ (ok => proc[w].pc = "markReady")
  BY DEF NothingToCopy, StagingFails, MarkReady, MarkFailed, Exists
<1> QED BY <1>1, <1>2, ReturnCurrent

\* The oldest queued job is taken, when no older one is waiting or under way.
LEMMA StartJobCurrent ==
  ASSUME Orderly, Inv, CurrentInv, NEW w \in Workers, StartJob(w)
  PROVE  CurrentInv'
<1>1. w \in Processes /\ w \notin Requests /\ \A v \in Workers : v = w
  BY WorkersAssumption DEF Processes, Orderly
<1>2. /\ UNCHANGED <<object, replica, blob, acked, policy>> /\ Queue!NextQueuedJob(w)
  BY DEF StartJob, rowVars
<1>3. PICK n \in Queue!Ids :
        /\ jobs[n].status = "queued" /\ \A k \in Queue!Queued : n <= k
        /\ jobs' = [jobs EXCEPT ![n] = Queue!Taken(@)]
        /\ worker' = [worker EXCEPT ![w] = Queue!Running(n, Queue!Taken(jobs[n]))]
  BY <1>2 DEF Queue!NextQueuedJob, Queue!Queued
<1>4. /\ OnlyRow(worker'[w].job) /\ worker'[w].pc = "run" /\ worker[w].pc = "poll"
  BY <1>2, TakeEffect DEF Inv
<1>5. worker'[w].job = n
  BY <1>3, QueueFacts DEF Inv, Queue!Running
<1>6. /\ jobs \in Seq(Queue!Job) /\ Queue!Ids = 1 .. Len(jobs) /\ Len(jobs) \in Nat
      /\ jobs[n] \in Queue!Job
  BY TableFacts
<1>7. /\ Queue!Ids' = Queue!Ids /\ JobsKept /\ jobs'[n].status = "running"
      /\ \A k \in Queue!Ids : k # n => jobs'[k] = jobs[k]
  <2>1. PICK row : row = Queue!Taken(jobs[n])
    OBVIOUS
  <2>2. jobs' = [jobs EXCEPT ![n] = row]
    BY <1>3, <2>1
  <2>3. row.status = "running"
    BY <1>6, <2>1 DEF Queue!Taken, Queue!Job
  <2> QED BY <1>4, <1>5, <1>6, <2>2, <2>3 DEF OnlyRow, JobsKept
<1>8. TurnInv'
  <2> SUFFICES ASSUME NEW i \in Queue!Ids', NEW k \in Queue!Ids', i < k,
                      jobs'[k].attempts # 0
               PROVE  jobs'[i].status # "queued" /\ n # i
    BY <1>1, <1>5 DEF TurnInv
  <2>1. i \in Queue!Ids /\ k \in Queue!Ids /\ i \in Nat /\ k \in Nat /\ n \in Nat
    BY <1>6, <1>7
  <2>2. CASE k = n
    <3>1. i \notin Queue!Queued
      BY <1>3, <2>1, <2>2
    <3> QED BY <1>7, <2>1, <2>2, <3>1 DEF Queue!Queued
  <2>3. CASE k # n
    <3>1. jobs[i].status # "queued"
      BY <1>7, <2>1, <2>3 DEF CurrentInv, TurnInv
    <3> QED BY <1>3, <1>7, <2>1, <3>1
  <2> QED BY <2>2, <2>3
<1>9. PICK id \in Nat, t \in Targets : jobs[n].payload = [object |-> id, target |-> t]
  BY QueueFacts DEF Inv, Queue!Job
<1>10. jobs'[n].payload = [object |-> id, target |-> t] /\ Exists(id)
  BY <1>7, <1>9 DEF JobsKept, CurrentInv, PlainInv
<1>11. PICK q : q = [proc[w] EXCEPT !.pc = "load", !.op = "job", !.id = id, !.target = t]
  OBVIOUS
<1>12. q \in ProcState /\ q.pc = "load" /\ q.op = "job" /\ q.id = id
  <2>1. proc[w] \in ProcState
    BY <1>1, ProcFields DEF Inv
  <2> QED BY <1>11, <2>1 DEF ProcState, Pcs, CopyPcs
<1>13. Moves(w) /\ proc'[w] = q
  BY <1>1, <1>5, <1>9, <1>11, <1>12 DEF StartJob, Inv, ProcInv, Moves
<1>14. Plain(w)' /\ proc'[w].pc # "save"
  BY <1>2, <1>10, <1>12, <1>13 DEF Plain, Exists
<1>15. ASSUME PrimaryOnlyUploaded, NEW i \in Queue!Ids, Latest(i),
              Announced(jobs[i].payload.target)
       PROVE  (jobs'[i].status = "done" => Copied(i)') /\ InHand(w, i)'
  <2>1. jobs'[i].status = "done" => jobs[i].status = "done"
    BY <1>7
  <2>2. Copied(i)' <=> Copied(i)
    BY <1>2, <1>7 DEF Copied, JobsKept
  <2>3. Delivered(i)
    BY <1>15 DEF CurrentInv, CopiedInv
  <2> QED BY <1>4, <1>12, <1>13, <2>1, <2>2, <2>3 DEF InHand, Delivered
<1> QED BY <1>2, <1>7, <1>8, <1>13, <1>14, <1>15, LoopStays

\* Its outcome is written down.
LEMMA QueueStepCurrent ==
  ASSUME Orderly, Inv, CurrentInv, NEW w \in Workers, QueueStep(w)
  PROVE  CurrentInv'
<1>1. w \in Processes /\ w \notin Requests /\ \A v \in Workers : v = w
  BY WorkersAssumption DEF Processes, Orderly
<1>2. /\ UNCHANGED <<object, replica, blob, acked, policy, proc>>
      /\ Queue!Tick(w) \/ Queue!NoQueuedJob(w) \/ Queue!FinishJob(w) \/ Queue!FailJob(w)
  BY DEF QueueStep, rowVars, historyVars
<1>3. /\ Moves(w) /\ Plain(w)' /\ proc'[w].pc # "save"
  <2>1. Shape(proc[w]) /\ proc[w].op \in {"none", "job"}
    BY <1>1, ProcFields DEF Inv, ProcInv
  <2>2. Plain(w)'
    <3>1. proc[w].pc # "get" /\ proc[w].pc # "queue"
      BY <1>2, <2>1 DEF Queue!Tick, Queue!NoQueuedJob, Queue!FinishJob, Queue!FailJob, Shape,
                        At, CopyPcs, Inv, ProcInv
    <3>2. Plain(w)
      BY <1>1 DEF CurrentInv, PlainInv
    <3> QED BY <1>2, <3>1, <3>2 DEF Plain, Exists
  <2> QED BY <1>2, <2>1, <2>2 DEF Inv, ProcInv, Moves, Shape, At, CopyPcs
<1>4. CASE Queue!Tick(w) \/ Queue!NoQueuedJob(w)
  <2>1. jobs' = jobs /\ ~Queue!Holding(w)' /\ Queue!Ids' = Queue!Ids /\ JobsKept
    BY <1>4, WaitEffect DEF Inv, Queue!Holding, JobsKept
  <2>2. TurnInv'
    BY <1>1, <2>1, TurnStays
  <2>3. PrimaryOnlyUploaded =>
          \A i \in Queue!Ids : Latest(i) /\ Announced(jobs[i].payload.target) =>
            (jobs'[i].status = "done" => Copied(i)') /\ InHand(w, i)'
    BY <1>2, <2>1 DEF CurrentInv, CopiedInv, Delivered, InHand, Copied
  <2> QED BY <1>2, <1>3, <2>1, <2>2, <2>3, LoopStays
<1>5. CASE Queue!FinishJob(w) \/ Queue!FailJob(w)
  <2>1. PICK n \in Queue!Ids :
          /\ n = worker[w].job /\ OnlyRow(n) /\ Queue!Holding(w) /\ ~Queue!Holding(w)'
          /\ worker[w].pc \in {"ok", "err"} /\ jobs[n].status = "running"
          /\ worker[w].pc = "err" => jobs'[n].status \in {"queued", "failed"}
    BY <1>5, OutcomeEffect DEF Inv, Queue!Holding
  <2>2. JobsKept /\ Queue!Ids' = Queue!Ids
    BY <2>1 DEF OnlyRow, JobsKept
  <2>3. TurnInv'
    <3> SUFFICES ASSUME NEW i \in Queue!Ids', NEW k \in Queue!Ids', i < k,
                        jobs'[k].attempts # 0
                 PROVE  jobs'[i].status # "queued"
      BY <1>1, <2>1 DEF TurnInv
    <3>1. i \in Queue!Ids /\ k \in Queue!Ids
      BY <2>2
    <3>2. jobs[k].attempts # 0
      BY <2>1, <3>1, TableFacts DEF OnlyRow
    <3>3. i # n /\ jobs[i].status # "queued"
      BY <2>1, <3>1, <3>2 DEF CurrentInv, TurnInv
    <3> QED BY <2>1, <3>1, <3>3 DEF OnlyRow
  <2>4. ASSUME PrimaryOnlyUploaded, NEW i \in Queue!Ids, Latest(i),
               Announced(jobs[i].payload.target)
        PROVE  (jobs'[i].status = "done" => Copied(i)') /\ InHand(w, i)'
    <3>1. Delivered(i)
      BY <2>4 DEF CurrentInv, CopiedInv
    <3>2. Copied(i)' <=> Copied(i)
      BY <1>2, <2>2 DEF Copied, JobsKept
    <3>3. CASE i = n
      BY <2>1, <3>1, <3>2, <3>3 DEF Delivered, InHand
    <3>4. CASE i # n
      BY <2>1, <3>1, <3>2, <3>4 DEF Delivered, InHand, OnlyRow
    <3> QED BY <3>3, <3>4
  <2> QED BY <1>2, <1>3, <2>2, <2>3, <2>4, LoopStays
<1> QED BY <1>2, <1>4, <1>5

\* A restart: whoever was writing does not come back, and loops hold nothing.
LEMMA RestartCurrent ==
  ASSUME Orderly, Inv, CurrentInv, Restart
  PROVE  CurrentInv'
<1>1. /\ UNCHANGED <<jobs, object, replica, blob, acked, policy>>
      /\ proc' = [p \in Processes |-> Idle]
      /\ worker' = [w \in Workers |-> Queue!NotHolding("wait")]
  BY DEF Restart, Queue!Restart, rowVars, historyVars
<1>2. \A p \in Processes : proc'[p].pc = "idle" /\ proc'[p].op = "none"
  BY <1>1, IdleFields
<1>3. \A w \in Workers : ~Queue!Holding(w)'
  BY <1>1 DEF Queue!Holding, Queue!NotHolding
<1>4. Queue!Ids' = Queue!Ids
  BY <1>1 DEF Queue!Ids
<1>5. PlainInv'
  BY <1>1, <1>2, <1>4 DEF CurrentInv, PlainInv, Plain, Exists, CopyPcs
<1>6. TurnInv'
  BY <1>1, <1>3, TurnStays
<1>7. PrimaryOnlyUploaded' <=> PrimaryOnlyUploaded
  BY <1>1, <1>4 DEF PrimaryOnlyUploaded, Payload
<1>8. StoredInv'
  <2>1. \A r \in Requests : ~Past(r)' /\ proc'[r].pc # "save"
    BY <1>2 DEF Past, Processes
  <2> QED BY <1>1, <1>7, <2>1 DEF CurrentInv, StoredInv, AllAcked
<1>9. CopiedInv'
  <2>1. \A t : Announced(t)' => Announced(t)
    BY <1>1, <1>2 DEF Announced, Processes
  <2>2. \A w \in Workers, i \in Queue!Ids : InHand(w, i)'
    BY <1>3 DEF InHand
  <2>3. \A i \in Queue!Ids : (Latest(i)' <=> Latest(i)) /\ (Copied(i)' <=> Copied(i))
    BY <1>1, <1>4 DEF Latest, Copied
  <2> QED BY <1>1, <1>4, <1>7, <2>1, <2>2, <2>3 DEF CurrentInv, CopiedInv, Delivered
<1>10. QueuedInv'
  BY <1>1, <1>4 DEF CurrentInv, QueuedInv
<1>11. SourcedInv'
  BY <1>1, <1>2, <1>4, <1>7 DEF CurrentInv, SourcedInv, Marked, Processes
<1> QED BY <1>5, <1>6, <1>8, <1>9, <1>10, <1>11 DEF CurrentInv

\* A step of something else.
LEMMA StutterCurrent ==
  ASSUME CurrentInv, UNCHANGED vars
  PROVE  CurrentInv'
<1>1. UNCHANGED <<jobs, worker, object, replica, blob, acked, policy, proc>>
  BY DEF vars, queueVars, rowVars, historyVars
<1>2. /\ Queue!Ids' = Queue!Ids
      /\ \A w \in Workers : Queue!Holding(w)' <=> Queue!Holding(w)
  BY <1>1 DEF Queue!Ids, Queue!Holding
<1>3. PrimaryOnlyUploaded' <=> PrimaryOnlyUploaded
  BY <1>1, <1>2 DEF PrimaryOnlyUploaded, Payload
<1>4. PlainInv'
  BY <1>1, <1>2, <1>3 DEF CurrentInv, PlainInv, Plain, Exists, Current
<1>5. TurnInv'
  BY <1>1, TurnStays DEF Queue!Holding
<1>6. StoredInv'
  BY <1>1, <1>3 DEF CurrentInv, StoredInv, AllAcked, Past
<1>7. SourcedInv'
  BY <1>1, <1>2, <1>3 DEF CurrentInv, SourcedInv, Marked
<1>8. CopiedInv'
  <2>1. \A t : Announced(t)' <=> Announced(t)
    BY <1>1 DEF Announced, Marked
  <2>2. \A i \in Queue!Ids : (Latest(i)' <=> Latest(i)) /\ (Delivered(i)' <=> Delivered(i))
    BY <1>1, <1>2 DEF Latest, Delivered, Copied, InHand
  <2> QED BY <1>1, <1>2, <1>3, <2>1, <2>2 DEF CurrentInv, CopiedInv
<1>9. QueuedInv'
  BY <1>1, <1>2 DEF CurrentInv, QueuedInv
<1> QED BY <1>4, <1>5, <1>6, <1>7, <1>8, <1>9 DEF CurrentInv

\* At first there is nothing to be out of date.
LEMMA InitCurrent ==
  ASSUME Orderly, Init
  PROVE  CurrentInv
<1>1. /\ object = NoObject /\ replica = NoRow /\ policy \in Policies
      /\ blob = [t \in Targets |-> NoContent] /\ proc = [p \in Processes |-> Idle]
      /\ acked = [r \in Requests |-> TRUE] /\ jobs = <<>>
  BY DEF Init, Queue!Init
<1>2. Queue!Ids = {}
  BY <1>1 DEF Queue!Ids
<1>3. /\ object.primary = Primary /\ object.content = NoContent /\ Primary \in Targets
      /\ \A t \in Targets : replica[t] = "none"
  BY <1>1 DEF NoObject, NoRow, Targets
<1>4. \A p \in Processes : proc[p].pc = "idle" /\ proc[p].op = "none"
  BY <1>1, IdleFields
<1>5. policy \notin {"primary_only", "require_backups"}
  BY <1>1 DEF Orderly
<1>6. PlainInv
  BY <1>1, <1>2, <1>3, <1>4, <1>5 DEF PlainInv, Plain, CopyPcs
<1>7. TurnInv /\ CopiedInv /\ QueuedInv
  BY <1>2, <1>3 DEF TurnInv, CopiedInv, QueuedInv
<1>8. StoredInv
  BY <1>1, <1>3, <1>4 DEF StoredInv, Processes
<1>9. SourcedInv
  BY <1>2, <1>4 DEF SourcedInv, Marked, Processes
<1> QED BY <1>6, <1>7, <1>8, <1>9 DEF CurrentInv

\* All the loop does.
LEMMA JobLoopCurrent ==
  ASSUME Orderly, Inv, CurrentInv, NEW w \in Workers, JobLoop(w)
  PROVE  CurrentInv'
BY QueueStepCurrent, StartJobCurrent, LoadSourceCurrent, GetSourceCurrent,
   GetSourceFailsCurrent, PutBackupCurrent, ReturningCurrent DEF JobLoop, Replicate

\* After overwrites that were all answered with success, and with the queue drained, a
\* ready replica whose newest job succeeded has the object's bytes, whatever failed
\* and was restarted on the way: with any number of backups, one loop, one client
\* that writes and a policy that leaves the backups to jobs; and with one backup,
\* while any number of clients repair, too.
THEOREM OverwritesSettle ==
  ASSUME Orderly
  PROVE  Spec => []SettledReplicasCurrent
<1>1. Init => CurrentInv
  BY InitCurrent
<1>2. Inv /\ CurrentInv /\ [Next]_vars => CurrentInv'
  BY RequestCurrent, JobLoopCurrent, RestartCurrent, StutterCurrent DEF Next
<1>3. ASSUME Inv, CurrentInv
      PROVE  SettledReplicasCurrent
  <2> SUFFICES ASSUME AllAcked, PrimaryOnlyUploaded, NEW t \in Targets,
                      replica[t] = "ready", NewestJobDone(t)
               PROVE  blob[t] = object.content
    BY DEF SettledReplicasCurrent
  <2>1. CASE t = Primary
    BY <1>3, <2>1 DEF CurrentInv, StoredInv
  <2>2. CASE t # Primary
    <3> DEFINE mine == {i \in Queue!Ids : jobs[i].payload = Payload(t)}
    <3>1. mine # {}
      BY <1>3, <2>2, OnlyBackups DEF CurrentInv, QueuedInv
    <3>2. PICK i \in mine : \A k \in mine : k <= i
      BY <1>3, <3>1, Newest
    <3>3. jobs[i].status = "done" /\ Latest(i)
      BY <3>2 DEF NewestJobDone, Latest
    <3>4. Announced(t) /\ jobs[i].payload.target = t
      BY <3>2 DEF Announced, AllAcked, Payload
    <3> QED BY <1>3, <3>3, <3>4 DEF CurrentInv, CopiedInv, Delivered, Copied
  <2> QED BY <2>1, <2>2
<1>4. Inv /\ CurrentInv => SettledReplicasCurrent
  BY <1>3
<1> QED BY <1>1, <1>2, <1>4, Invariance, PTL DEF Spec
=============================================================================
