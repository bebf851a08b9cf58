------------------------------ MODULE JobQueue ------------------------------
(***************************************************************************)
(* The background job queue: the `jobs` table (internal/db/db.go) and the  *)
(* job loops that drain it (internal/server/jobs.go).                      *)
(*                                                                         *)
(* SQLite is opened with one connection, so every statement or transaction *)
(* is one atomic step here.  Job ids are AUTOINCREMENT and rows are never  *)
(* deleted: the table is a sequence, and a job's id is its index.          *)
(*                                                                         *)
(* What a job does is left open (RunJob returns nil or an error).  Modules *)
(* with real jobs INSTANCE this one and conjoin their own steps.           *)
(***************************************************************************)
EXTENDS Naturals, Sequences, FiniteSets

CONSTANTS
  Workers,      \* the job loops, one per limits.max_active_transfers
  Payloads,     \* what a job is about; opaque to the queue
  MaxAttempts,  \* the literal 5 of jobLoop
  MaxJobs,      \* bound: jobs created in a behaviour
  MaxFaults     \* bound: database errors and restarts in a behaviour

ASSUME MaxAttemptsAssumption == MaxAttempts \in Nat \ {0}

ASSUME BoundsAssumption == MaxJobs \in Nat /\ MaxFaults \in Nat

VARIABLES
  jobs,    \* the table: id |-> [type, payload, status, attempts]
  worker,  \* a loop's program counter and the job row it loaded
  faults   \* how many faults have happened (bound only)

vars == <<jobs, worker, faults>>

DeploySite == "deploy_site"
ReplicateObject == "replicate_object"
InitLibraries == "init_resource_libraries"
JobTypes == {DeploySite, ReplicateObject, InitLibraries}

JobStatuses == {"queued", "running", "done", "failed"}

Job == [type : JobTypes, payload : Payloads, status : JobStatuses, attempts : Nat]

\* A loop's program counter.  "wait": at the select; "poll": about to ask for a
\* job; "run": inside runJob; "ok", "err": runJob returned, nothing written yet.
LoopState == [pc : {"wait", "poll", "run", "ok", "err"}, job : Nat, attempts : Nat]

Ids == 1..Len(jobs)

Holding(w) == worker[w].pc \in {"run", "ok", "err"}

NotHolding(pc) == [pc |-> pc, job |-> 0, attempts |-> 0]

\* Broken variant: the loop keeps the row as it was before the attempt was counted.
RunningUncounted(i, row) == [pc |-> "run", job |-> i, attempts |-> row.attempts - 1]

\* The loop runs job i, keeping the row it loaded.
Running(i, row) == [pc |-> "run", job |-> i, attempts |-> row.attempts]

\* Broken variant: the claim forgets to take the row out of the queue.
TakenStillQueued(row) == [row EXCEPT !.attempts = @ + 1]

\* A row's two updates: taken by a loop (the attempt is counted), given an outcome.
Taken(row) == [row EXCEPT !.status = "running", !.attempts = @ + 1]

\* Broken variant: putting a job back forgets its attempts.
WithStatusAndReset(row, status) ==
  [row EXCEPT !.status = status, !.attempts = IF status = "queued" THEN 0 ELSE @]

WithStatus(row, status) == [row EXCEPT !.status = status]

Queued == {i \in Ids : jobs[i].status = "queued"}

\* A running row that no loop works on: nothing will ever finish it.
Stranded ==
  {i \in Ids : /\ jobs[i].status = "running"
               /\ \A w \in Workers : Holding(w) => worker[w].job # i}

Settled(i) == jobs[i].status \in {"done", "failed"}

Init ==
  /\ jobs = <<>>
  /\ worker = [w \in Workers |-> NotHolding("wait")]
  /\ faults = 0

-----------------------------------------------------------------------------
(* A handler inserts a job: queued, never attempted.                       *)

CreateJob(type, payload) ==
  /\ jobs' = Append(jobs, [type |-> type, payload |-> payload,
                           status |-> "queued", attempts |-> 0])
  /\ UNCHANGED <<worker, faults>>

-----------------------------------------------------------------------------
(* The job loop.                                                           *)

\* The ticker fires: the loop leaves its select and starts draining.
Tick(w) ==
  /\ worker[w].pc = "wait"
  /\ worker' = [worker EXCEPT ![w].pc = "poll"]
  /\ UNCHANGED <<jobs, faults>>

\* One transaction takes the oldest queued row and counts the attempt.  The
\* row is then read back by a statement of its own, but no one writes a running
\* row except the loop that owns it, so that read sees what was committed.
NextQueuedJob(w) ==
  /\ worker[w].pc = "poll"
  /\ \E i \in Queued :
       /\ \A k \in Queued : i <= k
       /\ jobs' = [jobs EXCEPT ![i] = Taken(@)]
       /\ worker' = [worker EXCEPT ![w] = Running(i, Taken(jobs[i]))]
  /\ UNCHANGED faults

\* sql.ErrNoRows: back to the select.
NoQueuedJob(w) ==
  /\ worker[w].pc = "poll"
  /\ Queued = {}
  /\ worker' = [worker EXCEPT ![w] = NotHolding("wait")]
  /\ UNCHANGED <<jobs, faults>>

\* runJob returns: without an error (ok) or with one.
RunJob(w, ok) ==
  /\ worker[w].pc = "run"
  /\ worker' = [worker EXCEPT ![w].pc = IF ok THEN "ok" ELSE "err"]
  /\ UNCHANGED <<jobs, faults>>

FinishJob(w) ==
  /\ worker[w].pc = "ok"
  /\ jobs' = [jobs EXCEPT ![worker[w].job] = WithStatus(@, "done")]
  /\ worker' = [worker EXCEPT ![w] = NotHolding("poll")]
  /\ UNCHANGED faults

\* Broken variant of the retry rule: one attempt too many.
RetryOnceMore(w) ==
  /\ worker[w].attempts <= MaxAttempts
  /\ jobs[worker[w].job].type # DeploySite

Retry(w) ==
  /\ worker[w].attempts < MaxAttempts
  /\ jobs[worker[w].job].type # DeploySite

\* Broken variants: a job that is given up stays running; an unknown status.
FailStatusStuck(w) == IF Retry(w) THEN "queued" ELSE "running"

FailStatusUnknown(w) == IF Retry(w) THEN "queued" ELSE "error"

FailStatus(w) == IF Retry(w) THEN "queued" ELSE "failed"

FailJob(w) ==
  /\ worker[w].pc = "err"
  /\ jobs' = [jobs EXCEPT ![worker[w].job] = WithStatus(@, FailStatus(w))]
  /\ worker' = [worker EXCEPT ![w] = NotHolding("poll")]
  /\ UNCHANGED faults

-----------------------------------------------------------------------------
(* Faults.  Each is only logged, or not noticed at all; none is repaired.  *)

\* The claim fails before its commit: the loop waits for the next tick.
ClaimFails(w) ==
  /\ worker[w].pc = "poll"
  /\ worker' = [worker EXCEPT ![w] = NotHolding("wait")]
  /\ faults' = faults + 1
  /\ UNCHANGED jobs

\* The claim commits, then reading the row back fails: it stays running.
ReadBackFails(w) ==
  /\ worker[w].pc = "poll"
  /\ \E i \in Queued :
       /\ \A k \in Queued : i <= k
       /\ jobs' = [jobs EXCEPT ![i] = Taken(@)]
  /\ worker' = [worker EXCEPT ![w] = NotHolding("wait")]
  /\ faults' = faults + 1

\* Writing the outcome fails: the loop goes on and the row stays running.
OutcomeNotWritten(w) ==
  /\ worker[w].pc \in {"ok", "err"}
  /\ worker' = [worker EXCEPT ![w] = NotHolding("poll")]
  /\ faults' = faults + 1
  /\ UNCHANGED jobs

\* Broken variant: start-up puts every running or failed job back in the queue.
RestartRequeuesAll ==
  /\ worker' = [w \in Workers |-> NotHolding("wait")]
  /\ jobs' = [i \in Ids |-> IF jobs[i].status = "done" THEN jobs[i]
                            ELSE [jobs[i] EXCEPT !.status = "queued"]]
  /\ faults' = faults + 1

\* The process stops, by a crash or by a signal that cancels the loops' context,
\* and starts again.  Start-up does not look at running rows.
Restart ==
  /\ worker' = [w \in Workers |-> NotHolding("wait")]
  /\ faults' = faults + 1
  /\ UNCHANGED jobs

Fault ==
  /\ faults < MaxFaults
  /\ \/ Restart
     \/ \E w \in Workers : ClaimFails(w) \/ ReadBackFails(w) \/ OutcomeNotWritten(w)

-----------------------------------------------------------------------------
Create ==
  /\ Len(jobs) < MaxJobs
  /\ \E type \in JobTypes, payload \in Payloads : CreateJob(type, payload)

\* One step of a job loop.
Loop(w) ==
  \/ Tick(w)
  \/ NextQueuedJob(w)
  \/ NoQueuedJob(w)
  \/ \E ok \in BOOLEAN : RunJob(w, ok)
  \/ FinishJob(w)
  \/ FailJob(w)

Next == Create \/ Fault \/ \E w \in Workers : Loop(w)

Spec == Init /\ [][Next]_vars

\* The Go scheduler runs every goroutine, the ticker fires, and a job returns.
FairSpec == Spec /\ \A w \in Workers : WF_vars(Loop(w))

-----------------------------------------------------------------------------
(* Properties.                                                             *)

TypeOK ==
  /\ jobs \in Seq(Job)
  /\ worker \in [Workers -> LoopState]
  /\ faults \in Nat

\* A row is worked on by at most one loop at a time, whatever fails or restarts:
\* taking the oldest queued row and marking it running are one transaction.
ExclusiveClaim ==
  \A v, w \in Workers :
    Holding(v) /\ Holding(w) /\ worker[v].job = worker[w].job => v = w

\* While a loop holds a job its row is running and the attempt count the loop
\* will decide the retry with is the row's: the outcome it writes by id, without
\* looking at the row again, never overwrites somebody else's.
HeldRowIsOwn ==
  \A w \in Workers : Holding(w) =>
    /\ worker[w].job \in Ids
    /\ jobs[worker[w].job].status = "running"
    /\ jobs[worker[w].job].attempts = worker[w].attempts

Limit(row) == IF row.type = DeploySite THEN 1 ELSE MaxAttempts

WithinBudget(row) ==
  /\ row.attempts <= Limit(row)
  /\ row.status = "queued" => row.attempts < Limit(row)
  /\ row.status = "failed" => row.attempts = Limit(row)

\* How often work is attempted: a queued job always has an attempt left, a
\* deployment is never attempted twice, and a job is given up only when its
\* attempts are used up (or it is a deployment that failed once).
RetryBudget == \A i \in Ids : WithinBudget(jobs[i])

\* No job is forgotten while nothing goes wrong: a running row has a loop that
\* will write its outcome, as long as no database error or restart has happened.
NoSilentLoss == faults = 0 => Stranded = {}

KeepsSettled ==
  \A i \in Ids :
    /\ i \in Ids'
    /\ jobs'[i].attempts >= jobs[i].attempts
    /\ Settled(i) => jobs'[i] = jobs[i]

\* A settled job never runs again and attempts are never uncounted, not even by
\* a restart or by an outcome that is written late.
SettledStays == [][KeepsSettled]_vars

\* Every job that was ever created comes to an end, in spite of retries of older
\* jobs being served first.  The one other fate the code allows is a row left
\* running by a fault: no timeout and no start-up scan picks it up again.
EveryJobSettles ==
  \A i \in 1..MaxJobs :
    (i \in Ids) ~> (i \in Ids /\ (Settled(i) \/ i \in Stranded))
=============================================================================
