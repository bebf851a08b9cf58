--------------------------- MODULE JobQueue_proofs ---------------------------
(***************************************************************************)
(* Proofs about JobQueue, for every set of loops, every attempt limit and  *)
(* every bound.  The inductive invariant adds to the properties one fact   *)
(* they need: a row that left the queue has been counted at least once.    *)
(***************************************************************************)
EXTENDS JobQueue, TLAPS

Counted == \A i \in Ids : jobs[i].status # "queued" => jobs[i].attempts > 0

Inv ==
  /\ TypeOK
  /\ ExclusiveClaim
  /\ HeldRowIsOwn
  /\ RetryBudget
  /\ Counted
  /\ NoSilentLoss

-----------------------------------------------------------------------------
(* What the updates of a row and of a loop's state do.                     *)

\* Taking a row counts the attempt and changes nothing but its status.
LEMMA TakenRow ==
  ASSUME NEW row \in Job
  PROVE  /\ Taken(row) \in Job
         /\ Taken(row).type = row.type
         /\ Taken(row).status = "running"
         /\ Taken(row).attempts = row.attempts + 1
<1> DEFINE run == [row EXCEPT !.status = "running"]
<1>1. /\ run \in Job
      /\ run.type = row.type /\ run.status = "running" /\ run.attempts = row.attempts
  BY DEF Job, JobStatuses
<1>2. Taken(row) = [run EXCEPT !.attempts = row.attempts + 1]
  BY <1>1 DEF Job, Taken
<1> HIDE DEF run
<1> QED
  BY <1>1, <1>2 DEF Job

\* Giving a row an outcome changes its status only.
LEMMA StatusRow ==
  ASSUME NEW row \in Job, NEW s \in JobStatuses
  PROVE  /\ WithStatus(row, s) \in Job
         /\ WithStatus(row, s).type = row.type
         /\ WithStatus(row, s).status = s
         /\ WithStatus(row, s).attempts = row.attempts
BY DEF Job, WithStatus

\* The fields of a row have the types of the table.
LEMMA RowFields ==
  ASSUME NEW row \in Job
  PROVE  row.type \in JobTypes /\ row.status \in JobStatuses /\ row.attempts \in Nat
BY DEF Job

\* Updating one row leaves the others, and the set of ids, as they were.
LEMMA RowChange ==
  ASSUME jobs \in Seq(Job), NEW i \in Ids, NEW row \in Job,
         jobs' = [jobs EXCEPT ![i] = row]
  PROVE  /\ jobs' \in Seq(Job)
         /\ Ids' = Ids
         /\ jobs'[i] = row
         /\ \A k \in Ids : k # i => jobs'[k] = jobs[k]
BY DEF Ids

\* A loop's state while it works on a row, and when it works on none.
LEMMA LoopFields ==
  /\ \A i \in Nat, row \in Job :
       /\ Running(i, row) \in LoopState
       /\ Running(i, row).pc = "run"
       /\ Running(i, row).job = i
       /\ Running(i, row).attempts = row.attempts
  /\ \A pc \in {"wait", "poll"} :
       NotHolding(pc) \in LoopState /\ NotHolding(pc).pc = pc
BY DEF LoopState, Running, NotHolding, Job

-----------------------------------------------------------------------------
(* The invariant holds initially and every step keeps it.                  *)

\* The empty table satisfies the invariant.
LEMMA InitInv == Init => Inv
<1> SUFFICES ASSUME Init PROVE Inv
  OBVIOUS
<1>1. Len(jobs) = 0 /\ Ids = {}
  BY DEF Init, Ids
<1>2. TypeOK
  BY LoopFields DEF Init, TypeOK
<1>3. \A w \in Workers : ~Holding(w)
  BY DEF Init, Holding, NotHolding
<1> QED
  BY <1>1, <1>2, <1>3 DEF Init, Inv, ExclusiveClaim, HeldRowIsOwn, RetryBudget,
                          Counted, NoSilentLoss, Stranded

\* Inserting a job keeps the invariant: the new row is queued and uncounted.
LEMMA CreateInv ==
  ASSUME Inv, NEW type \in JobTypes, NEW payload \in Payloads, CreateJob(type, payload)
  PROVE  Inv'
<1> DEFINE new == [type |-> type, payload |-> payload,
                   status |-> "queued", attempts |-> 0]
<1>1. /\ new \in Job
      /\ new.type = type /\ new.status = "queued" /\ new.attempts = 0
  BY DEF Job, JobStatuses
<1>2. /\ jobs' = Append(jobs, new)
      /\ worker' = worker
      /\ faults' = faults
      /\ jobs \in Seq(Job)
  BY DEF CreateJob, Inv, TypeOK
<1> HIDE DEF new
<1>3. /\ jobs' \in Seq(Job)
      /\ Ids' = Ids \cup {Len(jobs) + 1}
      /\ jobs'[Len(jobs) + 1] = new
      /\ \A k \in Ids : jobs'[k] = jobs[k]
  BY <1>1, <1>2 DEF Ids
<1>4. \A w \in Workers : Holding(w)' <=> Holding(w)
  BY <1>2 DEF Holding
<1>5. TypeOK'
  BY <1>2, <1>3 DEF Inv, TypeOK
<1>6. ExclusiveClaim' /\ HeldRowIsOwn'
  BY <1>2, <1>3, <1>4 DEF Inv, ExclusiveClaim, HeldRowIsOwn
<1>7. RetryBudget' /\ Counted'
  BY <1>1, <1>3, MaxAttemptsAssumption
     DEF Inv, RetryBudget, Counted, WithinBudget, Limit
<1>8. NoSilentLoss'
  BY <1>1, <1>2, <1>3, <1>4 DEF Inv, NoSilentLoss, Stranded
<1> QED
  BY <1>5, <1>6, <1>7, <1>8 DEF Inv

\* Taking the oldest queued job keeps the invariant: the row was queued, so
\* nobody held it, and it had an attempt left.
LEMMA TakeInv ==
  ASSUME Inv, NEW w \in Workers, NEW i \in Queued,
         worker[w].pc = "poll",
         jobs' = [jobs EXCEPT ![i] = Taken(@)],
         \/ worker' = [worker EXCEPT ![w] = Running(i, Taken(jobs[i]))] /\ faults' = faults
         \/ worker' = [worker EXCEPT ![w] = NotHolding("wait")] /\ faults' = faults + 1
  PROVE  Inv'
<1>1. /\ i \in Ids /\ jobs[i] \in Job /\ jobs[i].status = "queued"
      /\ jobs \in Seq(Job)
      /\ worker \in [Workers -> LoopState]
      /\ faults \in Nat
      /\ i \in Nat
  BY DEF Queued, Inv, TypeOK, Ids
<1>2. /\ jobs' \in Seq(Job)
      /\ Ids' = Ids
      /\ jobs'[i] = Taken(jobs[i])
      /\ \A k \in Ids : k # i => jobs'[k] = jobs[k]
  BY <1>1, TakenRow, RowChange
<1>3. /\ Taken(jobs[i]) \in Job
      /\ Taken(jobs[i]).type = jobs[i].type
      /\ Taken(jobs[i]).status = "running"
      /\ Taken(jobs[i]).attempts = jobs[i].attempts + 1
  BY <1>1, TakenRow
<1>4. \A v \in Workers : Holding(v) => worker[v].job # i
  BY <1>1 DEF Inv, HeldRowIsOwn
<1>5. /\ worker' \in [Workers -> LoopState]
      /\ \A v \in Workers \ {w} : worker'[v] = worker[v]
      /\ \A v \in Workers \ {w} : Holding(v)' <=> Holding(v)
      /\ Holding(w)' => worker'[w] = Running(i, Taken(jobs[i]))
      /\ ~Holding(w)' => faults' # 0
  BY <1>1, <1>3, LoopFields DEF Holding
<1>6. TypeOK'
  BY <1>1, <1>2, <1>5 DEF TypeOK
<1>7. ExclusiveClaim'
  BY <1>1, <1>3, <1>4, <1>5, LoopFields DEF Inv, ExclusiveClaim
<1>8. HeldRowIsOwn'
  BY <1>1, <1>2, <1>3, <1>4, <1>5, LoopFields DEF Inv, HeldRowIsOwn
<1>9. RetryBudget'
  <2>1. WithinBudget(Taken(jobs[i]))
    BY <1>1, <1>3, MaxAttemptsAssumption, RowFields
       DEF Inv, RetryBudget, WithinBudget, Limit
  <2> QED
    BY <1>2, <2>1 DEF Inv, RetryBudget
<1>10. Counted'
  BY <1>1, <1>2, <1>3, RowFields DEF Inv, Counted
<1>11. NoSilentLoss'
  <2> SUFFICES ASSUME faults' = 0, NEW k \in Stranded' PROVE FALSE
    BY DEF NoSilentLoss
  <2>1. Holding(w)' /\ worker'[w].job = i /\ faults = 0
    BY <1>1, <1>3, <1>5, LoopFields
  <2>2. k \in Ids /\ k # i /\ jobs[k].status = "running"
    BY <2>1, <1>2 DEF Stranded
  <2>3. \A v \in Workers : Holding(v) => worker[v].job # k
    BY <1>5, <2>2 DEF Stranded, Holding
  <2> QED
    BY <2>1, <2>2, <2>3 DEF Inv, NoSilentLoss, Stranded
<1> QED
  BY <1>6, <1>7, <1>8, <1>9, <1>10, <1>11 DEF Inv

\* Writing an outcome keeps the invariant: the row written is the loop's own.
LEMMA OutcomeInv ==
  ASSUME Inv, NEW w \in Workers, Holding(w),
         NEW s \in JobStatuses,
         s # "running",
         s = "queued" => Retry(w),
         s = "failed" => ~Retry(w),
         jobs' = [jobs EXCEPT ![worker[w].job] = WithStatus(@, s)],
         worker' = [worker EXCEPT ![w] = NotHolding("poll")],
         faults' = faults
  PROVE  Inv'
<1> DEFINE i == worker[w].job
<1>1. /\ i \in Ids /\ jobs[i] \in Job /\ jobs[i].status = "running"
      /\ jobs[i].attempts = worker[w].attempts
      /\ jobs \in Seq(Job)
      /\ worker \in [Workers -> LoopState]
      /\ faults \in Nat
  BY DEF Inv, TypeOK, HeldRowIsOwn, Ids
<1>2. /\ WithStatus(jobs[i], s) \in Job
      /\ WithStatus(jobs[i], s).type = jobs[i].type
      /\ WithStatus(jobs[i], s).status = s
      /\ WithStatus(jobs[i], s).attempts = jobs[i].attempts
  BY <1>1, StatusRow
<1>3. /\ jobs' \in Seq(Job)
      /\ Ids' = Ids
      /\ jobs'[i] = WithStatus(jobs[i], s)
      /\ \A k \in Ids : k # i => jobs'[k] = jobs[k]
  BY <1>1, <1>2, RowChange
<1>4. /\ worker' \in [Workers -> LoopState]
      /\ \A v \in Workers \ {w} : worker'[v] = worker[v]
      /\ \A v \in Workers \ {w} : Holding(v)' <=> Holding(v)
      /\ ~Holding(w)'
  BY <1>1, LoopFields DEF Holding
<1>5. \A v \in Workers \ {w} : Holding(v) => worker[v].job # i
  BY DEF Inv, ExclusiveClaim
<1>6. TypeOK'
  BY <1>1, <1>3, <1>4 DEF TypeOK
<1>7. ExclusiveClaim'
  BY <1>4 DEF Inv, ExclusiveClaim
<1>8. HeldRowIsOwn'
  BY <1>3, <1>4, <1>5 DEF Inv, HeldRowIsOwn
<1>9. RetryBudget'
  <2>1. WithinBudget(jobs[i]) /\ jobs[i].attempts > 0
    BY <1>1 DEF Inv, RetryBudget, Counted
  <2>2. WithinBudget(WithStatus(jobs[i], s))
    BY <1>1, <1>2, <2>1, MaxAttemptsAssumption, RowFields
       DEF WithinBudget, Limit, Retry
  <2> QED
    BY <1>3, <2>2 DEF Inv, RetryBudget
<1>10. Counted'
  BY <1>1, <1>2, <1>3 DEF Inv, Counted
<1>11. NoSilentLoss'
  <2> SUFFICES ASSUME faults' = 0, NEW k \in Stranded' PROVE FALSE
    BY DEF NoSilentLoss
  <2>1. k \in Ids /\ k # i /\ jobs[k].status = "running"
    BY <1>2, <1>3 DEF Stranded
  <2>2. \A v \in Workers : Holding(v) => worker[v].job # k
    BY <1>4, <2>1 DEF Stranded
  <2> QED
    BY <2>1, <2>2 DEF Inv, NoSilentLoss, Stranded
<1> QED
  BY <1>6, <1>7, <1>8, <1>9, <1>10, <1>11 DEF Inv

\* A step of the loops alone keeps the invariant if no loop takes up a row and
\* a loop lets go of one only through a fault.
LEMMA LoopsInv ==
  ASSUME Inv, jobs' = jobs,
         worker' \in [Workers -> LoopState],
         faults' \in Nat,
         \A v \in Workers : Holding(v)' =>
           /\ Holding(v)
           /\ worker'[v].job = worker[v].job
           /\ worker'[v].attempts = worker[v].attempts,
         \/ faults' = faults /\ \A v \in Workers : Holding(v) => Holding(v)'
         \/ faults' # 0
  PROVE  Inv'
<1>1. TypeOK' /\ Ids' = Ids
  BY DEF Inv, TypeOK, Ids
<1>2. ExclusiveClaim' /\ HeldRowIsOwn'
  BY <1>1 DEF Inv, ExclusiveClaim, HeldRowIsOwn
<1>3. RetryBudget' /\ Counted'
  BY <1>1 DEF Inv, RetryBudget, Counted
<1>4. NoSilentLoss'
  BY <1>1 DEF Inv, NoSilentLoss, Stranded
<1> QED
  BY <1>1, <1>2, <1>3, <1>4 DEF Inv

\* Every step of the system keeps the invariant.
LEMMA NextInv == Inv /\ [Next]_vars => Inv'
<1> SUFFICES ASSUME Inv, [Next]_vars PROVE Inv'
  OBVIOUS
<1> USE DEF Holding
<1>1. worker \in [Workers -> LoopState] /\ faults \in Nat
  BY DEF Inv, TypeOK
<1>2. CASE Create
  BY <1>2, CreateInv DEF Create
<1>3. ASSUME NEW w \in Workers, Loop(w) PROVE Inv'
  <2>1. CASE Tick(w) \/ NoQueuedJob(w)
    <3>1. /\ worker' \in [Workers -> LoopState]
          /\ \A v \in Workers : worker'[v] # worker[v] => v = w
          /\ ~Holding(w) /\ ~Holding(w)'
          /\ jobs' = jobs /\ faults' = faults
      BY <1>1, <2>1, LoopFields DEF Tick, NoQueuedJob, LoopState
    <3> QED
      BY <1>1, <3>1, LoopsInv
  <2>2. CASE NextQueuedJob(w)
    BY <2>2, TakeInv DEF NextQueuedJob
  <2>3. CASE \E ok \in BOOLEAN : RunJob(w, ok)
    <3>1. /\ worker' \in [Workers -> LoopState]
          /\ \A v \in Workers : worker'[v] # worker[v] => v = w
          /\ Holding(w) /\ Holding(w)'
          /\ worker'[w].job = worker[w].job
          /\ worker'[w].attempts = worker[w].attempts
          /\ jobs' = jobs /\ faults' = faults
      BY <1>1, <2>3 DEF RunJob, LoopState
    <3> QED
      BY <1>1, <3>1, LoopsInv
  <2>4. CASE FinishJob(w)
    BY <2>4, OutcomeInv DEF FinishJob, JobStatuses
  <2>5. CASE FailJob(w)
    <3>1. /\ FailStatus(w) \in JobStatuses
          /\ FailStatus(w) # "running"
          /\ FailStatus(w) = "queued" => Retry(w)
          /\ FailStatus(w) = "failed" => ~Retry(w)
      BY DEF FailStatus, JobStatuses
    <3> QED
      BY <2>5, <3>1, OutcomeInv DEF FailJob
  <2> QED
    BY <1>3, <2>1, <2>2, <2>3, <2>4, <2>5 DEF Loop
<1>4. CASE Fault
  <2>1. CASE Restart
    <3>1. /\ worker' \in [Workers -> LoopState]
          /\ \A v \in Workers : ~Holding(v)'
          /\ jobs' = jobs /\ faults' \in Nat /\ faults' # 0
      BY <1>1, <2>1, LoopFields DEF Restart
    <3> QED
      BY <3>1, LoopsInv
  <2>2. ASSUME NEW w \in Workers, ClaimFails(w) \/ OutcomeNotWritten(w) PROVE Inv'
    <3>1. /\ worker' \in [Workers -> LoopState]
          /\ \A v \in Workers : worker'[v] # worker[v] => v = w
          /\ ~Holding(w)'
          /\ jobs' = jobs /\ faults' \in Nat /\ faults' # 0
      BY <1>1, <2>2, LoopFields DEF ClaimFails, OutcomeNotWritten
    <3> QED
      BY <1>1, <3>1, LoopsInv
  <2>3. ASSUME NEW w \in Workers, ReadBackFails(w) PROVE Inv'
    BY <2>3, TakeInv DEF ReadBackFails
  <2> QED
    BY <1>4, <2>1, <2>2, <2>3 DEF Fault
<1>5. CASE UNCHANGED vars
  BY <1>1, <1>5, LoopsInv DEF vars
<1> QED
  BY <1>2, <1>3, <1>4, <1>5 DEF Next

-----------------------------------------------------------------------------
(* The theorems.                                                           *)

\* The queue's variables keep their types.
THEOREM TypeCorrect == Spec => []TypeOK
<1>1. Inv => TypeOK
  BY DEF Inv
<1> QED
  BY InitInv, NextInv, <1>1, PTL DEF Spec

\* No two loops ever work on the same row, for any number of loops.
THEOREM Exclusive == Spec => []ExclusiveClaim
<1>1. Inv => ExclusiveClaim
  BY DEF Inv
<1> QED
  BY InitInv, NextInv, <1>1, PTL DEF Spec

\* The row a loop writes its outcome to is running and is its own.
THEOREM OwnRow == Spec => []HeldRowIsOwn
<1>1. Inv => HeldRowIsOwn
  BY DEF Inv
<1> QED
  BY InitInv, NextInv, <1>1, PTL DEF Spec

\* No job is attempted beyond its limit nor given up before it.
THEOREM Budget == Spec => []RetryBudget
<1>1. Inv => RetryBudget
  BY DEF Inv
<1> QED
  BY InitInv, NextInv, <1>1, PTL DEF Spec

\* Without a fault no job is left running with nobody to finish it.
THEOREM NotLost == Spec => []NoSilentLoss
<1>1. Inv => NoSilentLoss
  BY DEF Inv
<1> QED
  BY InitInv, NextInv, <1>1, PTL DEF Spec

\* A settled row is never written again: the only writers are a claim, which
\* takes a queued row, and an outcome, which goes to the running row held.
THEOREM SettledForGood == Spec => SettledStays
<1>1. Inv /\ [Next]_vars => [KeepsSettled]_vars
  <2> SUFFICES ASSUME Inv, Next PROVE KeepsSettled
    BY DEF vars, KeepsSettled
  <2>1. /\ jobs \in Seq(Job)
        /\ \A i \in Ids : jobs[i] \in Job /\ jobs[i].attempts \in Nat
    BY RowFields DEF Inv, TypeOK, Ids
  <2>2. ASSUME jobs' = jobs PROVE KeepsSettled
    BY <2>1, <2>2 DEF KeepsSettled, Ids
  <2>3. ASSUME NEW i \in Ids, NEW row \in Job, ~Settled(i),
               row.attempts >= jobs[i].attempts,
               jobs' = [jobs EXCEPT ![i] = row]
        PROVE  KeepsSettled
    <3>1. /\ Ids' = Ids
          /\ jobs'[i] = row
          /\ \A k \in Ids : k # i => jobs'[k] = jobs[k]
      BY <2>1, <2>3, RowChange
    <3> QED
      BY <2>1, <2>3, <3>1 DEF KeepsSettled
  <2>4. ASSUME NEW i \in Queued, jobs' = [jobs EXCEPT ![i] = Taken(@)]
        PROVE  KeepsSettled
    <3>1. i \in Ids /\ ~Settled(i)
      BY DEF Queued, Settled
    <3>2. Taken(jobs[i]) \in Job /\ Taken(jobs[i]).attempts >= jobs[i].attempts
      BY <2>1, <3>1, TakenRow
    <3> QED
      BY <2>3, <2>4, <3>1, <3>2
  <2>5. ASSUME NEW w \in Workers, Holding(w), NEW s \in JobStatuses,
               jobs' = [jobs EXCEPT ![worker[w].job] = WithStatus(@, s)]
        PROVE  KeepsSettled
    <3>1. worker[w].job \in Ids /\ ~Settled(worker[w].job)
      BY <2>5 DEF Inv, HeldRowIsOwn, Settled
    <3>2. /\ WithStatus(jobs[worker[w].job], s) \in Job
          /\ WithStatus(jobs[worker[w].job], s).attempts
               >= jobs[worker[w].job].attempts
      BY <2>1, <3>1, StatusRow
    <3> QED
      BY <2>3, <2>5, <3>1, <3>2
  <2>6. CASE Create
    BY <2>1, <2>6 DEF Create, CreateJob, KeepsSettled, Ids
  <2>7. CASE Fault
    BY <2>2, <2>4, <2>7 DEF Fault, Restart, ClaimFails, ReadBackFails, OutcomeNotWritten
  <2>8. ASSUME NEW w \in Workers, Loop(w) PROVE KeepsSettled
    <3>1. CASE Tick(w) \/ NoQueuedJob(w) \/ \E ok \in BOOLEAN : RunJob(w, ok)
      BY <2>2, <3>1 DEF Tick, NoQueuedJob, RunJob
    <3>2. CASE NextQueuedJob(w)
      BY <2>4, <3>2 DEF NextQueuedJob
    <3>3. CASE FinishJob(w) \/ FailJob(w)
      BY <2>5, <3>3 DEF FinishJob, FailJob, FailStatus, JobStatuses, Holding
    <3> QED
      BY <2>8, <3>1, <3>2, <3>3 DEF Loop
  <2> QED
    BY <2>6, <2>7, <2>8 DEF Next
<1> QED
  BY InitInv, NextInv, <1>1, PTL DEF Spec, SettledStays
=============================================================================
