--------------------------- MODULE EdgePublish_proofs ---------------------------
(***************************************************************************)
(* Proofs about EdgePublish, for any number of commands, bundles, domains, *)
(* deployments, uploads and faults.                                        *)
(*                                                                         *)
(* The inductive invariant Inv has five layers:                            *)
(*   TableInv    rows of deployments, what was active and of what bundle;  *)
(*   WorkersInv  uploaded versions, what the Workers run, where domains go;*)
(*   KeysInv     the keys of Workers KV;                                   *)
(*   CommandsInv what each command knows of the rows and versions it works *)
(*               with, which holds whatever the others do meanwhile;       *)
(*   TrustInv    what a command that runs alone leaves behind.             *)
(* Grows says what steps never take back.  Everything a command knows lasts *)
(* while the rest Grows, so each action argues only about the command that *)
(* takes it, and about what it changes.                                    *)
(***************************************************************************)
EXTENDS EdgePublish, SequenceTheorems, TLAPS

HeaderSources == {"none", "disabled", "existing", "existing_with_edge_header", "generated"}

Verifications == {"none", "ok", "warning", "skipped"}

Targets == {"none", "cloudflare_static", "hybrid_edge", "origin_assisted"}

Environments == {"production", "preview"}

Operations == {"deploy", "rollback_apply", "writeback"}

Evidence == [version : Nat, verified : Verifications, headers : HeaderSources,
             operation : Operations, rollbackOf : 0..MaxDeployments]

Row == [status : {"none", "queued", "ready", "active", "failed"}, target : Targets,
        environment : Environments, active : BOOLEAN,
        pending : {"nothing", "build", "build_promote", "promote"},
        bundle : Bundles \cup {NoBundle}, evidence : Evidence]

Write == [worker : WorkerNames, bundle : Bundles, headers : HeaderSources,
          deployment : 0..MaxDeployments]

KVWrite == [domain : DomainNames, key : {"kept", "active"}]

Keeping == {"refresh", "promote", "delete", "recover_static", "recover_hybrid"}

Recovering == {"recover_static", "recover_hybrid"}

CommandState ==
  [pc : {"idle", "wait", "publish", "kv", "upload", "verify", "record", "activate", "promote",
         "delete", "activate_recorded"},
   op : Keeping \cup {"none", "cloudflare_static", "publish_static", "hybrid_edge",
                      "origin_assisted", "rollback", "activate_static"},
   target : Targets, deployment : 0..MaxDeployments, bundle : Bundles \cup {NoBundle},
   environment : Environments, promote : BOOLEAN, seen : BOOLEAN, headers : HeaderSources,
   version : Nat, verified : Verifications, operation : Operations,
   rollbackOf : 0..MaxDeployments, todo : Seq(KVWrite), failed : BOOLEAN, alone : BOOLEAN]

-----------------------------------------------------------------------------
(* The invariant.                                                          *)

\* Version v was uploaded to the Worker of this target, with this bundle and, with a
\* manifest, for this deployment.
WasUploaded(v, target, bundle, d) ==
  /\ v \in DOMAIN writes
  /\ writes[v].worker = WorkerOf(target)
  /\ writes[v].bundle = bundle
  /\ target = "hybrid_edge" => writes[v].deployment = d

\* Deployment d was created with this bundle, and unless it has been deleted, for
\* this target.
CreatedAs(d, target, bundle) ==
  /\ d \in 1..issued
  /\ bundle = bundleOf[d]
  /\ Exists(d) => row[d].target = target

RowInv(d) ==
  /\ d > issued => row[d] = NoRow
  /\ ~Exists(d) => row[d] = NoRow
  /\ Exists(d) => row[d].bundle = bundleOf[d] /\ row[d].target # "none"
  /\ row[d].active => d \in wasActive
  /\ row[d].evidence.verified # "none" =>
       WasUploaded(row[d].evidence.version, row[d].target, row[d].bundle, d)
  /\ row[d].evidence.rollbackOf # None =>
       /\ row[d].evidence.rollbackOf \in 1..issued
       /\ row[d].bundle = bundleOf[row[d].evidence.rollbackOf]

OneActive == \A d, e \in Deployments : row[d].active /\ row[e].active => d = e

TableInv ==
  /\ issued \in 0..MaxDeployments
  /\ row \in [Deployments -> Row]
  /\ bundleOf \in [Deployments -> Bundles \cup {NoBundle}]
  /\ wasActive \subseteq 1..issued
  /\ \A d \in Deployments : RowInv(d)
  /\ OneActive

WorkersInv ==
  /\ writes \in Seq(Write)
  /\ live \in [WorkerNames -> 0..Len(writes)]
  /\ route \in [DomainNames -> WorkerNames \cup {"none"}]
  /\ \A dom \in DomainNames : route[dom] # "none" => live[route[dom]] # None
  /\ \A v \in DOMAIN writes :
       writes[v].worker = "edge" => CreatedAs(writes[v].deployment, "hybrid_edge", writes[v].bundle)

KeysInv ==
  /\ active \in [DomainNames -> 0..issued]
  /\ kept \subseteq DomainNames \X (1..issued)
  /\ ActiveManifestWasActive

\* What a command in state p knows.
Knows(p) ==
  /\ p.pc \in {"wait", "publish", "kv", "activate", "promote", "delete", "activate_recorded"} =>
       p.deployment \in 1..issued
  /\ p.pc \in {"publish", "kv"} =>
       /\ p.op = "refresh" \/ (p.target = "hybrid_edge" /\ p.op \notin Keeping)
       /\ p.seen => p.deployment \in wasActive
  /\ p.seen => p.op = "refresh" \/ p.target = "hybrid_edge"
  /\ p.pc \in {"wait", "upload", "verify", "activate"} => p.op \notin Keeping
  /\ p.pc = "record" => p.op \notin {"refresh", "promote", "delete"}
  /\ p.pc = "kv" => \A i \in DOMAIN p.todo : p.todo[i].key = "active" => p.seen
  /\ p.target = "hybrid_edge" /\ p.pc \in {"wait", "publish", "kv", "upload", "verify", "record"} =>
       CreatedAs(p.deployment, "hybrid_edge", p.bundle) /\ p.bundle \in Bundles
  /\ p.pc \in {"upload", "verify", "record", "activate"} =>
       p.target \in {"cloudflare_static", "hybrid_edge"} /\ p.bundle \in Bundles
  /\ p.pc \in {"verify", "record", "activate"} =>
       WasUploaded(p.version, p.target, p.bundle, p.deployment)
  /\ p.pc = "activate" =>
       p.target = "cloudflare_static" /\ CreatedAs(p.deployment, p.target, p.bundle)
  /\ p.pc = "promote" => p.op = "promote" \/ p.target = "origin_assisted"
  /\ p.pc = "delete" => p.op = "delete"
  /\ p.op \in Recovering => ~p.promote
  /\ p.rollbackOf # None => p.rollbackOf \in 1..issued /\ p.bundle = bundleOf[p.rollbackOf]

CommandsInv ==
  /\ proc \in [Commands -> CommandState]
  /\ \A c \in Commands : Knows(proc[c])

\* A command that was alone when its deployment was queued may see it built.
AwaitsBuild(p, d) ==
  /\ d = p.deployment /\ p.target \in {"hybrid_edge", "origin_assisted"}
  /\ ~p.seen /\ p.op \notin Keeping

\* What a command in state p has brought about so far, if it runs alone.
Leaves(p) ==
  /\ \A d \in Deployments : row[d].pending # "nothing" => AwaitsBuild(p, d) /\ ~row[d].active
  /\ p.op \in Keeping /\ trusted = "yes" => EdgeAgrees
  /\ p.op = "promote" /\ p.target # "origin_assisted" => row[p.deployment].active
  /\ p.seen => row[p.deployment].active
  /\ p.target = "hybrid_edge" /\ p.seen =>
       /\ p.pc = "kv" /\ ~p.failed =>
            \A dom \in DomainNames :
              \/ active[dom] = p.deployment
              \/ \E i \in DOMAIN p.todo : p.todo[i] = [domain |-> dom, key |-> "active"]
       /\ p.pc \in {"upload", "verify", "record"} =>
            \A dom \in DomainNames : active[dom] = p.deployment
  /\ p.pc \in {"verify", "record", "activate"} /\ p.op \notin Recovering =>
       /\ live[WorkerOf(p.target)] = p.version
       /\ \A dom \in DomainNames : route[dom] = WorkerOf(p.target)

TrustInv ==
  /\ trusted \in {"no", "early", "yes"}
  /\ trusted = "yes" /\ Busy = {} => EdgeAgrees /\ ~Building
  /\ \A c \in Commands : proc[c].pc # "idle" /\ proc[c].alone =>
       Busy = {c} /\ Leaves(proc[c])

Inv == TableInv /\ WorkersInv /\ KeysInv /\ CommandsInv /\ TrustInv

-----------------------------------------------------------------------------
(* What lasts.                                                             *)

\* What no step takes back: numbers that were given out, what they were given to,
\* and the versions that were uploaded.  A row may go, and never comes again.
Grows ==
  /\ issued' \in Nat /\ issued <= issued'
  /\ \A d \in 1..issued :
       /\ bundleOf'[d] = bundleOf[d]
       /\ row'[d].status # "none" => Exists(d) /\ row'[d].target = row[d].target
  /\ wasActive \subseteq wasActive'
  /\ DOMAIN writes \subseteq DOMAIN writes'
  /\ \A v \in DOMAIN writes : writes'[v] = writes[v]

\* A step that leaves all this alone grows it.
LEMMA SameGrows ==
  ASSUME TableInv, issued' = issued, bundleOf' = bundleOf, wasActive' = wasActive,
         row' = row, writes' = writes
  PROVE  Grows
BY DEF TableInv, Grows, Exists

\* An uploaded version stays what it is.
LEMMA UploadedStays ==
  ASSUME Grows, NEW v, NEW target, NEW bundle, NEW d, WasUploaded(v, target, bundle, d)
  PROVE  WasUploaded(v, target, bundle, d)'
BY DEF Grows, WasUploaded, WorkerOf

\* A deployment stays what it was created as.
LEMMA CreatedStays ==
  ASSUME TableInv, Grows, NEW d, NEW target, NEW bundle, CreatedAs(d, target, bundle)
  PROVE  CreatedAs(d, target, bundle)'
BY DEF TableInv, Grows, CreatedAs, Exists

\* What a command knows stays true, whatever the others do.
LEMMA KnowsStays ==
  ASSUME TableInv, Grows, NEW p, Knows(p)
  PROVE  Knows(p)'
<1>1. \A d \in 1..issued : d \in 1..issued' /\ bundleOf'[d] = bundleOf[d]
  BY DEF TableInv, Grows
<1>2. \A d \in wasActive : d \in wasActive'
  BY DEF Grows
<1>3. CreatedAs(p.deployment, "hybrid_edge", p.bundle)
        => CreatedAs(p.deployment, "hybrid_edge", p.bundle)'
  BY CreatedStays
<1>4. CreatedAs(p.deployment, p.target, p.bundle) => CreatedAs(p.deployment, p.target, p.bundle)'
  BY CreatedStays
<1>5. WasUploaded(p.version, p.target, p.bundle, p.deployment)
        => WasUploaded(p.version, p.target, p.bundle, p.deployment)'
  BY UploadedStays
<1> QED
  BY <1>1, <1>2, <1>3, <1>4, <1>5 DEF Knows

\* A free slot has nothing to know.
LEMMA IdleKnows == Knows(Idle)
BY DEF Knows, Idle, None, Keeping, Recovering

\* A command that has not begun has the shape of one.
LEMMA IdleState == Idle \in CommandState
BY InputsAssumption DEF Idle, CommandState, Targets, NoBundle, Environments, HeaderSources,
          Verifications, Operations, None, KVWrite

-----------------------------------------------------------------------------
(* What happens to the commands.                                           *)

\* One command goes on, from what it knew to p.
LEMMA CommandMoves ==
  ASSUME TableInv, CommandsInv, Grows, NEW c \in Commands, NEW p \in CommandState, Knows(p)',
         proc' = [proc EXCEPT ![c] = p]
  PROVE  CommandsInv'
<1>1. proc' \in [Commands -> CommandState] /\ proc'[c] = p
      /\ \A e \in Commands : e # c => proc'[e] = proc[e]
  BY DEF CommandsInv
<1>2. \A e \in Commands : Knows(proc[e])'
  <2>1. ASSUME NEW e \in Commands, e # c
        PROVE  Knows(proc[e])'
    <3>1. PICK q : q = proc[e]
      OBVIOUS
    <3>2. Knows(q)
      BY <3>1 DEF CommandsInv
    <3>3. Knows(q)'
      BY <3>2, KnowsStays
    <3>4. proc'[e] = q
      BY <1>1, <2>1, <3>1
    <3> QED BY <3>3, <3>4
  <2> QED BY <1>1, <2>1
<1> QED
  BY <1>1, <1>2 DEF CommandsInv

\* A command begins; the others are no longer alone, which nothing they know depends on.
LEMMA CommandBegins ==
  ASSUME TableInv, CommandsInv, Grows, NEW c \in Commands, NEW p \in CommandState, Knows(p)',
         proc' = [e \in Commands |-> IF e = c THEN p ELSE [proc[e] EXCEPT !.alone = FALSE]]
  PROVE  CommandsInv'
<1>1. ASSUME NEW e \in Commands, e # c
      PROVE  proc'[e] \in CommandState /\ Knows(proc[e])'
  <2>1. PICK q \in CommandState : q = proc[e] /\ Knows(q)
    BY DEF CommandsInv
  <2>2. Knows(q)'
    BY <2>1, KnowsStays
  <2>3. [q EXCEPT !.alone = FALSE] \in CommandState
    BY DEF CommandState
  <2>4. PICK a \in CommandState : a = [q EXCEPT !.alone = FALSE]
    BY <2>3
  <2>5. /\ a.pc = q.pc /\ a.op = q.op /\ a.target = q.target /\ a.deployment = q.deployment
        /\ a.bundle = q.bundle /\ a.promote = q.promote /\ a.seen = q.seen
        /\ a.version = q.version /\ a.rollbackOf = q.rollbackOf /\ a.todo = q.todo
    BY <2>4 DEF CommandState
  <2>6. Knows(a)'
    BY <2>2, <2>5 DEF Knows
  <2>7. proc'[e] = a
    BY <1>1, <2>1, <2>4
  <2> QED BY <2>4, <2>6, <2>7
<1>2. proc'[c] = p /\ DOMAIN proc' = Commands
  OBVIOUS
<1>3. \A e \in Commands : Knows(proc[e])'
  BY <1>1, <1>2
<1>4. proc' \in [Commands -> CommandState]
  BY <1>1, <1>2
<1> QED
  BY <1>3, <1>4 DEF CommandsInv

\* Only one command can be alone.
LEMMA AloneIsOne ==
  ASSUME TrustInv, NEW c \in Commands, NEW e \in Commands, proc[c].pc # "idle",
         proc[e].pc # "idle", proc[e].alone
  PROVE  e = c
BY DEF TrustInv, Busy

\* A command goes on: what it leaves if it is alone has to be shown, nothing else.
LEMMA TrustMoves ==
  ASSUME CommandsInv, TrustInv, NEW c \in Commands, NEW p \in CommandState,
         proc[c].pc # "idle", proc' = [proc EXCEPT ![c] = p], trusted' = trusted,
         p.pc # "idle", p.alone = proc[c].alone, p.alone => Leaves(p)'
  PROVE  TrustInv'
<1>1. proc'[c] = p /\ \A e \in Commands : e # c => proc'[e] = proc[e]
  BY DEF CommandsInv
<1>2. ASSUME NEW e \in Commands, proc'[e].pc # "idle", proc'[e].alone
      PROVE  e = c /\ Busy' = {c} /\ Leaves(proc[e])'
  <2>1. e = c
    BY <1>1, <1>2, AloneIsOne
  <2>2. Busy = {c}
    BY <1>1, <1>2, <2>1 DEF TrustInv
  <2>3. Busy' = {c}
    BY <1>1, <2>2 DEF Busy
  <2> QED BY <1>1, <1>2, <2>1, <2>3
<1>3. c \in Busy'
  BY <1>1 DEF Busy
<1>4. Busy' # {} /\ trusted' \in {"no", "early", "yes"}
  BY <1>3 DEF TrustInv
<1> QED
  BY <1>2, <1>4 DEF TrustInv

\* A command ends: to be trusted it has to have been alone.
LEMMA TrustEnds ==
  ASSUME CommandsInv, TrustInv, NEW c \in Commands,
         proc[c].pc # "idle", End(c), trusted' \in {"no", "early", "yes"},
         trusted' = "yes" => proc[c].alone /\ EdgeAgrees' /\ ~Building'
  PROVE  TrustInv'
<1>1. proc'[c] = Idle /\ \A e \in Commands : e # c => proc'[e] = proc[e]
  BY DEF CommandsInv, End
<1>2. ASSUME NEW e \in Commands, proc'[e].pc # "idle", proc'[e].alone
      PROVE  FALSE
  BY <1>1, <1>2, AloneIsOne DEF Idle
<1> QED
  BY <1>2 DEF TrustInv

\* A command that ends in doubt.
LEMMA DoubtEnds ==
  ASSUME CommandsInv, TrustInv, NEW c \in Commands, proc[c].pc # "idle", EndDoubted(c)
  PROVE  TrustInv'
BY TrustEnds DEF EndDoubted

\* A command begins.
LEMMA TrustBegins ==
  ASSUME CommandsInv, TrustInv, NEW c \in Commands, NEW p \in CommandState,
         proc[c].pc = "idle",
         proc' = [e \in Commands |-> IF e = c THEN p ELSE [proc[e] EXCEPT !.alone = FALSE]],
         p.pc # "idle", p.alone => Busy = {} /\ Leaves(p)', trusted' = trusted
  PROVE  TrustInv'
<1>1. proc'[c] = p
  OBVIOUS
<1>2. ASSUME NEW e \in Commands, e # c
      PROVE  /\ proc'[e] = [proc[e] EXCEPT !.alone = FALSE]
             /\ proc'[e].alone = FALSE /\ proc'[e].pc = proc[e].pc
  <2>1. proc'[e] = [proc[e] EXCEPT !.alone = FALSE] /\ proc[e] \in CommandState
    BY <1>2 DEF CommandsInv
  <2> QED BY <2>1 DEF CommandState
<1>3. ASSUME NEW e \in Commands, proc'[e].pc # "idle", proc'[e].alone
      PROVE  Busy' = {e} /\ Leaves(proc[e])'
  <2>1. e = c
    BY <1>2, <1>3
  <2>2. Busy = {} /\ Leaves(p)'
    BY <1>1, <1>3, <2>1
  <2>3. Busy' = {c}
    BY <1>1, <1>2, <2>2 DEF Busy
  <2> QED BY <1>1, <2>1, <2>2, <2>3
<1>4. c \in Busy'
  BY <1>1 DEF Busy
<1>5. Busy' # {} /\ trusted' \in {"no", "early", "yes"}
  BY <1>4 DEF TrustInv
<1> QED
  BY <1>3, <1>5 DEF TrustInv

\* The server works, and no command takes a step.
LEMMA TrustStays ==
  ASSUME TrustInv, proc' = proc, trusted' = trusted,
         trusted = "yes" /\ EdgeAgrees /\ ~Building => EdgeAgrees' /\ ~Building',
         \A p : Leaves(p) => Leaves(p)'
  PROVE  TrustInv'
<1>1. Busy' = Busy
  BY DEF Busy
<1>2. ASSUME NEW c \in Commands, proc'[c].pc # "idle", proc'[c].alone
      PROVE  Busy' = {c} /\ Leaves(proc[c])'
  <2>1. PICK p : p = proc[c]
    OBVIOUS
  <2>2. Busy = {c} /\ Leaves(p)
    BY <1>2, <2>1 DEF TrustInv
  <2>3. Leaves(p)' /\ proc'[c] = p
    BY <2>1, <2>2
  <2> QED BY <1>1, <2>2, <2>3
<1> QED
  BY <1>1, <1>2 DEF TrustInv

\* A command that may leave an agreement as it is ends.
LEMMA KeepEnds ==
  ASSUME CommandsInv, TrustInv, NEW c \in Commands,
         proc[c].pc # "idle", proc[c].op \in Keeping, EndKeeping(c),
         EdgeAgrees /\ ~Building /\ Leaves(proc[c]) => EdgeAgrees' /\ ~Building'
  PROVE  TrustInv'
<1>1. /\ End(c) /\ trusted' \in {"no", "early", "yes"}
      /\ trusted' = "yes" => proc[c].alone /\ trusted = "yes"
  BY DEF EndKeeping, TrustInv
<1>2. ASSUME trusted' = "yes"
      PROVE  EdgeAgrees' /\ ~Building'
  <2>1. Leaves(proc[c]) /\ trusted = "yes"
    BY <1>1, <1>2 DEF TrustInv
  <2>2. EdgeAgrees /\ ~Building
    BY <2>1 DEF Leaves, AwaitsBuild, Building
  <2> QED BY <2>1, <2>2
<1> QED
  BY <1>1, <1>2, TrustEnds

-----------------------------------------------------------------------------
(* Steps of a command that change nothing else.                            *)

RestUnchanged ==
  /\ writes' = writes /\ live' = live /\ route' = route /\ active' = active /\ kept' = kept
  /\ issued' = issued /\ row' = row /\ wasActive' = wasActive /\ bundleOf' = bundleOf

\* Agreement is about rows, versions and keys.
LEMMA AgreementStays ==
  ASSUME row' = row, writes' = writes, live' = live, route' = route, active' = active
  PROVE  (EdgeAgrees' <=> EdgeAgrees) /\ (Building' <=> Building)
BY DEF EdgeAgrees, Building, ActiveRows, Serving, WorkerOf

\* So is what a command leaves.
LEMMA LeavesStays ==
  ASSUME row' = row, writes' = writes, live' = live, route' = route, active' = active,
         trusted' = trusted, NEW p
  PROVE  Leaves(p)' <=> Leaves(p)
BY AgreementStays DEF Leaves, AwaitsBuild, WorkerOf

\* The layers about rows, Workers and keys are not about commands.
LEMMA RestStays ==
  ASSUME Inv, RestUnchanged
  PROVE  TableInv' /\ WorkersInv' /\ KeysInv' /\ Grows
<1>1. TableInv'
  BY DEF Inv, RestUnchanged, TableInv, RowInv, OneActive, WasUploaded, Exists, WorkerOf
<1>2. WorkersInv'
  BY DEF Inv, RestUnchanged, WorkersInv, CreatedAs, Exists
<1>3. KeysInv'
  BY DEF Inv, RestUnchanged, KeysInv, ActiveManifestWasActive
<1> QED
  BY <1>1, <1>2, <1>3, SameGrows DEF Inv, RestUnchanged

\* A command ends, in doubt or keeping what there was.
LEMMA EndsOnly ==
  ASSUME Inv, NEW c \in Commands, RestUnchanged, proc[c].pc # "idle",
         EndDoubted(c) \/ (EndKeeping(c) /\ proc[c].op \in Keeping)
  PROVE  Inv'
<1>1. TableInv' /\ WorkersInv' /\ KeysInv' /\ Grows
  BY RestStays
<1>2. End(c)
  BY DEF EndDoubted, EndKeeping
<1>3. CommandsInv'
  <2>1. Knows(Idle)'
    BY IdleKnows, KnowsStays, <1>1 DEF Inv
  <2>2. PICK p \in CommandState : p = Idle
    BY IdleState
  <2> QED BY <1>1, <1>2, <2>1, <2>2, CommandMoves DEF Inv, End
<1>4. TrustInv'
  BY DoubtEnds, KeepEnds, AgreementStays DEF Inv, RestUnchanged
<1> QED
  BY <1>1, <1>3, <1>4 DEF Inv

\* A command goes on by itself.
LEMMA MovesOnly ==
  ASSUME Inv, NEW c \in Commands, NEW p \in CommandState, RestUnchanged, trusted' = trusted,
         proc[c].pc # "idle", proc' = [proc EXCEPT ![c] = p], p.pc # "idle", Knows(p),
         p.alone = proc[c].alone, p.alone /\ Leaves(proc[c]) => Leaves(p)
  PROVE  Inv'
<1>1. TableInv' /\ WorkersInv' /\ KeysInv' /\ Grows
  BY RestStays
<1>2. CommandsInv'
  BY <1>1, KnowsStays, CommandMoves DEF Inv
<1>3. p.alone => Leaves(p)'
  BY LeavesStays DEF Inv, TrustInv, RestUnchanged
<1>4. TrustInv'
  BY <1>3, TrustMoves DEF Inv
<1> QED
  BY <1>1, <1>2, <1>4 DEF Inv

\* What Begin makes of a state.
Began(p, op, state) ==
  /\ p \in CommandState
  /\ p.op = op /\ p.alone = (Busy = {} /\ ~Building)
  /\ p.pc = state.pc /\ p.target = state.target /\ p.deployment = state.deployment
  /\ p.bundle = state.bundle /\ p.environment = state.environment /\ p.promote = state.promote
  /\ p.seen = state.seen /\ p.headers = state.headers /\ p.version = state.version
  /\ p.verified = state.verified /\ p.operation = state.operation
  /\ p.rollbackOf = state.rollbackOf /\ p.todo = state.todo /\ p.failed = state.failed

Ops == Keeping \cup {"none", "cloudflare_static", "publish_static", "hybrid_edge",
                     "origin_assisted", "rollback", "activate_static"}

\* A command that begins has the state it is given, and no other is alone any more.
LEMMA BeginEffect ==
  ASSUME NEW c \in Commands, NEW op \in Ops, NEW state \in CommandState, Begin(c, op, state)
  PROVE  \E p \in CommandState :
           /\ Began(p, op, state) /\ proc[c].pc = "idle"
           /\ proc' = [e \in Commands |-> IF e = c THEN p ELSE [proc[e] EXCEPT !.alone = FALSE]]
<1> DEFINE alone == Busy = {} /\ ~Building
           first == [state EXCEPT !.op = op]
           second == [first EXCEPT !.alone = alone]
<1>1. /\ first \in CommandState /\ first.op = op
      /\ first.pc = state.pc /\ first.target = state.target
      /\ first.deployment = state.deployment
      /\ first.bundle = state.bundle /\ first.environment = state.environment
      /\ first.promote = state.promote
      /\ first.seen = state.seen /\ first.headers = state.headers
      /\ first.version = state.version
      /\ first.verified = state.verified /\ first.operation = state.operation
      /\ first.rollbackOf = state.rollbackOf /\ first.todo = state.todo
      /\ first.failed = state.failed
  BY DEF CommandState, Ops
<1>2. /\ proc[c].pc = "idle"
      /\ proc' = [e \in Commands |-> IF e = c THEN second ELSE [proc[e] EXCEPT !.alone = FALSE]]
  BY DEF Begin
<1>3. alone \in BOOLEAN
  OBVIOUS
<1> HIDE DEF first, alone
<1>4. /\ second \in CommandState /\ second.op = op /\ second.alone = alone
      /\ second.pc = first.pc /\ second.target = first.target
      /\ second.deployment = first.deployment
      /\ second.bundle = first.bundle /\ second.environment = first.environment
      /\ second.promote = first.promote
      /\ second.seen = first.seen /\ second.headers = first.headers
      /\ second.version = first.version
      /\ second.verified = first.verified /\ second.operation = first.operation
      /\ second.rollbackOf = first.rollbackOf /\ second.todo = first.todo
      /\ second.failed = first.failed
  BY <1>1, <1>3 DEF CommandState
<1> HIDE DEF second
<1>5. Began(second, op, state)
  BY <1>1, <1>4 DEF Began, alone
<1> QED
  BY <1>2, <1>4, <1>5

\* A command begins and has done nothing yet.
LEMMA BeginsOnly ==
  ASSUME Inv, NEW c \in Commands, NEW op \in Ops, NEW state \in CommandState,
         Begin(c, op, state), RestUnchanged, trusted' = trusted, state.pc # "idle",
         \A p : Began(p, op, state) => Knows(p),
         state.seen => row[state.deployment].active,
         op = "promote" /\ state.target # "origin_assisted" => row[state.deployment].active,
         state.target = "hybrid_edge" => ~state.seen,
         state.pc \in {"verify", "record", "activate"} => op \in Recovering
  PROVE  Inv'
<1>1. TableInv' /\ WorkersInv' /\ KeysInv' /\ Grows
  BY RestStays
<1>2. PICK p \in CommandState :
        /\ Began(p, op, state) /\ proc[c].pc = "idle"
        /\ proc' = [e \in Commands |-> IF e = c THEN p ELSE [proc[e] EXCEPT !.alone = FALSE]]
  BY BeginEffect
<1>3. CommandsInv'
  <2>1. Knows(p)'
    BY <1>1, <1>2, KnowsStays DEF Inv
  <2> QED BY <1>1, <1>2, <2>1, CommandBegins DEF Inv
<1>4. TrustInv'
  <2>1. ASSUME p.alone
        PROVE  Busy = {} /\ Leaves(p)
    <3>1. Busy = {} /\ ~Building
      BY <1>2, <2>1 DEF Began
    <3>2. trusted = "yes" => EdgeAgrees
      BY <3>1 DEF Inv, TrustInv
    <3> QED BY <1>2, <3>1, <3>2 DEF Began, Leaves, Building
  <2>2. p.alone => Busy = {} /\ Leaves(p)'
    BY <2>1, LeavesStays DEF RestUnchanged
  <2> QED BY <1>2, <2>2, TrustBegins DEF Inv, Began
<1> QED
  BY <1>1, <1>3, <1>4 DEF Inv

\* What a step of the commands alone leaves.
LEMMA OnlyCommands ==
  ASSUME UNCHANGED <<edgeVars, kvVars, tableVars, historyVars>>
  PROVE  RestUnchanged
BY DEF RestUnchanged, edgeVars, kvVars, tableVars, historyVars

\* prepareCloudflareStaticAssetsDir knows four sources of headers.
LEMMA PreparedKind ==
  ASSUME NEW b \in Bundles, NEW policy \in CachePolicies
  PROVE  Prepared(b, policy) \in HeaderSources
BY DEF Prepared, HeaderSources

\* An upload of assets begins.
LEMMA UploadBegins ==
  ASSUME Inv, NEW c \in Commands, NEW op \in {"cloudflare_static", "publish_static"},
         NEW state \in CommandState, Begin(c, op, state), RestUnchanged, trusted' = trusted,
         state.pc = "upload", state.target = "cloudflare_static", state.bundle \in Bundles,
         state.seen = FALSE, state.rollbackOf = None
  PROVE  Inv'
<1>1. \A p : Began(p, op, state) => Knows(p)
  BY DEF Began, Knows, Keeping, Recovering, None
<1> QED
  BY <1>1, BeginsOnly DEF Ops

\* deploy-site to the assets Worker.
LEMMA DeployStaticInv ==
  ASSUME Inv, NEW c \in Commands, DeployStatic(c)
  PROVE  Inv'
<1>1. PICK b \in Bundles, policy \in CachePolicies, ask \in Publications :
        Begin(c, "cloudflare_static",
              [Idle EXCEPT !.pc = "upload", !.target = "cloudflare_static", !.bundle = b,
                           !.environment = ask.environment, !.promote = ask.promote,
                           !.headers = Prepared(b, policy)])
  BY DEF DeployStatic
<1> DEFINE state == [Idle EXCEPT !.pc = "upload", !.target = "cloudflare_static", !.bundle = b,
                                 !.environment = ask.environment, !.promote = ask.promote,
                                 !.headers = Prepared(b, policy)]
<1>2. /\ ask.environment \in Environments /\ ask.promote \in BOOLEAN
      /\ Prepared(b, policy) \in HeaderSources
  BY InputsAssumption, PreparedKind DEF Environments
<1>3. /\ state \in CommandState
      /\ state.pc = "upload" /\ state.target = "cloudflare_static" /\ state.bundle = b
      /\ state.seen = FALSE /\ state.rollbackOf = None
  BY <1>2, IdleState DEF Idle, CommandState, Targets
<1> HIDE DEF state
<1>4. RestUnchanged /\ trusted' = trusted
  BY OnlyCommands DEF DeployStatic
<1> QED
  BY <1>1, <1>3, <1>4, UploadBegins DEF state

\* publish-cloudflare-static.
LEMMA PublishStaticInv ==
  ASSUME Inv, NEW c \in Commands, PublishStatic(c)
  PROVE  Inv'
<1>1. PICK b \in Bundles, policy \in CachePolicies :
        Begin(c, "publish_static",
              [Idle EXCEPT !.pc = "upload", !.target = "cloudflare_static", !.bundle = b,
                           !.headers = Prepared(b, policy)])
  BY DEF PublishStatic
<1> DEFINE state == [Idle EXCEPT !.pc = "upload", !.target = "cloudflare_static", !.bundle = b,
                                 !.headers = Prepared(b, policy)]
<1>2. Prepared(b, policy) \in HeaderSources
  BY PreparedKind
<1>3. /\ state \in CommandState
      /\ state.pc = "upload" /\ state.target = "cloudflare_static" /\ state.bundle = b
      /\ state.seen = FALSE /\ state.rollbackOf = None
  BY <1>2, IdleState DEF Idle, CommandState, Targets
<1> HIDE DEF state
<1>4. RestUnchanged /\ trusted' = trusted
  BY OnlyCommands DEF PublishStatic
<1> QED
  BY <1>1, <1>3, <1>4, UploadBegins DEF state

\* refresh-edge-manifest and publish-edge-manifest.
LEMMA RefreshInv ==
  ASSUME Inv, NEW c \in Commands, Refresh(c)
  PROVE  Inv'
<1>1. PICK d \in Deployments :
        /\ Exists(d)
        /\ Begin(c, "refresh", [Idle EXCEPT !.pc = "publish", !.deployment = d, !.seen = row[d].active])
  BY DEF Refresh
<1>2. row[d] \in Row /\ RowInv(d)
  BY DEF Inv, TableInv
<1>3. d \in 1..issued /\ d \in 0..MaxDeployments
  BY <1>1, <1>2 DEF Inv, TableInv, RowInv, NoRow, Exists, Deployments
<1>4. row[d].active \in BOOLEAN /\ (row[d].active => d \in wasActive)
  BY <1>2 DEF RowInv, Row
<1>5. PICK state : state = [Idle EXCEPT !.pc = "publish", !.deployment = d, !.seen = row[d].active]
  OBVIOUS
<1>6. state \in CommandState
  BY <1>3, <1>4, <1>5, IdleState DEF Idle, CommandState
<1>7. /\ state.pc = "publish" /\ state.target = "none" /\ state.deployment = d
      /\ state.rollbackOf = None
  BY <1>5 DEF Idle
<1>8. state.seen = row[d].active
  BY <1>5 DEF Idle
<1>9. Begin(c, "refresh", state)
  BY <1>1, <1>5
<1>10. \A p : Began(p, "refresh", state) => Knows(p)
  BY <1>3, <1>4, <1>7, <1>8 DEF Began, Knows, Keeping, Recovering, None
<1>11. RestUnchanged /\ trusted' = trusted
  BY OnlyCommands DEF Refresh
<1> QED
  BY <1>6, <1>7, <1>8, <1>9, <1>10, <1>11, BeginsOnly DEF Ops, Keeping

\* promote-deployment, and rollback-apply to a deployment of the Go server.
LEMMA PromoteInv ==
  ASSUME Inv, NEW c \in Commands, Promote(c) \/ RollbackOrigin(c)
  PROVE  Inv'
<1>1. PICK d \in Deployments, op \in {"promote", "rollback"} :
        /\ Activatable(d)
        /\ row[d].target = "origin_assisted" \/ (op = "promote" /\ row[d].active)
        /\ Begin(c, op, [Idle EXCEPT !.pc = "promote", !.deployment = d, !.target = row[d].target])
  <2>1. CASE Promote(c)
    BY <2>1 DEF Promote, MayPromote
  <2>2. CASE RollbackOrigin(c)
    BY <2>2 DEF RollbackOrigin, RollbackCandidate, Activatable
  <2> QED BY <2>1, <2>2
<1>2. row[d].target \in Targets /\ d \in 1..issued /\ d \in 0..MaxDeployments
  BY <1>1 DEF Inv, TableInv, RowInv, Row, NoRow, Activatable, Deployments
<1>3. PICK target \in Targets : target = row[d].target
  BY <1>2
<1> DEFINE state == [Idle EXCEPT !.pc = "promote", !.deployment = d, !.target = target]
<1>4. /\ state \in CommandState
      /\ state.pc = "promote" /\ state.target = target /\ state.deployment = d
      /\ state.seen = FALSE /\ state.rollbackOf = None
  BY <1>2, IdleState DEF Idle, CommandState
<1>5. Begin(c, op, state)
  BY <1>1, <1>3
<1> HIDE DEF state
<1>6. \A p : Began(p, op, state) => Knows(p)
  BY <1>1, <1>2, <1>3, <1>4 DEF Began, Knows, Keeping, Recovering, None
<1>7. RestUnchanged /\ trusted' = trusted
  BY OnlyCommands DEF Promote, RollbackOrigin
<1> QED
  BY <1>1, <1>3, <1>4, <1>5, <1>6, <1>7, BeginsOnly DEF Ops, Keeping

\* delete-deployment.
LEMMA DeleteInv ==
  ASSUME Inv, NEW c \in Commands, Delete(c)
  PROVE  Inv'
<1>1. PICK d \in Deployments :
        /\ row[d].status \in {"ready", "failed"}
        /\ Begin(c, "delete", [Idle EXCEPT !.pc = "delete", !.deployment = d])
  BY DEF Delete
<1>2. d \in 1..issued /\ d \in 0..MaxDeployments
  BY <1>1 DEF Inv, TableInv, RowInv, Row, NoRow, Deployments
<1> DEFINE state == [Idle EXCEPT !.pc = "delete", !.deployment = d]
<1>3. /\ state \in CommandState
      /\ state.pc = "delete" /\ state.target = "none" /\ state.deployment = d
      /\ state.seen = FALSE /\ state.rollbackOf = None
  BY <1>2, IdleState DEF Idle, CommandState
<1> HIDE DEF state
<1>4. \A p : Began(p, "delete", state) => Knows(p)
  BY <1>2, <1>3 DEF Began, Knows, Keeping, Recovering, None
<1>5. RestUnchanged /\ trusted' = trusted
  BY OnlyCommands DEF Delete
<1> QED
  BY <1>1, <1>3, <1>4, <1>5, BeginsOnly DEF Ops, Keeping, state

\* activate-cloudflare-static.
LEMMA ActivateStaticInv ==
  ASSUME Inv, NEW c \in Commands, ActivateStatic(c)
  PROVE  Inv'
<1>1. PICK d \in Deployments :
        /\ Activatable(d)
        /\ Begin(c, "activate_static", [Idle EXCEPT !.pc = "activate_recorded", !.deployment = d])
  BY DEF ActivateStatic
<1>2. d \in 1..issued /\ d \in 0..MaxDeployments
  BY <1>1 DEF Inv, TableInv, RowInv, Row, NoRow, Activatable, Deployments
<1> DEFINE state == [Idle EXCEPT !.pc = "activate_recorded", !.deployment = d]
<1>3. /\ state \in CommandState
      /\ state.pc = "activate_recorded" /\ state.target = "none" /\ state.deployment = d
      /\ state.seen = FALSE /\ state.rollbackOf = None
  BY <1>2, IdleState DEF Idle, CommandState
<1> HIDE DEF state
<1>4. \A p : Began(p, "activate_static", state) => Knows(p)
  BY <1>2, <1>3 DEF Began, Knows, Keeping, Recovering, None
<1>5. RestUnchanged /\ trusted' = trusted
  BY OnlyCommands DEF ActivateStatic
<1> QED
  BY <1>1, <1>3, <1>4, <1>5, BeginsOnly DEF Ops, Keeping, state

\* What a rollback starts from.
LEMMA RollbackState ==
  ASSUME Inv, NEW d \in Deployments, NEW b \in Bundles, RollbackReady(d, b), row[d].target # "none"
  PROVE  /\ d \in 1..issued /\ b = bundleOf[d]
         /\ RollbackOf(d, b) \in CommandState
         /\ RollbackOf(d, b).target = row[d].target /\ RollbackOf(d, b).bundle = b
         /\ RollbackOf(d, b).rollbackOf = d
         /\ ~RollbackOf(d, b).seen
<1>1. row[d] \in Row /\ RowInv(d)
  BY DEF Inv, TableInv
<1>2. row[d].status = "ready" /\ row[d].bundle = b
  BY DEF RollbackReady, RollbackCandidate
<1>3. d \in 1..issued /\ b = bundleOf[d] /\ d \in 0..MaxDeployments
  BY <1>1, <1>2 DEF Inv, TableInv, RowInv, NoRow, Exists, Deployments
<1>4. row[d].target \in Targets /\ row[d].evidence.headers \in HeaderSources
  BY <1>1 DEF Row, Evidence
<1>5. PICK target \in Targets, headers \in HeaderSources :
        target = row[d].target /\ headers = row[d].evidence.headers
  BY <1>4
<1> DEFINE state == [Idle EXCEPT !.target = target, !.bundle = b, !.promote = TRUE,
                                 !.headers = headers,
                                 !.operation = "rollback_apply", !.rollbackOf = d]
<1>6. /\ state \in CommandState
      /\ state.target = target /\ state.bundle = b
      /\ state.rollbackOf = d /\ ~state.seen
  BY <1>3, IdleState DEF Idle, CommandState, Operations
<1>7. RollbackOf(d, b) = state
  BY <1>5 DEF RollbackOf
<1> HIDE DEF state
<1> QED
  BY <1>3, <1>5, <1>6, <1>7

\* rollback-apply to a deployment of the assets Worker.
LEMMA RollbackStaticInv ==
  ASSUME Inv, NEW c \in Commands, RollbackStatic(c)
  PROVE  Inv'
<1>1. PICK d \in Deployments, b \in Bundles :
        /\ row[d].target = "cloudflare_static" /\ RollbackReady(d, b)
        /\ Begin(c, "rollback", [RollbackOf(d, b) EXCEPT !.pc = "upload"])
  BY DEF RollbackStatic
<1>2. PICK q : q = RollbackOf(d, b) /\ row[d].target # "none"
  BY <1>1
<1> DEFINE state == [q EXCEPT !.pc = "upload"]
<1>3. /\ d \in 1..issued /\ b = bundleOf[d]
      /\ RollbackOf(d, b) \in CommandState
      /\ RollbackOf(d, b).target = "cloudflare_static" /\ RollbackOf(d, b).bundle = b
      /\ RollbackOf(d, b).rollbackOf = d /\ ~RollbackOf(d, b).seen
  BY <1>1, <1>2, RollbackState
<1>4. /\ state \in CommandState
      /\ state.pc = "upload" /\ state.target = "cloudflare_static" /\ state.bundle = b
      /\ state.rollbackOf = d /\ ~state.seen
  BY <1>2, <1>3 DEF CommandState
<1>5. Begin(c, "rollback", state)
  BY <1>1, <1>2
<1> HIDE DEF state
<1>6. \A p : Began(p, "rollback", state) => Knows(p)
  BY <1>3, <1>4 DEF Began, Knows, Keeping, Recovering
<1>7. RestUnchanged /\ trusted' = trusted
  BY OnlyCommands DEF RollbackStatic
<1> QED
  BY <1>4, <1>5, <1>6, <1>7, BeginsOnly DEF Ops

\* recover-cloudflare-static.
LEMMA RecoverStaticInv ==
  ASSUME Inv, NEW c \in Commands, RecoverStatic(c)
  PROVE  Inv'
<1>1. PICK v \in DOMAIN writes :
        /\ writes[v].worker = "static"
        /\ Begin(c, "recover_static",
             [Idle EXCEPT !.pc = "record", !.target = "cloudflare_static",
                          !.bundle = writes[v].bundle, !.headers = writes[v].headers,
                          !.version = v, !.verified = "ok"])
  BY DEF RecoverStatic
<1>2. v \in Nat /\ writes[v] \in Write
  BY ElementOfSeq DEF Inv, WorkersInv
<1>3. PICK bundle \in Bundles, headers \in HeaderSources :
        bundle = writes[v].bundle /\ headers = writes[v].headers
  BY <1>2 DEF Write
<1> DEFINE state == [Idle EXCEPT !.pc = "record", !.target = "cloudflare_static",
                                 !.bundle = bundle, !.headers = headers,
                                 !.version = v, !.verified = "ok"]
<1>4. /\ state \in CommandState
      /\ state.pc = "record" /\ state.target = "cloudflare_static" /\ state.bundle = bundle
      /\ state.version = v /\ state.rollbackOf = None /\ state.seen = FALSE
      /\ state.promote = FALSE
  BY <1>2, IdleState DEF Idle, CommandState, Targets, Verifications
<1>5. Begin(c, "recover_static", state)
  BY <1>1, <1>3
<1> HIDE DEF state
<1>6. \A p : Began(p, "recover_static", state) => Knows(p)
  BY <1>1, <1>3, <1>4 DEF Began, Knows, Keeping, WasUploaded, WorkerOf
<1>7. RestUnchanged /\ trusted' = trusted
  BY OnlyCommands DEF RecoverStatic
<1> QED
  BY <1>4, <1>5, <1>6, <1>7, BeginsOnly DEF Ops, Keeping, Recovering

\* recover-hybrid-edge.
LEMMA RecoverHybridInv ==
  ASSUME Inv, NEW c \in Commands, RecoverHybrid(c)
  PROVE  Inv'
<1>1. PICK v \in DOMAIN writes :
        /\ writes[v].worker = "edge"
        /\ Begin(c, "recover_hybrid",
             [Idle EXCEPT !.pc = "record", !.target = "hybrid_edge",
                          !.bundle = writes[v].bundle, !.headers = writes[v].headers,
                          !.version = v, !.verified = "ok",
                          !.deployment = writes[v].deployment, !.operation = "writeback"])
  BY DEF RecoverHybrid
<1>2. v \in Nat /\ writes[v] \in Write
  BY ElementOfSeq DEF Inv, WorkersInv
<1>3. PICK bundle \in Bundles, headers \in HeaderSources, d \in 0..MaxDeployments :
        bundle = writes[v].bundle /\ headers = writes[v].headers /\ d = writes[v].deployment
  BY <1>2 DEF Write
<1>4. CreatedAs(d, "hybrid_edge", bundle)
  BY <1>1, <1>3 DEF Inv, WorkersInv
<1> DEFINE state == [Idle EXCEPT !.pc = "record", !.target = "hybrid_edge",
                                 !.bundle = bundle, !.headers = headers,
                                 !.version = v, !.verified = "ok",
                                 !.deployment = d, !.operation = "writeback"]
<1>5. /\ state \in CommandState
      /\ state.pc = "record" /\ state.target = "hybrid_edge" /\ state.bundle = bundle
      /\ state.version = v /\ state.rollbackOf = None /\ state.seen = FALSE
      /\ state.promote = FALSE /\ state.deployment = d
  BY <1>2, IdleState DEF Idle, CommandState, Targets, Verifications, Operations
<1>6. Begin(c, "recover_hybrid", state)
  BY <1>1, <1>3
<1> HIDE DEF state
<1>7. \A p : Began(p, "recover_hybrid", state) => Knows(p)
  BY <1>1, <1>3, <1>4, <1>5 DEF Began, Knows, Keeping, WasUploaded, WorkerOf
<1>8. RestUnchanged /\ trusted' = trusted
  BY OnlyCommands DEF RecoverHybrid
<1> QED
  BY <1>5, <1>6, <1>7, <1>8, BeginsOnly DEF Ops, Keeping, Recovering

-----------------------------------------------------------------------------
(* New rows.                                                               *)

\* Versions stay with the deployments they were uploaded for.
LEMMA WorkersGrow ==
  ASSUME Inv, Grows, UNCHANGED edgeVars
  PROVE  WorkersInv'
<1>1. writes' = writes /\ live' = live /\ route' = route
  BY DEF edgeVars
<1>2. ASSUME NEW v \in DOMAIN writes, writes[v].worker = "edge"
      PROVE  CreatedAs(writes[v].deployment, "hybrid_edge", writes[v].bundle)'
  <2>1. PICK d, bundle : d = writes[v].deployment /\ bundle = writes[v].bundle
    OBVIOUS
  <2>2. CreatedAs(d, "hybrid_edge", bundle)
    BY <1>2, <2>1 DEF Inv, WorkersInv
  <2>3. CreatedAs(d, "hybrid_edge", bundle)'
    BY <2>2, CreatedStays DEF Inv
  <2> QED BY <1>1, <2>1, <2>3
<1> QED
  BY <1>1, <1>2 DEF Inv, WorkersInv

\* Keys stay with deployments that were active.
LEMMA KeysGrow ==
  ASSUME Inv, Grows, UNCHANGED kvVars
  PROVE  KeysInv'
<1>1. active' = active /\ kept' = kept /\ issued \in Nat /\ issued' \in Nat /\ issued <= issued'
      /\ \A d \in wasActive : d \in wasActive'
  BY DEF kvVars, Inv, TableInv, Grows
<1> QED
  BY <1>1 DEF Inv, KeysInv, ActiveManifestWasActive

\* A new row stands under the next number.
LEMMA CreateEffect ==
  ASSUME Inv, NEW fields \in Row, Create(fields), wasActive' = wasActive, writes' = writes,
         NEW n, n = issued + 1,
         fields.status # "none", fields.target # "none", ~fields.active,
         fields.evidence.verified # "none" =>
           WasUploaded(fields.evidence.version, fields.target, fields.bundle, n),
         fields.evidence.rollbackOf # None =>
           /\ fields.evidence.rollbackOf \in 1..issued
           /\ fields.bundle = bundleOf[fields.evidence.rollbackOf]
  PROVE  /\ TableInv' /\ Grows
         /\ n \in Deployments /\ n = issued' /\ row'[n] = fields /\ ~row[n].active
         /\ \A d \in Deployments : d # n => row'[d] = row[d]
         /\ CreatedAs(n, fields.target, fields.bundle)'
<1>1. /\ issued \in 0..MaxDeployments /\ issued < MaxDeployments /\ issued' = n /\ n \in Deployments
      /\ row' = [row EXCEPT ![n] = fields] /\ bundleOf' = [bundleOf EXCEPT ![n] = fields.bundle]
  BY InputsAssumption DEF Inv, TableInv, Create, NewDeployment, Deployments
<1>2. /\ row \in [Deployments -> Row] /\ bundleOf \in [Deployments -> Bundles \cup {NoBundle}]
      /\ row[n] = NoRow
  BY <1>1 DEF Inv, TableInv, RowInv, Deployments
<1>3. /\ row'[n] = fields /\ bundleOf'[n] = fields.bundle
      /\ \A d \in Deployments : d # n => row'[d] = row[d] /\ bundleOf'[d] = bundleOf[d]
      /\ row' \in [Deployments -> Row]
  BY <1>1, <1>2
<1>4. fields.bundle \in Bundles \cup {NoBundle}
  BY DEF Row
<1>5. bundleOf' \in [Deployments -> Bundles \cup {NoBundle}]
  <2>1. PICK kinds : kinds = Bundles \cup {NoBundle}
    OBVIOUS
  <2>2. bundleOf \in [Deployments -> kinds] /\ fields.bundle \in kinds
    BY <1>2, <1>4, <2>1
  <2>3. bundleOf' \in [Deployments -> kinds]
    BY <1>1, <2>2
  <2> QED BY <2>1, <2>3, Zenon
<1>6. \A d \in 1..issued : d \in Deployments /\ d # n
  BY <1>1, InputsAssumption DEF Deployments
<1>7. Grows
  BY <1>1, <1>3, <1>6 DEF Grows, Exists, Deployments
<1>8. ASSUME NEW d \in Deployments
      PROVE  RowInv(d)'
  <2>1. CASE d = n
    <3>1. WasUploaded(fields.evidence.version, fields.target, fields.bundle, n)
            => WasUploaded(fields.evidence.version, fields.target, fields.bundle, n)'
      BY <1>7, UploadedStays
    <3>2. fields.evidence.rollbackOf # None =>
            /\ fields.evidence.rollbackOf \in 1..issued'
            /\ fields.bundle = bundleOf'[fields.evidence.rollbackOf]
      BY <1>1, <1>3, <1>6
    <3> QED BY <1>1, <1>3, <2>1, <3>1, <3>2 DEF RowInv, Exists
  <2>2. CASE d # n
    <3>1. RowInv(d) /\ row'[d] = row[d] /\ bundleOf'[d] = bundleOf[d]
      BY <1>3, <2>2 DEF Inv, TableInv
    <3>2. PICK r : r = row[d]
      OBVIOUS
    <3>3. r.evidence.verified # "none" =>
            WasUploaded(r.evidence.version, r.target, r.bundle, d)'
      BY <1>7, <3>1, <3>2, UploadedStays DEF RowInv
    <3>4. r.evidence.rollbackOf # None =>
            /\ r.evidence.rollbackOf \in 1..issued'
            /\ r.bundle = bundleOf'[r.evidence.rollbackOf]
      BY <1>1, <1>3, <1>6, <3>1, <3>2 DEF RowInv
    <3>5. d > issued' => r = NoRow
      BY <1>1, <2>2, <3>1, <3>2 DEF RowInv, Deployments
    <3> QED BY <3>1, <3>2, <3>3, <3>4, <3>5 DEF RowInv, Exists
  <2> QED BY <2>1, <2>2
<1>9. OneActive'
  BY <1>3 DEF OneActive, Inv, TableInv
<1>10. TableInv'
  BY <1>1, <1>3, <1>5, <1>8, <1>9 DEF TableInv, Inv, Deployments
<1>11. CreatedAs(n, fields.target, fields.bundle)'
  BY <1>1, <1>3 DEF CreatedAs, Deployments
<1>12. ~row[n].active
  BY <1>2 DEF NoRow
<1> QED
  BY <1>1, <1>3, <1>7, <1>10, <1>11, <1>12

\* What createAndWaitSiteDeployment leaves.
LEMMA CreateAndWaitInv ==
  ASSUME Inv, NEW c \in Commands, NEW op \in {"hybrid_edge", "origin_assisted", "rollback"},
         NEW state \in CommandState, CreateAndWait(c, op, state),
         state.target \in {"hybrid_edge", "origin_assisted"}, state.bundle \in Bundles,
         ~state.seen,
         state.rollbackOf # None =>
           state.rollbackOf \in 1..issued /\ state.bundle = bundleOf[state.rollbackOf]
  PROVE  Inv'
<1>1. PICK n : n = issued + 1
  OBVIOUS
<1> DEFINE pending == IF state.promote THEN "build_promote" ELSE "build"
<1>15. PICK fields : fields = [NoRow EXCEPT !.status = "queued", !.target = state.target,
                                   !.bundle = state.bundle, !.environment = state.environment,
                                   !.pending = pending]
  OBVIOUS
<1>16. PICK waiting : waiting = [state EXCEPT !.pc = "wait", !.deployment = n]
  OBVIOUS
<1>2. /\ Create(fields) /\ Begin(c, op, waiting) /\ trusted' = trusted
      /\ UNCHANGED edgeVars /\ UNCHANGED kvVars /\ wasActive' = wasActive
  BY <1>1, <1>15, <1>16 DEF CreateAndWait, NewDeployment
<1>3. writes' = writes /\ live' = live /\ route' = route /\ active' = active
  BY <1>2 DEF edgeVars, kvVars
<1>4. n \in 1..MaxDeployments /\ n \in 0..MaxDeployments
  BY <1>1, <1>2, InputsAssumption DEF Create, Inv, TableInv
<1>5. pending \in {"build", "build_promote"}
  OBVIOUS
<1> HIDE DEF pending
<1>6. /\ state.environment \in Environments /\ state.target \in Targets
      /\ NoEvidence \in Evidence
  BY InputsAssumption DEF CommandState, NoEvidence, Evidence, None, Verifications, HeaderSources, Operations
<1>7. /\ fields \in Row
      /\ fields.status = "queued" /\ fields.target = state.target /\ fields.bundle = state.bundle
      /\ ~fields.active /\ fields.evidence = NoEvidence
  BY <1>5, <1>6, <1>15 DEF NoRow, Row
<1>8. fields.evidence.verified = "none" /\ fields.evidence.rollbackOf = None
  BY <1>7 DEF NoEvidence
<1>9. /\ waiting \in CommandState /\ waiting.pc = "wait" /\ waiting.deployment = n
      /\ waiting.target = state.target /\ waiting.bundle = state.bundle /\ ~waiting.seen
      /\ waiting.rollbackOf = state.rollbackOf
  BY <1>4, <1>16 DEF CommandState
<1>10. /\ TableInv' /\ Grows
       /\ n \in Deployments /\ n = issued' /\ row'[n] = fields /\ ~row[n].active
       /\ \A d \in Deployments : d # n => row'[d] = row[d]
       /\ CreatedAs(n, fields.target, fields.bundle)'
  BY <1>1, <1>2, <1>3, <1>7, <1>8, CreateEffect
<1>11. WorkersInv' /\ KeysInv'
  BY <1>2, <1>10, WorkersGrow, KeysGrow
<1>17. op \in Ops
  BY DEF Ops
<1>12. PICK p \in CommandState :
         /\ Began(p, op, waiting) /\ proc[c].pc = "idle"
         /\ proc' = [e \in Commands |-> IF e = c THEN p ELSE [proc[e] EXCEPT !.alone = FALSE]]
  BY <1>2, <1>9, <1>17, BeginEffect
<1>13. CommandsInv'
  <2>1. /\ p.pc = "wait" /\ p.op = op /\ p.deployment = n /\ p.target = state.target
        /\ p.bundle = state.bundle /\ p.rollbackOf = state.rollbackOf
    BY <1>9, <1>12 DEF Began
  <2>6. ~p.seen
    BY <1>9, <1>12 DEF Began
  <2>2. n \in 1..issued'
    BY <1>4, <1>10
  <2>3. CreatedAs(p.deployment, p.target, p.bundle)'
    BY <1>7, <1>10, <2>1
  <2>4. p.rollbackOf # None => p.rollbackOf \in 1..issued' /\ p.bundle = bundleOf'[p.rollbackOf]
    BY <1>10, <2>1 DEF Grows, Inv, TableInv
  <2>5. Knows(p)'
    BY <2>1, <2>2, <2>3, <2>4, <2>6 DEF Knows, Keeping, Recovering
  <2> QED BY <1>10, <1>12, <2>5, CommandBegins DEF Inv
<1>14. TrustInv'
  <2>1. ASSUME p.alone
        PROVE  Busy = {} /\ Leaves(p)'
    <3>1. Busy = {} /\ ~Building
      BY <1>12, <2>1 DEF Began
    <3>2. /\ p.pc = "wait" /\ p.op = op /\ p.deployment = n /\ p.target = state.target
          /\ ~p.seen
      BY <1>9, <1>12 DEF Began
    <3>3. ASSUME NEW d \in Deployments, row'[d].pending # "nothing"
          PROVE  AwaitsBuild(p, d) /\ ~row'[d].active
      <4>1. d = n
        BY <1>10, <3>1, <3>3 DEF Building
      <4> QED BY <1>7, <1>10, <3>2, <4>1 DEF AwaitsBuild, Keeping
    <3> QED BY <3>1, <3>2, <3>3 DEF Leaves, Keeping, AwaitsBuild
  <2> QED BY <1>2, <1>9, <1>12, <2>1, TrustBegins DEF Inv, Began
<1> QED
  BY <1>10, <1>11, <1>13, <1>14 DEF Inv

\* deploy-site to the edge Worker or to the Go server.
LEMMA DeployBuiltInv ==
  ASSUME Inv, NEW c \in Commands, DeployBuilt(c)
  PROVE  Inv'
<1>1. PICK b \in Bundles, policy \in CachePolicies, ask \in Publications,
           target \in {"hybrid_edge", "origin_assisted"} :
        CreateAndWait(c, target,
          [Idle EXCEPT !.target = target, !.bundle = b, !.environment = ask.environment,
                       !.promote = ask.promote, !.headers = Prepared(b, policy)])
  BY DEF DeployBuilt
<1> DEFINE state == [Idle EXCEPT !.target = target, !.bundle = b, !.environment = ask.environment,
                                 !.promote = ask.promote, !.headers = Prepared(b, policy)]
<1>2. /\ ask.environment \in Environments /\ ask.promote \in BOOLEAN
      /\ Prepared(b, policy) \in HeaderSources
  BY InputsAssumption, PreparedKind DEF Environments
<1>3. /\ state \in CommandState
      /\ state.target = target /\ state.bundle = b /\ ~state.seen /\ state.rollbackOf = None
  BY <1>2, IdleState DEF Idle, CommandState, Targets
<1> HIDE DEF state
<1> QED
  BY <1>1, <1>3, CreateAndWaitInv DEF state

\* rollback-apply to a deployment of the edge Worker.
LEMMA RollbackHybridInv ==
  ASSUME Inv, NEW c \in Commands, RollbackHybrid(c)
  PROVE  Inv'
<1>1. PICK d \in Deployments, b \in Bundles :
        /\ row[d].target = "hybrid_edge" /\ RollbackReady(d, b)
        /\ CreateAndWait(c, "rollback", RollbackOf(d, b))
  BY DEF RollbackHybrid
<1>2. PICK q : q = RollbackOf(d, b) /\ row[d].target # "none"
  BY <1>1
<1>3. /\ d \in 1..issued /\ b = bundleOf[d]
      /\ RollbackOf(d, b) \in CommandState
      /\ RollbackOf(d, b).target = "hybrid_edge" /\ RollbackOf(d, b).bundle = b
      /\ RollbackOf(d, b).rollbackOf = d /\ ~RollbackOf(d, b).seen
  BY <1>1, <1>2, RollbackState
<1>4. /\ q \in CommandState /\ q.target = "hybrid_edge" /\ q.bundle = b
      /\ q.rollbackOf = d /\ ~q.seen
  BY <1>2, <1>3
<1>5. CreateAndWait(c, "rollback", q)
  BY <1>1, <1>2
<1> QED
  BY <1>3, <1>4, <1>5, CreateAndWaitInv

-----------------------------------------------------------------------------
(* Waiting for the build, and the manifest.                                *)

\* What is known of a command that is busy.
LEMMA CommandFacts ==
  ASSUME Inv, NEW c \in Commands
  PROVE  /\ proc[c] \in CommandState /\ Knows(proc[c])
         /\ proc[c].pc # "idle" /\ proc[c].alone => Leaves(proc[c])
BY DEF Inv, CommandsInv, TrustInv

\* waitDeploymentRaw.
LEMMA SeeBuiltInv ==
  ASSUME Inv, NEW c \in Commands, SeeBuilt(c)
  PROVE  Inv'
<1>1. RestUnchanged /\ proc[c].pc = "wait"
  BY OnlyCommands DEF SeeBuilt
<1>2. CASE EndDoubted(c)
  BY <1>1, <1>2, EndsOnly
<1>3. CASE /\ proc[c].target = "hybrid_edge" /\ trusted' = trusted
           /\ proc' = [proc EXCEPT ![c].pc = "publish", ![c].seen = row[proc[c].deployment].active]
  <2>1. PICK q \in CommandState : q = proc[c] /\ Knows(q) /\ (q.alone => Leaves(q))
    BY <1>1, CommandFacts
  <2>2. PICK d : d = q.deployment
    OBVIOUS
  <2>3. q.pc = "wait" /\ q.target = "hybrid_edge" /\ d \in 1..issued /\ d \in Deployments
    BY <1>1, <1>3, <2>1, <2>2 DEF Knows, Inv, TableInv, Deployments, CommandState
  <2>4. row[d].active \in BOOLEAN
    BY <2>3 DEF Inv, TableInv, Row
  <2>5. row[d].active => d \in wasActive
    BY <2>3 DEF Inv, TableInv, RowInv
  <2>6. PICK p : p = [[q EXCEPT !.pc = "publish"] EXCEPT !.seen = row[d].active]
    OBVIOUS
  <2>7. p \in CommandState
    BY <2>4, <2>6 DEF CommandState
  <2>8. /\ p.pc = "publish" /\ p.op = q.op /\ p.target = q.target /\ p.deployment = d
        /\ p.bundle = q.bundle /\ p.rollbackOf = q.rollbackOf /\ p.promote = q.promote
    BY <2>2, <2>6 DEF CommandState
  <2>9. p.alone = q.alone
    BY <2>6 DEF CommandState
  <2>10. p.seen = row[d].active
    BY <2>6 DEF CommandState
  <2>11. proc' = [proc EXCEPT ![c] = p]
    BY <1>3, <2>1, <2>2, <2>6 DEF Inv, CommandsInv
  <2>12. Knows(p)
    BY <2>1, <2>2, <2>3, <2>5, <2>8, <2>10 DEF Knows
  <2>13. ASSUME Leaves(q)
         PROVE  Leaves(p)
    <3>1. ASSUME NEW e \in Deployments, row[e].pending # "nothing"
          PROVE  AwaitsBuild(p, e) /\ ~row[e].active
      <4>1. AwaitsBuild(q, e) /\ ~row[e].active
        BY <2>13, <3>1 DEF Leaves
      <4> QED BY <2>2, <2>8, <2>10, <4>1 DEF AwaitsBuild
    <3> QED BY <2>1, <2>3, <2>8, <2>10, <2>13, <3>1 DEF Leaves, Knows, Keeping
  <2> QED BY <1>1, <1>3, <2>1, <2>3, <2>7, <2>8, <2>9, <2>11, <2>12, <2>13, MovesOnly
<1> QED
  BY <1>2, <1>3 DEF SeeBuilt

\* Commands that give up, and every way to be interrupted.
LEMMA GiveUpInv ==
  ASSUME Inv, NEW c \in Commands,
         CandidatesTimeOut(c) \/ RecordRefused(c) \/ Interrupted(c)
  PROVE  Inv'
<1>1. RestUnchanged /\ proc[c].pc # "idle" /\ EndDoubted(c)
  BY OnlyCommands DEF CandidatesTimeOut, RecordRefused, Interrupted
<1> QED
  BY <1>1, EndsOnly

\* KVWrites lists keys of the domains; the active ones when asked, and then all.
LEMMA ListedKeys ==
  ASSUME NEW activeKey \in BOOLEAN
  PROVE  /\ KVWrites(activeKey) \in Seq(KVWrite)
         /\ \A i \in DOMAIN KVWrites(activeKey) :
              KVWrites(activeKey)[i].key = "active" => activeKey
         /\ activeKey => \A dom \in DomainNames : \E i \in DOMAIN KVWrites(activeKey) :
              KVWrites(activeKey)[i] = [domain |-> dom, key |-> "active"]
<1> DEFINE n == Len(Domains)
<1>1. n \in Nat /\ \A i \in 1..n : Domains[i] \in DomainNames
  BY InputsAssumption DEF DomainNames
<1>2. CASE activeKey
  <2> DEFINE At(i) == [domain |-> Domains[(i + 1) \div 2], key |-> IF i % 2 = 1 THEN "kept" ELSE "active"]
             all == [i \in 1..(2 * n) |-> At(i)]
  <2>1. KVWrites(activeKey) = all
    BY <1>2 DEF KVWrites
  <2>2. \A i \in 1..(2 * n) : (i + 1) \div 2 \in 1..n
    BY <1>1
  <2>3. \A i \in 1..(2 * n) : At(i) \in KVWrite
    BY <1>1, <2>2 DEF KVWrite
  <2>4. 2 * n \in Nat
    BY <1>1
  <2>5. all \in Seq(KVWrite)
    BY <2>3, <2>4, IsASeq
  <2>6. ASSUME NEW dom \in DomainNames
        PROVE  \E i \in DOMAIN all : all[i] = [domain |-> dom, key |-> "active"]
    <3>1. PICK k \in 1..n : dom = Domains[k]
      BY DEF DomainNames
    <3>2. 2 * k \in 1..(2 * n) /\ (2 * k + 1) \div 2 = k /\ (2 * k) % 2 # 1
      BY <1>1
    <3>3. At(2 * k) = [domain |-> dom, key |-> "active"]
      BY <3>1, <3>2
    <3>4. all[2 * k] = At(2 * k)
      BY <3>2
    <3> QED BY <3>2, <3>3, <3>4
  <2> QED BY <1>2, <2>1, <2>5, <2>6, ZenonT(60)
<1>3. CASE ~activeKey
  <2> DEFINE all == [i \in 1..n |-> [domain |-> Domains[i], key |-> "kept"]]
  <2>1. KVWrites(activeKey) = all
    BY <1>3 DEF KVWrites
  <2>2. \A i \in 1..n : [domain |-> Domains[i], key |-> "kept"] \in KVWrite
    BY <1>1 DEF KVWrite
  <2>3. all \in Seq(KVWrite)
    BY <1>1, <2>2, IsASeq
  <2>4. \A i \in DOMAIN all : all[i].key = "kept"
    OBVIOUS
  <2> QED BY <1>3, <2>1, <2>3, <2>4
<1> QED
  BY <1>2, <1>3

\* publishSiteEdgeManifest.
LEMMA PublishManifestInv ==
  ASSUME Inv, NEW c \in Commands, PublishManifest(c)
  PROVE  Inv'
<1>1. RestUnchanged /\ proc[c].pc = "publish"
  BY OnlyCommands DEF PublishManifest
<1>2. CASE EndDoubted(c) \/ (proc[c].op = "refresh" /\ EndKeeping(c))
  BY <1>1, <1>2, EndsOnly DEF Keeping
<1>3. CASE /\ trusted' = trusted
           /\ proc' = [proc EXCEPT ![c].pc = "kv", ![c].todo = KVWrites(proc[c].seen)]
  <2>1. PICK q \in CommandState : q = proc[c] /\ Knows(q) /\ (q.alone => Leaves(q))
    BY <1>1, CommandFacts
  <2>2. PICK seen \in BOOLEAN : seen = q.seen
    BY DEF CommandState
  <2>3. PICK todo \in Seq(KVWrite) : todo = KVWrites(seen)
    BY ListedKeys
  <2>4. /\ \A i \in DOMAIN todo : todo[i].key = "active" => seen
        /\ seen => \A dom \in DomainNames : \E i \in DOMAIN todo :
                     todo[i] = [domain |-> dom, key |-> "active"]
    BY <2>3, ListedKeys
  <2>5. PICK p : p = [[q EXCEPT !.pc = "kv"] EXCEPT !.todo = todo]
    OBVIOUS
  <2>6. p \in CommandState
    BY <2>5 DEF CommandState
  <2>7. /\ p.pc = "kv" /\ p.op = q.op /\ p.target = q.target /\ p.deployment = q.deployment
        /\ p.bundle = q.bundle /\ p.rollbackOf = q.rollbackOf /\ p.promote = q.promote
        /\ p.todo = todo /\ p.alone = q.alone /\ p.seen = q.seen
    BY <2>5 DEF CommandState
  <2>8. proc' = [proc EXCEPT ![c] = p]
    BY <1>3, <2>1, <2>2, <2>3, <2>5 DEF Inv, CommandsInv
  <2>9. Knows(p)
    BY <1>1, <2>1, <2>2, <2>4, <2>7 DEF Knows
  <2>10. ASSUME Leaves(q)
         PROVE  Leaves(p)
    BY <1>1, <2>1, <2>2, <2>4, <2>7, <2>10 DEF Leaves, AwaitsBuild
  <2> QED BY <1>1, <1>3, <2>1, <2>6, <2>7, <2>8, <2>9, <2>10, MovesOnly
<1> QED
  BY <1>2, <1>3 DEF PublishManifest

\* A publication that has written its keys ends, or goes on to the Worker.
LEMMA PublishedInv ==
  ASSUME Inv, NEW c \in Commands, Published(c)
  PROVE  Inv'
<1>1. RestUnchanged /\ proc[c].pc = "kv" /\ proc[c].todo = <<>>
  BY OnlyCommands DEF Published
<1>2. CASE EndDoubted(c) \/ (proc[c].op = "refresh" /\ EndKeeping(c))
  BY <1>1, <1>2, EndsOnly DEF Keeping
<1>3. CASE /\ ~proc[c].failed /\ proc[c].op # "refresh"
           /\ Goto(c, "upload") /\ trusted' = trusted
  <2>1. PICK q \in CommandState : q = proc[c] /\ Knows(q) /\ (q.alone => Leaves(q))
    BY <1>1, CommandFacts
  <2>2. PICK p : p = [q EXCEPT !.pc = "upload"]
    OBVIOUS
  <2>3. p \in CommandState
    BY <2>2 DEF CommandState
  <2>4. /\ p.pc = "upload" /\ p.op = q.op /\ p.target = q.target /\ p.deployment = q.deployment
        /\ p.bundle = q.bundle /\ p.rollbackOf = q.rollbackOf /\ p.promote = q.promote
        /\ p.alone = q.alone /\ p.seen = q.seen
    BY <2>2 DEF CommandState
  <2>5. proc' = [proc EXCEPT ![c] = p]
    BY <1>3, <2>1, <2>2 DEF Inv, CommandsInv, Goto
  <2>6. Knows(p)
    BY <1>1, <1>3, <2>1, <2>4 DEF Knows
  <2>7. ASSUME Leaves(q)
        PROVE  Leaves(p)
    <3>1. q.target = "hybrid_edge" /\ q.seen => \A dom \in DomainNames : active[dom] = q.deployment
      <4>1. q.pc = "kv" /\ ~q.failed /\ DOMAIN q.todo = {}
        BY <1>1, <1>3, <2>1
      <4> QED BY <2>7, <4>1 DEF Leaves
    <3> QED BY <1>1, <2>1, <2>4, <2>7, <3>1 DEF Leaves, AwaitsBuild
  <2> QED BY <1>1, <1>3, <2>1, <2>3, <2>4, <2>5, <2>6, <2>7, MovesOnly
<1> QED
  BY <1>2, <1>3 DEF Published

\* One key is written, or not; the others are still to be written.
LEMMA KeyWritten ==
  ASSUME Inv, NEW c \in Commands, NEW failed \in BOOLEAN,
         proc[c].pc = "kv", proc[c].todo # <<>>,
         \/ PutKVValue(Head(proc[c].todo), proc[c].deployment)
         \/ failed /\ UNCHANGED kvVars,
         proc' = [proc EXCEPT ![c] = [[proc[c] EXCEPT !.todo = Tail(proc[c].todo)]
                                         EXCEPT !.failed = failed \/ proc[c].failed]],
         UNCHANGED edgeVars, UNCHANGED tableVars, UNCHANGED historyVars, trusted' = trusted
  PROVE  Inv'
<1>1. PICK q \in CommandState : q = proc[c] /\ Knows(q) /\ (q.alone => Leaves(q))
  BY CommandFacts
<1>2. PICK d, todo : d = q.deployment /\ todo = q.todo
  OBVIOUS
<1>3. /\ q.pc = "kv" /\ todo # <<>> /\ todo \in Seq(KVWrite) /\ d \in 1..issued /\ d \in Deployments
      /\ q.seen => d \in wasActive
      /\ \A i \in DOMAIN todo : todo[i].key = "active" => q.seen
  BY <1>1, <1>2 DEF CommandState, Knows, Inv, TableInv, Deployments
<1>4. PICK write \in KVWrite : write = Head(todo)
  BY <1>3, HeadTailProperties
<1>5. /\ write.domain \in DomainNames /\ write.key \in {"kept", "active"}
      /\ write.key = "active" => q.seen
      /\ \A i \in DOMAIN todo : i = 1 \/ (i - 1 \in DOMAIN Tail(todo) /\ Tail(todo)[i - 1] = todo[i])
      /\ \A i \in DOMAIN Tail(todo) : i + 1 \in DOMAIN todo /\ Tail(todo)[i] = todo[i + 1]
      /\ Tail(todo) \in Seq(KVWrite)
  BY <1>3, <1>4 DEF KVWrite
<1>6. /\ writes' = writes /\ live' = live /\ route' = route
      /\ issued' = issued /\ row' = row /\ wasActive' = wasActive /\ bundleOf' = bundleOf
  BY DEF edgeVars, tableVars, historyVars
<1>7. \/ write.key = "kept" /\ active' = active /\ kept' = kept \cup {<<write.domain, d>>}
      \/ write.key = "active" /\ active' = [active EXCEPT ![write.domain] = d] /\ kept' = kept
      \/ failed /\ active' = active /\ kept' = kept
  BY <1>1, <1>2, <1>4, <1>5 DEF PutKVValue, kvVars
<1>8. TableInv' /\ Grows
  BY <1>6, SameGrows DEF Inv, TableInv, RowInv, OneActive, WasUploaded, Exists, WorkerOf
<1>9. WorkersInv'
  BY <1>8, WorkersGrow
<1>10. KeysInv'
  <2>1. active \in [DomainNames -> 0..issued] /\ kept \subseteq DomainNames \X (1..issued)
        /\ \A dom \in DomainNames : active[dom] # None => active[dom] \in wasActive
    BY DEF Inv, KeysInv, ActiveManifestWasActive
  <2>2. active' \in [DomainNames -> 0..issued] /\ kept' \subseteq DomainNames \X (1..issued)
    BY <1>3, <1>5, <1>7, <2>1 DEF Inv, TableInv
  <2>3. \A dom \in DomainNames : active'[dom] # None => active'[dom] \in wasActive
    BY <1>3, <1>5, <1>7, <2>1
  <2> QED BY <1>6, <2>2, <2>3 DEF KeysInv, ActiveManifestWasActive
<1>11. PICK p : p = [[q EXCEPT !.todo = Tail(todo)] EXCEPT !.failed = failed \/ q.failed]
  OBVIOUS
<1>12. p \in CommandState
  BY <1>5, <1>11, ZenonT(60) DEF CommandState
<1>13. /\ p.pc = "kv" /\ p.op = q.op /\ p.target = q.target /\ p.deployment = d
       /\ p.bundle = q.bundle /\ p.rollbackOf = q.rollbackOf /\ p.promote = q.promote
       /\ p.alone = q.alone /\ p.seen = q.seen /\ p.todo = Tail(todo)
  BY <1>2, <1>3, <1>11 DEF CommandState
<1>14. ~p.failed => ~failed /\ ~q.failed
  BY <1>11 DEF CommandState
<1>15. proc' = [proc EXCEPT ![c] = p]
  BY <1>1, <1>2, <1>11
<1>16. CommandsInv'
  <2>1. Knows(p)
    BY <1>1, <1>2, <1>3, <1>5, <1>13 DEF Knows
  <2> QED BY <1>8, <1>12, <1>15, <2>1, KnowsStays, CommandMoves DEF Inv
<1>17. ASSUME Leaves(q)
       PROVE  Leaves(p)'
  <2>1. EdgeAgrees => EdgeAgrees'
    <3>1. ASSUME EdgeAgrees
          PROVE  EdgeAgrees'
      <4>1. PICK e \in ActiveRows :
              \A dom \in DomainNames :
                /\ route[dom] = WorkerOf(row[e].target)
                /\ writes[Serving(dom)].bundle = row[e].bundle
                /\ row[e].target = "hybrid_edge" => active[dom] = e
        BY <3>1 DEF EdgeAgrees
      <4>2. q.seen => d = e
        BY <1>2, <1>3, <1>17, <4>1 DEF Leaves, ActiveRows, Inv, TableInv, OneActive
      <4>3. \A dom \in DomainNames : row[e].target = "hybrid_edge" => active'[dom] = e
        BY <1>3, <1>5, <1>7, <4>1, <4>2 DEF Inv, KeysInv
      <4>4. \A dom \in DomainNames : Serving(dom)' = Serving(dom)
        BY <1>6 DEF Serving
      <4> QED BY <1>6, <4>1, <4>3, <4>4 DEF EdgeAgrees, ActiveRows, WorkerOf
    <3> QED BY <3>1
  <2>2. ASSUME p.target = "hybrid_edge", p.seen, ~p.failed, NEW dom \in DomainNames
        PROVE  \/ active'[dom] = p.deployment
               \/ \E i \in DOMAIN p.todo : p.todo[i] = [domain |-> dom, key |-> "active"]
    <3>1. \/ active[dom] = d
          \/ \E i \in DOMAIN todo : todo[i] = [domain |-> dom, key |-> "active"]
      BY <1>2, <1>3, <1>13, <1>14, <1>17, <2>2 DEF Leaves
    <3>2. CASE active[dom] = d
      BY <1>5, <1>7, <1>13, <3>2 DEF Inv, KeysInv
    <3>3. CASE \E i \in DOMAIN todo : todo[i] = [domain |-> dom, key |-> "active"]
      <4>1. PICK i \in DOMAIN todo : todo[i] = [domain |-> dom, key |-> "active"]
        BY <3>3
      <4>2. CASE i = 1
        <5>1. write = [domain |-> dom, key |-> "active"]
          BY <1>3, <1>4, <4>1, <4>2
        <5>2. write.domain = dom /\ write.key = "active"
          BY <5>1
        <5>3. active' = [active EXCEPT ![dom] = d]
          BY <1>7, <1>14, <2>2, <5>2
        <5>4. DOMAIN active = DomainNames
          BY DEF Inv, KeysInv
        <5> QED BY <1>13, <5>3, <5>4
      <4>3. CASE i # 1
        <5>1. i - 1 \in DOMAIN p.todo /\ p.todo[i - 1] = todo[i]
          BY <1>5, <1>13, <4>3
        <5> QED BY <4>1, <5>1
      <4> QED BY <4>2, <4>3
    <3> QED BY <3>1, <3>2, <3>3
  <2>3. /\ \A e \in Deployments : row[e].pending # "nothing" => AwaitsBuild(p, e) /\ ~row[e].active
        /\ p.op = "promote" /\ p.target # "origin_assisted" => row[p.deployment].active
        /\ p.seen => row[p.deployment].active
        /\ p.op \in Keeping /\ trusted = "yes" => EdgeAgrees
    BY <1>2, <1>13, <1>17 DEF Leaves, AwaitsBuild
  <2> QED BY <1>6, <1>13, <2>1, <2>2, <2>3 DEF Leaves, AwaitsBuild
<1>18. TrustInv'
  BY <1>1, <1>3, <1>12, <1>13, <1>15, <1>17, TrustMoves DEF Inv
<1> QED
  BY <1>8, <1>9, <1>10, <1>16, <1>18 DEF Inv

\* PutKVValue, with its answer or without.
LEMMA PutKVInv ==
  ASSUME Inv, NEW c \in Commands, PutKV(c) \/ PutKVFails(c)
  PROVE  Inv'
<1>1. PICK q \in CommandState : q = proc[c]
  BY CommandFacts
<1>2. CASE PutKV(c)
  <2>1. [[q EXCEPT !.todo = Tail(q.todo)] EXCEPT !.failed = FALSE \/ q.failed]
           = [q EXCEPT !.todo = Tail(q.todo)]
    BY DEF CommandState
  <2>2. proc' = [proc EXCEPT ![c] = [q EXCEPT !.todo = Tail(q.todo)]]
    BY <1>1, <1>2 DEF PutKV
  <2> QED BY <1>1, <1>2, <2>1, <2>2, KeyWritten DEF PutKV
<1>3. CASE PutKVFails(c)
  <2>1. [[q EXCEPT !.todo = Tail(q.todo)] EXCEPT !.failed = TRUE \/ q.failed]
           = [[q EXCEPT !.todo = Tail(q.todo)] EXCEPT !.failed = TRUE]
    OBVIOUS
  <2>2. proc' = [proc EXCEPT ![c] = [[q EXCEPT !.todo = Tail(q.todo)] EXCEPT !.failed = TRUE]]
    BY <1>1, <1>3 DEF PutKVFails, Inv, CommandsInv
  <2> QED BY <1>1, <1>3, <2>1, <2>2, KeyWritten DEF PutKVFails
<1> QED
  BY <1>2, <1>3

-----------------------------------------------------------------------------
(* Uploads and their verification.                                         *)

\* A new version is the one its Worker runs, and all domains go to that Worker.
LEMMA UploadEffect ==
  ASSUME Inv, NEW q \in CommandState, Knows(q), q.pc = "upload", Uploaded(q),
         UNCHANGED tableVars, UNCHANGED historyVars, UNCHANGED kvVars
  PROVE  /\ TableInv' /\ WorkersInv' /\ KeysInv' /\ Grows
         /\ WasUploaded(Len(writes), q.target, q.bundle, q.deployment)'
         /\ Len(writes') = Len(writes) + 1
         /\ live'[WorkerOf(q.target)] = Len(writes')
         /\ \A dom \in DomainNames : route'[dom] = WorkerOf(q.target)
<1>1. /\ q.target \in {"cloudflare_static", "hybrid_edge"} /\ q.bundle \in Bundles
      /\ q.target = "hybrid_edge" => CreatedAs(q.deployment, "hybrid_edge", q.bundle)
  BY DEF Knows
<1>2. PICK write : write = [worker |-> WorkerOf(q.target), bundle |-> q.bundle,
                            headers |-> q.headers, deployment |-> q.deployment]
  OBVIOUS
<1>3. /\ write \in Write /\ write.worker = WorkerOf(q.target) /\ write.bundle = q.bundle
      /\ write.deployment = q.deployment /\ WorkerOf(q.target) \in WorkerNames
      /\ WorkerOf(q.target) = "edge" => q.target = "hybrid_edge"
  BY <1>1, <1>2 DEF Write, CommandState, WorkerOf, WorkerNames
<1>4. /\ writes \in Seq(Write) /\ live \in [WorkerNames -> 0..Len(writes)]
      /\ writes' = Append(writes, write)
      /\ live' = [live EXCEPT ![WorkerOf(q.target)] = Len(writes) + 1]
      /\ route' = [dom \in DomainNames |-> WorkerOf(q.target)]
  BY <1>2 DEF Inv, WorkersInv, Uploaded
<1>5. /\ writes' \in Seq(Write) /\ Len(writes') = Len(writes) + 1 /\ Len(writes) \in Nat
      /\ DOMAIN writes = 1..Len(writes) /\ DOMAIN writes' = 1..(Len(writes) + 1)
      /\ writes'[Len(writes) + 1] = write
      /\ \A v \in DOMAIN writes : writes'[v] = writes[v]
  BY <1>3, <1>4, AppendProperties, LenProperties
<1>6. /\ issued' = issued /\ row' = row /\ wasActive' = wasActive /\ bundleOf' = bundleOf
      /\ active' = active /\ kept' = kept
  BY DEF tableVars, historyVars, kvVars
<1>7. Grows
  BY <1>5, <1>6 DEF Grows, Exists, Inv, TableInv
<1>8. ASSUME NEW d \in Deployments
      PROVE  RowInv(d)'
  <2>1. PICK r : r = row[d]
    OBVIOUS
  <2>2. r.evidence.verified # "none" => WasUploaded(r.evidence.version, r.target, r.bundle, d)'
    BY <1>7, <2>1, UploadedStays DEF Inv, TableInv, RowInv
  <2> QED BY <1>6, <2>1, <2>2 DEF Inv, TableInv, RowInv, Exists
<1>9. TableInv'
  BY <1>6, <1>8 DEF Inv, TableInv, OneActive
<1>10. KeysInv'
  BY <1>7, KeysGrow
<1>11. live' \in [WorkerNames -> 0..Len(writes')] /\ live'[WorkerOf(q.target)] = Len(writes) + 1
  BY <1>3, <1>4, <1>5
<1>12. ASSUME NEW v \in DOMAIN writes', writes'[v].worker = "edge"
       PROVE  CreatedAs(writes[v].deployment, "hybrid_edge", writes[v].bundle)'
  <2>1. CASE v \in DOMAIN writes
    <3>1. PICK d, bundle : d = writes[v].deployment /\ bundle = writes[v].bundle
      OBVIOUS
    <3>2. CreatedAs(d, "hybrid_edge", bundle)
      BY <1>5, <1>12, <2>1, <3>1 DEF Inv, WorkersInv
    <3>3. CreatedAs(d, "hybrid_edge", bundle)'
      BY <1>7, <3>2, CreatedStays DEF Inv
    <3> QED BY <1>5, <2>1, <3>1, <3>3
  <2>2. CASE v = Len(writes) + 1
    <3>1. CreatedAs(q.deployment, "hybrid_edge", q.bundle)
      BY <1>1, <1>3, <1>5, <1>12, <2>2
    <3>2. CreatedAs(q.deployment, "hybrid_edge", q.bundle)'
      BY <1>7, <3>1, CreatedStays DEF Inv
    <3> QED BY <1>3, <1>5, <2>2, <3>2
  <2> QED BY <1>5, <2>1, <2>2
<1>13. /\ route' \in [DomainNames -> WorkerNames \cup {"none"}]
       /\ \A dom \in DomainNames : route'[dom] = WorkerOf(q.target)
  BY <1>3, <1>4
<1>14. WorkersInv'
  BY <1>5, <1>11, <1>12, <1>13 DEF WorkersInv, None
<1>15. WasUploaded(Len(writes), q.target, q.bundle, q.deployment)'
  <2>1. PICK v : v = Len(writes')
    OBVIOUS
  <2> QED BY <1>3, <1>4, <1>5 DEF WasUploaded, WorkerOf
<1> QED
  BY <1>5, <1>7, <1>9, <1>10, <1>11, <1>13, <1>14, <1>15

\* The command goes on to verify what it uploaded, or is publish-cloudflare-static.
LEMMA UploadInv ==
  ASSUME Inv, NEW c \in Commands, Upload(c)
  PROVE  Inv'
<1>1. PICK q \in CommandState : q = proc[c] /\ Knows(q) /\ (q.alone => Leaves(q)) /\ q.pc = "upload"
  BY CommandFacts DEF Upload
<1>2. PICK v : v = Len(writes')
  OBVIOUS
<1>3. /\ TableInv' /\ WorkersInv' /\ KeysInv' /\ Grows
      /\ WasUploaded(v, q.target, q.bundle, q.deployment)' /\ v \in Nat
      /\ live'[WorkerOf(q.target)] = v
      /\ \A dom \in DomainNames : route'[dom] = WorkerOf(q.target)
  <2>1. /\ TableInv' /\ WorkersInv' /\ KeysInv' /\ Grows
        /\ WasUploaded(Len(writes), q.target, q.bundle, q.deployment)'
        /\ Len(writes') = Len(writes) + 1
        /\ live'[WorkerOf(q.target)] = Len(writes')
        /\ \A dom \in DomainNames : route'[dom] = WorkerOf(q.target)
    BY <1>1, UploadEffect DEF Upload
  <2>2. Len(writes) \in Nat
    BY LenProperties DEF Inv, WorkersInv
  <2> QED BY <1>2, <2>1, <2>2
<1>4. /\ row' = row /\ active' = active /\ wasActive' = wasActive
  BY DEF Upload, kvVars, tableVars, historyVars
<1>5. CASE EndDoubted(c)
  <2>1. CommandsInv'
    <3>1. Knows(Idle)'
      BY IdleKnows, KnowsStays, <1>3 DEF Inv
    <3>2. PICK p \in CommandState : p = Idle
      BY IdleState
    <3> QED BY <1>3, <1>5, <3>1, <3>2, CommandMoves DEF Inv, EndDoubted, End
  <2>2. TrustInv'
    BY <1>1, <1>5, DoubtEnds DEF Inv
  <2> QED BY <1>3, <2>1, <2>2 DEF Inv
<1>6. CASE /\ trusted' = trusted
           /\ proc' = [proc EXCEPT ![c].pc = "verify", ![c].version = Len(writes')]
  <2>1. PICK p : p = [[q EXCEPT !.pc = "verify"] EXCEPT !.version = v]
    OBVIOUS
  <2>2. p \in CommandState
    BY <1>3, <2>1 DEF CommandState
  <2>3. /\ p.pc = "verify" /\ p.op = q.op /\ p.target = q.target /\ p.deployment = q.deployment
        /\ p.bundle = q.bundle /\ p.rollbackOf = q.rollbackOf /\ p.promote = q.promote
        /\ p.alone = q.alone /\ p.seen = q.seen /\ p.version = v
    BY <2>1 DEF CommandState
  <2>4. proc' = [proc EXCEPT ![c] = p]
    BY <1>1, <1>2, <1>6, <2>1 DEF Inv, CommandsInv
  <2>5. Knows(p)'
    <3>1. Knows(q)'
      BY <1>1, <1>3, KnowsStays DEF Inv
    <3> QED BY <1>1, <1>3, <2>3, <3>1 DEF Knows
  <2>6. ASSUME Leaves(q)
        PROVE  Leaves(p)'
    <3>1. q.op \notin Keeping
      BY <1>1 DEF Knows
    <3> QED BY <1>1, <1>3, <1>4, <2>3, <2>6, <3>1 DEF Leaves, AwaitsBuild, WorkerOf
  <2>7. CommandsInv'
    BY <1>3, <2>2, <2>4, <2>5, CommandMoves DEF Inv
  <2>8. TrustInv'
    BY <1>1, <1>6, <2>2, <2>3, <2>4, <2>6, TrustMoves DEF Inv
  <2> QED BY <1>3, <2>7, <2>8 DEF Inv
<1> QED
  BY <1>5, <1>6 DEF Upload

\* Wrangler fails, with or without effect.
LEMMA UploadFailsInv ==
  ASSUME Inv, NEW c \in Commands, UploadFails(c)
  PROVE  Inv'
<1>1. PICK q \in CommandState : q = proc[c] /\ Knows(q) /\ q.pc = "upload"
  BY CommandFacts DEF UploadFails
<1>2. TableInv' /\ WorkersInv' /\ KeysInv' /\ Grows
  <2>1. CASE Uploaded(q)
    BY <1>1, <2>1, UploadEffect DEF UploadFails
  <2>2. CASE UNCHANGED edgeVars
    <3>1. RestUnchanged
      BY <2>2, OnlyCommands DEF UploadFails
    <3> QED BY <3>1, RestStays
  <2> QED BY <1>1, <2>1, <2>2 DEF UploadFails
<1>3. EndDoubted(c)
  BY DEF UploadFails
<1>4. CommandsInv'
  <2>1. Knows(Idle)'
    BY IdleKnows, KnowsStays, <1>2 DEF Inv
  <2>2. PICK p \in CommandState : p = Idle
    BY IdleState
  <2> QED BY <1>2, <1>3, <2>1, <2>2, CommandMoves DEF Inv, EndDoubted, End
<1>5. TrustInv'
  BY <1>1, <1>3, DoubtEnds DEF Inv
<1> QED
  BY <1>2, <1>4, <1>5 DEF Inv

\* A verdict is one of four.
LEMMA VerdictKinds ==
  ASSUME NEW target, NEW headers, NEW verdict \in Verdicts(target, headers)
  PROVE  verdict \in {"skipped", "warning", "ok", "failed"}
BY DEF Verdicts

\* verifyCloudflareStaticPublish.
LEMMA VerifyInv ==
  ASSUME Inv, NEW c \in Commands, Verify(c)
  PROVE  Inv'
<1>1. RestUnchanged /\ proc[c].pc = "verify"
  BY OnlyCommands DEF Verify
<1>2. PICK q \in CommandState : q = proc[c] /\ Knows(q) /\ (q.alone => Leaves(q))
  BY <1>1, CommandFacts
<1>3. PICK verdict : /\ verdict \in Verdicts(q.target, q.headers)
                     /\ IF verdict = "failed"
                          THEN EndDoubted(c)
                          ELSE /\ proc' = [proc EXCEPT ![c].pc = "record", ![c].verified = verdict]
                               /\ trusted' = trusted
  BY <1>2 DEF Verify
<1>4. CASE verdict = "failed"
  BY <1>1, <1>3, <1>4, EndsOnly
<1>5. CASE verdict # "failed"
  <2>1. verdict \in Verifications
    BY <1>3, <1>5, VerdictKinds DEF Verifications
  <2>2. PICK p : p = [[q EXCEPT !.pc = "record"] EXCEPT !.verified = verdict]
    OBVIOUS
  <2>3. p \in CommandState
    BY <2>1, <2>2 DEF CommandState
  <2>4. /\ p.pc = "record" /\ p.op = q.op /\ p.target = q.target /\ p.deployment = q.deployment
        /\ p.bundle = q.bundle /\ p.rollbackOf = q.rollbackOf /\ p.promote = q.promote
        /\ p.alone = q.alone /\ p.seen = q.seen /\ p.version = q.version
    BY <2>2 DEF CommandState
  <2>5. proc' = [proc EXCEPT ![c] = p] /\ trusted' = trusted
    BY <1>2, <1>3, <1>5, <2>2 DEF Inv, CommandsInv
  <2>6. Knows(p)
    BY <1>1, <1>2, <2>4 DEF Knows, Keeping
  <2>7. ASSUME Leaves(q)
        PROVE  Leaves(p)
    BY <1>1, <1>2, <2>4, <2>7 DEF Leaves, AwaitsBuild
  <2> QED BY <1>1, <1>2, <2>3, <2>4, <2>5, <2>6, <2>7, MovesOnly
<1> QED
  BY <1>4, <1>5

-----------------------------------------------------------------------------
(* Changes of rows.                                                        *)

\* A row is as it was, or gone, or of the same deployment for the same target and
\* with its evidence, or with evidence that is well founded.
RowKept(d) ==
  \/ row'[d] = NoRow
  \/ row'[d] = row[d]
  \/ /\ Exists(d) /\ row'[d].status # "none"
     /\ row'[d].target = row[d].target /\ row'[d].bundle = row[d].bundle
     /\ row'[d].active => d \in wasActive'
     /\ row'[d].evidence.verified # "none" =>
          WasUploaded(row'[d].evidence.version, row[d].target, row[d].bundle, d)
     /\ row'[d].evidence.rollbackOf # None =>
          /\ row'[d].evidence.rollbackOf \in 1..issued
          /\ row[d].bundle = bundleOf[row'[d].evidence.rollbackOf]

\* Such rows are rows.
LEMMA RowsUpdate ==
  ASSUME Inv, row' \in [Deployments -> Row], \A d \in Deployments : RowKept(d), OneActive',
         issued' = issued, bundleOf' = bundleOf, writes' = writes,
         wasActive \subseteq wasActive', wasActive' \subseteq 1..issued
  PROVE  TableInv' /\ Grows
<1>1. issued \in 0..MaxDeployments /\ \A d \in 1..issued : d \in Deployments
  BY InputsAssumption DEF Inv, TableInv, Deployments
<1>2. ASSUME NEW d \in Deployments
      PROVE  row'[d].status # "none" => Exists(d) /\ row'[d].target = row[d].target
  BY <1>2 DEF RowKept, Exists, NoRow
<1>3. Grows
  BY <1>1, <1>2 DEF Grows
<1>4. ASSUME NEW d \in Deployments
      PROVE  RowInv(d)'
  <2>1. CASE row'[d] = NoRow
    BY <2>1 DEF RowInv, Exists, NoRow, NoEvidence, None
  <2>2. CASE row'[d] = row[d]
    <3>1. PICK r : r = row[d]
      OBVIOUS
    <3>2. RowInv(d)
      BY DEF Inv, TableInv
    <3>3. r.evidence.verified # "none" => WasUploaded(r.evidence.version, r.target, r.bundle, d)'
      BY <1>3, <3>1, <3>2, UploadedStays DEF RowInv
    <3> QED BY <2>2, <3>1, <3>2, <3>3 DEF RowInv, Exists
  <2>3. CASE /\ Exists(d) /\ row'[d].status # "none"
             /\ row'[d].target = row[d].target /\ row'[d].bundle = row[d].bundle
             /\ row'[d].active => d \in wasActive'
             /\ row'[d].evidence.verified # "none" =>
                  WasUploaded(row'[d].evidence.version, row[d].target, row[d].bundle, d)
             /\ row'[d].evidence.rollbackOf # None =>
                  /\ row'[d].evidence.rollbackOf \in 1..issued
                  /\ row[d].bundle = bundleOf[row'[d].evidence.rollbackOf]
    <3>1. PICK r : r = row'[d]
      OBVIOUS
    <3>2. RowInv(d) /\ issued \in Nat
      BY DEF Inv, TableInv
    <3>3. d <= issued /\ r.bundle = bundleOf[d] /\ r.target # "none"
      BY <1>1, <2>3, <3>1, <3>2 DEF RowInv, NoRow, Exists, Deployments
    <3>4. r.evidence.verified # "none" => WasUploaded(r.evidence.version, r.target, r.bundle, d)
      BY <2>3, <3>1
    <3>5. r.evidence.verified # "none" => WasUploaded(r.evidence.version, r.target, r.bundle, d)'
      BY <1>3, <3>4, UploadedStays
    <3> QED BY <1>1, <2>3, <3>1, <3>3, <3>5 DEF RowInv, Exists, Deployments
  <2> QED BY <2>1, <2>2, <2>3 DEF RowKept
<1>5. TableInv'
  BY <1>1, <1>4 DEF Inv, TableInv
<1> QED
  BY <1>3, <1>5

\* What a row says of its evidence.
LEMMA RowFacts ==
  ASSUME Inv, NEW d \in Deployments
  PROVE  /\ row[d] \in Row /\ RowInv(d)
         /\ Exists(d) => d \in 1..issued
         /\ d \in 1..MaxDeployments /\ d \in 0..MaxDeployments /\ issued \in Nat
BY InputsAssumption DEF Inv, TableInv, RowInv, NoRow, Exists, Deployments

\* ActivateSiteDeployment: the deployment is the active one, and nothing else of any
\* row changes but the status, and where the deployment is published.
LEMMA ActivatedRows ==
  ASSUME Inv, NEW d \in Deployments, Exists(d)
  PROVE  /\ Activated(d) \in [Deployments -> Row]
         /\ \A e \in Deployments :
              /\ Activated(d)[e].active <=> e = d
              /\ Activated(d)[e].status # "none" <=> Exists(e)
              /\ Activated(d)[e].target = row[e].target
              /\ Activated(d)[e].bundle = row[e].bundle
              /\ Activated(d)[e].evidence = row[e].evidence
              /\ Activated(d)[e].pending = row[e].pending
<1>1. ASSUME NEW e \in Deployments
      PROVE  /\ Activated(d)[e] \in Row
             /\ Activated(d)[e].active <=> e = d
             /\ Activated(d)[e].status # "none" <=> Exists(e)
             /\ Activated(d)[e].target = row[e].target
             /\ Activated(d)[e].bundle = row[e].bundle
             /\ Activated(d)[e].evidence = row[e].evidence
             /\ Activated(d)[e].pending = row[e].pending
  <2>1. PICK r \in Row : r = row[e]
    BY RowFacts
  <2>2. ~r.active \/ Exists(e)
    BY <2>1, RowFacts DEF RowInv, NoRow
  <2>3. CASE e = d
    <3>1. PICK a : a = [[[r EXCEPT !.environment = "production"] EXCEPT !.active = TRUE]
                          EXCEPT !.status = "active"]
      OBVIOUS
    <3>2. Activated(d)[e] = a
      BY <2>1, <2>3, <3>1 DEF Activated
    <3>3. /\ a \in Row /\ a.active /\ a.status = "active" /\ a.target = r.target
          /\ a.bundle = r.bundle /\ a.evidence = r.evidence /\ a.pending = r.pending
      BY <3>1 DEF Row, Environments
    <3> QED BY <2>1, <2>3, <3>2, <3>3
  <2>4. CASE e # d /\ r.active
    <3>1. PICK a : a = [[r EXCEPT !.active = FALSE] EXCEPT !.status = "ready"]
      OBVIOUS
    <3>2. Activated(d)[e] = a
      BY <2>1, <2>4, <3>1 DEF Activated
    <3>3. /\ a \in Row /\ ~a.active /\ a.status = "ready" /\ a.target = r.target
          /\ a.bundle = r.bundle /\ a.evidence = r.evidence /\ a.pending = r.pending
      BY <3>1 DEF Row
    <3> QED BY <2>1, <2>2, <2>4, <3>2, <3>3
  <2>5. CASE e # d /\ ~r.active
    <3>1. Activated(d)[e] = r
      BY <2>1, <2>5 DEF Activated
    <3> QED BY <2>1, <2>5, <3>1 DEF Exists
  <2> QED BY <2>3, <2>4, <2>5
<1>2. Activated(d) = [e \in Deployments |-> Activated(d)[e]]
  BY DEF Activated
<1>3. Activated(d) \in [Deployments -> Row]
  BY <1>1, <1>2
<1> QED
  BY <1>1, <1>3

\* Activation by the job or by a command.
LEMMA ActivateEffect ==
  ASSUME Inv, NEW d \in Deployments, Exists(d),
         \/ row' = Activated(d)
         \/ row' = [Activated(d) EXCEPT ![d].pending = "nothing"],
         wasActive' = wasActive \cup {d},
         issued' = issued, bundleOf' = bundleOf, writes' = writes
  PROVE  /\ TableInv' /\ Grows
         /\ \A e \in Deployments :
              /\ row'[e].active <=> e = d
              /\ row'[e].target = row[e].target /\ row'[e].bundle = row[e].bundle
              /\ row'[e].pending # "nothing" => row[e].pending # "nothing"
         /\ row' = [Activated(d) EXCEPT ![d].pending = "nothing"] => row'[d].pending = "nothing"
<1>1. PICK rows : rows = Activated(d)
  OBVIOUS
<1>2. /\ rows \in [Deployments -> Row]
      /\ \A e \in Deployments :
           /\ rows[e].active <=> e = d
           /\ rows[e].status # "none" <=> Exists(e)
           /\ rows[e].target = row[e].target
           /\ rows[e].bundle = row[e].bundle
           /\ rows[e].evidence = row[e].evidence
           /\ rows[e].pending = row[e].pending
  BY <1>1, ActivatedRows
<1>3. PICK a : a = [rows[d] EXCEPT !.pending = "nothing"]
  OBVIOUS
<1>4. /\ a \in Row /\ a.active = rows[d].active /\ a.status = rows[d].status
      /\ a.target = rows[d].target /\ a.bundle = rows[d].bundle
      /\ a.evidence = rows[d].evidence /\ a.pending = "nothing"
  BY <1>2, <1>3 DEF Row
<1>5. \/ row' = rows
      \/ row' = [rows EXCEPT ![d] = a]
  BY <1>1, <1>3
<1>6. /\ row' \in [Deployments -> Row]
      /\ \A e \in Deployments :
           /\ row'[e].active <=> e = d
           /\ row'[e].status # "none" <=> Exists(e)
           /\ row'[e].target = row[e].target
           /\ row'[e].bundle = row[e].bundle
           /\ row'[e].evidence = row[e].evidence
           /\ row'[e].pending # "nothing" => row[e].pending # "nothing"
  BY <1>2, <1>4, <1>5
<1>7. row' = [Activated(d) EXCEPT ![d].pending = "nothing"] => row'[d].pending = "nothing"
  BY <1>1, <1>2, <1>3, <1>4
<1>8. d \in 1..issued
  BY RowFacts
<1>9. ASSUME NEW e \in Deployments
      PROVE  RowKept(e)
  <2>1. CASE Exists(e)
    <3>1. PICK r : r = row'[e]
      OBVIOUS
    <3>2. /\ r.active => e = d
          /\ r.status # "none" /\ r.target = row[e].target
          /\ r.bundle = row[e].bundle /\ r.evidence = row[e].evidence
      BY <1>6, <2>1, <3>1
    <3>3. r.active => e \in wasActive'
      BY <3>2
    <3>4. RowInv(e)
      BY RowFacts
    <3>5. r.evidence.verified # "none" =>
            WasUploaded(r.evidence.version, row[e].target, row[e].bundle, e)
      BY <3>2, <3>4 DEF RowInv
    <3>6. r.evidence.rollbackOf # None =>
            /\ r.evidence.rollbackOf \in 1..issued
            /\ row[e].bundle = bundleOf[r.evidence.rollbackOf]
      BY <3>2, <3>4 DEF RowInv
    <3> QED BY <2>1, <3>1, <3>2, <3>3, <3>5, <3>6 DEF RowKept
  <2>2. CASE ~Exists(e)
    <3>1. row[e] = NoRow /\ e # d /\ ~row[e].active
      <4>1. row[e] = NoRow
        BY <2>2, RowFacts DEF RowInv
      <4>2. ~NoRow.active
        BY DEF NoRow
      <4> QED BY <2>2, <4>1, <4>2
    <3>2. rows[e] = NoRow
      BY <1>1, <3>1 DEF Activated
    <3> QED BY <1>2, <1>5, <3>1, <3>2 DEF RowKept
  <2> QED BY <2>1, <2>2
<1>10. OneActive'
  BY <1>6 DEF OneActive
<1>11. wasActive' \subseteq 1..issued
  BY <1>8 DEF Inv, TableInv
<1>12. TableInv' /\ Grows
  BY <1>6, <1>9, <1>10, <1>11, RowsUpdate
<1> QED
  BY <1>6, <1>7, <1>12

-----------------------------------------------------------------------------
(* The server's job.                                                       *)

\* A job works for a command that waits for it, or for none that is trusted.
LEMMA TrustBuilds ==
  ASSUME Inv, NEW d \in Deployments, row[d].pending # "nothing", proc' = proc,
         trusted' = trusted, UNCHANGED edgeVars, UNCHANGED kvVars,
         \A e \in Deployments : row'[e].pending # "nothing" =>
            /\ row[e].pending # "nothing"
            /\ row[e].active = row'[e].active \/ e # d
            /\ row'[e].active => row[e].active
  PROVE  TrustInv'
<1>1. writes' = writes /\ live' = live /\ route' = route /\ active' = active
  BY DEF edgeVars, kvVars
<1>2. Building
  BY DEF Building
<1>3. ASSUME NEW p, Leaves(p)
      PROVE  Leaves(p)'
  <2>1. AwaitsBuild(p, d)
    BY <1>3 DEF Leaves
  <2>2. p.op \notin Keeping /\ ~p.seen
    BY <2>1 DEF AwaitsBuild
  <2>3. \A e \in Deployments : row'[e].pending # "nothing" => AwaitsBuild(p, e) /\ ~row'[e].active
    BY <1>3 DEF Leaves
  <2> QED BY <1>1, <1>3, <2>2, <2>3 DEF Leaves, AwaitsBuild, Keeping, WorkerOf
<1> QED
  BY <1>2, <1>3, TrustStays DEF Inv

\* What the job leaves alone.
LEMMA ServerRest ==
  ASSUME Inv, TableInv', Grows, proc' = proc, UNCHANGED edgeVars, UNCHANGED kvVars, TrustInv'
  PROVE  Inv'
<1>1. WorkersInv' /\ KeysInv'
  BY WorkersGrow, KeysGrow
<1>2. ASSUME NEW c \in Commands
      PROVE  Knows(proc[c])'
  <2>1. PICK p : p = proc[c]
    OBVIOUS
  <2>2. Knows(p)'
    BY <2>1, KnowsStays DEF Inv, CommandsInv
  <2> QED BY <2>1, <2>2
<1> QED
  BY <1>1, <1>2 DEF Inv, CommandsInv

\* A build ends, well or not.
LEMMA BuildInv ==
  ASSUME Inv, NEW d \in Deployments, Build(d) \/ BuildFails(d)
  PROVE  Inv'
<1>1. /\ row[d].status = "queued" /\ row[d].pending # "nothing"
      /\ proc' = proc /\ trusted' = trusted /\ UNCHANGED edgeVars /\ UNCHANGED kvVars
      /\ issued' = issued /\ bundleOf' = bundleOf /\ wasActive' = wasActive /\ writes' = writes
  BY DEF Build, BuildFails, edgeVars, tableVars, historyVars
<1>2. PICK r \in Row : r = row[d]
  BY RowFacts
<1>3. PICK status \in {"ready", "failed"}, pending \in {"promote", "nothing"} :
        row' = [row EXCEPT ![d] = [[r EXCEPT !.status = status] EXCEPT !.pending = pending]]
  <2>1. row \in [Deployments -> Row]
    BY DEF Inv, TableInv
  <2>2. CASE Build(d)
    <3>1. PICK pending \in {"promote", "nothing"} :
            row' = [row EXCEPT ![d].status = "ready", ![d].pending = pending]
      BY <1>2, <2>2 DEF Build
    <3> QED BY <1>2, <2>1, <3>1
  <2>3. CASE BuildFails(d)
    <3>1. row' = [row EXCEPT ![d].status = "failed", ![d].pending = "nothing"]
      BY <2>3 DEF BuildFails
    <3> QED BY <1>2, <2>1, <3>1
  <2> QED BY <2>2, <2>3
<1>4. PICK a : a = [[r EXCEPT !.status = status] EXCEPT !.pending = pending]
  OBVIOUS
<1>5. /\ a \in Row /\ a.active = r.active /\ a.status = status
      /\ a.target = r.target /\ a.bundle = r.bundle
      /\ a.evidence = r.evidence /\ a.pending = pending
  BY <1>4 DEF Row
<1>6. /\ row' \in [Deployments -> Row] /\ row'[d] = a
      /\ \A e \in Deployments : e # d => row'[e] = row[e]
      /\ \A e \in Deployments : row'[e].active = row[e].active
  BY <1>2, <1>3, <1>4, <1>5 DEF Inv, TableInv
<1>7. RowKept(d)
  BY <1>1, <1>2, <1>5, <1>6, RowFacts DEF RowKept, RowInv, Exists
<1>8. \A e \in Deployments : RowKept(e)
  BY <1>6, <1>7 DEF RowKept
<1>9. OneActive'
  BY <1>6 DEF OneActive, Inv, TableInv
<1>10. TableInv' /\ Grows
  BY <1>1, <1>6, <1>8, <1>9, RowsUpdate DEF Inv, TableInv
<1>11. TrustInv'
  BY <1>1, <1>6, TrustBuilds
<1> QED
  BY <1>1, <1>10, <1>11, ServerRest

\* The job activates what it built.
LEMMA PromoteBuiltInv ==
  ASSUME Inv, NEW d \in Deployments, PromoteBuilt(d)
  PROVE  Inv'
<1>1. /\ row[d].pending # "nothing" /\ row' = [Activated(d) EXCEPT ![d].pending = "nothing"]
      /\ wasActive' = wasActive \cup {d}
      /\ proc' = proc /\ trusted' = trusted /\ UNCHANGED edgeVars /\ UNCHANGED kvVars
      /\ issued' = issued /\ bundleOf' = bundleOf /\ writes' = writes
  BY DEF PromoteBuilt, edgeVars
<1>2. Exists(d)
  BY <1>1, RowFacts DEF RowInv, NoRow
<1>3. /\ TableInv' /\ Grows
      /\ \A e \in Deployments :
           /\ row'[e].active <=> e = d
           /\ row'[e].pending # "nothing" => row[e].pending # "nothing"
      /\ row'[d].pending = "nothing"
  BY <1>1, <1>2, ActivateEffect
<1>4. TrustInv'
  BY <1>1, <1>3, TrustBuilds
<1> QED
  BY <1>1, <1>3, <1>4, ServerRest

-----------------------------------------------------------------------------
(* Records and activations by commands.                                    *)

\* A command ends, and rows have changed: it is forgotten, and nobody else is trusted
\* with more than what it leaves behind.
LEMMA EndRest ==
  ASSUME Inv, NEW c \in Commands, TableInv', Grows, End(c), UNCHANGED edgeVars,
         UNCHANGED kvVars, TrustInv'
  PROVE  Inv'
<1>1. WorkersInv' /\ KeysInv'
  BY WorkersGrow, KeysGrow
<1>2. Knows(Idle)'
  BY IdleKnows, KnowsStays DEF Inv
<1>3. PICK p \in CommandState : p = Idle
  BY IdleState
<1>4. CommandsInv'
  BY <1>2, <1>3, CommandMoves DEF Inv, End
<1> QED
  BY <1>1, <1>4 DEF Inv

\* Agreement is about the active row, its target and its bundle.
LEMMA AgreementOfRows ==
  ASSUME EdgeAgrees, UNCHANGED edgeVars, UNCHANGED kvVars,
         \A d \in Deployments : row[d].active =>
           row'[d].active /\ row'[d].target = row[d].target /\ row'[d].bundle = row[d].bundle
  PROVE  EdgeAgrees'
<1>1. writes' = writes /\ live' = live /\ route' = route /\ active' = active
  BY DEF edgeVars, kvVars
<1>2. PICK d \in ActiveRows : \A dom \in DomainNames :
        /\ route[dom] = WorkerOf(row[d].target)
        /\ writes[Serving(dom)].bundle = row[d].bundle
        /\ row[d].target = "hybrid_edge" => active[dom] = d
  BY DEF EdgeAgrees
<1>3. d \in Deployments /\ row[d].active
  BY DEF ActiveRows
<1>4. d \in ActiveRows' /\ row'[d].target = row[d].target /\ row'[d].bundle = row[d].bundle
  BY <1>3 DEF ActiveRows
<1>5. ASSUME NEW dom \in DomainNames
      PROVE  Serving(dom)' = Serving(dom)
  BY <1>1 DEF Serving
<1> QED
  BY <1>1, <1>2, <1>4, <1>5 DEF EdgeAgrees, WorkerOf

\* A recorded deployment is new and not yet active.
LEMMA RecordInv ==
  ASSUME Inv, NEW c \in Commands, Record(c)
  PROVE  Inv'
<1>1. PICK q \in CommandState :
        /\ q = proc[c] /\ Knows(q) /\ (q.alone => Leaves(q))
        /\ q.pc = "record" /\ q.target = "cloudflare_static"
  BY CommandFacts DEF Record
<1>2. PICK n : n = issued + 1
  OBVIOUS
<1>3. /\ Create(StaticRow(q)) /\ wasActive' = wasActive
      /\ UNCHANGED edgeVars /\ UNCHANGED kvVars
      /\ writes' = writes /\ live' = live /\ route' = route /\ active' = active
  BY <1>1 DEF Record, edgeVars, kvVars
<1>4. PICK r : r = StaticRow(q)
  OBVIOUS
<1>5. /\ r \in Row /\ r.status = "ready" /\ r.target = "cloudflare_static" /\ ~r.active
      /\ r.bundle = q.bundle /\ r.pending = "nothing" /\ r.evidence = EvidenceOf(q)
  <2>1. PICK ev \in Evidence : ev = EvidenceOf(q)
    BY DEF EvidenceOf, Evidence, CommandState
  <2>2. r = [status |-> "ready", target |-> "cloudflare_static", environment |-> q.environment,
             active |-> FALSE, pending |-> "nothing", bundle |-> q.bundle, evidence |-> ev]
    BY <1>4, <2>1 DEF StaticRow, NoRow
  <2>3. q.environment \in Environments /\ q.bundle \in Bundles \cup {NoBundle}
    BY DEF CommandState
  <2> QED BY <2>1, <2>2, <2>3 DEF Row, Targets
<1>6. /\ WasUploaded(q.version, "cloudflare_static", q.bundle, n)
      /\ q.rollbackOf # None => q.rollbackOf \in 1..issued /\ q.bundle = bundleOf[q.rollbackOf]
  BY <1>1 DEF Knows, WasUploaded
<1>7. /\ TableInv' /\ Grows
      /\ n \in Deployments /\ n = issued' /\ row'[n] = r /\ ~row[n].active
      /\ \A d \in Deployments : d # n => row'[d] = row[d]
      /\ CreatedAs(n, "cloudflare_static", q.bundle)'
  <2>1. r.evidence.version = q.version /\ r.evidence.rollbackOf = q.rollbackOf
    BY <1>5 DEF EvidenceOf
  <2> QED BY <1>2, <1>3, <1>4, <1>5, <1>6, <2>1, CreateEffect
<1>8. /\ EdgeAgrees => EdgeAgrees'
      /\ \A d \in Deployments : row'[d].pending # "nothing" =>
           row[d].pending # "nothing" /\ row'[d].active = row[d].active
      /\ ~Building => ~Building'
  <2>1. \A d \in Deployments : row[d].active =>
          row'[d].active /\ row'[d].target = row[d].target /\ row'[d].bundle = row[d].bundle
    BY <1>7
  <2>2. \A d \in Deployments : row'[d].pending # "nothing" =>
          row[d].pending # "nothing" /\ row'[d].active = row[d].active
    BY <1>5, <1>7
  <2> QED BY <1>3, <2>1, <2>2, AgreementOfRows DEF Building
<1>9. CASE q.promote
  <2>1. proc' = [proc EXCEPT ![c].pc = "activate", ![c].deployment = n] /\ trusted' = trusted
    BY <1>1, <1>2, <1>9 DEF Record, NewDeployment
  <2>2. PICK p : p = [[q EXCEPT !.pc = "activate"] EXCEPT !.deployment = n]
    OBVIOUS
  <2>3. p \in CommandState
    <3>1. n \in 0..MaxDeployments
      BY <1>7, InputsAssumption DEF Deployments
    <3> QED BY <2>2, <3>1 DEF CommandState
  <2>4. /\ p.pc = "activate" /\ p.op = q.op /\ p.target = q.target /\ p.deployment = n
        /\ p.bundle = q.bundle /\ p.rollbackOf = q.rollbackOf /\ p.promote = q.promote
        /\ p.alone = q.alone /\ p.seen = q.seen /\ p.version = q.version
    BY <2>2 DEF CommandState
  <2>5. proc' = [proc EXCEPT ![c] = p]
    BY <1>1, <2>1, <2>2 DEF Inv, CommandsInv
  <2>6. Knows(p)'
    <3>1. Knows(q)'
      BY <1>1, <1>7, KnowsStays DEF Inv
    <3>2. WasUploaded(q.version, "cloudflare_static", q.bundle, n)'
      BY <1>6, <1>7, UploadedStays
    <3>3. n \in 1..issued'
      BY <1>7 DEF CreatedAs
    <3>4. q.bundle \in Bundles
      BY <1>1 DEF Knows
    <3>5. q.op \notin Keeping
      BY <1>1, <1>9 DEF Knows, Keeping, Recovering
    <3> QED BY <1>1, <1>7, <2>4, <3>1, <3>2, <3>3, <3>4, <3>5 DEF Knows
  <2>7. ASSUME Leaves(q)
        PROVE  Leaves(p)'
    <3>1. q.op \notin Recovering
      BY <1>1, <1>9 DEF Knows
    <3>2. ~q.seen /\ q.op \notin Keeping
      BY <1>1, <3>1 DEF Knows, Keeping, Recovering
    <3>3. \A d \in Deployments : row[d].pending = "nothing"
      BY <1>1, <2>7 DEF Leaves, AwaitsBuild
    <3>4. \A d \in Deployments : row'[d].pending = "nothing"
      BY <1>8, <3>3
    <3>5. /\ live'[WorkerOf(q.target)] = q.version
          /\ \A dom \in DomainNames : route'[dom] = WorkerOf(q.target)
      BY <1>1, <1>3, <2>7, <3>1 DEF Leaves
    <3>6. p.op \notin Keeping /\ p.op # "promote" /\ ~p.seen
      BY <2>4, <3>2 DEF Keeping
    <3> QED BY <2>4, <3>4, <3>5, <3>6 DEF Leaves, WorkerOf
  <2>8. CommandsInv'
    BY <1>7, <2>3, <2>5, <2>6, CommandMoves DEF Inv
  <2>9. TrustInv'
    BY <1>1, <2>1, <2>3, <2>4, <2>5, <2>7, TrustMoves DEF Inv
  <2>10. WorkersInv' /\ KeysInv'
    BY <1>3, <1>7, WorkersGrow, KeysGrow
  <2> QED BY <1>7, <2>8, <2>9, <2>10 DEF Inv
<1>10. CASE ~q.promote
  <2>1. EndDoubted(c) \/ (EndKeeping(c) /\ q.op \in Keeping)
    BY <1>1, <1>10 DEF Record, Keeping
  <2>2. End(c)
    BY <2>1 DEF EndDoubted, EndKeeping
  <2>3. TrustInv'
    BY <1>1, <1>8, <2>1, DoubtEnds, KeepEnds DEF Inv
  <2> QED BY <1>3, <1>7, <2>2, <2>3, EndRest
<1> QED
  BY <1>9, <1>10

\* What is published and recorded for the active row agrees with it.
LEMMA PublishedAgrees ==
  ASSUME NEW d \in Deployments, NEW target, NEW bundle, NEW v,
         UNCHANGED edgeVars, UNCHANGED kvVars, d \in ActiveRows',
         row'[d].target = target, row'[d].bundle = bundle,
         WasUploaded(v, target, bundle, d), live[WorkerOf(target)] = v,
         \A dom \in DomainNames : route[dom] = WorkerOf(target),
         target = "hybrid_edge" => \A dom \in DomainNames : active[dom] = d
  PROVE  EdgeAgrees'
<1>1. writes' = writes /\ live' = live /\ route' = route /\ active' = active
  BY DEF edgeVars, kvVars
<1>3. ASSUME NEW dom \in DomainNames
      PROVE  /\ route'[dom] = WorkerOf(row'[d].target)
             /\ writes'[Serving(dom)'].bundle = row'[d].bundle
             /\ row'[d].target = "hybrid_edge" => active'[dom] = d
  <2>1. route[dom] = WorkerOf(target) /\ WorkerOf(target) # "none"
    BY DEF WorkerOf
  <2>2. Serving(dom)' = v
    BY <1>1, <2>1 DEF Serving
  <2>3. writes[v].bundle = row'[d].bundle
    BY DEF WasUploaded
  <2> QED BY <1>1, <2>1, <2>2, <2>3
<1> QED
  BY <1>3 DEF EdgeAgrees, WorkerOf

\* Evidence changes nothing else of a row.
LEMMA EvidenceEffect ==
  ASSUME Inv, NEW c \in Commands, RecordEvidence(c)
  PROVE  /\ TableInv' /\ Grows
         /\ \A d \in Deployments :
              /\ row'[d].active = row[d].active /\ row'[d].target = row[d].target
              /\ row'[d].bundle = row[d].bundle /\ row'[d].pending = row[d].pending
<1>1. PICK q \in CommandState :
        q = proc[c] /\ Knows(q) /\ q.pc = "record" /\ q.target = "hybrid_edge"
  BY CommandFacts DEF RecordEvidence
<1>2. /\ issued' = issued /\ bundleOf' = bundleOf /\ wasActive' = wasActive /\ writes' = writes
  BY DEF RecordEvidence, edgeVars, historyVars
<1>3. CASE row' = row
  BY <1>2, <1>3, SameGrows DEF Inv, TableInv, RowInv, Exists, WasUploaded, OneActive
<1>4. CASE row' # row
  <2>1. PICK d : d = q.deployment
    OBVIOUS
  <2>2. /\ Activatable(d) /\ row' = [row EXCEPT ![d].evidence = Merged(@, EvidenceOf(q))]
    BY <1>1, <1>4, <2>1 DEF RecordEvidence
  <2>3. /\ d \in 1..issued /\ d \in Deployments /\ q.bundle = bundleOf[d]
        /\ Exists(d) /\ row[d].target = "hybrid_edge"
        /\ WasUploaded(q.version, "hybrid_edge", q.bundle, d)
        /\ q.rollbackOf # None => q.rollbackOf \in 1..issued /\ q.bundle = bundleOf[q.rollbackOf]
    <3>1. /\ CreatedAs(d, "hybrid_edge", q.bundle)
          /\ WasUploaded(q.version, "hybrid_edge", q.bundle, d)
          /\ q.rollbackOf # None => q.rollbackOf \in 1..issued /\ q.bundle = bundleOf[q.rollbackOf]
      BY <1>1, <2>1 DEF Knows
    <3>2. d \in 1..issued /\ issued \in 0..MaxDeployments
      BY <3>1 DEF CreatedAs, Inv, TableInv
    <3>3. d \in Deployments
      BY <3>2, InputsAssumption DEF Deployments
    <3>4. Exists(d)
      BY <2>2 DEF Activatable, Exists
    <3> QED BY <3>1, <3>2, <3>3, <3>4 DEF CreatedAs
  <2>4. PICK r \in Row : r = row[d]
    BY <2>3, RowFacts
  <2>5. /\ r.bundle = q.bundle /\ RowInv(d)
        /\ r.evidence \in Evidence
    BY <2>3, <2>4, RowFacts DEF RowInv, Row
  <2>6. PICK old \in Evidence : old = r.evidence
    BY <2>5
  <2>7. PICK new \in Evidence :
          /\ new = Merged(old, EvidenceOf(q))
          /\ new.version = q.version /\ new.verified = q.verified
          /\ new.rollbackOf \in {q.rollbackOf, old.rollbackOf}
    <3>1. PICK e \in Evidence : e = EvidenceOf(q)
      BY DEF EvidenceOf, Evidence, CommandState
    <3>2. e.version = q.version /\ e.verified = q.verified /\ e.rollbackOf = q.rollbackOf
      BY <3>1 DEF EvidenceOf
    <3>3. PICK m : m = [[e EXCEPT !.operation = old.operation] EXCEPT !.rollbackOf = old.rollbackOf]
      OBVIOUS
    <3>4. /\ m \in Evidence /\ m.version = e.version /\ m.verified = e.verified
          /\ m.rollbackOf = old.rollbackOf
      BY <3>3 DEF Evidence
    <3>5. Merged(old, EvidenceOf(q)) \in {e, m}
      BY <3>1, <3>3 DEF Merged
    <3> QED BY <3>2, <3>4, <3>5
  <2>8. PICK a : a = [r EXCEPT !.evidence = new]
    OBVIOUS
  <2>9. /\ a \in Row /\ a.active = r.active /\ a.status = r.status /\ a.pending = r.pending
        /\ a.target = r.target /\ a.bundle = r.bundle /\ a.evidence = new
    BY <2>8 DEF Row
  <2>10. row' = [row EXCEPT ![d] = a]
    BY <2>2, <2>3, <2>4, <2>6, <2>7, <2>8 DEF Inv, TableInv
  <2>11. /\ row' \in [Deployments -> Row] /\ row'[d] = a
         /\ \A e \in Deployments : e # d => row'[e] = row[e]
    BY <2>3, <2>9, <2>10 DEF Inv, TableInv
  <2>12. RowKept(d)
    <3>1. new.rollbackOf # None =>
            new.rollbackOf \in 1..issued /\ row[d].bundle = bundleOf[new.rollbackOf]
      BY <2>3, <2>4, <2>5, <2>6, <2>7 DEF RowInv
    <3>2. a.active => d \in wasActive
      BY <2>4, <2>5, <2>9 DEF RowInv
    <3> QED BY <1>2, <2>3, <2>4, <2>5, <2>7, <2>9, <2>11, <3>1, <3>2 DEF RowKept, Exists
  <2>13. \A e \in Deployments : RowKept(e)
    BY <2>11, <2>12 DEF RowKept
  <2>14. \A e \in Deployments :
           /\ row'[e].active = row[e].active /\ row'[e].target = row[e].target
           /\ row'[e].bundle = row[e].bundle /\ row'[e].pending = row[e].pending
    BY <2>4, <2>9, <2>11
  <2>15. OneActive'
    BY <2>14 DEF OneActive, Inv, TableInv
  <2> QED BY <1>2, <2>11, <2>13, <2>14, <2>15, RowsUpdate DEF Inv, TableInv
<1> QED
  BY <1>3, <1>4

\* Of a manifest deployment that was seen active, everything is published.
LEMMA RecordEvidenceInv ==
  ASSUME Inv, NEW c \in Commands, RecordEvidence(c)
  PROVE  Inv'
<1>1. PICK q \in CommandState :
        /\ q = proc[c] /\ Knows(q) /\ (q.alone => Leaves(q))
        /\ q.pc = "record" /\ q.target = "hybrid_edge"
  BY CommandFacts DEF RecordEvidence
<1>2. UNCHANGED edgeVars /\ UNCHANGED kvVars
  BY DEF RecordEvidence
<1>3. /\ TableInv' /\ Grows
      /\ \A d \in Deployments :
           /\ row'[d].active = row[d].active /\ row'[d].target = row[d].target
           /\ row'[d].bundle = row[d].bundle /\ row'[d].pending = row[d].pending
  BY EvidenceEffect
<1>4. (EdgeAgrees => EdgeAgrees') /\ (~Building => ~Building')
  BY <1>2, <1>3, AgreementOfRows DEF Building
<1>5. \/ EndDoubted(c)
      \/ EndKeeping(c) /\ q.op \in Keeping
      \/ q.promote /\ EndTrusted(c, IF q.seen THEN "yes" ELSE "early")
  BY <1>1 DEF RecordEvidence, EndHybrid, Keeping
<1>6. End(c)
  BY <1>5 DEF EndDoubted, EndKeeping, EndTrusted
<1>7. ASSUME q.promote, EndTrusted(c, IF q.seen THEN "yes" ELSE "early")
      PROVE  TrustInv'
  <2>1. trusted' \in {"no", "early", "yes"} /\ (trusted' = "yes" => q.alone /\ q.seen)
    BY <1>1, <1>7 DEF EndTrusted
  <2>2. ASSUME q.alone, q.seen
        PROVE  EdgeAgrees' /\ ~Building'
    <3>1. q.op \notin Recovering
      BY <1>1, <1>7 DEF Knows
    <3>2. /\ row[q.deployment].active /\ ~Building
          /\ \A dom \in DomainNames : active[dom] = q.deployment
          /\ live[WorkerOf(q.target)] = q.version
          /\ \A dom \in DomainNames : route[dom] = WorkerOf(q.target)
      BY <1>1, <2>2, <3>1 DEF Leaves, Building, AwaitsBuild
    <3>3. /\ CreatedAs(q.deployment, "hybrid_edge", q.bundle)
          /\ WasUploaded(q.version, "hybrid_edge", q.bundle, q.deployment)
      BY <1>1 DEF Knows
    <3>4. q.deployment \in Deployments
      <4>1. q.deployment \in 1..issued /\ issued \in 0..MaxDeployments
        BY <3>3 DEF CreatedAs, Inv, TableInv
      <4> QED BY <4>1, InputsAssumption DEF Deployments
    <3>5. row[q.deployment].target = "hybrid_edge" /\ row[q.deployment].bundle = q.bundle
      <4>1. RowInv(q.deployment)
        BY <3>4, RowFacts
      <4>2. ~NoRow.active
        BY DEF NoRow
      <4>3. Exists(q.deployment)
        BY <3>2, <4>1, <4>2 DEF RowInv
      <4> QED BY <3>3, <4>1, <4>3 DEF CreatedAs, RowInv
    <3>6. EdgeAgrees'
      <4>1. PICK d \in Deployments : d = q.deployment
        BY <3>4
      <4>2. row'[d].active /\ row'[d].target = "hybrid_edge" /\ row'[d].bundle = q.bundle
        BY <1>3, <3>2, <3>5, <4>1
      <4>3. PICK v : v = q.version
        OBVIOUS
      <4>4. WasUploaded(v, "hybrid_edge", q.bundle, d) /\ d \in ActiveRows'
        BY <3>3, <4>1, <4>2, <4>3 DEF ActiveRows
      <4>5. /\ live[WorkerOf("hybrid_edge")] = v
            /\ \A dom \in DomainNames : route[dom] = WorkerOf("hybrid_edge")
            /\ \A dom \in DomainNames : active[dom] = d
        BY <1>1, <3>2, <4>1, <4>3
      <4> QED BY <1>2, <4>2, <4>4, <4>5, PublishedAgrees
    <3> QED BY <1>4, <3>2, <3>6
  <2> QED BY <1>1, <1>6, <2>1, <2>2, TrustEnds DEF Inv
<1>8. TrustInv'
  BY <1>1, <1>4, <1>5, <1>7, DoubtEnds, KeepEnds DEF Inv
<1> QED
  BY <1>2, <1>3, <1>6, <1>8, EndRest

\* A row that may be activated is the active one, and one that is gone stays so.
LEMMA ActivateOrFailEffect ==
  ASSUME Inv, NEW d \in Deployments, ActivateOrFail(d),
         issued' = issued, bundleOf' = bundleOf, writes' = writes
  PROVE  /\ TableInv' /\ Grows
         /\ \A e \in Deployments : row'[e].pending # "nothing" => row[e].pending # "nothing"
         /\ \A e \in Deployments :
              /\ row'[e].active <=> IF Activatable(d) THEN e = d ELSE row[e].active
              /\ row'[e].target = row[e].target /\ row'[e].bundle = row[e].bundle
<1>1. CASE Activatable(d)
  <2>1. Exists(d)
    BY <1>1 DEF Activatable, Exists
  <2>2. row' = Activated(d) /\ wasActive' = wasActive \cup {d}
    BY <1>1 DEF ActivateOrFail
  <2> QED BY <1>1, <2>1, <2>2, ActivateEffect
<1>2. CASE ~Activatable(d)
  <2>1. row' = row /\ wasActive' = wasActive
    BY <1>2 DEF ActivateOrFail
  <2>2. \A e \in Deployments : RowKept(e)
    BY <2>1 DEF RowKept
  <2>3. OneActive' /\ row' \in [Deployments -> Row] /\ wasActive' \subseteq 1..issued
    BY <2>1 DEF OneActive, Inv, TableInv
  <2>4. TableInv' /\ Grows
    BY <2>1, <2>2, <2>3, RowsUpdate
  <2> QED BY <1>2, <2>1, <2>4
<1> QED
  BY <1>1, <1>2

\* A deployment that a command knows is one.
LEMMA KnownDeployment ==
  ASSUME Inv, NEW d \in 1..issued
  PROVE  d \in Deployments
BY InputsAssumption DEF Inv, TableInv, Deployments

\* An active row exists.
LEMMA ActiveExists ==
  ASSUME Inv, NEW d \in Deployments, row[d].active
  PROVE  Exists(d)
<1>1. RowInv(d)
  BY RowFacts
<1>2. ~NoRow.active
  BY DEF NoRow
<1> QED
  BY <1>1, <1>2 DEF RowInv

\* What deploy -promote ends with.
LEMMA ActivateRecordedInv ==
  ASSUME Inv, NEW c \in Commands, ActivateRecorded(c)
  PROVE  Inv'
<1>1. PICK q \in CommandState :
        /\ q = proc[c] /\ Knows(q) /\ (q.alone => Leaves(q)) /\ q.pc = "activate"
  BY CommandFacts DEF ActivateRecorded
<1>2. /\ UNCHANGED edgeVars /\ UNCHANGED kvVars
      /\ issued' = issued /\ bundleOf' = bundleOf /\ writes' = writes
  BY DEF ActivateRecorded, edgeVars
<1>3. /\ q.target = "cloudflare_static" /\ q.op \notin Keeping
      /\ CreatedAs(q.deployment, "cloudflare_static", q.bundle)
      /\ WasUploaded(q.version, "cloudflare_static", q.bundle, q.deployment)
  BY <1>1 DEF Knows
<1>4. PICK d \in Deployments : d = q.deployment
  BY <1>3, KnownDeployment DEF CreatedAs
<1>5. /\ TableInv' /\ Grows
      /\ \A e \in Deployments : row'[e].pending # "nothing" => row[e].pending # "nothing"
      /\ \A e \in Deployments :
           /\ row'[e].active <=> IF Activatable(d) THEN e = d ELSE row[e].active
           /\ row'[e].target = row[e].target /\ row'[e].bundle = row[e].bundle
  <2>1. ActivateOrFail(d)
    BY <1>1, <1>4 DEF ActivateRecorded
  <2> QED BY <1>2, <2>1, ActivateOrFailEffect
<1>6. \/ EndDoubted(c)
      \/ Activatable(d) /\ EndTrusted(c, "yes")
  BY <1>1, <1>4 DEF ActivateRecorded
<1>7. ASSUME Activatable(d), EndTrusted(c, "yes")
      PROVE  TrustInv'
  <2>1. trusted' \in {"no", "early", "yes"} /\ (trusted' = "yes" => q.alone) /\ End(c)
    BY <1>1, <1>7 DEF EndTrusted
  <2>2. ASSUME q.alone
        PROVE  EdgeAgrees' /\ ~Building'
    <3>1. /\ live[WorkerOf(q.target)] = q.version
          /\ \A dom \in DomainNames : route[dom] = WorkerOf(q.target)
      BY <1>1, <1>3, <2>2 DEF Leaves, Keeping, Recovering
    <3>2. \A e \in Deployments : row[e].pending = "nothing"
      BY <1>1, <1>3, <2>2 DEF Leaves, AwaitsBuild
    <3>3. ~Building'
      BY <1>5, <3>2 DEF Building
    <3>4. Exists(d) /\ RowInv(d)
      BY <1>7, RowFacts DEF Activatable, Exists
    <3>5. row[d].target = "cloudflare_static" /\ row[d].bundle = q.bundle
      BY <1>3, <1>4, <3>4 DEF CreatedAs, RowInv
    <3>6. row'[d].active /\ row'[d].target = "cloudflare_static" /\ row'[d].bundle = q.bundle
      BY <1>5, <1>7, <3>5
    <3>7. PICK v : v = q.version
      OBVIOUS
    <3>9. WasUploaded(v, "cloudflare_static", q.bundle, d) /\ d \in ActiveRows'
      BY <1>3, <1>4, <3>6, <3>7 DEF ActiveRows
    <3>10. /\ live[WorkerOf("cloudflare_static")] = v
           /\ \A dom \in DomainNames : route[dom] = WorkerOf("cloudflare_static")
      BY <1>3, <3>1, <3>7
    <3>8. EdgeAgrees'
      BY <1>2, <3>6, <3>9, <3>10, PublishedAgrees
    <3> QED BY <3>3, <3>8
  <2> QED BY <1>1, <2>1, <2>2, TrustEnds DEF Inv
<1>8. TrustInv' /\ End(c)
  BY <1>1, <1>6, <1>7, DoubtEnds DEF Inv, EndDoubted, EndTrusted
<1> QED
  BY <1>2, <1>5, <1>8, EndRest

\* The promotion of a deployment that is active, or of an origin one.
LEMMA ActivatePromotedInv ==
  ASSUME Inv, NEW c \in Commands, ActivatePromoted(c)
  PROVE  Inv'
<1>1. PICK q \in CommandState :
        /\ q = proc[c] /\ Knows(q) /\ (q.alone => Leaves(q)) /\ q.pc = "promote"
  BY CommandFacts DEF ActivatePromoted
<1>2. /\ UNCHANGED edgeVars /\ UNCHANGED kvVars
      /\ issued' = issued /\ bundleOf' = bundleOf /\ writes' = writes
  BY DEF ActivatePromoted, edgeVars
<1>3. /\ q.deployment \in 1..issued /\ (q.op = "promote" \/ q.target = "origin_assisted")
  BY <1>1 DEF Knows
<1>4. PICK d \in Deployments : d = q.deployment
  BY <1>3, KnownDeployment
<1>5. /\ TableInv' /\ Grows
      /\ \A e \in Deployments : row'[e].pending # "nothing" => row[e].pending # "nothing"
      /\ \A e \in Deployments :
           /\ row'[e].active <=> IF Activatable(d) THEN e = d ELSE row[e].active
           /\ row'[e].target = row[e].target /\ row'[e].bundle = row[e].bundle
  <2>1. ActivateOrFail(d)
    BY <1>1, <1>4 DEF ActivatePromoted
  <2> QED BY <1>2, <2>1, ActivateOrFailEffect
<1>6. CASE q.target = "origin_assisted"
  <2>1. EndDoubted(c)
    BY <1>1, <1>6 DEF ActivatePromoted
  <2>2. TrustInv' /\ End(c)
    BY <1>1, <2>1, DoubtEnds DEF Inv, EndDoubted
  <2> QED BY <1>2, <1>5, <2>2, EndRest
<1>7. CASE q.target # "origin_assisted"
  <2>1. EndKeeping(c) /\ q.op = "promote" /\ q.op \in Keeping
    BY <1>1, <1>3, <1>7 DEF ActivatePromoted, Keeping
  <2>2. ASSUME EdgeAgrees, ~Building, Leaves(q)
        PROVE  EdgeAgrees' /\ ~Building'
    <3>1. row[d].active
      BY <1>4, <1>7, <2>1, <2>2 DEF Leaves
    <3>2. \A e \in Deployments : row[e].active => e = d
      BY <3>1 DEF Inv, TableInv, OneActive
    <3>3. \A e \in Deployments : row[e].active =>
            row'[e].active /\ row'[e].target = row[e].target /\ row'[e].bundle = row[e].bundle
      BY <1>5, <3>2
    <3>4. EdgeAgrees'
      BY <1>2, <2>2, <3>3, AgreementOfRows
    <3> QED BY <1>5, <2>2, <3>4 DEF Building
  <2>3. TrustInv'
    BY <1>1, <2>1, <2>2, KeepEnds DEF Inv
  <2>4. End(c)
    BY <2>1 DEF EndKeeping
  <2> QED BY <1>2, <1>5, <2>3, <2>4, EndRest
<1> QED
  BY <1>6, <1>7

\* activate-cloudflare-static vouches for nothing.
LEMMA ActivateEvidenceInv ==
  ASSUME Inv, NEW c \in Commands, ActivateEvidence(c)
  PROVE  Inv'
<1>1. PICK q \in CommandState : q = proc[c] /\ Knows(q) /\ q.pc = "activate_recorded"
  BY CommandFacts DEF ActivateEvidence
<1>2. /\ UNCHANGED edgeVars /\ UNCHANGED kvVars
      /\ issued' = issued /\ bundleOf' = bundleOf /\ writes' = writes
  BY DEF ActivateEvidence, edgeVars
<1>3. PICK d \in Deployments : d = q.deployment
  BY <1>1, KnownDeployment DEF Knows
<1>4. ActivateOrFail(d) /\ EndDoubted(c)
  BY <1>1, <1>3 DEF ActivateEvidence
<1>5. TableInv' /\ Grows
  BY <1>2, <1>4, ActivateOrFailEffect
<1>6. TrustInv' /\ End(c)
  BY <1>1, <1>4, DoubtEnds DEF Inv, EndDoubted
<1> QED
  BY <1>2, <1>5, <1>6, EndRest

\* Only a row that is not active goes.
LEMMA DeleteRowInv ==
  ASSUME Inv, NEW c \in Commands, DeleteRow(c)
  PROVE  Inv'
<1>1. PICK q \in CommandState :
        /\ q = proc[c] /\ Knows(q) /\ (q.alone => Leaves(q)) /\ q.pc = "delete"
  BY CommandFacts DEF DeleteRow
<1>2. /\ UNCHANGED edgeVars /\ UNCHANGED kvVars
      /\ issued' = issued /\ bundleOf' = bundleOf /\ writes' = writes /\ wasActive' = wasActive
  BY DEF DeleteRow, edgeVars, historyVars
<1>3. PICK d \in Deployments : d = q.deployment
  BY <1>1, KnownDeployment DEF Knows
<1>4. row' = IF row[d].active THEN row ELSE [row EXCEPT ![d] = NoRow]
  BY <1>1, <1>3 DEF DeleteRow
<1>5. NoRow \in Row /\ ~NoRow.active /\ NoRow.pending = "nothing"
  BY InputsAssumption DEF NoRow, Row, NoEvidence, Evidence, NoBundle, None, Targets, Environments,
     HeaderSources, Verifications, Operations
<1>6. /\ row' \in [Deployments -> Row]
      /\ \A e \in Deployments : RowKept(e)
      /\ \A e \in Deployments : row[e].active => row'[e] = row[e]
      /\ \A e \in Deployments : row'[e].active => row[e].active
      /\ \A e \in Deployments : row'[e].pending # "nothing" => row[e].pending # "nothing"
  BY <1>4, <1>5 DEF Inv, TableInv, RowKept
<1>7. OneActive'
  BY <1>6 DEF OneActive, Inv, TableInv
<1>8. TableInv' /\ Grows
  BY <1>2, <1>6, <1>7, RowsUpdate DEF Inv, TableInv
<1>9. (EdgeAgrees => EdgeAgrees') /\ (~Building => ~Building')
  BY <1>2, <1>6, AgreementOfRows DEF Building
<1>10. EndKeeping(c) /\ q.op \in Keeping
  BY <1>1 DEF DeleteRow, Knows, Keeping
<1>11. TrustInv' /\ End(c)
  BY <1>1, <1>9, <1>10, KeepEnds DEF Inv, EndKeeping
<1> QED
  BY <1>2, <1>8, <1>11, EndRest

-----------------------------------------------------------------------------
(* The invariant holds.                                                    *)

\* Nothing has been published, and no command runs.
LEMMA InitInv ==
  ASSUME Init
  PROVE  Inv
<1>1. /\ issued = 0 /\ row = [d \in Deployments |-> NoRow] /\ writes = <<>>
      /\ live = [w \in WorkerNames |-> None] /\ route = [dom \in DomainNames |-> "none"]
      /\ active = [dom \in DomainNames |-> None] /\ kept = {}
      /\ proc = [c \in Commands |-> Idle] /\ wasActive = {}
      /\ bundleOf = [d \in Deployments |-> NoBundle] /\ trusted = "no"
  BY DEF Init
<1>2. NoRow \in Row /\ ~NoRow.active /\ NoRow.status = "none"
      /\ NoRow.evidence.verified = "none" /\ NoRow.evidence.rollbackOf = None
  BY InputsAssumption DEF NoRow, Row, NoEvidence, Evidence, NoBundle, None, Targets, Environments,
     HeaderSources, Verifications, Operations
<1>3. \A d \in Deployments : row[d] = NoRow
  BY <1>1
<1>4. ASSUME NEW d \in Deployments
      PROVE  RowInv(d)
  BY <1>2, <1>3 DEF RowInv, Exists
<1>5. TableInv
  <2>1. row \in [Deployments -> Row]
    BY <1>1, <1>2
  <2>2. OneActive
    BY <1>2, <1>3 DEF OneActive
  <2>3. bundleOf \in [Deployments -> Bundles \cup {NoBundle}]
    BY <1>1
  <2> QED BY <1>1, <1>4, <2>1, <2>2, <2>3, InputsAssumption DEF TableInv
<1>6. WorkersInv
  <2>1. writes \in Seq(Write) /\ DOMAIN writes = {} /\ Len(writes) = 0
    BY <1>1
  <2> QED BY <1>1, <2>1 DEF WorkersInv, None
<1>7. KeysInv
  BY <1>1 DEF KeysInv, ActiveManifestWasActive, None
<1>8. CommandsInv
  BY <1>1, IdleState, IdleKnows DEF CommandsInv
<1>9. TrustInv
  <2>1. \A c \in Commands : proc[c].pc = "idle"
    BY <1>1 DEF Idle
  <2> QED BY <1>1, <2>1 DEF TrustInv
<1> QED
  BY <1>5, <1>6, <1>7, <1>8, <1>9 DEF Inv

\* Every step keeps the invariant.
LEMMA NextInv ==
  ASSUME Inv, [Next]_vars
  PROVE  Inv'
<1>1. CASE \E d \in Deployments : Server(d)
  BY <1>1, BuildInv, PromoteBuiltInv DEF Server
<1>2. ASSUME NEW c \in Commands, Deploy(c)
      PROVE  Inv'
  <2>1. CASE DeployStatic(c) \/ DeployBuilt(c) \/ SeeBuilt(c) \/ CandidatesTimeOut(c)
    BY <2>1, DeployStaticInv, DeployBuiltInv, SeeBuiltInv, GiveUpInv
  <2>2. CASE PublishManifest(c) \/ PutKV(c) \/ PutKVFails(c) \/ Published(c)
    BY <2>2, PublishManifestInv, PutKVInv, PublishedInv
  <2>3. CASE Upload(c) \/ UploadFails(c) \/ Verify(c)
    BY <2>3, UploadInv, UploadFailsInv, VerifyInv
  <2>4. CASE Record(c) \/ RecordRefused(c) \/ ActivateRecorded(c) \/ RecordEvidence(c)
    BY <2>4, RecordInv, GiveUpInv, ActivateRecordedInv, RecordEvidenceInv
  <2> QED BY <1>2, <2>1, <2>2, <2>3, <2>4 DEF Deploy
<1>3. ASSUME NEW c \in Commands, Repair(c)
      PROVE  Inv'
  <2>1. CASE PublishStatic(c) \/ Refresh(c) \/ Promote(c) \/ ActivatePromoted(c)
    BY <2>1, PublishStaticInv, RefreshInv, PromoteInv, ActivatePromotedInv
  <2>2. CASE RollbackStatic(c) \/ RollbackHybrid(c) \/ RollbackOrigin(c)
    BY <2>2, RollbackStaticInv, RollbackHybridInv, PromoteInv
  <2>3. CASE Delete(c) \/ DeleteRow(c)
    BY <2>3, DeleteInv, DeleteRowInv
  <2>4. CASE RecoverStatic(c) \/ RecoverHybrid(c) \/ ActivateStatic(c) \/ ActivateEvidence(c)
    BY <2>4, RecoverStaticInv, RecoverHybridInv, ActivateStaticInv, ActivateEvidenceInv
  <2>5. CASE Interrupted(c)
    BY <2>5, GiveUpInv
  <2> QED BY <1>3, <2>1, <2>2, <2>3, <2>4, <2>5 DEF Repair
<1>4. CASE UNCHANGED vars
  <2>1. /\ RestUnchanged /\ proc' = proc /\ trusted' = trusted
        /\ UNCHANGED edgeVars /\ UNCHANGED kvVars
        /\ row' = row /\ writes' = writes /\ live' = live /\ route' = route /\ active' = active
    BY <1>4 DEF vars, RestUnchanged, edgeVars, kvVars, tableVars, historyVars
  <2>2. TableInv' /\ Grows
    BY <2>1, RestStays
  <2>3. \A p : Leaves(p) => Leaves(p)'
    BY <2>1, LeavesStays
  <2>4. TrustInv'
    BY <2>1, <2>3, AgreementStays, TrustStays DEF Inv
  <2> QED BY <2>1, <2>2, <2>4, ServerRest
<1> QED
  BY <1>1, <1>2, <1>3, <1>4 DEF Next

\* The invariant holds in every reachable state.
THEOREM Invariant == Spec => []Inv
<1>1. Init => Inv
  BY InitInv
<1>2. Inv /\ [Next]_vars => Inv'
  BY NextInv
<1> QED
  BY <1>1, <1>2, PTL DEF Spec

\* Every variable has its type, and nothing is recorded with a failed verdict: the
\* deploy commands return the error of verifyCloudflareStaticPublish.
THEOREM TypeCorrect == Spec => []TypeOK
<1>1. ASSUME Inv
      PROVE  TypeOK
  <2>1. ASSUME NEW d \in Deployments
        PROVE  /\ row[d].status \in {"none", "queued", "ready", "active", "failed"}
               /\ row[d].target \in {"none", "cloudflare_static", "hybrid_edge", "origin_assisted"}
               /\ row[d].pending \in {"nothing", "build", "build_promote", "promote"}
               /\ row[d].bundle \in Bundles \cup {NoBundle}
               /\ row[d].evidence.verified \in {"none", "ok", "warning", "skipped"}
    <3>1. row[d] \in Row
      BY <1>1, RowFacts
    <3>2. row[d].evidence \in Evidence
      BY <3>1 DEF Row
    <3> QED BY <3>1, <3>2 DEF Row, Evidence, Targets, Verifications
  <2>2. ASSUME NEW v \in DOMAIN writes
        PROVE  writes[v].worker \in WorkerNames /\ writes[v].bundle \in Bundles
    <3>1. writes[v] \in Write
      BY <1>1, ElementOfSeq DEF Inv, WorkersInv
    <3> QED BY <3>1 DEF Write
  <2>3. ASSUME NEW c \in Commands
        PROVE  proc[c].verified \in {"none", "ok", "warning", "skipped"}
    BY <1>1, CommandFacts DEF CommandState, Verifications
  <2>4. /\ issued \in 0..MaxDeployments /\ wasActive \subseteq 1..issued
        /\ live \in [WorkerNames -> 0..Len(writes)]
        /\ route \in [DomainNames -> WorkerNames \cup {"none"}]
        /\ active \in [DomainNames -> 0..issued] /\ kept \subseteq DomainNames \X (1..issued)
        /\ trusted \in {"no", "early", "yes"}
    BY <1>1 DEF Inv, TableInv, WorkersInv, KeysInv, TrustInv
  <2> QED BY <2>1, <2>2, <2>3, <2>4 DEF TypeOK
<1> QED
  BY <1>1, Invariant, PTL

\* A deployment's evidence names a version that was uploaded, to the deployment's
\* Worker, with its bundle and, with a manifest, for the deployment itself, however
\* many commands publish, record and write evidence back at the same time.
THEOREM EvidenceIsTrue == Spec => []EvidenceIsOfAWrite
<1>1. ASSUME Inv
      PROVE  EvidenceIsOfAWrite
  BY <1>1, RowFacts DEF RowInv, WasUploaded, EvidenceIsOfAWrite
<1> QED
  BY <1>1, Invariant, PTL

\* Active keys are written long after the row was read, and still only name
\* deployments that were active.
THEOREM ActiveKeysWereActive == Spec => []ActiveManifestWasActive
<1>1. Inv => ActiveManifestWasActive
  BY DEF Inv, KeysInv
<1> QED
  BY <1>1, Invariant, PTL

\* What is recorded as a rollback has the bundle of the deployment it restores.
THEOREM RollbacksRestore == Spec => []RollbackRestores
<1>1. ASSUME Inv
      PROVE  RollbackRestores
  BY <1>1, RowFacts DEF RowInv, RollbackRestores
<1> QED
  BY <1>1, Invariant, PTL

\* A publication that ran alone, saw its deployment active and reported success leaves
\* edge and metadata in agreement, and refreshes, promotions, deletions and recoveries
\* after it keep them so; reconcile-deployment may then settle the active deployment.
THEOREM AgreementLasts == Spec => []AgreementKept
<1>1. ASSUME Inv, trusted = "yes", Busy = {}
      PROVE  EdgeAgrees
  BY <1>1 DEF Inv, TrustInv
<1>2. ASSUME Inv, EdgeAgrees, NEW d \in Reconciled, Domains # <<>>,
             row[d].evidence.headers # "disabled",
             writes[Serving(Domains[1])].headers # "disabled"
      PROVE  Settled(d)
  <2>1. PICK e \in ActiveRows : \A dom \in DomainNames :
          /\ route[dom] = WorkerOf(row[e].target)
          /\ writes[Serving(dom)].bundle = row[e].bundle
          /\ row[e].target = "hybrid_edge" => active[dom] = e
    BY <1>2 DEF EdgeAgrees
  <2>2. d \in Deployments /\ row[d].active /\ d = e
    BY <1>2, <2>1 DEF Reconciled, ActiveRows, Inv, TableInv, OneActive
  <2>3. PICK www \in DomainNames : www = Domains[1]
    <3>1. 1 \in 1..Len(Domains)
      BY <1>2, InputsAssumption, LenProperties, EmptySeq
    <3> QED BY <3>1 DEF DomainNames
  <2>4. /\ route[www] = WorkerOf(row[d].target)
        /\ row[d].target = "hybrid_edge" => active[www] = d
    BY <2>1, <2>2
  <2>5. Serving(www) # None
    BY <1>2, <2>4 DEF Inv, WorkersInv, Serving, WorkerOf
  <2>6. row[d].target \in Targets \ {"none"} /\ d # None
    <3>1. Exists(d) /\ row[d] \in Row /\ RowInv(d)
      BY <1>2, <2>2, ActiveExists, RowFacts
    <3>2. row[d].target \in Targets /\ row[d].target # "none"
      BY <3>1 DEF RowInv, Row
    <3> QED BY <2>2, <3>2, InputsAssumption DEF Deployments, None
  <2>7. CASE row[d].target = "origin_assisted"
    BY <2>7 DEF Settled
  <2>8. CASE row[d].target = "cloudflare_static"
    <3>1. "edge_manifest" \notin ReconcileRequirements(d)
      BY <2>8 DEF ReconcileRequirements, StaticRequirements
    <3> QED BY <1>2, <2>3, <2>5, <3>1 DEF Settled, FirstDomainPasses, ProbeMayPass
  <2>9. CASE row[d].target = "hybrid_edge"
    BY <1>2, <2>3, <2>4, <2>5, <2>6, <2>9 DEF Settled, FirstDomainPasses, ProbeMayPass, WorkerOf
  <2> QED BY <2>6, <2>7, <2>8, <2>9 DEF Targets
<1>3. Inv => AgreementKept
  BY <1>1, <1>2 DEF AgreementKept
<1> QED
  BY <1>3, Invariant, PTL
=============================================================================
