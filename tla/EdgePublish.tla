---------------------------- MODULE EdgePublish ----------------------------
(***************************************************************************)
(* Publishing a site at the edge: supercdnctl commands that move a         *)
(* Cloudflare Worker, write Workers KV and record or activate deployments  *)
(* on the server, one call at a time.                                      *)
(*                                                                         *)
(* Sources: cmd/supercdnctl (site_deploy, cloudflare_static,               *)
(* cloudflare_recovery, cloudflare_activation, hybrid_recovery, rollback,  *)
(* edge_manifest and reconcile commands, client.go), internal/siteprobe    *)
(* and, in internal/server, site_deploy_handlers.go and                    *)
(* edge_manifest_handlers.go.                                              *)
(*                                                                         *)
(* One site with its two Workers (assets only, and assets with a           *)
(* manifest).  A bundle is what a directory holds, and stands for its      *)
(* hash, file count and size.  A command that refuses before it has        *)
(* changed anything, and a dry run, is no step.  Files, objects and quotas *)
(* are in SiteDeployments and UploadQuota.                                 *)
(***************************************************************************)
EXTENDS Naturals, Sequences, FiniteSets

CONSTANTS
  Commands,        \* slots for commands that run at the same time
  Kinds,           \* what each slot may run; a deploy is named by its target
  Bundles,         \* contents of a source directory
  Headers,         \* the _headers file of each: "none", "plain" or "edge"
  Domains,         \* the custom domains of the site, in order
  Publications,    \* what deploys ask for: [environment, promote]
  CachePolicies,   \* -static-cache-policy values in use
  VerifyModes,     \* -static-verify values in use
  MaxDeployments,  \* bound: deployments created
  MaxWrites,       \* bound: uploads to Workers
  MaxCommands,     \* bound: how many commands each slot runs in a behaviour
  MaxFaults        \* bound: failed calls and commands cut short

ASSUME InputsAssumption ==
  /\ Publications \subseteq [environment : {"production", "preview"}, promote : BOOLEAN]
  /\ CachePolicies \subseteq {"auto", "force", "none"}
  /\ VerifyModes \subseteq {"wait", "warn", "none"}
  /\ Headers \in [Bundles -> {"none", "plain", "edge"}]
  /\ Domains \in Seq(STRING)
  /\ MaxDeployments \in Nat

VARIABLES
  issued,     \* how many deployment ids have been given out
  row,        \* site_deployments
  writes,     \* Worker versions, in the order they were uploaded
  live,       \* the version each Worker runs: an index of writes, or 0
  route,      \* the Worker each domain is attached to
  active,     \* Workers KV: the deployment under each domain's active key
  kept,       \* Workers KV: pairs of a domain and a deployment with a key of its own
  proc,       \* what each command is doing
  wasActive,  \* history: deployments that have been active
  bundleOf,   \* history: the bundle of every deployment ever created
  trusted,    \* history: "yes" when the last command to publish ran alone and
              \* reported success; "early" when it did so after it had seen its
              \* deployment ready and not yet active; "no" otherwise
  started,    \* commands run by each slot so far (bound only)
  faults      \* faults so far (bound only)

edgeVars == <<writes, live, route>>
kvVars == <<active, kept>>
tableVars == <<issued, row>>
historyVars == <<wasActive, bundleOf>>
vars == <<edgeVars, kvVars, tableVars, proc, historyVars, trusted, started, faults>>

DomainNames == {Domains[i] : i \in 1..Len(Domains)}
Deployments == 1..MaxDeployments
Versions == 1..MaxWrites
None == 0
NoBundle == "none"
WorkerNames == {"static", "edge"}

\* Evidence: the uploaded version, what the probe said, the headers it was
\* prepared with, the operation and, for a rollback, the deployment it restores.
NoEvidence == [version |-> None, verified |-> "none", headers |-> "none", operation |-> "deploy",
               rollbackOf |-> None]

\* `pending`: what the deploy_site job has still to do for the row.
NoRow == [status |-> "none", target |-> "none", environment |-> "preview", active |-> FALSE,
          pending |-> "nothing", bundle |-> NoBundle, evidence |-> NoEvidence]

Exists(d) == row[d].status # "none"

Activatable(d) == row[d].status \in {"ready", "active"}

ActiveRows == {d \in Deployments : row[d].active}

\* `seen`: whether the deployment was active when its row was fetched.
Idle == [pc |-> "idle", op |-> "none", target |-> "none", deployment |-> None, bundle |-> NoBundle,
         environment |-> "production", promote |-> FALSE, seen |-> FALSE, headers |-> "none",
         version |-> None, verified |-> "none", operation |-> "deploy", rollbackOf |-> None,
         todo |-> <<>>, failed |-> FALSE, alone |-> TRUE]

Init ==
  /\ issued = 0
  /\ row = [d \in Deployments |-> NoRow]
  /\ writes = <<>>
  /\ live = [w \in WorkerNames |-> None]
  /\ route = [dom \in DomainNames |-> "none"]
  /\ active = [dom \in DomainNames |-> None]
  /\ kept = {}
  /\ proc = [c \in Commands |-> Idle]
  /\ wasActive = {} /\ bundleOf = [d \in Deployments |-> NoBundle]
  /\ trusted = "no"
  /\ started = [c \in Commands |-> 0]
  /\ faults = 0

-----------------------------------------------------------------------------
(* Commands.                                                               *)

Busy == {c \in Commands : proc[c].pc # "idle"}

\* Jobs a command stopped waiting for.
Building == \E d \in Deployments : row[d].pending # "nothing"

\* A command begins with this state, on a slot that is free.  It is alone as
\* long as no other command, and no job left behind by one, runs beside it.
Begin(c, op, state) ==
  /\ proc[c].pc = "idle"
  /\ op \in Kinds[c]
  /\ started[c] < MaxCommands[c]
  /\ started' = [started EXCEPT ![c] = @ + 1]
  /\ proc' = [other \in Commands |->
                IF other = c THEN [state EXCEPT !.op = op, !.alone = Busy = {} /\ ~Building]
                             ELSE [proc[other] EXCEPT !.alone = FALSE]]

Goto(c, pc) == proc' = [proc EXCEPT ![c].pc = pc]

End(c) == proc' = [proc EXCEPT ![c] = Idle]

\* The command is over and what it left is in agreement, or may not be.
EndTrusted(c, how) == End(c) /\ trusted' = IF proc[c].alone THEN how ELSE "no"
EndKeeping(c) == End(c) /\ trusted' = IF proc[c].alone THEN trusted ELSE "no"
EndDoubted(c) == End(c) /\ trusted' = "no"

Fault == faults < MaxFaults /\ faults' = faults + 1

-----------------------------------------------------------------------------
(* Deployment rows.                                                        *)

NewDeployment == issued + 1

Create(fields) ==
  /\ issued < MaxDeployments
  /\ issued' = NewDeployment
  /\ row' = [row EXCEPT ![NewDeployment] = fields]
  /\ bundleOf' = [bundleOf EXCEPT ![NewDeployment] = fields.bundle]

\* ActivateSiteDeployment: one transaction.
Activated(d) ==
  [e \in Deployments |->
    CASE e = d -> [row[d] EXCEPT !.environment = "production", !.active = TRUE, !.status = "active"]
      [] e # d /\ row[e].active -> [row[e] EXCEPT !.active = FALSE, !.status = "ready"]
      [] OTHER -> row[e]]

-----------------------------------------------------------------------------
(* What is uploaded, and what a probe can tell of it.                      *)

\* prepareCloudflareStaticAssetsDir: where the uploaded _headers file is from.
Prepared(bundle, policy) ==
  CASE policy = "none" -> "disabled"
    [] policy = "auto" /\ Headers[bundle] = "edge" -> "existing"
    [] policy = "auto" /\ Headers[bundle] = "plain" -> "existing_with_edge_header"
    [] OTHER -> "generated"

HeadersGenerated(headers) == headers \in {"generated", "existing_with_edge_header"}

Serving(dom) == IF route[dom] = "none" THEN None ELSE live[route[dom]]

\* Run of siteprobe: whether a probe of the domain may pass these requirements.
\* It looks at headers and at where assets come from, and not at what they hold;
\* an edge Worker may serve assets itself, so "direct" excludes nothing.
ProbeMayPass(dom, required) ==
  LET edge == route[dom] = "edge"
      labelled == edge \/ writes[Serving(dom)].headers # "disabled"
  IN /\ Serving(dom) # None
     /\ "static_html" \in required => labelled
     /\ "edge_manifest" \in required => edge /\ active[dom] # None
     /\ "revalidate" \in required => labelled

StaticRequirements(headers) ==
  {"direct", "static_html"} \cup (IF HeadersGenerated(headers) THEN {"revalidate"} ELSE {})

HybridRequirements == {"static_html", "edge_manifest"}

\* What verifyCloudflareStaticPublish asks of a new version.
VerifyRequirements(target, headers) ==
  (IF target = "cloudflare_static" THEN {"direct"} ELSE HybridRequirements)
    \cup (IF HeadersGenerated(headers) THEN {"revalidate"} ELSE {})

\* It probes every domain, and without one it has nothing to do.
Verdicts(target, headers) ==
  LET passes == \A dom \in DomainNames :
                  ProbeMayPass(dom, VerifyRequirements(target, headers))
  IN IF DomainNames = {} THEN {"skipped"}
     ELSE UNION {CASE mode = "none" -> {"skipped"}
                   [] mode = "warn" -> {"warning"} \cup (IF passes THEN {"ok"} ELSE {})
                   [] OTHER -> {"failed"} \cup (IF passes THEN {"ok"} ELSE {})
                   : mode \in VerifyModes}

WorkerOf(target) == IF target = "cloudflare_static" THEN "static" ELSE "edge"

-----------------------------------------------------------------------------
(* The server's job: a deployment is ready before it is active.            *)

Build(d) ==
  /\ row[d].status = "queued" /\ row[d].pending \in {"build", "build_promote"}
  /\ row' = [row EXCEPT ![d].status = "ready",
                        ![d].pending = IF @ = "build_promote" THEN "promote" ELSE "nothing"]
  /\ UNCHANGED <<edgeVars, kvVars, issued, proc, historyVars, trusted, started, faults>>

PromoteBuilt(d) ==
  /\ row[d].pending = "promote"
  /\ row' = [Activated(d) EXCEPT ![d].pending = "nothing"]
  /\ wasActive' = wasActive \cup {d}
  /\ UNCHANGED <<edgeVars, kvVars, issued, proc, bundleOf, trusted, started, faults>>

BuildFails(d) ==
  /\ row[d].status = "queued" /\ row[d].pending # "nothing"
  /\ Fault
  /\ row' = [row EXCEPT ![d].status = "failed", ![d].pending = "nothing"]
  /\ UNCHANGED <<edgeVars, kvVars, issued, proc, historyVars, trusted, started>>

-----------------------------------------------------------------------------
(* deploy-site, update-site and publish-cloudflare-static.                 *)

DeployStatic(c) ==
  /\ \E b \in Bundles, policy \in CachePolicies, ask \in Publications :
       Begin(c, "cloudflare_static",
             [Idle EXCEPT !.pc = "upload", !.target = "cloudflare_static", !.bundle = b,
                          !.environment = ask.environment, !.promote = ask.promote,
                          !.headers = Prepared(b, policy)])
  /\ UNCHANGED <<edgeVars, kvVars, tableVars, historyVars, trusted, faults>>

\* Provider writes that are not recorded.
PublishStatic(c) ==
  /\ \E b \in Bundles, policy \in CachePolicies :
       Begin(c, "publish_static",
             [Idle EXCEPT !.pc = "upload", !.target = "cloudflare_static", !.bundle = b,
                          !.headers = Prepared(b, policy)])
  /\ UNCHANGED <<edgeVars, kvVars, tableVars, historyVars, trusted, faults>>

\* What createAndWaitSiteDeployment sends, and the command that goes on to wait.
CreateAndWait(c, op, state) ==
  /\ Create([NoRow EXCEPT !.status = "queued", !.target = state.target, !.bundle = state.bundle,
                          !.environment = state.environment,
                          !.pending = IF state.promote THEN "build_promote" ELSE "build"])
  /\ Begin(c, op, [state EXCEPT !.pc = "wait", !.deployment = NewDeployment])
  /\ UNCHANGED <<edgeVars, kvVars, wasActive, trusted, faults>>

DeployBuilt(c) ==
  \E b \in Bundles, policy \in CachePolicies, ask \in Publications,
     target \in {"hybrid_edge", "origin_assisted"} :
    /\ target = "hybrid_edge" => Domains # <<>>
    /\ CreateAndWait(c, target,
         [Idle EXCEPT !.target = target, !.bundle = b, !.environment = ask.environment,
                      !.promote = ask.promote, !.headers = Prepared(b, policy)])

\* waitDeploymentRaw is satisfied with ready, and its answer is the snapshot the
\* rest of the command goes by.
SeeBuilt(c) ==
  LET d == proc[c].deployment IN
  /\ proc[c].pc = "wait"
  /\ row[d].status # "queued"
  /\ IF Activatable(d) /\ proc[c].target = "hybrid_edge"
       THEN /\ proc' = [proc EXCEPT ![c].pc = "publish", ![c].seen = row[d].active]
            /\ UNCHANGED trusted
       ELSE EndDoubted(c)
  /\ UNCHANGED <<edgeVars, kvVars, tableVars, historyVars, started, faults>>

\* waitEdgeManifestCandidates gives up: too few copies are ready.
CandidatesTimeOut(c) ==
  /\ proc[c].pc = "publish" /\ proc[c].target = "hybrid_edge"
  /\ EndDoubted(c)
  /\ UNCHANGED <<edgeVars, kvVars, tableVars, historyVars, started, faults>>

\* Wrangler uploads a version, makes the Worker run it and attaches the domains.
Uploaded(p) ==
  /\ Len(writes) < MaxWrites
  /\ writes' = Append(writes, [worker |-> WorkerOf(p.target), bundle |-> p.bundle,
                               headers |-> p.headers, deployment |-> p.deployment])
  /\ live' = [live EXCEPT ![WorkerOf(p.target)] = Len(writes) + 1]
  /\ route' = [dom \in DomainNames |-> WorkerOf(p.target)]

Upload(c) ==
  /\ proc[c].pc = "upload"
  /\ Uploaded(proc[c])
  /\ IF proc[c].op = "publish_static"
       THEN EndDoubted(c)
       ELSE /\ proc' = [proc EXCEPT ![c].pc = "verify", ![c].version = Len(writes')]
            /\ UNCHANGED trusted
  /\ UNCHANGED <<kvVars, tableVars, historyVars, started, faults>>

\* Wrangler fails, before or after it had its effect.
UploadFails(c) ==
  /\ proc[c].pc = "upload"
  /\ Fault
  /\ Uploaded(proc[c]) \/ UNCHANGED edgeVars
  /\ EndDoubted(c)
  /\ UNCHANGED <<kvVars, tableVars, historyVars, started>>

\* Broken variant: a failed verification is not fatal.
VerifyIgnored(c) ==
  /\ proc[c].pc = "verify"
  /\ \E verdict \in Verdicts(proc[c].target, proc[c].headers) :
       proc' = [proc EXCEPT ![c].pc = "record", ![c].verified = verdict]
  /\ UNCHANGED <<edgeVars, kvVars, tableVars, historyVars, trusted, started, faults>>

Verify(c) ==
  /\ proc[c].pc = "verify"
  /\ \E verdict \in Verdicts(proc[c].target, proc[c].headers) :
       IF verdict = "failed"
         THEN EndDoubted(c)
         ELSE /\ proc' = [proc EXCEPT ![c].pc = "record", ![c].verified = verdict]
              /\ UNCHANGED trusted
  /\ UNCHANGED <<edgeVars, kvVars, tableVars, historyVars, started, faults>>

-----------------------------------------------------------------------------
(* Records of what was published.                                          *)

\* A rollback is only recorded while the deployment it restores is still there.
OperationValid(p) ==
  p.operation = "rollback_apply" =>
    Activatable(p.rollbackOf) /\ row[p.rollbackOf].target = p.target

EvidenceOf(p) ==
  [version |-> p.version, verified |-> p.verified, headers |-> p.headers,
   operation |-> p.operation, rollbackOf |-> p.rollbackOf]

StaticRow(p) ==
  [NoRow EXCEPT !.status = "ready", !.target = "cloudflare_static",
                !.environment = p.environment, !.bundle = p.bundle, !.evidence = EvidenceOf(p)]

\* recordCloudflareStaticDeployment inserts a ready row, which it may activate next.
Record(c) ==
  /\ proc[c].pc = "record" /\ proc[c].target = "cloudflare_static"
  /\ OperationValid(proc[c])
  /\ Create(StaticRow(proc[c]))
  /\ IF proc[c].promote
       THEN /\ proc' = [proc EXCEPT ![c].pc = "activate", ![c].deployment = NewDeployment]
            /\ UNCHANGED trusted
       ELSE IF proc[c].op = "recover_static" THEN EndKeeping(c) ELSE EndDoubted(c)
  /\ UNCHANGED <<edgeVars, kvVars, wasActive, started, faults>>

RecordRefused(c) ==
  /\ proc[c].pc = "record"
  /\ ~OperationValid(proc[c])
  /\ EndDoubted(c)
  /\ UNCHANGED <<edgeVars, kvVars, tableVars, historyVars, started, faults>>

\* The transaction changes nothing when the row is gone.
ActivateOrFail(d) ==
  IF Activatable(d)
    THEN row' = Activated(d) /\ wasActive' = wasActive \cup {d}
    ELSE UNCHANGED <<row, wasActive>>

ActivateRecorded(c) ==
  LET d == proc[c].deployment IN
  /\ proc[c].pc = "activate"
  /\ ActivateOrFail(d)
  /\ IF Activatable(d) THEN EndTrusted(c, "yes") ELSE EndDoubted(c)
  /\ UNCHANGED <<edgeVars, kvVars, issued, bundleOf, started, faults>>

\* recordHybridEdgeEvidence: the stored manifest is read over the new one, so an
\* operation it names stays, and the block with the evidence is replaced.
Merged(stored, evidence) ==
  IF stored.operation = "deploy" THEN evidence
  ELSE [evidence EXCEPT !.operation = stored.operation, !.rollbackOf = stored.rollbackOf]

EndHybrid(c) ==
  IF proc[c].op = "recover_hybrid" THEN EndKeeping(c)
  ELSE IF proc[c].promote
         THEN EndTrusted(c, IF proc[c].seen THEN "yes" ELSE "early")
         ELSE EndDoubted(c)

\* Without a passing probe there is no evidence, and the command still succeeds.
RecordEvidence(c) ==
  LET d == proc[c].deployment IN
  /\ proc[c].pc = "record" /\ proc[c].target = "hybrid_edge"
  /\ OperationValid(proc[c])
  /\ IF proc[c].verified # "ok"
       THEN UNCHANGED row /\ EndHybrid(c)
       ELSE IF Activatable(d)
         THEN /\ row' = [row EXCEPT ![d].evidence = Merged(@, EvidenceOf(proc[c]))]
              /\ EndHybrid(c)
         ELSE UNCHANGED row /\ EndDoubted(c)
  /\ UNCHANGED <<edgeVars, kvVars, issued, historyVars, started, faults>>

-----------------------------------------------------------------------------
(* Workers KV.                                                             *)

\* Broken variant: the active keys are always written.
KVWritesAlwaysActive(activeKey) ==
  [i \in 1..(2 * Len(Domains)) |-> [domain |-> Domains[(i + 1) \div 2],
                                    key |-> IF i % 2 = 1 THEN "kept" ELSE "active"]]

\* The keys a publication writes, domain after domain.
KVWrites(activeKey) ==
  IF activeKey
    THEN [i \in 1..(2 * Len(Domains)) |-> [domain |-> Domains[(i + 1) \div 2],
                                          key |-> IF i % 2 = 1 THEN "kept" ELSE "active"]]
    ELSE [i \in 1..Len(Domains) |-> [domain |-> Domains[i], key |-> "kept"]]

\* refresh-edge-manifest and publish-edge-manifest without -active-key.
Refresh(c) ==
  /\ \E d \in Deployments :
       /\ Exists(d)
       /\ Begin(c, "refresh", [Idle EXCEPT !.pc = "publish", !.deployment = d, !.seen = row[d].active])
  /\ UNCHANGED <<edgeVars, kvVars, tableVars, historyVars, trusted, faults>>

\* publishSiteEdgeManifest: whether the active keys are written was decided by the
\* caller, from the row it read.
PublishManifest(c) ==
  LET d == proc[c].deployment IN
  /\ proc[c].pc = "publish"
  /\ IF Activatable(d)
       THEN /\ proc' = [proc EXCEPT ![c].pc = "kv", ![c].todo = KVWrites(proc[c].seen)]
            /\ UNCHANGED trusted
       ELSE IF proc[c].op = "refresh" THEN EndKeeping(c) ELSE EndDoubted(c)
  /\ UNCHANGED <<edgeVars, kvVars, tableVars, historyVars, started, faults>>

PutKVValue(write, d) ==
  IF write.key = "kept"
    THEN kept' = kept \cup {<<write.domain, d>>} /\ UNCHANGED active
    ELSE active' = [active EXCEPT ![write.domain] = d] /\ UNCHANGED kept

PutKV(c) ==
  /\ proc[c].pc = "kv" /\ proc[c].todo # <<>>
  /\ PutKVValue(Head(proc[c].todo), proc[c].deployment)
  /\ proc' = [proc EXCEPT ![c].todo = Tail(@)]
  /\ UNCHANGED <<edgeVars, tableVars, historyVars, trusted, started, faults>>

\* One key fails, with or without effect, and the others are still written.
PutKVFails(c) ==
  /\ proc[c].pc = "kv" /\ proc[c].todo # <<>>
  /\ Fault
  /\ PutKVValue(Head(proc[c].todo), proc[c].deployment) \/ UNCHANGED kvVars
  /\ proc' = [proc EXCEPT ![c].todo = Tail(@), ![c].failed = TRUE]
  /\ UNCHANGED <<edgeVars, tableVars, historyVars, trusted, started>>

\* Broken variant: a Worker that is there already is not uploaded again.
PublishedReusingWorker(c) ==
  /\ proc[c].pc = "kv" /\ proc[c].todo = <<>>
  /\ IF proc[c].failed THEN EndDoubted(c)
     ELSE IF proc[c].op = "refresh" THEN EndKeeping(c)
     ELSE /\ proc' = [proc EXCEPT ![c].pc = IF live["edge"] = None THEN "upload" ELSE "verify",
                                 ![c].version = live["edge"]]
          /\ UNCHANGED trusted
  /\ UNCHANGED <<edgeVars, kvVars, tableVars, historyVars, started, faults>>

\* Anything but "ok" ends the command; a deploy goes on to the Worker.
Published(c) ==
  /\ proc[c].pc = "kv" /\ proc[c].todo = <<>>
  /\ IF proc[c].failed THEN EndDoubted(c)
     ELSE IF proc[c].op = "refresh" THEN EndKeeping(c)
     ELSE Goto(c, "upload") /\ UNCHANGED trusted
  /\ UNCHANGED <<edgeVars, kvVars, tableVars, historyVars, started, faults>>

-----------------------------------------------------------------------------
(* promote-deployment, rollback-apply and delete-deployment.               *)

\* Broken variant: any ready deployment will do.
MayPromoteReady(d) == Activatable(d)

\* The handler decides by the row it reads: a Cloudflare deployment can only be
\* promoted when it is active already.
MayPromote(d) ==
  Activatable(d) /\ (row[d].active \/ row[d].target = "origin_assisted")

Promote(c) ==
  /\ \E d \in Deployments :
       /\ MayPromote(d)
       /\ Begin(c, "promote", [Idle EXCEPT !.pc = "promote", !.deployment = d, !.target = row[d].target])
  /\ UNCHANGED <<edgeVars, kvVars, tableVars, historyVars, trusted, faults>>

\* The domains stay with the Worker when an origin deployment becomes active.
ActivatePromoted(c) ==
  LET d == proc[c].deployment IN
  /\ proc[c].pc = "promote"
  /\ ActivateOrFail(d)
  /\ IF proc[c].target = "origin_assisted" THEN EndDoubted(c) ELSE EndKeeping(c)
  /\ UNCHANGED <<edgeVars, kvVars, issued, bundleOf, started, faults>>

\* buildRollbackPlan: a deployment that is ready, and not active already.
RollbackCandidate(d) == row[d].status = "ready" /\ ~row[d].active

\* Broken variant: any source directory will do.
RollbackReadyAnySource(d, b) ==
  /\ RollbackCandidate(d)
  /\ row[d].environment = "production"
  /\ row[d].evidence.version # None /\ row[d].evidence.verified = "ok"

\* cloudflareRollbackMissingEvidence and validateRollbackApply*Source.
RollbackReady(d, b) ==
  /\ RollbackCandidate(d)
  /\ row[d].environment = "production"
  /\ row[d].evidence.version # None /\ row[d].evidence.verified = "ok"
  /\ row[d].bundle = b

\* The deploy command a rollback runs.
RollbackOf(d, b) ==
  [Idle EXCEPT !.target = row[d].target, !.bundle = b, !.promote = TRUE,
               !.headers = row[d].evidence.headers,
               !.operation = "rollback_apply", !.rollbackOf = d]

RollbackStatic(c) ==
  /\ \E d \in Deployments, b \in Bundles :
       /\ row[d].target = "cloudflare_static" /\ RollbackReady(d, b)
       /\ Begin(c, "rollback", [RollbackOf(d, b) EXCEPT !.pc = "upload"])
  /\ UNCHANGED <<edgeVars, kvVars, tableVars, historyVars, trusted, faults>>

RollbackHybrid(c) ==
  \E d \in Deployments, b \in Bundles :
    /\ row[d].target = "hybrid_edge" /\ RollbackReady(d, b)
    /\ CreateAndWait(c, "rollback", RollbackOf(d, b))

RollbackOrigin(c) ==
  /\ \E d \in Deployments :
       /\ row[d].target = "origin_assisted" /\ RollbackCandidate(d)
       /\ Begin(c, "rollback", [Idle EXCEPT !.pc = "promote", !.deployment = d, !.target = row[d].target])
  /\ UNCHANGED <<edgeVars, kvVars, tableVars, historyVars, trusted, faults>>

\* Metadata only: versions, domains and KV entries stay.
Delete(c) ==
  /\ \E d \in Deployments :
       /\ row[d].status \in {"ready", "failed"} /\ ~row[d].active
       /\ Begin(c, "delete", [Idle EXCEPT !.pc = "delete", !.deployment = d])
  /\ UNCHANGED <<edgeVars, kvVars, tableVars, historyVars, trusted, faults>>

\* The statement asks again whether the row is active.
DeleteRow(c) ==
  LET d == proc[c].deployment IN
  /\ proc[c].pc = "delete"
  /\ row' = IF row[d].active THEN row ELSE [row EXCEPT ![d] = NoRow]
  /\ EndKeeping(c)
  /\ UNCHANGED <<edgeVars, kvVars, issued, historyVars, started, faults>>

-----------------------------------------------------------------------------
(* Recovery of what was published and not recorded.  The operator names a  *)
(* version that was uploaded, and its directory.                           *)

FirstDomainPasses(required) == Domains # <<>> /\ ProbeMayPass(Domains[1], required)

RecoverStatic(c) ==
  /\ \E v \in DOMAIN writes :
       LET w == writes[v] IN
       /\ w.worker = "static"
       /\ FirstDomainPasses(StaticRequirements(w.headers))
       /\ Begin(c, "recover_static",
            [Idle EXCEPT !.pc = "record", !.target = "cloudflare_static", !.bundle = w.bundle,
                         !.headers = w.headers, !.version = v, !.verified = "ok"])
  /\ UNCHANGED <<edgeVars, kvVars, tableVars, historyVars, trusted, faults>>

RecoverHybrid(c) ==
  /\ \E v \in DOMAIN writes :
       LET w == writes[v] IN
       /\ w.worker = "edge"
       /\ Activatable(w.deployment)
       /\ FirstDomainPasses(HybridRequirements)
       /\ Begin(c, "recover_hybrid",
            [Idle EXCEPT !.pc = "record", !.target = "hybrid_edge", !.bundle = w.bundle,
                         !.headers = w.headers, !.version = v, !.verified = "ok",
                         !.deployment = w.deployment, !.operation = "writeback"])
  /\ UNCHANGED <<edgeVars, kvVars, tableVars, historyVars, trusted, faults>>

\* activate-cloudflare-static: the evidence is complete, the directory is the one
\* it names, and a probe of the domain passes, whatever version that serves.
ActivateStatic(c) ==
  /\ \E d \in Deployments :
       /\ row[d].target = "cloudflare_static" /\ Activatable(d)
       /\ row[d].evidence.version # None
       /\ FirstDomainPasses(StaticRequirements(row[d].evidence.headers))
       /\ Begin(c, "activate_static", [Idle EXCEPT !.pc = "activate_recorded", !.deployment = d])
  /\ UNCHANGED <<edgeVars, kvVars, tableVars, historyVars, trusted, faults>>

ActivateEvidence(c) ==
  /\ proc[c].pc = "activate_recorded"
  /\ ActivateOrFail(proc[c].deployment)
  /\ EndDoubted(c)
  /\ UNCHANGED <<edgeVars, kvVars, issued, bundleOf, started, faults>>

-----------------------------------------------------------------------------
\* A call fails, its answer is lost or too late, or the operator gives up.
Interrupted(c) ==
  /\ proc[c].pc # "idle"
  /\ Fault
  /\ EndDoubted(c)
  /\ UNCHANGED <<edgeVars, kvVars, tableVars, historyVars, started>>

Server(d) == Build(d) \/ PromoteBuilt(d) \/ BuildFails(d)

Deploy(c) ==
  \/ DeployStatic(c) \/ DeployBuilt(c) \/ SeeBuilt(c) \/ CandidatesTimeOut(c)
  \/ PublishManifest(c) \/ PutKV(c) \/ PutKVFails(c) \/ Published(c)
  \/ Upload(c) \/ UploadFails(c) \/ Verify(c)
  \/ Record(c) \/ RecordRefused(c) \/ ActivateRecorded(c) \/ RecordEvidence(c)

Repair(c) ==
  \/ PublishStatic(c) \/ Refresh(c)
  \/ Promote(c) \/ ActivatePromoted(c)
  \/ RollbackStatic(c) \/ RollbackHybrid(c) \/ RollbackOrigin(c)
  \/ Delete(c) \/ DeleteRow(c)
  \/ RecoverStatic(c) \/ RecoverHybrid(c) \/ ActivateStatic(c) \/ ActivateEvidence(c)
  \/ Interrupted(c)

Next ==
  \/ \E d \in Deployments : Server(d)
  \/ \E c \in Commands : Deploy(c) \/ Repair(c)

Spec == Init /\ [][Next]_vars

-----------------------------------------------------------------------------
(* reconcile-deployment.                                                   *)

\* loadReconcileDeployment: an active production row, or any active one.
Reconciled ==
  LET production == {d \in ActiveRows : row[d].environment = "production"}
  IN IF production # {} THEN production ELSE ActiveRows

ReconcileRequirements(d) ==
  IF row[d].target = "cloudflare_static" THEN StaticRequirements(row[d].evidence.headers)
  ELSE HybridRequirements

Settled(d) ==
  row[d].target = "origin_assisted" \/ FirstDomainPasses(ReconcileRequirements(d))

-----------------------------------------------------------------------------
(* Properties.                                                             *)

\* Metadata and edge tell of the same publication: the active row's bundle is what
\* every domain serves and, with a manifest, what the active keys point to.
EdgeAgrees ==
  \E d \in ActiveRows :
    \A dom \in DomainNames :
      /\ route[dom] = WorkerOf(row[d].target)
      /\ writes[Serving(dom)].bundle = row[d].bundle
      /\ row[d].target = "hybrid_edge" => active[dom] = d

\* Every variable has its type; what goes on to be recorded has no failed verdict
\* (the deploy commands return the error of verifyCloudflareStaticPublish).
TypeOK ==
  /\ issued \in 0..MaxDeployments
  /\ \A d \in Deployments :
       /\ row[d].status \in {"none", "queued", "ready", "active", "failed"}
       /\ row[d].target \in {"none", "cloudflare_static", "hybrid_edge", "origin_assisted"}
       /\ row[d].pending \in {"nothing", "build", "build_promote", "promote"}
       /\ row[d].bundle \in Bundles \cup {NoBundle}
       /\ row[d].evidence.verified \in {"none", "ok", "warning", "skipped"}
  /\ \A v \in DOMAIN writes : writes[v].worker \in WorkerNames /\ writes[v].bundle \in Bundles
  /\ live \in [WorkerNames -> 0..Len(writes)]
  /\ route \in [DomainNames -> WorkerNames \cup {"none"}]
  /\ active \in [DomainNames -> 0..issued]
  /\ kept \subseteq DomainNames \X (1..issued)
  /\ \A c \in Commands : proc[c].verified \in {"none", "ok", "warning", "skipped"}
  /\ wasActive \subseteq 1..issued
  /\ trusted \in {"no", "early", "yes"}

\* What a deployment's evidence claims was uploaded: the version it names was, to
\* its Worker, with its bundle and, with a manifest, for the deployment itself
\* ("Worker assets must move before metadata is allowed to claim").
EvidenceIsOfAWrite ==
  \A d \in Deployments :
    LET e == row[d].evidence IN
    e.verified # "none" =>
      /\ e.version \in DOMAIN writes
      /\ writes[e.version].worker = WorkerOf(row[d].target)
      /\ writes[e.version].bundle = row[d].bundle
      /\ row[d].target = "hybrid_edge" => writes[e.version].deployment = d

\* A publication that ran alone, saw its deployment active and reported success
\* leaves edge and metadata in agreement, and what may run after it without
\* publishing (refreshes, promotions, deletions, recoveries) keeps them so; as
\* long as the files carry the edge header, reconcile-deployment may settle it.
AgreementKept ==
  trusted = "yes" /\ Busy = {} =>
    /\ EdgeAgrees
    /\ \A d \in Reconciled :
         Domains # <<>> /\ row[d].evidence.headers # "disabled"
           /\ writes[Serving(Domains[1])].headers # "disabled" => Settled(d)

\* An active key of Workers KV only ever names a deployment that was active, even
\* though the row was read several calls before the key is written.
ActiveManifestWasActive ==
  \A dom \in DomainNames : active[dom] # None => active[dom] \in wasActive

\* A deployment recorded as the rollback to another holds the bundle of that one.
RollbackRestores ==
  \A d \in Deployments :
    LET restored == row[d].evidence.rollbackOf IN
    restored # None => row[d].bundle = bundleOf[restored]

\* "Worker assets, deployment KV manifest and active KV manifest must be
\* republished together": whenever the last publication that ran alone reported
\* success, the edge agrees with the active row.
SuccessMeansAgreement ==
  trusted # "no" /\ Busy = {} /\ ~Building => EdgeAgrees
=============================================================================
