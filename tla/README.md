# Super CDN in TLA+

Models of the Super CDN server, checked with TLC and proved about with TLAPS.
File names are relative to the repository root; `src/` stands for that root in
`PROJECT.json`, which maps every definition to the lines it models.

    tlc -workers 2 -config MCJobQueue.cfg MCJobQueue.tla     # one run
    tlapm JobQueue_proofs.tla                                # one proof module

## 1. The system

`supercdn` is one Go process. It keeps its metadata in SQLite, opened with a
single connection, so that a statement or a transaction is atomic and nothing
longer is. It stores bytes at *targets* (local disk, AList, R2, Pinata, and
"resource libraries" made of several of them). HTTP requests are served
concurrently; background work is a table of jobs drained by
`max_active_transfers` loops (5 by default) in the same process. There is no
lock above the database: handlers read rows, call targets for seconds or
minutes, and write rows by id. That is where nearly all that is hard comes from.

### Inventory

| Component | State | Operations | Hard part | What makes it correct |
|---|---|---|---|---|
| Job queue (`server/jobs.go`, `db/db.go`) | `jobs` | create, claim, run, retry, finish, fail | several loops, crash between claim and outcome, read-back after commit | one loop per row; retry budget; every job settles |
| Uploads and replication (`server/upload_services.go`, `object_replication.go`, `object_ops_handlers.go`, `switch_handlers.go`) | `objects`, `replicas`, blobs at targets | upload, replicate, refresh, repair, switch primary | long copies between reads and writes, overwrites of one path, targets that fail with or without effect | ready replicas are backed and current; pending ones resolve |
| Deletion (`server/site_delete.go`, `asset_bucket_handlers.go`) | the same | delete object, deployment, site, bucket | races with copies, half-failed deletes | no orphaned blob |
| Site deployments (`server/site_deploy_handlers.go`, `db/site_deployments.go`) | `site_deployments`, `site_deployment_files`, staged bundle, objects | create, build, record, promote, activate, delete | job against handlers, check-then-act on `active` | one complete live deployment |
| Quotas (`db/quotas.go`, `server/quota_handlers.go`) | `user_upload_quotas`, `user_quota_requests` | reserve, release, request, decide, set | parallel uploads, late decisions, failed releases | never above the limit; every upload counted |
| Sites and domains (`server/site_handlers.go`, `site_domain_services.go`) | `sites`, `domains` | create, bind, offline, online, delete, sync DNS and routes | read-modify-write of whole lists, a site deleted while it is used | a host belongs to one site and outlives none; no binding lost |
| Resource libraries, limits, health (`storage/resource_library.go`, `limited.go`, `server/resource_services.go`) | bytes used per day (in memory), `resource_library_health` | put, reserve, release, probe, check | reservations on failure and over midnight, visibility delay, concurrent health writes | the allowance is what was stored; failures counted |
| Serving and routing (`server/public_serving.go`, `routing_*.go`) | reads the tables | choose a source, stream, redirect, fail over | recorded health and copies change during a request | only ready sources; a source is found if there is one |
| Edge worker (`worker/src/index.ts`) | manifest in Workers KV, its cache | route, fail over, static assets, origin | four switches, the same routing written again, cache writes after the answer | agrees with the server; assets never reach the origin |
| Edge manifests (`server/edge_manifest_handlers.go`) | Workers KV: active and deployment keys | build, publish | written long after the row was read | an active key names what was active |
| Command line client (`cmd/supercdnctl`) | Workers, their domains, evidence on rows | publish, roll back, recover, promote, reconcile | a dozen calls to three places without a transaction | evidence is true; edge and metadata agree |
| Cloudflare (`internal/cloudflare/client.go`, `server/cloudflare_r2_services.go`) | settings at Cloudflare | sync records, routes, CORS, domains; provision a bucket | look and change are two calls, with others in between | reports are true; nothing is replaced unasked |
| Authentication (`server/auth*.go`, `db/auth.go`) | users, invites, tokens | invite, accept, issue, revoke | one transaction each | out of scope |
| Garbage collection (`server/gc_handlers.go`) | staging files | delete by age | a staged bundle whose job waits | out of scope |

How they interact: handlers insert jobs (`CreateJob`), loops call
`replicateObject` and `processSiteDeployment`; the latter uploads every file of
a bundle through `putObjectFromFile`, which inserts replicate jobs in turn.
Handlers that upload reserve quota first. Deployments, buckets and assets
delete objects through the same function. Uploads pass the limits of their target
before a byte is sent. Serving only reads. At the edge a Worker answers from a
manifest that the server exports and the client publishes, from Cloudflare's
static assets, and from the server; the client is what keeps Worker, manifest and the
server's rows together, one call after the other.

`PROJECT.json` lists all components with what is and is not modelled, and under
`hazards` each place where something can go wrong that a test would hardly reach.

## 2. Modules

| Module | Models | Uses |
|---|---|---|
| `JobQueue` | the queue and its loops; what a job does is a choice | |
| `Replication` | one object: row, replica rows, blobs, uploads, jobs, refresh, repair, switch, delete | INSTANCE `JobQueue` |
| `SiteRelease` | what deployments promise a site (abstract) | |
| `SiteDeployments` | the deployments of one site and their build jobs | INSTANCE `JobQueue`, `SiteRelease` |
| `UploadQuota` | quotas, requests for a higher one, uploads in flight | |
| `Selections` | lists that are filtered and sets that are sorted (operators only) | |
| `Routing` | the choice of a target, in Go and in TypeScript (operators only) | EXTENDS `Selections` |
| `Serving` | a public request through Worker, server and storage | EXTENDS `Routing` |
| `EdgePublish` | client commands that publish, roll back, recover and record at the edge | |
| `Libraries` | limits, the daily allowance, probes and health rows | EXTENDS `Selections` |
| `Sites` | sites, their hosts, and what goes when a site is deleted | |
| `CloudflareSync` | settings at Cloudflare that the server brings in line | |
| `DataTheorems` | facts about sums over sets, and about the lists of `Selections` | EXTENDS `Selections` |
| `JobQueue_proofs`, `EdgePublish_proofs` | theorems and their proofs | EXTENDS their module |
| `UploadQuota_proofs`, `Serving_proofs` | the same | EXTENDS their module, `DataTheorems` |
| `Replication_proofs`, `SiteDeployments_proofs` | the same | EXTENDS their module, INSTANCE `JobQueue_proofs` |
| `Hosting_proofs` | the same, of `Libraries`, `Sites` and `CloudflareSync` | EXTENDS `MCHosting`, `DataTheorems` |
| `MC*` | values for TLC | EXTENDS their module |

Some operators are preceded by a comment that calls them a *broken variant*.
No specification uses them. Each is a plausible bug in the definition that
follows it; substituted for it, it makes TLC violate the property that
`PROJECT.json` pairs with it, which shows that the property depends on that line.

### Conventions

*Processes.* A handler or a running job is a record in `proc` (or `worker`,
`slot`): a program counter and what it has read so far. Every database
statement, transaction or call to a target is one step, in the order of the
code. Consecutive reads with nothing decided between them are one step.
Everything else may happen between any two steps.

*Failures.* A call to a target may fail at any time, and a failed put or
delete may or may not have taken effect. These are ordinary steps and are never
bounded. `faults` counts the rest and is bounded by `MaxFaults`: database
errors, a client that goes away (its context is cancelled and the handler
returns at its next statement), and `Restart`: all processes are gone, the tables
and blobs stay.

*History variables.* Requests already served (`started`) only bound the state
space. `acked`, `overlapped`, `purged`, `cleaned` and `committed`, and those that a module declares
as history (`wasActive`, `bundleOf`, `trusted`, `published`, `streak`, `raced`,
`asked`, `overtaken`, `promised`), record what happened for the properties; no action
decides by them.

### JobQueue

`jobs` is the table, a sequence, because ids grow and no code deletes a
job. `worker[w]` is a loop's program counter and the row it loaded.
`NextQueuedJob`, `NoQueuedJob`, `RunJob`, `FinishJob`, `FailJob`, `Tick` are
`jobLoop` line by line; `ClaimFails`, `ReadBackFails`, `OutcomeNotWritten` are
the error paths that only log; `Restart` is `StartJobs`, which looks at no row.

### Replication

`object`, `replica`, `blob` are the row, the status of each target's replica row
and what each target stores under the object's key. `replica[t] = "none"` means
that there is no row. Foreign keys are enforced: `Upsert` for a deleted object
fails, and deleting the object deletes its replica rows. Not modelled:
locators and IPFS pins, objects whose key changes, `delete_remote=false`
(which leaves blobs on purpose), dry runs, and the transfer semaphore, which only delays
steps. Targets are visited in row order (the delete sorts them by name).

### SiteDeployments and SiteRelease

`row[d]` has the columns of `site_deployments` that some decision reads; `files` are the
rows of `site_deployment_files`; `objects` the stored objects (one per file,
plus the bundle and the manifest), without the replicas that `Replication` has.
`ActivateTx` is the one transaction of this part. Recovery of a
Cloudflare record inserts the same row as `RecordCloudflareStatic`.
`SiteRelease` has two variables, the finished builds and the current one, and
three actions. Not modelled: the site's own row, domains and deletion,
evidence for hybrid deployments, expiry, and garbage collection of staged bundles (a
bundle that cannot be read is one of the ways `BuildFails`).

### UploadQuota

`quota[u]` is the row of a user (or the default when there is none), `asked`
the table of requests, `slot[s]` an upload or a request in progress.
Reservation, release, decision and change of a limit are one transaction each;
creating a request is a read and then an insert. `Keep` is the handler's
`quotaCommitted = true`. The administrator's own uploads reserve nothing and
are left out. Integers are 64 bits wide in the code, but no sum can pass the
limit: a reservation is compared with `max - used` before it is added.

### Selections, Routing and Serving

`Only` and `InOrder` are what the loops that filter a slice and `sort.SliceStable` do in Go,
and `filter` and `sort` in TypeScript. Both are defined by counting: at place `k` stands the
element that `k - 1` others come before. `PolicyCandidates` to `SelectRoutingCandidate` are the Go functions of
`routing_selection.go`, `WorkerSelect` and what follows their TypeScript
counterparts; `RouteForFile` is what a manifest says of a file.

The two halves do not read the same text. Go hashes the decoded path as the bytes of
its UTF-8 (`ServerKey`, `Hash`) and orders names byte by byte (`Rank`); the Worker hashes
`url.pathname`, still percent-encoded, by `charCodeAt` (`Encoded`, `WorkerKey`, `WorkerHash`),
and orders names by `localeCompare`, which may take two for the same (`WorkerRank`). It also looks a
file up by the encoded path in a manifest that has the plain one, and so misses it
(`ManifestPath`). Paths and names are not spelt out: `"spaced"` is an asset that a URL encodes,
and all that is assumed of the hashes is that they agree on ASCII (`HashAssumption`).

In `Serving` one
request at a time passes the Worker (`Arrive`, `Manifest*`, `Fetch`, `Static`,
`MatchCache`, `PassOn`, `FollowRedirect`, `FetchStorage`), the server (`ServeSite`,
`ServePreview`, `ServeObject`, `ServeDownload`, `FindDeployment`, `SendFile`, `Stream`) and storage,
one call a step. `req` holds what it has found so far; `late` the writes to the cache
that `waitUntil` has not made yet. Between any two steps the world may change:
activation, offline, a replica's row, a health check, an outage, a switch of the primary,
a new manifest, a purge. A purge covers the URLs of the deployment's files only, unencoded, as
the code does; whether Cloudflare takes such a URL for the cached one is left open. With resource failover
and no policy the two halves differ by design
(the manifest leaves the choice to the Worker), so `HalvesAgree` leaves that out, and
clients without an address header, for which the server hashes the peer's. Evaluating
a policy is one step. Abstracted: bytes, headers but those that decide, paths that are not
in their cleaned form, more than three redirects of storage.

### EdgePublish

`row[d]` are the columns of `site_deployments` that the commands read, with the
evidence of Cloudflare deployments; `writes` are the versions uploaded to Workers, `live` which one each
runs, `route` the Worker of each domain; `active` and `kept` are the keys of Workers KV. A
command is a record in `proc`, a step is one call to the server, to Cloudflare or to a probe.
`Build` and `PromoteBuilt` are the job that builds a deployment, in two
statements. `Interrupted` ends a command at any call. Assumed: the operator of a
recovery names what is really there; a command that refuses at once, and a dry run, is
no step; default Worker names; a probe passes only if what it requires is served,
but may fail at any time; evidence is recorded in one step. The explicit `-active-key` flag is left out.

### Libraries

`usage` is the map `dailyUsage`, in memory: a restart gives the allowance back.
`upload[u]` passes the limits (`StartUpload`), reserves the day's bytes
(`Reserve`), sends, waits until the file is visible, and releases what it
reserved if that fails. Midnight (`NextDay`) falls anywhere in between. An end-to-end probe
goes on to read, delete and drop what it put, and undoes it in reverse when a
step fails. `check[c]` probes the bindings of a library one after the other and
raises each row's failure count by a read and a write. `overclock_mode` ignores every
limit. The file of a put that timed out may appear without being charged, and deleting a
file gives nothing back: both are what the code does.

### Sites

`bound` is the table of hosts, `site` that of sites, a deployment an artifact,
a file and a manifest with their rows. A request of `request` is a handler, one
statement a step. `Merged` and `SetDomains` are the read-modify-write of the
list of hosts. Three kinds of requests write it: creating, binding and `StartRecord`, which records a Cloudflare
deployment and adds its hosts; an upload that found no site writes the empty list. `StartDelete` to `DropSite` delete a site: list the deployments, delete
their objects one by one (each may fail, which ends nothing), then all rows in one transaction.
All requests are of the site's own workspace. A delete may leave objects of deployments
that were being made when it listed them, or whose file rows another delete took first.

### CloudflareSync

`at` is what each setting is at Cloudflare; `sync[r]` a request that looks at one
setting after the other (routes: at all of them at once) and changes it, with what it has seen,
done (`ok`) and replaced. `Planned` is the decision every sync makes; `Outside`
is everybody else. A call may fail, with or without effect. Assumed of Cloudflare:
what it refuses (`Legal`, `Outcomes`), and that nobody deletes the bucket. Of several records of one type the code
compares the first that Cloudflare lists; the list has no order here, so any may be it. The listing of Worker routes is complete
here; the code asks for one page of 100 (`client.go` 646), so that in a zone with more it may take a route
for missing, and be refused when it creates it. Several accounts
are worked off independently, so one bucket stands for all.

## 3. What TLC checks

| Run | Instance | Properties | States |
|---|---|---|---|
| `JobQueue` | 2 loops, 3 jobs, 3 attempts, 1 fault | `TypeOK ExclusiveClaim HeldRowIsOwn RetryBudget NoSilentLoss SettledStays EveryJobSettles` | 0.24 M |
| `Overwrite` | 1 loop, 2 uploads beside 1 repair, 2 contents, 1 backup, 2 attempts, 1 fault | `ReadyIsBacked SettledReplicasCurrent PendingHasJob` | 1.6 M |
| `Lifecycle` | 1 loop, all policies, 2 uploads or deletes beside one refresh, switch, repair or delete, 1 fault | `TypeOK NoOrphans` | 2.5 M |
| `Resolve` | 1 loop, all policies, 1 upload beside a repair or a switch, 3 attempts, fair | `PendingResolves` | 0.04 M |
| `StaleReady` | 2 loops, 2 uploads one after the other, no fault | violates `SettledReplicasCurrent` | |
| `SiteDeployments` | 2 deployments, 1 loop, 3 publishing requests beside 2 promoting or deleting ones, 1 fault | `TypeOK ActiveAgrees LiveIsComplete DeletedLeavesNothing WaitingHasJob ImplementsRelease` | 1.0 M |
| `ActiveServable` | as above | violates `ActiveDeploymentServable` | |
| `UploadQuota` | 2 users, 2 slots, sizes 0..2, limits 0, 1, 3, 2 requests, 1 fault | `TypeOK WithinQuota Accounted DecidedOnce` | 0.64 M |
| `EdgePublish` | 2 operators, of the first 2 commands of 5 kinds, of the second 1 of 6; 3 deployments, 2 uploads, 2 bundles, 1 domain, 1 fault | `TypeOK EvidenceIsOfAWrite AgreementKept ActiveManifestWasActive RollbackRestores` | 0.83 M |
| `ReadyBeforeActive` | 1 operator, 2 hybrid deploys, 2 domains, no fault | violates `SuccessMeansAgreement` | |
| `Serving` | 13 configurations, 14 requests, 3 targets, 2 deployments, 1 change of the world, 1 late cache write | `TypeOK HalvesAgree FallbackOnlyLast GivesUpLast AssetsStayAtTheEdge AnswersWereLive` | 0.88 M |
| `Hosting` | `Libraries`: 2 uploads, or 1 and a check, or 4 checks; `Sites`: 3 requests of 2 to 4 kinds, uploads and records among them; `CloudflareSync`: 2 requests, or 1 and 3 changes from outside | `TypeOK DailyUsage HealthCounted AppendsAccumulate DeletedSiteIsGone SyncsKeepTheirWord` | 0.80 M |

What the properties say is in the comment before each. In short:

* **Queue.** A row is never run by two loops; what a loop holds agrees with the
  table, so the outcome it writes by id overwrites nobody's; a job has at most
  its attempts and is given up only when they are used up; a settled row never changes;
  without a fault no running row is without a loop; and every job settles.
  The exception is written into the properties because it is what the code
  does: a row left `running` by a fault stays so for ever.
* **Replication.** A ready row has a blob behind it; after overwrites have settled, a ready
  replica whose newest job succeeded has the newest content; a pending row has somebody
  who will resolve it and is resolved in the end; a delete leaves no blob
  anywhere. Each has an exception for something the code does not attempt, named in its
  comment: a refresh takes any blob for the right one, a repair of the
  primary may copy over a newer upload, a write beside a delete may leave an orphan.
* **Deployments.** At most one is live; what is live is complete; status and
  `active` agree; a waiting deployment has a job; a deleted one leaves no
  object; and all of it together implements `SiteRelease`: publishing
  replaces one finished build by another in one step and never leaves a site without one.
* **Quotas.** Use never passes the limit, every upload that was kept or is
  under way is counted, and a request is decided once.
* **Edge publication.** Evidence names a version that was uploaded for that deployment
  and from its bundle; a publication that ran alone and saw its deployment
  active leaves Worker, manifest and rows in agreement, and no promotion,
  refresh, delete or recovery disturbs it; an active key never names a deployment that
  was not active; a rollback restores the bundle it names. Publications that overlap each
  other are excluded from agreement: nothing in the code orders them.
* **Serving.** An up-to-date manifest sends a client where the server would, wherever both read the same;
  a source marked `fallback_only` is used last; an error is given only if no target
  offered was up all along; an asset never reaches the Go server while static
  assets are on (`docs/release-v0.3.0.md`, `docs/cli-reference.md` 956, `README.md` 663); answers
  are of a deployment that was active during the request. `HalvesAgree` is about assets whose path the URL
  spells as it is, policies with an ASCII name, and sources of one priority and weight whose names both halves order
  alike (`ReadAlike`). Outside these the code disagrees, and each premise is needed: without any one of them TLC finds the
  property violated in this run, whose configurations have an asset that is encoded, a policy whose
  name is not ASCII, tied names, and names in another order. An encoded asset is a miss at the edge and
  a file at the server. `README.md` 435 offers `route-explain`, which is the server's half, to reproduce
  load-balance hashing at Cloudflare: it does so within these premises.
* **Hosting.** The day's allowance is the sum of what was put that day, over
  midnight and failures; a failure count is the number of failures in a row; a site has
  the hosts its requests gave it and none outlives it; a deleted site leaves nothing
  of its built deployments; a sync's report is true when it is given and it takes
  nothing away unasked. Three exceptions are what the code does: a list written from a stale
  read (`overtaken`), a health row written from one (`raced`), and a CORS policy that appears between look and put.

### The three violations

`StaleReady`: upload A queues a job; a loop reads A's bytes from the primary;
upload B overwrites the object and queues a second job; another loop copies B to
the backup; then the first loop's put lands. The backup has A's bytes, its row
says ready, both jobs are done. The README (line 431) says that failover is
backed by content that exists on a ready backup replica. With one loop
(`Overwrite`) the property holds, faults included.

`ActiveServable`: a delete with `delete_objects` passes the check on `active`;
the deployment's job (or a promotion) then makes it live; the delete removes its
files and is refused only at the last statement. `docs/cli-reference.md` (line
947) says that an active production deployment cannot be deleted. `LiveIsComplete`
is the same property for deployments no such delete has touched, and holds.

`ReadyBeforeActive`: the build job marks a deployment ready and activates it in the next
statement; the client polls in between, takes ready for done, and publishes its
manifest with `ActiveKey: false`. The Worker moves, the probe passes, evidence is recorded,
the command reports success, and the active key was never written.
`cmd/supercdnctl/rollback_commands.go` (line 627) says that Worker, deployment manifest and
active manifest must be republished together. `AgreementKept` is the same for publications that saw their deployment active.

### Bounds, and why they are enough

Two of everything that competes (loops, request slots, uploads, deployments,
users) gives every pairwise race, and the violations above need no more.
`SiteDeployments` and the passing replication runs have one loop. For deployments a second one
would add builds of different deployments, which share only the transaction
`ActivateTx`; promotions race with that already. For replication, two loops break the one
property that depends on it (`StaleReady`).
One backup: targets are handled one after another and share no state but the
object's row, and the source of a copy is already chosen between two.
Three attempts instead of five: `RetryBudget` is about first, middle and
last; in `Overwrite` and `Lifecycle` two keep the state space small. One fault: each
is followed by everything that can happen after it; two faults do the same damage twice. One file
per bundle: parts are stored one after another, and bundle, file and manifest
already are three. In `EdgePublish` the second operator runs one command, beside any
step of two of the first: enough for each pair that competes; a third
deployment is there to be rolled back to. `Serving` has one request at a
time because requests share nothing but the cache, which outlives them, and one change of the world
because a request looks at each thing once. Its configurations cover every switch, policy
mode and failover at least once, and every action of the module. `Hosting` is one run of three
modules that share no state; a behaviour is about one of them. Three
requests about two sites are a delete beside a deploy with one more before; two puts
and two days are every order of reserving, midnight and release; four checks count to two
failures and back, and overlap; two Cloudflare requests meet at each setting.
Sets that no behaviour uses together share their model values, so that symmetry is cheap.
Contents and payloads are interchangeable; symmetry is used
for contents, in runs without temporal properties. `EdgePublish` and `Hosting` stop when their requests are used up (`CHECK_DEADLOCK FALSE`).

### Fairness

`JobQueue!FairSpec` has weak fairness of each loop's steps: a goroutine that can run is run, the
ticker fires, and `runJob` returns. `Replication!FairSpec` adds that of requests that are in progress
(never of their arrival). Outcomes of calls are never
assumed to be good: fairness is of the whole disjunction, so a target may fail for ever, and the
properties still hold because attempts are bounded. One assumption goes
beyond the scheduler: a call to a target returns. The HTTP clients
have timeouts for it, but the copy of a response body has none.
No fault is ever assumed to happen. The runs of the other modules check safety only and assume no fairness.

## 4. What is proved

Every invariant and every action property that a passing run checks, two of them under a premise
stated below, for every value of the constants that the `ASSUME`s of the modules allow; TLC evaluates each of
those in a run. They say:

* *Bounds* are natural numbers, `MaxAttempts` is positive; loops are not requests.
* *Quotas.* Sizes and limits are natural, the default limit is positive.
* *Replication.* The backups are the targets but the primary, each once; no upload has the
  content that stands for nothing.
* *Deployments, edge.* A bundle's files and the domains are sequences of names; forms and command
  arguments are ones the code accepts.
* *Routing.* A route profile is a list of targets, not empty and none twice; no client's address is empty;
  bytes order the names of targets without ties (`Rank` is injective), `localeCompare` in any way; the two
  hashes are equal for ASCII keys and otherwise arbitrary; a policy's sources are targets, none twice, as the
  server demands when it stores one.
* *Libraries.* A target has bindings, each once, a plain store only itself; a daily limit is a
  natural number or none; what is uploaded is not empty.
* *Sites, Cloudflare.* Every site has a default host; no name is listed twice.

| Theorem | Statement |
|---|---|
| `JobQueue_proofs!TypeCorrect` | `Spec => []TypeOK` |
| `JobQueue_proofs!Exclusive` | `Spec => []ExclusiveClaim` |
| `JobQueue_proofs!OwnRow` | `Spec => []HeldRowIsOwn` |
| `JobQueue_proofs!Budget` | `Spec => []RetryBudget` |
| `JobQueue_proofs!NotLost` | `Spec => []NoSilentLoss` |
| `JobQueue_proofs!SettledForGood` | `Spec => SettledStays` |
| `UploadQuota_proofs!TypeCorrect` | `Spec => []TypeOK` |
| `UploadQuota_proofs!QuotaHolds` | `Spec => []WithinQuota` |
| `UploadQuota_proofs!DecisionsStand` | `Spec => DecidedOnce` |
| `UploadQuota_proofs!BytesAccounted` | `Spec => []Accounted` |
| `Replication_proofs!TypeCorrect` | `Spec => []TypeOK` |
| `Replication_proofs!DeletesLeaveNothing` | `Spec => []NoOrphans` |
| `Replication_proofs!PendingIsSeenTo` | `Spec => []PendingHasJob` |
| `Replication_proofs!ReadyHasBlob` | `Spec => []ReadyIsBacked`, when no request deletes the object |
| `Replication_proofs!OverwritesSettle` | `Spec => []SettledReplicasCurrent`, when uploads are `Orderly` |
| `SiteDeployments_proofs!TypeCorrect` | `Spec => []TypeOK` |
| `SiteDeployments_proofs!Agreement` | `Spec => []ActiveAgrees` |
| `SiteDeployments_proofs!Complete` | `Spec => []LiveIsComplete` |
| `SiteDeployments_proofs!NothingLeft` | `Spec => []DeletedLeavesNothing` |
| `SiteDeployments_proofs!HasJob` | `Spec => []WaitingHasJob` |
| `SiteDeployments_proofs!Releases` | `Spec => ImplementsRelease` |
| `EdgePublish_proofs!TypeCorrect` | `Spec => []TypeOK` |
| `EdgePublish_proofs!EvidenceIsTrue` | `Spec => []EvidenceIsOfAWrite` |
| `EdgePublish_proofs!ActiveKeysWereActive` | `Spec => []ActiveManifestWasActive` |
| `EdgePublish_proofs!RollbacksRestore` | `Spec => []RollbackRestores` |
| `EdgePublish_proofs!AgreementLasts` | `Spec => []AgreementKept` |
| `Serving_proofs!ShapeInvariant` | `Spec => []ShapeInv` |
| `Serving_proofs!TypeCorrect` | `Spec => []TypeOK` |
| `Serving_proofs!BothAgree` | `Spec => []HalvesAgree`, which is about what both halves read alike |
| `Serving_proofs!FallbackIsLast` | `Spec => []FallbackOnlyLast` |
| `Serving_proofs!GivesUp` | `Spec => []GivesUpLast` |
| `Serving_proofs!AssetsStay` | `Spec => []AssetsStayAtTheEdge` |
| `Serving_proofs!AnswersLive` | `Spec => []AnswersWereLive` |
| `Hosting_proofs!SitesTypeCorrect` | `SitesSpec(n, kindsOf) => []SitesTypeOK` |
| `Hosting_proofs!Accumulates` | `SitesSpec(n, kindsOf) => []AppendsAccumulate` |
| `Hosting_proofs!SiteIsGone` | `SitesSpec(n, kindsOf) => []DeletedSiteIsGone` |
| `Hosting_proofs!LibrariesTypeCorrect` | `LibrariesSpec(us, kindsOf, n) => []LibrariesTypeOK` |
| `Hosting_proofs!AllowanceKept` | `LibrariesSpec(us, kindsOf, n) => []DailyUsage` |
| `Hosting_proofs!CountsFailures` | `LibrariesSpec(us, kindsOf, n) => []HealthCounted` |
| `Hosting_proofs!CloudTypeCorrect` | `CloudSpec(n, kindsOf, outside) => []CloudflareTypeOK` |
| `Hosting_proofs!KeepTheirWord` | `CloudSpec(n, kindsOf, outside) => []SyncsKeepTheirWord` |
| `Hosting_proofs!TypeCorrect` | `Spec => []TypeOK` |

The parameters of `SitesSpec`, `LibrariesSpec` and `CloudSpec` are those of their initial states:
how many requests may start, of which kinds, and how often others interfere. The last `Spec` is
that of the run.

Hardly a property in the table is inductive. Each proof module defines invariants that are (`Inv`,
and more where several layers are independent: `AInv`, `ShapeInv`, `CurrentInv`, `UsageInv`), and
TLC was run on them before they were proved. All are built the same
way: a part per layer of the state, a lemma per part that says which steps keep it and what
they have to show of the process that moves, a lemma per action, and the theorems at the end.

*Queue.* A claim keeps `ExclusiveClaim`
because the row it takes is queued while every held row is running
(`HeldRowIsOwn`); an outcome keeps `HeldRowIsOwn` because nobody else holds the
row (`ExclusiveClaim`); `RetryBudget` needs that the loop's attempt count is
the row's. The proof takes their conjunction, with one addition: a row that left the
queue was counted at least once (`Counted`), from which a failed deployment has
exactly one attempt. There is a lemma per operator on rows and a step per action.

*Quota.* `WithinQuota` and `TypeOK` are inductive together: `max - used` is a
natural number only because nobody is above the limit, and a reservation keeps
within the limit only because it is compared with that difference. `AInv` adds what is
counted: a step changes the bytes of one slot, and with them the sum over the slots, by as much as
it changes what the user has used. The slots may be infinitely many; those that hold bytes are
finitely many, since every step adds at most one.

*Site deployments.* Six layers. `QueueInv` is the queue's own invariant: the module
instantiates `JobQueue_proofs`, so that its lemmas are cited and not proved again.
`ProcInv` says that a loop is at a step of the job it runs. `RowsInv` has one live row.
`JobsInv` says that a deployment is asked for once, by one job, and is `Unbuilt` until that job has
built it; this is what lets a build write its parts without another's in the way. `PartsInv`
follows what is stored: a build has stored what it is past, a delete that has not
failed has left only what it has yet to visit. `StatusInv` relates a row's status to
where its job is (`StatusAt`). For the refinement every step is one of four kinds
(`Same`, `Finished`, `Published`, `Discarded`), and each kind is a step of `SiteRelease` or a stutter.

*Replication.* Seven layers over the same queue. `RecordedInv`: what a job or a process
copies to has a replica row. `CoverInv`: unless a write ran beside a delete, what is stored
anywhere is at a target that the delete goes by, or is left by an upload that failed, and a
delete under way has yet to visit every target that stores anything; `NoOrphans` is what is left when it
is through. `PendingInv`: somebody attends to each pending row, a job, a loop that tries, or
a request about to queue one. `BackedInv` is there only as long as no request
deletes: a delete that fails half-way leaves rows without their blobs. With deletes there is `NoOrphans` instead.

*Overwrites.* `CurrentInv` comes on top of these. Jobs are tried in the order they were queued in, because
there is one loop (`TurnInv`). The primary holds what the row says once every upload has been answered (`StoredInv`),
and is what backups are copied from (`SourcedInv`). No upload has changed the primary without having queued a
job for target `t` since: `Announced(t)`. Then the newest job for `t` has the current bytes in hand, and has brought
them to `t` once it is done (`CopiedInv`); and what is marked ready has a job (`QueuedInv`).

*Edge publication.* Five layers. `TableInv` and `WorkersInv` say that a version was uploaded as
the evidence has it, and `CommandsInv` says the same of what each command carries from call to call
(`Knows`); since versions are only appended, no other command can take that away. `KeysInv`: an
active key names what was active, which a command learnt from a row it read and which stays so.
`TrustInv` says what a command that is alone has brought about so far (`Leaves`),
step by step through its calls, up to agreement at its end.

*Serving.* `Path` says of a request where it came through, `Sees` that it knows each
deployment that was active while it ran; `KeptInv` says of the cache, and of the writes on
their way to it, that they hold what was published. For giving up, `QueueInv` says
that the targets that have been up all along are still to be tried. Each step of a request is
shown to be a `Step` to a `Fine` state, from which all parts follow at once. `ShapeInv` says what every variable is
and, in `Placed`, which target may serve the request among the candidates it was chosen from.

*Routing.* Both halves filter and sort lists of candidates, in different orders and by different
code, and from different keys. `KeyFacts`: where the path is not encoded, the policy is named in ASCII and the client has an
address, the two keys hash alike. `TiesAlike` (tied
sources are ordered alike) passes from a manifest's candidates to those of a region. `ChoiceSame`: then they choose the same of the same
candidates, step by step (health, region, priority, place in the weighted order by hash). `PlanFacts`: whatever the Worker
makes of a route is a list of targets, and a source marked `fallback_only` comes after all others.

*Sums and lists.* `DataTheorems` has no induction over data, which the provers do not support, but least
elements: of the sets for which a sum would not be defined, or would be wrong, there is a smallest one, and its
parts give the contradiction. In a strict order every member has its place (`InOrderPlaces`) for the same reason.

*Sites.* `Read`: a request whose read has not been overtaken has read the hosts that its site
still has, so that what it writes loses none. `Deletes` and `Cleared`: what a delete has listed and worked
off, and did not fail on, is gone; `FilesKnown` says that its listing missed no file.

*Health.* `Holds`: a check about to write holds the row's count, or is marked as stale.

*Allowance.* `Books`: what is counted for a target and a day is the sum of the uploads that are charged
for them, of which there are finitely many, and is within the limit. An upload is charged from its reservation to
its release (`Paid`), for the day it was reserved on, whatever the day is by then.

*Cloudflare.* The parts of the invariant are operators of a map of settings (`AtOK(a)`, `Knows(a, q)`,
`Keeps(a, q)`), and so are used for the settings before a step and after it. A request knows that a
setting it has seen is as it saw it, or in line already, unless others have changed it since.

### Two theorems with a premise

`ReadyHasBlob` asks that nobody deletes the object: a delete that fails half-way leaves rows whose blobs are gone.

`OverwritesSettle` asks for `Orderly` overwrites: one job loop; a policy other than `primary_only`
and `require_backups`; requests that upload or repair; one client that uploads, any number of times;
and no repairs if there are several backups. It allows any number of backups, contents, faults and, with
one backup, of clients that repair; the run `Overwrite` is an instance. Most of what it excludes, the code does not
get right: with two loops, either policy, two clients that upload, or a repair of two backups, TLC finds the property
violated in 20 to 45 steps. With two loops an older copy
lands last (`StaleReady`). Under `primary_only` no job follows an overwrite, and under
`require_backups` the upload copies by itself: in both, the job of a forced repair that has read the old bytes
lands after the overwrite and marks the backup ready. Two clients may put their bytes in one order and write the row in the other. With two backups, a repair
that is cut off when it has marked the primary's row pending leaves the older backup as the only source of the
next copy. These counterexamples are not runs of their own: nothing in the documentation
promises what they break, except for the loops.

### Model-checked only

* Liveness, `EveryJobSettles` and `PendingResolves`: the provers have no `ENABLED`, and so no fairness.
* The fairness and the instances of the runs: the theorems are about `Spec`, without fairness.
* `SettledReplicasCurrent` outside `Orderly` has no proof, because it is not so.

## 5. Not modelled

* Storage drivers: calls to outside services. A target stores a blob under a key,
  and may fail with or without having done so.
* `Get`, `Stat` and `Delete` of resource libraries with their fallback to other
  bindings, and the creation of directories: they keep no state of their own.
* Authentication and invites: they decide whether a request is refused before
  anything happens; accepting an invite is one transaction.
* Configuration, audit, migrations: parsed once, append only, run once.
* Garbage collection: it removes staged files by age, and the models have no
  clock. Its effect, a bundle that cannot be read, is a way `BuildFails`.
* Expiry and pinning of deployments, rows of buckets, IPFS pins and locators,
  R2 credentials, reports, the doctor, inspection of directories: data or reports.
* Time limits are steps that may happen at any time; how long they are is not modelled.

## 6. Plan

What loses or misplaces user data came first, then what the edge shows; the proofs followed in the
same order, and reached every invariant and action property of the runs. What is left:

1. `Replication` with rows of buckets and expiry: garbage collection beside jobs whose bundle waits.
2. `SiteDeployments` composed with `Replication`, so that a deployment's parts are replicas and not single objects.
3. Retrying an edge publication that was cut off, as a refinement of one that was not.
