------------------------------- MODULE Serving -------------------------------
(***************************************************************************)
(* A request for a public URL, from the Worker at the edge to the server   *)
(* behind it and the storage they send it to, while the site, its copies,  *)
(* their health and the manifest at the edge change.                       *)
(*                                                                         *)
(* Sources: worker/src/index.ts and, in internal/server, public_serving.go,*)
(* routing_selection.go, routing_services.go, edge_manifest_handlers.go,   *)
(* switch_handlers.go, cloudflare_services.go and resource_services.go.    *)
(*                                                                         *)
(* One site, one request at a time; what outlives a request is the cache   *)
(* of the Worker and a write to it that may be late.  Bytes are abstracted *)
(* to the deployment and the target they come from, paths to what they are *)
(* to a deployment: its index, an asset, a path with a redirect rule, or   *)
(* nothing it has.  The assets of a deployment are delivered alike; one of *)
(* them has a path that URLs spell otherwise.                              *)
(***************************************************************************)
EXTENDS Routing

CONSTANTS
    Deployments, Bucket,  \* objects: one per deployment, one in a bucket
    None,
    Starts,               \* the Worker's configuration, the site's, and the
                          \* targets down, known to be, or without a copy of
                          \* the active deployment at first
    Requests,             \* what clients ask for
    MaxChanges            \* bound: changes of the world in a behaviour

Objects == Deployments \cup {Bucket}

Assets == {"asset", "spaced"}

ASSUME ServingAssumption ==
    /\ MaxChanges \in Nat
    /\ \A s \in Starts :
          /\ s.env \in [mode     : {"off", "route", "strict"},
                       fallback : {"unset", "true", "false"},
                       static   : {"off", "unbound", "bound"},
                       entry    : BOOLEAN,
                       secret   : {"none", "agreed", "other"}]
          /\ s.down \subseteq Targets /\ s.sick \subseteq s.down
          /\ s.pending \subseteq ToSet(Profile)
          /\ s.setup.first \in Deployments
          /\ s.setup.deps \in [Deployments -> [policy : BOOLEAN, failover : BOOLEAN,
                                              spa : BOOLEAN, notFound : BOOLEAN]]
          /\ s.setup.policy # NoPolicy => PolicyWellFormed(s.setup.policy)
    /\ Requests \subseteq [path : Paths, method : {"GET", "HEAD", "POST"},
                           range : BOOLEAN, country : {"CN", "US", "none"},
                           client : Clients \cup {NoClient}, peer : Clients,
                           via : {"worker", "origin"}]

VARIABLES
    env,      \* the Worker's variables, fixed
    setup,    \* the site's deployments, policy and profile, fixed
    online,   \* sites.status
    active,   \* the active deployment, or None
    published,\* history: deployments that have been active
    rows,     \* object -> target -> status of the replica
    primary,  \* object -> primary_target
    sick,     \* targets whose recorded health is recent and bad
    down,     \* targets that do not answer for their objects
    kv,       \* the site's manifest in Workers KV, or None
    cache,    \* the Worker's cache: path -> what it holds, or None
    late,     \* writes to the cache that have not happened yet
    req,      \* the request in flight
    changes   \* changes so far (bound only)

world == <<online, active, published, rows, primary, sick, down, kv>>
vars == <<env, setup, world, cache, late, req, changes>>

-----------------------------------------------------------------------------
(* Configuration.                                                          *)

PolicyOf(d) == IF setup.deps[d].policy THEN setup.policy ELSE NoPolicy

RoutingEnabled == env.mode # "off"

StaticEnabled == env.static # "off"

OriginFallbackEnabled ==
    IF env.fallback = "unset" THEN ~RoutingEnabled /\ ~StaticEnabled
                              ELSE env.fallback = "true"

(* With a manifest that cannot answer, nothing else may.                   *)
ManifestHasLastWord ==
    (env.mode = "strict" \/ ~OriginFallbackEnabled) /\ ~StaticEnabled

(* entryOriginFallbackRequest: a page, asked for as a whole.               *)
EntryFallbackAnyPath ==    \* mutant: whatever is asked for
    /\ env.entry
    /\ req.r.method # "POST"
    /\ ~req.r.range

EntryFallback ==
    /\ env.entry
    /\ req.r.method # "POST"
    /\ ~req.r.range
    /\ req.r.path \in {"index", "missing", "moved"}

(* What a path is to a deployment: a file with the status it is served     *)
(* with, a rule's redirect, or nothing.                                    *)
FileFor(d, path) ==
    CASE path = "moved" -> [file |-> "rule", status |-> 302]
      [] path = "index" -> [file |-> "index", status |-> 200]
      [] path \in Assets \cup {"preview"} -> [file |-> "asset", status |-> 200]
      [] OTHER ->
            IF setup.deps[d].spa THEN [file |-> "index", status |-> 200]
            ELSE [file   |-> IF setup.deps[d].notFound THEN "page404" ELSE "none",
                  status |-> 404]

(* siteDeliveryMode: the index is always streamed.                         *)
Delivery(file) == IF file = "asset" THEN "redirect" ELSE "origin"

(* A deployment whose policy cannot be used has no manifest.               *)
Buildable(d) ==
    setup.deps[d].policy => PolicyUsable(setup.policy)

Manifest(d) ==
    [dep   |-> d,
     asset |-> RouteForFile("redirect", PolicyOf(d), setup.deps[d].failover,
                            rows[d], sick, primary[d])]

-----------------------------------------------------------------------------
(* The request.  `pc' is where it is, `r' what was asked.                  *)

NoAnswer == [by |-> "nobody", kind |-> "none", status |-> 0, dep |-> None,
             target |-> NoTarget]

Idle == [pc |-> "idle", r |-> None, dep |-> None, force |-> FALSE,
         queue |-> <<>>, how |-> "none", cands |-> {}, offered |-> {}, tried |-> {},
         reply |-> NoAnswer, answer |-> NoAnswer, atOrigin |-> FALSE,
         steady |-> {}, live |-> {}, online |-> FALSE]

Moved(pc) == [req EXCEPT !.pc = pc]

Step(next) == req' = next /\ UNCHANGED <<env, setup, world, changes>>

(* The answer goes out; the last step of a request.                        *)
Answered(a, from) == [from EXCEPT !.pc = "done", !.answer = a, !.queue = <<>>,
                                  !.how = "none", !.force = FALSE]

Answer(by, kind, status, dep, target) ==
    [by |-> by, kind |-> kind, status |-> status, dep |-> dep, target |-> target]

Failure(by, kind, status) == Answer(by, kind, status, None, NoTarget)

Arrive(r) ==
    /\ req.pc = "idle"
    /\ Step([Idle EXCEPT
              !.pc = IF r.via = "origin" THEN "serve"
                     ELSE IF r.method = "POST" THEN "refuse" ELSE "manifest",
              !.r = r, !.atOrigin = r.via = "origin",
              !.steady = Targets \ down,
              !.live = {active} \ {None},
              !.online = online])
    /\ UNCHANGED <<cache, late>>

(* The answer is the client's, and the connection free for another.        *)
Leave ==
    /\ req.pc = "done"
    /\ Step(Idle)
    /\ UNCHANGED <<cache, late>>

(* fetch, for a method other than GET and HEAD.                            *)
Refuse ==
    /\ req.pc = "refuse"
    /\ Step(CASE StaticEnabled -> Answered(Failure("worker", "method", 405), req)
              [] ~StaticEnabled /\ ~OriginFallbackEnabled ->
                    Answered(Failure("worker", "fallback_disabled", 502), req)
              [] OTHER -> [Moved("serve") EXCEPT !.atOrigin = TRUE])
    /\ UNCHANGED <<cache, late>>

(* edgeManifestRouteResponse.  The manifest is read once.  It has its      *)
(* routes under the files' own paths and is asked for the path as the URL  *)
(* spells it: paths it does not have are missing, those of other kinds of  *)
(* requests and of assets that must be encoded among them.                 *)
ManifestPath(path) ==
    IF Encoded(path) \in {"index", "moved"} \cup Assets THEN Encoded(path)
                                                       ELSE "missing"

ManifestPlan ==
    IF RoutingEnabled /\ kv # None /\ ManifestPath(req.r.path) \in Assets
    THEN Plan(kv.asset, setup.deps[kv.dep].failover, req.r) ELSE NoPlan

(* The manifest has a redirect rule or a redirect for the path.            *)
ManifestRedirects ==
    /\ req.pc = "manifest"
    /\ \/ /\ RoutingEnabled /\ kv # None /\ req.r.path = "moved"
          /\ Step(Answered(Answer("worker", "rule", 302, kv.dep, NoTarget), req))
       \/ /\ ManifestPlan.how = "redirect"
          /\ Step([Answered(Answer("worker", "redirect", 302, kv.dep,
                                   Head(ManifestPlan.queue)), req)
                   EXCEPT !.cands = ToSet(kv.asset.cands)])
    /\ UNCHANGED <<cache, late>>

(* The Worker is to fetch the asset itself, from the targets in turn.      *)
ManifestFetches ==
    /\ req.pc = "manifest"
    /\ ManifestPlan.how \in {"proxy", "gateway", "failover"}
    /\ Step([Moved("fetch") EXCEPT !.dep = kv.dep, !.how = ManifestPlan.how,
                                   !.queue = ManifestPlan.queue,
                                   !.offered = ToSet(ManifestPlan.queue),
                                   !.cands = ToSet(kv.asset.cands)])
    /\ UNCHANGED <<cache, late>>

(* No manifest, or none that answers: an error, or the next source.        *)
ManifestSilent ==
    /\ req.pc = "manifest"
    /\ RoutingEnabled /\ kv # None => req.r.path # "moved" /\ ManifestPlan = NoPlan
    /\ Step(CASE ~RoutingEnabled \/ ~ManifestHasLastWord -> Moved("static")
              [] RoutingEnabled /\ ManifestHasLastWord /\ kv = None ->
                    Answered(Failure("worker", "no_manifest", 503), req)
              [] OTHER ->
                    LET found == FileFor(kv.dep, ManifestPath(req.r.path))
                    IN  Answered(Failure("worker", "unresolved",
                                         IF found.status = 404 THEN 404 ELSE 502),
                                 req))
    /\ UNCHANGED <<cache, late>>

FailureOf(how) ==
    CASE how = "proxy"   -> "proxy_failed"
      [] how = "gateway" -> "gateway_failed"
      [] OTHER           -> "failover_failed"

(* fetchFailoverCandidates and its variants: the first target that answers *)
(* with less than 400; when none does, an error of the Worker's own.       *)
FetchOnce ==    \* mutant: the first failure is the answer
    /\ req.pc = "fetch"
    /\ LET t == Head(req.queue)
       IN  Step(Answered(IF t \in down
                         THEN Failure("worker", FailureOf(req.how), 502)
                         ELSE Answer("worker", req.how, 200, req.dep, t),
                         [req EXCEPT !.tried = @ \cup {t}]))
    /\ UNCHANGED <<cache, late>>

Fetch ==
    /\ req.pc = "fetch"
    /\ IF req.queue = <<>>
       THEN Step(Answered(Failure("worker", FailureOf(req.how), 502), req))
       ELSE LET t == Head(req.queue)
                tried == [req EXCEPT !.tried = @ \cup {t}]
            IN  Step(IF t \in down
                     THEN [tried EXCEPT !.queue = Tail(@)]
                     ELSE Answered(Answer("worker", req.how, 200, req.dep, t), tried))
    /\ UNCHANGED <<cache, late>>

(* edgeStaticAssetsResponse: the assets bound to the Worker, whatever they *)
(* answer, or the server for a page when they fail.                        *)
AskServer(how) ==
    [Moved("serve") EXCEPT !.atOrigin = TRUE, !.how = how, !.cands = {},
        !.force = how \in {"entry", "again"} /\ env.secret # "none"]

StaticOff ==
    /\ req.pc = "static"
    /\ ~StaticEnabled
    /\ Step(CASE ~OriginFallbackEnabled ->
                   Answered(Failure("worker", "fallback_disabled", 502), req)
              [] OriginFallbackEnabled /\ req.r.range -> AskServer("plain")
              [] OTHER -> Moved("cache"))
    /\ UNCHANGED <<cache, late>>

Static ==
    /\ req.pc = "static"
    /\ StaticEnabled
    /\ \E status \in IF env.static = "bound" THEN {200, 404, 502} ELSE {503} :
          Step(IF status # 200 /\ EntryFallback THEN AskServer("entry")
               ELSE Answered(Answer("assets", "static", status, None, NoTarget), req))
    /\ UNCHANGED <<cache, late>>

(* What the cache holds for the URL, whatever the method, or the server.   *)
MatchCache ==
    /\ req.pc = "cache"
    /\ LET held == cache[req.r.path]
       IN  Step(IF held = None THEN AskServer("plain")
                ELSE Answered(held, req))
    /\ UNCHANGED <<cache, late>>

-----------------------------------------------------------------------------
(* The server.                                                             *)

Reply(a, from) == [from EXCEPT !.pc = "resolve", !.reply = a]

(* Stream the object from the replicas ready now, in order; with `pass',   *)
(* the client may instead be sent to the first that has a direct URL.      *)
Streamed(o, dep, pass, from) ==
    LET ready == Select(ReadyInOrder(rows[o], primary[o]),
                           LAMBDA t : t \in Stores)
    IN  IF ready = <<>> THEN Reply(Failure("go", "no_replica", 404), from)
        ELSE IF pass /\ URLKind[Head(ready)] # "none"
             THEN Reply(Answer("go", "pass", 302, dep, Head(ready)), from)
             ELSE [from EXCEPT !.pc = "stream", !.dep = dep, !.cands = {},
                               !.queue = ready, !.offered = ToSet(ready)]

(* The target a redirect goes to: the policy's choice among at least       *)
(* `enough' candidates.                                                    *)
PolicyTarget(policy, o, enough, r) ==
    LET cands == PolicyCandidates(policy, rows[o], sick)
    IN  IF PolicyUsable(policy) /\ Len(cands) >= enough
        THEN SelectRoutingCandidate(policy, cands, r).target ELSE NoTarget

PolicyCands(policy, o) ==
    IF PolicyUsable(policy) THEN ToSet(PolicyCandidates(policy, rows[o], sick)) ELSE {}

(* writeSiteFile: the policy, the primary, with resource_failover any copy.*)
SiteTarget(d, r) ==
    LET chosen == PolicyTarget(PolicyOf(d), d, 1, r)
        direct == PrimaryURL(rows[d], primary[d])
        any    == IF setup.deps[d].failover THEN AnyURL(rows[d], primary[d]) ELSE NoTarget
    IN  IF chosen # NoTarget THEN chosen ELSE IF direct # NoTarget THEN direct ELSE any

SitePaths == {"index", "missing", "moved"} \cup Assets

(* servePublic, up to the first row it reads.                              *)
ServeSiteAlways ==    \* mutant: the site's status is not looked at
    /\ req.pc = "serve"
    /\ req.r.path \in SitePaths \/ req.r.method = "POST"
    /\ Step(IF req.r.method = "POST" THEN Reply(Failure("go", "method", 405), req)
            ELSE Moved("deployment"))
    /\ UNCHANGED <<cache, late>>

ServeSite ==
    /\ req.pc = "serve"
    /\ req.r.path \in SitePaths \/ req.r.method = "POST"
    /\ Step(CASE req.r.method = "POST" -> Reply(Failure("go", "method", 405), req)
              [] req.r.method # "POST" /\ ~online ->
                    Reply(Failure("go", "offline", 410), req)
              [] OTHER -> Moved("deployment"))
    /\ UNCHANGED <<cache, late>>

(* A preview names its deployment, and is served of an offline site too.   *)
ServePreview ==
    /\ req.pc = "serve"
    /\ req.r.path = "preview" /\ req.r.method # "POST"
    /\ \E d \in Deployments : Step([Moved("file") EXCEPT !.dep = d])
    /\ UNCHANGED <<cache, late>>

ServeDownload ==
    /\ req.pc = "serve"
    /\ req.r.path = "download" /\ req.r.method # "POST"
    /\ \E d \in Deployments :
          LET t == AnyURL(rows[d], primary[d])
          IN  Step(Reply(IF t = NoTarget THEN Failure("go", "no_url", 502)
                         ELSE Answer("go", "redirect", 302, d, t), req))
    /\ UNCHANGED <<cache, late>>

(* An object of a project, or of a bucket: with a policy, at least two     *)
(* candidates and no Range, the bucket redirects.                          *)
ServeObject ==
    /\ req.pc = "serve"
    /\ req.r.path \in {"object", "bucket"} /\ req.r.method # "POST"
    /\ LET t == PolicyTarget(setup.policy, Bucket, 2, req.r)
       IN  Step(IF /\ req.r.path = "bucket" /\ setup.bucketPolicy
                   /\ ~req.r.range /\ t # NoTarget
                THEN [Reply(Answer("go", "redirect", 302, None, t), req)
                      EXCEPT !.cands = PolicyCands(setup.policy, Bucket)]
                ELSE Streamed(Bucket, None, setup.allowRedirect /\ ~req.r.range, req))
    /\ UNCHANGED <<cache, late>>

FindDeployment ==
    /\ req.pc = "deployment"
    /\ Step(IF active = None THEN Reply(Failure("go", "no_deployment", 404), req)
            ELSE [Moved("file") EXCEPT !.dep = active])
    /\ UNCHANGED <<cache, late>>

(* serveSiteDeploymentPath and writeSiteFile: the rule, the file, and the  *)
(* way it is delivered.                                                    *)
SendFile ==
    /\ req.pc = "file"
    /\ LET d     == req.dep
           found == FileFor(d, req.r.path)
           mayRedirect == /\ Delivery(found.file) = "redirect"
                          /\ ~req.r.range
                          /\ ~(req.force /\ env.secret = "agreed")
           t     == SiteTarget(d, req.r)
       IN  Step(CASE found.file = "rule" -> Reply(Answer("go", "rule", 302, d, NoTarget), req)
                  [] found.file = "none" -> Reply(Failure("go", "no_file", 404), req)
                  [] OTHER ->
                        IF mayRedirect /\ t # NoTarget
                        THEN [Reply(Answer("go", "redirect", 302, d, t), req)
                              EXCEPT !.cands = PolicyCands(PolicyOf(d), d)]
                        ELSE IF mayRedirect /\ setup.deps[d].failover
                             THEN Reply(Failure("go", "no_target", 502), req)
                             ELSE Streamed(d, d, FALSE, req))
    /\ UNCHANGED <<cache, late>>

(* streamObject: the first store that has the object.                      *)
Stream ==
    /\ req.pc = "stream"
    /\ IF req.queue = <<>>
       THEN Step(Reply(Failure("go", "stream_failed", 502), req))
       ELSE LET t == Head(req.queue)
                tried == [req EXCEPT !.tried = @ \cup {t}]
            IN  Step(IF t \in down THEN [tried EXCEPT !.queue = Tail(@)]
                     ELSE Reply(Answer("go", "stream",
                                       IF req.dep = None THEN 200
                                       ELSE FileFor(req.dep, req.r.path).status,
                                       req.dep, t), tried))
    /\ UNCHANGED <<cache, late>>

-----------------------------------------------------------------------------
(* The Worker again, with the server's reply.  Only GETs that looked in    *)
(* the cache are stored, after the answer has gone out, with status 200 or *)
(* 404 and unless marked no-store or private.                              *)
LateBound == 1    \* bound: writes to the cache under way at once, and
                  \* those and what is in it are for one path

Kept(a) == [a EXCEPT !.by = "cache", !.kind = "kept", !.target = NoTarget]

StoreAnything(a) ==    \* mutant: errors are stored too
    /\ req.how \in {"plain", "again"}
    /\ req.r.method = "GET" /\ ~req.r.range
    /\ late' = {[path |-> req.r.path, holds |-> Kept(a)]}

Store(a) ==
    \/ late' = late
    \/ /\ req.how \in {"plain", "again"}
       /\ req.r.method = "GET" /\ ~req.r.range
       /\ a.status \in {200, 404}
       /\ Cardinality(late) < LateBound
       /\ \A p \in Paths : cache[p] # None => p = req.r.path
       /\ late' = late \cup {[path |-> req.r.path, holds |-> Kept(a)]}

Finish(a, from) == Step(Answered(a, from)) /\ Store(a) /\ UNCHANGED cache

Marked(a) == a.kind = "redirect"

(* The server's answer is passed on.                                       *)
PassOn ==
    /\ req.pc = "resolve"
    /\ ~Marked(req.reply) \/ req.how \in {"none", "entry"}
    /\ Finish(req.reply, req)

(* A marked redirect is followed; a forced reply should not have been one. *)
FollowRedirect ==
    /\ req.pc = "resolve"
    /\ Marked(req.reply)
    /\ \/ req.how = "plain" /\ Step(Moved("storage"))
       \/ /\ req.how = "again"
          /\ Step(Answered(Failure("worker", "storage_failed", 502), req))
    /\ UNCHANGED <<cache, late>>

(* fetchStorageRedirect.  With a secret, a storage that fails sends the    *)
(* Worker back to the server; without, its error is the answer.            *)
FetchStorage ==
    /\ req.pc = "storage"
    /\ LET t     == req.reply.target
           tried == [req EXCEPT !.tried = @ \cup {t}]
       IN  \/ /\ t \notin down
              /\ Finish(Answer("storage", "proxied", 200, req.reply.dep, t), tried)
           \/ /\ t \in down /\ env.secret = "none"
              /\ \E status \in {404, 502} :
                    Finish(Failure("storage", "storage_failed", status), tried)
           \/ /\ t \in down /\ env.secret # "none"
              /\ Step([AskServer("again") EXCEPT !.tried = tried.tried])
              /\ UNCHANGED <<cache, late>>

(* waitUntil(cache.put): whenever it happens.                              *)
WriteCache ==
    /\ \E w \in late :
          /\ cache' = [cache EXCEPT ![w.path] = w.holds]
          /\ late' = late \ {w}
    /\ UNCHANGED <<env, setup, world, req, changes>>

Expire ==
    /\ \E p \in Paths : cache[p] # None /\ cache' = [cache EXCEPT ![p] = None]
    /\ UNCHANGED <<env, setup, world, late, req, changes>>

-----------------------------------------------------------------------------
(* The world.                                                              *)

Change ==
    /\ changes < MaxChanges
    /\ changes' = changes + 1
    /\ UNCHANGED <<env, setup, late>>

(* What a request in flight has seen.                                      *)
Seen == req' = IF req.pc = "idle" THEN req
               ELSE [req EXCEPT !.steady = @ \ down',
                                !.live = @ \cup ({active'} \ {None}),
                                !.online = @ \/ online']

(* A deployment becomes active (its manifest is published separately).     *)
Activate(d) ==
    /\ Change /\ active # d
    /\ active' = d
    /\ published' = published \cup {d}
    /\ UNCHANGED <<online, rows, primary, sick, down, kv, cache>>
    /\ Seen

SetSiteStatus ==
    /\ Change
    /\ online' = ~online
    /\ UNCHANGED <<active, published, rows, primary, sick, down, kv, cache>>
    /\ Seen

(* Replication, repair and deletion, seen from here.                       *)
ReplicaChanges(o, t) ==
    /\ Change
    /\ \E status \in {"ready", "pending"} :
          /\ status # rows[o][t]
          /\ rows' = [rows EXCEPT ![o][t] = status]
    /\ UNCHANGED <<online, active, published, primary, sick, down, kv, cache>>
    /\ Seen

(* A health check records what it found, or the record grows old.          *)
Probe(t) ==
    /\ Change
    /\ sick' = IF t \in sick THEN sick \ {t} ELSE sick \cup (down \cap {t})
    /\ sick' # sick
    /\ UNCHANGED <<online, active, published, rows, primary, down, kv, cache>>
    /\ Seen

Outage(t) ==
    /\ Change
    /\ down' = IF t \in down THEN down \ {t} ELSE down \cup {t}
    /\ UNCHANGED <<online, active, published, rows, primary, sick, kv, cache>>
    /\ Seen

(* switchObjectPrimaryTarget, where no policy or failover routes instead.  *)
SwitchPrimary(o, t) ==
    /\ Change
    /\ IF o = Bucket THEN ~setup.bucketPolicy
                     ELSE ~setup.deps[o].policy /\ ~setup.deps[o].failover
    /\ t \in ToSet(Profile) \cap Stores
    /\ rows[o][t] = "ready"
    /\ primary[o] # t
    /\ primary' = [primary EXCEPT ![o] = t]
    /\ UNCHANGED <<online, active, published, rows, sick, down, kv, cache>>
    /\ Seen

(* publishSiteEdgeManifest under the active key.                           *)
PublishManifest ==
    /\ Change
    /\ active # None /\ Buildable(active)
    /\ kv' = Manifest(active)
    /\ kv' # kv
    /\ UNCHANGED <<online, active, published, rows, primary, sick, down, cache>>
    /\ Seen

(* purgeSiteDeploymentCache: the URLs of the deployment's files, not       *)
(* encoded: Cloudflare may take such a URL for the cached one or not.      *)
Purge ==
    /\ Change
    /\ \E reached \in {{"asset"}, Assets} :
          cache' = [p \in Paths |->
                       IF p \in {"index"} \cup reached THEN None ELSE cache[p]]
    /\ cache' # cache
    /\ UNCHANGED <<online, active, published, rows, primary, sick, down, kv>>
    /\ Seen

-----------------------------------------------------------------------------
Init ==
    /\ \E s \in Starts :
          /\ env = s.env /\ setup = s.setup /\ sick = s.sick /\ down = s.down
          /\ rows = [o \in Objects |-> [t \in Targets |->
                        IF t \notin ToSet(Profile) THEN "none"
                        ELSE IF o = s.setup.first /\ t \in s.pending
                             THEN "pending" ELSE "ready"]]
    /\ online = TRUE
    /\ active \in {None, setup.first}
    /\ published = {active} \ {None}
    /\ primary = [o \in Objects |-> Profile[1]]
    /\ kv \in {None} \cup (IF active # None /\ Buildable(active)
                           THEN {Manifest(active)} ELSE {})
    /\ cache = [p \in Paths |-> None]
    /\ late = {}
    /\ req = Idle
    /\ changes = 0

RequestStep ==
    \/ Leave \/ Refuse
    \/ ManifestRedirects \/ ManifestFetches \/ ManifestSilent \/ Fetch
    \/ StaticOff \/ Static \/ MatchCache
    \/ ServeSite \/ ServePreview \/ ServeDownload \/ ServeObject
    \/ FindDeployment \/ SendFile \/ Stream
    \/ PassOn \/ FollowRedirect \/ FetchStorage

WorldStep ==
    \/ \E d \in Deployments : Activate(d)
    \/ SetSiteStatus \/ PublishManifest \/ Purge
    \/ \E t \in Targets : Probe(t) \/ Outage(t)
    \/ \E o \in Objects, t \in ToSet(Profile) : ReplicaChanges(o, t) \/ SwitchPrimary(o, t)

Next ==
    \/ \E r \in Requests : Arrive(r)
    \/ RequestStep
    \/ WriteCache \/ Expire
    \/ WorldStep

Spec == Init /\ [][Next]_vars

-----------------------------------------------------------------------------
(* Properties.                                                             *)

Kinds == {"none", "kept", "static", "rule", "redirect", "pass", "stream", "proxied",
          "proxy", "gateway", "failover", "proxy_failed", "gateway_failed",
          "failover_failed", "storage_failed", "stream_failed", "method", "offline",
          "fallback_disabled", "no_manifest", "unresolved", "no_deployment", "no_file",
          "no_replica", "no_target", "no_url"}

Answers == [by     : {"nobody", "worker", "assets", "cache", "storage", "go"},
            kind   : Kinds,
            status : {0, 200, 302, 404, 405, 410, 502, 503},
            dep    : Deployments \cup {None},
            target : Targets \cup {NoTarget}]

\* The targets a request has left are a list.
QueueOK == req.queue \in Seq(Targets)

\* Every variable has the shape the code gives it; only whole answers of
\* status 200 or 404 are in the cache or on their way to it.
TypeOK ==
    /\ online \in BOOLEAN
    /\ active \in Deployments \cup {None}
    /\ published \subseteq Deployments
    /\ rows \in [Objects -> [Targets -> {"ready", "pending", "none"}]]
    /\ primary \in [Objects -> Targets]
    /\ sick \subseteq Targets /\ down \subseteq Targets
    /\ kv # None => kv.dep \in Deployments
    /\ req.reply \in Answers /\ req.answer \in Answers
    /\ req.pc \in {"idle", "refuse", "manifest", "fetch", "static", "cache",
                   "serve", "deployment", "file", "stream", "resolve",
                   "storage", "done"}
    /\ QueueOK
    /\ changes \in 0..MaxChanges
    /\ \A a \in {cache[p] : p \in Paths} \cup {w.holds : w \in late} :
          a # None => a \in Answers /\ a.status \in {200, 404}

\* Where both halves read the same: the policy's name is ASCII, and sources of
\* one priority and weight have names that both put in the same order.
ReadAlike(route) ==
    route.policy # NoPolicy =>
        /\ route.policy.name \in AsciiNames
        /\ \A c, e \in ToSet(route.cands) :
              /\ c.priority = e.priority /\ c.weight = e.weight
              /\ Rank[c.target] < Rank[e.target]
              => WorkerRank[c.target] < WorkerRank[e.target]

\* The requests for an asset that a manifest may answer and both halves can
\* see the client of, whatever its country and address.
AssetRequests ==
    [path : Assets, method : {"GET"}, range : {FALSE},
     country : {"CN", "US", "none"}, client : Clients, peer : Clients,
     via : {"worker"}]

\* A manifest that is up to date sends an asset where the server would: the
\* Go and the TypeScript halves of routing agree, although each computes its
\* key, hash, weights, regions and order by itself, wherever they read the
\* same (ReadAlike) and the URL spells the asset's path as it is.  Without a
\* policy resource_failover is left out, and with one that has no candidate:
\* there the server asks the primary first.
HalvesAgree ==
    kv # None /\ kv = Manifest(kv.dep) /\ ReadAlike(kv.asset) =>
        \A r \in AssetRequests :
            LET failover == setup.deps[kv.dep].failover
                plan   == Plan(kv.asset, failover, r)
                target == SiteTarget(kv.dep, r)
            IN  /\ Encoded(r.path) = r.path
                /\ failover => kv.asset.policy # NoPolicy
                => IF plan = NoPlan THEN target = NoTarget
                                    ELSE Head(plan.queue) = target

\* A source marked fallback_only is used only when the policy had no other
\* candidate, or all others have been tried for this very request.
FallbackOnlyLast ==
    \A c \in req.cands :
        req.answer.target = c.target /\ c.fallbackOnly =>
            \A e \in req.cands : e.fallbackOnly \/ e.target \in req.tried

\* When the Worker or the server gives up on storage, none of the targets
\* the request could be answered from has been up all along.
GivesUpLast ==
    req.answer.kind \in {"failover_failed", "gateway_failed", "proxy_failed",
                         "stream_failed"} =>
        req.offered \cap req.steady = {}

\* An asset of a site on static assets with a manifest never reaches the Go
\* server, whatever fails: not the storage targets, the manifest, nor the
\* assets (unless origin fallback is asked for).
AssetsStayAtTheEdge ==
    /\ req.pc # "idle" /\ req.r.via = "worker" /\ req.r.path \in Assets
    /\ StaticEnabled
    => ~req.atOrigin

\* What the server answers for a site's own URL is of a deployment that was
\* active, on a site that was online, at some moment of the request; what
\* the edge keeps of it is of a deployment that has been active.
AnswersWereLive ==
    /\ req.reply.dep # None /\ req.r.path \in SitePaths =>
          req.reply.dep \in req.live /\ req.online
    /\ \A p \in SitePaths : cache[p] # None => cache[p].dep \in published \cup {None}
=============================================================================
