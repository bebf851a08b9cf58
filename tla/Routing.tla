------------------------------- MODULE Routing -------------------------------
(***************************************************************************)
(* How a request is given a storage target.  The rule is written twice in  *)
(* the repository: in Go, for the server's own answers and for the edge    *)
(* manifests it exports, and in TypeScript, in the Worker that reads such  *)
(* a manifest.  This module has both, and nothing but operators: the       *)
(* candidates of a policy, the choice among them on either side, the route *)
(* of a manifest and what the Worker does with it.                         *)
(*                                                                         *)
(* The halves do not read the same text.  Go has the path decoded, hashes  *)
(* the bytes of its UTF-8 and compares names byte by byte; TypeScript has  *)
(* the path as the URL spells it, hashes UTF-16 units and compares names   *)
(* by localeCompare.  Each half has its own key, hash and order here.      *)
(***************************************************************************)
EXTENDS Integers, Sequences, FiniteSets, SequencesExt, Selections

CONSTANTS
    Targets,    \* storage targets
    Profile,    \* the route profile's targets: primary, then the backups
    Stores,     \* the targets the server has a store for
    URLKind,    \* target -> "redirect", "ipfs" or "none": its direct URL
    Insecure,   \* targets whose direct URL is plain http
    Rank,       \* target -> Nat: the order of names in Go
    WorkerRank, \* target -> Nat: their order in TypeScript, where names that
                \* differ may be the same
    Clients,    \* client addresses
    PolicyNames,
    AsciiNames, \* those of ASCII characters only
    Hash,       \* key -> Nat: FNV-1a of the bytes of policy, path and client
    WorkerHash, \* key -> Nat: the same of their UTF-16 units
    NoClient, NoTarget, NoPolicy

(* Paths by what they are to a deployment.  "spaced" is an asset whose     *)
(* path has a space or a letter outside ASCII.                             *)
Paths == {"index", "asset", "spaced", "missing", "moved", "preview", "bucket",
          "object", "download"}

(* How a URL spells a path: percent-encoded, and in ASCII only.            *)
Encoded(path) == IF path = "spaced" THEN "encoded" ELSE path

Keys == PolicyNames \X (Paths \cup {"encoded"}) \X (Clients \cup {NoClient})

ASSUME ProfileAssumption ==
    /\ Profile \in Seq(Targets) /\ Len(Profile) > 0
    /\ \A i, j \in DOMAIN Profile : Profile[i] = Profile[j] => i = j
    /\ NoTarget \notin Targets /\ NoClient \notin Clients
    /\ URLKind \in [Targets -> {"redirect", "ipfs", "none"}]
    /\ Rank \in [Targets -> Nat]
    /\ \A t, u \in Targets : Rank[t] = Rank[u] => t = u
    /\ WorkerRank \in [Targets -> Nat]

(* A unit of an ASCII text is its byte.                                    *)
ASSUME HashAssumption ==
    /\ Hash \in [Keys -> Nat] /\ WorkerHash \in [Keys -> Nat]
    /\ \A key \in Keys : key[1] \in AsciiNames /\ key[2] # "spaced" =>
          WorkerHash[key] = Hash[key]

-----------------------------------------------------------------------------
(* Candidates.  `rows' is the status of an object's replica per target,    *)
(* `sick' the targets whose last recorded health check is recent and bad.  *)

MayServe(t, rows, sick) ==
    /\ t \in Stores
    /\ t \notin sick
    /\ rows[t] = "ready"
    /\ URLKind[t] # "none"

PositiveWeight(w) == IF w <= 0 THEN 1 ELSE w

(* Config.Validate: the sources of a policy are targets, each at most once. *)
PolicyWellFormed(policy) ==
    /\ policy.name \in PolicyNames
    /\ policy.sources \in Seq([target : Targets, region : STRING, weight : Int,
                               priority : Nat, fallbackOnly : BOOLEAN])
    /\ \A i, j \in DOMAIN policy.sources :
          policy.sources[i].target = policy.sources[j].target => i = j

(* routingPolicyForProfile: two sources at least, all of the profile.      *)
PolicyUsable(policy) ==
    /\ policy # NoPolicy
    /\ Len(policy.sources) >= 2
    /\ \A i \in DOMAIN policy.sources :
          policy.sources[i].target \in ToSet(Profile)

PolicyCandidates(policy, rows, sick) ==
    LET Normal(s) == [s EXCEPT !.weight = PositiveWeight(s.weight),
                               !.region = IF s.region = "" THEN policy.region
                                                           ELSE s.region]
        ready == Select(policy.sources,
                           LAMBDA s : MayServe(s.target, rows, sick))
    IN  [i \in DOMAIN ready |-> Normal(ready[i])]

FailoverCandidates(rows, sick) ==
    LET ready == Select([i \in DOMAIN Profile |-> i],
                           LAMBDA i : MayServe(Profile[i], rows, sick))
    IN  [k \in DOMAIN ready |->
            [target |-> Profile[ready[k]], region |-> "failover", weight |-> 1,
             priority |-> ready[k] - 1, fallbackOnly |-> FALSE]]

(* A replica's own direct URL is asked for when no policy decides: of the  *)
(* primary only, or of the first ready replica, the primary before others. *)
PrimaryURL(rows, primary) ==
    IF rows[primary] = "ready" /\ URLKind[primary] # "none"
    THEN primary ELSE NoTarget

ServeOrder(primary) ==
    <<primary>> \o Select(Profile, LAMBDA t : t # primary)

ReadyInOrder(rows, primary) ==
    Select(ServeOrder(primary), LAMBDA t : rows[t] = "ready")

AnyURL(rows, primary) ==
    LET direct == Select(ReadyInOrder(rows, primary),
                            LAMBDA t : URLKind[t] # "none")
    IN  IF direct = <<>> THEN NoTarget ELSE Head(direct)

-----------------------------------------------------------------------------
(* The server's choice.                                                    *)

Region(country, policy) ==
    CASE country = "CN"   -> "china"
      [] country = "none" -> policy.region
      [] OTHER            -> "overseas"

(* The first of the address Cloudflare reports, the forwarded one and, in  *)
(* Go only, the peer's own.                                                *)
ServerClient(req) == IF req.client # NoClient THEN req.client ELSE req.peer

ServerKey(policy, req) == <<policy.name, req.path, ServerClient(req)>>

WeightUpTo(cands, n) == MapThenSumSet(LAMBDA i : cands[i].weight, 1..n)

(* weightedRoutingCandidate: the slot the hash falls into.                 *)
Weighted(cands, hash) ==
    LET slot == hash % WeightUpTo(cands, Len(cands))
    IN  cands[CHOOSE i \in DOMAIN cands : /\ WeightUpTo(cands, i - 1) <= slot
                                          /\ slot < WeightUpTo(cands, i)]

(* firstPriorityRoutingCandidate: priority, then weight, then name.        *)
FirstPriority(cands) ==
    LET Before(c, e) == \/ c.priority < e.priority
                        \/ c.priority = e.priority /\ c.weight > e.weight
                        \/ /\ c.priority = e.priority /\ c.weight = e.weight
                           /\ Rank[c.target] < Rank[e.target]
    IN  CHOOSE c \in ToSet(cands) : \A e \in ToSet(cands) \ {c} : Before(c, e)

SelectRoutingCandidate(policy, cands, req) ==
    LET active == Select(cands, LAMBDA c : ~c.fallbackOnly)
        near   == Select(active,
                            LAMBDA c : c.region = Region(req.country, policy))
        pool   == IF near = <<>> THEN active ELSE near
        hash   == Hash[ServerKey(policy, req)]
    IN  IF active = <<>> THEN Weighted(cands, hash)
        ELSE CASE policy.mode = "global_accel"         -> FirstPriority(pool)
               [] policy.mode = "global_load_balance"  -> Weighted(pool, hash)
               [] OTHER                                -> Weighted(active, hash)

-----------------------------------------------------------------------------
(* The manifest: the route of one file, as the server exports it.          *)

OriginRoute == [type |-> "origin", target |-> NoTarget, cands |-> <<>>,
                policy |-> NoPolicy, gateways |-> <<>>]

(* edgeManifestRouteForFile, for a file answered with status 200.  `pins'  *)
(* are the targets the object was pinned to, whatever its replica says.    *)
RouteForFile(delivery, policy, failover, rows, sick, primary) ==
    LET pins   == Select(Profile,
                            LAMBDA t : URLKind[t] = "ipfs" /\ rows[t] # "none")
        cands  == IF policy # NoPolicy THEN PolicyCandidates(policy, rows, sick)
                                       ELSE FailoverCandidates(rows, sick)
        first  == IF cands = <<>> THEN NoTarget ELSE cands[1].target
        direct == PrimaryURL(rows, primary)
        TypeOf(t) == IF URLKind[t] = "ipfs" THEN "ipfs" ELSE "redirect"
        plain  == [OriginRoute EXCEPT !.gateways = pins]
    IN  IF delivery # "redirect" THEN plain
        ELSE CASE policy # NoPolicy /\ Len(cands) >= 2 ->
                    [plain EXCEPT !.type = "smart", !.target = first,
                                  !.cands = cands, !.policy = policy]
               [] policy # NoPolicy /\ Len(cands) = 1 ->
                    [plain EXCEPT !.type = TypeOf(first), !.target = first,
                                  !.cands = cands, !.policy = policy]
               [] policy = NoPolicy /\ failover ->
                    [plain EXCEPT !.type = "failover", !.target = first,
                                  !.cands = cands]
               [] OTHER -> IF direct = NoTarget THEN plain
                           ELSE [plain EXCEPT !.type = TypeOf(direct),
                                              !.target = direct]

-----------------------------------------------------------------------------
(* The Worker's choice, from the route alone.                              *)

WorkerClient(req) == req.client

WorkerKey(policy, req) == <<policy.name, Encoded(req.path), WorkerClient(req)>>

WorkerWeighted(cands, hash) ==
    LET total == WeightUpTo(cands, Len(cands))
        Left(i) == (hash % total) - WeightUpTo(cands, i)
    IN  cands[Min({i \in DOMAIN cands : Left(i) < 0})]

(* A sort by name leaves those that localeCompare takes for the same where *)
(* they were.                                                              *)
Place(cands, c) == CHOOSE i \in DOMAIN cands : cands[i] = c

NameBefore(cands, c, e) ==
    \/ WorkerRank[c.target] < WorkerRank[e.target]
    \/ /\ WorkerRank[c.target] = WorkerRank[e.target]
       /\ Place(cands, c) < Place(cands, e)

WorkerHeaviest(cands) ==    \* mutant: the weight before the priority
    LET heavy == {c \in ToSet(cands) : \A e \in ToSet(cands) : e.weight <= c.weight}
    IN  CHOOSE c \in heavy : \A e \in heavy \ {c} : NameBefore(cands, c, e)

WorkerFirstPriority(cands) ==
    LET lowest == Min({c.priority : c \in ToSet(cands)})
        top    == {c \in ToSet(cands) : c.priority = lowest}
        heavy  == {c \in top : \A e \in top : e.weight <= c.weight}
    IN  CHOOSE c \in heavy : \A e \in heavy \ {c} : NameBefore(cands, c, e)

WorkerSelect(policy, cands, req) ==
    LET active == Select(cands, LAMBDA c : ~c.fallbackOnly)
        near   == IF policy.mode \in {"global_accel", "global_load_balance"}
                  THEN Select(active,
                              LAMBDA c : c.region = Region(req.country, policy))
                  ELSE <<>>
        pool   == IF near = <<>> THEN active ELSE near
        hash   == WorkerHash[WorkerKey(policy, req)]
    IN  IF active = <<>> THEN WorkerWeighted(cands, hash)
        ELSE IF policy.mode = "global_accel" THEN WorkerFirstPriority(pool)
                                             ELSE WorkerWeighted(pool, hash)

SmartOrderByPriority(cands, chosen) ==    \* mutant: fallback_only is nothing
    LET Before(c, e) == IF c.priority # e.priority THEN c.priority < e.priority
                        ELSE NameBefore(cands, c, e)
    IN  <<chosen>> \o Sorted(ToSet(cands) \ {chosen}, Before)

(* orderedSmartFailoverCandidates: the chosen one, then the rest, those     *)
(* marked fallback_only last.                                              *)
SmartOrder(cands, chosen) ==
    LET Before(c, e) ==
            IF c.fallbackOnly # e.fallbackOnly THEN e.fallbackOnly
            ELSE IF c.priority # e.priority THEN c.priority < e.priority
            ELSE NameBefore(cands, c, e)
    IN  <<chosen>> \o Sorted(ToSet(cands) \ {chosen}, Before)

FailoverOrder(cands) ==
    Sorted(ToSet(cands),
           LAMBDA c, e : \/ c.priority < e.priority
                         \/ c.priority = e.priority /\ NameBefore(cands, c, e))

TargetsOf(cands) == [i \in DOMAIN cands |-> cands[i].target]

NoPlan == [how |-> "none", queue |-> <<>>]

(* directEdgeManifestResponse: send the client to a target, fetch from     *)
(* targets in turn, or leave the request to the next source.               *)
Plan(route, failover, req) ==
    LET To(t) == [how   |-> IF t \in Insecure THEN "proxy" ELSE "redirect",
                  queue |-> <<t>>]
        chosen == WorkerSelect(route.policy, route.cands, req)
    IN  IF route.policy # NoPolicy /\ route.cands # <<>>
        THEN IF failover /\ Len(route.cands) > 1
             THEN [how   |-> "failover",
                   queue |-> TargetsOf(SmartOrder(route.cands, chosen))]
             ELSE IF URLKind[chosen.target] = "ipfs"
                  THEN [how |-> "gateway", queue |-> <<chosen.target>>]
                  ELSE To(chosen.target)
        ELSE CASE route.type = "failover" ->
                    [how   |-> "failover",
                     queue |-> TargetsOf(FailoverOrder(route.cands))]
               [] route.type = "ipfs" ->
                    [how   |-> "gateway",
                     queue |-> <<route.target>> \o
                               Select(route.gateways,
                                         LAMBDA t : t # route.target)]
               [] route.type = "redirect" -> To(route.target)
               [] OTHER -> NoPlan
=============================================================================
