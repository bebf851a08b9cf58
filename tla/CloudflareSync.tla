---------------------------- MODULE CloudflareSync ----------------------------
(***************************************************************************)
(* Settings at Cloudflare that the server brings in line: DNS records and  *)
(* Worker routes of a site's hosts, an R2 bucket, its CORS policy and its  *)
(* public domain.                                                          *)
(*                                                                         *)
(* Sources: internal/cloudflare/client.go (syncs and provisioning), and in*)
(* internal/server site_domain_services.go, cloudflare_r2_services.go and  *)
(* site_handlers.go.                                                       *)
(*                                                                         *)
(* Every request looks at a setting with one call and changes it with      *)
(* another, while other requests and people at the dashboard do the same.  *)
(* What Cloudflare refuses is an assumption about it.                      *)
(***************************************************************************)
EXTENDS Naturals, FiniteSets, Sequences

CONSTANTS
    Names,              \* a site's hosts, a sequence
    Contents, Scripts, Policies,  \* what may be asked of a record, a route
                        \* and a CORS policy
    RecordIDs,          \* of DNS records
    Bucket,             \* the R2 bucket
    Syncs               \* requests that are served at the same time

\* siteBoundDomains names no host twice.
ASSUME NamesAssumption ==
    /\ Names \in Seq({Names[i] : i \in DOMAIN Names})
    /\ \A i, j \in DOMAIN Names : Names[i] = Names[j] => i = j

RecordTypes == {"CNAME", "A"}

\* What a setting may be made of.  A record points to a content, which stands
\* for whether it is proxied, too.
Values ==
    [dns |-> [id : RecordIDs, type : RecordTypes, to : Contents],
     route |-> Scripts, bucket |-> {"there"}, cors |-> Policies,
     managed |-> {"on"}, custom |-> {"disabled", "pending", "ready"}]

BucketSettings == {"cors", "managed", "custom"} \X {Bucket}
TheBucket == <<"bucket", Bucket>>
Settings == ({"dns", "route"} \X {Names[i] : i \in DOMAIN Names})
            \cup BucketSettings \cup {TheBucket}

\* A host has one CNAME or records no two of which are the same; everything
\* else is there once or not at all.
Legal(s, v) ==
    IF s[1] = "dns"
    THEN \A a, b \in v : a # b =>
            /\ a.id # b.id /\ a.to # b.to
            /\ "CNAME" \notin {a.type, b.type}
    ELSE Cardinality(v) <= 1

VARIABLES
    at,           \* setting -> what it is at Cloudflare, a set
    sync,         \* what each request is doing
    outsideLeft, syncsLeft, syncKinds  \* how many changes from outside and
                  \* requests, and of which kinds (bounds)

syncVars == <<at, sync, outsideLeft, syncsLeft, syncKinds>>

-----------------------------------------------------------------------------
(* The plan for one setting.                                               *)

\* dnsRecordMatches, and what the others compare.
Meets(s, v, want) ==
    CASE s[1] = "dns" -> v.type = want.type /\ v.to = want.to
      [] s[1] \in {"route", "cors"} -> v = want
      [] s[1] = "custom" -> v = "ready"
      [] OTHER -> TRUE

\* What may be compared with the wanted entry: any record of its type.
Compared(s, seen, want) ==
    IF s[1] = "dns" THEN {v \in seen : v.type = want.type} ELSE seen

\* conflictsWithDNSRecord, when there is no record of the type.
Clashes(s, seen, want) ==
    s[1] = "dns" /\ (want.type = "CNAME" \/ \E v \in seen : v.type = "CNAME")

\* Broken variant: what differs is replaced without being told to.
PlannedAnyway(s, seen, old, want, force) ==
    CASE old # {} -> IF \E v \in old : Meets(s, v, want) THEN "unchanged"
                     ELSE "update"
      [] OTHER -> IF seen # {} /\ Clashes(s, seen, want) THEN "conflict"
                  ELSE "create"

\* What to do about a setting that was seen; old is the entry compared, if any.
Planned(s, seen, old, want, force) ==
    CASE old # {} -> IF \E v \in old : Meets(s, v, want) THEN "unchanged"
                     ELSE IF force THEN "update" ELSE "conflict"
      [] OTHER -> IF seen # {} /\ Clashes(s, seen, want) THEN "conflict"
                  ELSE "create"

\* CreateDNSRecord and UpdateDNSRecord.  A record that is gone is not updated, and
\* none is put beside those that it may not be beside.
DNSOutcomes(s, action, old, want) ==
    LET rest == IF action = "create" THEN at[s]
                ELSE {v \in at[s] : \A o \in old : v.id # o.id}
        ids == IF action = "create" THEN RecordIDs \ {v.id : v \in rest}
               ELSE {v.id : v \in at[s] \ rest}
    IN  {v \in {rest \cup {[id |-> id, type |-> want.type, to |-> want.to]} : id \in ids} :
            Legal(s, v)}

\* Of what is there once, nothing is created beside it and only what is there is
\* updated.
Accepted(s, action) == (action = "create") = (at[s] = {})

\* CreateWorkerRoute and UpdateWorkerRoute.
RouteOutcomes(s, action, want) == IF Accepted(s, action) THEN {{want}} ELSE {}

\* CreateR2Bucket
BucketOutcomes(action) == IF Accepted(TheBucket, action) THEN {{"there"}} ELSE {}

\* What the call makes of the setting; nothing when Cloudflare refuses it.  A
\* policy is put whatever is there, a domain of the bucket's own is switched on,
\* any other is to be validated.
Outcomes(s, action, old, want) ==
    CASE s[1] = "dns" -> DNSOutcomes(s, action, old, want)
      [] s[1] = "route" -> RouteOutcomes(s, action, want)
      [] s[1] = "bucket" -> BucketOutcomes(action)
      [] s[1] = "cors" -> {{want}}
      [] s[1] = "managed" -> {{"on"}}
      [] OTHER -> IF Accepted(s, action) THEN {{"pending"}} ELSE {}

-----------------------------------------------------------------------------
(* Requests.                                                               *)

NoSync == [pc |-> "idle"]

Each(kind) == [i \in DOMAIN Names |-> <<kind, Names[i]>>]

\* What a request may be about, in the order it is worked off, and how it wants
\* it.  syncSiteDNS: a record for every host of the site.
DNSOrders == [todo : {Each("dns")}, want : [type : RecordTypes, to : Contents]]

\* syncSiteWorkerRoutes: a route for every host of the site.
RouteOrders == [todo : {Each("route")}, want : Scripts]

\* syncCloudflareR2: of one bucket the policy, the domain in its public URL, and,
\* when it is provisioned, the bucket itself.
BucketOrders(first) ==
    [todo : {first \o parts[1] \o parts[2] :
             parts \in {<<>>, <<<<"cors", Bucket>>>>} \X
                      {<<>>, <<<<"managed", Bucket>>>>, <<<<"custom", Bucket>>>>}},
     want : Policies]

Orders(kind) ==
    CASE kind = "dns" -> DNSOrders
      [] kind = "route" -> RouteOrders
      [] kind = "provision" -> BucketOrders(<<TheBucket>>)
      [] OTHER -> BucketOrders(<<>>)

StartSync(r, kind, order, force, dry) ==
    /\ sync[r].pc \in {"idle", "told"}
    /\ syncsLeft > 0 /\ syncsLeft' = syncsLeft - 1
    /\ order.todo # <<>>
    /\ sync' = [sync EXCEPT ![r] =
           [pc |-> "look", kind |-> kind, todo |-> order.todo, want |-> order.want,
            force |-> force, dry |-> dry, seen |-> <<>>, ok |-> {}, stale |-> {},
            replaced |-> {}]]
    /\ UNCHANGED <<at, outsideLeft, syncKinds>>

\* The answer; it holds for as long as nothing is changed.
Told(q) ==
    [pc |-> "told", want |-> q.want, force |-> q.force, dry |-> q.dry,
     ok |-> q.ok \ q.stale, replaced |-> q.replaced]

\* The next setting, or the answer.  Routes are listed once, for all hosts;
\* without the bucket nothing follows.
Onward(q, ok) ==
    LET rest == IF Head(q.todo) = TheBucket /\ ~ok THEN <<>> ELSE Tail(q.todo)
        next == [q EXCEPT !.todo = rest,
                          !.ok = IF ok THEN @ \cup {Head(q.todo)} ELSE @,
                          !.pc = IF q.kind = "route" THEN "act" ELSE "look"]
    IN  IF rest = <<>> THEN Told(next) ELSE next

\* What one look covers: SyncWorkerRoutes lists the routes once, for all hosts.
Looked(q) ==
    IF q.kind = "route" THEN {q.todo[i] : i \in DOMAIN q.todo} ELSE {Head(q.todo)}

\* ListDNSRecords, ListWorkerRoutes, ListR2Buckets, GetR2BucketCORS, and the
\* two lists of domains, which fail without a bucket.
Look(r) ==
    LET q == sync[r]
        looked == Looked(q)
    IN  /\ q.pc = "look"
        /\ Head(q.todo) \in BucketSettings => at[TheBucket] # {}
        /\ sync' = [sync EXCEPT ![r].pc = "act", ![r].stale = @ \ looked,
               ![r].seen = [s \in DOMAIN @ \cup looked |-> IF s \in looked THEN at[s] ELSE @[s]]]
        /\ UNCHANGED <<at, outsideLeft, syncsLeft, syncKinds>>

\* A setting of a bucket is reported and the next one follows; for the others
\* the request as a whole has failed, and what it did before is not told.
LookFails(r) ==
    LET q == sync[r]
    IN  /\ q.pc = "look"
        /\ sync' = [sync EXCEPT ![r] =
               IF Head(q.todo) \in BucketSettings THEN Onward(q, FALSE) ELSE NoSync]
        /\ UNCHANGED <<at, outsideLeft, syncsLeft, syncKinds>>

\* Who has looked at s has not seen what it is now.
Outdate(s) ==
    [q \in Syncs |->
        IF sync[q].pc \in {"idle", "told"} THEN NoSync
        ELSE IF s \in DOMAIN sync[q].seen THEN [sync[q] EXCEPT !.stale = @ \cup {s}]
        ELSE sync[q]]

\* What nobody is told to do, and a dry run, changes nothing.  Only a dry run
\* that would create the bucket is over with it.
Act(r) ==
    LET q == sync[r]
        s == Head(q.todo)
        compared == Compared(s, q.seen[s], q.want)
    IN  /\ q.pc = "act"
        /\ \E old \in IF compared = {} THEN {{}} ELSE {{v} : v \in compared} :
              LET action == Planned(s, q.seen[s], old, q.want, q.force)
                  calls == action \in {"create", "update"} /\ ~q.dry
              IN  \/ /\ ~calls
                     /\ sync' = [sync EXCEPT ![r] = Onward(q, action = "unchanged")]
                     /\ UNCHANGED at
                  \/ /\ calls
                     /\ sync' = [sync EXCEPT ![r] = Onward(q, FALSE)]
                     /\ UNCHANGED at
                  \/ \E v \in Outcomes(s, action, old, q.want), answered \in BOOLEAN :
                     /\ calls
                     /\ at' = [at EXCEPT ![s] = v]
                     /\ sync' = [Outdate(s) EXCEPT ![r] =
                            Onward([q EXCEPT !.stale = @ \ {s},
                                !.replaced = IF at[s] \subseteq v THEN @ ELSE @ \cup {s}],
                                answered)]
        /\ UNCHANGED <<outsideLeft, syncsLeft, syncKinds>>

\* People and programs that do not go through this server.  Nobody deletes the
\* bucket; Cloudflare validates a domain.
Outside(s, v) ==
    /\ outsideLeft > 0 /\ outsideLeft' = outsideLeft - 1
    /\ v # at[s] /\ Legal(s, v)
    /\ s = TheBucket => v # {}
    /\ s \in BucketSettings => at[TheBucket] # {}
    /\ at' = [at EXCEPT ![s] = v]
    /\ sync' = Outdate(s)
    /\ UNCHANGED <<syncsLeft, syncKinds>>

SyncInit(n, kindsOf, outside) ==
    /\ at = [s \in Settings |-> {}]
    /\ sync = [r \in Syncs |-> NoSync]
    /\ outsideLeft = outside /\ syncsLeft = n /\ syncKinds = kindsOf

Concerns(kind) ==
    CASE kind \in {"dns", "route"} -> {s \in Settings : s[1] = kind}
      [] OTHER -> BucketSettings \cup {TheBucket}

SyncNext ==
    \/ \E r \in Syncs, kind \in syncKinds, force, dry \in BOOLEAN :
          \E order \in Orders(kind) : StartSync(r, kind, order, force, dry)
    \/ \E r \in Syncs : Look(r) \/ LookFails(r) \/ Act(r)
    \/ \E kind \in syncKinds : \E s \in Concerns(kind) :
          \E v \in SUBSET Values[s[1]] : Outside(s, v)

-----------------------------------------------------------------------------
(* Properties.                                                             *)

CloudflareTypeOK ==
    /\ \A s \in Settings : at[s] \subseteq Values[s[1]] /\ Legal(s, at[s])
    /\ at[TheBucket] = {} => \A s \in BucketSettings : at[s] = {}
    /\ \A r \in Syncs : sync[r].pc \in {"idle", "look", "act", "told"}

InLine(s, want) ==
    IF s[1] = "custom" THEN at[s] \notin {{}, {"disabled"}}
    ELSE \E v \in at[s] : Meets(s, v, want)

\* A request keeps its word.  What it reports as done, or as right already, is
\* so when it answers, unless somebody has changed the setting since the
\* request looked at it: also after the settings before it failed, and though
\* the routes of all hosts are listed only once.  And without force, or in a
\* dry run, it takes nothing away that others have set; it may replace a CORS
\* policy that was not there when it looked.  (SyncDNSRecords,
\* SyncWorkerRoutes, SyncR2Bucket, ProvisionR2Bucket.)
SyncsKeepTheirWord ==
    \A r \in Syncs : sync[r].pc = "told" =>
       LET q == sync[r]
       IN  /\ \A s \in q.ok : InLine(s, q.want)
           /\ ~q.force \/ q.dry => q.replaced \subseteq {<<"cors", Bucket>>}
           /\ q.dry => q.replaced = {}

===============================================================================
