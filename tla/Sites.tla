-------------------------------- MODULE Sites --------------------------------
(***************************************************************************)
(* Sites, the hosts bound to them, and what goes when a site is deleted,   *)
(* with requests about one site running beside each other.                 *)
(*                                                                         *)
(* Sources: internal/server/site_handlers.go, site_domain_services.go,     *)
(* site_delete.go, site_deploy_handlers.go (createSiteDeploymentFrom-      *)
(* Request, recordCloudflareStaticDeployment, buildSiteDeployment) and     *)
(* internal/db/db.go (sites, domains).                                     *)
(*                                                                         *)
(* A step is a statement or a transaction of the database: it has one      *)
(* connection.  All requests are of the site's workspace.  A deployment is *)
(* an artifact, a file and a manifest; its life is SiteDeployments, its    *)
(* objects' copies are Replication.                                        *)
(***************************************************************************)
EXTENDS Naturals, FiniteSets, SequencesExt

CONSTANTS
    SiteIDs, Hosts, NoSite,
    DefaultHost,     \* defaultSiteDomain: of a site, in Hosts
    Slots,           \* requests that are served at the same time
    Deployments,     \* the deployments that may be made
    NoDeployment

ASSUME SitesAssumption ==
    /\ DefaultHost \in [SiteIDs -> Hosts]
    /\ NoSite \notin SiteIDs /\ NoDeployment \notin Deployments

VARIABLES
    site,        \* sites: the status of each, "none" without a row
    bound,       \* domains: host -> site or NoSite
    deployment,  \* of each deployment: its site and how far it has got
    rows,        \* deployments with a row in site_deployments
    fileRows,    \* deployments with the row of their file
    objects,     \* <<deployment, part>> stored
    request,     \* what each slot is doing
    asked,       \* history: what each site's requests have asked for, taken
                 \* one after the other
    overtaken,   \* history: sites whose hosts were written from a list that
                 \* another request had made stale
    promised,    \* history: deployments that were built when a request listed
                 \* them that then deleted their rows with their site
    requestsLeft, kinds  \* how many requests, and of which kinds (bounds)

siteVars == <<site, bound, deployment, rows, fileRows, objects, request, asked,
              overtaken, promised, requestsLeft, kinds>>

domainVars == <<bound, asked, overtaken>>
deploymentVars == <<deployment, rows, fileRows, objects, promised>>

Idle == [op |-> "none"]

Exists(s) == site[s] # "none"

HostsOf(s) == {h \in Hosts : bound[h] = s}

\* A request of a kind that the behaviour has, in a free slot.
Arrives(r, kind) ==
    /\ request[r] = Idle
    /\ kind \in kinds
    /\ requestsLeft > 0 /\ requestsLeft' = requestsLeft - 1
    /\ UNCHANGED kinds

Answer(r) == request' = [request EXCEPT ![r] = Idle]

Goto(r, op) == request' = [request EXCEPT ![r].op = op]

-----------------------------------------------------------------------------
(* Hosts.                                                                  *)

\* siteDomainsFromRequest: the site's default host, when it is allocated, and
\* those that are asked for.
Wanted(s, hosts, allocate) ==
    hosts \cup IF allocate THEN {DefaultHost[s]} ELSE {}

\* Broken variant: the hosts that the site has are left out.
MergedNewOnly(old, new, append) == new

Merged(old, new, append) == IF append THEN old \cup new ELSE new

\* Requests that have read s and will write by what they read.
Behind(q, s) == request[q].op \in {"set", "make"} /\ request[q].site = s

\* What a change of the hosts of s makes of the other requests.
Overtake(r, s, next) ==
    request' = [q \in Slots |->
        IF q = r THEN next
        ELSE IF Behind(q, s) THEN [request[q] EXCEPT !.stale = TRUE]
        ELSE request[q]]

\* SetDomains, one transaction: the site's rows go, the new ones come, and all
\* is taken back when a host is another site's or the site is no more.
Settable(s, hosts) ==
    \A h \in hosts : bound[h] \in {s, NoSite} /\ Exists(s)

SetDomains(s, hosts) ==
    bound' = [h \in Hosts |->
        IF h \in hosts THEN s ELSE IF bound[h] = s THEN NoSite ELSE bound[h]]

\* handleBindSiteDomains reads the site, its hosts among it...
StartBind(r, s, hosts, append) ==
    /\ Arrives(r, "bind")
    /\ Exists(s)
    /\ request' = [request EXCEPT ![r] =
           [op |-> "set", kind |-> IF append THEN "append" ELSE "bind",
            site |-> s, hosts |-> Merged(HostsOf(s), hosts, append),
            wanted |-> hosts, stale |-> FALSE]]
    /\ UNCHANGED <<site, domainVars, deploymentVars>>

\* CreateSiteInWorkspace: a row, or the old one with another name, mode and
\* profile; the status stays.
Upsert(s) ==
    site' = IF Exists(s) THEN site ELSE [site EXCEPT ![s] = "active"]

\* handleCreateSite ...
StartCreate(r, s, hosts) ==
    /\ Arrives(r, "create")
    /\ Upsert(s)
    /\ request' = [request EXCEPT ![r] =
           [op |-> "set", kind |-> "create", site |-> s, hosts |-> hosts,
            wanted |-> hosts, stale |-> FALSE]]
    /\ UNCHANGED <<domainVars, deploymentVars>>

\* ... and both write the whole list.  An upload that found no site goes on
\* with its deployment.
WriteDomains(r) ==
    LET q == request[r]
        s == q.site
        exact == q.kind \in {"create", "bind"}
        next == IF q.kind = "deploy" /\ Exists(s) THEN [op |-> "insert", site |-> s]
                ELSE Idle
    IN  /\ q.op = "set"
        /\ IF Settable(s, q.hosts)
           THEN /\ SetDomains(s, q.hosts)
                /\ asked' = IF q.kind = "deploy" THEN asked
                            ELSE [asked EXCEPT ![s] = q.wanted \cup
                                      IF q.kind = "append" THEN @ ELSE {}]
                /\ overtaken' = IF exact THEN overtaken \ {s}
                                ELSE IF q.stale THEN overtaken \cup {s} ELSE overtaken
                /\ Overtake(r, s, next)
           ELSE Answer(r) /\ UNCHANGED domainVars
        /\ UNCHANGED <<site, deploymentVars, requestsLeft, kinds>>

\* handleSetSiteStatus; a site deleted since it was read is not found.
SetStatus(r, s, status) ==
    /\ Arrives(r, "status")
    /\ Exists(s)
    /\ site' = [site EXCEPT ![s] = status]
    /\ UNCHANGED <<request, domainVars, deploymentVars>>

-----------------------------------------------------------------------------
(* Deployments.                                                            *)

Stage(d, stage) == deployment' = [deployment EXCEPT ![d].stage = stage]

\* createSiteDeploymentFromRequest makes the site that it does not find, with
\* no hosts, ...
StartDeploy(r, s) ==
    /\ Arrives(r, "deploy")
    /\ request' = [request EXCEPT ![r] =
           IF Exists(s) THEN [op |-> "insert", site |-> s]
           ELSE [op |-> "make", kind |-> "deploy", site |-> s, hosts |-> {},
                 wanted |-> {}, stale |-> FALSE]]
    /\ UNCHANGED <<site, domainVars, deploymentVars>>

\* recordCloudflareStaticDeployment makes the site, or finds it, and adds to the
\* hosts it has.  The deployment it records has no objects here: its row, with
\* those of other deployments, is SiteDeployments'.
StartRecord(r, s, hosts) ==
    /\ Arrives(r, "record")
    /\ request' = [request EXCEPT ![r] =
           [op |-> "make", kind |-> "append", site |-> s,
            hosts |-> Merged(HostsOf(s), hosts, TRUE), wanted |-> hosts,
            stale |-> FALSE]]
    /\ UNCHANGED <<site, domainVars, deploymentVars>>

\* CreateSiteInWorkspace, with the hosts to be written after the site.
MakeSite(r) ==
    /\ request[r].op = "make"
    /\ Upsert(request[r].site)
    /\ Goto(r, "set")
    /\ UNCHANGED <<domainVars, deploymentVars, requestsLeft, kinds>>

\* ... and inserts a row that refers to the site.
InsertDeployment(r) ==
    LET s == request[r].site
        free == {d \in Deployments : deployment[d].stage = "none"}
    IN  /\ request[r].op = "insert"
        /\ free # {}
        /\ IF Exists(s)
           THEN \E d \in free :
                   /\ deployment' = [deployment EXCEPT ![d] =
                                         [site |-> s, stage |-> "queued"]]
                   /\ rows' = rows \cup {d}
           ELSE UNCHANGED <<deployment, rows>>
        /\ Answer(r)
        /\ UNCHANGED <<site, domainVars, fileRows, objects, promised,
                       requestsLeft, kinds>>

\* buildSiteDeployment, in a job loop: what it stores, in order.
NextStage ==
    [artifact |-> "file", file |-> "fileRow", manifest |-> "mark"]

StartBuild(d) ==
    /\ deployment[d].stage = "queued" /\ d \in rows
    /\ Stage(d, "artifact")
    /\ UNCHANGED <<rows, fileRows, objects>>

PutPart(d) ==
    LET stage == deployment[d].stage
    IN  /\ stage \in DOMAIN NextStage
        /\ objects' = objects \cup {<<d, stage>>}
        /\ Stage(d, NextStage[stage])
        /\ UNCHANGED <<rows, fileRows>>

\* AddSiteDeploymentFile: the row refers to the deployment and to the object.
AddFile(d) ==
    /\ deployment[d].stage = "fileRow"
    /\ d \in rows /\ <<d, "file">> \in objects
    /\ fileRows' = fileRows \cup {d}
    /\ Stage(d, "manifest")
    /\ UNCHANGED <<rows, objects>>

\* MarkSiteDeploymentReady: from here on the row names artifact and manifest.
MarkReady(d) ==
    /\ deployment[d].stage = "mark" /\ d \in rows
    /\ Stage(d, "built")
    /\ UNCHANGED <<rows, fileRows, objects>>

\* Whatever goes wrong, a row that is gone among it: what is stored stays.
BuildFails(d) ==
    /\ deployment[d].stage \notin {"none", "built", "failed"}
    /\ Stage(d, "failed")
    /\ UNCHANGED <<rows, fileRows, objects>>

BuildStep ==
    /\ \E d \in Deployments :
          \/ StartBuild(d) \/ PutPart(d) \/ AddFile(d) \/ MarkReady(d)
          \/ BuildFails(d)
    /\ UNCHANGED <<site, domainVars, request, promised, requestsLeft, kinds>>

-----------------------------------------------------------------------------
(* Deleting a site.                                                        *)

\* handleDeleteSite
StartDelete(r, s) ==
    /\ Arrives(r, "delete")
    /\ Exists(s)
    /\ request' = [request EXCEPT ![r] = [op |-> "list", site |-> s]]
    /\ UNCHANGED <<site, domainVars, deploymentVars>>

\* deleteSite lists the deployments once.
ListDeployments(r) ==
    LET q == request[r]
        listed == {d \in rows : deployment[d].site = q.site}
    IN  /\ q.op = "list"
        /\ request' = [request EXCEPT ![r] =
               [op |-> "files", site |-> q.site, left |-> listed,
                built |-> {d \in listed : deployment[d].stage = "built"},
                current |-> NoDeployment, parts |-> {}, failed |-> FALSE]]
        /\ UNCHANGED <<site, domainVars, deploymentVars, requestsLeft, kinds>>

\* deleteSiteDeploymentObjects: the files by their rows as they are now, artifact
\* and manifest by the deployment's row as it was listed.
PartsOf(d, built) ==
    (IF d \in fileRows THEN {"file"} ELSE {})
    \cup IF d \in built THEN {"artifact", "manifest"} ELSE {}

\* The next deployment; one whose files cannot be listed is left as it is.
NextDeployment(r) ==
    LET q == request[r]
    IN  /\ q.op = "files" /\ q.parts = {}
        /\ \E d \in q.left, failed \in BOOLEAN :
              request' = [request EXCEPT
                  ![r].left = @ \ {d}, ![r].current = d,
                  ![r].parts = IF failed THEN {} ELSE PartsOf(d, q.built),
                  ![r].failed = @ \/ failed]
        /\ UNCHANGED <<site, domainVars, deploymentVars, requestsLeft, kinds>>

\* deleteSiteDeploymentObject: copies, then row; with it goes the file's row.
\* One that fails is reported, and the next is deleted.
DeletePart(r) ==
    LET q == request[r]
    IN  /\ q.op = "files"
        /\ \E part \in q.parts :
              \/ /\ objects' = objects \ {<<q.current, part>>}
                 /\ fileRows' = fileRows \ {d \in {q.current} : part = "file"}
                 /\ request' = [request EXCEPT ![r].parts = @ \ {part}]
              \/ /\ request' = [request EXCEPT ![r].parts = @ \ {part},
                                               ![r].failed = TRUE]
                 /\ UNCHANGED <<objects, fileRows>>
        /\ UNCHANGED <<site, domainVars, deployment, rows, promised,
                       requestsLeft, kinds>>

\* Broken variant: the site goes, whichever objects could not be deleted.
ObjectsDoneAnyway(r) ==
    LET q == request[r]
    IN  /\ q.op = "files" /\ q.left = {} /\ q.parts = {}
        /\ Goto(r, "drop")
        /\ UNCHANGED <<site, domainVars, deploymentVars, requestsLeft, kinds>>

\* Nothing of the site goes unless every object did.  The projects that are
\* deleted before it have no rows: no build makes them.
ObjectsDone(r) ==
    LET q == request[r]
    IN  /\ q.op = "files" /\ q.left = {} /\ q.parts = {}
        /\ IF q.failed THEN Answer(r) ELSE Goto(r, "drop")
        /\ UNCHANGED <<site, domainVars, deploymentVars, requestsLeft, kinds>>

\* DeleteSite: hosts, deployments and file rows go with the site, also those
\* of deployments made since they were listed.
DropSite(r) ==
    LET q == request[r]
        s == q.site
        gone == {d \in rows : deployment[d].site = s}
    IN  /\ q.op = "drop"
        /\ IF Exists(s)
           THEN /\ site' = [site EXCEPT ![s] = "none"]
                /\ SetDomains(s, {})
                /\ rows' = rows \ gone /\ fileRows' = fileRows \ gone
                /\ promised' = promised \cup (q.built \cap gone)
                /\ asked' = [asked EXCEPT ![s] = {}]
                /\ overtaken' = overtaken \ {s}
                /\ Overtake(r, s, Idle)
           ELSE Answer(r) /\ UNCHANGED <<site, domainVars, rows, fileRows, promised>>
        /\ UNCHANGED <<deployment, objects, requestsLeft, kinds>>

\* The client goes away, or a statement fails: the request ends where it is.
BreakOff(r) ==
    /\ request[r] # Idle
    /\ Answer(r)
    /\ UNCHANGED <<site, domainVars, deploymentVars, requestsLeft, kinds>>

-----------------------------------------------------------------------------
SitesInit(n, kindsOf) ==
    /\ site = [s \in SiteIDs |-> "none"]
    /\ bound = [h \in Hosts |-> NoSite]
    /\ deployment = [d \in Deployments |-> [site |-> NoSite, stage |-> "none"]]
    /\ rows = {} /\ fileRows = {} /\ objects = {}
    /\ request = [r \in Slots |-> Idle]
    /\ asked = [s \in SiteIDs |-> {}]
    /\ overtaken = {} /\ promised = {}
    /\ requestsLeft = n /\ kinds = kindsOf

RequestStep(r) ==
    \/ \E s \in SiteIDs :
          \/ \E hosts \in SUBSET Hosts, allocate \in BOOLEAN :
                LET wanted == Wanted(s, hosts, allocate)
                IN  \/ StartCreate(r, s, wanted)
                    \/ \E append \in BOOLEAN : StartBind(r, s, wanted, append)
          \/ \E status \in {"active", "offline"} : SetStatus(r, s, status)
          \/ \E hosts \in SUBSET Hosts : StartRecord(r, s, hosts)
          \/ StartDeploy(r, s) \/ StartDelete(r, s)
    \/ WriteDomains(r) \/ MakeSite(r) \/ InsertDeployment(r)
    \/ ListDeployments(r) \/ NextDeployment(r) \/ DeletePart(r)
    \/ ObjectsDone(r) \/ DropSite(r)
    \/ BreakOff(r)

SitesNext == BuildStep \/ \E r \in Slots : RequestStep(r)

-----------------------------------------------------------------------------
(* Properties.                                                             *)

Stages == {"none", "queued", "artifact", "file", "fileRow", "manifest", "mark",
           "built", "failed"}

SitesTypeOK ==
    /\ site \in [SiteIDs -> {"none", "active", "offline"}]
    /\ bound \in [Hosts -> SiteIDs \cup {NoSite}]
    /\ deployment \in [Deployments -> [site : SiteIDs \cup {NoSite}, stage : Stages]]
    /\ fileRows \subseteq rows /\ rows \cup promised \subseteq Deployments
    /\ objects \subseteq Deployments \X {"artifact", "file", "manifest"}
    /\ asked \in [SiteIDs -> SUBSET Hosts] /\ overtaken \subseteq SiteIDs
    /\ \A r \in Slots : request[r].op \in
          {"none", "set", "make", "insert", "list", "files", "drop"}

\* A site has the hosts that its requests, one after the other, have given it,
\* whatever other sites asked for and however the requests' reads and writes
\* fell between each other, unless a list was written that had been read before
\* another request changed the site's hosts (an append, a deployment that is
\* recorded, or an upload that found no site); and no host outlives its site.
\* (SetDomains, handleBindSiteDomains, createSiteDeploymentFromRequest,
\* recordCloudflareStaticDeployment.)
AppendsAccumulate ==
    \A s \in SiteIDs :
       /\ s \in overtaken \/ HostsOf(s) = asked[s]
       /\ ~Exists(s) => HostsOf(s) = {}

\* Deleting a site leaves no object, and no row, of a deployment that was built
\* when it looked and whose row it takes away, whichever objects could not be
\* deleted, were deleted by another request, or were stored meanwhile.
\* (deleteSite, DeleteSite.)
DeletedSiteIsGone ==
    \A d \in promised :
       /\ d \notin rows
       /\ \A part \in {"artifact", "file", "manifest"} : <<d, part>> \notin objects

==============================================================================
