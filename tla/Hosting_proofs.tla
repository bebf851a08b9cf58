---------------------------- MODULE Hosting_proofs ----------------------------
(***************************************************************************)
(* What Sites, Libraries and CloudflareSync promise, for any number of     *)
(* sites, hosts, deployments, targets, uploads, checks, settings, and      *)
(* requests beside each other; each of them is proved by itself, and what  *)
(* the run checks of all three follows at the end.                         *)
(*                                                                         *)
(* Of a site's hosts: a request that has read them and is not stale has    *)
(* read what they still are.  Of a delete: what has been listed and worked *)
(* off, and has not failed, is gone.  Of a health check: one that is not   *)
(* stale holds the failures that the row still has.  Of uploads: at any    *)
(* time finitely many are charged, and the usage of a target and a day is  *)
(* the sum of theirs.  Of a request to Cloudflare: what it reports is in   *)
(* line and what it has seen is still so, but for settings changed since   *)
(* it looked; this is stated of a map `a' of the settings, to speak of the *)
(* map before a step and after it.                                         *)
(***************************************************************************)
EXTENDS MCHosting, DataTheorems, SequenceTheorems, FiniteSetTheorems, TLAPS

SitesSpec(n, kindsOf) == SitesInit(n, kindsOf) /\ [][SitesNext]_siteVars

-----------------------------------------------------------------------------
(* The invariant of Sites.                                                 *)

Parts == {"artifact", "file", "manifest"}

Writers == [op : {"set"}, kind : {"create", "bind", "append", "deploy"},
            site : SiteIDs, hosts : SUBSET Hosts, wanted : SUBSET Hosts,
            stale : BOOLEAN]

Makers == [op : {"make"}, kind : {"append", "deploy"},
           site : SiteIDs, hosts : SUBSET Hosts, wanted : SUBSET Hosts,
           stale : BOOLEAN]

Briefs == [op : {"insert", "list"}, site : SiteIDs]

Deleters == [op : {"files", "drop"}, site : SiteIDs, left : SUBSET Deployments,
             built : SUBSET Deployments, current : Deployments \cup {NoDeployment},
             parts : SUBSET Parts, failed : BOOLEAN]

Works == {Idle} \cup Writers \cup Makers \cup Briefs \cup Deleters

Types == SitesTypeOK /\ request \in [Slots -> Works]

\* What a request has read of the hosts of its site.
Read(q) ==
  q \in Makers \cup Writers =>
       /\ q.kind \in {"create", "bind"} => q.hosts = q.wanted
       /\ q.kind = "append" => q.stale \/ q.hosts = HostsOf(q.site) \cup q.wanted
       /\ q.kind = "deploy" => q.hosts = {} /\ (q.stale \/ HostsOf(q.site) = {})

HostsInv == AppendsAccumulate /\ \A q \in Slots : Read(request[q])

Built(d) == deployment[d].stage = "built"

\* What a request that deletes a site has done, and what it may yet drop.
Cleared(q, d) ==
  d \in rows =>
    \A part \in Parts : <<d, part>> \in objects => d = q.current /\ part \in q.parts

Deletes(q) ==
  q \in Deleters =>
    /\ \A d \in q.built : Built(d)
    /\ q.failed \/ \A d \in q.built \ q.left : Cleared(q, d)
    /\ q.op = "drop" => q.left = {} /\ q.parts = {} /\ ~q.failed

FilesKnown ==
  \A d \in rows :
     deployment[d].stage \in {"manifest", "mark", "built"} /\ <<d, "file">> \in objects
     => d \in fileRows

GoneInv ==
  /\ FilesKnown
  /\ DeletedSiteIsGone /\ \A d \in promised : Built(d)
  /\ \A q \in Slots : Deletes(request[q])

SitesInv == Types /\ HostsInv /\ GoneInv

-----------------------------------------------------------------------------
(* Requests.                                                               *)

\* The operation says what kind of record a request is.
LEMMA WhichWork ==
  ASSUME NEW q \in Works
  PROVE  /\ q.op = "set" <=> q \in Writers
         /\ q.op = "make" <=> q \in Makers
         /\ q.op \in {"insert", "list"} <=> q \in Briefs
         /\ q.op \in {"files", "drop"} <=> q \in Deleters
         /\ q.op = "none" <=> q = Idle
         /\ q.op \in {"none", "set", "make", "insert", "list", "files", "drop"}
<1>1. CASE q = Idle
  BY <1>1 DEF Idle, Writers, Makers, Briefs, Deleters
<1>2. CASE q \in Writers
  BY <1>2 DEF Idle, Writers, Makers, Briefs, Deleters
<1>3. CASE q \in Makers
  BY <1>3 DEF Idle, Writers, Makers, Briefs, Deleters
<1>4. CASE q \in Briefs
  BY <1>4 DEF Idle, Writers, Makers, Briefs, Deleters
<1>5. CASE q \in Deleters
  BY <1>5 DEF Idle, Writers, Makers, Briefs, Deleters
<1> QED BY <1>1, <1>2, <1>3, <1>4, <1>5 DEF Works

\* Neither of the other kinds reads hosts or deletes.
LEMMA IdleOrBrief ==
  ASSUME NEW q \in {Idle} \cup Briefs
  PROVE  q \in Works /\ Read(q) /\ Deletes(q)
<1>1. q \in Works
  BY DEF Works
<1>2. q \notin Writers /\ q \notin Makers /\ q \notin Deleters
  BY <1>1, WhichWork DEF Idle, Briefs
<1> QED BY <1>1, <1>2 DEF Read, Deletes

\* A step that changes nothing but what one request does, and that may add a site
\* or change its status.
LEMMA PlainKeeps ==
  ASSUME SitesInv, UNCHANGED domainVars, UNCHANGED deploymentVars,
         site' \in [SiteIDs -> {"none", "active", "offline"}],
         \A s \in SiteIDs : Exists(s) => site'[s] # "none",
         NEW r \in Slots, NEW q \in Works, request' = [request EXCEPT ![r] = q],
         Read(q), Deletes(q)
  PROVE  SitesInv'
<1>1. /\ bound' = bound /\ asked' = asked /\ overtaken' = overtaken
      /\ deployment' = deployment /\ rows' = rows /\ fileRows' = fileRows
      /\ objects' = objects /\ promised' = promised
  BY DEF domainVars, deploymentVars
<1>2. /\ request' \in [Slots -> Works] /\ request'[r] = q
      /\ \A x \in Slots : x # r => request'[x] = request[x]
  BY DEF SitesInv, Types
<1>3. Types'
  <2>1. \A x \in Slots : request'[x].op \in
          {"none", "set", "make", "insert", "list", "files", "drop"}
    BY <1>2, WhichWork
  <2> QED BY <1>1, <1>2, <2>1 DEF SitesInv, Types, SitesTypeOK
<1>4. \A x : Read(x) => Read(x)'
  BY <1>1 DEF Read, HostsOf
<1>5. \A x \in Slots : Read(request[x])'
  BY <1>1, <1>2 DEF SitesInv, HostsInv, Read, HostsOf
<1>6. AppendsAccumulate'
  BY <1>1 DEF SitesInv, HostsInv, AppendsAccumulate, HostsOf, Exists
<1>7. \A x \in Slots : Deletes(request[x])'
  BY <1>1, <1>2 DEF SitesInv, GoneInv, Deletes, Built, Cleared
<1>8. FilesKnown' /\ DeletedSiteIsGone' /\ \A d \in promised' : Built(d)'
  BY <1>1 DEF SitesInv, GoneInv, FilesKnown, DeletedSiteIsGone, Built
<1> QED BY <1>3, <1>5, <1>6, <1>7, <1>8 DEF SitesInv, HostsInv, GoneInv

\* So does a request that ends, or goes on to something brief.
LEMMA BriefKeeps ==
  ASSUME SitesInv, UNCHANGED domainVars, UNCHANGED deploymentVars, site' = site,
         NEW r \in Slots, NEW q \in {Idle} \cup Briefs,
         request' = [request EXCEPT ![r] = q]
  PROVE  SitesInv'
<1>1. /\ site' \in [SiteIDs -> {"none", "active", "offline"}]
      /\ \A s \in SiteIDs : Exists(s) => site'[s] # "none"
  BY DEF SitesInv, Types, SitesTypeOK, Exists
<1> QED BY <1>1, IdleOrBrief, PlainKeeps

\* A site that is made, or is there.
LEMMA UpsertFacts ==
  ASSUME SitesInv, NEW s \in SiteIDs, Upsert(s)
  PROVE  /\ site' \in [SiteIDs -> {"none", "active", "offline"}]
         /\ \A t \in SiteIDs : Exists(t) => site'[t] # "none"
BY DEF SitesInv, Types, SitesTypeOK, Upsert, Exists

\* What a change of a site's hosts makes of the requests.
LEMMA OvertakeFacts ==
  ASSUME SitesInv, NEW r \in Slots, NEW s, NEW next \in Works, Overtake(r, s, next)
  PROVE  /\ request' \in [Slots -> Works] /\ request'[r] = next
         /\ \A q \in Slots \ {r} :
              \/ request'[q] = request[q] /\ ~Behind(q, s)
              \/ /\ \/ request[q] \in Makers /\ request'[q] \in Makers
                    \/ request[q] \in Writers /\ request'[q] \in Writers
                 /\ request'[q].stale = TRUE /\ request'[q].kind = request[q].kind
                 /\ request'[q].hosts = request[q].hosts
                 /\ request'[q].wanted = request[q].wanted
<1> DEFINE Warned(q) == [request[q] EXCEPT !.stale = TRUE]
<1>1. \A q \in Slots : request[q] \in Works
  BY DEF SitesInv, Types
<1>2. ASSUME NEW q \in Slots, Behind(q, s)
      PROVE  /\ \/ request[q] \in Makers /\ Warned(q) \in Makers
                \/ request[q] \in Writers /\ Warned(q) \in Writers
             /\ Warned(q).stale = TRUE /\ Warned(q).kind = request[q].kind
             /\ Warned(q).hosts = request[q].hosts
             /\ Warned(q).wanted = request[q].wanted
  <2>1. request[q] \in Makers \/ request[q] \in Writers
    BY <1>1, <1>2, WhichWork DEF Behind
  <2>2. CASE request[q] \in Makers
    BY <2>2 DEF Makers
  <2>3. CASE request[q] \in Writers
    BY <2>3 DEF Writers
  <2> QED BY <2>1, <2>2, <2>3
<1>3. /\ DOMAIN request' = Slots /\ request' = [q \in Slots |-> request'[q]]
      /\ request'[r] = next
      /\ \A q \in Slots \ {r} :
           request'[q] = IF Behind(q, s) THEN Warned(q) ELSE request[q]
  BY DEF Overtake
<1> HIDE DEF Warned
<1>4. \A q \in Slots : request'[q] \in Works
  BY <1>1, <1>2, <1>3, ZenonT(60) DEF Works
<1> QED BY <1>2, <1>3, <1>4, ZenonT(60)

\* What one transaction makes of the hosts.
LEMMA SetDomainsFacts ==
  ASSUME SitesInv, NEW s \in SiteIDs, NEW hosts \in SUBSET Hosts,
         Settable(s, hosts), SetDomains(s, hosts)
  PROVE  /\ bound' \in [Hosts -> SiteIDs \cup {NoSite}]
         /\ HostsOf(s)' = hosts
         /\ \A t \in SiteIDs \ {s} : HostsOf(t)' = HostsOf(t)
<1>1. bound' \in [Hosts -> SiteIDs \cup {NoSite}]
  BY DEF SitesInv, Types, SitesTypeOK, SetDomains
<1>2. ASSUME NEW h \in Hosts
      PROVE  /\ bound'[h] = s <=> h \in hosts
             /\ \A t \in SiteIDs \ {s} : bound'[h] = t <=> bound[h] = t
  <2>1. s # NoSite /\ NoSite \notin SiteIDs
    BY SitesAssumption
  <2>2. bound'[h] = IF h \in hosts THEN s ELSE IF bound[h] = s THEN NoSite ELSE bound[h]
    BY DEF SetDomains
  <2>3. h \in hosts => bound[h] \in {s, NoSite}
    BY DEF Settable
  <2> QED BY <2>1, <2>2, <2>3
<1> QED BY <1>1, <1>2 DEF HostsOf

-----------------------------------------------------------------------------
(* Hosts.                                                                  *)

\* The kinds of requests do not overlap.
LEMMA Apart ==
  /\ \A q \in Writers : q \in Works /\ q \notin Makers /\ q \notin Deleters
  /\ \A q \in Makers : q \in Works /\ q \notin Writers /\ q \notin Deleters
  /\ \A q \in Deleters : q \in Works /\ q \notin Writers /\ q \notin Makers
<1>1. ASSUME NEW q \in Writers
      PROVE  q \in Works /\ q \notin Makers /\ q \notin Deleters
  BY <1>1, WhichWork DEF Works, Writers
<1>2. ASSUME NEW q \in Makers
      PROVE  q \in Works /\ q \notin Writers /\ q \notin Deleters
  BY <1>2, WhichWork DEF Works, Makers
<1>3. ASSUME NEW q \in Deleters
      PROVE  q \in Works /\ q \notin Writers /\ q \notin Makers
  BY <1>3, WhichWork DEF Works, Deleters
<1> QED BY <1>1, <1>2, <1>3

\* The site as it is.
LEMMA SiteStays ==
  ASSUME SitesInv
  PROVE  /\ site \in [SiteIDs -> {"none", "active", "offline"}]
         /\ \A s \in SiteIDs : Exists(s) => site[s] # "none"
BY DEF SitesInv, Types, SitesTypeOK, Exists

\* handleBindSiteDomains reads.
LEMMA StartBindKeeps ==
  ASSUME SitesInv, NEW r \in Slots, NEW s \in SiteIDs, NEW hosts \in SUBSET Hosts,
         NEW append \in BOOLEAN, StartBind(r, s, hosts, append)
  PROVE  SitesInv'
<1>1. PICK q : q = [op |-> "set", kind |-> IF append THEN "append" ELSE "bind",
                    site |-> s, hosts |-> Merged(HostsOf(s), hosts, append),
                    wanted |-> hosts, stale |-> FALSE]
  OBVIOUS
<1>2. /\ request' = [request EXCEPT ![r] = q] /\ site' = site
      /\ UNCHANGED domainVars /\ UNCHANGED deploymentVars
  BY <1>1 DEF StartBind
<1>3. /\ q.kind = (IF append THEN "append" ELSE "bind") /\ q.site = s
      /\ q.hosts = (IF append THEN HostsOf(s) \cup hosts ELSE hosts)
      /\ q.wanted = hosts
  BY <1>1 DEF Merged
<1>4. q \in Writers
  <2>1. Merged(HostsOf(s), hosts, append) \in SUBSET Hosts
    BY DEF Merged, HostsOf
  <2>2. (IF append THEN "append" ELSE "bind") \in {"create", "bind", "append", "deploy"}
    OBVIOUS
  <2> QED BY <1>1, <2>1, <2>2 DEF Writers
<1>5. q.kind = "append" => q.hosts = HostsOf(q.site) \cup q.wanted
  BY <1>3
<1>6. q.kind \in {"create", "bind"} => q.hosts = q.wanted
  BY <1>3
<1>7. q.kind # "deploy"
  BY <1>3
<1>8. Read(q) /\ Deletes(q)
  BY <1>4, <1>5, <1>6, <1>7, Apart DEF Read, Deletes
<1> QED BY <1>2, <1>4, <1>8, Apart, SiteStays, PlainKeeps

\* handleCreateSite makes the site, or finds it.
LEMMA StartCreateKeeps ==
  ASSUME SitesInv, NEW r \in Slots, NEW s \in SiteIDs, NEW hosts \in SUBSET Hosts,
         StartCreate(r, s, hosts)
  PROVE  SitesInv'
<1>1. PICK q : q = [op |-> "set", kind |-> "create", site |-> s, hosts |-> hosts,
                    wanted |-> hosts, stale |-> FALSE]
  OBVIOUS
<1>2. /\ request' = [request EXCEPT ![r] = q] /\ Upsert(s)
      /\ UNCHANGED domainVars /\ UNCHANGED deploymentVars
  BY <1>1 DEF StartCreate
<1>3. q \in Writers /\ q.kind = "create" /\ q.hosts = q.wanted
  BY <1>1 DEF Writers
<1>4. Read(q) /\ Deletes(q)
  BY <1>3, Apart DEF Read, Deletes
<1> QED BY <1>2, <1>3, <1>4, Apart, UpsertFacts, PlainKeeps

\* An upload begins, and may have to make its site.
LEMMA StartDeployKeeps ==
  ASSUME SitesInv, NEW r \in Slots, NEW s \in SiteIDs, StartDeploy(r, s)
  PROVE  SitesInv'
<1>1. site' = site /\ UNCHANGED domainVars /\ UNCHANGED deploymentVars
  BY DEF StartDeploy
<1>2. CASE Exists(s)
  <2>1. PICK q : q = [op |-> "insert", site |-> s]
    OBVIOUS
  <2>2. request' = [request EXCEPT ![r] = q]
    BY <1>2, <2>1 DEF StartDeploy
  <2>3. q \in Briefs
    BY <2>1 DEF Briefs
  <2> QED BY <1>1, <2>2, <2>3, BriefKeeps
<1>3. CASE ~Exists(s)
  <2>1. PICK q : q = [op |-> "make", kind |-> "deploy", site |-> s, hosts |-> {},
                      wanted |-> {}, stale |-> FALSE]
    OBVIOUS
  <2>2. request' = [request EXCEPT ![r] = q]
    BY <1>3, <2>1 DEF StartDeploy
  <2>3. q \in Makers /\ q.site = s /\ q.kind = "deploy" /\ q.hosts = {}
    BY <2>1 DEF Makers
  <2>4. HostsOf(s) = {}
    BY <1>3 DEF SitesInv, HostsInv, AppendsAccumulate
  <2>5. Read(q) /\ Deletes(q)
    BY <2>3, <2>4, Apart DEF Read, Deletes
  <2> QED BY <1>1, <2>2, <2>3, <2>5, Apart, SiteStays, PlainKeeps
<1> QED BY <1>2, <1>3

\* A deployment is recorded: the hosts of its site are read.
LEMMA StartRecordKeeps ==
  ASSUME SitesInv, NEW r \in Slots, NEW s \in SiteIDs, NEW hosts \in SUBSET Hosts,
         StartRecord(r, s, hosts)
  PROVE  SitesInv'
<1>1. PICK q : q = [op |-> "make", kind |-> "append", site |-> s,
                    hosts |-> Merged(HostsOf(s), hosts, TRUE), wanted |-> hosts,
                    stale |-> FALSE]
  OBVIOUS
<1>2. /\ request' = [request EXCEPT ![r] = q] /\ site' = site
      /\ UNCHANGED domainVars /\ UNCHANGED deploymentVars
  BY <1>1 DEF StartRecord
<1>3. /\ q.kind = "append" /\ q.site = s
      /\ q.hosts = HostsOf(s) \cup hosts /\ q.wanted = hosts
  BY <1>1 DEF Merged
<1>4. q \in Makers
  <2>1. Merged(HostsOf(s), hosts, TRUE) \in SUBSET Hosts
    BY DEF Merged, HostsOf
  <2> QED BY <1>1, <2>1 DEF Makers
<1>5. Read(q) /\ Deletes(q)
  BY <1>3, <1>4, Apart DEF Read, Deletes
<1> QED BY <1>2, <1>4, <1>5, Apart, SiteStays, PlainKeeps

\* The site of an upload, or of a deployment that is recorded, is made or found.
LEMMA MakeSiteKeeps ==
  ASSUME SitesInv, NEW r \in Slots, MakeSite(r)
  PROVE  SitesInv'
<1>1. PICK m : m = request[r]
  OBVIOUS
<1>2. m \in Makers /\ Read(m)
  BY <1>1, WhichWork DEF MakeSite, SitesInv, Types, HostsInv
<1>3. m.site \in SiteIDs
  BY <1>2 DEF Makers
<1>4. PICK q : q = [m EXCEPT !.op = "set"]
  OBVIOUS
<1>5. /\ request' = [request EXCEPT ![r] = q] /\ Upsert(m.site)
      /\ UNCHANGED domainVars /\ UNCHANGED deploymentVars
  <2>1. [request EXCEPT ![r].op = "set"] = [request EXCEPT ![r] = q]
    BY <1>1, <1>4
  <2> QED BY <1>1, <2>1 DEF MakeSite, Goto
<1>6. /\ q \in Writers
      /\ q.kind = m.kind /\ q.hosts = m.hosts /\ q.wanted = m.wanted
      /\ q.site = m.site /\ q.stale = m.stale
  BY <1>2, <1>4 DEF Makers, Writers
<1>7. Read(q) /\ Deletes(q)
  BY <1>2, <1>6, Apart DEF Read, Deletes
<1> QED BY <1>3, <1>5, <1>6, <1>7, Apart, UpsertFacts, PlainKeeps

\* handleSetSiteStatus.
LEMMA SetStatusKeeps ==
  ASSUME SitesInv, NEW r \in Slots, NEW s \in SiteIDs, NEW status \in {"active", "offline"},
         SetStatus(r, s, status)
  PROVE  SitesInv'
<1>1. /\ request' = request /\ UNCHANGED domainVars /\ UNCHANGED deploymentVars
      /\ site' = [site EXCEPT ![s] = status]
  BY DEF SetStatus
<1>2. request[r] \in Works /\ request' = [request EXCEPT ![r] = request[r]]
  BY <1>1 DEF SitesInv, Types
<1>3. /\ site' \in [SiteIDs -> {"none", "active", "offline"}]
      /\ \A t \in SiteIDs : Exists(t) => site'[t] # "none"
  BY <1>1, SiteStays
<1>4. Read(request[r]) /\ Deletes(request[r])
  BY DEF SitesInv, HostsInv, GoneInv
<1> QED BY <1>1, <1>2, <1>3, <1>4, PlainKeeps

\* A change of the hosts of a site leaves deployments and what is done to them.
LEMMA OvertakenKeepsGone ==
  ASSUME SitesInv, NEW r \in Slots, NEW s, NEW next \in Works, Overtake(r, s, next),
         next \notin Deleters, deployment' = deployment, rows' \subseteq rows,
         \A d \in rows' : d \in fileRows => d \in fileRows',
         objects' = objects
  PROVE  FilesKnown' /\ \A q \in Slots : Deletes(request[q])'
<1>1. FilesKnown'
  BY DEF SitesInv, GoneInv, FilesKnown
<1>2. ASSUME NEW q \in Slots, request'[q] \in Deleters
      PROVE  request'[q] = request[q]
  <2>1. q # r
    BY <1>2, OvertakeFacts
  <2>2. \/ request'[q] = request[q]
        \/ request'[q] \in Makers
        \/ request'[q] \in Writers
    BY <2>1, OvertakeFacts
  <2> QED BY <1>2, <2>2, Apart
<1>3. ASSUME NEW q \in Slots
      PROVE  Deletes(request[q])'
  BY <1>2 DEF SitesInv, GoneInv, Deletes, Built, Cleared
<1> QED BY <1>1, <1>3

\* What the other requests have read is what it was, or they are stale.
LEMMA OvertakenKeepsRead ==
  ASSUME SitesInv, NEW r \in Slots, NEW s, NEW next \in Works, Overtake(r, s, next),
         next \notin Writers, next \notin Makers,
         \A t \in SiteIDs \ {s} : HostsOf(t)' = HostsOf(t)
  PROVE  \A q \in Slots : Read(request[q])'
<1>1. ASSUME NEW q \in Slots \ {r}, request'[q] = request[q], ~Behind(q, s)
      PROVE  Read(request[q])'
  <2>1. request[q] \in Writers \cup Makers => request[q].site \in SiteIDs \ {s}
    BY <1>1, WhichWork DEF SitesInv, Types, Behind, Writers, Makers
  <2>2. Read(request[q])
    BY DEF SitesInv, HostsInv
  <2> QED BY <1>1, <2>1, <2>2 DEF Read
<1>2. ASSUME NEW q \in Slots \ {r},
             \/ request[q] \in Makers /\ request'[q] \in Makers
             \/ request[q] \in Writers /\ request'[q] \in Writers,
             request'[q].stale = TRUE, request'[q].kind = request[q].kind,
             request'[q].hosts = request[q].hosts,
             request'[q].wanted = request[q].wanted
      PROVE  Read(request[q])'
  <2>1. Read(request[q])
    BY DEF SitesInv, HostsInv
  <2> QED BY <1>2, <2>1, Apart DEF Read
<1>3. Read(request[r])'
  BY OvertakeFacts DEF Read
<1> QED BY <1>1, <1>2, <1>3, OvertakeFacts

\* Types, when hosts or deployments change.
LEMMA TypesKept ==
  ASSUME SitesInv,
         request' \in [Slots -> Works],
         site' \in [SiteIDs -> {"none", "active", "offline"}],
         bound' \in [Hosts -> SiteIDs \cup {NoSite}],
         deployment' \in [Deployments -> [site : SiteIDs \cup {NoSite}, stage : Stages]],
         fileRows' \subseteq rows', rows' \cup promised' \subseteq Deployments,
         objects' \subseteq Deployments \X Parts,
         asked' \in [SiteIDs -> SUBSET Hosts], overtaken' \subseteq SiteIDs
  PROVE  Types'
<1>1. \A x \in Slots : request'[x].op \in
          {"none", "set", "make", "insert", "list", "files", "drop"}
  BY WhichWork
<1> QED BY <1>1 DEF Types, SitesTypeOK, Parts

\* The list is written.
LEMMA WriteDomainsKeeps ==
  ASSUME SitesInv, NEW r \in Slots, WriteDomains(r)
  PROVE  SitesInv'
<1>1. PICK q : q = request[r]
  OBVIOUS
<1>2. PICK s : s = q.site
  OBVIOUS
<1>3. PICK next : next = (IF q.kind = "deploy" /\ Exists(s)
                          THEN [op |-> "insert", site |-> s] ELSE Idle)
  OBVIOUS
<1>4. /\ q.op = "set" /\ site' = site /\ UNCHANGED deploymentVars
  BY <1>1 DEF WriteDomains
<1>5. q \in Writers /\ Read(q)
  BY <1>1, <1>4, WhichWork DEF SitesInv, Types, HostsInv
<1>6. /\ s \in SiteIDs /\ q.hosts \in SUBSET Hosts /\ q.wanted \in SUBSET Hosts
      /\ q.kind \in {"create", "bind", "append", "deploy"} /\ q.stale \in BOOLEAN
  BY <1>2, <1>5 DEF Writers
<1>7. CASE ~Settable(s, q.hosts)
  <2>1. request' = [request EXCEPT ![r] = Idle] /\ UNCHANGED domainVars
    BY <1>1, <1>2, <1>7 DEF WriteDomains, Answer
  <2> QED BY <1>4, <2>1, BriefKeeps
<1>8. CASE Settable(s, q.hosts)
  <2>1. SetDomains(s, q.hosts)
    BY <1>1, <1>2, <1>8 DEF WriteDomains
  <2>2. asked' = IF q.kind = "deploy" THEN asked
                 ELSE [asked EXCEPT ![s] = q.wanted \cup
                           IF q.kind = "append" THEN @ ELSE {}]
    BY <1>1, <1>2, <1>8 DEF WriteDomains
  <2>3. overtaken' = IF q.kind \in {"create", "bind"} THEN overtaken \ {s}
                     ELSE IF q.stale THEN overtaken \cup {s} ELSE overtaken
    BY <1>1, <1>2, <1>8 DEF WriteDomains
  <2>4. Overtake(r, s, next)
    BY <1>1, <1>2, <1>3, <1>8 DEF WriteDomains
  <2>5. next \in {Idle} \cup Briefs
    BY <1>3, <1>6 DEF Briefs
  <2>6. next \in Works /\ next \notin Writers /\ next \notin Makers /\ next \notin Deleters
    BY <2>5, IdleOrBrief, WhichWork DEF Idle, Briefs
  <2>7. /\ bound' \in [Hosts -> SiteIDs \cup {NoSite}]
        /\ HostsOf(s)' = q.hosts
        /\ \A t \in SiteIDs \ {s} : HostsOf(t)' = HostsOf(t)
    BY <1>6, <1>8, <2>1, SetDomainsFacts
  <2>8. /\ asked \in [SiteIDs -> SUBSET Hosts] /\ overtaken \subseteq SiteIDs
        /\ site \in [SiteIDs -> {"none", "active", "offline"}]
    BY DEF SitesInv, Types, SitesTypeOK
  <2>9. /\ asked' \in [SiteIDs -> SUBSET Hosts]
        /\ asked'[s] = IF q.kind = "deploy" THEN asked[s]
                       ELSE IF q.kind = "append" THEN q.wanted \cup asked[s] ELSE q.wanted
        /\ \A t \in SiteIDs \ {s} : asked'[t] = asked[t]
    BY <1>6, <2>2, <2>8
  <2>10. /\ overtaken' \subseteq SiteIDs
         /\ \A t \in SiteIDs \ {s} : t \in overtaken' <=> t \in overtaken
    BY <1>6, <2>3, <2>8
  <2>11. Types'
    <3>1. /\ deployment' = deployment /\ rows' = rows /\ fileRows' = fileRows
          /\ objects' = objects /\ promised' = promised
      BY <1>4 DEF deploymentVars
    <3>2. request' \in [Slots -> Works]
      BY <2>4, <2>6, OvertakeFacts
    <3> QED BY <1>4, <2>7, <2>8, <2>9, <2>10, <3>1, <3>2, TypesKept
             DEF SitesInv, Types, SitesTypeOK, Parts
  <2>12. \A t \in SiteIDs \ {s} : /\ t \in overtaken' \/ HostsOf(t)' = asked'[t]
                                  /\ ~Exists(t)' => HostsOf(t)' = {}
    BY <1>4, <2>7, <2>9, <2>10 DEF SitesInv, HostsInv, AppendsAccumulate, Exists
  <2>13. ~Exists(s)' => HostsOf(s)' = {}
    BY <1>4, <1>8, <2>7 DEF Settable, Exists
  <2>14. s \in overtaken' \/ HostsOf(s)' = asked'[s]
    <3>1. s \in overtaken \/ HostsOf(s) = asked[s]
      BY <1>6 DEF SitesInv, HostsInv, AppendsAccumulate
    <3>2. CASE q.kind \in {"create", "bind"}
      BY <1>5, <2>7, <2>9, <3>2 DEF Read
    <3>3. CASE q.kind = "append"
      <4>1. q.stale \/ q.hosts = HostsOf(s) \cup q.wanted
        BY <1>2, <1>5, <3>3 DEF Read
      <4> QED BY <2>3, <2>7, <2>9, <3>1, <3>3, <4>1
    <3>4. CASE q.kind = "deploy"
      <4>1. q.hosts = {} /\ (q.stale \/ HostsOf(s) = {})
        BY <1>2, <1>5, <3>4 DEF Read
      <4> QED BY <2>3, <2>7, <2>9, <3>1, <3>4, <4>1
    <3> QED BY <1>6, <3>2, <3>3, <3>4
  <2>15. AppendsAccumulate'
    BY <1>6, <2>12, <2>13, <2>14 DEF AppendsAccumulate
  <2>16. \A x \in Slots : Read(request[x])'
    BY <2>4, <2>6, <2>7, OvertakenKeepsRead
  <2>17. GoneInv'
    <3>1. /\ deployment' = deployment /\ rows' = rows /\ fileRows' = fileRows
          /\ objects' = objects /\ promised' = promised
      BY <1>4 DEF deploymentVars
    <3>2. FilesKnown' /\ \A x \in Slots : Deletes(request[x])'
      BY <2>4, <2>6, <3>1, OvertakenKeepsGone
    <3>3. DeletedSiteIsGone' /\ \A d \in promised' : Built(d)'
      BY <3>1 DEF SitesInv, GoneInv, DeletedSiteIsGone, Built
    <3> QED BY <3>2, <3>3 DEF GoneInv
  <2> QED BY <2>11, <2>15, <2>16, <2>17 DEF SitesInv, HostsInv
<1> QED BY <1>7, <1>8

-----------------------------------------------------------------------------
(* Deployments.                                                            *)

\* What nobody touches but a delete: hosts, while deployments change.
LEMMA HostsStay ==
  ASSUME SitesInv, site' = site, UNCHANGED domainVars,
         \A q \in Slots : request'[q] = request[q] \/ Read(request'[q])
  PROVE  HostsInv'
<1>1. bound' = bound /\ asked' = asked /\ overtaken' = overtaken
  BY DEF domainVars
<1>2. AppendsAccumulate'
  BY <1>1 DEF SitesInv, HostsInv, AppendsAccumulate, HostsOf, Exists
<1>3. ASSUME NEW q \in Slots
      PROVE  Read(request[q])'
  <2>1. Read(request'[q])
    BY DEF SitesInv, HostsInv
  <2> QED BY <1>1, <2>1 DEF Read, HostsOf
<1> QED BY <1>2, <1>3 DEF HostsInv

\* The types of deployments.
LEMMA Typed ==
  ASSUME SitesInv
  PROVE  /\ request \in [Slots -> Works]
         /\ site \in [SiteIDs -> {"none", "active", "offline"}]
         /\ bound \in [Hosts -> SiteIDs \cup {NoSite}]
         /\ deployment \in [Deployments -> [site : SiteIDs \cup {NoSite}, stage : Stages]]
         /\ fileRows \subseteq rows /\ rows \subseteq Deployments /\ promised \subseteq Deployments
         /\ objects \subseteq Deployments \X Parts
         /\ asked \in [SiteIDs -> SUBSET Hosts] /\ overtaken \subseteq SiteIDs
BY DEF SitesInv, Types, SitesTypeOK, Parts

\* A deployment's row is inserted, if its site is still there.
LEMMA InsertDeploymentKeeps ==
  ASSUME SitesInv, NEW r \in Slots, InsertDeployment(r)
  PROVE  SitesInv'
<1>1. PICK s : s = request[r].site
  OBVIOUS
<1>2. /\ request[r].op = "insert" /\ request' = [request EXCEPT ![r] = Idle]
      /\ site' = site /\ UNCHANGED domainVars
      /\ fileRows' = fileRows /\ objects' = objects /\ promised' = promised
  BY DEF InsertDeployment, Answer
<1>3. CASE ~Exists(s)
  <2>1. UNCHANGED deploymentVars
    BY <1>1, <1>2, <1>3 DEF InsertDeployment, deploymentVars
  <2> QED BY <1>2, <2>1, BriefKeeps
<1>4. CASE Exists(s)
  <2>1. PICK d \in Deployments :
          /\ deployment[d].stage = "none"
          /\ deployment' = [deployment EXCEPT ![d] = [site |-> s, stage |-> "queued"]]
          /\ rows' = rows \cup {d}
    BY <1>1, <1>4 DEF InsertDeployment
  <2>2. request[r] \in Briefs
    BY <1>2, Typed, WhichWork
  <2>3. s \in SiteIDs
    BY <1>1, <2>2 DEF Briefs
  <2>4. /\ deployment' \in [Deployments -> [site : SiteIDs \cup {NoSite}, stage : Stages]]
        /\ deployment'[d].stage = "queued"
        /\ \A e \in Deployments \ {d} : deployment'[e] = deployment[e]
    BY <2>1, <2>3, Typed DEF Stages
  <2>5. /\ Idle \in Works /\ Read(Idle) /\ Deletes(Idle)
    BY IdleOrBrief
  <2>6. /\ request' \in [Slots -> Works]
        /\ \A q \in Slots : request'[q] = request[q] \/ request'[q] = Idle
    BY <1>2, <2>5, Typed
  <2>7. Types'
    <3>1. bound' = bound /\ asked' = asked /\ overtaken' = overtaken
      BY <1>2 DEF domainVars
    <3>2. rows' \cup promised' \subseteq Deployments /\ fileRows' \subseteq rows'
      BY <1>2, <2>1, Typed
    <3> QED BY <1>2, <2>4, <2>6, <3>1, <3>2, Typed, TypesKept
  <2>8. HostsInv'
    BY <1>2, <2>5, <2>6, HostsStay
  <2>9. \A e : (e \in Deployments /\ Built(e)) => Built(e)' /\ e # d
    BY <2>1, <2>4 DEF Built
  <2>10. FilesKnown'
    BY <1>2, <2>1, <2>4, Typed DEF SitesInv, GoneInv, FilesKnown
  <2>11. DeletedSiteIsGone' /\ \A e \in promised' : Built(e)'
    BY <1>2, <2>1, <2>9, Typed DEF SitesInv, GoneInv, DeletedSiteIsGone
  <2>12. ASSUME NEW q \in Slots
         PROVE  Deletes(request[q])'
    <3>1. CASE request'[q] \in Deleters
      <4>1. request'[q] # Idle
        BY <3>1, WhichWork, Apart DEF Idle
      <4>2. request'[q] = request[q]
        BY <2>6, <4>1
      <4>3. \A e \in request[q].built : e \in Deployments
        BY <3>1, <4>2 DEF Deleters
      <4>4. Deletes(request[q])
        BY DEF SitesInv, GoneInv
      <4>5. \A e \in request[q].built : Built(e)' /\ e # d
        BY <2>9, <3>1, <4>2, <4>3, <4>4 DEF Deletes
      <4> QED BY <1>2, <2>1, <3>1, <4>2, <4>4, <4>5 DEF Deletes, Cleared
    <3>2. CASE request'[q] \notin Deleters
      BY <3>2 DEF Deletes
    <3> QED BY <3>1, <3>2
  <2> QED BY <2>7, <2>8, <2>10, <2>11, <2>12 DEF SitesInv, GoneInv
<1> QED BY <1>3, <1>4

\* A build goes on: it touches nothing that is built.
LEMMA BuildKeeps ==
  ASSUME SitesInv, NEW d \in Deployments, NEW stage \in Stages \ {"none"},
         deployment[d].stage # "built", Stage(d, stage),
         UNCHANGED <<site, domainVars, request, promised, rows>>,
         fileRows' \subseteq rows, fileRows \subseteq fileRows',
         objects' = objects
         \/ \E part \in Parts : objects' = objects \cup {<<d, part>>},
         stage \in {"manifest", "mark", "built"} /\ <<d, "file">> \in objects' /\ d \in rows
           => d \in fileRows'
  PROVE  SitesInv'
<1>1. /\ site' = site /\ request' = request /\ promised' = promised /\ rows' = rows
      /\ bound' = bound /\ asked' = asked /\ overtaken' = overtaken
  BY DEF domainVars
<1>2. /\ deployment' \in [Deployments -> [site : SiteIDs \cup {NoSite}, stage : Stages]]
      /\ deployment'[d].stage = stage
      /\ \A e \in Deployments \ {d} : deployment'[e] = deployment[e]
  BY Typed DEF Stage
<1>3. /\ objects' \subseteq Deployments \X Parts
      /\ \A e, part : e # d => (<<e, part>> \in objects' <=> <<e, part>> \in objects)
  BY Typed
<1>4. Types'
  BY <1>1, <1>2, <1>3, Typed, TypesKept
<1>5. HostsInv'
  BY <1>1, HostsStay DEF domainVars
<1>6. \A e : (e \in Deployments /\ Built(e)) => Built(e)' /\ e # d
  BY <1>2 DEF Built
<1>7. FilesKnown'
  <2>1. ASSUME NEW e \in rows, e # d
        PROVE  deployment'[e].stage \in {"manifest", "mark", "built"} /\ <<e, "file">> \in objects'
               => e \in fileRows'
    <3>1. deployment'[e] = deployment[e] /\ (<<e, "file">> \in objects' => <<e, "file">> \in objects)
      BY <1>2, <1>3, <2>1, Typed
    <3> QED BY <3>1 DEF SitesInv, GoneInv, FilesKnown
  <2>2. d \in rows /\ deployment'[d].stage \in {"manifest", "mark", "built"} /\ <<d, "file">> \in objects'
        => d \in fileRows'
    BY <1>2
  <2> QED BY <1>1, <2>1, <2>2 DEF FilesKnown
<1>8. DeletedSiteIsGone' /\ \A e \in promised' : Built(e)'
  <2>1. \A e \in promised : Built(e)' /\ e # d
    BY <1>6, Typed DEF SitesInv, GoneInv
  <2> QED BY <1>1, <1>3, <2>1 DEF SitesInv, GoneInv, DeletedSiteIsGone
<1>9. ASSUME NEW q \in Slots
      PROVE  Deletes(request[q])'
  <2>1. CASE request[q] \in Deleters
    <3>1. \A e \in request[q].built : e \in Deployments
      BY <2>1 DEF Deleters
    <3>2. Deletes(request[q])
      BY DEF SitesInv, GoneInv
    <3>3. \A e \in request[q].built : Built(e)' /\ e # d
      BY <1>6, <2>1, <3>1, <3>2 DEF Deletes
    <3>4. \A e \in request[q].built : Cleared(request[q], e) => Cleared(request[q], e)'
      BY <1>1, <1>3, <3>3 DEF Cleared
    <3> QED BY <1>1, <2>1, <3>2, <3>3, <3>4 DEF Deletes
  <2>2. CASE request[q] \notin Deleters
    BY <1>1, <2>2 DEF Deletes
  <2> QED BY <2>1, <2>2
<1> QED BY <1>4, <1>5, <1>7, <1>8, <1>9 DEF SitesInv, GoneInv

\* Every step of a build.
LEMMA BuildStepKeeps ==
  ASSUME SitesInv, BuildStep
  PROVE  SitesInv'
<1>1. UNCHANGED <<site, domainVars, request, promised>>
  BY DEF BuildStep
<1>2. ASSUME NEW d \in Deployments, StartBuild(d)
      PROVE  SitesInv'
  <2>1. /\ deployment[d].stage # "built" /\ Stage(d, "artifact")
        /\ rows' = rows /\ fileRows' = fileRows /\ objects' = objects
    BY <1>2 DEF StartBuild
  <2>2. "artifact" \in Stages \ {"none"}
    BY DEF Stages
  <2> QED BY <1>1, <2>1, <2>2, Typed, BuildKeeps
<1>3. ASSUME NEW d \in Deployments, PutPart(d)
      PROVE  SitesInv'
  <2>1. PICK part : part = deployment[d].stage
    OBVIOUS
  <2>2. /\ part \in Parts /\ deployment[d].stage # "built"
        /\ objects' = objects \cup {<<d, part>>}
        /\ rows' = rows /\ fileRows' = fileRows
    BY <1>3, <2>1 DEF PutPart, NextStage, Parts
  <2>3. PICK next : next = NextStage[part]
    OBVIOUS
  <2>4. Stage(d, next)
    BY <1>3, <2>1, <2>3 DEF PutPart
  <2>5. /\ next \in {"file", "fileRow", "mark"} /\ (next = "mark" => part = "manifest")
    BY <2>2, <2>3 DEF NextStage, Parts
  <2>6. next \in Stages \ {"none"}
    BY <2>5 DEF Stages
  <2>7. next \in {"manifest", "mark", "built"} /\ <<d, "file">> \in objects' /\ d \in rows
        => d \in fileRows'
    BY <2>1, <2>2, <2>5 DEF SitesInv, GoneInv, FilesKnown
  <2> QED BY <1>1, <2>2, <2>4, <2>6, <2>7, Typed, BuildKeeps
<1>4. ASSUME NEW d \in Deployments, AddFile(d)
      PROVE  SitesInv'
  <2>1. /\ deployment[d].stage # "built" /\ Stage(d, "manifest") /\ d \in rows
        /\ rows' = rows /\ fileRows' = fileRows \cup {d} /\ objects' = objects
    BY <1>4 DEF AddFile
  <2>2. "manifest" \in Stages \ {"none"}
    BY DEF Stages
  <2> QED BY <1>1, <2>1, <2>2, Typed, BuildKeeps
<1>5. ASSUME NEW d \in Deployments, MarkReady(d)
      PROVE  SitesInv'
  <2>1. /\ deployment[d].stage = "mark" /\ Stage(d, "built")
        /\ rows' = rows /\ fileRows' = fileRows /\ objects' = objects
    BY <1>5 DEF MarkReady
  <2>2. "built" \in Stages \ {"none"}
    BY DEF Stages
  <2>3. <<d, "file">> \in objects' /\ d \in rows => d \in fileRows'
    BY <2>1 DEF SitesInv, GoneInv, FilesKnown
  <2> QED BY <1>1, <2>1, <2>2, <2>3, Typed, BuildKeeps
<1>6. ASSUME NEW d \in Deployments, BuildFails(d)
      PROVE  SitesInv'
  <2>1. /\ deployment[d].stage # "built" /\ Stage(d, "failed")
        /\ rows' = rows /\ fileRows' = fileRows /\ objects' = objects
    BY <1>6 DEF BuildFails
  <2>2. "failed" \in Stages \ {"none"}
    BY DEF Stages
  <2> QED BY <1>1, <2>1, <2>2, Typed, BuildKeeps
<1> QED BY <1>2, <1>3, <1>4, <1>5, <1>6 DEF BuildStep

-----------------------------------------------------------------------------
(* Deleting a site.                                                        *)

\* A request about to list what it deletes.
LEMMA StartDeleteKeeps ==
  ASSUME SitesInv, NEW r \in Slots, NEW s \in SiteIDs, StartDelete(r, s)
  PROVE  SitesInv'
<1>1. PICK q : q = [op |-> "list", site |-> s]
  OBVIOUS
<1>2. /\ request' = [request EXCEPT ![r] = q] /\ site' = site
      /\ UNCHANGED domainVars /\ UNCHANGED deploymentVars
  BY <1>1 DEF StartDelete
<1>3. q \in Briefs
  BY <1>1 DEF Briefs
<1> QED BY <1>2, <1>3, BriefKeeps

\* A request that ends.
LEMMA BreakOffKeeps ==
  ASSUME SitesInv, NEW r \in Slots, BreakOff(r)
  PROVE  SitesInv'
<1>1. /\ request' = [request EXCEPT ![r] = Idle] /\ site' = site
      /\ UNCHANGED domainVars /\ UNCHANGED deploymentVars
  BY DEF BreakOff, Answer
<1> QED BY <1>1, BriefKeeps

\* The deployments are listed.
LEMMA ListDeploymentsKeeps ==
  ASSUME SitesInv, NEW r \in Slots, ListDeployments(r)
  PROVE  SitesInv'
<1>1. PICK s : s = request[r].site
  OBVIOUS
<1>2. PICK listed : listed = {d \in rows : deployment[d].site = s}
  OBVIOUS
<1>3. PICK built : built = {d \in listed : deployment[d].stage = "built"}
  OBVIOUS
<1>4. PICK q : q = [op |-> "files", site |-> s, left |-> listed, built |-> built,
                    current |-> NoDeployment, parts |-> {}, failed |-> FALSE]
  OBVIOUS
<1>5. /\ request[r].op = "list"
      /\ request' = [request EXCEPT ![r] = q] /\ site' = site
      /\ UNCHANGED domainVars /\ UNCHANGED deploymentVars
  BY <1>1, <1>2, <1>3, <1>4 DEF ListDeployments
<1>6. request[r] \in Briefs
  BY <1>5, Typed, WhichWork
<1>7. s \in SiteIDs
  BY <1>1, <1>6 DEF Briefs
<1>8. listed \in SUBSET Deployments /\ built \in SUBSET Deployments /\ built \subseteq listed
      /\ \A d \in built : Built(d)
  BY <1>2, <1>3, Typed DEF Built
<1>9. q \in Deleters
  BY <1>4, <1>7, <1>8 DEF Deleters
<1>10. q.op = "files" /\ q.built = built /\ q.left = listed
  BY <1>4
<1>11. Read(q) /\ Deletes(q)
  BY <1>8, <1>9, <1>10, Apart DEF Read, Deletes
<1> QED BY <1>5, <1>9, <1>11, Apart, SiteStays, PlainKeeps

\* What deletes a deployment's objects.
LEMMA DeleterFacts ==
  ASSUME SitesInv, NEW r \in Slots, request[r].op \in {"files", "drop"}
  PROVE  /\ request[r] \in Deleters /\ Deletes(request[r])
         /\ request[r].built \subseteq Deployments
BY Typed, WhichWork DEF SitesInv, GoneInv, Deleters

\* The next deployment is taken up.
LEMMA NextDeploymentKeeps ==
  ASSUME SitesInv, NEW r \in Slots, NextDeployment(r)
  PROVE  SitesInv'
<1>1. PICK m : m = request[r]
  OBVIOUS
<1>2. m.op = "files" /\ m.parts = {} /\ site' = site
      /\ UNCHANGED domainVars /\ UNCHANGED deploymentVars
  BY <1>1 DEF NextDeployment
<1>3. m \in Deleters /\ Deletes(m)
  BY <1>1, <1>2, DeleterFacts
<1>4. PICK d \in m.left, failed \in BOOLEAN :
        request' = [request EXCEPT
                  ![r].left = @ \ {d}, ![r].current = d,
                  ![r].parts = IF failed THEN {} ELSE PartsOf(d, m.built),
                  ![r].failed = @ \/ failed]
  BY <1>1 DEF NextDeployment
<1>5. PICK parts : parts = (IF failed THEN {} ELSE PartsOf(d, m.built))
  OBVIOUS
<1>6. PICK q : q = [m EXCEPT !.left = m.left \ {d}, !.current = d, !.parts = parts,
                             !.failed = m.failed \/ failed]
  OBVIOUS
<1>7. request' = [request EXCEPT ![r] = q]
  BY <1>1, <1>4, <1>5, <1>6, Typed
<1>8. /\ m.op \in {"files", "drop"} /\ m.site \in SiteIDs /\ m.left \in SUBSET Deployments
      /\ m.built \in SUBSET Deployments /\ m.failed \in BOOLEAN
      /\ DOMAIN m = {"op", "site", "left", "built", "current", "parts", "failed"}
      /\ m = [f \in DOMAIN m |-> m[f]]
  BY <1>3 DEF Deleters
<1>9. parts \in SUBSET Parts
  BY <1>5 DEF PartsOf, Parts
<1>10. /\ q["op"] = "files" /\ q["site"] = m["site"] /\ q["built"] = m["built"]
       /\ q["left"] = m["left"] \ {d}
  BY <1>2, <1>6, <1>8
<1>11. /\ q["current"] = d /\ q["parts"] = parts
       /\ q["failed"] = (m["failed"] \/ failed)
  BY <1>6, <1>8
<1>12. DOMAIN q = DOMAIN m /\ q = [f \in DOMAIN q |-> q[f]]
  BY <1>6, <1>8
<1>13. q["failed"] \in BOOLEAN /\ ((m["failed"] \/ failed) => q["failed"])
  BY <1>8, <1>11, Zenon
<1>14. q \in Deleters
  <2>1. q = [op |-> q["op"], site |-> q["site"], left |-> q["left"], built |-> q["built"],
             current |-> q["current"], parts |-> q["parts"], failed |-> q["failed"]]
    BY <1>8, <1>12
  <2>2. q["current"] \in Deployments \cup {NoDeployment}
    BY <1>8, <1>11
  <2> QED BY <1>8, <1>9, <1>10, <1>11, <1>13, <2>1, <2>2 DEF Deleters
<1>15. Deletes(q)
  <2>1. \A e \in q.built : Built(e)
    BY <1>3, <1>10 DEF Deletes
  <2>2. ASSUME ~q.failed, NEW e \in q.built \ q.left
        PROVE  Cleared(q, e)
    <3>1. ~m.failed /\ ~failed
      BY <1>13, <2>2
    <3>2. CASE e = d
      <4>1. parts = PartsOf(d, m.built)
        BY <1>5, <3>1
      <4>2. e \in m.built /\ Built(e)
        BY <1>3, <1>10, <2>2 DEF Deletes
      <4>3. "artifact" \in parts /\ "manifest" \in parts
            /\ (d \in fileRows => "file" \in parts)
        BY <3>2, <4>1, <4>2 DEF PartsOf
      <4>4. d \in rows /\ <<d, "file">> \in objects => d \in fileRows
        BY <3>2, <4>2 DEF SitesInv, GoneInv, FilesKnown, Built
      <4> QED BY <1>11, <3>2, <4>3, <4>4 DEF Cleared, Parts
    <3>3. CASE e # d
      <4>1. e \in m.built \ m.left
        BY <1>10, <2>2, <3>3
      <4>2. Cleared(m, e)
        BY <1>3, <3>1, <4>1 DEF Deletes
      <4> QED BY <1>2, <4>2 DEF Cleared
    <3> QED BY <3>2, <3>3
  <2> QED BY <1>10, <1>13, <2>1, <2>2 DEF Deletes
<1>16. Read(q)
  BY <1>14, Apart DEF Read
<1> QED BY <1>2, <1>7, <1>14, <1>15, <1>16, Apart, SiteStays, PlainKeeps

\* All that was listed is done with.
LEMMA ObjectsDoneKeeps ==
  ASSUME SitesInv, NEW r \in Slots, ObjectsDone(r)
  PROVE  SitesInv'
<1>1. PICK m : m = request[r]
  OBVIOUS
<1>2. m.op = "files" /\ m.left = {} /\ m.parts = {} /\ site' = site
      /\ UNCHANGED domainVars /\ UNCHANGED deploymentVars
  BY <1>1 DEF ObjectsDone
<1>3. CASE m.failed
  <2>1. request' = [request EXCEPT ![r] = Idle]
    BY <1>1, <1>3 DEF ObjectsDone, Answer
  <2> QED BY <1>2, <2>1, BriefKeeps
<1>4. CASE ~m.failed
  <2>1. m \in Deleters /\ Deletes(m)
    BY <1>1, <1>2, DeleterFacts
  <2>2. PICK q : q = [m EXCEPT !.op = "drop"]
    OBVIOUS
  <2>3. request' = [request EXCEPT ![r] = q]
    BY <1>1, <1>4, <2>2 DEF ObjectsDone, Goto
  <2>4. /\ q \in Deleters /\ q.left = m.left /\ q.built = m.built /\ q.parts = m.parts
        /\ q.failed = m.failed /\ q.current = m.current
    BY <2>1, <2>2 DEF Deleters
  <2>5. Read(q)
    BY <2>4, Apart DEF Read
  <2>6. ~q.failed
    BY <1>4, <2>4
  <2>7. Deletes(q)
    BY <1>2, <1>4, <2>1, <2>4, <2>6 DEF Deletes, Cleared
  <2> QED BY <1>2, <2>3, <2>4, <2>5, <2>7, Apart, SiteStays, PlainKeeps
<1> QED BY <1>3, <1>4

\* An object is deleted, or is not.
LEMMA DeletePartKeeps ==
  ASSUME SitesInv, NEW r \in Slots, DeletePart(r)
  PROVE  SitesInv'
<1>1. PICK m : m = request[r]
  OBVIOUS
<1>2. m.op = "files" /\ site' = site /\ UNCHANGED domainVars
      /\ deployment' = deployment /\ rows' = rows /\ promised' = promised
  BY <1>1 DEF DeletePart
<1>3. m \in Deleters /\ Deletes(m)
  BY <1>1, <1>2, DeleterFacts
<1>4. PICK part \in m.parts :
        \/ /\ objects' = objects \ {<<m.current, part>>}
           /\ fileRows' = fileRows \ {d \in {m.current} : part = "file"}
           /\ request' = [request EXCEPT ![r].parts = @ \ {part}]
        \/ /\ request' = [request EXCEPT ![r].parts = @ \ {part}, ![r].failed = TRUE]
           /\ UNCHANGED <<objects, fileRows>>
  BY <1>1 DEF DeletePart
<1>5. /\ m.parts \in SUBSET Parts /\ m.failed \in BOOLEAN
      /\ m.left \in SUBSET Deployments /\ m.built \in SUBSET Deployments
      /\ m.site \in SiteIDs /\ m.current \in Deployments \cup {NoDeployment}
  BY <1>3 DEF Deleters
<1>6. CASE /\ request' = [request EXCEPT ![r].parts = @ \ {part}, ![r].failed = TRUE]
           /\ UNCHANGED <<objects, fileRows>>
  <2>1. PICK q : q = [m EXCEPT !.parts = m.parts \ {part}, !.failed = TRUE]
    OBVIOUS
  <2>2. request' = [request EXCEPT ![r] = q]
    BY <1>1, <1>6, <2>1, Typed
  <2>3. /\ q \in Deleters /\ q.op = "files" /\ q.built = m.built /\ q.failed = TRUE
    BY <1>2, <1>3, <2>1 DEF Deleters
  <2>4. Read(q) /\ Deletes(q)
    BY <1>3, <2>3, Apart DEF Read, Deletes
  <2>5. UNCHANGED deploymentVars
    BY <1>2, <1>6 DEF deploymentVars
  <2> QED BY <1>2, <2>2, <2>3, <2>4, <2>5, Apart, SiteStays, PlainKeeps
<1>7. CASE /\ objects' = objects \ {<<m.current, part>>}
           /\ fileRows' = fileRows \ {d \in {m.current} : part = "file"}
           /\ request' = [request EXCEPT ![r].parts = @ \ {part}]
  <2>1. PICK q : q = [m EXCEPT !.parts = m.parts \ {part}]
    OBVIOUS
  <2>2. request' = [request EXCEPT ![r] = q]
    BY <1>1, <1>7, <2>1, Typed
  <2>3. /\ q \in Deleters /\ q.op = "files" /\ q.built = m.built /\ q.left = m.left
        /\ q.current = m.current /\ q.failed = m.failed /\ q.parts = m.parts \ {part}
    BY <1>2, <1>3, <2>1 DEF Deleters
  <2>4. /\ request' \in [Slots -> Works] /\ request'[r] = q
        /\ \A x \in Slots : x # r => request'[x] = request[x]
    BY <2>2, <2>3, Typed, Apart
  <2>5. objects' \subseteq objects /\ fileRows' \subseteq fileRows
    BY <1>7
  <2>6. Types'
    <3>1. bound' = bound /\ asked' = asked /\ overtaken' = overtaken
      BY <1>2 DEF domainVars
    <3>2. /\ fileRows' \subseteq rows' /\ rows' \cup promised' \subseteq Deployments
          /\ objects' \subseteq Deployments \X Parts
      BY <1>2, <2>5, Typed
    <3> QED BY <1>2, <2>4, <3>1, <3>2, Typed, TypesKept
  <2>7. HostsInv'
    <3>1. Read(q)
      BY <2>3, Apart DEF Read
    <3> QED BY <1>2, <2>4, <3>1, HostsStay
  <2>8. FilesKnown'
    <3>1. ASSUME NEW d \in rows, d \in fileRows, <<d, "file">> \in objects'
          PROVE  d \in fileRows'
      BY <1>7, <3>1
    <3> QED BY <1>2, <2>5, <3>1 DEF SitesInv, GoneInv, FilesKnown
  <2>9. DeletedSiteIsGone' /\ \A d \in promised' : Built(d)'
    BY <1>2, <2>5 DEF SitesInv, GoneInv, DeletedSiteIsGone, Built
  <2>10. ASSUME NEW x \in Slots, x # r
         PROVE  Deletes(request[x])'
    <3>1. Deletes(request[x])
      BY DEF SitesInv, GoneInv
    <3>2. \A d : Cleared(request[x], d) => Cleared(request[x], d)'
      BY <1>2, <2>4, <2>5, <2>10 DEF Cleared
    <3> QED BY <1>2, <2>4, <2>10, <3>1, <3>2 DEF Deletes, Built
  <2>11. Deletes(request[r])'
    <3>1. \A d \in q.built : Built(d)'
      BY <1>2, <1>3, <2>3 DEF Deletes, Built
    <3>2. ASSUME NEW d, Cleared(m, d), d \in rows, NEW p \in Parts, <<d, p>> \in objects'
          PROVE  d = q.current /\ p \in q.parts
      <4>1. <<d, p>> \in objects /\ <<d, p>> # <<m.current, part>>
        BY <1>7, <3>2
      <4>2. d = m.current /\ p \in m.parts
        BY <3>2, <4>1 DEF Cleared
      <4> QED BY <2>3, <4>1, <4>2
    <3>3. q.failed \/ \A d \in q.built \ q.left : Cleared(m, d)
      BY <1>3, <2>3 DEF Deletes
    <3>4. q.failed \/ \A d \in q.built \ q.left :
            d \in rows' => \A p \in Parts : <<d, p>> \in objects' => d = q.current /\ p \in q.parts
      BY <1>2, <3>2, <3>3
    <3> QED BY <2>3, <2>4, <3>1, <3>4 DEF Deletes, Cleared
  <2> QED BY <2>6, <2>7, <2>8, <2>9, <2>10, <2>11 DEF SitesInv, GoneInv
<1> QED BY <1>4, <1>6, <1>7

\* The site goes, with all its rows.
LEMMA DropSiteKeeps ==
  ASSUME SitesInv, NEW r \in Slots, DropSite(r)
  PROVE  SitesInv'
<1>1. PICK m : m = request[r]
  OBVIOUS
<1>2. PICK s : s = m.site
  OBVIOUS
<1>3. PICK gone : gone = {d \in rows : deployment[d].site = s}
  OBVIOUS
<1>4. m.op = "drop" /\ deployment' = deployment /\ objects' = objects
  BY <1>1 DEF DropSite
<1>5. m \in Deleters /\ Deletes(m)
  BY <1>1, <1>4, DeleterFacts
<1>6. s \in SiteIDs /\ m.built \in SUBSET Deployments
  BY <1>2, <1>5 DEF Deleters
<1>7. CASE ~Exists(s)
  <2>1. /\ request' = [request EXCEPT ![r] = Idle] /\ site' = site
        /\ UNCHANGED domainVars /\ UNCHANGED deploymentVars
    BY <1>1, <1>2, <1>4, <1>7 DEF DropSite, Answer, deploymentVars
  <2> QED BY <2>1, BriefKeeps
<1>8. CASE Exists(s)
  <2>1. /\ site' = [site EXCEPT ![s] = "none"]
        /\ SetDomains(s, {})
        /\ rows' = rows \ gone /\ fileRows' = fileRows \ gone
        /\ promised' = promised \cup (m.built \cap gone)
        /\ asked' = [asked EXCEPT ![s] = {}]
        /\ overtaken' = overtaken \ {s}
        /\ Overtake(r, s, Idle)
    BY <1>1, <1>2, <1>3, <1>8 DEF DropSite
  <2>2. /\ Idle \in Works /\ Idle \notin Writers /\ Idle \notin Makers /\ Idle \notin Deleters
    BY IdleOrBrief, Apart, WhichWork DEF Idle
  <2>3. /\ bound' \in [Hosts -> SiteIDs \cup {NoSite}]
        /\ HostsOf(s)' = {}
        /\ \A t \in SiteIDs \ {s} : HostsOf(t)' = HostsOf(t)
    <3>1. Settable(s, {})
      BY DEF Settable
    <3> QED BY <1>6, <2>1, <3>1, SetDomainsFacts
  <2>4. /\ asked' \in [SiteIDs -> SUBSET Hosts] /\ asked'[s] = {}
        /\ \A t \in SiteIDs \ {s} : asked'[t] = asked[t]
        /\ overtaken' \subseteq SiteIDs
        /\ \A t \in SiteIDs \ {s} : t \in overtaken' <=> t \in overtaken
        /\ site' \in [SiteIDs -> {"none", "active", "offline"}]
        /\ \A t \in SiteIDs \ {s} : site'[t] = site[t]
    BY <1>6, <2>1, Typed
  <2>5. /\ fileRows' \subseteq rows' /\ rows' \cup promised' \subseteq Deployments
    BY <1>6, <2>1, Typed
  <2>6. Types'
    <3>1. request' \in [Slots -> Works]
      BY <2>1, <2>2, OvertakeFacts
    <3> QED BY <1>4, <2>3, <2>4, <2>5, <3>1, Typed, TypesKept
  <2>7. AppendsAccumulate'
    <3>1. \A t \in SiteIDs \ {s} : /\ t \in overtaken' \/ HostsOf(t)' = asked'[t]
                                   /\ ~Exists(t)' => HostsOf(t)' = {}
      BY <2>3, <2>4 DEF SitesInv, HostsInv, AppendsAccumulate, Exists
    <3> QED BY <2>3, <2>4, <3>1 DEF AppendsAccumulate
  <2>8. \A q \in Slots : Read(request[q])'
    BY <2>1, <2>2, <2>3, OvertakenKeepsRead
  <2>9. FilesKnown' /\ \A q \in Slots : Deletes(request[q])'
    <3>1. rows' \subseteq rows /\ \A d \in rows' : d \in fileRows => d \in fileRows'
      BY <2>1
    <3> QED BY <1>4, <2>1, <2>2, <3>1, OvertakenKeepsGone
  <2>10. \A d \in promised' : Built(d)'
    BY <1>4, <1>5, <2>1 DEF SitesInv, GoneInv, Deletes, Built
  <2>11. ASSUME NEW d \in promised'
         PROVE  d \notin rows' /\ \A part \in Parts : <<d, part>> \notin objects'
    <3>1. CASE d \in promised
      BY <1>4, <2>1, <3>1 DEF SitesInv, GoneInv, DeletedSiteIsGone, Parts
    <3>2. CASE d \in m.built \cap gone
      <4>1. d \in rows /\ d \notin rows'
        BY <1>3, <2>1, <3>2
      <4>2. m.left = {} /\ m.parts = {} /\ ~m.failed
        BY <1>4, <1>5 DEF Deletes
      <4>3. Cleared(m, d)
        BY <1>5, <3>2, <4>2 DEF Deletes
      <4> QED BY <1>4, <4>1, <4>2, <4>3 DEF Cleared
    <3> QED BY <2>1, <3>1, <3>2
  <2>12. DeletedSiteIsGone'
    BY <2>11 DEF DeletedSiteIsGone, Parts
  <2> QED BY <2>6, <2>7, <2>8, <2>9, <2>10, <2>12 DEF SitesInv, HostsInv, GoneInv
<1> QED BY <1>7, <1>8

-----------------------------------------------------------------------------
(* The theorems of Sites.                                                  *)

\* Before the first request.
LEMMA SitesInitInv ==
  ASSUME NEW n, NEW kindsOf, SitesInit(n, kindsOf)
  PROVE  SitesInv
<1>1. /\ site = [s \in SiteIDs |-> "none"]
      /\ bound = [h \in Hosts |-> NoSite]
      /\ deployment = [d \in Deployments |-> [site |-> NoSite, stage |-> "none"]]
      /\ rows = {} /\ fileRows = {} /\ objects = {}
      /\ request = [r \in Slots |-> Idle]
      /\ asked = [s \in SiteIDs |-> {}]
      /\ overtaken = {} /\ promised = {}
  BY DEF SitesInit
<1>2. Types
  <2>1. \A r \in Slots : request[r].op = "none"
    BY <1>1 DEF Idle
  <2> QED BY <1>1, <2>1 DEF Types, SitesTypeOK, Works, Stages
<1>3. HostsInv
  <2>1. \A s \in SiteIDs : HostsOf(s) = {}
    BY <1>1, SitesAssumption DEF HostsOf
  <2> QED BY <1>1, <2>1, IdleOrBrief DEF HostsInv, AppendsAccumulate
<1>4. GoneInv
  BY <1>1, IdleOrBrief DEF GoneInv, FilesKnown, DeletedSiteIsGone
<1> QED BY <1>2, <1>3, <1>4 DEF SitesInv

\* Every step of a request.
LEMMA RequestStepKeeps ==
  ASSUME SitesInv, NEW r \in Slots, RequestStep(r)
  PROVE  SitesInv'
<1>1. ASSUME NEW s \in SiteIDs, NEW hosts \in SUBSET Hosts, NEW allocate \in BOOLEAN
      PROVE  Wanted(s, hosts, allocate) \in SUBSET Hosts
  BY SitesAssumption DEF Wanted
<1>2. ASSUME NEW s \in SiteIDs, NEW hosts \in SUBSET Hosts,
             \/ StartCreate(r, s, hosts)
             \/ \E append \in BOOLEAN : StartBind(r, s, hosts, append)
      PROVE  SitesInv'
  BY <1>2, StartCreateKeeps, StartBindKeeps
<1>3. ASSUME NEW s \in SiteIDs, NEW status \in {"active", "offline"}, SetStatus(r, s, status)
      PROVE  SitesInv'
  BY <1>3, SetStatusKeeps
<1>4. ASSUME NEW s \in SiteIDs, StartDeploy(r, s) \/ StartDelete(r, s)
      PROVE  SitesInv'
  BY <1>4, StartDeployKeeps, StartDeleteKeeps
<1>5. CASE WriteDomains(r) \/ MakeSite(r) \/ InsertDeployment(r)
  BY <1>5, WriteDomainsKeeps, MakeSiteKeeps, InsertDeploymentKeeps
<1>6. CASE ListDeployments(r) \/ NextDeployment(r) \/ DeletePart(r)
  BY <1>6, ListDeploymentsKeeps, NextDeploymentKeeps, DeletePartKeeps
<1>7. CASE ObjectsDone(r) \/ DropSite(r) \/ BreakOff(r)
  BY <1>7, ObjectsDoneKeeps, DropSiteKeeps, BreakOffKeeps
<1>8. ASSUME NEW s \in SiteIDs, NEW hosts \in SUBSET Hosts, StartRecord(r, s, hosts)
      PROVE  SitesInv'
  BY <1>8, StartRecordKeeps
<1> QED BY <1>1, <1>2, <1>3, <1>4, <1>5, <1>6, <1>7, <1>8 DEF RequestStep

\* Every step of Sites keeps it.
LEMMA SitesNextInv ==
  ASSUME SitesInv, [SitesNext]_siteVars
  PROVE  SitesInv'
<1>1. CASE UNCHANGED siteVars
  BY <1>1 DEF siteVars, SitesInv, Types, SitesTypeOK, HostsInv, AppendsAccumulate, Read,
              HostsOf, Exists, GoneInv, FilesKnown, DeletedSiteIsGone, Built, Deletes, Cleared
<1>2. CASE SitesNext
  BY <1>2, BuildStepKeeps, RequestStepKeeps DEF SitesNext
<1> QED BY <1>1, <1>2

\* The invariant of Sites holds.
THEOREM SitesInvariant ==
  ASSUME NEW CONSTANT n, NEW CONSTANT kindsOf
  PROVE  SitesSpec(n, kindsOf) => []SitesInv
<1>1. SitesInit(n, kindsOf) => SitesInv
  BY SitesInitInv
<1>2. SitesInv /\ [SitesNext]_siteVars => SitesInv'
  BY SitesNextInv
<1> QED BY <1>1, <1>2, PTL DEF SitesSpec

\* Sites, hosts, deployments and requests keep their shapes: rows of files only of
\* deployments with a row.
THEOREM SitesTypeCorrect ==
  ASSUME NEW CONSTANT n, NEW CONSTANT kindsOf
  PROVE  SitesSpec(n, kindsOf) => []SitesTypeOK
<1>1. SitesInv => SitesTypeOK
  BY DEF SitesInv, Types
<1> QED BY <1>1, SitesInvariant, PTL

\* A site has the hosts that its requests have asked for, one after the other,
\* unless one wrote a list that another had made stale, and none without a row.
THEOREM Accumulates ==
  ASSUME NEW CONSTANT n, NEW CONSTANT kindsOf
  PROVE  SitesSpec(n, kindsOf) => []AppendsAccumulate
<1>1. SitesInv => AppendsAccumulate
  BY DEF SitesInv, HostsInv
<1> QED BY <1>1, SitesInvariant, PTL

\* Deleting a site leaves no object and no row of a deployment that was built when
\* it was listed and whose row goes with the site.
THEOREM SiteIsGone ==
  ASSUME NEW CONSTANT n, NEW CONSTANT kindsOf
  PROVE  SitesSpec(n, kindsOf) => []DeletedSiteIsGone
<1>1. SitesInv => DeletedSiteIsGone
  BY DEF SitesInv, GoneInv
<1> QED BY <1>1, SitesInvariant, PTL

-----------------------------------------------------------------------------
(* Libraries.                                                              *)

LibrariesSpec(us, kindsOf, n) ==
  LibrariesInit(us, kindsOf, n) /\ [][LibrariesNext]_libraryVars


-----------------------------------------------------------------------------
(* The daily allowance.  Only finitely many uploads are charged at a time, *)
(* however many there may be, since a step charges one at most.            *)

UploadFields == {"pc", "kind", "target", "size", "batch", "day", "charged", "blob", "rows"}

UploadStages == {"put", "send", "wait", "release", "save", "read", "delete", "drop",
                 "undo", "done", "failed"}

IsUpload(x) ==
  /\ x = [f \in UploadFields |-> x[f]]
  /\ x.pc \in UploadStages /\ x.target \in Targets /\ x.size \in Nat
  /\ x.day \in Nat /\ x.charged \in BOOLEAN /\ x.blob \in {"none", "hidden", "there"}
  /\ x.rows \subseteq {"project", "object"}
  /\ x.kind # "probe" => x.pc \notin {"read", "delete", "drop", "undo"}

\* An upload is charged from its reservation to its release, and what is accepted
\* from one of the targets that are due stays charged.
Paid(x, due) ==
  /\ x.pc = "put" => ~x.charged
  /\ x.pc = "release" => x.charged
  /\ x.target \in due /\ x.pc \in {"send", "wait", "save", "read", "delete",
                                   "drop", "done"} => x.charged

Sound(x, now, due) ==
  \/ x \in {Off, New}
  \/ IsUpload(x) /\ x.day \in 0 .. now /\ Paid(x, due)

IsCharged(x) == "charged" \in DOMAIN x /\ x.charged

\* The uploads of w charged to a target on a day, and the sum of their sizes.
ChargedTo(w, t, d) == {u \in Uploads : IsCharged(w[u]) /\ w[u].target = t /\ w[u].day = d}

Bytes(w, S) == MapThenSumSet(LAMBDA u : w[u].size, S)

\* What one upload is to that sum.
Part(x, t, d) == IF IsCharged(x) /\ x.target = t /\ x.day = d THEN x.size ELSE 0

Known(w) == \A u \in Uploads : w[u] \in {Off, New} \/ IsUpload(w[u])

FinitelyMany(w) == \A t \in Targets, d \in Days : IsFiniteSet(ChargedTo(w, t, d))

\* The books of the uploads w and the usage a.
Books(w, a, now, due) ==
  /\ a \in [Targets -> [Days -> Nat]]
  /\ w = [u \in Uploads |-> w[u]]
  /\ \A u \in Uploads : Sound(w[u], now, due)
  /\ FinitelyMany(w)
  /\ \A t \in Targets, d \in Days : a[t][d] = Bytes(w, ChargedTo(w, t, d))
  /\ \A t \in Targets, d \in Days : Fits(a[t][d], Constraints[First(t)].daily)

\* The targets that charge; once the server has restarted it has forgotten.
Due == IF restarts = 0 THEN {t \in Targets : Charges(t)} ELSE {}

UsageInv ==
  /\ overclock \in BOOLEAN /\ day \in Days /\ restarts \in Nat
  /\ Books(upload, usage, day, Due)

\* The sum, as the sum of a function.
LEMMA SumTotal ==
  ASSUME NEW w, NEW T, IsFiniteSet(T), NEW f, \A u \in T : f[u] = w[u].size
  PROVE  Bytes(w, T) = Total(f, T)
<1> DEFINE sum == CHOOSE iter : iter = [S \in SUBSET T |->
                    IF S = {} THEN 0
                    ELSE LET x == CHOOSE x \in S : TRUE IN w[x].size + iter[S \ {x}]]
<1>1. PICK g : Adds(g, f, T) /\ Total(f, T) = g[T]
  BY TotalAdds
<1>2. \A S \in SUBSET T : S # {} => f[One(S)] = w[One(S)].size
  BY DEF One
<1>3. g = [S \in SUBSET T |->
             IF S = {} THEN 0 ELSE w[One(S)].size + g[S \ {One(S)}]]
  <2>1. g = [S \in SUBSET T |-> IF S = {} THEN 0 ELSE f[One(S)] + g[S \ {One(S)}]]
    BY <1>1 DEF Adds
  <2> QED BY <1>2, <2>1
<1>4. Bytes(w, T) = sum[T]
  BY DEF Bytes, MapThenSumSet, MapThenFoldSet
<1>5. sum = [S \in SUBSET T |->
               IF S = {} THEN 0 ELSE w[One(S)].size + sum[S \ {One(S)}]]
  BY <1>3 DEF One
<1> HIDE DEF sum
<1>6. Adds(sum, f, T)
  BY <1>2, <1>5 DEF Adds
<1>7. sum[T] = g[T]
  BY <1>1, <1>6, AddsAgree
<1> QED BY <1>1, <1>4, <1>7

\* From w to z, a sum changes by what replacing y by x changes.
Differ(w, z, y, x, t, d) ==
  \E rest \in Nat :
    /\ Part(y, t, d) \in Nat /\ Part(x, t, d) \in Nat
    /\ Bytes(w, ChargedTo(w, t, d)) = Part(y, t, d) + rest
    /\ Bytes(z, ChargedTo(z, t, d)) = Part(x, t, d) + rest

\* Only an upload that is one can be charged.
LEMMA ChargedIsUpload ==
  ASSUME NEW x, x \in {Off, New} \/ IsUpload(x), IsCharged(x)
  PROVE  IsUpload(x) /\ x.size \in Nat
BY DEF IsCharged, IsUpload, Off, New

\* Changing one upload changes its part of the sums only.
LEMMA UploadChange ==
  ASSUME NEW w, Known(w), FinitelyMany(w), NEW u \in Uploads,
         NEW x, x \in {Off, New} \/ IsUpload(x),
         w = [v \in Uploads |-> w[v]], NEW z, z = [w EXCEPT ![u] = x]
  PROVE  /\ Known(z) /\ FinitelyMany(z)
         /\ \A t \in Targets, d \in Days : Differ(w, z, w[u], x, t, d)
<1>1. z[u] = x /\ \A v \in Uploads \ {u} : z[v] = w[v]
  OBVIOUS
<1>2. Known(z)
  BY <1>1 DEF Known
<1>3. ASSUME NEW t \in Targets, NEW d \in Days
      PROVE  IsFiniteSet(ChargedTo(z, t, d)) /\ Differ(w, z, w[u], x, t, d)
  <2> DEFINE S == ChargedTo(w, t, d)
             T == ChargedTo(z, t, d)
             f == [v \in S |-> w[v].size]
             e == [v \in T |-> z[v].size]
  <2>1. IsFiniteSet(S)
    BY DEF FinitelyMany
  <2>2. \A v \in S : f[v] = w[v].size /\ f[v] \in Nat
    BY ChargedIsUpload DEF Known, ChargedTo
  <2>3. \A v \in T : e[v] = z[v].size /\ e[v] \in Nat
    BY <1>2, ChargedIsUpload DEF Known, ChargedTo
  <2>4. S \ {u} = T \ {u} /\ \A v \in S \ {u} : f[v] = e[v]
    BY <1>1 DEF ChargedTo
  <2>5. /\ u \in S <=> IsCharged(w[u]) /\ w[u].target = t /\ w[u].day = d
        /\ u \in T <=> IsCharged(x) /\ x.target = t /\ x.day = d
    BY <1>1 DEF ChargedTo
  <2> HIDE DEF S, T, f, e
  <2>11. DifferAt(f, e, S, T, u)
    BY <2>2, <2>3, <2>4 DEF DifferAt
  <2>6. IsFiniteSet(T)
    BY ONLY <2>1, <2>11, TotalChange
  <2>7. PICK rest \in Nat :
           Total(f, S) = At(f, S, u) + rest /\ Total(e, T) = At(e, T, u) + rest
    <3>1. Shifts(f, e, S, T, u)
      BY ONLY <2>1, <2>11, TotalChange
    <3> QED BY <3>1 DEF Shifts
  <2>8. Bytes(w, S) = Total(f, S) /\ Bytes(z, T) = Total(e, T)
    <3>1. (\A v \in S : f[v] = w[v].size) /\ (\A v \in T : e[v] = z[v].size)
      BY <2>2, <2>3
    <3>2. Bytes(w, S) = Total(f, S)
      BY ONLY <2>1, <3>1, SumTotal
    <3>3. Bytes(z, T) = Total(e, T)
      BY ONLY <2>6, <3>1, SumTotal
    <3> QED BY <3>2, <3>3
  <2>9. Part(w[u], t, d) = At(f, S, u) /\ Part(x, t, d) = At(e, T, u)
    BY <1>1, <2>2, <2>3, <2>5 DEF Part, At
  <2>10. Part(w[u], t, d) \in Nat /\ Part(x, t, d) \in Nat
    BY <2>2, <2>3, <2>9 DEF At
  <2> QED BY <2>6, <2>7, <2>8, <2>9, <2>10 DEF Differ, S, T
<1> QED BY <1>2, <1>3 DEF FinitelyMany

\* No upload is charged: the sums are nothing.
LEMMA NoneCharged ==
  ASSUME NEW w, \A u \in Uploads : ~IsCharged(w[u])
  PROVE  FinitelyMany(w) /\ \A t, d : Bytes(w, ChargedTo(w, t, d)) = 0
<1>1. \A t, d : ChargedTo(w, t, d) = {}
  BY DEF ChargedTo
<1>2. Total(w, {}) = 0 /\ Bytes(w, {}) = Total(w, {})
  BY FS_EmptySet, TotalParts, SumTotal
<1> QED BY <1>1, <1>2, FS_EmptySet DEF FinitelyMany


\* From a to b the usage changes by as much as x differs from y.
Moved(a, b, y, x) ==
  \A t \in Targets, d \in Days : b[t][d] - Part(x, t, d) = a[t][d] - Part(y, t, d)

Within(b) ==
  /\ b \in [Targets -> [Days -> Nat]]
  /\ \A t \in Targets, d \in Days : Fits(b[t][d], Constraints[First(t)].daily)

\* One upload changes to x, and the usage by as much as x differs from it.
LEMMA BooksStep ==
  ASSUME NEW w, NEW a, NEW now, NEW due, Books(w, a, now, due), NEW u \in Uploads,
         NEW x, Sound(x, now, due), NEW b, Within(b), Moved(a, b, w[u], x),
         NEW z, z = [w EXCEPT ![u] = x]
  PROVE  Books(z, b, now, due)
<1>1. /\ w = [v \in Uploads |-> w[v]] /\ Known(w) /\ FinitelyMany(w)
      /\ \A t \in Targets, d \in Days : a[t][d] = Bytes(w, ChargedTo(w, t, d))
      /\ a \in [Targets -> [Days -> Nat]]
  BY DEF Books, Known, Sound
<1>2. x \in {Off, New} \/ IsUpload(x)
  BY DEF Sound
<1>3. /\ Known(z) /\ FinitelyMany(z)
      /\ \A t \in Targets, d \in Days : Differ(w, z, w[u], x, t, d)
  BY <1>1, <1>2, UploadChange
<1>4. ASSUME NEW t \in Targets, NEW d \in Days
      PROVE  b[t][d] = Bytes(z, ChargedTo(z, t, d))
  <2>1. PICK rest \in Nat :
          /\ Part(w[u], t, d) \in Nat /\ Part(x, t, d) \in Nat
          /\ Bytes(w, ChargedTo(w, t, d)) = Part(w[u], t, d) + rest
          /\ Bytes(z, ChargedTo(z, t, d)) = Part(x, t, d) + rest
    BY <1>3 DEF Differ
  <2>2. a[t][d] = Part(w[u], t, d) + rest /\ b[t][d] \in Nat
    BY <1>1, <2>1 DEF Within
  <2>3. b[t][d] - Part(x, t, d) = a[t][d] - Part(w[u], t, d)
    BY DEF Moved
  <2> QED BY <2>1, <2>2, <2>3
<1>5. \A v \in Uploads : Sound(z[v], now, due)
  BY <1>1 DEF Books
<1>6. z = [v \in Uploads |-> z[v]]
  BY <1>1
<1> QED BY <1>3, <1>4, <1>5, <1>6 DEF Books, Within

Alike(x, y) ==
  /\ x.target = y.target /\ x.day = y.day /\ x.size = y.size /\ x.charged = y.charged

\* An upload goes on and is charged for what it was.
LEMMA GoesOn ==
  ASSUME NEW w, NEW a, NEW now, NEW due, Books(w, a, now, due), NEW u \in Uploads,
         IsUpload(w[u]), NEW x, IsUpload(x), Alike(x, w[u]), Sound(x, now, due),
         NEW z, z = [w EXCEPT ![u] = x]
  PROVE  Books(z, a, now, due)
<1>1. DOMAIN x = UploadFields /\ DOMAIN w[u] = UploadFields
  BY DEF IsUpload
<1>2. \A t, d : Part(x, t, d) = Part(w[u], t, d)
  BY <1>1 DEF Part, IsCharged, Alike
<1>3. Within(a)
  BY DEF Books, Within
<1>4. Moved(a, a, w[u], x)
  BY <1>2 DEF Moved
<1> QED BY ONLY Books(w, a, now, due), u \in Uploads, Sound(x, now, due), <1>3, <1>4,
              z = [w EXCEPT ![u] = x], BooksStep

\* An upload that is one: neither off nor new.
LEMMA Started ==
  ASSUME NEW x, NEW now, NEW due, Sound(x, now, due), x.pc \in UploadStages
  PROVE  IsUpload(x) /\ Paid(x, due) /\ x.day \in 0 .. now
<1>1. x \notin {Off, New}
  BY DEF Off, New, UploadStages
<1> QED BY <1>1 DEF Sound

\* A record with another stage, file and rows.
Rewrite(x, pc, blob, kept) == [x EXCEPT !.pc = pc, !.blob = blob, !.rows = kept]

\* Nothing is put twice, what is released was charged, and what goes on to be
\* accepted has been on its way to it.
GoodStage(x, pc, blob, kept) ==
  /\ pc \in UploadStages /\ blob \in {"none", "hidden", "there"}
  /\ kept \subseteq {"project", "object"}
  /\ x.kind # "probe" => pc \notin {"read", "delete", "drop", "undo"}
  /\ pc = "put" => x.pc = "put"
  /\ pc = "release" => x.charged
  /\ pc \in {"send", "wait", "save", "read", "delete", "drop", "done"} =>
        x.pc \in {"send", "wait", "save", "read", "delete", "drop", "done"}

Rewritten(y, x, pc, blob, kept) ==
  /\ y.pc = pc /\ y.blob = blob /\ y.rows = kept
  /\ y.kind = x.kind /\ y.batch = x.batch /\ Alike(y, x)
  /\ y = [f \in UploadFields |-> y[f]]

\* Rewriting an upload changes its stage, its blob and its rows, and nothing else.
LEMMA RewriteGives ==
  ASSUME NEW x, IsUpload(x), NEW pc, NEW blob, NEW kept,
         NEW y, y = Rewrite(x, pc, blob, kept)
  PROVE  Rewritten(y, x, pc, blob, kept)
<1>1. x = [f \in UploadFields |-> x[f]] /\ DOMAIN x = UploadFields
  BY DEF IsUpload
<1>2. \A f \in UploadFields :
         y[f] = IF f = "pc" THEN pc ELSE IF f = "blob" THEN blob
                ELSE IF f = "rows" THEN kept ELSE x[f]
  BY <1>1 DEF UploadFields, Rewrite
<1>3. y = [f \in UploadFields |-> y[f]]
  BY <1>1 DEF Rewrite
<1>4. /\ y["pc"] = pc /\ y["blob"] = blob /\ y["rows"] = kept
      /\ y["target"] = x["target"] /\ y["day"] = x["day"] /\ y["size"] = x["size"]
      /\ y["charged"] = x["charged"] /\ y["kind"] = x["kind"] /\ y["batch"] = x["batch"]
  BY <1>2 DEF UploadFields
<1> QED BY <1>3, <1>4 DEF Rewritten, Alike

\* What comes of it is an upload, if its stage is one for its kind.
LEMMA RewrittenIs ==
  ASSUME NEW x, IsUpload(x), NEW pc, NEW blob, NEW kept, GoodStage(x, pc, blob, kept),
         NEW y, Rewritten(y, x, pc, blob, kept)
  PROVE  IsUpload(y)
<1>1. /\ y.pc = pc /\ y.blob = blob /\ y.rows = kept /\ y.kind = x.kind
      /\ y.target = x.target /\ y.day = x.day /\ y.size = x.size /\ y.charged = x.charged
  BY DEF Rewritten, Alike
<1>2. x.target \in Targets /\ x.size \in Nat /\ x.day \in Nat /\ x.charged \in BOOLEAN
  BY DEF IsUpload
<1>3. /\ pc \in UploadStages /\ blob \in {"none", "hidden", "there"}
      /\ kept \subseteq {"project", "object"}
      /\ x.kind # "probe" => pc \notin {"read", "delete", "drop", "undo"}
  BY DEF GoodStage
<1>4. y = [f \in UploadFields |-> y[f]]
  BY DEF Rewritten
<1> HIDE DEF UploadFields, UploadStages
<1> QED BY <1>1, <1>2, <1>3, <1>4 DEF IsUpload

\* An upload goes to another stage, with its file and rows as they may be.
LEMMA StageKeeps ==
  ASSUME NEW w, NEW a, NEW now, NEW due, Books(w, a, now, due), NEW u \in Uploads,
         w[u].pc \in UploadStages, NEW pc, NEW blob, NEW kept,
         GoodStage(w[u], pc, blob, kept),
         NEW z, z = [w EXCEPT ![u] = Rewrite(w[u], pc, blob, kept)]
  PROVE  Books(z, a, now, due)
<1>1. PICK x : x = w[u]
  OBVIOUS
<1>2. Sound(x, now, due)
  BY <1>1 DEF Books
<1>3. IsUpload(x) /\ Paid(x, due) /\ x.day \in 0 .. now
  BY <1>1, <1>2, Started
<1>4. PICK y : y = Rewrite(x, pc, blob, kept)
  OBVIOUS
<1>5. Rewritten(y, x, pc, blob, kept)
  BY <1>3, <1>4, RewriteGives
<1>6. IsUpload(y)
  BY <1>1, <1>3, <1>5, RewrittenIs
<1>7. y.pc = pc /\ Alike(y, x)
  BY <1>5 DEF Rewritten
<1>8. Paid(y, due)
  BY <1>1, <1>3, <1>7 DEF Paid, Alike, GoodStage
<1>9. Sound(y, now, due)
  BY <1>3, <1>6, <1>7, <1>8 DEF Sound, Alike
<1>10. z = [w EXCEPT ![u] = y]
  BY <1>1, <1>4
<1>11. IsUpload(w[u]) /\ Alike(y, w[u])
  BY <1>1, <1>3, <1>7
<1> QED BY ONLY Books(w, a, now, due), u \in Uploads, <1>6, <1>9, <1>10, <1>11, GoesOn


\* A record that gets some of the three fields gets the others it had.
LEMMA OtherFieldsStay ==
  ASSUME NEW x, IsUpload(x), NEW pc, NEW blob, NEW kept
  PROVE  /\ [x EXCEPT !.pc = pc] = Rewrite(x, pc, x.blob, x.rows)
         /\ [x EXCEPT !.blob = blob] = Rewrite(x, x.pc, blob, x.rows)
         /\ [x EXCEPT !.pc = pc, !.blob = blob] = Rewrite(x, pc, blob, x.rows)
         /\ [x EXCEPT !.pc = pc, !.rows = kept] = Rewrite(x, pc, x.blob, kept)
<1>1. x = [f \in UploadFields |-> x[f]]
  BY DEF IsUpload
<1> QED BY <1>1 DEF Rewrite

\* The uploads and the usage may change together, and nothing else does.
LEMMA UsageKept ==
  ASSUME UsageInv, NEW z, z = upload', NEW b, b = usage', Books(z, b, day, Due),
         UNCHANGED <<overclock, day, restarts>>
  PROVE  UsageInv'
<1>1. Due' = Due
  BY DEF Due, Charges, Limited
<1> HIDE DEF Due
<1>2. Books(upload', usage', day', Due')
  BY <1>1
<1>3. overclock' \in BOOLEAN /\ day' \in Days /\ restarts' \in Nat
  BY DEF UsageInv
<1> QED BY <1>2, <1>3 DEF UsageInv

Standing == UNCHANGED <<usage, overclock, day, restarts>>

\* An upload that goes on without being charged or released leaves the books as they are.
LEMMA Going ==
  ASSUME UsageInv, Standing, NEW u \in Uploads, upload[u].pc \in UploadStages,
         NEW pc, NEW blob, NEW kept, GoodStage(upload[u], pc, blob, kept),
         upload' = [upload EXCEPT ![u] = Rewrite(upload[u], pc, blob, kept)]
  PROVE  UsageInv'
<1>1. PICK z : z = upload'
  OBVIOUS
<1>2. PICK w : w = upload
  OBVIOUS
<1>3. PICK a : a = usage
  OBVIOUS
<1>4. Books(w, a, day, Due)
  BY <1>2, <1>3 DEF UsageInv
<1>5. z = [w EXCEPT ![u] = Rewrite(w[u], pc, blob, kept)]
  BY <1>1, <1>2
<1>6. w[u].pc \in UploadStages /\ GoodStage(w[u], pc, blob, kept)
  BY <1>2
<1>7. Books(z, a, day, Due)
  BY ONLY u \in Uploads, <1>4, <1>5, <1>6, StageKeeps
<1>8. a = usage' /\ UNCHANGED <<overclock, day, restarts>>
  BY <1>3 DEF Standing
<1> QED BY <1>1, <1>7, <1>8, UsageKept

\* What an upload in a stage is.
LEMMA InStage ==
  ASSUME UsageInv, NEW u \in Uploads, upload[u].pc \in UploadStages
  PROVE  /\ IsUpload(upload[u]) /\ Paid(upload[u], Due) /\ upload[u].day \in 0 .. day
         /\ upload[u].target \in Targets /\ upload[u].size \in Nat
         /\ upload[u].charged \in BOOLEAN
         /\ upload[u].blob \in {"none", "hidden", "there"}
         /\ upload[u].rows \subseteq {"project", "object"}
         /\ upload[u].kind # "probe" =>
               upload[u].pc \notin {"read", "delete", "drop", "undo"}
         /\ Charged(u) <=> upload[u].charged
         /\ upload = [v \in Uploads |-> upload[v]]
<1>1. PICK x : x = upload[u]
  OBVIOUS
<1>2. Sound(x, day, Due) /\ upload = [v \in Uploads |-> upload[v]]
  BY <1>1 DEF UsageInv, Books
<1>3. IsUpload(x) /\ Paid(x, Due) /\ x.day \in 0 .. day
  BY <1>1, <1>2, Started
<1>4. /\ x.target \in Targets /\ x.size \in Nat /\ x.charged \in BOOLEAN
      /\ x.blob \in {"none", "hidden", "there"} /\ x.rows \subseteq {"project", "object"}
      /\ x.kind # "probe" => x.pc \notin {"read", "delete", "drop", "undo"}
      /\ "charged" \in DOMAIN x
  BY <1>3 DEF IsUpload, UploadFields
<1> QED BY <1>1, <1>2, <1>3, <1>4 DEF Charged

\* A step that changes an upload's stage, file or rows keeps the books.
LEMMA FailuresKeep ==
  ASSUME UsageInv, NEW u \in Uploads, SendFails(u) \/ StopWaiting(u), Standing
  PROVE  UsageInv'
<1>1. upload[u].pc \in {"send", "wait"} /\ upload[u].pc \in UploadStages
  BY DEF SendFails, StopWaiting, UploadStages
<1>2. PICK blob \in {"none", "hidden", "there"} : GiveUp(u, blob)
  BY <1>1, InStage DEF SendFails, StopWaiting
<1>3. PICK pc : pc = IF Charged(u) THEN "release" ELSE AfterFailure(u)
  OBVIOUS
<1>4. upload' = [upload EXCEPT ![u] = Rewrite(upload[u], pc, blob, upload[u].rows)]
  <2>1. upload' = [upload EXCEPT ![u] = [upload[u] EXCEPT !.pc = pc, !.blob = blob]]
    BY <1>1, <1>2, <1>3, InStage DEF GiveUp
  <2>2. IsUpload(upload[u])
    BY <1>1, InStage
  <2> QED BY <2>1, <2>2, OtherFieldsStay
<1>5. GoodStage(upload[u], pc, blob, upload[u].rows)
  BY <1>1, <1>3, InStage DEF GoodStage, AfterFailure, UploadStages
<1> QED BY <1>1, <1>4, <1>5, Going


\* The other steps that give an upload a stage only.
LEMMA OnlyStage ==
  ASSUME UsageInv, Standing, NEW u \in Uploads, upload[u].pc \in UploadStages, NEW pc,
         GoodStage(upload[u], pc, upload[u].blob, upload[u].rows), To(u, pc)
  PROVE  UsageInv'
<1>1. IsUpload(upload[u])
  BY InStage
<1>2. upload' = [upload EXCEPT ![u] = [upload[u] EXCEPT !.pc = pc]]
  BY InStage DEF To
<1>3. upload' = [upload EXCEPT ![u] =
                   Rewrite(upload[u], pc, upload[u].blob, upload[u].rows)]
  BY <1>1, <1>2, OtherFieldsStay
<1> QED BY <1>3, Going

\* So it does if only its stage and its blob change,
LEMMA StageAndBlob ==
  ASSUME UsageInv, Standing, NEW u \in Uploads, upload[u].pc \in UploadStages, NEW pc, NEW blob,
         GoodStage(upload[u], pc, blob, upload[u].rows),
         upload' = [upload EXCEPT ![u] = [upload[u] EXCEPT !.pc = pc, !.blob = blob]]
  PROVE  UsageInv'
<1>1. IsUpload(upload[u])
  BY InStage
<1>3. upload' = [upload EXCEPT ![u] = Rewrite(upload[u], pc, blob, upload[u].rows)]
  BY <1>1, OtherFieldsStay
<1> QED BY <1>3, Going

\* and if only its stage and its rows do.
LEMMA StageAndRows ==
  ASSUME UsageInv, Standing, NEW u \in Uploads, upload[u].pc \in UploadStages, NEW pc, NEW kept,
         GoodStage(upload[u], pc, upload[u].blob, kept),
         upload' = [upload EXCEPT ![u] = [upload[u] EXCEPT !.pc = pc, !.rows = kept]]
  PROVE  UsageInv'
<1>1. IsUpload(upload[u])
  BY InStage
<1>2. [upload[u] EXCEPT !.pc = pc, !.rows = kept] =
      Rewrite(upload[u], pc, upload[u].blob, kept)
  <2>1. upload[u] = [f \in UploadFields |-> upload[u][f]]
    BY <1>1 DEF IsUpload
  <2> QED BY <2>1 DEF Rewrite
<1>3. upload' = [upload EXCEPT ![u] = Rewrite(upload[u], pc, upload[u].blob, kept)]
  BY <1>2
<1> QED BY <1>3, Going

\* A file has been sent: it is visible, or will be.
LEMMA SendKeeps ==
  ASSUME UsageInv, NEW u \in Uploads, Send(u), Standing
  PROVE  UsageInv'
<1>1. upload[u].pc = "send" /\ upload[u].pc \in UploadStages
  BY DEF Send, UploadStages
<1>2. PICK pc : pc = IF upload[u].target \in Libraries THEN "wait" ELSE "save"
  OBVIOUS
<1>3. PICK blob \in {"hidden", "there"} :
         upload' = [upload EXCEPT ![u] = [upload[u] EXCEPT !.pc = pc, !.blob = blob]]
  <2>1. PICK blob \in {"hidden", "there"} :
           upload' = [upload EXCEPT ![u].blob = blob,
              ![u].pc = IF upload[u].target \in Libraries THEN "wait" ELSE "save"]
    BY DEF Send
  <2>2. IsUpload(upload[u])
    BY <1>1, InStage
  <2>3. upload[u] = [f \in UploadFields |-> upload[u][f]]
    BY <2>2 DEF IsUpload
  <2>4. [upload[u] EXCEPT !.blob = blob, !.pc = pc] =
        [upload[u] EXCEPT !.pc = pc, !.blob = blob]
    BY <2>3
  <2>5. upload' = [upload EXCEPT ![u] = [upload[u] EXCEPT !.blob = blob, !.pc = pc]]
    BY <1>1, <1>2, <2>1, InStage
  <2> QED BY <2>4, <2>5
<1>4. GoodStage(upload[u], pc, blob, upload[u].rows)
  BY <1>1, <1>2, InStage DEF GoodStage, UploadStages
<1> QED BY <1>1, <1>3, <1>4, StageAndBlob

\* A file becomes visible.
LEMMA AppearKeeps ==
  ASSUME UsageInv, NEW u \in Uploads, Appear(u), Standing
  PROVE  UsageInv'
<1>1. upload[u].pc \in UploadStages
  BY DEF Appear, UsageInv, Books, Sound, IsUpload
<1>2. IsUpload(upload[u])
  BY <1>1, InStage
<1>3. upload' = [upload EXCEPT ![u] = [upload[u] EXCEPT !.blob = "there"]]
  BY <1>1, InStage DEF Appear
<1>4. upload' = [upload EXCEPT ![u] =
                   Rewrite(upload[u], upload[u].pc, "there", upload[u].rows)]
  BY <1>2, <1>3, OtherFieldsStay
<1>5. GoodStage(upload[u], upload[u].pc, "there", upload[u].rows)
  BY <1>1, InStage DEF GoodStage, Paid
<1> QED BY <1>1, <1>4, <1>5, Going

\* It is seen, and its rows are next.
LEMMA SeeFileKeeps ==
  ASSUME UsageInv, NEW u \in Uploads, SeeFile(u), Standing
  PROVE  UsageInv'
<1>1. upload[u].pc = "wait" /\ upload[u].pc \in UploadStages /\ To(u, "save")
  BY DEF SeeFile, UploadStages
<1>2. GoodStage(upload[u], "save", upload[u].blob, upload[u].rows)
  BY <1>1, InStage DEF GoodStage, UploadStages
<1> QED BY <1>1, <1>2, OnlyStage

\* The rows of an upload are written.
LEMMA SaveKeeps ==
  ASSUME UsageInv, NEW u \in Uploads, Save(u), Standing
  PROVE  UsageInv'
<1>1. upload[u].pc = "save" /\ upload[u].pc \in UploadStages
  BY DEF Save, UploadStages
<1>2. CASE To(u, AfterFailure(u))
  <2>1. GoodStage(upload[u], AfterFailure(u), upload[u].blob, upload[u].rows)
    BY <1>1, InStage DEF GoodStage, UploadStages, AfterFailure
  <2> QED BY <1>1, <1>2, <2>1, OnlyStage
<1>3. CASE ~To(u, AfterFailure(u))
  <2>1. PICK pc, kept : /\ kept = upload[u].rows \cup {"object"}
                        /\ pc = IF upload[u].kind = "probe" THEN "read" ELSE "done"
    OBVIOUS
  <2>2. upload' = [upload EXCEPT ![u].rows = @ \cup {"object"}, ![u].pc =
                            IF upload[u].kind = "probe" THEN "read" ELSE "done"]
    BY <1>3 DEF Save
  <2>3. upload[u] = [f \in UploadFields |-> upload[u][f]]
    BY <1>1, InStage DEF IsUpload
  <2>4. [upload[u] EXCEPT !.rows = kept, !.pc = pc] =
        [upload[u] EXCEPT !.pc = pc, !.rows = kept]
    BY <2>3
  <2>5. upload' = [upload EXCEPT ![u] = [upload[u] EXCEPT !.rows = kept, !.pc = pc]]
    BY <1>1, <2>1, <2>2, InStage
  <2>6. GoodStage(upload[u], pc, upload[u].blob, kept)
    BY <1>1, <2>1, InStage DEF GoodStage, UploadStages
  <2> QED BY <1>1, <2>4, <2>5, <2>6, StageAndRows
<1> QED BY <1>2, <1>3

\* The steps of a probe after its put.
LEMMA ProbeKeeps ==
  ASSUME UsageInv, NEW u \in Uploads, Standing,
         ReadProbe(u) \/ DeleteProbe(u) \/ DropProbe(u) \/ UndoProbe(u)
  PROVE  UsageInv'
<1>1. CASE ReadProbe(u)
  <2>1. upload[u].pc = "read" /\ upload[u].pc \in UploadStages
    BY <1>1 DEF ReadProbe, UploadStages
  <2>2. PICK pc \in {"done", "delete"} : To(u, pc)
    BY <1>1 DEF ReadProbe
  <2>3. GoodStage(upload[u], pc, upload[u].blob, upload[u].rows)
    BY <2>1, InStage DEF GoodStage, UploadStages
  <2> QED BY <2>1, <2>2, <2>3, OnlyStage
<1>2. CASE DeleteProbe(u)
  <2>1. upload[u].pc = "delete" /\ upload[u].pc \in UploadStages
    BY <1>2 DEF DeleteProbe, UploadStages
  <2>2. PICK blob \in {"none", upload[u].blob} :
           upload' = [upload EXCEPT ![u].pc = "drop", ![u].blob = blob]
    BY <1>2 DEF DeleteProbe
  <2>3. upload' = [upload EXCEPT ![u] = [upload[u] EXCEPT !.pc = "drop", !.blob = blob]]
    BY <2>1, <2>2, InStage
  <2>4. GoodStage(upload[u], "drop", blob, upload[u].rows)
    BY <2>1, InStage DEF GoodStage, UploadStages
  <2> QED BY <2>1, <2>3, <2>4, StageAndBlob
<1>3. CASE DropProbe(u)
  <2>1. upload[u].pc = "drop" /\ upload[u].pc \in UploadStages
    BY <1>3 DEF DropProbe, UploadStages
  <2>2. PICK left \in {{}, {"project"}, {"project", "object"}} :
           upload' = [upload EXCEPT ![u].pc = "done", ![u].rows = left]
    BY <1>3 DEF DropProbe
  <2>3. upload' = [upload EXCEPT ![u] = [upload[u] EXCEPT !.pc = "done", !.rows = left]]
    BY <2>1, <2>2, InStage
  <2>4. GoodStage(upload[u], "done", upload[u].blob, left)
    BY <2>1, InStage DEF GoodStage, UploadStages
  <2> QED BY <2>1, <2>3, <2>4, StageAndRows
<1>4. CASE UndoProbe(u)
  <2>1. upload[u].pc = "undo" /\ upload[u].pc \in UploadStages
    BY <1>4 DEF UndoProbe, UploadStages
  <2>2. PICK left \in {upload[u].rows, upload[u].rows \ {"project"}} :
           upload' = [upload EXCEPT ![u].pc = "failed", ![u].rows = left]
    BY <1>4 DEF UndoProbe
  <2>3. upload' = [upload EXCEPT ![u] = [upload[u] EXCEPT !.pc = "failed", !.rows = left]]
    BY <2>1, <2>2, InStage
  <2>4. GoodStage(upload[u], "failed", upload[u].blob, left)
    BY <2>1, InStage DEF GoodStage, UploadStages
  <2> QED BY <2>1, <2>3, <2>4, StageAndRows
<1> QED BY <1>1, <1>2, <1>3, <1>4


\* An upload becomes x, and the usage follows.
LEMMA Becomes ==
  ASSUME UsageInv, NEW u \in Uploads, NEW x, Sound(x, day, Due),
         NEW b, b = usage', Within(b), Moved(usage, b, upload[u], x),
         upload' = [upload EXCEPT ![u] = x], UNCHANGED <<overclock, day, restarts>>
  PROVE  UsageInv'
<1>1. PICK z : z = upload'
  OBVIOUS
<1>2. Books(upload, usage, day, Due)
  BY DEF UsageInv
<1>3. PICK w : w = upload
  OBVIOUS
<1>4. PICK a : a = usage
  OBVIOUS
<1>5. Books(w, a, day, Due) /\ Moved(a, b, w[u], x) /\ z = [w EXCEPT ![u] = x]
  BY <1>1, <1>2, <1>3, <1>4
<1>6. Books(z, b, day, Due)
  BY ONLY u \in Uploads, Sound(x, day, Due), Within(b), <1>5, BooksStep
<1> QED BY <1>1, <1>6, UsageKept

\* Neither what it was nor what it becomes is charged.
LEMMA FreeOfCharge ==
  ASSUME UsageInv, NEW u \in Uploads, NEW x, Sound(x, day, Due),
         ~IsCharged(x), ~IsCharged(upload[u]),
         upload' = [upload EXCEPT ![u] = x], Standing
  PROVE  UsageInv'
<1>1. PICK b : b = usage'
  OBVIOUS
<1>2. Within(b)
  BY <1>1 DEF UsageInv, Books, Within, Standing
<1>3. Moved(usage, b, upload[u], x)
  BY <1>1 DEF Moved, Part, Standing
<1>4. UNCHANGED <<overclock, day, restarts>>
  BY DEF Standing
<1> QED BY <1>1, <1>2, <1>3, <1>4, Becomes

\* A new upload is not charged yet.
LEMMA StartUploadKeeps ==
  ASSUME UsageInv, NEW u \in Uploads, NEW t \in Targets, NEW c \in Cargo, NEW kind,
         StartUpload(u, t, c, kind), Standing
  PROVE  UsageInv'
<1> DEFINE x == [pc |-> "put", kind |-> kind, target |-> t, size |-> c.size,
                 batch |-> c.batch, day |-> day, charged |-> FALSE,
                 blob |-> "none", rows |-> IF kind = "probe" THEN {"project"} ELSE {}]
<1>1. upload[u] = New /\ upload' = [upload EXCEPT ![u] = x]
  BY DEF StartUpload
<1>2. c.size \in Nat
  BY LibrariesAssumption
<1>3. day \in Nat /\ day \in 0 .. day
  BY LibrariesAssumption DEF UsageInv, Days
<1>4. /\ x.pc = "put" /\ x.target = t /\ x.size = c.size /\ x.day = day
      /\ x.charged = FALSE /\ x.blob = "none" /\ x.rows \subseteq {"project", "object"}
  OBVIOUS
<1>5. x = [f \in UploadFields |-> x[f]]
  BY DEF UploadFields
<1> HIDE DEF x
<1>6. IsUpload(x) /\ Paid(x, Due)
  BY <1>2, <1>3, <1>4, <1>5 DEF IsUpload, Paid, UploadStages
<1>7. Sound(x, day, Due)
  BY <1>3, <1>4, <1>6 DEF Sound
<1>8. ~IsCharged(x) /\ ~IsCharged(upload[u])
  BY <1>1, <1>4 DEF IsCharged, New
<1> QED BY <1>1, <1>7, <1>8, FreeOfCharge

\* One that is refused will not be.
LEMMA RefuseUploadKeeps ==
  ASSUME UsageInv, NEW u \in Uploads, NEW t, NEW c, RefuseUpload(u, t, c), Standing
  PROVE  UsageInv'
<1>1. upload[u] = New /\ upload' = [upload EXCEPT ![u] = Off]
  BY DEF RefuseUpload
<1>2. Sound(Off, day, Due)
  BY DEF Sound
<1>3. DOMAIN Off = {"pc"} /\ DOMAIN upload[u] = {"pc"}
  BY <1>1 DEF Off, New
<1>4. ~IsCharged(Off) /\ ~IsCharged(upload[u])
  BY <1>3 DEF IsCharged
<1> QED BY <1>1, <1>2, <1>4, FreeOfCharge

\* The record a reservation and a release leave.
Charge(x, pc, d, charged) == [x EXCEPT !.pc = pc, !.day = d, !.charged = charged]

IsChargeOf(y, x, pc, d, charged) ==
  /\ y.pc = pc /\ y.day = d /\ y.charged = charged /\ y.target = x.target
  /\ y.size = x.size /\ IsUpload(y)

\* Charging changes the stage, the day and the charge, and nothing else.
LEMMA ChargeGives ==
  ASSUME NEW x, IsUpload(x), NEW pc, pc \in UploadStages, NEW d, d \in Nat,
         NEW charged, charged \in BOOLEAN, NEW y, y = Charge(x, pc, d, charged),
         x.kind # "probe" => pc \notin {"read", "delete", "drop", "undo"}
  PROVE  IsChargeOf(y, x, pc, d, charged)
<1>1. x = [f \in UploadFields |-> x[f]] /\ DOMAIN x = UploadFields
  BY DEF IsUpload
<1>2. \A f \in UploadFields :
         y[f] = IF f = "pc" THEN pc ELSE IF f = "day" THEN d
                ELSE IF f = "charged" THEN charged ELSE x[f]
  BY <1>1 DEF UploadFields, Charge
<1>3. y = [f \in UploadFields |-> y[f]]
  BY <1>1 DEF Charge
<1>4. /\ y["pc"] = pc /\ y["day"] = d /\ y["charged"] = charged
      /\ y["target"] = x["target"] /\ y["size"] = x["size"] /\ y["kind"] = x["kind"]
      /\ y["blob"] = x["blob"] /\ y["rows"] = x["rows"]
  BY <1>2 DEF UploadFields
<1>5. /\ x.target \in Targets /\ x.size \in Nat
      /\ x.blob \in {"none", "hidden", "there"} /\ x.rows \subseteq {"project", "object"}
  BY DEF IsUpload
<1> HIDE DEF UploadFields, UploadStages
<1> QED BY <1>3, <1>4, <1>5 DEF IsUpload, IsChargeOf

\* A reservation adds to the day's usage what it charges the upload for.
LEMMA ReserveKeeps ==
  ASSUME UsageInv, NEW u \in Uploads, Reserve(u), UNCHANGED <<overclock, restarts>>
  PROVE  UsageInv'
<1>1. upload[u].pc = "put" /\ upload[u].pc \in UploadStages /\ day' = day
  BY DEF Reserve, UploadStages
<1>2. PICK t, n : t = upload[u].target /\ n = usage[t][day] + upload[u].size
  OBVIOUS
<1>3. t \in Targets /\ day \in Days /\ usage[t][day] \in Nat /\ upload[u].size \in Nat
  BY <1>1, <1>2, InStage DEF UsageInv, Books
<1>4. UNCHANGED <<overclock, day, restarts>>
  BY <1>1
<1>5. CASE To(u, AfterFailure(u)) /\ UNCHANGED usage
  <2>1. GoodStage(upload[u], AfterFailure(u), upload[u].blob, upload[u].rows)
    BY <1>1, InStage DEF GoodStage, AfterFailure, UploadStages
  <2> QED BY <1>1, <1>4, <1>5, <2>1, OnlyStage DEF Standing
<1>6. CASE ~(To(u, AfterFailure(u)) /\ UNCHANGED usage)
  <2>1. /\ Charges(t) => n <= Constraints[First(t)].daily
        /\ upload' = [upload EXCEPT ![u].pc = "send", ![u].day = day,
                                    ![u].charged = Charges(t)]
        /\ usage' = IF Charges(t) THEN [usage EXCEPT ![t][day] = n] ELSE usage
    BY <1>2, <1>6 DEF Reserve, Charges
  <2>2. Charges(t) \in BOOLEAN
    BY DEF Charges, Limited
  <2>3. PICK yes \in BOOLEAN : yes = Charges(t)
    BY <2>2
  <2>4. PICK x : x = Charge(upload[u], "send", day, yes)
    OBVIOUS
  <2>5. upload' = [upload EXCEPT ![u] = x]
    BY <1>1, <2>1, <2>3, <2>4, InStage DEF Charge
  <2>6. IsChargeOf(x, upload[u], "send", day, yes)
    BY <1>1, <1>3, <2>4, InStage, ChargeGives DEF UploadStages, Days
  <2>7. /\ x.pc = "send" /\ x.day = day /\ x.charged = yes /\ x.target = t
        /\ x.size = upload[u].size /\ IsUpload(x)
    BY <1>2, <2>6 DEF IsChargeOf
  <2>8. Sound(x, day, Due)
    <3>1. day \in 0 .. day
      BY <1>3 DEF Days
    <3> QED BY <2>3, <2>7, <3>1 DEF Sound, Paid, Due
  <2>9. ~IsCharged(upload[u])
    BY <1>1, InStage DEF Paid, IsCharged
  <2>10. CASE ~yes
    <3>1. ~IsCharged(x) /\ Standing
      BY <1>4, <2>1, <2>3, <2>7, <2>10 DEF IsCharged, Standing
    <3> QED BY <2>5, <2>8, <2>9, <3>1, FreeOfCharge
  <2>11. CASE yes
    <3>1. PICK b : b = [usage EXCEPT ![t][day] = n]
      OBVIOUS
    <3>2. b = usage'
      BY <2>1, <2>3, <2>11, <3>1
    <3>3. usage \in [Targets -> [Days -> Nat]]
      BY DEF UsageInv, Books
    <3>4. /\ b \in [Targets -> [Days -> Nat]] /\ b[t][day] = n
          /\ \A s \in Targets, d \in Days : s # t \/ d # day => b[s][d] = usage[s][d]
      BY <1>2, <1>3, <3>1, <3>3
    <3>5. Within(b)
      <4>1. \A s \in Targets, d \in Days : Fits(usage[s][d], Constraints[First(s)].daily)
        BY DEF UsageInv, Books
      <4>2. Fits(n, Constraints[First(t)].daily)
        BY <2>1, <2>3, <2>11 DEF Fits
      <4> QED BY <3>4, <4>1, <4>2 DEF Within
    <3>6. IsCharged(x)
      BY <2>7, <2>11 DEF IsCharged, IsUpload, UploadFields
    <3>7. Moved(usage, b, upload[u], x)
      BY <1>2, <1>3, <2>7, <2>9, <3>3, <3>4, <3>6 DEF Moved, Part
    <3> QED BY <1>4, <2>5, <2>8, <3>2, <3>5, <3>7, Becomes
  <2> QED BY <2>10, <2>11
<1> QED BY <1>5, <1>6


\* A release takes off the usage of its day what the upload is charged for.
LEMMA ReleaseKeeps ==
  ASSUME UsageInv, NEW u \in Uploads, Release(u), UNCHANGED <<overclock, restarts>>
  PROVE  UsageInv'
<1>1. upload[u].pc = "release" /\ upload[u].pc \in UploadStages /\ day' = day
  BY DEF Release, UploadStages
<1>2. PICK t, d, s, pc : /\ t = upload[u].target /\ d = upload[u].day
                         /\ s = upload[u].size /\ pc = AfterFailure(u)
  OBVIOUS
<1>3. /\ t \in Targets /\ s \in Nat /\ d \in 0 .. day /\ day \in Days
      /\ IsUpload(upload[u]) /\ upload[u].charged
  BY <1>1, <1>2, InStage DEF UsageInv, Paid
<1>4. d \in Days /\ d \in Nat
  BY <1>3, LibrariesAssumption DEF Days
<1>5. PICK x : x = Charge(upload[u], pc, d, FALSE)
  OBVIOUS
<1>6. /\ upload' = [upload EXCEPT ![u].pc = AfterFailure(u), ![u].charged = FALSE]
      /\ usage' = [usage EXCEPT ![t][d] =
                     IF usage[t][d] <= s THEN 0 ELSE usage[t][d] - s]
  BY <1>2 DEF Release
<1>7. upload' = [upload EXCEPT ![u] = x]
  <2>1. upload[u] = [f \in UploadFields |-> upload[u][f]]
    BY <1>3 DEF IsUpload
  <2>2. x = [upload[u] EXCEPT !.pc = pc, !.charged = FALSE]
    <3>1. [upload[u] EXCEPT !.pc = pc, !.charged = FALSE] =
          [upload[u] EXCEPT !.pc = pc, !.day = d, !.charged = FALSE]
      BY <1>2, <2>1
    <3> QED BY <1>5, <3>1 DEF Charge
  <2> QED BY <1>1, <1>2, <1>6, <2>2, InStage
<1>8. pc \in UploadStages /\ pc \in {"undo", "failed"}
      /\ (upload[u].kind # "probe" => pc \notin {"read", "delete", "drop", "undo"})
  BY <1>2 DEF AfterFailure, UploadStages
<1>9. IsChargeOf(x, upload[u], pc, d, FALSE)
  BY <1>3, <1>4, <1>5, <1>8, ChargeGives
<1>10. /\ x.pc = pc /\ x.day = d /\ x.charged = FALSE /\ x.target = t /\ x.size = s
       /\ IsUpload(x)
  BY <1>2, <1>9 DEF IsChargeOf
<1>11. Sound(x, day, Due)
  BY <1>3, <1>8, <1>10 DEF Sound, Paid
<1>12. usage \in [Targets -> [Days -> Nat]]
  BY DEF UsageInv, Books
\* It is in the sum, so that the day's usage is as much at least.
<1>13. usage[t][d] >= s
  <2>1. PICK w : w = upload
    OBVIOUS
  <2>2. PICK z : z = [w EXCEPT ![u] = x]
    OBVIOUS
  <2>3. /\ w = [v \in Uploads |-> w[v]] /\ Known(w) /\ FinitelyMany(w)
        /\ usage[t][d] = Bytes(w, ChargedTo(w, t, d))
    BY <1>3, <1>4, <2>1 DEF UsageInv, Books, Known, Sound
  <2>4. Differ(w, z, w[u], x, t, d)
    BY <1>3, <1>4, <1>10, <2>2, <2>3, UploadChange
  <2>5. Part(w[u], t, d) = s
    <3>1. "charged" \in DOMAIN upload[u]
      BY <1>3 DEF IsUpload, UploadFields
    <3> QED BY <1>2, <1>3, <2>1, <3>1 DEF Part, IsCharged
  <2>6. PICK rest \in Nat : Bytes(w, ChargedTo(w, t, d)) = Part(w[u], t, d) + rest
    BY <2>4 DEF Differ
  <2> QED BY <1>3, <2>3, <2>5, <2>6
<1>14. PICK b : b = [usage EXCEPT ![t][d] = usage[t][d] - s]
  OBVIOUS
<1>15. b = usage'
  <2>1. usage[t][d] \in Nat
    BY <1>3, <1>4, <1>12
  <2>2. (IF usage[t][d] <= s THEN 0 ELSE usage[t][d] - s) = usage[t][d] - s
    BY <1>3, <1>13, <2>1
  <2> QED BY <1>6, <1>14, <2>2
<1>16. /\ b \in [Targets -> [Days -> Nat]] /\ b[t][d] = usage[t][d] - s
       /\ \A r \in Targets, e \in Days : r # t \/ e # d => b[r][e] = usage[r][e]
  <2>1. usage[t][d] \in Nat /\ usage[t][d] - s \in Nat
    BY <1>3, <1>4, <1>12, <1>13
  <2> QED BY <1>3, <1>4, <1>12, <1>14, <2>1
<1>17. Within(b)
  <2>1. \A r \in Targets, e \in Days : Fits(usage[r][e], Constraints[First(r)].daily)
    BY DEF UsageInv, Books
  <2>2. Fits(b[t][d], Constraints[First(t)].daily)
    <3>1. Fits(usage[t][d], Constraints[First(t)].daily) /\ usage[t][d] \in Nat
      BY <1>3, <1>4, <1>12, <2>1
    <3>2. Constraints[First(t)].daily \in Nat \cup {NoLimit}
      BY <1>3, LibrariesAssumption
    <3> QED BY <1>3, <1>16, <3>1, <3>2 DEF Fits
  <2> QED BY <1>16, <2>1, <2>2 DEF Within
<1>18. Moved(usage, b, upload[u], x)
  <2>1. ~IsCharged(x)
    BY <1>10 DEF IsCharged
  <2>2. IsCharged(upload[u])
    BY <1>3 DEF IsCharged, IsUpload, UploadFields
  <2>3. ASSUME NEW r \in Targets, NEW e \in Days
        PROVE  b[r][e] - Part(x, r, e) = usage[r][e] - Part(upload[u], r, e)
    <3>1. Part(x, r, e) = 0
      BY <2>1 DEF Part
    <3>2. Part(upload[u], r, e) = IF r = t /\ e = d THEN s ELSE 0
      BY <1>2, <2>2 DEF Part
    <3>3. b[r][e] \in Nat /\ usage[r][e] \in Nat
      BY <1>12, <1>16
    <3> QED BY <1>3, <1>16, <3>1, <3>2, <3>3
  <2> QED BY <2>3 DEF Moved
<1> QED BY <1>1, <1>7, <1>11, <1>15, <1>17, <1>18, Becomes

\* At midnight no charge moves.
LEMMA NextDayKeeps ==
  ASSUME UsageInv, NextDay, UNCHANGED <<overclock, restarts>>
  PROVE  UsageInv'
<1>1. day \in Nat /\ day + 1 \in Days
  BY LibrariesAssumption DEF UsageInv, NextDay, Days
<1>2. PICK next : next = day + 1
  OBVIOUS
<1>3. \A u \in Uploads : Sound(upload[u], day, Due) => Sound(upload[u], next, Due)
  BY <1>1, <1>2 DEF Sound
<1>4. Books(upload, usage, next, Due)
  BY <1>3 DEF UsageInv, Books
<1>5. Due' = Due
  BY DEF Due, Charges, Limited
<1> HIDE DEF Due
<1>6. Books(upload', usage', day', Due')
  BY <1>2, <1>4, <1>5 DEF NextDay
<1> QED BY <1>1, <1>6 DEF UsageInv, NextDay

\* A restart forgets the usage: nothing is charged any more, and what was under way fails.
LEMMA RestartKeepsUsage ==
  ASSUME UsageInv, RestartLibraries
  PROVE  UsageInv'
<1>1. PICK z : z = upload'
  OBVIOUS
<1>2. PICK b : b = usage'
  OBVIOUS
<1>3. ASSUME NEW u \in Uploads
      PROVE  Sound(z[u], day, {}) /\ ~IsCharged(z[u])
  <2>1. CASE upload[u] \in {Off, New}
    <3>1. z[u] \in {Off, New}
      BY <1>1, <2>1 DEF RestartLibraries
    <3>2. DOMAIN Off = {"pc"} /\ DOMAIN New = {"pc"}
      BY DEF Off, New
    <3> QED BY <3>1, <3>2 DEF Sound, IsCharged
  <2>2. CASE upload[u] \notin {Off, New}
    <3>1. upload[u].pc \in UploadStages
      BY <2>2 DEF UsageInv, Books, Sound, IsUpload
    <3>2. IsUpload(upload[u]) /\ upload[u].day \in 0 .. day
      BY <3>1, InStage
    <3>3. PICK pc : pc = IF upload[u].pc = "done" THEN "done" ELSE "failed"
      OBVIOUS
    <3>4. z[u] = [upload[u] EXCEPT !.charged = FALSE, !.pc = pc]
      <4>1. z[u] = [upload[u] EXCEPT !.charged = FALSE,
                       !.pc = IF @ = "done" THEN @ ELSE "failed"]
        BY <1>1, <2>2 DEF RestartLibraries
      <4>2. upload[u] = [f \in UploadFields |-> upload[u][f]]
        BY <3>2 DEF IsUpload
      <4> QED BY <3>3, <4>1, <4>2 DEF UploadFields
    <3>5. PICK d : d = upload[u].day
      OBVIOUS
    <3>6. z[u] = Charge(upload[u], pc, d, FALSE)
      <4>1. upload[u] = [f \in UploadFields |-> upload[u][f]]
        BY <3>2 DEF IsUpload
      <4> QED BY <3>4, <3>5, <4>1 DEF Charge
    <3>7. day \in Nat /\ d \in Nat /\ d \in 0 .. day
      BY <3>2, <3>5, LibrariesAssumption DEF UsageInv, Days
    <3>8. IsChargeOf(z[u], upload[u], pc, d, FALSE)
      BY <3>2, <3>3, <3>6, <3>7, ChargeGives DEF UploadStages
    <3>9. IsUpload(z[u]) /\ z[u].pc = pc /\ z[u].day = d /\ z[u].charged = FALSE
      BY <3>8 DEF IsChargeOf
    <3> QED BY <3>3, <3>7, <3>9 DEF Sound, Paid, IsCharged
  <2> QED BY <2>1, <2>2
<1>4. FinitelyMany(z) /\ \A t \in Targets, d \in Days : Bytes(z, ChargedTo(z, t, d)) = 0
  BY <1>3, NoneCharged
<1>5. b = [t \in Targets |-> [d \in Days |-> 0]] /\ z = [u \in Uploads |-> z[u]]
  BY <1>1, <1>2 DEF RestartLibraries
<1>6. \A t \in Targets : Fits(0, Constraints[First(t)].daily)
  BY LibrariesAssumption DEF Fits
<1>7. Books(z, b, day, {})
  BY <1>3, <1>4, <1>5, <1>6 DEF Books
<1>8. /\ restarts' \in Nat /\ restarts' # 0 /\ day' = day
      /\ overclock' \in BOOLEAN /\ day' \in Days
  <2>1. restarts \in Nat /\ day \in Days /\ overclock \in BOOLEAN
    BY DEF UsageInv
  <2>2. restarts' = restarts + 1 /\ day' = day /\ overclock' = overclock
    BY DEF RestartLibraries
  <2> QED BY <2>1, <2>2
<1>9. Due' = {}
  BY <1>8 DEF Due
<1> HIDE DEF Due
<1> QED BY <1>1, <1>2, <1>7, <1>8, <1>9 DEF UsageInv

\* At first nothing is charged.
LEMMA UsageInvInit ==
  ASSUME NEW us, NEW kindsOf, NEW n, LibrariesInit(us, kindsOf, n)
  PROVE  UsageInv
<1>1. \A u \in Uploads : upload[u] \in {Off, New}
  BY DEF LibrariesInit
<1>2. DOMAIN Off = {"pc"} /\ DOMAIN New = {"pc"}
  BY DEF Off, New
<1>3. \A u \in Uploads : Sound(upload[u], day, Due) /\ ~IsCharged(upload[u])
  BY <1>1, <1>2 DEF Sound, IsCharged
<1>4. PICK w : w = upload
  OBVIOUS
<1>5. /\ FinitelyMany(upload)
      /\ \A t \in Targets, d \in Days : Bytes(upload, ChargedTo(upload, t, d)) = 0
  <2>1. FinitelyMany(w) /\ \A t, d : Bytes(w, ChargedTo(w, t, d)) = 0
    BY <1>3, <1>4, NoneCharged
  <2> QED BY <1>4, <2>1
<1>6. \A t \in Targets : Fits(0, Constraints[First(t)].daily)
  BY LibrariesAssumption DEF Fits
<1>7. /\ usage = [t \in Targets |-> [d \in Days |-> 0]]
      /\ upload = [u \in Uploads |-> upload[u]]
      /\ overclock \in BOOLEAN /\ day = 0 /\ restarts = 0
  BY DEF LibrariesInit
<1>8. Books(upload, usage, day, Due)
  BY <1>3, <1>5, <1>6, <1>7 DEF Books
<1>9. day \in Days
  BY <1>7, LibrariesAssumption DEF Days
<1> QED BY <1>7, <1>8, <1>9 DEF UsageInv

\* Every step of Libraries keeps the books.
LEMMA UsageInvNext ==
  ASSUME UsageInv, [LibrariesNext]_libraryVars
  PROVE  UsageInv'
<1>1. CASE UploadStep /\ UNCHANGED <<overclock, healthVars, restarts, uploadKinds>>
  <2>1. ASSUME NEW u \in Uploads, NEW t \in Targets, NEW c \in Cargo, NEW kind,
               StartUpload(u, t, c, kind)
        PROVE  UsageInv'
    BY <1>1, <2>1, StartUploadKeeps DEF StartUpload, Standing
  <2>2. ASSUME NEW u \in Uploads, NEW t \in Targets, NEW c \in Cargo, RefuseUpload(u, t, c)
        PROVE  UsageInv'
    BY <1>1, <2>2, RefuseUploadKeeps DEF RefuseUpload, Standing
  <2>3. ASSUME NEW u \in Uploads, SendFails(u) \/ StopWaiting(u)
        PROVE  UsageInv'
    BY <1>1, <2>3, FailuresKeep DEF SendFails, StopWaiting, Standing
  <2>4. ASSUME NEW u \in Uploads, Send(u)
        PROVE  UsageInv'
    BY <1>1, <2>4, SendKeeps DEF Send, Standing
  <2>5. ASSUME NEW u \in Uploads, Appear(u)
        PROVE  UsageInv'
    BY <1>1, <2>5, AppearKeeps DEF Appear, Standing
  <2>6. ASSUME NEW u \in Uploads, SeeFile(u)
        PROVE  UsageInv'
    BY <1>1, <2>6, SeeFileKeeps DEF SeeFile, Standing
  <2>7. ASSUME NEW u \in Uploads, Save(u)
        PROVE  UsageInv'
    BY <1>1, <2>7, SaveKeeps DEF Save, Standing
  <2>8. ASSUME NEW u \in Uploads,
               ReadProbe(u) \/ DeleteProbe(u) \/ DropProbe(u) \/ UndoProbe(u)
        PROVE  UsageInv'
    BY <1>1, <2>8, ProbeKeeps DEF ReadProbe, DeleteProbe, DropProbe, UndoProbe, Standing
  <2>9. ASSUME NEW u \in Uploads, Reserve(u) PROVE UsageInv'
    BY <1>1, <2>9, ReserveKeeps
  <2>10. ASSUME NEW u \in Uploads, Release(u) PROVE UsageInv'
    BY <1>1, <2>10, ReleaseKeeps
  <2>11. ASSUME NextDay PROVE UsageInv'
    BY <1>1, <2>11, NextDayKeeps
  <2> HIDE DEF UsageInv
  <2> QED BY <1>1, <2>1, <2>2, <2>3, <2>4, <2>5, <2>6, <2>7, <2>8, <2>9, <2>10, <2>11
          DEF UploadStep
<1>2. CASE UNCHANGED <<overclock, uploadVars, restarts>>
  BY <1>2 DEF UsageInv, uploadVars, Due, Charges, Limited
<1>3. CASE RestartLibraries
  BY <1>3, RestartKeepsUsage
<1> QED BY <1>1, <1>2, <1>3 DEF LibrariesNext, libraryVars, uploadVars

\* The books give what DailyUsage says.
LEMMA UsageInvGives ==
  ASSUME UsageInv
  PROVE  DailyUsage
<1>1. ASSUME NEW t \in Targets, NEW d \in Days
      PROVE  usage[t][d] = Sums(t, d) /\ Fits(usage[t][d], Constraints[First(t)].daily)
  <2>1. Sums(t, d) = Bytes(upload, ChargedTo(upload, t, d))
    BY DEF Sums, Bytes, ChargedTo, Charged, IsCharged
  <2> QED BY <2>1 DEF UsageInv, Books
<1>2. ASSUME NEW t \in Targets, restarts = 0, NEW u \in Uploads, Charges(t),
             upload[u] \notin {Off, New}, upload[u].target = t,
             upload[u].pc \in {"save", "read", "delete", "drop", "done"}
      PROVE  Charged(u)
  <2>1. upload[u].pc \in UploadStages
    BY <1>2 DEF UploadStages
  <2> QED BY <1>2, <2>1, InStage DEF Paid, Due
<1> QED BY <1>1, <1>2 DEF DailyUsage

-----------------------------------------------------------------------------
(* The health of resource libraries.                                       *)

WriteFields == {"pc", "items", "answer", "failures", "stale"}

\* A check about to write holds what it has read, or is stale.
Holds(k) ==
  k.pc = "write" =>
    /\ k = [f \in WriteFields |-> k[f]] /\ k.failures \in Nat
    /\ k.stale \/ k.failures = health[Head(k.items)].failures

\* What a check reads and writes rows of: bindings that gave an answer.
Through(items, answer) ==
  /\ items \in Seq(AllBindings) /\ items # <<>>
  /\ \A b \in ToSet(items) : answer[b] \in {"ok", "failed"}

Goes(k) ==
  /\ k.pc \in {"idle", "probe", "read", "write"}
  /\ k.pc = "probe" => k.library \in Libraries
  /\ k.pc \in {"read", "write"} => Through(k.items, k.answer)

ChecksInv == raced \subseteq AllBindings /\ \A c \in Checks : Goes(check[c])

HealthInv ==
  /\ HealthCounted
  /\ health \in [AllBindings -> [status : {"unknown", "ok", "failed"}, failures : Nat]]
  /\ check = [c \in Checks |-> check[c]] /\ streak = [b \in AllBindings |-> streak[b]]
  /\ \A c \in Checks : Holds(check[c])

\* A check does something else than write.
LEMMA OtherCheck ==
  ASSUME HealthInv, NEW c \in Checks, NEW k, k.pc # "write",
         check' = [check EXCEPT ![c] = k], UNCHANGED <<health, streak, raced>>
  PROVE  HealthInv'
<1>1. HealthCounted'
  BY DEF HealthInv, HealthCounted
<1>2. /\ check' = [d \in Checks |-> check'[d]] /\ streak' = [b \in AllBindings |-> streak'[b]]
      /\ health' \in [AllBindings -> [status : {"unknown", "ok", "failed"}, failures : Nat]]
  BY DEF HealthInv
<1>3. ASSUME NEW d \in Checks
      PROVE  Holds(check[d])'
  BY DEF HealthInv, Holds
<1> QED BY <1>1, <1>2, <1>3 DEF HealthInv

\* The row is read.
LEMMA ReadHealthKeeps ==
  ASSUME HealthInv, ChecksInv, NEW c \in Checks, ReadHealth(c)
  PROVE  HealthInv'
<1>1. PICK k : k = [pc |-> "write", items |-> check[c].items, answer |-> check[c].answer,
                    failures |-> health[Head(check[c].items)].failures, stale |-> FALSE]
  OBVIOUS
<1>2. check' = [check EXCEPT ![c] = k] /\ UNCHANGED <<health, streak, raced>>
  BY <1>1 DEF ReadHealth
<1>3. /\ k = [f \in WriteFields |-> k[f]]
      /\ k.failures = health[Head(k.items)].failures
  BY <1>1 DEF WriteFields
<1>4. HealthCounted'
  BY <1>2 DEF HealthInv, HealthCounted
<1>5. /\ check' = [d \in Checks |-> check'[d]] /\ streak' = [b \in AllBindings |-> streak'[b]]
      /\ health' \in [AllBindings -> [status : {"unknown", "ok", "failed"}, failures : Nat]]
  BY <1>2 DEF HealthInv
<1>6. k.failures \in Nat
  <2>1. check[c].items \in Seq(AllBindings) /\ check[c].items # <<>>
    BY DEF ReadHealth, ChecksInv, Goes, Through
  <2>2. Head(check[c].items) \in AllBindings
    BY <2>1
  <2>3. k.failures = health[Head(check[c].items)].failures
    BY <1>1
  <2> QED BY <2>2, <2>3 DEF HealthInv
<1>7. ASSUME NEW d \in Checks
      PROVE  Holds(check[d])'
  BY <1>2, <1>3, <1>6 DEF HealthInv, Holds
<1> QED BY <1>4, <1>5, <1>7 DEF HealthInv

\* The row is written, and whoever has read it is behind.
LEMMA WriteHealthKeeps ==
  ASSUME HealthInv, ChecksInv, NEW c \in Checks, WriteHealth(c)
  PROVE  HealthInv'
<1>1. PICK k : k = check[c]
  OBVIOUS
<1>2. PICK b : b = Head(k.items)
  OBVIOUS
<1>3. PICK status : status = k.answer[b]
  OBVIOUS
<1>4. /\ k.pc = "write"
      /\ health' = [health EXCEPT ![b] = Counted(status, k.failures)]
      /\ streak' = [streak EXCEPT ![b] = IF status = "ok" THEN 0 ELSE @ + 1]
      /\ raced' = IF status = "ok" THEN raced \ {b}
                  ELSE IF k.stale THEN raced \cup {b} ELSE raced
  BY <1>1, <1>2, <1>3 DEF WriteHealth
<1>5. b \in AllBindings /\ status \in {"ok", "failed"}
  <2>1. /\ k.items \in Seq(AllBindings) /\ k.items # <<>>
        /\ \A x \in ToSet(k.items) : k.answer[x] \in {"ok", "failed"}
    BY <1>1, <1>4 DEF ChecksInv, Goes, Through
  <2>2. b = k.items[1] /\ 1 \in DOMAIN k.items /\ k.items[1] \in AllBindings
    BY <1>2, <2>1
  <2> QED BY <1>3, <2>1, <2>2 DEF ToSet
<1>6. /\ health \in [AllBindings -> [status : {"unknown", "ok", "failed"}, failures : Nat]]
      /\ streak = [x \in AllBindings |-> streak[x]]
      /\ k.stale \/ k.failures = health[b].failures
      /\ k.failures \in Nat
  BY <1>1, <1>2, <1>4 DEF HealthInv, Holds
<1>7. /\ health'[b].status = status
      /\ health'[b].failures = IF status = "ok" THEN 0 ELSE k.failures + 1
      /\ \A x \in AllBindings \ {b} : health'[x] = health[x] /\ streak'[x] = streak[x]
      /\ streak'[b] = IF status = "ok" THEN 0 ELSE streak[b] + 1
      /\ streak' = [x \in AllBindings |-> streak'[x]]
  BY <1>4, <1>5, <1>6 DEF Counted
<1>8. health' \in [AllBindings -> [status : {"unknown", "ok", "failed"}, failures : Nat]]
  <2>1. Counted(status, k.failures) \in [status : {"unknown", "ok", "failed"}, failures : Nat]
    BY <1>5, <1>6 DEF Counted
  <2> QED BY <1>4, <1>6, <2>1
<1>9. ASSUME NEW x \in AllBindings \ {b}
      PROVE  x \in raced' \/ /\ health'[x].failures = streak'[x]
                             /\ health'[x].status = "failed" <=> streak'[x] > 0
  BY <1>4, <1>7 DEF HealthInv, HealthCounted
<1>10. b \in raced' \/ /\ health'[b].failures = streak'[b]
                       /\ health'[b].status = "failed" <=> streak'[b] > 0
  <2>1. CASE status = "ok"
    BY <1>7, <2>1
  <2>2. CASE status = "failed" /\ (k.stale \/ b \in raced)
    BY <1>4, <2>2
  <2>3. CASE status = "failed" /\ ~k.stale /\ b \notin raced
    <3>1. k.failures = streak[b] /\ streak[b] \in Nat
      BY <1>5, <1>6, <2>3 DEF HealthInv, HealthCounted
    <3> QED BY <1>7, <2>3, <3>1
  <2> QED BY <1>5, <2>1, <2>2, <2>3
<1>11. HealthCounted'
  BY <1>9, <1>10 DEF HealthCounted
<1>12. /\ check' = [d \in Checks |-> check'[d]]
       /\ check'[c].pc # "write"
       /\ \A d \in Checks \ {c} :
            check'[d] = IF check[d].pc = "write" /\ Head(check[d].items) = b
                        THEN [check[d] EXCEPT !.stale = TRUE] ELSE check[d]
  BY <1>1, <1>2 DEF WriteHealth, NoCheck
<1>13. ASSUME NEW d \in Checks
       PROVE  Holds(check[d])'
  <2>1. Holds(check[d])
    BY DEF HealthInv
  <2>2. CASE d = c
    BY <1>12, <2>2 DEF Holds
  <2>3. CASE d # c /\ check[d].pc = "write" /\ Head(check[d].items) = b
    <3>1. check[d] = [f \in WriteFields |-> check[d][f]]
      BY <2>1, <2>3 DEF Holds
    <3>2. /\ check'[d] = [f \in WriteFields |-> check'[d][f]]
          /\ check'[d].stale = TRUE /\ check'[d].failures = check[d].failures
      BY <1>12, <2>3, <3>1 DEF WriteFields
    <3>3. check[d].failures \in Nat
      BY <2>1, <2>3 DEF Holds
    <3> QED BY <3>2, <3>3 DEF Holds
  <2>4. CASE d # c /\ check[d].pc = "write" /\ Head(check[d].items) # b
    <3>1. check'[d] = check[d]
      BY <1>12, <2>4
    <3>2. check[d].items \in Seq(AllBindings) /\ check[d].items # <<>>
      BY <2>4 DEF ChecksInv, Goes, Through
    <3>3. Head(check[d].items) \in AllBindings
      BY <3>2
    <3>4. health'[Head(check[d].items)] = health[Head(check[d].items)]
      BY <1>7, <2>4, <3>3
    <3> QED BY <2>1, <3>1, <3>4 DEF Holds
  <2>5. CASE d # c /\ check[d].pc # "write"
    BY <1>12, <2>5 DEF Holds
  <2> QED BY <2>2, <2>3, <2>4, <2>5
<1> QED BY <1>7, <1>11, <1>12, <1>13, <1>8 DEF HealthInv

\* Every step.
LEMMA LibrariesKeep ==
  ASSUME HealthInv, ChecksInv, [LibrariesNext]_libraryVars
  PROVE  HealthInv'
<1>1. CASE UNCHANGED <<health, check, streak, raced>>
  BY <1>1 DEF HealthInv, HealthCounted, Holds
<1>2. ASSUME NEW c \in Checks, NEW l \in Libraries, StartCheck(c, l)
      PROVE  HealthInv'
  <2>1. PICK k : k = [pc |-> "probe", library |-> l]
    OBVIOUS
  <2>2. k.pc # "write" /\ check' = [check EXCEPT ![c] = k] /\ UNCHANGED <<health, streak, raced>>
    BY <1>2, <2>1 DEF StartCheck
  <2> QED BY <2>2, OtherCheck
<1>3. ASSUME NEW c \in Checks, Probe(c)
      PROVE  HealthInv'
  <2> DEFINE Answered(answer) ==
               Select(Bindings[check[c].library], LAMBDA b : answer[b] # "none")
  <2>1. PICK answer :
          check' = [check EXCEPT ![c] =
                      IF Answered(answer) = <<>> THEN NoCheck
                      ELSE [pc |-> "read", items |-> Answered(answer), answer |-> answer]]
    BY <1>3, Zenon DEF Probe
  <2>2. PICK items : items = Answered(answer)
    OBVIOUS
  <2> HIDE DEF Answered
  <2>3. PICK k : k = (IF items = <<>> THEN NoCheck
                      ELSE [pc |-> "read", items |-> items, answer |-> answer])
    OBVIOUS
  <2>4. check' = [check EXCEPT ![c] = k]
    BY <2>1, <2>2, <2>3
  <2>5. k.pc # "write" /\ UNCHANGED <<health, streak, raced>>
    BY <1>3, <2>3 DEF Probe, NoCheck
  <2> QED BY <2>4, <2>5, OtherCheck
<1>4. ASSUME NEW c \in Checks, DropCheck(c)
      PROVE  HealthInv'
  <2>1. NoCheck.pc # "write" /\ check' = [check EXCEPT ![c] = NoCheck]
        /\ UNCHANGED <<health, streak, raced>>
    BY <1>4 DEF DropCheck, NoCheck
  <2> QED BY <2>1, OtherCheck
<1>5. CASE RestartLibraries
  <2>1. check' = [c \in Checks |-> NoCheck] /\ UNCHANGED <<health, streak, raced>>
    BY <1>5 DEF RestartLibraries
  <2>2. \A c \in Checks : Holds(check[c])'
    BY <2>1 DEF Holds, NoCheck
  <2>3. HealthCounted' /\ streak' = [b \in AllBindings |-> streak'[b]]
    BY <2>1 DEF HealthInv, HealthCounted
  <2> QED BY <2>1, <2>2, <2>3 DEF HealthInv
<1>6. CASE UNCHANGED libraryVars
  BY <1>1, <1>6 DEF libraryVars
<1>7. CASE UploadStep /\ UNCHANGED <<overclock, healthVars, restarts, uploadKinds>>
  BY <1>1, <1>7 DEF healthVars
<1>8. CASE CheckStep
  BY <1>2, <1>3, <1>4, <1>8, ReadHealthKeeps, WriteHealthKeeps DEF CheckStep
<1> QED BY <1>5, <1>6, <1>7, <1>8 DEF LibrariesNext

\* A check goes on with what is left of what it goes through.
LEMMA RestGoes ==
  ASSUME NEW items, NEW answer, Through(items, answer), Len(items) # 1
  PROVE  Through(Tail(items), answer)
<1>1. items \in Seq(AllBindings) /\ items # <<>> /\ Len(items) \in Nat
  BY DEF Through
<1>2. /\ Tail(items) \in Seq(AllBindings) /\ Len(Tail(items)) = Len(items) - 1
      /\ \A i \in 1 .. Len(Tail(items)) : Tail(items)[i] = items[i + 1]
  BY <1>1
<1>3. Tail(items) # <<>>
  <2>1. Len(items) # 0
    BY <1>1, EmptySeq
  <2>2. Len(Tail(items)) # 0
    BY <1>1, <1>2, <2>1
  <2> QED BY <1>2, <2>2, EmptySeq
<1>4. ASSUME NEW b \in ToSet(Tail(items))
      PROVE  b \in ToSet(items)
  <2>1. PICK i \in 1 .. Len(Tail(items)) : b = Tail(items)[i]
    BY <1>2 DEF ToSet
  <2>2. b = items[i + 1] /\ i + 1 \in DOMAIN items
    BY <1>1, <1>2, <2>1
  <2> QED BY <2>2 DEF ToSet
<1> QED BY <1>2, <1>3, <1>4 DEF Through

\* One check does something else.
LEMMA OneGoes ==
  ASSUME ChecksInv, NEW c \in Checks, NEW k, Goes(k),
         \A d \in Checks : check'[d] = IF d = c THEN k ELSE check[d], raced' = raced
  PROVE  ChecksInv'
BY DEF ChecksInv

\* A probe goes through the bindings of its library that gave an answer.
LEMMA ProbeGoes ==
  ASSUME ChecksInv, HealthInv, NEW c \in Checks, Probe(c)
  PROVE  ChecksInv'
<1> DEFINE Answered(answer) ==
             Select(Bindings[check[c].library], LAMBDA b : answer[b] # "none")
           S == ToSet(Bindings[check[c].library])
<1>1. PICK answer \in [S -> {"ok", "failed", "none"}] :
        check' = [check EXCEPT ![c] =
                    IF Answered(answer) = <<>> THEN NoCheck
                    ELSE [pc |-> "read", items |-> Answered(answer), answer |-> answer]]
  BY Zenon DEF Probe
<1>2. PICK items : items = Answered(answer)
  OBVIOUS
<1>3. PICK K : K = {b \in S : answer[b] # "none"}
  OBVIOUS
<1>4. items = Only(Bindings[check[c].library], K)
  BY <1>2, <1>3 DEF Select
<1> HIDE DEF Answered
<1>5. check[c].library \in Libraries
  BY DEF Probe, ChecksInv, Goes
<1>6. Bindings[check[c].library] \in Seq(S) /\ S \subseteq AllBindings
  BY <1>5, LibrariesAssumption DEF Targets, AllBindings
<1>7. PICK bs : bs = Bindings[check[c].library]
  OBVIOUS
<1> HIDE DEF S
<1>8. items \in Seq(S \cap K) /\ ToSet(items) = ToSet(bs) \cap K
  <2>1. bs \in Seq(S) /\ items = Only(bs, K)
    BY <1>4, <1>6, <1>7
  <2> QED BY ONLY <2>1, SelectedList
<1>9. items \in Seq(AllBindings)
  BY <1>6, <1>8
<1>10. \A b \in ToSet(items) : answer[b] \in {"ok", "failed"}
  BY <1>1, <1>3, <1>8
<1>11. PICK k : k = (IF items = <<>> THEN NoCheck
                     ELSE [pc |-> "read", items |-> items, answer |-> answer])
  OBVIOUS
<1>12. Goes(k)
  BY <1>9, <1>10, <1>11 DEF Goes, Through, NoCheck
<1>13. check' = [check EXCEPT ![c] = k]
  BY <1>1, <1>2, <1>11
<1>14. check = [d \in Checks |-> check[d]] /\ raced' = raced
  BY DEF HealthInv, Probe
<1> QED BY <1>12, <1>13, <1>14, OneGoes

\* A check that has written goes on with the rest of its bindings, or is through.
LEMMA WriteGoes ==
  ASSUME ChecksInv, HealthInv, NEW c \in Checks, WriteHealth(c)
  PROVE  ChecksInv'
<1>1. PICK k : k = check[c]
  OBVIOUS
<1>2. k.pc = "write" /\ Through(k.items, k.answer)
  BY <1>1 DEF WriteHealth, ChecksInv, Goes
<1>3. PICK b : b = Head(k.items)
  OBVIOUS
<1>4. b \in AllBindings
  BY <1>2, <1>3 DEF Through
<1>5. raced' \subseteq AllBindings
  BY <1>1, <1>3, <1>4 DEF WriteHealth, ChecksInv
<1>6. PICK n : n = (IF Len(k.items) = 1 THEN NoCheck
                    ELSE [pc |-> "read", items |-> Tail(k.items), answer |-> k.answer])
  OBVIOUS
<1>7. Goes(n)
  BY <1>2, <1>6, RestGoes DEF Goes, NoCheck
<1>8. \A d \in Checks :
         check'[d] = IF d = c THEN n
                     ELSE IF check[d].pc = "write" /\ Head(check[d].items) = b
                     THEN [check[d] EXCEPT !.stale = TRUE] ELSE check[d]
  BY <1>1, <1>3, <1>6 DEF WriteHealth
<1>9. ASSUME NEW d \in Checks
      PROVE  Goes(check'[d])
  <2>1. Goes(check[d]) /\ Holds(check[d])
    BY DEF ChecksInv, HealthInv
  <2>2. CASE d # c /\ check[d].pc = "write" /\ Head(check[d].items) = b
    <3>1. check[d] = [f \in WriteFields |-> check[d][f]]
      BY <2>1, <2>2 DEF Holds
    <3>2. check'[d] = [check[d] EXCEPT !.stale = TRUE]
      BY <1>8, <2>2
    <3>3. /\ check'[d]["pc"] = check[d]["pc"] /\ check'[d]["items"] = check[d]["items"]
          /\ check'[d]["answer"] = check[d]["answer"]
      BY <3>1, <3>2 DEF WriteFields
    <3>4. /\ check'[d].pc = "write" /\ check'[d].items = check[d].items
          /\ check'[d].answer = check[d].answer
      BY <2>2, <3>3
    <3> QED BY <2>1, <2>2, <3>4 DEF Goes
  <2> QED BY <1>7, <1>8, <2>1, <2>2
<1> QED BY <1>5, <1>9 DEF ChecksInv

\* Every step.
LEMMA ChecksGoOn ==
  ASSUME ChecksInv, HealthInv, [LibrariesNext]_libraryVars
  PROVE  ChecksInv'
<1>1. CASE UNCHANGED <<check, raced>>
  BY <1>1 DEF ChecksInv
<1>2. check = [d \in Checks |-> check[d]]
  BY DEF HealthInv
<1>3. ASSUME NEW c \in Checks, NEW l \in Libraries, StartCheck(c, l)
      PROVE  ChecksInv'
  <2>1. PICK k : k = [pc |-> "probe", library |-> l]
    OBVIOUS
  <2>2. Goes(k) /\ check' = [check EXCEPT ![c] = k] /\ raced' = raced
    BY <1>3, <2>1 DEF StartCheck, Goes
  <2> QED BY <1>2, <2>2, OneGoes
<1>4. ASSUME NEW c \in Checks, ReadHealth(c)
      PROVE  ChecksInv'
  <2>1. PICK k : k = [pc |-> "write", items |-> check[c].items, answer |-> check[c].answer,
                      failures |-> health[Head(check[c].items)].failures, stale |-> FALSE]
    OBVIOUS
  <2>2. k.pc = "write" /\ k.items = check[c].items /\ k.answer = check[c].answer
    BY <2>1
  <2>3. Goes(k) /\ check' = [check EXCEPT ![c] = k] /\ raced' = raced
    BY <1>4, <2>1, <2>2 DEF ReadHealth, ChecksInv, Goes
  <2> QED BY <1>2, <2>3, OneGoes
<1>5. ASSUME NEW c \in Checks, DropCheck(c)
      PROVE  ChecksInv'
  <2>1. Goes(NoCheck) /\ check' = [check EXCEPT ![c] = NoCheck] /\ raced' = raced
    BY <1>5 DEF DropCheck, Goes, NoCheck
  <2> QED BY <1>2, <2>1, OneGoes
<1>6. CASE RestartLibraries
  BY <1>6 DEF RestartLibraries, ChecksInv, Goes, NoCheck
<1>7. CASE UploadStep /\ UNCHANGED <<overclock, healthVars, restarts, uploadKinds>>
  BY <1>1, <1>7 DEF healthVars
<1>8. CASE CheckStep
  BY <1>3, <1>4, <1>5, <1>8, ProbeGoes, WriteGoes DEF CheckStep
<1>9. CASE UNCHANGED libraryVars
  BY <1>1, <1>9 DEF libraryVars
<1> QED BY <1>6, <1>7, <1>8, <1>9 DEF LibrariesNext

\* At first no check has failed.
LEMMA HealthInvInit ==
  ASSUME NEW us, NEW kindsOf, NEW n, LibrariesInit(us, kindsOf, n)
  PROVE  HealthInv /\ ChecksInv
<1>1. /\ health = [b \in AllBindings |-> [status |-> "unknown", failures |-> 0]]
      /\ check = [c \in Checks |-> NoCheck] /\ raced = {}
      /\ streak = [b \in AllBindings |-> 0]
  BY DEF LibrariesInit
<1>2. HealthInv
  BY <1>1 DEF HealthInv, HealthCounted, Holds, NoCheck
<1>3. ChecksInv
  BY <1>1 DEF ChecksInv, Goes, NoCheck
<1> QED BY <1>2, <1>3

\* The counts of failures hold, and the bindings of checks.
LEMMA ChecksInvariant ==
  ASSUME NEW CONSTANT us, NEW CONSTANT kindsOf, NEW CONSTANT n
  PROVE  LibrariesSpec(us, kindsOf, n) => [](HealthInv /\ ChecksInv)
<1>1. LibrariesInit(us, kindsOf, n) => HealthInv /\ ChecksInv
  BY HealthInvInit
<1>2. HealthInv /\ ChecksInv /\ [LibrariesNext]_libraryVars => (HealthInv /\ ChecksInv)'
  BY LibrariesKeep, ChecksGoOn
<1> QED BY <1>1, <1>2, PTL DEF LibrariesSpec

\* The row of a library says how many checks in a row have failed, however checks
\* of it overlap, break off or are restarted, unless one wrote what was stale.
\* (UpsertResourceLibraryHealth.)
THEOREM CountsFailures ==
  ASSUME NEW CONSTANT us, NEW CONSTANT kindsOf, NEW CONSTANT n
  PROVE  LibrariesSpec(us, kindsOf, n) => []HealthCounted
<1>1. HealthInv => HealthCounted
  BY DEF HealthInv
<1> QED BY <1>1, ChecksInvariant, PTL


\* Uploads, usage, checks and the rows of health keep their shapes.
LEMMA LibrariesTypes ==
  ASSUME UsageInv, HealthInv, ChecksInv
  PROVE  LibrariesTypeOK
<1>1. ASSUME NEW u \in Uploads, upload[u] \notin {Off, New}
      PROVE  upload[u].pc \in UploadStages
  BY <1>1 DEF UsageInv, Books, Sound, IsUpload
<1>2. ASSUME NEW u \in Uploads
      PROVE  upload[u] \in {Off, New} \/
          /\ upload[u].pc \in {"put", "send", "wait", "release", "save", "read",
                               "delete", "drop", "undo", "done", "failed"}
          /\ upload[u].target \in Targets /\ upload[u].day \in 0 .. day
          /\ upload[u].charged \in BOOLEAN
          /\ upload[u].blob \in {"none", "hidden", "there"}
          /\ upload[u].rows \subseteq {"project", "object"}
          /\ upload[u].kind # "probe" =>
                upload[u].pc \notin {"read", "delete", "drop", "undo"}
  BY <1>1, InStage DEF UploadStages
<1>3. overclock \in BOOLEAN /\ day \in Days /\ usage \in [Targets -> [Days -> Nat]]
  BY DEF UsageInv, Books
<1>4. BindingsAnswered
  BY DEF ChecksInv, Goes, Through, BindingsAnswered
<1>5. /\ health \in [AllBindings ->
                     [status : {"unknown", "ok", "failed"}, failures : Nat]]
      /\ raced \subseteq AllBindings
      /\ \A c \in Checks : check[c].pc \in {"idle", "probe", "read", "write"}
  BY DEF HealthInv, ChecksInv, Goes
<1> QED BY <1>2, <1>3, <1>4, <1>5 DEF LibrariesTypeOK

\* The books hold.
LEMMA UsageInvariant ==
  ASSUME NEW CONSTANT us, NEW CONSTANT kindsOf, NEW CONSTANT n
  PROVE  LibrariesSpec(us, kindsOf, n) => []UsageInv
<1>1. LibrariesInit(us, kindsOf, n) => UsageInv
  BY UsageInvInit
<1>2. UsageInv /\ [LibrariesNext]_libraryVars => UsageInv'
  BY UsageInvNext
<1> QED BY <1>1, <1>2, PTL DEF LibrariesSpec

\* Uploads, usage, checks and the rows of health keep their shapes, and a check
\* goes through bindings that gave it an answer.
THEOREM LibrariesTypeCorrect ==
  ASSUME NEW CONSTANT us, NEW CONSTANT kindsOf, NEW CONSTANT n
  PROVE  LibrariesSpec(us, kindsOf, n) => []LibrariesTypeOK
<1>1. UsageInv /\ HealthInv /\ ChecksInv => LibrariesTypeOK
  BY LibrariesTypes
<1> QED BY <1>1, UsageInvariant, ChecksInvariant, PTL

\* The allowance of a day that has been used is the sum of the puts charged to that
\* day, each once and none forgotten, however midnight, failures and the releases of
\* other puts fall between a reservation and its end; it stays within the limit, and
\* a file that was accepted is paid for.  (reserveDailyUpload, releaseDailyUpload.)
THEOREM AllowanceKept ==
  ASSUME NEW CONSTANT us, NEW CONSTANT kindsOf, NEW CONSTANT n
  PROVE  LibrariesSpec(us, kindsOf, n) => []DailyUsage
<1>1. UsageInv => DailyUsage
  BY UsageInvGives
<1> QED BY <1>1, UsageInvariant, PTL

-----------------------------------------------------------------------------
(* CloudflareSync.                                                         *)

CloudSpec(n, kindsOf, outside) ==
  SyncInit(n, kindsOf, outside) /\ [][SyncNext]_syncVars

\* What requests of a kind may ask for.
Asks(kind) ==
  CASE kind = "dns" -> [type : RecordTypes, to : Contents]
    [] kind = "route" -> Scripts
    [] OTHER -> Policies

Elements(todo) == {todo[i] : i \in DOMAIN todo}

Distinct(todo) == \A i, j \in DOMAIN todo : todo[i] = todo[j] => i = j

-----------------------------------------------------------------------------
(* The invariant.                                                          *)

\* InLine, of a setting that is x.
Good(x, s, want) ==
  IF s[1] = "custom" THEN x \notin {{}, {"disabled"}}
  ELSE \E v \in x : Meets(s, v, want)

\* The settings are what they may be.
AtOK(a) ==
  /\ a = [s \in Settings |-> a[s]]
  /\ \A s \in Settings : a[s] \subseteq Values[s[1]] /\ Legal(s, a[s])
  /\ a[TheBucket] = {} => \A s \in BucketSettings : a[s] = {}

\* Nothing is replaced unasked.
Restrained(q) ==
  /\ ~q.force \/ q.dry => q.replaced \subseteq {<<"cors", Bucket>>}
  /\ q.dry => q.replaced = {}

\* The state of a request that is under way.
IsState(q) ==
  q = [pc |-> q.pc, kind |-> q.kind, todo |-> q.todo, want |-> q.want,
       force |-> q.force, dry |-> q.dry, seen |-> q.seen, ok |-> q.ok,
       stale |-> q.stale, replaced |-> q.replaced]

UnderWay(q) ==
  /\ IsState(q)
  /\ q.todo \in Seq(Concerns(q.kind)) /\ q.todo # <<>> /\ Distinct(q.todo)
  /\ q.want \in Asks(q.kind)
  /\ q.force \in BOOLEAN /\ q.dry \in BOOLEAN
  /\ q.ok \subseteq DOMAIN q.seen /\ q.ok \cap Elements(q.todo) = {}
  /\ q.pc = "act" => Head(q.todo) \in DOMAIN q.seen
  /\ q.pc = "act" /\ q.kind = "route" => Elements(q.todo) \subseteq DOMAIN q.seen
  /\ Restrained(q)

\* What it knows of the settings.
Knows(a, q) ==
  /\ \A s \in q.ok \ q.stale : Good(a[s], s, q.want)
  /\ \A s \in DOMAIN q.seen \ q.stale : a[s] = q.seen[s] \/ Good(a[s], s, q.want)
  /\ q.pc = "act" /\ Head(q.todo) \in BucketSettings => a[TheBucket] # {}

\* What is true of its answer.
Keeps(a, q) ==
  /\ \A s \in q.ok : Good(a[s], s, q.want)
  /\ Restrained(q)

Held(a, q) ==
  /\ q.pc \in {"idle", "look", "act", "told"}
  /\ q.pc \in {"look", "act"} => UnderWay(q) /\ Knows(a, q)
  /\ q.pc = "told" => Keeps(a, q)

SyncInv ==
  /\ AtOK(at)
  /\ sync = [r \in Syncs |-> sync[r]]
  /\ \A r \in Syncs : Held(at, sync[r])

-----------------------------------------------------------------------------
(* Settings, and what calls make of them.                                  *)

\* The kind of a setting tells what it is, and what it may be made of.
LEMMA SettingFacts ==
  ASSUME NEW s \in Settings
  PROVE  /\ s[1] \in {"dns", "route", "bucket", "cors", "managed", "custom"}
         /\ s \in BucketSettings <=> s[1] \in {"cors", "managed", "custom"}
         /\ s = TheBucket <=> s[1] = "bucket"
         /\ s[1] \in {"cors", "managed", "custom", "bucket"} => s = <<s[1], Bucket>>
BY DEF Settings, BucketSettings, TheBucket

\* What a request is about is a setting, of the kind of what it asks for.
LEMMA ConcernFacts ==
  ASSUME NEW kind, NEW s \in Concerns(kind), NEW want \in Asks(kind)
  PROVE  /\ s \in Settings
         /\ s[1] = "dns" => want \in [type : RecordTypes, to : Contents]
         /\ s[1] = "route" => want \in Scripts
         /\ s[1] = "cors" => want \in Policies
         /\ kind \in {"dns", "route"} => s[1] = kind
         /\ kind \notin {"dns", "route"} => s \in BucketSettings \cup {TheBucket}
<1>1. s \in Settings /\ (kind \in {"dns", "route"} => s[1] = kind)
      /\ (kind \notin {"dns", "route"} => s \in BucketSettings \cup {TheBucket})
  BY DEF Concerns, Settings
<1>2. kind \notin {"dns", "route"} => s[1] \in {"cors", "managed", "custom", "bucket"}
  BY <1>1, SettingFacts
<1> QED
  BY <1>1, <1>2 DEF Asks

\* A setting that is there once may be anything.
LEMMA OnceIsLegal ==
  ASSUME NEW s, s[1] # "dns", NEW x
  PROVE  Legal(s, {x})
<1>1. Cardinality({x}) = 1
  BY FS_Singleton
<1> QED BY <1>1 DEF Legal

\* A record that is put is of what was asked for, and creating one takes none away.
LEMMA DNSCall ==
  ASSUME NEW s \in Settings, s[1] = "dns", NEW action, NEW old,
         NEW want \in [type : RecordTypes, to : Contents],
         at[s] \subseteq Values[s[1]],
         NEW v \in DNSOutcomes(s, action, old, want)
  PROVE  /\ v \subseteq Values[s[1]] /\ Legal(s, v)
         /\ Good(v, s, want)
         /\ action = "create" => at[s] \subseteq v
<1> DEFINE rest == IF action = "create" THEN at[s]
                   ELSE {x \in at[s] : \A o \in old : x.id # o.id}
           ids == IF action = "create" THEN RecordIDs \ {x.id : x \in rest}
                  ELSE {x.id : x \in at[s] \ rest}
<1>1. PICK id \in ids : v = rest \cup {[id |-> id, type |-> want.type, to |-> want.to]}
  BY DEF DNSOutcomes
<1>2. Legal(s, v)
  BY DEF DNSOutcomes
<1>3. Values[s[1]] = [id : RecordIDs, type : RecordTypes, to : Contents]
  <2>1. Values["dns"] = [id : RecordIDs, type : RecordTypes, to : Contents]
    BY DEF Values
  <2> QED BY <2>1
<1>4. id \in RecordIDs
  BY <1>3
<1>5. v \subseteq Values[s[1]]
  BY <1>1, <1>3, <1>4
<1>6. [id |-> id, type |-> want.type, to |-> want.to] \in v
  BY <1>1
<1>7. Good(v, s, want)
  BY <1>6 DEF Good, Meets
<1> QED BY <1>1, <1>2, <1>5, <1>7

\* What a call that has an effect makes of a setting is legal and as it was asked for,
\* and unless it was to update or is a policy, it takes nothing away.
LEMMA CallMakes ==
  ASSUME AtOK(at), NEW kind, NEW s \in Concerns(kind), NEW want \in Asks(kind),
         NEW action \in {"create", "update"}, NEW old,
         NEW v \in Outcomes(s, action, old, want)
  PROVE  /\ v \subseteq Values[s[1]] /\ Legal(s, v)
         /\ Good(v, s, want)
         /\ s \in BucketSettings \cup {TheBucket} => v # {}
         /\ action = "create" /\ s # <<"cors", Bucket>> => at[s] \subseteq v
<1> USE ConcernFacts, SettingFacts
<1>1. at[s] \subseteq Values[s[1]] /\ s \in Settings
  BY DEF AtOK
<1>2. CASE s[1] = "dns"
  BY <1>1, <1>2, DNSCall DEF Outcomes
<1>3. CASE s[1] = "route"
  <2>1. v = {want} /\ (action = "create" => at[s] = {})
    BY <1>3 DEF Outcomes, RouteOutcomes, Accepted
  <2>2. Legal(s, v)
    BY <1>3, <2>1, OnceIsLegal
  <2> QED BY <1>3, <2>1, <2>2, <1>1 DEF Good, Meets, Values
<1>4. CASE s[1] = "bucket"
  <2>1. v = {"there"} /\ (action = "create" => at[s] = {})
    BY <1>4, <1>1 DEF Outcomes, BucketOutcomes, Accepted
  <2>2. Legal(s, v)
    BY <1>4, <2>1, OnceIsLegal
  <2> QED BY <1>4, <2>1, <2>2, <1>1 DEF Good, Meets, Values
<1>5. CASE s[1] = "cors"
  <2>1. v = {want} /\ s = <<"cors", Bucket>>
    BY <1>5, <1>1 DEF Outcomes
  <2>2. Legal(s, v)
    BY <1>5, <2>1, OnceIsLegal
  <2> QED BY <1>5, <2>1, <2>2, <1>1 DEF Good, Meets, Values
<1>6. CASE s[1] = "managed"
  <2>1. v = {"on"}
    BY <1>6 DEF Outcomes
  <2>2. Legal(s, v)
    BY <1>6, <2>1, OnceIsLegal
  <2> QED BY <1>6, <2>1, <2>2, <1>1 DEF Good, Meets, Values
<1>7. CASE s[1] = "custom"
  <2>1. v = {"pending"} /\ (action = "create" => at[s] = {})
    BY <1>7 DEF Outcomes, Accepted
  <2>2. Legal(s, v)
    BY <1>7, <2>1, OnceIsLegal
  <2> QED BY <1>7, <2>1, <2>2, <1>1 DEF Good, Meets, Values
<1> QED BY <1>1, <1>2, <1>3, <1>4, <1>5, <1>6, <1>7

\* What is found unchanged is in line.
LEMMA UnchangedIsGood ==
  ASSUME NEW s, NEW x, NEW want, NEW old, NEW force,
         old = {} \/ \E v \in Compared(s, x, want) : old = {v},
         Planned(s, x, old, want, force) = "unchanged"
  PROVE  Good(x, s, want)
<1>1. PICK v \in Compared(s, x, want) : old = {v} /\ Meets(s, v, want)
  BY DEF Planned
<1>2. v \in x
  BY <1>1 DEF Compared
<1>3. s[1] = "custom" => v = "ready"
  BY <1>1 DEF Meets
<1> QED BY <1>1, <1>2, <1>3 DEF Good

\* Only force makes a plan update, and a plan is one of four.
LEMMA PlanFacts ==
  ASSUME NEW s, NEW x, NEW old, NEW want, NEW force \in BOOLEAN
  PROVE  /\ Planned(s, x, old, want, force) \in {"unchanged", "update", "conflict", "create"}
         /\ Planned(s, x, old, want, force) = "update" => force
BY DEF Planned

-----------------------------------------------------------------------------
(* How a request goes on.                                                  *)

\* What is left of a list has neither its head nor anything twice.
LEMMA RestOfTodo ==
  ASSUME NEW S, NEW todo \in Seq(S), todo # <<>>, Distinct(todo)
  PROVE  /\ Head(todo) \in S /\ Head(todo) \in Elements(todo)
         /\ Tail(todo) \in Seq(S) /\ Distinct(Tail(todo))
         /\ Elements(Tail(todo)) \subseteq Elements(todo) \ {Head(todo)}
<1>1. /\ Tail(todo) \in Seq(S) /\ Len(Tail(todo)) = Len(todo) - 1
      /\ \A i \in 1..Len(Tail(todo)) : Tail(todo)[i] = todo[i+1]
      /\ Head(todo) \in S /\ Len(todo) \in Nat /\ Len(todo) > 0
      /\ Head(todo) = todo[1]
      /\ DOMAIN todo = 1..Len(todo) /\ DOMAIN Tail(todo) = 1..Len(Tail(todo))
  BY HeadTailProperties, EmptySeq, LenProperties
<1>2. ASSUME NEW i \in DOMAIN Tail(todo)
      PROVE  i + 1 \in DOMAIN todo /\ i + 1 # 1 /\ 1 \in DOMAIN todo
  BY <1>1
<1>3. Distinct(Tail(todo))
  <2> SUFFICES ASSUME NEW i \in DOMAIN Tail(todo), NEW j \in DOMAIN Tail(todo),
                      Tail(todo)[i] = Tail(todo)[j]
               PROVE  i = j
    BY DEF Distinct
  <2>1. todo[i+1] = todo[j+1]
    BY <1>1
  <2>2. i + 1 = j + 1
    BY <2>1, <1>2 DEF Distinct
  <2> QED BY <2>2, <1>1
<1>4. Elements(Tail(todo)) \subseteq Elements(todo) \ {Head(todo)}
  <2> SUFFICES ASSUME NEW i \in DOMAIN Tail(todo)
               PROVE  Tail(todo)[i] \in Elements(todo) /\ Tail(todo)[i] # todo[1]
    BY <1>1 DEF Elements
  <2>1. Tail(todo)[i] = todo[i+1]
    BY <1>1
  <2> QED BY <2>1, <1>2 DEF Distinct, Elements
<1>5. Head(todo) \in Elements(todo)
  BY <1>1 DEF Elements
<1> QED BY <1>1, <1>3, <1>4, <1>5

\* What it has brought in line then.
Done(q, ok) == IF ok THEN q.ok \cup {Head(q.todo)} ELSE q.ok

\* The request with its next setting, or its answer: what it has done is as before,
\* and the head of its list if that went well.
LEMMA OnwardFacts ==
  ASSUME NEW q, UnderWay(q), NEW ok \in BOOLEAN,
         q.pc = "act" \/ Head(q.todo) \in BucketSettings,
         ok => Head(q.todo) \in DOMAIN q.seen,
         NEW n, n = Onward(q, ok)
  PROVE  \/ /\ n.pc \in {"look", "act"} /\ UnderWay(n)
            /\ n.seen = q.seen /\ n.stale = q.stale /\ n.want = q.want
            /\ n.ok = Done(q, ok)
            /\ n.pc = "act" => Head(n.todo) \notin BucketSettings
         \/ /\ n.pc = "told"
            /\ n.want = q.want /\ n.ok = Done(q, ok) \ q.stale /\ Restrained(n)
<1> DEFINE done == Done(q, ok)
           rest == IF Head(q.todo) = TheBucket /\ ~ok THEN <<>> ELSE Tail(q.todo)
           pc == IF q.kind = "route" THEN "act" ELSE "look"
           next == [q EXCEPT !.todo = rest, !.ok = done, !.pc = pc]
<1>1. n = IF rest = <<>> THEN Told(next) ELSE next
  BY DEF Onward, Done
<1>2. next = [pc |-> pc, kind |-> q.kind, todo |-> rest, want |-> q.want,
              force |-> q.force, dry |-> q.dry,
              seen |-> q.seen, ok |-> done, stale |-> q.stale, replaced |-> q.replaced]
  <2> HIDE DEF done, rest, pc
  <2>1. DOMAIN q = {"pc", "kind", "todo", "want", "force", "dry", "seen", "ok", "stale",
                    "replaced"}
    BY DEF UnderWay, IsState
  <2>2. q = [f \in DOMAIN q |-> q[f]]
    BY DEF UnderWay, IsState
  <2>3. DOMAIN next = DOMAIN q /\ next = [f \in DOMAIN next |-> next[f]]
    OBVIOUS
  <2>4. next["pc"] = pc /\ next["ok"] = done /\ next["todo"] = rest
    BY <2>1, <2>2
  <2>5. /\ next["kind"] = q["kind"] /\ next["want"] = q["want"]
        /\ next["force"] = q["force"] /\ next["dry"] = q["dry"]
        /\ next["seen"] = q["seen"] /\ next["stale"] = q["stale"]
        /\ next["replaced"] = q["replaced"]
    BY <2>1, <2>2
  <2> HIDE DEF next
  <2> QED BY <2>1, <2>3, <2>4, <2>5
<1> HIDE DEF next
<1>3. Restrained(next) /\ Restrained(Told(next))
  BY <1>2 DEF UnderWay, Restrained, Told
<1>4. CASE rest = <<>>
  <2>1. n = Told(next)
    BY <1>1, <1>4
  <2>2. n.pc = "told" /\ n.want = q.want /\ n.ok = done \ q.stale
    BY <2>1, <1>2 DEF Told
  <2> QED BY <2>1, <2>2, <1>3
<1>5. CASE rest # <<>>
  <2>1. n = next /\ rest = Tail(q.todo)
    BY <1>1, <1>5
  <2> HIDE DEF rest
  <2>2. /\ q.todo \in Seq(Concerns(q.kind)) /\ q.todo # <<>> /\ Distinct(q.todo)
        /\ q.ok \subseteq DOMAIN q.seen /\ q.ok \cap Elements(q.todo) = {}
        /\ q.want \in Asks(q.kind)
    BY DEF UnderWay
  <2>3. /\ rest \in Seq(Concerns(q.kind)) /\ Distinct(rest)
        /\ Elements(rest) \subseteq Elements(q.todo) \ {Head(q.todo)}
    BY <2>1, <2>2, RestOfTodo
  <2>4. done \subseteq DOMAIN q.seen /\ done \cap Elements(rest) = {}
    BY <2>2, <2>3 DEF Done
  <2>5. Head(rest) \in Elements(rest) /\ Head(rest) \in Concerns(q.kind)
    BY <2>3, <1>5, RestOfTodo
  <2>6. q.kind = "route" => Head(rest) \notin BucketSettings
    BY <2>5, <2>2, ConcernFacts, SettingFacts
  <2>7. q.kind = "route" => q.pc = "act"
    BY <2>2, RestOfTodo, ConcernFacts, SettingFacts
  <2>8. q.kind = "route" => Elements(rest) \subseteq DOMAIN q.seen
    BY <2>7, <2>3 DEF UnderWay
  <2>9. next.pc \in {"look", "act"} /\ (next.pc = "act" => q.kind = "route")
    BY <1>2
  <2>10. UnderWay(next)
    BY <1>2, <1>3, <1>5, <2>2, <2>3, <2>4, <2>5, <2>8, <2>9 DEF UnderWay, IsState
  <2>11. /\ next.seen = q.seen /\ next.stale = q.stale /\ next.want = q.want
         /\ next.ok = done /\ next.todo = rest
    BY <1>2
  <2> QED BY <2>1, <2>6, <2>9, <2>10, <2>11
<1> QED BY <1>4, <1>5

\* If what was done is in line, the request keeps its word.
LEMMA OnwardHeld ==
  ASSUME NEW q, UnderWay(q), NEW ok \in BOOLEAN, NEW a,
         q.pc = "act" \/ Head(q.todo) \in BucketSettings,
         \A s \in q.ok \ q.stale : Good(a[s], s, q.want),
         \A s \in DOMAIN q.seen \ q.stale : a[s] = q.seen[s] \/ Good(a[s], s, q.want),
         ok => LET s == Head(q.todo)
               IN  s \in DOMAIN q.seen /\ (s \notin q.stale => Good(a[s], s, q.want))
  PROVE  Held(a, Onward(q, ok))
<1>1. PICK n : n = Onward(q, ok)
  OBVIOUS
<1>2. PICK done : done = Done(q, ok)
  OBVIOUS
<1>3. \A s \in done \ q.stale : Good(a[s], s, q.want)
  BY <1>2 DEF Done
<1>4. CASE /\ n.pc \in {"look", "act"} /\ UnderWay(n)
           /\ n.seen = q.seen /\ n.stale = q.stale /\ n.want = q.want /\ n.ok = done
           /\ n.pc = "act" => Head(n.todo) \notin BucketSettings
  <2>1. Knows(a, n)
    BY <1>3, <1>4 DEF Knows
  <2> QED BY <1>1, <1>4, <2>1 DEF Held
<1>5. CASE /\ n.pc = "told"
           /\ n.want = q.want /\ n.ok = done \ q.stale /\ Restrained(n)
  <2>1. Keeps(a, n)
    BY <1>3, <1>5 DEF Keeps
  <2> QED BY <1>1, <1>5, <2>1 DEF Held
<1> QED BY <1>1, <1>2, <1>4, <1>5, OnwardFacts

\* A request is held to nothing about a setting that others change after it looked.
LEMMA OutdateHeld ==
  ASSUME AtOK(at), NEW p \in Syncs, Held(at, sync[p]),
         NEW s \in Settings, NEW v, s = TheBucket => v # {},
         NEW a, a = [at EXCEPT ![s] = v]
  PROVE  Held(a, Outdate(s)[p])
<1>1. PICK q : q = sync[p]
  OBVIOUS
<1>2. PICK n : n = Outdate(s)[p]
  OBVIOUS
<1>3. n = IF q.pc \in {"idle", "told"} THEN NoSync
          ELSE IF s \in DOMAIN q.seen THEN [q EXCEPT !.stale = @ \cup {s}] ELSE q
  BY <1>1, <1>2 DEF Outdate
<1>4. \A x : x # s => a[x] = at[x]
  BY DEF AtOK
<1>5. at[TheBucket] # {} => a[TheBucket] # {}
  BY DEF AtOK, Settings
<1>6. CASE q.pc \in {"idle", "told"}
  BY <1>2, <1>3, <1>6 DEF Held, NoSync
<1>7. CASE q.pc \in {"look", "act"}
  <2>1. UnderWay(q) /\ Knows(at, q)
    BY <1>1, <1>7 DEF Held
  <2>2. CASE s \in DOMAIN q.seen
    <3>1. n = [q EXCEPT !.stale = @ \cup {s}]
      BY <1>3, <1>7, <2>2
    <3>2. n = [pc |-> q.pc, kind |-> q.kind, todo |-> q.todo, want |-> q.want,
               force |-> q.force, dry |-> q.dry, seen |-> q.seen, ok |-> q.ok,
               stale |-> q.stale \cup {s}, replaced |-> q.replaced]
      BY <2>1, <3>1 DEF UnderWay, IsState
    <3>3. UnderWay(n)
      BY <2>1, <3>2 DEF UnderWay, IsState, Restrained
    <3>4. Knows(a, n)
      BY <2>1, <3>2, <1>4, <1>5 DEF Knows
    <3> QED BY <1>2, <1>7, <3>2, <3>3, <3>4 DEF Held
  <2>3. CASE s \notin DOMAIN q.seen
    <3>1. n = q
      BY <1>3, <1>7, <2>3
    <3>2. Knows(a, q)
      BY <2>1, <2>3, <1>4, <1>5 DEF Knows, UnderWay
    <3> QED BY <1>2, <1>7, <3>1, <3>2, <2>1 DEF Held
  <2> QED BY <2>2, <2>3
<1> QED BY <1>1, <1>6, <1>7 DEF Held

-----------------------------------------------------------------------------
(* What requests are about.                                                *)

\* Two lists with nothing in common, one after the other.
LEMMA Concatenated ==
  ASSUME NEW S, NEW x \in Seq(S), NEW y \in Seq(S), Distinct(x), Distinct(y),
         Elements(x) \cap Elements(y) = {}
  PROVE  /\ x \o y \in Seq(S) /\ Distinct(x \o y)
         /\ Elements(x \o y) \subseteq Elements(x) \cup Elements(y)
<1>1. /\ x \o y \in Seq(S) /\ Len(x \o y) = Len(x) + Len(y)
      /\ \A i \in 1 .. Len(x) + Len(y) :
           (x \o y)[i] = IF i <= Len(x) THEN x[i] ELSE y[i - Len(x)]
      /\ Len(x) \in Nat /\ Len(y) \in Nat
      /\ DOMAIN x = 1..Len(x) /\ DOMAIN y = 1..Len(y)
      /\ DOMAIN (x \o y) = 1 .. Len(x) + Len(y)
  BY ConcatProperties, LenProperties
<1>2. ASSUME NEW i \in DOMAIN (x \o y)
      PROVE  \/ i \in DOMAIN x /\ (x \o y)[i] = x[i] /\ (x \o y)[i] \in Elements(x)
             \/ /\ i - Len(x) \in DOMAIN y /\ (x \o y)[i] = y[i - Len(x)]
                /\ (x \o y)[i] \in Elements(y)
  <2>1. CASE i <= Len(x)
    <3>1. i \in DOMAIN x /\ (x \o y)[i] = x[i]
      BY <1>1, <2>1
    <3> QED BY <3>1 DEF Elements
  <2>2. CASE ~(i <= Len(x))
    <3>1. i - Len(x) \in DOMAIN y /\ (x \o y)[i] = y[i - Len(x)]
      BY <1>1, <2>2
    <3> QED BY <3>1 DEF Elements
  <2> QED BY <2>1, <2>2
<1>3. Elements(x \o y) \subseteq Elements(x) \cup Elements(y)
  BY <1>2 DEF Elements
<1>4. Distinct(x \o y)
  <2> SUFFICES ASSUME NEW i \in DOMAIN (x \o y), NEW j \in DOMAIN (x \o y),
                      (x \o y)[i] = (x \o y)[j]
               PROVE  i = j
    BY DEF Distinct
  <2>1. i \in Nat /\ j \in Nat
    BY <1>1
  <2>2. \/ i \in DOMAIN x /\ j \in DOMAIN x /\ x[i] = x[j]
        \/ /\ i - Len(x) \in DOMAIN y /\ j - Len(x) \in DOMAIN y
           /\ y[i - Len(x)] = y[j - Len(x)]
    BY <1>2
  <2>3. i = j \/ i - Len(x) = j - Len(x)
    BY <2>2 DEF Distinct
  <2> QED BY <2>1, <2>3, <1>1
<1> QED BY <1>1, <1>3, <1>4

\* A list of at most one.
LEMMA AtMostOne ==
  ASSUME NEW S, NEW x \in S
  PROVE  /\ <<x>> \in Seq(S) /\ Distinct(<<x>>) /\ Elements(<<x>>) = {x}
         /\ <<>> \in Seq(S) /\ Distinct(<<>>) /\ Elements(<<>>) = {}
<1>1. DOMAIN <<x>> = 1..1 /\ <<x>>[1] = x /\ <<x>> \in Seq(S)
  OBVIOUS
<1>2. DOMAIN <<>> = {} /\ <<>> \in Seq(S)
  OBVIOUS
<1>3. Distinct(<<x>>) /\ Elements(<<x>>) = {x}
  BY <1>1 DEF Distinct, Elements
<1> QED BY <1>1, <1>2, <1>3 DEF Distinct, Elements

\* A record or a route for each host.
LEMMA EachHost ==
  ASSUME NEW kind \in {"dns", "route"}
  PROVE  Each(kind) \in Seq(Concerns(kind)) /\ Distinct(Each(kind))
<1>1. PICK S : S = {Names[i] : i \in DOMAIN Names}
  OBVIOUS
<1>2. Names \in Seq(S) /\ DOMAIN Names = 1..Len(Names) /\ Len(Names) \in Nat
  BY <1>1, NamesAssumption, LenProperties
<1>3. \A i \in DOMAIN Names : <<kind, Names[i]>> \in Settings
  BY DEF Settings
<1>4. \A i \in DOMAIN Names : <<kind, Names[i]>> \in Concerns(kind)
  BY <1>3 DEF Concerns
<1>5. Each(kind) = [i \in 1..Len(Names) |-> <<kind, Names[i]>>]
  BY <1>2 DEF Each
<1>6. Each(kind) \in Seq(Concerns(kind))
  BY <1>2, <1>4, <1>5
<1>7. Distinct(Each(kind))
  BY <1>2, <1>5, NamesAssumption DEF Distinct
<1> QED BY <1>6, <1>7

\* The settings of a bucket, each at most once.
LEMMA EachOfBucket ==
  ASSUME NEW first \in {<<>>, <<TheBucket>>}, NEW order \in BucketOrders(first)
  PROVE  /\ order.todo \in Seq(BucketSettings \cup {TheBucket}) /\ Distinct(order.todo)
         /\ order.want \in Policies
<1> DEFINE S == BucketSettings \cup {TheBucket}
<1>1. PICK cors \in {<<>>, <<<<"cors", Bucket>>>>},
           domain \in {<<>>, <<<<"managed", Bucket>>>>, <<<<"custom", Bucket>>>>} :
             order.todo = first \o cors \o domain
  BY DEF BucketOrders
<1>2. order.want \in Policies
  BY DEF BucketOrders
<1>3. /\ <<"cors", Bucket>> \in S /\ <<"managed", Bucket>> \in S /\ <<"custom", Bucket>> \in S
      /\ TheBucket \in S
  BY DEF BucketSettings
<1>4. first \in Seq(S) /\ Distinct(first) /\ Elements(first) \subseteq {TheBucket}
  BY <1>3, AtMostOne, ZenonT(60)
<1>5. cors \in Seq(S) /\ Distinct(cors) /\ Elements(cors) \subseteq {<<"cors", Bucket>>}
  BY <1>3, AtMostOne, ZenonT(60)
<1>6. /\ domain \in Seq(S) /\ Distinct(domain)
      /\ Elements(domain) \subseteq {<<"managed", Bucket>>, <<"custom", Bucket>>}
  <2>1. CASE domain = <<>>
    BY <1>3, <2>1, AtMostOne
  <2>2. CASE domain = <<<<"managed", Bucket>>>>
    BY <1>3, <2>2, AtMostOne
  <2>3. CASE domain = <<<<"custom", Bucket>>>>
    BY <1>3, <2>3, AtMostOne
  <2> QED BY <2>1, <2>2, <2>3
<1>7. TheBucket # <<"cors", Bucket>>
  BY DEF TheBucket
<1>8. /\ first \o cors \in Seq(S) /\ Distinct(first \o cors)
      /\ Elements(first \o cors) \subseteq {TheBucket, <<"cors", Bucket>>}
  <2>1. Elements(first) \cap Elements(cors) = {}
    BY <1>4, <1>5, <1>7
  <2> HIDE DEF S
  <2>2. /\ first \o cors \in Seq(S) /\ Distinct(first \o cors)
        /\ Elements(first \o cors) \subseteq Elements(first) \cup Elements(cors)
    BY <1>4, <1>5, <2>1, Concatenated
  <2> QED BY <1>4, <1>5, <2>2
<1>9. Elements(first \o cors) \cap Elements(domain) = {}
  <2>1. /\ <<"managed", Bucket>> \notin {TheBucket, <<"cors", Bucket>>}
        /\ <<"custom", Bucket>> \notin {TheBucket, <<"cors", Bucket>>}
    BY DEF TheBucket
  <2> QED BY <1>6, <1>8, <2>1
<1>10. (first \o cors) \o domain \in Seq(S) /\ Distinct((first \o cors) \o domain)
  <2> HIDE DEF S
  <2> QED BY <1>6, <1>8, <1>9, Concatenated
<1> QED BY <1>1, <1>2, <1>10

\* What a request of a kind is about, and asks for.
LEMMA OrderFacts ==
  ASSUME NEW kind, NEW order \in Orders(kind)
  PROVE  /\ order.todo \in Seq(Concerns(kind)) /\ Distinct(order.todo)
         /\ order.want \in Asks(kind)
<1>1. CASE kind = "dns"
  BY <1>1, EachHost DEF Orders, DNSOrders, Asks
<1>2. CASE kind = "route"
  BY <1>2, EachHost DEF Orders, RouteOrders, Asks
<1>3. CASE kind \notin {"dns", "route"}
  <2>1. Concerns(kind) = BucketSettings \cup {TheBucket} /\ Asks(kind) = Policies
    BY <1>3 DEF Concerns, Asks
  <2>2. \E first \in {<<>>, <<TheBucket>>} : order \in BucketOrders(first)
    BY <1>3 DEF Orders
  <2> QED BY <2>1, <2>2, EachOfBucket
<1> QED BY <1>1, <1>2, <1>3

-----------------------------------------------------------------------------
(* Steps.                                                                  *)

\* A request moves, and no setting changes.
LEMMA MoveInv ==
  ASSUME SyncInv, NEW r \in Syncs, NEW n, sync' = [sync EXCEPT ![r] = n], at' = at,
         Held(at, n)
  PROVE  SyncInv'
<1>1. sync' = [p \in Syncs |-> IF p = r THEN n ELSE sync[p]]
  BY DEF SyncInv
<1>2. sync' = [p \in Syncs |-> sync'[p]]
  BY <1>1
<1>3. \A p \in Syncs : Held(at', sync'[p])
  BY <1>1 DEF SyncInv
<1>4. AtOK(at')
  BY DEF SyncInv
<1> QED BY <1>2, <1>3, <1>4 DEF SyncInv

\* A request begins.
LEMMA StartSyncInv ==
  ASSUME SyncInv, NEW r \in Syncs, NEW kind, NEW force \in BOOLEAN, NEW dry \in BOOLEAN,
         NEW order \in Orders(kind), StartSync(r, kind, order, force, dry)
  PROVE  SyncInv'
<1>1. PICK n : n = [pc |-> "look", kind |-> kind, todo |-> order.todo, want |-> order.want,
                    force |-> force, dry |-> dry, seen |-> <<>>, ok |-> {}, stale |-> {},
                    replaced |-> {}]
  OBVIOUS
<1>2. order.todo # <<>> /\ sync' = [sync EXCEPT ![r] = n] /\ at' = at
  BY <1>1 DEF StartSync
<1>3. DOMAIN n.seen = {}
  BY <1>1
<1>4. IsState(n) /\ Restrained(n)
  BY <1>1 DEF IsState, Restrained
<1>5. UnderWay(n)
  BY <1>1, <1>2, <1>4, OrderFacts DEF UnderWay
<1>6. Knows(at, n)
  BY <1>1, <1>3 DEF Knows
<1>7. Held(at, n)
  BY <1>1, <1>5, <1>6 DEF Held
<1> QED BY <1>2, <1>7, MoveInv

\* A request sees settings as they are.
LEMMA LookInv ==
  ASSUME SyncInv, NEW r \in Syncs, Look(r)
  PROVE  SyncInv'
<1>1. PICK q : q = sync[r]
  OBVIOUS
<1>2. PICK looked : looked = Looked(q)
  OBVIOUS
<1>3. PICK seen : seen = [s \in DOMAIN q.seen \cup looked |->
                            IF s \in looked THEN at[s] ELSE q.seen[s]]
  OBVIOUS
<1>4. /\ q.pc = "look" /\ UnderWay(q) /\ Knows(at, q)
      /\ Head(q.todo) \in BucketSettings => at[TheBucket] # {}
      /\ at' = at
  BY <1>1 DEF Look, SyncInv, Held
<1>5. PICK n : n = [q EXCEPT !.pc = "act", !.stale = @ \ looked, !.seen = seen]
  OBVIOUS
<1>6. sync' = [sync EXCEPT ![r] = n]
  BY <1>1, <1>2, <1>3, <1>5 DEF Look, SyncInv
<1>7. /\ q.todo \in Seq(Concerns(q.kind)) /\ q.todo # <<>>
      /\ q.ok \subseteq DOMAIN q.seen /\ q.ok \cap Elements(q.todo) = {}
      /\ q.want \in Asks(q.kind)
  BY <1>4 DEF UnderWay
<1>8. Head(q.todo) \in Elements(q.todo)
  BY <1>4, RestOfTodo DEF UnderWay
<1>9. /\ Head(q.todo) \in looked /\ looked \subseteq Elements(q.todo)
      /\ q.kind = "route" => Elements(q.todo) \subseteq looked
  BY <1>2, <1>8 DEF Looked, Elements
<1>10. n = [pc |-> "act", kind |-> q.kind, todo |-> q.todo, want |-> q.want,
            force |-> q.force, dry |-> q.dry, seen |-> seen, ok |-> q.ok,
            stale |-> q.stale \ looked, replaced |-> q.replaced]
  <2>1. DOMAIN q = {"pc", "kind", "todo", "want", "force", "dry", "seen", "ok", "stale",
                    "replaced"}
    BY <1>4 DEF UnderWay, IsState
  <2>2. q = [f \in DOMAIN q |-> q[f]]
    BY <1>4 DEF UnderWay, IsState
  <2>3. DOMAIN n = DOMAIN q /\ n = [f \in DOMAIN n |-> n[f]]
    BY <1>5
  <2>4. n["pc"] = "act" /\ n["stale"] = q.stale \ looked /\ n["seen"] = seen
    BY <1>5, <2>1, <2>2
  <2>5. /\ n["kind"] = q["kind"] /\ n["want"] = q["want"]
        /\ n["force"] = q["force"] /\ n["dry"] = q["dry"]
        /\ n["todo"] = q["todo"] /\ n["ok"] = q["ok"]
        /\ n["replaced"] = q["replaced"]
    BY <1>5, <2>1, <2>2
  <2> QED BY <2>1, <2>3, <2>4, <2>5
<1>11. DOMAIN seen = DOMAIN q.seen \cup looked
  BY <1>3
<1>12. IsState(n) /\ Restrained(n)
  BY <1>10, <1>4 DEF IsState, Restrained, UnderWay
<1>13. UnderWay(n)
  BY <1>4, <1>7, <1>9, <1>10, <1>11, <1>12 DEF UnderWay
<1>14. \A s \in q.ok \ (q.stale \ looked) : Good(at[s], s, q.want)
  BY <1>4, <1>7, <1>9 DEF Knows
<1>15. \A s \in DOMAIN seen \ (q.stale \ looked) : at[s] = seen[s] \/ Good(at[s], s, q.want)
  BY <1>3, <1>4, <1>11 DEF Knows
<1>16. Knows(at, n)
  BY <1>4, <1>10, <1>14, <1>15 DEF Knows
<1>17. Held(at, n)
  BY <1>10, <1>13, <1>16 DEF Held
<1> QED BY <1>4, <1>6, <1>17, MoveInv

\* A look that fails ends the request, or the next setting follows.
LEMMA LookFailsInv ==
  ASSUME SyncInv, NEW r \in Syncs, LookFails(r)
  PROVE  SyncInv'
<1>1. PICK q : q = sync[r]
  OBVIOUS
<1>2. /\ q.pc = "look" /\ UnderWay(q) /\ Knows(at, q) /\ at' = at
      /\ sync' = [sync EXCEPT ![r] =
           IF Head(q.todo) \in BucketSettings THEN Onward(q, FALSE) ELSE NoSync]
  BY <1>1 DEF LookFails, SyncInv, Held
<1>3. CASE Head(q.todo) \in BucketSettings
  <2>1. Held(at, Onward(q, FALSE))
    BY <1>2, <1>3, OnwardHeld DEF Knows
  <2> QED BY <1>2, <1>3, <2>1, MoveInv
<1>4. CASE Head(q.todo) \notin BucketSettings
  <2>1. Held(at, NoSync)
    BY DEF Held, NoSync
  <2> QED BY <1>2, <1>4, <2>1, MoveInv
<1> QED BY <1>3, <1>4

\* A setting becomes v: it may be that, and all but the one who did it know that what
\* they saw is no more.
LEMMA ChangeInv ==
  ASSUME SyncInv, NEW s \in Settings, NEW v, v \subseteq Values[s[1]], Legal(s, v),
         s \in BucketSettings => at[TheBucket] # {}, s = TheBucket => v # {},
         at' = [at EXCEPT ![s] = v],
         sync' = [p \in Syncs |-> sync'[p]],
         \A p \in Syncs : sync'[p] = Outdate(s)[p] \/ Held(at', sync'[p])
  PROVE  SyncInv'
<1>1. at' = [x \in Settings |-> IF x = s THEN v ELSE at[x]]
  BY DEF SyncInv, AtOK
<1>2. at'[TheBucket] = {} => \A x \in BucketSettings : at'[x] = {}
  <2>1. TheBucket \in Settings /\ TheBucket \notin BucketSettings
    BY DEF Settings, TheBucket, BucketSettings
  <2>2. BucketSettings \subseteq Settings
    BY DEF Settings
  <2> QED BY <1>1, <2>1, <2>2 DEF SyncInv, AtOK
<1>3. AtOK(at')
  BY <1>1, <1>2 DEF SyncInv, AtOK
<1>4. \A p \in Syncs : Held(at', sync'[p])
  BY OutdateHeld DEF SyncInv
<1> QED BY <1>3, <1>4 DEF SyncInv

\* Somebody else changes a setting.
LEMMA OutsideInv ==
  ASSUME SyncInv, NEW kind, NEW s \in Concerns(kind), NEW v \in SUBSET Values[s[1]],
         Outside(s, v)
  PROVE  SyncInv'
<1>1. s \in Settings
  BY DEF Concerns, Settings
<1>2. sync' = Outdate(s) /\ sync' = [p \in Syncs |-> sync'[p]]
  BY DEF Outside, Outdate
<1> QED BY <1>1, <1>2, ChangeInv DEF Outside

\* A request changes a setting, is told to leave it, or fails to change it.
LEMMA ActInv ==
  ASSUME SyncInv, NEW r \in Syncs, Act(r)
  PROVE  SyncInv'
<1> DEFINE q == sync[r]
           s == Head(q.todo)
           compared == Compared(s, q.seen[s], q.want)
<1>1. PICK old \in IF compared = {} THEN {{}} ELSE {{v} : v \in compared} :
        LET action == Planned(s, q.seen[s], old, q.want, q.force)
            calls == action \in {"create", "update"} /\ ~q.dry
        IN  \/ /\ ~calls
               /\ sync' = [sync EXCEPT ![r] = Onward(q, action = "unchanged")]
               /\ UNCHANGED at
            \/ /\ calls
               /\ sync' = [sync EXCEPT ![r] = Onward(q, FALSE)]
               /\ UNCHANGED at
            \/ \E v \in Outcomes(s, action, old, q.want), answered \in BOOLEAN :
               /\ calls
               /\ at' = [at EXCEPT ![s] = v]
               /\ sync' = [Outdate(s) EXCEPT ![r] =
                      Onward([q EXCEPT !.stale = @ \ {s},
                          !.replaced = IF at[s] \subseteq v THEN @ ELSE @ \cup {s}],
                          answered)]
  BY DEF Act
<1>2. q = sync[r]
  OBVIOUS
<1>3. s = Head(q.todo)
  OBVIOUS
<1>4. compared = Compared(s, q.seen[s], q.want)
  BY SMTT(30)
<1> HIDE DEF q, s, compared
<1>5. q.pc = "act" /\ UnderWay(q) /\ Knows(at, q)
  BY <1>2 DEF Act, SyncInv, Held
<1>6. /\ q.todo \in Seq(Concerns(q.kind)) /\ q.todo # <<>> /\ Distinct(q.todo)
      /\ q.ok \subseteq DOMAIN q.seen /\ q.ok \cap Elements(q.todo) = {}
      /\ q.want \in Asks(q.kind) /\ q.force \in BOOLEAN /\ q.dry \in BOOLEAN
      /\ s \in DOMAIN q.seen
  BY <1>3, <1>5 DEF UnderWay
<1>7. s \in Concerns(q.kind) /\ s \in Elements(q.todo)
  BY <1>3, <1>6, RestOfTodo
<1>8. s \in Settings
  BY <1>6, <1>7, ConcernFacts
<1>9. s \in BucketSettings => at[TheBucket] # {}
  BY <1>3, <1>5 DEF Knows
<1>10. old = {} \/ \E v \in Compared(s, q.seen[s], q.want) : old = {v}
  BY <1>4
<1>11. PICK action : action = Planned(s, q.seen[s], old, q.want, q.force)
  OBVIOUS
<1>12. CASE /\ sync' = [sync EXCEPT ![r] = Onward(q, action = "unchanged")]
            /\ UNCHANGED at
  <2>1. (action = "unchanged") \in BOOLEAN
    OBVIOUS
  <2>2. action = "unchanged" => Good(q.seen[s], s, q.want)
    BY <1>10, <1>11, UnchangedIsGood
  <2>3. action = "unchanged" => (s \notin q.stale => Good(at[s], s, q.want))
    BY <2>2, <1>5, <1>6 DEF Knows
  <2>4. Held(at, Onward(q, action = "unchanged"))
    BY <1>3, <1>5, <1>6, <2>1, <2>3, OnwardHeld DEF Knows
  <2> QED BY <1>12, <2>4, MoveInv
<1>13. CASE sync' = [sync EXCEPT ![r] = Onward(q, FALSE)] /\ UNCHANGED at
  <2>1. Held(at, Onward(q, FALSE))
    BY <1>5, OnwardHeld DEF Knows
  <2> QED BY <1>13, <2>1, MoveInv
<1>14. ASSUME NEW v \in Outcomes(s, action, old, q.want), NEW answered \in BOOLEAN,
              action \in {"create", "update"}, ~q.dry,
              at' = [at EXCEPT ![s] = v],
              sync' = [Outdate(s) EXCEPT ![r] =
                     Onward([q EXCEPT !.stale = @ \ {s},
                         !.replaced = IF at[s] \subseteq v THEN @ ELSE @ \cup {s}],
                         answered)]
       PROVE  SyncInv'
  <2>1. /\ v \subseteq Values[s[1]] /\ Legal(s, v) /\ Good(v, s, q.want)
        /\ s \in BucketSettings \cup {TheBucket} => v # {}
        /\ action = "create" /\ s # <<"cors", Bucket>> => at[s] \subseteq v
    BY <1>6, <1>7, <1>14, CallMakes DEF SyncInv
  <2>2. PICK taken : taken = IF at[s] \subseteq v THEN q.replaced ELSE q.replaced \cup {s}
    OBVIOUS
  <2>3. PICK n : n = [q EXCEPT !.stale = @ \ {s}, !.replaced = taken]
    OBVIOUS
  <2>4. sync' = [Outdate(s) EXCEPT ![r] = Onward(n, answered)]
    BY <1>14, <2>2, <2>3
  <2>5. n = [pc |-> q.pc, kind |-> q.kind, todo |-> q.todo, want |-> q.want,
             force |-> q.force, dry |-> q.dry, seen |-> q.seen, ok |-> q.ok,
             stale |-> q.stale \ {s}, replaced |-> taken]
    <3>1. DOMAIN q = {"pc", "kind", "todo", "want", "force", "dry", "seen", "ok", "stale",
                      "replaced"}
      BY <1>5 DEF UnderWay, IsState
    <3>2. q = [f \in DOMAIN q |-> q[f]]
      BY <1>5 DEF UnderWay, IsState
    <3>3. DOMAIN n = DOMAIN q /\ n = [f \in DOMAIN n |-> n[f]]
      BY <2>3
    <3>4. n["stale"] = q.stale \ {s} /\ n["replaced"] = taken
      BY <2>3, <3>1, <3>2
    <3>5. /\ n["pc"] = q["pc"] /\ n["kind"] = q["kind"] /\ n["want"] = q["want"]
          /\ n["force"] = q["force"] /\ n["dry"] = q["dry"]
          /\ n["todo"] = q["todo"] /\ n["ok"] = q["ok"] /\ n["seen"] = q["seen"]
      BY <2>3, <3>1, <3>2
    <3> QED BY <3>1, <3>3, <3>4, <3>5
  <2>6. action = "update" => q.force
    BY <1>6, <1>11, PlanFacts
  <2>7. ~q.force => taken \subseteq {<<"cors", Bucket>>}
    <3>1. Restrained(q)
      BY <1>5 DEF UnderWay
    <3> QED BY <1>14, <2>1, <2>2, <2>6, <3>1 DEF Restrained
  <2>8. Restrained(n)
    BY <1>14, <2>5, <2>7 DEF Restrained
  <2>9. UnderWay(n)
    BY <1>5, <2>5, <2>8 DEF UnderWay, IsState
  <2>10. \A x \in Settings : at'[x] = IF x = s THEN v ELSE at[x]
    BY <1>14 DEF SyncInv, AtOK
  <2>11. \A x : x # s => at'[x] = at[x]
    BY <1>14 DEF SyncInv, AtOK
  <2>12. at'[s] = v
    BY <2>10, <1>8
  <2>13. \A x \in n.ok \ n.stale : Good(at'[x], x, n.want)
    BY <1>5, <1>6, <1>7, <2>5, <2>11 DEF Knows
  <2>14. \A x \in DOMAIN n.seen \ n.stale :
           at'[x] = n.seen[x] \/ Good(at'[x], x, n.want)
    BY <1>5, <2>1, <2>5, <2>11, <2>12 DEF Knows
  <2>15. Head(n.todo) = s /\ Good(at'[s], s, n.want) /\ s \in DOMAIN n.seen /\ n.pc = "act"
    BY <1>3, <1>5, <1>6, <2>1, <2>5, <2>12
  <2>16. Held(at', Onward(n, answered))
    BY <2>9, <2>13, <2>14, <2>15, OnwardHeld
  <2>17. /\ sync' = [p \in Syncs |-> sync'[p]]
         /\ \A p \in Syncs : sync'[p] = Outdate(s)[p] \/ Held(at', sync'[p])
    BY <2>4, <2>16 DEF Outdate
  <2> QED BY <1>8, <1>9, <1>14, <2>1, <2>17, ChangeInv
<1> QED BY <1>1, <1>11, <1>12, <1>13, <1>14, ZenonT(60)

-----------------------------------------------------------------------------
(* The theorems.                                                           *)

\* At first no setting is made, and no request is under way.
LEMMA SyncInvInit ==
  ASSUME NEW n, NEW kindsOf, NEW outside, SyncInit(n, kindsOf, outside)
  PROVE  SyncInv
<1>1. at = [s \in Settings |-> {}] /\ sync = [r \in Syncs |-> NoSync]
  BY DEF SyncInit
<1>2. \A s \in Settings : Legal(s, {})
  <2>1. Cardinality({}) = 0
    BY FS_EmptySet
  <2> QED BY <2>1 DEF Legal
<1>3. BucketSettings \subseteq Settings
  BY DEF Settings
<1>4. AtOK(at)
  BY <1>1, <1>2, <1>3 DEF AtOK
<1>5. \A r \in Syncs : Held(at, sync[r])
  BY <1>1 DEF Held, NoSync
<1> QED BY <1>1, <1>4, <1>5 DEF SyncInv

\* Every step keeps the invariant.
LEMMA SyncInvNext == SyncInv /\ [SyncNext]_syncVars => SyncInv'
<1> SUFFICES ASSUME SyncInv, [SyncNext]_syncVars
             PROVE  SyncInv'
  OBVIOUS
<1>1. ASSUME NEW r \in Syncs, NEW kind \in syncKinds, NEW force \in BOOLEAN, NEW dry \in BOOLEAN,
             NEW order \in Orders(kind), StartSync(r, kind, order, force, dry)
      PROVE  SyncInv'
  BY <1>1, StartSyncInv
<1>2. ASSUME NEW r \in Syncs, Look(r) \/ LookFails(r) \/ Act(r)
      PROVE  SyncInv'
  BY <1>2, LookInv, LookFailsInv, ActInv
<1>3. ASSUME NEW kind \in syncKinds, NEW s \in Concerns(kind), NEW v \in SUBSET Values[s[1]],
             Outside(s, v)
      PROVE  SyncInv'
  BY <1>3, OutsideInv
<1>4. CASE UNCHANGED syncVars
  BY <1>4 DEF SyncInv, syncVars
<1> QED BY <1>1, <1>2, <1>3, <1>4 DEF SyncNext

\* What the invariant is for.
LEMMA SyncInvImplies == SyncInv => CloudflareTypeOK /\ SyncsKeepTheirWord
<1> SUFFICES ASSUME SyncInv
             PROVE  CloudflareTypeOK /\ SyncsKeepTheirWord
  OBVIOUS
<1>1. CloudflareTypeOK
  BY DEF SyncInv, AtOK, Held, CloudflareTypeOK
<1>2. ASSUME NEW r \in Syncs, sync[r].pc = "told"
      PROVE  Keeps(at, sync[r])
  BY <1>2 DEF SyncInv, Held
<1>3. ASSUME NEW s, NEW want, Good(at[s], s, want)
      PROVE  InLine(s, want)
  BY <1>3 DEF Good, InLine
<1> QED BY <1>1, <1>2, <1>3 DEF SyncsKeepTheirWord, Keeps, Restrained

\* Settings are of their kind: whatever requests and others do, no host has records
\* that may not be beside each other, nothing that is there once is there twice,
\* and a bucket that is not there has no policy and no domain.  (The calls that the
\* syncs of client.go make.)
THEOREM CloudTypeCorrect ==
  ASSUME NEW CONSTANT n, NEW CONSTANT kindsOf, NEW CONSTANT outside
  PROVE  CloudSpec(n, kindsOf, outside) => []CloudflareTypeOK
<1>1. SyncInit(n, kindsOf, outside) => SyncInv
  BY SyncInvInit
<1> QED
  BY <1>1, SyncInvNext, SyncInvImplies, PTL DEF CloudSpec

\* What a request reports is so when it answers, but for what others have changed
\* since it looked, and it takes away nothing of others that it was not told to
\* replace, but a policy that was not there when it looked.  (SyncDNSRecords,
\* SyncWorkerRoutes, SyncR2Bucket, ProvisionR2Bucket.)
THEOREM KeepTheirWord ==
  ASSUME NEW CONSTANT n, NEW CONSTANT kindsOf, NEW CONSTANT outside
  PROVE  CloudSpec(n, kindsOf, outside) => []SyncsKeepTheirWord
<1>1. SyncInit(n, kindsOf, outside) => SyncInv
  BY SyncInvInit
<1> QED
  BY <1>1, SyncInvNext, SyncInvImplies, PTL DEF CloudSpec

-----------------------------------------------------------------------------
(* The three together.                                                     *)

HostingInv == UsageInv /\ HealthInv /\ ChecksInv /\ SitesInv /\ SyncInv

\* All of it holds at first.
LEMMA LibrariesInvInit ==
  ASSUME NEW us, NEW kindsOf, NEW n, LibrariesInit(us, kindsOf, n)
  PROVE  UsageInv /\ HealthInv /\ ChecksInv
BY UsageInvInit, HealthInvInit

\* The parts keep to their types, whatever each of them does.
THEOREM TypeCorrect == Spec => []TypeOK
<1>1. Init => HostingInv
  <2>1. ASSUME NoUploads PROVE UsageInv /\ HealthInv /\ ChecksInv
    BY <2>1, LibrariesInvInit DEF NoUploads
  <2>2. ASSUME NoSites PROVE SitesInv
    BY <2>2, SitesInitInv DEF NoSites
  <2>3. ASSUME NoSyncs PROVE SyncInv
    BY <2>3, SyncInvInit DEF NoSyncs
  <2>4. ASSUME \/ LibrariesInit({r1, r2}, {"upload", "copy"}, 0)
               \/ LibrariesInit({r1}, {"upload", "copy", "probe"}, 1)
               \/ LibrariesInit({}, {}, 4)
        PROVE  UsageInv /\ HealthInv /\ ChecksInv
    BY <2>4, LibrariesInvInit
  <2>5. ASSUME \/ SitesInit(3, {"create", "bind", "deploy"})
               \/ SitesInit(3, {"deploy", "delete"})
               \/ SitesInit(3, {"record", "bind", "delete"})
               \/ SitesInit(3, {"create", "status", "bind", "delete"})
        PROVE  SitesInv
    BY <2>5, SitesInitInv
  <2>6. ASSUME \/ SyncInit(2, {"dns"}, 0) \/ SyncInit(2, {"route"}, 1)
               \/ SyncInit(2, {"provision"}, 0) \/ SyncInit(1, {"r2", "provision"}, 3)
        PROVE  SyncInv
    BY <2>6, SyncInvInit
  <2> HIDE DEF NoUploads, NoSites, NoSyncs, UsageInv, HealthInv, ChecksInv, SitesInv, SyncInv
  <2> QED BY <2>1, <2>2, <2>3, <2>4, <2>5, <2>6 DEF Init, HostingInv
<1>2. HostingInv /\ [Next]_vars => HostingInv'
  <2> SUFFICES ASSUME HostingInv, [Next]_vars
               PROVE  HostingInv'
    OBVIOUS
  <2>1. /\ [LibrariesNext]_libraryVars /\ [SitesNext]_siteVars /\ [SyncNext]_syncVars
    BY DEF Next, vars
  <2>2. UsageInv /\ HealthInv /\ ChecksInv /\ SitesInv /\ SyncInv
    BY DEF HostingInv
  <2>3. UsageInv' /\ HealthInv' /\ ChecksInv'
    BY <2>1, <2>2, UsageInvNext, LibrariesKeep, ChecksGoOn
  <2>4. SitesInv' /\ SyncInv'
    BY <2>1, <2>2, SitesNextInv, SyncInvNext
  <2> QED BY <2>3, <2>4 DEF HostingInv
<1>3. HostingInv => TypeOK
  BY LibrariesTypes, SyncInvImplies DEF HostingInv, TypeOK, SitesInv, Types
<1> QED BY <1>1, <1>2, <1>3, PTL DEF Spec
=============================================================================
