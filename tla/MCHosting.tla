------------------------------ MODULE MCHosting ------------------------------
(***************************************************************************)
(* Libraries, Sites and CloudflareSync for TLC.  They share no state, and  *)
(* a behaviour is about one of them: uploads, health checks, hosts, or     *)
(* deleting a site, or requests of a few kinds to Cloudflare.              *)
(***************************************************************************)
EXTENDS Libraries, Sites, CloudflareSync, TLC

CONSTANTS lib, store, b1, b2, s1, s2, h1, h2, n1, n2, r1, r2, v1, v2

MCBindings == lib :> <<b1, b2>> @@ store :> <<store>>

MCConstraints ==
    b1 :> [capacity |-> 3, file |-> 2, batch |-> 2, daily |-> 3]
    @@ b2 :> [capacity |-> 1, file |-> NoLimit, batch |-> NoLimit, daily |-> NoLimit]
    @@ store :> [capacity |-> NoLimit, file |-> 3, batch |-> NoLimit, daily |-> 3]

MCPolicy ==
    lib :> [capacity |-> NoLimit, available |-> 5, reserve |-> 2]
    @@ store :> [capacity |-> 4, available |-> NoLimit, reserve |-> NoLimit]

\* One that fits, one of which two do not, and one whose batch is too large.
MCCargo == {[size |-> 1, batch |-> 1], [size |-> 2, batch |-> 1],
            [size |-> 1, batch |-> 3]}

MCDefaultHost == s1 :> h1 @@ s2 :> h2

MCNames == <<n1, n2>>

vars == <<libraryVars, siteVars, syncVars>>

NoUploads == LibrariesInit({}, {}, 0) /\ ~overclock

NoSites == SitesInit(0, {})

NoSyncs == SyncInit(0, {}, 0)

Init ==
    \/ /\ NoSites /\ NoSyncs
       /\ \/ LibrariesInit({r1, r2}, {"upload", "copy"}, 0) /\ ~overclock
          \/ LibrariesInit({r1}, {"upload", "copy", "probe"}, 1)
          \/ LibrariesInit({}, {}, 4) /\ ~overclock
    \/ /\ NoUploads /\ NoSyncs
       /\ \/ SitesInit(3, {"create", "bind", "deploy"})
          \/ SitesInit(3, {"deploy", "delete"})
          \/ SitesInit(3, {"record", "bind", "delete"})
          \/ SitesInit(3, {"create", "status", "bind", "delete"})
    \/ /\ NoUploads /\ NoSites
       /\ \/ SyncInit(2, {"dns"}, 0)
          \/ SyncInit(2, {"route"}, 1)
          \/ SyncInit(2, {"provision"}, 0)
          \/ SyncInit(1, {"r2", "provision"}, 3)

Next ==
    \/ LibrariesNext /\ UNCHANGED <<siteVars, syncVars>>
    \/ SitesNext /\ UNCHANGED <<libraryVars, syncVars>>
    \/ SyncNext /\ UNCHANGED <<libraryVars, siteVars>>

Spec == Init /\ [][Next]_vars

\* The parts keep to their types.
TypeOK == LibrariesTypeOK /\ SitesTypeOK /\ CloudflareTypeOK

\* The two sites are alike when their default hosts change places with them.
Exchange == s1 :> s2 @@ s2 :> s1 @@ h1 :> h2 @@ h2 :> h1

\* Sets that no behaviour uses together share r1 and r2, or v1 and v2, so that
\* few permutations serve them all.
Symmetry == Permutations({r1, r2}) \cup Permutations({v1, v2}) \cup {Exchange}
==============================================================================
