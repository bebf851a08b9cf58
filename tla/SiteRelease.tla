----------------------------- MODULE SiteRelease -----------------------------
(***************************************************************************)
(* What deployments promise a site: visitors see one finished build at a   *)
(* time, publishing moves from one to another in one step, and a site that *)
(* has been published is never without a build again.                      *)
(*                                                                         *)
(* SiteDeployments implements this specification.                          *)
(***************************************************************************)
CONSTANTS
  Deployments,
  NoDeployment  \* nothing has been published; none of Deployments

VARIABLES
  built,   \* finished builds, which may be published
  current  \* what visitors of the site see

vars == <<built, current>>

Init == built = {} /\ current = NoDeployment

Finish(d) == built' = built \cup {d} /\ UNCHANGED current

Publish(d) ==
  /\ d \in built
  /\ current' = d
  /\ UNCHANGED built

\* Only what visitors do not see is given up.
Discard(d) ==
  /\ d # current
  /\ built' = built \ {d}
  /\ UNCHANGED current

Next == \E d \in Deployments : Finish(d) \/ Publish(d) \/ Discard(d)

Spec == Init /\ [][Next]_vars
=============================================================================
