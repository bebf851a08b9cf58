----------------------------- MODULE UploadQuota -----------------------------
(***************************************************************************)
(* Upload quotas: what users have uploaded, counted against a limit that   *)
(* only the root administrator moves.                                      *)
(*                                                                         *)
(* Sources: internal/db/quotas.go and internal/server/quota_handlers.go,   *)
(* and the handlers that reserve: project_handlers.go (assets),            *)
(* asset_bucket_handlers.go (buckets), site_deploy_handlers.go (sites and  *)
(* Cloudflare records).  To the quota they are one thing: bytes are        *)
(* reserved, the upload runs, and then it is kept or released.             *)
(*                                                                         *)
(* A reservation, a decision and a new limit are one transaction each.     *)
(* Root's own uploads are not counted and are left out; all users are      *)
(* members of the workspace.                                               *)
(***************************************************************************)
EXTENDS Naturals, Sequences, FiniteSets, FiniteSetsExt

CONSTANTS
  Users,
  Slots,         \* requests of users that are served at the same time
  Sizes,         \* bytes of an upload; 0 for an empty one
  Limits,        \* limits that are asked for or set; 0 for a missing number
  DefaultMax,    \* DefaultUserUploadQuotaBytes
  MaxAsked,      \* bound: requests for a higher limit
  MaxFaults      \* bound: restarts, failed reads and failed releases

ASSUME SizesAssumption == Sizes \subseteq Nat

ASSUME LimitsAssumption == Limits \subseteq Nat

ASSUME DefaultAssumption == DefaultMax \in Nat \ {0}

VARIABLES
  quota,      \* user_upload_quotas: user |-> [max, used]; the default when no row
  asked,      \* user_quota_requests: a sequence of [user, max, status]
  slot,       \* what each slot is doing
  committed,  \* history: bytes of each user's uploads that were kept
  faults      \* how many faults have happened (bound only)

vars == <<quota, asked, slot, committed, faults>>

Idle == [pc |-> "idle"]

Uploading(s) == slot[s].pc = "upload"

Init ==
  /\ quota = [u \in Users |-> [max |-> DefaultMax, used |-> 0]]
  /\ asked = <<>>
  /\ slot = [s \in Slots |-> Idle]
  /\ committed = [u \in Users |-> 0]
  /\ faults = 0

-----------------------------------------------------------------------------
(* Uploads.                                                                *)

\* ReserveUserUploadQuota: refused, and nothing changes, when the bytes do not fit.
\* An empty upload reserves nothing.
Reserve(s, u, n) ==
  /\ slot[s] = Idle
  /\ n = 0 \/ n <= quota[u].max - quota[u].used
  /\ quota' = [quota EXCEPT ![u].used = @ + n]
  /\ slot' = [slot EXCEPT ![s] = [pc |-> "upload", user |-> u, bytes |-> n]]
  /\ UNCHANGED <<asked, committed, faults>>

\* ReleaseUserUploadQuota takes back as much as there is.
Released(used, n) == IF used > n THEN used - n ELSE 0

\* Broken variant: the deferred release also runs for an upload that was kept.
KeepAndRelease(s) ==
  /\ Uploading(s)
  /\ LET u == slot[s].user IN
       /\ committed' = [committed EXCEPT ![u] = @ + slot[s].bytes]
       /\ quota' = [quota EXCEPT ![u].used = Released(@, slot[s].bytes)]
  /\ slot' = [slot EXCEPT ![s] = Idle]
  /\ UNCHANGED <<asked, faults>>

\* quotaCommitted: the object, the record or the queued deployment stays counted,
\* even if a later step of the handler or the deployment's job fails.
Keep(s) ==
  /\ Uploading(s)
  /\ committed' = [committed EXCEPT ![slot[s].user] = @ + slot[s].bytes]
  /\ slot' = [slot EXCEPT ![s] = Idle]
  /\ UNCHANGED <<quota, asked, faults>>

\* The upload fails, or its client goes away: the release is not cancelled with it.
Release(s) ==
  /\ Uploading(s)
  /\ quota' = [quota EXCEPT ![slot[s].user].used = Released(@, slot[s].bytes)]
  /\ slot' = [slot EXCEPT ![s] = Idle]
  /\ UNCHANGED <<asked, committed, faults>>

-----------------------------------------------------------------------------
(* Limits.                                                                 *)

\* handleCreateQuotaRequest reads the limit, then inserts a row: not one transaction.
CheckRequest(s, u, m) ==
  /\ slot[s] = Idle
  /\ m > quota[u].max
  /\ slot' = [slot EXCEPT ![s] = [pc |-> "ask", user |-> u, max |-> m]]
  /\ UNCHANGED <<quota, asked, committed, faults>>

CreateRequest(s) ==
  /\ slot[s].pc = "ask"
  /\ Len(asked) < MaxAsked
  /\ asked' = Append(asked, [user |-> slot[s].user, max |-> slot[s].max,
                             status |-> "pending"])
  /\ slot' = [slot EXCEPT ![s] = Idle]
  /\ UNCHANGED <<quota, committed, faults>>

\* A limit may be lowered, but not below what is used.
Allowed(u, m) == m >= quota[u].used

\* Broken variant: a missing number is taken for a limit.
SetQuotaUnvalidated(u, m) ==
  /\ Allowed(u, m)
  /\ quota' = [quota EXCEPT ![u].max = m]
  /\ UNCHANGED <<asked, slot, committed, faults>>

\* SetUserUploadQuota, behind handleSetUserQuota.
SetQuota(u, m) ==
  /\ m > 0 /\ Allowed(u, m)
  /\ quota' = [quota EXCEPT ![u].max = m]
  /\ UNCHANGED <<asked, slot, committed, faults>>

\* What is approved: the administrator's number, or the one that was asked for.
Granted(i, m) == IF m = 0 THEN asked[i].max ELSE m

\* Broken variants: the bytes in use are not looked at; a request can be approved
\* although it was decided before.
ApproveUnchecked(i, m) ==
  /\ asked[i].status = "pending"
  /\ quota' = [quota EXCEPT ![asked[i].user].max = Granted(i, m)]
  /\ asked' = [asked EXCEPT ![i].status = "approved"]
  /\ UNCHANGED <<slot, committed, faults>>

ApproveAgain(i, m) ==
  /\ Allowed(asked[i].user, Granted(i, m))
  /\ quota' = [quota EXCEPT ![asked[i].user].max = Granted(i, m)]
  /\ asked' = [asked EXCEPT ![i].status = "approved"]
  /\ UNCHANGED <<slot, committed, faults>>

\* DecideUserQuotaRequest: the request and the limit change in one transaction.
Approve(i, m) ==
  /\ asked[i].status = "pending"
  /\ Allowed(asked[i].user, Granted(i, m))
  /\ quota' = [quota EXCEPT ![asked[i].user].max = Granted(i, m)]
  /\ asked' = [asked EXCEPT ![i].status = "approved"]
  /\ UNCHANGED <<slot, committed, faults>>

Reject(i) ==
  /\ asked[i].status = "pending"
  /\ asked' = [asked EXCEPT ![i].status = "rejected"]
  /\ UNCHANGED <<quota, slot, committed, faults>>

-----------------------------------------------------------------------------
(* Faults.                                                                 *)

\* The reservation commits, then reading it back fails, perhaps because the client
\* went away: the upload is refused and the bytes stay counted.
ReserveReadBackFails(s, u, n) ==
  /\ faults < MaxFaults
  /\ faults' = faults + 1
  /\ slot[s] = Idle
  /\ n > 0 /\ n <= quota[u].max - quota[u].used
  /\ quota' = [quota EXCEPT ![u].used = @ + n]
  /\ UNCHANGED <<asked, slot, committed>>

\* A release that fails is logged; nothing tries again, and the bytes stay counted.
ReleaseFails(s) ==
  /\ faults < MaxFaults
  /\ faults' = faults + 1
  /\ Uploading(s)
  /\ slot' = [slot EXCEPT ![s] = Idle]
  /\ UNCHANGED <<quota, asked, committed>>

\* The process stops and starts again: what uploads had reserved stays counted.
Restart ==
  /\ faults < MaxFaults
  /\ faults' = faults + 1
  /\ slot' = [s \in Slots |-> Idle]
  /\ UNCHANGED <<quota, asked, committed>>

-----------------------------------------------------------------------------
Upload(s) ==
  \/ \E u \in Users, n \in Sizes : Reserve(s, u, n) \/ ReserveReadBackFails(s, u, n)
  \/ Keep(s) \/ Release(s) \/ ReleaseFails(s)

Ask(s) == (\E u \in Users, m \in Limits : CheckRequest(s, u, m)) \/ CreateRequest(s)

Decide(i) == (\E m \in Limits : Approve(i, m)) \/ Reject(i)

Next ==
  \/ \E s \in Slots : Upload(s) \/ Ask(s)
  \/ \E u \in Users, m \in Limits : SetQuota(u, m)
  \/ \E i \in 1..Len(asked) : Decide(i)
  \/ Restart

Spec == Init /\ [][Next]_vars

-----------------------------------------------------------------------------
(* Properties.                                                             *)

Quota == [max : Nat \ {0}, used : Nat]

RequestStatuses == {"pending", "approved", "rejected"}

QuotaRequest == [user : Users, max : Nat \ {0}, status : RequestStatuses]

SlotState ==
  {Idle} \cup [pc : {"upload"}, user : Users, bytes : Nat]
         \cup [pc : {"ask"}, user : Users, max : Nat \ {0}]

TypeOK ==
  /\ quota \in [Users -> Quota]
  /\ asked \in Seq(QuotaRequest)
  /\ slot \in [Slots -> SlotState]
  /\ committed \in [Users -> Nat]
  /\ faults \in Nat

\* Nobody is over the limit, however many uploads of one user run at once, and
\* however limits are raised and lowered, and requests decided late, between a
\* reservation and its end.  So `max - used` in the next check is never negative.
WithinQuota == \A u \in Users : quota[u].used <= quota[u].max

\* The bytes of u that uploads in progress have reserved.
Reserved(u) ==
  MapThenSumSet(LAMBDA s : slot[s].bytes,
                {s \in Slots : Uploading(s) /\ slot[s].user = u})

\* Every byte counted against a user is an upload that was kept or one in progress:
\* a byte is released at most once, an upload that was kept is never released, and
\* a release never finds less than it takes back.  A fault may leave bytes counted
\* for nothing, but never leaves any uncounted.
Accounted ==
  \A u \in Users :
    /\ quota[u].used >= committed[u] + Reserved(u)
    /\ faults = 0 => quota[u].used = committed[u] + Reserved(u)

KeepsDecisions ==
  \A i \in 1..Len(asked) :
    /\ i \in 1..Len(asked)'
    /\ asked'[i].user = asked[i].user /\ asked'[i].max = asked[i].max
    /\ asked[i].status # "pending" => asked'[i] = asked[i]

\* A request is decided once: of an approval and a rejection that race, one is
\* refused, and a decided request does not change again.
DecidedOnce == [][KeepsDecisions]_vars
=============================================================================
