------------------------- MODULE UploadQuota_proofs -------------------------
(***************************************************************************)
(* Proofs about UploadQuota, for every set of users and slots, every set   *)
(* of sizes and limits, and every default.  The inductive invariant is the *)
(* type invariant with WithinQuota: that a reservation fits is what keeps  *)
(* `max - used` a natural number, and the other way round.  AInv adds what *)
(* is counted: every step changes the bytes of one slot, and with them the *)
(* sum over the slots, as it changes what the user has used.               *)
(***************************************************************************)
EXTENDS UploadQuota, DataTheorems, TLAPS

Inv == TypeOK /\ WithinQuota

\* A release takes back at most what is there.
LEMMA ReleasedBound ==
  ASSUME NEW used \in Nat, NEW n \in Nat
  PROVE  Released(used, n) \in Nat /\ Released(used, n) <= used
BY DEF Released

\* Changing one user's limit to one that is not below what is used.
LEMMA LimitChange ==
  ASSUME Inv, NEW u \in Users, NEW m \in Nat \ {0}, Allowed(u, m),
         quota' = [quota EXCEPT ![u].max = m]
  PROVE  /\ quota' \in [Users -> Quota]
         /\ WithinQuota'
BY DEF Inv, TypeOK, WithinQuota, Allowed, Quota

\* Changing what one user has used to something that is within the limit.
LEMMA UseChange ==
  ASSUME Inv, NEW u \in Users, NEW n \in Nat, n <= quota[u].max,
         quota' = [quota EXCEPT ![u].used = n]
  PROVE  /\ quota' \in [Users -> Quota]
         /\ WithinQuota'
BY DEF Inv, TypeOK, WithinQuota, Quota

\* What an upload in progress holds.
LEMMA UploadFields ==
  ASSUME TypeOK, NEW s \in Slots, Uploading(s)
  PROVE  slot[s].user \in Users /\ slot[s].bytes \in Nat
BY DEF TypeOK, SlotState, Idle, Uploading

\* What a request about to be inserted holds.
LEMMA AskFields ==
  ASSUME TypeOK, NEW s \in Slots, slot[s].pc = "ask"
  PROVE  slot[s].user \in Users /\ slot[s].max \in Nat \ {0}
BY DEF TypeOK, SlotState, Idle

\* At first nobody has used anything.
LEMMA InitInv == Init => Inv
<1> SUFFICES ASSUME Init PROVE Inv
  OBVIOUS
<1>1. quota \in [Users -> Quota] /\ WithinQuota
  BY DefaultAssumption DEF Init, Quota, WithinQuota
<1>2. slot \in [Slots -> SlotState]
  BY DEF Init, SlotState
<1>3. asked \in Seq(QuotaRequest)
  BY DEF Init
<1> QED
  BY <1>1, <1>2, <1>3 DEF Init, Inv, TypeOK

\* Reserving bytes that fit.
LEMMA Reservation ==
  ASSUME Inv, NEW u \in Users, NEW n \in Nat,
         n = 0 \/ n <= quota[u].max - quota[u].used,
         quota' = [quota EXCEPT ![u].used = quota[u].used + n]
  PROVE  /\ quota' \in [Users -> Quota]
         /\ WithinQuota'
<1>1. quota[u].used \in Nat /\ quota[u].max \in Nat /\ quota[u].used <= quota[u].max
  BY DEF Inv, TypeOK, WithinQuota, Quota
<1>2. quota[u].used + n \in Nat /\ quota[u].used + n <= quota[u].max
  BY <1>1
<1> QED
  BY <1>2, UseChange

\* The steps of an upload.
LEMMA UploadInv ==
  ASSUME Inv, NEW s \in Slots, Upload(s)
  PROVE  Inv'
<1> USE DEF Inv
<1>1. ASSUME NEW u \in Users, NEW n \in Sizes, Reserve(s, u, n) PROVE Inv'
  <2>1. n \in Nat /\ (n = 0 \/ n <= quota[u].max - quota[u].used)
    BY <1>1, SizesAssumption DEF Reserve
  <2>2. quota' = [quota EXCEPT ![u].used = quota[u].used + n]
    BY <1>1 DEF Reserve, TypeOK
  <2>3. quota' \in [Users -> Quota] /\ WithinQuota'
    BY <2>1, <2>2, Reservation
  <2>4. slot' \in [Slots -> SlotState]
    BY <1>1, <2>1 DEF Reserve, TypeOK, SlotState
  <2> QED
    BY <1>1, <2>3, <2>4 DEF Reserve, TypeOK
<1>2. ASSUME Keep(s) PROVE Inv'
  <2>1. slot' \in [Slots -> SlotState]
    BY <1>2 DEF Keep, TypeOK, SlotState
  <2>2. committed' \in [Users -> Nat]
    BY <1>2, UploadFields DEF Keep, TypeOK
  <2> QED
    BY <1>2, <2>1, <2>2 DEF Keep, TypeOK, WithinQuota
<1>3. ASSUME Release(s) PROVE Inv'
  <2> DEFINE u == slot[s].user
             n == Released(quota[u].used, slot[s].bytes)
  <2>1. Uploading(s) /\ u \in Users /\ slot[s].bytes \in Nat
    BY <1>3, UploadFields DEF Release
  <2>2. quota[u].used \in Nat /\ quota[u].max \in Nat /\ quota[u].used <= quota[u].max
    BY <2>1 DEF TypeOK, WithinQuota, Quota
  <2>3. n \in Nat /\ n <= quota[u].max
    <3>1. n \in Nat /\ n <= quota[u].used
      BY <2>1, <2>2, ReleasedBound
    <3> HIDE DEF u, n
    <3> QED
      BY <2>2, <3>1
  <2>4. quota' = [quota EXCEPT ![u].used = n]
    BY <1>3, <2>1 DEF Release, TypeOK
  <2>5. quota' \in [Users -> Quota] /\ WithinQuota'
    <3> HIDE DEF u, n
    <3> QED
      BY <2>1, <2>3, <2>4, UseChange
  <2>6. slot' \in [Slots -> SlotState]
    BY <1>3 DEF Release, TypeOK, SlotState
  <2> QED
    BY <1>3, <2>5, <2>6 DEF Release, TypeOK
<1>4. ASSUME ReleaseFails(s) PROVE Inv'
  <2>1. slot' \in [Slots -> SlotState]
    BY <1>4 DEF ReleaseFails, TypeOK, SlotState
  <2> QED
    BY <1>4, <2>1 DEF ReleaseFails, TypeOK, WithinQuota
<1>5. ASSUME NEW u \in Users, NEW n \in Sizes, ReserveReadBackFails(s, u, n) PROVE Inv'
  <2>1. n \in Nat /\ n <= quota[u].max - quota[u].used
    BY <1>5, SizesAssumption DEF ReserveReadBackFails
  <2>2. quota' = [quota EXCEPT ![u].used = quota[u].used + n]
    BY <1>5 DEF ReserveReadBackFails, TypeOK
  <2>3. quota' \in [Users -> Quota] /\ WithinQuota'
    BY <2>1, <2>2, Reservation
  <2> QED
    BY <1>5, <2>3 DEF ReserveReadBackFails, TypeOK
<1> QED
  BY <1>1, <1>2, <1>3, <1>4, <1>5 DEF Upload

\* Asking for a higher limit changes no quota.
LEMMA AskInv ==
  ASSUME Inv, NEW s \in Slots, Ask(s)
  PROVE  Inv'
<1> USE DEF Inv
<1>1. ASSUME NEW u \in Users, NEW m \in Limits, CheckRequest(s, u, m) PROVE Inv'
  <2>1. m \in Nat \ {0}
    BY <1>1, LimitsAssumption DEF CheckRequest, TypeOK, Quota
  <2>2. slot' \in [Slots -> SlotState]
    BY <1>1, <2>1 DEF CheckRequest, TypeOK, SlotState
  <2> QED
    BY <1>1, <2>2 DEF CheckRequest, TypeOK, WithinQuota
<1>2. ASSUME CreateRequest(s) PROVE Inv'
  <2>1. [user |-> slot[s].user, max |-> slot[s].max, status |-> "pending"] \in QuotaRequest
    BY <1>2, AskFields DEF CreateRequest, QuotaRequest, RequestStatuses
  <2>2. asked' \in Seq(QuotaRequest)
    BY <1>2, <2>1 DEF CreateRequest, TypeOK
  <2>3. slot' \in [Slots -> SlotState]
    BY <1>2 DEF CreateRequest, TypeOK, SlotState
  <2> QED
    BY <1>2, <2>2, <2>3 DEF CreateRequest, TypeOK, WithinQuota
<1> QED
  BY <1>1, <1>2 DEF Ask

\* A decision keeps the request's user and limit.
LEMMA DecidedRow ==
  ASSUME TypeOK, NEW i \in 1..Len(asked), NEW status \in RequestStatuses
  PROVE  [asked EXCEPT ![i].status = status] \in Seq(QuotaRequest)
<1>1. asked[i] \in QuotaRequest
  BY DEF TypeOK
<1>2. [asked[i] EXCEPT !.status = status] \in QuotaRequest
  BY <1>1 DEF QuotaRequest
<1> QED
  BY <1>2 DEF TypeOK

\* A decision changes the limit, or nothing but the request.
LEMMA DecideInv ==
  ASSUME Inv, NEW i \in 1..Len(asked), Decide(i)
  PROVE  Inv'
<1> USE DEF Inv
<1>1. asked[i] \in QuotaRequest
  BY DEF TypeOK
<1>2. ASSUME NEW m \in Limits, Approve(i, m) PROVE Inv'
  <2>1. Granted(i, m) \in Nat \ {0} /\ asked[i].user \in Users
    BY <1>1, LimitsAssumption DEF Granted, QuotaRequest
  <2>2. quota' \in [Users -> Quota] /\ WithinQuota'
    BY <1>2, <2>1, LimitChange DEF Approve
  <2>3. asked' \in Seq(QuotaRequest)
    BY <1>2, DecidedRow DEF Approve, RequestStatuses
  <2> QED
    BY <1>2, <2>2, <2>3 DEF Approve, TypeOK
<1>3. ASSUME Reject(i) PROVE Inv'
  <2>1. asked' \in Seq(QuotaRequest)
    BY <1>3, DecidedRow DEF Reject, RequestStatuses
  <2> QED
    BY <1>3, <2>1 DEF Reject, TypeOK, WithinQuota
<1> QED
  BY <1>2, <1>3 DEF Decide

\* Every step keeps it.
LEMMA NextInv == Inv /\ [Next]_vars => Inv'
<1> SUFFICES ASSUME Inv, [Next]_vars PROVE Inv'
  OBVIOUS
<1>1. ASSUME NEW s \in Slots, Upload(s) \/ Ask(s) PROVE Inv'
  BY <1>1, UploadInv, AskInv
<1>2. ASSUME NEW u \in Users, NEW m \in Limits, SetQuota(u, m) PROVE Inv'
  <2>1. m \in Nat \ {0}
    BY <1>2, LimitsAssumption DEF SetQuota
  <2>2. Allowed(u, m) /\ quota' = [quota EXCEPT ![u].max = m]
    BY <1>2 DEF SetQuota
  <2>3. quota' \in [Users -> Quota] /\ WithinQuota'
    BY <2>1, <2>2, LimitChange
  <2> QED
    BY <1>2, <2>3 DEF SetQuota, Inv, TypeOK
<1>3. ASSUME NEW i \in 1..Len(asked), Decide(i) PROVE Inv'
  BY <1>3, DecideInv
<1>4. CASE Restart
  <2>1. slot' \in [Slots -> SlotState]
    BY <1>4 DEF Restart, SlotState
  <2> QED
    BY <1>4, <2>1 DEF Restart, Inv, TypeOK, WithinQuota
<1>5. CASE UNCHANGED vars
  BY <1>5 DEF vars, Inv, TypeOK, WithinQuota, SlotState, Quota, QuotaRequest
<1> QED
  BY <1>1, <1>2, <1>3, <1>4, <1>5 DEF Next

-----------------------------------------------------------------------------
\* Quotas, requests and slots always have the shapes the tables allow: in
\* particular a limit is positive and no one has used less than nothing.
THEOREM TypeCorrect == Spec => []TypeOK
<1>1. Inv => TypeOK
  BY DEF Inv
<1> QED
  BY InitInv, NextInv, <1>1, PTL DEF Spec

\* Nobody's uploads ever exceed the limit, for any number of uploads at a time.
THEOREM QuotaHolds == Spec => []WithinQuota
<1>1. Inv => WithinQuota
  BY DEF Inv
<1> QED
  BY InitInv, NextInv, <1>1, PTL DEF Spec

\* A quota request is decided at most once.
THEOREM DecisionsStand == Spec => DecidedOnce
<1>1. ASSUME TypeOK, [Next]_vars PROVE [KeepsDecisions]_vars
  <2>1. ASSUME asked' = asked PROVE KeepsDecisions
    BY <2>1 DEF KeepsDecisions
  <2>2. ASSUME NEW s \in Slots, CreateRequest(s) PROVE KeepsDecisions
    BY <1>1, <2>2 DEF CreateRequest, KeepsDecisions, TypeOK
  <2>3. ASSUME NEW i \in 1..Len(asked), asked[i].status = "pending",
               NEW status \in RequestStatuses,
               asked' = [asked EXCEPT ![i].status = status]
        PROVE  KeepsDecisions
    BY <1>1, <2>3 DEF KeepsDecisions, TypeOK, QuotaRequest
  <2>4. ASSUME NEW s \in Slots, Upload(s) PROVE asked' = asked
    BY <2>4 DEF Upload, Reserve, ReserveReadBackFails, Keep, Release, ReleaseFails
  <2>5. ASSUME NEW s \in Slots, Ask(s) PROVE asked' = asked \/ CreateRequest(s)
    BY <2>5 DEF Ask, CheckRequest
  <2>6. ASSUME NEW i \in 1..Len(asked), Decide(i) PROVE KeepsDecisions
    BY <2>3, <2>6 DEF Decide, Approve, Reject, RequestStatuses
  <2>7. ASSUME (\E u \in Users, m \in Limits : SetQuota(u, m)) \/ Restart
        PROVE  asked' = asked
    BY <2>7 DEF SetQuota, Restart
  <2> QED
    BY <1>1, <2>1, <2>2, <2>4, <2>5, <2>6, <2>7 DEF Next
<1> QED
  BY TypeCorrect, <1>1, PTL DEF Spec, DecidedOnce

-----------------------------------------------------------------------------
(* Every byte is accounted for.  The sum over the uploads in progress is   *)
(* over a finite set, whatever Slots is: each step starts one at most.     *)

\* The slots of w that upload for v, and what a set of them holds.
Of(w, v) == {s \in Slots : w[s].pc = "upload" /\ w[s].user = v}

Held(w, T) == MapThenSumSet(LAMBDA s : w[s].bytes, T)

\* What one slot's state x contributes to v's bytes.
Share(x, v) == IF x.pc = "upload" /\ x.user = v THEN x.bytes ELSE 0

Finite(w) == \A v \in Users : IsFiniteSet(Of(w, v))

AInv == Inv /\ Finite(slot) /\ Accounted

\* The sum, as the sum of a function.
LEMMA HeldTotal ==
  ASSUME NEW w, NEW T, IsFiniteSet(T)
  PROVE  Held(w, T) = Total([s \in T |-> w[s].bytes], T)
<1> DEFINE f == [s \in T |-> w[s].bytes]
           sum == CHOOSE iter : iter = [S \in SUBSET T |->
                    IF S = {} THEN 0
                    ELSE LET x == CHOOSE x \in S : TRUE IN w[x].bytes + iter[S \ {x}]]
<1>1. PICK g : Adds(g, f, T) /\ Total(f, T) = g[T]
  <2> HIDE DEF f
  <2> QED BY TotalAdds
<1>2. g = [S \in SUBSET T |->
             IF S = {} THEN 0 ELSE w[One(S)].bytes + g[S \ {One(S)}]]
  <2>1. \A S \in SUBSET T : S # {} => One(S) \in T
    BY DEF One
  <2>2. \A S \in SUBSET T : S # {} => f[One(S)] = w[One(S)].bytes
    BY <2>1
  <2>3. g = [S \in SUBSET T |-> IF S = {} THEN 0 ELSE f[One(S)] + g[S \ {One(S)}]]
    BY <1>1 DEF Adds
  <2> HIDE DEF f
  <2> QED BY <2>2, <2>3
<1>3. Held(w, T) = sum[T]
  BY DEF Held, MapThenSumSet, MapThenFoldSet
<1>4. sum = [S \in SUBSET T |->
               IF S = {} THEN 0 ELSE w[One(S)].bytes + sum[S \ {One(S)}]]
  BY <1>2 DEF One
<1> HIDE DEF sum
<1>5. Adds(sum, f, T)
  <2>1. \A S \in SUBSET T : S # {} => One(S) \in T
    BY DEF One
  <2>2. \A S \in SUBSET T : S # {} => f[One(S)] = w[One(S)].bytes
    BY <2>1
  <2> HIDE DEF f
  <2> QED BY <1>4, <2>2 DEF Adds
<1>6. sum[T] = g[T]
  <2> HIDE DEF f
  <2> QED BY <1>1, <1>5, AddsAgree
<1> QED BY <1>1, <1>3, <1>6

\* Sums of bytes: nothing holds nothing, a slot may be counted apart from the rest,
\* and slots that have not changed hold what they held.
LEMMA HeldParts ==
  ASSUME NEW w, NEW T, IsFiniteSet(T), \A s \in T : w[s].bytes \in Nat
  PROVE  /\ T = {} => Held(w, T) = 0
         /\ Held(w, T) \in Nat
         /\ \A s \in T : Held(w, T) = w[s].bytes + Held(w, T \ {s})
<1> DEFINE f == [s \in T |-> w[s].bytes]
<1>1. \A s \in T : f[s] \in Nat /\ f[s] = w[s].bytes
  OBVIOUS
<1>2. Held(w, T) = Total(f, T)
  BY HeldTotal
<1>3. ASSUME NEW s \in T PROVE Held(w, T \ {s}) = Total(f, T \ {s})
  <2> DEFINE R == T \ {s}
             e == [x \in R |-> w[x].bytes]
  <2>1. IsFiniteSet(R)
    BY FS_Subset
  <2>2. Held(w, R) = Total(e, R)
    <3> HIDE DEF R
    <3> QED BY <2>1, HeldTotal
  <2>3. \A x \in R : e[x] = f[x]
    OBVIOUS
  <2>4. Total(e, R) = Total(f, R)
    <3> HIDE DEF R, e, f
    <3> QED BY <2>1, <2>3, TotalSame
  <2> QED BY <2>2, <2>4
<1> HIDE DEF f
<1>4. /\ T = {} => Total(f, T) = 0
      /\ Total(f, T) \in Nat
      /\ \A x \in T : Total(f, T) = f[x] + Total(f, T \ {x})
  BY <1>1, TotalParts
<1> QED BY <1>1, <1>2, <1>3, <1>4

\* Uploads that hold the same have the same sum.
LEMMA HeldSame ==
  ASSUME NEW w, NEW z, NEW T, IsFiniteSet(T), \A s \in T : w[s] = z[s]
  PROVE  Held(w, T) = Held(z, T)
<1> DEFINE f == [s \in T |-> w[s].bytes]
           e == [s \in T |-> z[s].bytes]
<1>1. f = e
  OBVIOUS
<1> QED BY <1>1, HeldTotal

\* What a user's uploads hold, one slot apart.
LEMMA SlotApart ==
  ASSUME NEW w \in [Slots -> SlotState], Finite(w), NEW s \in Slots, NEW v \in Users
  PROVE  /\ Held(w, Of(w, v) \ {s}) \in Nat
         /\ Held(w, Of(w, v)) = Share(w[s], v) + Held(w, Of(w, v) \ {s})
         /\ Share(w[s], v) \in Nat
<1> DEFINE T == Of(w, v)
<1>1. \A x \in T : w[x].bytes \in Nat
  BY DEF Of, SlotState, Idle
<1>2. IsFiniteSet(T) /\ IsFiniteSet(T \ {s})
  BY FS_Subset DEF Finite
<1>3. s \in T <=> w[s].pc = "upload" /\ w[s].user = v
  BY DEF Of
<1> HIDE DEF T
<1>4. Held(w, T) \in Nat /\ Held(w, T \ {s}) \in Nat
  BY <1>1, <1>2, HeldParts
<1>5. CASE s \in T
  <2>1. Held(w, T) = w[s].bytes + Held(w, T \ {s})
    BY <1>1, <1>2, <1>5, HeldParts
  <2>2. Share(w[s], v) = w[s].bytes
    BY <1>3, <1>5 DEF Share
  <2> QED BY <1>1, <1>4, <1>5, <2>1, <2>2 DEF T
<1>6. CASE s \notin T
  <2>1. T \ {s} = T
    BY <1>6
  <2>2. Share(w[s], v) = 0
    BY <1>3, <1>6 DEF Share
  <2> QED BY <1>4, <2>1, <2>2 DEF T
<1> QED BY <1>5, <1>6

\* From w to z, v's bytes change by what replacing y by x changes.
Moves(w, z, y, x, v) ==
  \E rest \in Nat :
    /\ Share(y, v) \in Nat /\ Share(x, v) \in Nat
    /\ Held(w, Of(w, v)) = Share(y, v) + rest
    /\ Held(z, Of(z, v)) = Share(x, v) + rest

\* Changing one slot changes its share only.
LEMMA SlotChange ==
  ASSUME NEW w \in [Slots -> SlotState], Finite(w), NEW s \in Slots, NEW x \in SlotState,
         NEW z, z = [w EXCEPT ![s] = x]
  PROVE  /\ Finite(z)
         /\ \A v \in Users : Moves(w, z, w[s], x, v)
<1>1. z \in [Slots -> SlotState] /\ z[s] = x /\ \A t \in Slots \ {s} : z[t] = w[t]
  OBVIOUS
<1>2. \A v \in Users : Of(z, v) \ {s} = Of(w, v) \ {s}
  BY <1>1 DEF Of
<1>3. Finite(z)
  <2> SUFFICES ASSUME NEW v \in Users PROVE IsFiniteSet(Of(z, v))
    BY DEF Finite
  <2>1. IsFiniteSet(Of(w, v) \cup {s})
    BY FS_AddElement DEF Finite
  <2>2. Of(z, v) \subseteq Of(w, v) \cup {s}
    BY <1>2
  <2> QED BY <2>1, <2>2, FS_Subset
<1>4. ASSUME NEW v \in Users
      PROVE  Moves(w, z, w[s], x, v)
  <2> DEFINE R == Of(w, v) \ {s}
  <2>1. /\ Held(w, R) \in Nat
        /\ Held(w, Of(w, v)) = Share(w[s], v) + Held(w, R)
        /\ Share(w[s], v) \in Nat
    BY SlotApart
  <2>2. /\ Held(z, Of(z, v)) = Share(x, v) + Held(z, Of(z, v) \ {s})
        /\ Share(x, v) \in Nat
    BY <1>1, <1>3, SlotApart
  <2>3. Held(z, R) = Held(w, R)
    <3>1. \A t \in R : z[t] = w[t]
      BY <1>1 DEF Of
    <3>2. IsFiniteSet(R)
      BY FS_Subset DEF Finite
    <3> HIDE DEF R
    <3> QED BY ONLY <3>1, <3>2, HeldSame
  <2>4. Held(z, Of(z, v)) = Share(x, v) + Held(w, R)
    BY <1>2, <2>2, <2>3
  <2> HIDE DEF R
  <2> QED BY <2>1, <2>2, <2>4 DEF Moves
<1> QED BY <1>3, <1>4

\* No slot uploads: nothing is held.
LEMMA AllIdle ==
  ASSUME NEW w, \A s \in Slots : w[s] = Idle
  PROVE  Finite(w) /\ \A v \in Users : Held(w, Of(w, v)) = 0
<1>1. \A v : Of(w, v) = {}
  BY DEF Of, Idle
<1>2. Held(w, {}) = 0
  BY FS_EmptySet, HeldParts
<1> QED BY <1>1, <1>2, FS_EmptySet DEF Finite

\* What a user has reserved, as the sum over those slots.
LEMMA ReservedHeld ==
  /\ \A v \in Users : Reserved(v) = Held(slot, Of(slot, v))
  /\ (\A v \in Users : Reserved(v) = Held(slot, Of(slot, v)))'
BY DEF Reserved, Held, Of, Uploading

\* The account of a user: what is counted without a kept or a running upload.
Spare(v) == quota[v].used - committed[v]

\* Accounts stay right when one slot changes and what a user has spare changes by as
\* much as the slot's share does, or, after a fault, by no less.
LEMMA AccountedStep ==
  ASSUME AInv, Inv', NEW s \in Slots, NEW x \in SlotState,
         slot' = [slot EXCEPT ![s] = x],
         \A v \in Users :
            /\ Spare(v)' - Share(x, v) >= Spare(v) - Share(slot[s], v)
            /\ faults' = 0 => /\ faults = 0
                              /\ Spare(v)' - Share(x, v) = Spare(v) - Share(slot[s], v)
  PROVE  AInv'
<1>1. slot \in [Slots -> SlotState] /\ Finite(slot) /\ Accounted
  BY DEF AInv, Inv, TypeOK
<1>2. /\ Finite(slot')
      /\ \A v \in Users : Moves(slot, slot', slot[s], x, v)
  <2>1. PICK z : z = slot'
    OBVIOUS
  <2>2. z = [slot EXCEPT ![s] = x]
    BY <2>1
  <2>3. Finite(z) /\ \A v \in Users : Moves(slot, z, slot[s], x, v)
    BY <1>1, <2>2, SlotChange
  <2> QED BY ONLY <2>1, <2>3
<1>3. Accounted'
  <2> SUFFICES ASSUME NEW v \in Users
               PROVE  /\ quota'[v].used >= committed'[v] + Reserved(v)'
                      /\ faults' = 0 => quota'[v].used = committed'[v] + Reserved(v)'
    BY DEF Accounted
  <2>1. PICK rest \in Nat :
            /\ Share(slot[s], v) \in Nat /\ Share(x, v) \in Nat
            /\ Reserved(v) = Share(slot[s], v) + rest
            /\ Reserved(v)' = Share(x, v) + rest
    BY <1>2, ReservedHeld DEF Moves
  <2>2. /\ quota[v].used \in Nat /\ committed[v] \in Nat
        /\ quota'[v].used \in Nat /\ committed'[v] \in Nat
    BY DEF AInv, Inv, TypeOK, Quota
  <2>3. /\ quota[v].used >= committed[v] + Reserved(v)
        /\ faults = 0 => quota[v].used = committed[v] + Reserved(v)
    BY <1>1 DEF Accounted
  <2>4. /\ quota'[v].used - committed'[v] - Share(x, v)
              >= quota[v].used - committed[v] - Share(slot[s], v)
        /\ faults' = 0 => /\ faults = 0
                          /\ quota'[v].used - committed'[v] - Share(x, v)
                                = quota[v].used - committed[v] - Share(slot[s], v)
    BY DEF Spare
  <2> QED BY <2>1, <2>2, <2>3, <2>4
<1>4. Finite(slot)'
  BY <1>2
<1> QED BY <1>3, <1>4 DEF AInv

\* What a user has spare changes by as much as the slot's share does.
Exact(s, x) ==
  \A v \in Users : /\ Spare(v)' - Share(x, v) \in Int
                   /\ Spare(v)' - Share(x, v) = Spare(v) - Share(slot[s], v)

\* A step that changes both sides by as much keeps the account.
LEMMA ExactStep ==
  ASSUME AInv, Inv', NEW s \in Slots, NEW x \in SlotState,
         slot' = [slot EXCEPT ![s] = x], faults' = faults, Exact(s, x)
  PROVE  AInv'
<1>1. \A v \in Users :
         /\ Spare(v)' - Share(x, v) >= Spare(v) - Share(slot[s], v)
         /\ faults' = 0 => /\ faults = 0
                           /\ Spare(v)' - Share(x, v) = Spare(v) - Share(slot[s], v)
  <2> TAKE v \in Users
  <2> DEFINE a == Spare(v)' - Share(x, v)
             b == Spare(v) - Share(slot[s], v)
  <2>1. a \in Int /\ a = b
    BY DEF Exact
  <2> HIDE DEF a, b
  <2>2. a >= b /\ a = b
    BY <2>1
  <2> QED BY <2>2 DEF a, b
<1> QED BY <1>1, AccountedStep

\* Nor do accounts change when no slot and no account does.
LEMMA AccountedSame ==
  ASSUME AInv, Inv', slot' = slot, committed' = committed, faults' = faults,
         \A v \in Users : quota'[v].used = quota[v].used
  PROVE  AInv'
<1>1. \A v \in Users : Reserved(v)' = Reserved(v)
  BY ReservedHeld
<1> QED BY <1>1 DEF AInv, Finite, Accounted

\* At first nothing is counted and nothing is held.
LEMMA InitAInv == Init => AInv
<1> SUFFICES ASSUME Init PROVE AInv
  OBVIOUS
<1>1. Inv
  BY InitInv
<1>2. Finite(slot) /\ \A v \in Users : Held(slot, Of(slot, v)) = 0
  BY AllIdle DEF Init
<1>3. Accounted
  BY <1>2, ReservedHeld DEF Init, Accounted
<1> QED BY <1>1, <1>2, <1>3 DEF AInv

\* The shares of a slot that is idle, and of one that uploads.
LEMMA Shares ==
  ASSUME NEW v, NEW u, NEW n
  PROVE  /\ Share(Idle, v) = 0
         /\ Share([pc |-> "upload", user |-> u, bytes |-> n], v)
               = IF v = u THEN n ELSE 0
BY DEF Share, Idle

\* What an upload reserves, keeps or gives back counts on both sides.
LEMMA UploadAInv ==
  ASSUME AInv, Inv', NEW s \in Slots, Upload(s)
  PROVE  AInv'
<1>0. Inv /\ TypeOK /\ Idle \in SlotState
  BY DEF AInv, Inv, SlotState
<1>a. \A v \in Users : /\ quota[v].used \in Nat /\ committed[v] \in Nat
                       /\ quota'[v].used \in Nat /\ committed'[v] \in Nat
  BY DEF AInv, Inv, TypeOK, Quota
<1>b. faults \in Nat
  BY <1>0 DEF TypeOK
<1>c. slot[s] \in SlotState /\ Share(Idle, Idle) = 0 /\ \A v : Share(Idle, v) = 0
  BY <1>0, Shares DEF TypeOK
<1>1. ASSUME NEW u \in Users, NEW n \in Sizes, Reserve(s, u, n) PROVE AInv'
  <2> DEFINE x == [pc |-> "upload", user |-> u, bytes |-> n]
  <2>1. n \in Nat /\ x \in SlotState
    BY <1>1, SizesAssumption DEF SlotState
  <2>2. slot' = [slot EXCEPT ![s] = x] /\ slot[s] = Idle
        /\ committed' = committed /\ faults' = faults
    BY <1>1 DEF Reserve
  <2>3. \A v \in Users : quota'[v].used = IF v = u THEN quota[v].used + n ELSE quota[v].used
    BY <1>0, <1>1 DEF Reserve, TypeOK, Quota
  <2>4. \A v \in Users : Share(x, v) = IF v = u THEN n ELSE 0
    BY Shares
  <2> HIDE DEF x
  <2>5. \A v \in Users : Spare(v)' - Share(x, v) = Spare(v) - Share(slot[s], v)
    BY <2>1, <2>2, <2>3, <2>4, <1>a, <1>c DEF Spare
  <2>6. \A v \in Users : Spare(v)' - Share(x, v) \in Int
    BY <2>1, <2>4, <1>a DEF Spare
  <2>7. Exact(s, x)
    BY <2>5, <2>6 DEF Exact
  <2> QED BY <2>1, <2>2, <2>7, ExactStep
<1>d. ASSUME Uploading(s)
      PROVE  /\ slot[s].user \in Users /\ slot[s].bytes \in Nat
             /\ \A v \in Users :
                  Share(slot[s], v) = IF v = slot[s].user THEN slot[s].bytes ELSE 0
  BY <1>0, <1>d, UploadFields DEF Share, Uploading
\* A slot's upload is in its user's account, so a release finds what it takes back.
<1>e. ASSUME Uploading(s)
      PROVE  quota[slot[s].user].used >= slot[s].bytes
  <2> DEFINE u == slot[s].user
  <2>1. u \in Users /\ slot[s].bytes \in Nat /\ Share(slot[s], u) = slot[s].bytes
    BY <1>e, <1>d
  <2>2. Held(slot, Of(slot, u)) = Share(slot[s], u) + Held(slot, Of(slot, u) \ {s})
        /\ Held(slot, Of(slot, u) \ {s}) \in Nat
    BY <2>1, <1>0, SlotApart DEF AInv, TypeOK
  <2>3. quota[u].used >= committed[u] + Held(slot, Of(slot, u))
    BY <2>1, ReservedHeld DEF AInv, Accounted
  <2> HIDE DEF u
  <2> QED BY <2>1, <2>2, <2>3, <1>a DEF u
<1>2. ASSUME Keep(s) PROVE AInv'
  <2> DEFINE u == slot[s].user
             n == slot[s].bytes
  <2>1. Uploading(s) /\ slot' = [slot EXCEPT ![s] = Idle] /\ quota' = quota
        /\ faults' = faults /\ committed' = [committed EXCEPT ![u] = committed[u] + n]
    BY <1>0, <1>2, <1>d DEF Keep, TypeOK
  <2>2. u \in Users /\ n \in Nat
        /\ \A v \in Users : Share(slot[s], v) = IF v = u THEN n ELSE 0
    BY <2>1, <1>d
  <2> HIDE DEF u, n
  <2>3. \A v \in Users : committed'[v] = IF v = u THEN committed[v] + n ELSE committed[v]
    BY <2>1, <2>2, <1>0 DEF TypeOK
  <2>4. \A v \in Users : Spare(v)' - Share(Idle, v) = Spare(v) - Share(slot[s], v)
                         /\ Spare(v)' - Share(Idle, v) \in Int
    BY <2>1, <2>2, <2>3, <1>a, <1>c DEF Spare
  <2>5. Exact(s, Idle)
    BY <2>4 DEF Exact
  <2> QED BY <2>1, <2>5, <1>0, ExactStep
<1>3. ASSUME Release(s) PROVE AInv'
  <2> DEFINE u == slot[s].user
             n == slot[s].bytes
  <2>1. Uploading(s) /\ slot' = [slot EXCEPT ![s] = Idle] /\ committed' = committed
        /\ faults' = faults
    BY <1>3 DEF Release
  <2>2. u \in Users /\ n \in Nat /\ quota[u].used >= n
        /\ \A v \in Users : Share(slot[s], v) = IF v = u THEN n ELSE 0
    BY <2>1, <1>d, <1>e
  <2>3. Released(quota[u].used, n) = quota[u].used - n
    BY <2>2, <1>a DEF Released
  <2>4. quota' = [quota EXCEPT ![u].used = Released(quota[u].used, n)]
    BY <1>3, <2>2, <1>0 DEF Release, TypeOK
  <2> HIDE DEF u, n
  <2>5. \A v \in Users : quota'[v].used = IF v = u THEN quota[v].used - n ELSE quota[v].used
    BY <2>2, <2>3, <2>4, <1>0 DEF TypeOK, Quota
  <2>6. \A v \in Users : Spare(v)' - Share(Idle, v) = Spare(v) - Share(slot[s], v)
                         /\ Spare(v)' - Share(Idle, v) \in Int
    BY <2>1, <2>2, <2>5, <1>a, <1>c DEF Spare
  <2>7. Exact(s, Idle)
    BY <2>6 DEF Exact
  <2> QED BY <2>1, <2>7, <1>0, ExactStep
<1>4. ASSUME ReleaseFails(s) PROVE AInv'
  <2>1. Uploading(s) /\ slot' = [slot EXCEPT ![s] = Idle] /\ committed' = committed
        /\ quota' = quota /\ faults' = faults + 1
    BY <1>4 DEF ReleaseFails
  <2>2. \A v \in Users : Share(slot[s], v) \in Nat
    BY <2>1, <1>d
  <2>3. \A v \in Users : Spare(v)' - Share(Idle, v) >= Spare(v) - Share(slot[s], v)
    BY <2>1, <2>2, <1>a, <1>c DEF Spare
  <2>4. faults' # 0
    BY <2>1, <1>b
  <2> QED BY <2>1, <2>3, <2>4, <1>0, AccountedStep
<1>5. ASSUME NEW u \in Users, NEW n \in Sizes, ReserveReadBackFails(s, u, n) PROVE AInv'
  <2>1. n \in Nat
    BY SizesAssumption
  <2>2. slot' = [slot EXCEPT ![s] = slot[s]] /\ slot[s] = Idle
        /\ committed' = committed /\ faults' = faults + 1
    BY <1>0, <1>5 DEF ReserveReadBackFails, TypeOK
  <2>3. \A v \in Users : quota'[v].used = IF v = u THEN quota[v].used + n ELSE quota[v].used
    BY <1>0, <1>5 DEF ReserveReadBackFails, TypeOK, Quota
  <2>4. \A v \in Users : Spare(v)' - Share(slot[s], v) >= Spare(v) - Share(slot[s], v)
    BY <2>1, <2>2, <2>3, <1>a, <1>c DEF Spare
  <2>5. faults' # 0
    BY <2>2, <1>b
  <2> QED BY <2>2, <2>4, <2>5, <1>c, AccountedStep
<1> QED
  BY <1>1, <1>2, <1>3, <1>4, <1>5 DEF Upload

\* Asking for a higher limit takes a slot that holds nothing.
LEMMA AskAInv ==
  ASSUME AInv, Inv', NEW s \in Slots, Ask(s)
  PROVE  AInv'
<1>0. Inv /\ TypeOK /\ Idle \in SlotState
  BY DEF AInv, Inv, SlotState
<1>1. \A v \in Users : Spare(v) \in Int
  BY <1>0 DEF Spare, TypeOK, Quota
<1>2. ASSUME NEW x \in SlotState, slot' = [slot EXCEPT ![s] = x],
             quota' = quota, committed' = committed, faults' = faults,
             \A v \in Users : Share(x, v) = 0 /\ Share(slot[s], v) = 0
      PROVE  AInv'
  <2>1. \A v \in Users : /\ Spare(v)' - Share(x, v) = Spare(v) - Share(slot[s], v)
                         /\ Spare(v)' - Share(x, v) \in Int
    BY <1>1, <1>2 DEF Spare
  <2>2. Exact(s, x)
    BY <2>1 DEF Exact
  <2> QED BY <1>2, <2>2, ExactStep
<1>3. ASSUME NEW u \in Users, NEW m \in Limits, CheckRequest(s, u, m) PROVE AInv'
  <2> DEFINE x == [pc |-> "ask", user |-> u, max |-> m]
  <2>1. m \in Nat \ {0}
    BY <1>0, <1>3, LimitsAssumption DEF CheckRequest, TypeOK, Quota
  <2>2. x \in SlotState /\ slot' = [slot EXCEPT ![s] = x]
        /\ quota' = quota /\ committed' = committed /\ faults' = faults
    BY <1>3, <2>1 DEF CheckRequest, SlotState
  <2>3. \A v \in Users : Share(x, v) = 0 /\ Share(slot[s], v) = 0
    BY <1>3 DEF CheckRequest, Share, Idle
  <2> HIDE DEF x
  <2> QED BY <1>2, <2>2, <2>3
<1>4. ASSUME CreateRequest(s) PROVE AInv'
  <2>1. slot' = [slot EXCEPT ![s] = Idle]
        /\ quota' = quota /\ committed' = committed /\ faults' = faults
    BY <1>4 DEF CreateRequest
  <2>2. \A v \in Users : Share(Idle, v) = 0 /\ Share(slot[s], v) = 0
    BY <1>4 DEF CreateRequest, Share, Idle
  <2> QED BY <1>0, <1>2, <2>1, <2>2
<1> QED BY <1>3, <1>4 DEF Ask

\* Every step keeps it.
LEMMA NextAInv == AInv /\ [Next]_vars => AInv'
<1> SUFFICES ASSUME AInv, [Next]_vars PROVE AInv'
  OBVIOUS
<1>1. Inv /\ TypeOK /\ Inv'
  BY NextInv DEF AInv, Inv
<1>2. ASSUME NEW s \in Slots, Upload(s) \/ Ask(s) PROVE AInv'
  BY <1>1, <1>2, UploadAInv, AskAInv
<1>3. ASSUME NEW u \in Users, NEW m, quota' = [quota EXCEPT ![u].max = m]
      PROVE  \A v \in Users : quota'[v].used = quota[v].used
  BY <1>1, <1>3 DEF TypeOK, Quota
<1>4. ASSUME NEW u \in Users, NEW m \in Limits, SetQuota(u, m) PROVE AInv'
  <2>1. \A v \in Users : quota'[v].used = quota[v].used
    BY <1>3, <1>4 DEF SetQuota
  <2>2. slot' = slot /\ committed' = committed /\ faults' = faults
    BY <1>4 DEF SetQuota
  <2> QED BY <1>1, <2>1, <2>2, AccountedSame
<1>5. ASSUME NEW i \in 1..Len(asked), Decide(i) PROVE AInv'
  <2>1. asked[i].user \in Users
    <3>1. asked[i] \in QuotaRequest
      BY <1>1 DEF TypeOK
    <3> QED BY <3>1 DEF QuotaRequest
  <2>2. ASSUME NEW m \in Limits, Approve(i, m) PROVE AInv'
    <3>1. \A v \in Users : quota'[v].used = quota[v].used
      BY <1>3, <2>1, <2>2 DEF Approve
    <3> QED BY <1>1, <2>2, <3>1, AccountedSame DEF Approve
  <2>3. ASSUME Reject(i) PROVE AInv'
    BY <1>1, <2>3, AccountedSame DEF Reject
  <2> QED BY <1>5, <2>2, <2>3 DEF Decide
<1>6. CASE Restart
  <2>1. /\ Finite(slot') /\ \A v \in Users : Held(slot', Of(slot', v)) = 0
        /\ Finite(slot) /\ Accounted
    BY <1>6, AllIdle DEF Restart, AInv
  <2>2. \A v \in Users : Reserved(v)' = 0 /\ Reserved(v) \in Nat
    <3> SUFFICES ASSUME NEW v \in Users PROVE Reserved(v)' = 0 /\ Reserved(v) \in Nat
      OBVIOUS
    <3>1. IsFiniteSet(Of(slot, v)) /\ \A x \in Of(slot, v) : slot[x].bytes \in Nat
      BY <1>1, <2>1 DEF Finite, TypeOK, Of, SlotState, Idle
    <3>2. Held(slot, Of(slot, v)) \in Nat
      BY <3>1, HeldParts
    <3> QED BY <2>1, <3>2, ReservedHeld
  <2>3. \A v \in Users : quota[v].used \in Nat /\ committed[v] \in Nat
    BY <1>1 DEF TypeOK, Quota
  <2>4. quota' = quota /\ committed' = committed /\ faults' # 0
    BY <1>1, <1>6 DEF Restart, TypeOK
  <2>5. Accounted'
    BY <2>1, <2>2, <2>3, <2>4 DEF Accounted
  <2> QED BY <1>1, <2>1, <2>5 DEF AInv
<1>7. CASE UNCHANGED vars
  BY <1>1, <1>7, AccountedSame DEF vars
<1> QED
  BY <1>2, <1>4, <1>5, <1>6, <1>7 DEF Next

\* Every byte counted against a user is an upload that was kept or one in progress,
\* for any number of users and of uploads at a time: none is released twice, none
\* that was kept is released, and no release finds less than it takes back.
THEOREM BytesAccounted == Spec => []Accounted
<1>1. AInv => Accounted
  BY DEF AInv
<1> QED
  BY InitAInv, NextAInv, <1>1, PTL DEF Spec
=============================================================================
