---------------------------- MODULE Serving_proofs ----------------------------
(***************************************************************************)
(* What Serving promises of every request, for any targets, deployments,   *)
(* configurations, requests and changes of the world.                      *)
(*                                                                         *)
(* First what Routing promises of the choice itself: the server and the    *)
(* Worker take the same candidate of the same list (ChoiceSame), and       *)
(* whatever the Worker makes of a manifest tries a source that is marked   *)
(* fallback_only after all others (PlanFacts).  Then the request: Sees and *)
(* Path say what it has seen of the world on its way, Queue which targets  *)
(* it has left, KeptInv what is in the cache and on its way there, and     *)
(* ShapeInv what every variable is, with, in Placed, which target may      *)
(* serve the request among the candidates it was chosen from.              *)
(***************************************************************************)
EXTENDS Serving, DataTheorems, SequenceTheorems, TLAPS

-----------------------------------------------------------------------------
(* Lists of candidates.                                                    *)

IsCandidate(c) ==
  /\ c.target \in Targets /\ c.weight \in Nat \ {0} /\ c.priority \in Nat
  /\ c.fallbackOnly \in BOOLEAN

\* Candidates, of which no two are of the same target.
CandidateList(s) ==
  /\ s \in Seq(ToSet(s))
  /\ \A c \in ToSet(s) : IsCandidate(c)
  /\ \A c, e \in ToSet(s) : c.target = e.target => c = e

\* What a list is made of.
LEMMA ListFacts ==
  ASSUME NEW T, NEW s \in Seq(T)
  PROVE  /\ Len(s) \in Nat /\ DOMAIN s = 1 .. Len(s)
         /\ s \in Seq(ToSet(s)) /\ ToSet(s) \subseteq T
         /\ \A i \in 1 .. Len(s) : s[i] \in ToSet(s)
         /\ \A x \in ToSet(s) : \E i \in 1 .. Len(s) : s[i] = x
         /\ IsFiniteSet(ToSet(s))
         /\ s = <<>> <=> Len(s) = 0
         /\ s = <<>> <=> ToSet(s) = {}
         /\ s # <<>> => Head(s) = s[1] /\ Len(s) >= 1
<1>1. /\ Len(s) \in Nat /\ DOMAIN s = 1 .. Len(s) /\ s \in [1 .. Len(s) -> T]
      /\ s = <<>> <=> Len(s) = 0
  BY EmptySeq
<1>2. ToSet(s) = {s[i] : i \in 1 .. Len(s)}
  BY <1>1 DEF ToSet
<1>3. s \in [1 .. Len(s) -> ToSet(s)]
  BY <1>1, <1>2
<1>4. s \in Seq(ToSet(s))
  BY <1>1, <1>3
<1>5. IsFiniteSet(ToSet(s))
  <2> DEFINE f == [i \in 1 .. Len(s) |-> s[i]]
  <2>1. f \in Surjection(1 .. Len(s), ToSet(s))
    BY <1>2 DEF Surjection
  <2>2. IsFiniteSet(1 .. Len(s))
    BY <1>1, FS_Interval
  <2> QED BY <2>1, <2>2, FS_Surjection
<1>6. s = <<>> <=> ToSet(s) = {}
  <2>1. Len(s) # 0 => 1 \in 1 .. Len(s)
    BY <1>1
  <2>2. Len(s) = 0 => 1 .. Len(s) = {}
    BY <1>1
  <2> QED BY <1>1, <1>2, <2>1, <2>2
<1>7. s # <<>> => Head(s) = s[1] /\ Len(s) >= 1
  BY <1>1
<1> QED BY <1>1, <1>2, <1>4, <1>5, <1>6, <1>7

\* What is left of a list of candidates is one.
LEMMA CandidatesKept ==
  ASSUME NEW s, CandidateList(s), NEW K, NEW q, q = Only(s, K)
  PROVE  /\ CandidateList(q)
         /\ ToSet(q) = ToSet(s) \cap K
         /\ q = <<>> <=> ToSet(s) \cap K = {}
<1>1. s \in Seq(ToSet(s))
  BY DEF CandidateList
<1>2. /\ q \in Seq(ToSet(s)) /\ ToSet(q) = ToSet(s) \cap K
      /\ q = <<>> <=> ToSet(s) \cap K = {}
  <2>1. PICK T : T = ToSet(s) /\ s \in Seq(T)
    BY <1>1
  <2>2. s \in Seq(T) /\ q = Only(s, K)
    BY <2>1
  <2>3. q \in Seq(T \cap K) /\ ToSet(q) = ToSet(s) \cap K
    BY ONLY <2>2, SelectedList
  <2>4. q \in Seq(T)
    BY ONLY <2>2, SelectedList
  <2>5. q = <<>> <=> ToSet(q) = {}
    BY <2>4, ListFacts
  <2> QED BY <2>1, <2>3, <2>4, <2>5
<1>3. q \in Seq(ToSet(q))
  BY <1>2, ListFacts
<1> QED BY <1>2, <1>3 DEF CandidateList

\* In a strict order of a finite set one element comes before all others.
LEMMA FirstInOrder ==
  ASSUME NEW S, IsFiniteSet(S), S # {}, NEW R, StrictOrder(S, R)
  PROVE  \E x \in S : \A y \in S \ {x} : <<x, y>> \in R
<1>1. PICK q : q = InOrder(S, R)
  OBVIOUS
<1>2. /\ Cardinality(S) \in Nat
      /\ q \in [1 .. Cardinality(S) -> S]
      /\ \A x \in S : \E k \in 1 .. Cardinality(S) : q[k] = x
      /\ \A i, j \in 1 .. Cardinality(S) : i < j <=> <<q[i], q[j]>> \in R
  BY <1>1, InOrderPlaces
<1>3. 1 \in 1 .. Cardinality(S)
  BY <1>2
<1>4. ASSUME NEW y \in S \ {q[1]}
      PROVE  <<q[1], y>> \in R
  <2>1. PICK k \in 1 .. Cardinality(S) : q[k] = y
    BY <1>2
  <2>2. 1 < k
    BY <1>2, <2>1
  <2> QED BY <1>2, <1>3, <2>1, <2>2
<1> QED BY <1>2, <1>3, <1>4

-----------------------------------------------------------------------------
(* The choice by weight.                                                   *)

\* The weights of the first n candidates, one after the other.
LEMMA WeightIsTotal ==
  ASSUME NEW cands, NEW n \in Nat
  PROVE  WeightUpTo(cands, n) = Total([i \in 1 .. n |-> cands[i].weight], 1 .. n)
<1> DEFINE S == 1 .. n
           f == [i \in S |-> cands[i].weight]
           sum == CHOOSE iter : iter = [s \in SUBSET S |->
                    IF s = {} THEN 0
                    ELSE LET x == CHOOSE x \in s : TRUE IN cands[x].weight + iter[s \ {x}]]
<1>1. WeightUpTo(cands, n) = sum[S]
  BY DEF WeightUpTo, MapThenSumSet, MapThenFoldSet
<1>2. \A s \in SUBSET S : s # {} => f[One(s)] = cands[One(s)].weight
  BY DEF One
<1>3. IsFiniteSet(S)
  BY FS_Interval
<1>4. PICK g : Adds(g, f, S)
  <2> HIDE DEF S, f
  <2> QED BY <1>3, AddsExists
<1>5. g = [s \in SUBSET S |-> IF s = {} THEN 0 ELSE cands[One(s)].weight + g[s \ {One(s)}]]
  <2> HIDE DEF S, f
  <2> QED BY <1>2, <1>4 DEF Adds
<1>6. sum = [s \in SUBSET S |-> IF s = {} THEN 0 ELSE cands[One(s)].weight + sum[s \ {One(s)}]]
  <2> HIDE DEF S
  <2> QED BY <1>5 DEF One
<1>7. Adds(sum, f, S)
  <2> HIDE DEF S, f, sum
  <2> QED BY <1>2, <1>6 DEF Adds
<1>8. PICK h : Adds(h, f, S) /\ Total(f, S) = h[S]
  <2> HIDE DEF S, f
  <2> QED BY <1>3, TotalAdds
<1>9. sum[S] = h[S]
  <2> HIDE DEF S, f, sum
  <2> QED BY <1>3, <1>7, <1>8, AddsAgree
<1> QED BY <1>1, <1>8, <1>9

\* Each candidate adds its weight.
LEMMA WeightSteps ==
  ASSUME NEW cands, CandidateList(cands)
  PROVE  /\ WeightUpTo(cands, 0) = 0
         /\ \A n \in 0 .. Len(cands) : WeightUpTo(cands, n) \in Nat
         /\ \A n \in 1 .. Len(cands) :
              /\ cands[n].weight \in Nat \ {0}
              /\ WeightUpTo(cands, n) = cands[n].weight + WeightUpTo(cands, n - 1)
<1>1. Len(cands) \in Nat /\ \A i \in 1 .. Len(cands) : cands[i].weight \in Nat \ {0}
  <2>1. cands \in Seq(ToSet(cands))
    BY DEF CandidateList
  <2> QED BY <2>1, ListFacts DEF CandidateList, IsCandidate
<1> DEFINE f(n) == [i \in 1 .. n |-> cands[i].weight]
<1>2. \A n \in Nat : WeightUpTo(cands, n) = Total(f(n), 1 .. n)
  BY WeightIsTotal
<1>3. ASSUME NEW n \in 0 .. Len(cands)
      PROVE  /\ IsFiniteSet(1 .. n) /\ n \in Nat
             /\ \A i \in 1 .. n : f(n)[i] \in Nat
             /\ Total(f(n), 1 .. n) \in Nat
             /\ n = 0 => Total(f(n), 1 .. n) = 0
             /\ n # 0 => Total(f(n), 1 .. n) = f(n)[n] + Total(f(n), (1 .. n) \ {n})
  <2>1. IsFiniteSet(1 .. n) /\ n \in Nat
    BY <1>1, FS_Interval
  <2>2. \A i \in 1 .. n : f(n)[i] \in Nat
    BY <1>1
  <2>3. n = 0 => 1 .. n = {}
    OBVIOUS
  <2>4. n # 0 => n \in 1 .. n
    BY <2>1
  <2> DEFINE g == f(n)
             S == 1 .. n
  <2>5. IsFiniteSet(S) /\ \A i \in S : g[i] \in Nat
    BY <2>1, <2>2
  <2>6. /\ S = {} => Total(g, S) = 0
        /\ Total(g, S) \in Nat
        /\ \A x \in S : Total(g, S) = g[x] + Total(g, S \ {x})
    <3> HIDE DEF g, S
    <3> QED BY <2>5, TotalParts
  <2>7. n # 0 => Total(g, S) = g[n] + Total(g, S \ {n})
    <3> HIDE DEF g
    <3> QED BY <2>4, <2>6
  <2> HIDE DEF f
  <2> QED BY <2>1, <2>2, <2>3, <2>6, <2>7
<1>4. ASSUME NEW n \in 1 .. Len(cands)
      PROVE  /\ f(n)[n] = cands[n].weight
             /\ Total(f(n), (1 .. n) \ {n}) = Total(f(n - 1), 1 .. n - 1)
  <2>1. (1 .. n) \ {n} = 1 .. n - 1 /\ n \in 1 .. n
    OBVIOUS
  <2>2. \A i \in 1 .. n - 1 : f(n)[i] = f(n - 1)[i]
    OBVIOUS
  <2>3. IsFiniteSet(1 .. n - 1)
    BY FS_Interval
  <2> DEFINE g == f(n)
             h == f(n - 1)
             S == 1 .. n - 1
  <2>4. Total(g, S) = Total(h, S)
    <3>1. IsFiniteSet(S) /\ \A i \in S : g[i] = h[i]
      BY <2>2, <2>3
    <3> HIDE DEF g, h, S
    <3> QED BY <3>1, TotalSame
  <2> QED BY <2>1, <2>4
<1> HIDE DEF f
<1>5. WeightUpTo(cands, 0) = 0
  BY <1>1, <1>2, <1>3
<1>6. \A n \in 0 .. Len(cands) : WeightUpTo(cands, n) \in Nat
  BY <1>1, <1>2, <1>3
<1>7. ASSUME NEW n \in 1 .. Len(cands)
      PROVE  WeightUpTo(cands, n) = cands[n].weight + WeightUpTo(cands, n - 1)
  <2>1. n \in 0 .. Len(cands) /\ n \in Nat /\ n - 1 \in Nat /\ n # 0
    BY <1>1
  <2>2. Total(f(n), 1 .. n) = f(n)[n] + Total(f(n), (1 .. n) \ {n})
    BY <1>3, <2>1
  <2> QED BY <1>2, <1>4, <2>1, <2>2
<1> QED BY <1>1, <1>5, <1>6, <1>7

\* The weights add up: later sums are no smaller.
LEMMA WeightGrows ==
  ASSUME NEW cands, CandidateList(cands), NEW i \in 0 .. Len(cands),
         NEW j \in 0 .. Len(cands), i <= j
  PROVE  WeightUpTo(cands, i) <= WeightUpTo(cands, j)
<1> DEFINE W(n) == WeightUpTo(cands, n)
           Bad == {n \in i .. Len(cands) : ~(W(i) <= W(n))}
<1>1. Len(cands) \in Nat
  <2>1. cands \in Seq(ToSet(cands))
    BY DEF CandidateList
  <2> QED BY <2>1
<1>2. /\ \A n \in 0 .. Len(cands) : W(n) \in Nat
      /\ \A n \in 1 .. Len(cands) : W(n - 1) <= W(n)
  <2>1. \A n \in 0 .. Len(cands) : W(n) \in Nat
    BY WeightSteps
  <2>2. ASSUME NEW n \in 1 .. Len(cands) PROVE W(n - 1) <= W(n)
    <3>1. cands[n].weight \in Nat /\ W(n) = cands[n].weight + W(n - 1)
      BY WeightSteps
    <3>2. n - 1 \in 0 .. Len(cands)
      BY <1>1
    <3> HIDE DEF W
    <3> QED BY <2>1, <3>1, <3>2
  <2> QED BY <2>1, <2>2
<1> HIDE DEF W
<1>3. Bad = {}
  <2> SUFFICES ASSUME Bad # {} PROVE FALSE
    OBVIOUS
  <2>1. PICK n \in Bad : \A m \in Bad : n <= m
    <3>1. Bad \subseteq Nat
      BY <1>1
    <3> HIDE DEF Bad
    <3> QED BY <3>1, LeastNatural
  <2>2. n # i
    BY <1>1, <1>2
  <2>3. n - 1 \in i .. Len(cands) /\ n \in 1 .. Len(cands)
    BY <1>1, <2>2
  <2>4. W(i) <= W(n - 1)
    BY <1>1, <2>1, <2>3
  <2>5. W(n - 1) <= W(n) /\ W(i) \in Nat /\ W(n - 1) \in Nat /\ W(n) \in Nat
    BY <1>1, <1>2, <2>3
  <2>6. W(i) <= W(n)
    BY <2>4, <2>5
  <2> QED BY <2>6
<1>4. j \in i .. Len(cands)
  BY <1>1
<1> QED BY <1>3, <1>4 DEF W

\* The hash falls into the part of exactly one candidate, and both halves take it.
LEMMA WeightedSame ==
  ASSUME NEW cands, CandidateList(cands), cands # <<>>, NEW hash \in Nat
  PROVE  /\ Weighted(cands, hash) \in ToSet(cands)
         /\ WorkerWeighted(cands, hash) = Weighted(cands, hash)
<1> DEFINE W(n) == WeightUpTo(cands, n)
           slot == hash % W(Len(cands))
           Past == {i \in 1 .. Len(cands) : slot < W(i)}
<1>1. /\ Len(cands) \in Nat /\ Len(cands) >= 1 /\ DOMAIN cands = 1 .. Len(cands)
      /\ \A i \in 1 .. Len(cands) : cands[i] \in ToSet(cands)
  <2>1. cands \in Seq(ToSet(cands))
    BY DEF CandidateList
  <2> QED BY <2>1, ListFacts
<1>2. /\ W(0) = 0
      /\ \A n \in 0 .. Len(cands) : W(n) \in Nat
  BY WeightSteps
<1>3. W(Len(cands)) \in Nat \ {0}
  <2>1. cands[1].weight \in Nat \ {0} /\ W(1) = cands[1].weight + W(1 - 1)
    BY <1>1, WeightSteps
  <2>2. W(1) \in Nat \ {0}
    BY <1>2, <2>1
  <2>3. W(1) <= W(Len(cands))
    BY <1>1, WeightGrows
  <2>4. W(Len(cands)) \in Nat
    BY <1>1, <1>2
  <2> HIDE DEF W
  <2> QED BY <2>2, <2>3, <2>4
<1>4. slot \in Nat /\ slot < W(Len(cands))
  <2> HIDE DEF W
  <2> QED BY <1>3
<1>5. \A i, j \in 0 .. Len(cands) : i <= j => W(i) <= W(j)
  BY WeightGrows
<1>6. \A i \in DOMAIN cands : /\ WeightUpTo(cands, i) = W(i)
                              /\ WeightUpTo(cands, i - 1) = W(i - 1)
  OBVIOUS
<1>7. hash % WeightUpTo(cands, Len(cands)) = slot
  OBVIOUS
<1> HIDE DEF W, slot
<1>8. PICK i \in Past : \A j \in Past : i <= j
  <2>1. Past \subseteq Nat /\ Len(cands) \in Past
    BY <1>1, <1>4
  <2> HIDE DEF Past
  <2> QED BY <2>1, LeastNatural
<1>9. i \in 1 .. Len(cands) /\ slot < W(i)
  OBVIOUS
<1>10. W(i - 1) <= slot
  <2>1. CASE i = 1
    BY <1>2, <1>4, <2>1
  <2>2. CASE i # 1
    <3>1. i - 1 \in 1 .. Len(cands) /\ i - 1 \in 0 .. Len(cands)
      BY <1>1, <1>9, <2>2
    <3>2. ~(slot < W(i - 1))
      BY <1>8, <1>9, <3>1
    <3> QED BY <1>2, <1>4, <3>1, <3>2
  <2> QED BY <2>1, <2>2
<1>11. ASSUME NEW j \in 1 .. Len(cands), W(j - 1) <= slot, slot < W(j)
       PROVE  j = i
  <2>1. i <= j
    BY <1>8, <1>11
  <2>2. j - 1 \in 0 .. Len(cands) /\ i \in 0 .. Len(cands)
    BY <1>1, <1>9
  <2>3. i <= j - 1 => W(i) <= W(j - 1)
    BY <1>5, <2>2
  <2>4. W(i) \in Nat /\ W(j - 1) \in Nat
    BY <1>2, <2>2
  <2> QED BY <1>4, <1>9, <1>11, <2>1, <2>3, <2>4
<1>12. Weighted(cands, hash) = cands[i]
  <2>1. (CHOOSE k \in DOMAIN cands : /\ WeightUpTo(cands, k - 1) <= slot
                                     /\ slot < WeightUpTo(cands, k)) = i
    BY <1>1, <1>6, <1>9, <1>10, <1>11
  <2> QED BY <1>7, <2>1 DEF Weighted
<1>13. WorkerWeighted(cands, hash) = cands[i]
  <2> DEFINE After == {k \in DOMAIN cands : slot - WeightUpTo(cands, k) < 0}
  <2>1. \A k \in 1 .. Len(cands) : slot - WeightUpTo(cands, k) < 0 <=> slot < W(k)
    <3> SUFFICES ASSUME NEW k \in 1 .. Len(cands)
                 PROVE  slot - WeightUpTo(cands, k) < 0 <=> slot < W(k)
      OBVIOUS
    <3>1. WeightUpTo(cands, k) = W(k) /\ W(k) \in Nat
      BY <1>1, <1>2, <1>6
    <3> QED BY <1>4, <3>1
  <2>2. After = Past
    BY <1>1, <2>1
  <2>3. Min(Past) = i
    <3>1. i \in Past /\ \A j \in Past : i <= j
      BY <1>8
    <3>2. Past \subseteq Nat
      BY <1>1
    <3> HIDE DEF Past
    <3>3. \A x \in Past : (\A y \in Past : x <= y) => x = i
      BY <3>1, <3>2
    <3> QED BY <3>1, <3>3 DEF Min
  <2>4. Min(After) = i
    BY <2>2, <2>3
  <2> HIDE DEF Past
  <2> QED BY <1>7, <2>4 DEF WorkerWeighted
<1> QED BY <1>1, <1>9, <1>12, <1>13

-----------------------------------------------------------------------------
(* The choice by priority.                                                 *)

ComesBefore(c, e) ==
  \/ c.priority < e.priority
  \/ c.priority = e.priority /\ c.weight > e.weight
  \/ /\ c.priority = e.priority /\ c.weight = e.weight
     /\ Rank[c.target] < Rank[e.target]

\* Candidates that only their names tell apart have them in one order on both sides.
TiesAlike(S) ==
  \A c, e \in S :
    /\ c.priority = e.priority /\ c.weight = e.weight
    /\ Rank[c.target] < Rank[e.target]
    => WorkerRank[c.target] < WorkerRank[e.target]

\* A candidate has a place of its own in the list.
LEMMA PlaceFacts ==
  ASSUME NEW cands, CandidateList(cands)
  PROVE  \A c \in ToSet(cands) : Place(cands, c) \in Nat /\ cands[Place(cands, c)] = c
<1>1. cands \in Seq(ToSet(cands))
  BY DEF CandidateList
<1>2. /\ DOMAIN cands = 1 .. Len(cands) /\ Len(cands) \in Nat
      /\ \A c \in ToSet(cands) : \E i \in 1 .. Len(cands) : cands[i] = c
  BY <1>1, ListFacts
<1>3. ASSUME NEW c \in ToSet(cands)
      PROVE  Place(cands, c) \in DOMAIN cands /\ cands[Place(cands, c)] = c
  <2>1. \E i \in DOMAIN cands : cands[i] = c
    BY <1>2
  <2> QED BY <2>1 DEF Place
<1> QED BY <1>2, <1>3

\* Of two candidates the Worker puts one first by their names, and by their places
\* where it takes the names for the same.
LEMMA NameIsStrict ==
  ASSUME NEW cands, CandidateList(cands)
  PROVE  /\ \A c \in ToSet(cands) : ~NameBefore(cands, c, c)
         /\ \A c, e \in ToSet(cands) :
              c # e => NameBefore(cands, c, e) \/ NameBefore(cands, e, c)
         /\ \A c, e, f \in ToSet(cands) :
              NameBefore(cands, c, e) /\ NameBefore(cands, e, f) => NameBefore(cands, c, f)
<1>1. \A c \in ToSet(cands) : Place(cands, c) \in Nat /\ cands[Place(cands, c)] = c
  BY PlaceFacts
<1>2. \A c \in ToSet(cands) : WorkerRank[c.target] \in Nat
  BY ProfileAssumption DEF CandidateList, IsCandidate
<1>3. \A c \in ToSet(cands) : ~NameBefore(cands, c, c)
  BY <1>1, <1>2 DEF NameBefore
<1>4. ASSUME NEW c \in ToSet(cands), NEW e \in ToSet(cands), c # e
      PROVE  NameBefore(cands, c, e) \/ NameBefore(cands, e, c)
  <2>1. Place(cands, c) # Place(cands, e)
    BY <1>1, <1>4
  <2> QED BY <1>1, <1>2, <2>1 DEF NameBefore
<1>5. ASSUME NEW c \in ToSet(cands), NEW e \in ToSet(cands), NEW f \in ToSet(cands),
             NameBefore(cands, c, e), NameBefore(cands, e, f)
      PROVE  NameBefore(cands, c, f)
  BY <1>1, <1>2, <1>5 DEF NameBefore
<1> QED BY <1>3, <1>4, <1>5

\* Each half takes one of the candidates, and both the same where ties are alike: the
\* one that comes before all others.
LEMMA PrioritySame ==
  ASSUME NEW cands, CandidateList(cands), cands # <<>>
  PROVE  /\ FirstPriority(cands) \in ToSet(cands)
         /\ WorkerFirstPriority(cands) \in ToSet(cands)
         /\ TiesAlike(ToSet(cands)) => WorkerFirstPriority(cands) = FirstPriority(cands)
<1> DEFINE S == ToSet(cands)
           R == {p \in S \X S : ComesBefore(p[1], p[2])}
<1>1. S # {} /\ IsFiniteSet(S)
  <2>1. cands \in Seq(ToSet(cands))
    BY DEF CandidateList
  <2> QED BY <2>1, ListFacts
<1>2. \A c \in S : /\ c.priority \in Nat /\ c.weight \in Nat
                   /\ c.target \in Targets /\ Rank[c.target] \in Nat
  BY ProfileAssumption DEF CandidateList, IsCandidate
<1>3. \A c, e \in S : Rank[c.target] = Rank[e.target] => c = e
  BY <1>2, ProfileAssumption DEF CandidateList
<1>4. \A c, e \in S : <<c, e>> \in R <=> ComesBefore(c, e)
  OBVIOUS
<1> HIDE DEF S, R
<1>5. StrictOrder(S, R)
  <2>1. \A x \in S : <<x, x>> \notin R
    BY <1>2, <1>4 DEF ComesBefore
  <2>2. \A x, y \in S : x # y => <<x, y>> \in R \/ <<y, x>> \in R
    BY <1>2, <1>3, <1>4 DEF ComesBefore
  <2>3. ASSUME NEW x \in S, NEW y \in S, NEW z \in S, <<x, y>> \in R, <<y, z>> \in R
        PROVE  <<x, z>> \in R
    BY <1>2, <1>4, <2>3, SMTT(30) DEF ComesBefore
  <2> QED BY <2>1, <2>2, <2>3 DEF StrictOrder
<1>6. PICK c \in S : \A e \in S \ {c} : ComesBefore(c, e)
  <2>1. PICK c \in S : \A e \in S \ {c} : <<c, e>> \in R
    BY <1>1, <1>5, FirstInOrder
  <2> QED BY <1>4, <2>1
<1>7. FirstPriority(cands) = c
  <2>1. \A d \in S : (\A e \in S \ {d} : ComesBefore(d, e)) => d = c
    BY <1>2, <1>6 DEF ComesBefore
  <2>2. (CHOOSE d \in S : \A e \in S \ {d} : ComesBefore(d, e)) = c
    BY <1>6, <2>1
  <2> QED BY <2>2 DEF FirstPriority, ComesBefore, S
<1> DEFINE lowest == Min({e.priority : e \in S})
           top    == {e \in S : e.priority = lowest}
           heavy  == {e \in top : \A f \in top : f.weight <= e.weight}
<1>8. lowest = c.priority
  <2> DEFINE P == {e.priority : e \in S}
  <2>1. c.priority \in P /\ \A p \in P : c.priority <= p
    BY <1>2, <1>6 DEF ComesBefore
  <2>2. P \subseteq Nat
    BY <1>2
  <2> HIDE DEF P
  <2>3. Min(P) = c.priority
    <3>1. \A x \in P : (\A y \in P : x <= y) => x = c.priority
      <4>1. PICK l : l = c.priority
        OBVIOUS
      <4>2. l \in P /\ \A p \in P : l <= p
        BY <2>1, <4>1
      <4>3. \A x \in P : (\A y \in P : x <= y) => x = l
        BY <2>2, <4>2
      <4> QED BY <4>1, <4>3
    <3> QED BY <2>1, <3>1 DEF Min
  <2> QED BY <2>3 DEF P
<1> HIDE DEF lowest
<1>9. c \in heavy /\ \A e \in heavy : e \in S /\ e.priority = c.priority /\ e.weight = c.weight
  BY <1>2, <1>6, <1>8 DEF ComesBefore
<1> DEFINE First(d) == \A e \in heavy \ {d} : NameBefore(cands, d, e)
<1>10. PICK d \in heavy : First(d)
  <2> DEFINE Q == {p \in heavy \X heavy : NameBefore(cands, p[1], p[2])}
  <2>1. \A x, y \in heavy : <<x, y>> \in Q <=> NameBefore(cands, x, y)
    OBVIOUS
  <2>2. heavy \subseteq S /\ heavy # {} /\ IsFiniteSet(heavy)
    BY <1>1, <1>9, FS_Subset
  <2> HIDE DEF Q, heavy
  <2>3. StrictOrder(heavy, Q)
    BY <2>1, <2>2, NameIsStrict DEF StrictOrder, S
  <2>4. PICK x \in heavy : \A y \in heavy \ {x} : <<x, y>> \in Q
    BY <2>2, <2>3, FirstInOrder
  <2> QED BY <2>1, <2>4
<1>11. WorkerFirstPriority(cands) = CHOOSE x \in heavy : First(x)
  BY DEF WorkerFirstPriority, S, lowest
<1>12. WorkerFirstPriority(cands) \in S
  <2>1. (CHOOSE x \in heavy : First(x)) \in heavy
    <3> HIDE DEF heavy, First
    <3> QED BY <1>10
  <2> QED BY <1>9, <1>11, <2>1
<1>13. ASSUME TiesAlike(S) PROVE WorkerFirstPriority(cands) = c
  <2>1. First(c)
    <3> SUFFICES ASSUME NEW e \in heavy \ {c} PROVE NameBefore(cands, c, e)
      OBVIOUS
    <3>1. /\ e \in S /\ e # c
          /\ e.priority = c.priority /\ e.weight = c.weight
      BY <1>9
    <3>2. Rank[c.target] < Rank[e.target]
      BY <1>2, <1>6, <3>1 DEF ComesBefore
    <3>3. WorkerRank[c.target] < WorkerRank[e.target]
      BY <1>13, <3>1, <3>2 DEF TiesAlike
    <3> QED BY <3>3 DEF NameBefore
  <2>2. ASSUME NEW x \in heavy, First(x) PROVE x = c
    <3> SUFFICES ASSUME x # c PROVE FALSE
      OBVIOUS
    <3>1. NameBefore(cands, x, c) /\ NameBefore(cands, c, x)
      BY <1>9, <2>1, <2>2
    <3>2. x \in S /\ c \in S
      BY <1>9
    <3> QED BY <3>1, <3>2, NameIsStrict DEF S
  <2>3. (CHOOSE x \in heavy : First(x)) = c
    <3> HIDE DEF heavy, First
    <3> QED BY <1>9, <2>1, <2>2
  <2> QED BY <1>11, <2>3
<1> QED BY <1>6, <1>7, <1>12, <1>13 DEF S

-----------------------------------------------------------------------------
(* The choice.                                                             *)

\* Of the candidates that are not for fallback only, those that are near, if any, and
\* the policy has them chosen by priority or by weight.
Actives(cands) == Select(cands, LAMBDA c : ~c.fallbackOnly)

Near(policy, cands, r) ==
  Select(Actives(cands), LAMBDA c : c.region = Region(r.country, policy))

\* The active candidates are a list of those that are not for fallback only.
LEMMA ActivesFacts ==
  ASSUME NEW cands, CandidateList(cands)
  PROVE  /\ CandidateList(Actives(cands))
         /\ \A c \in ToSet(Actives(cands)) : c \in ToSet(cands) /\ ~c.fallbackOnly
         /\ Actives(cands) = <<>> <=> \A c \in ToSet(cands) : c.fallbackOnly
<1>1. PICK K : K = {c \in ToSet(cands) : ~c.fallbackOnly}
  OBVIOUS
<1>2. Actives(cands) = Only(cands, K)
  BY <1>1 DEF Actives, Select
<1>3. /\ CandidateList(Actives(cands))
      /\ ToSet(Actives(cands)) = ToSet(cands) \cap K
      /\ Actives(cands) = <<>> <=> ToSet(cands) \cap K = {}
  BY <1>2, CandidatesKept
<1> QED BY <1>1, <1>3

\* So are those of them that are near.
LEMMA NearFacts ==
  ASSUME NEW cands, CandidateList(cands), NEW policy, NEW r
  PROVE  /\ CandidateList(Near(policy, cands, r))
         /\ ToSet(Near(policy, cands, r)) \subseteq ToSet(Actives(cands))
<1>1. PICK a : a = Actives(cands)
  OBVIOUS
<1>2. CandidateList(a)
  BY <1>1, ActivesFacts
<1>3. PICK K : K = {c \in ToSet(a) : c.region = Region(r.country, policy)}
  OBVIOUS
<1>4. Near(policy, cands, r) = Only(a, K)
  BY <1>1, <1>3 DEF Near, Select
<1>5. /\ CandidateList(Near(policy, cands, r))
      /\ ToSet(Near(policy, cands, r)) = ToSet(a) \cap K
  BY <1>2, <1>4, CandidatesKept
<1> QED BY <1>1, <1>5

\* The candidate c is of the list, and for fallback only if all are.
Chosen(cands, c) ==
  /\ c \in ToSet(cands)
  /\ c.fallbackOnly => \A e \in ToSet(cands) : e.fallbackOnly

\* What is taken of the active candidates, or of those of them that are near, is chosen.
LEMMA OfActives ==
  ASSUME NEW cands, CandidateList(cands), NEW c, c \in ToSet(Actives(cands))
  PROVE  Chosen(cands, c)
BY ActivesFacts DEF Chosen

\* What is hashed are keys, and the two hashes of a key are one number where the
\* policy's name is ASCII, the URL spells the path as it is, and both see the client.
LEMMA KeyFacts ==
  ASSUME NEW policy, policy.name \in PolicyNames,
         NEW r, r.client \in Clients \cup {NoClient}, r.path \in Paths
  PROVE  /\ WorkerHash[WorkerKey(policy, r)] \in Nat
         /\ r.peer \in Clients => Hash[ServerKey(policy, r)] \in Nat
         /\ policy.name \in AsciiNames /\ Encoded(r.path) = r.path /\ r.client # NoClient
            => WorkerHash[WorkerKey(policy, r)] = Hash[ServerKey(policy, r)]
<1>1. Encoded(r.path) \in Paths \cup {"encoded"}
  BY DEF Encoded, Paths
<1>2. WorkerKey(policy, r) \in Keys
  BY <1>1 DEF WorkerKey, WorkerClient, Keys
<1>3. r.peer \in Clients => ServerKey(policy, r) \in Keys
  BY DEF ServerKey, ServerClient, Keys
<1>4. ASSUME policy.name \in AsciiNames, Encoded(r.path) = r.path, r.client # NoClient
      PROVE  WorkerHash[WorkerKey(policy, r)] = Hash[ServerKey(policy, r)]
  <2>1. WorkerKey(policy, r) = ServerKey(policy, r)
    BY <1>4 DEF WorkerKey, WorkerClient, ServerKey, ServerClient
  <2>2. WorkerKey(policy, r)[1] = policy.name /\ WorkerKey(policy, r)[2] = r.path
    BY <1>4 DEF WorkerKey
  <2>3. r.path # "spaced"
    BY <1>4 DEF Encoded
  <2> QED BY <1>2, <1>4, <2>1, <2>2, <2>3, HashAssumption
<1> QED BY <1>2, <1>3, <1>4, HashAssumption

\* The Worker chooses.
LEMMA WorkerChooses ==
  ASSUME NEW policy, policy.name \in PolicyNames,
         NEW cands, CandidateList(cands), cands # <<>>,
         NEW r, r.client \in Clients \cup {NoClient}, r.path \in Paths
  PROVE  Chosen(cands, WorkerSelect(policy, cands, r))
<1>1. PICK actives : actives = Actives(cands)
  OBVIOUS
<1>2. PICK near : near = IF policy.mode \in {"global_accel", "global_load_balance"}
                         THEN Near(policy, cands, r) ELSE <<>>
  OBVIOUS
<1>3. PICK pool : pool = IF near = <<>> THEN actives ELSE near
  OBVIOUS
<1>4. PICK hash \in Nat : hash = WorkerHash[WorkerKey(policy, r)]
  BY KeyFacts
<1>5. CandidateList(actives) /\ CandidateList(pool) /\ ToSet(pool) \subseteq ToSet(actives)
  BY <1>1, <1>2, <1>3, ActivesFacts, NearFacts
<1>6. WorkerSelect(policy, cands, r) =
        IF actives = <<>> THEN WorkerWeighted(cands, hash)
        ELSE IF policy.mode = "global_accel" THEN WorkerFirstPriority(pool)
                                             ELSE WorkerWeighted(pool, hash)
  BY <1>1, <1>2, <1>3, <1>4 DEF WorkerSelect, Actives, Near
<1>7. CASE actives = <<>>
  BY <1>1, <1>6, <1>7, ActivesFacts, WeightedSame DEF Chosen
<1>8. CASE actives # <<>>
  <2>1. pool # <<>>
    BY <1>3, <1>8
  <2>2. WorkerFirstPriority(pool) \in ToSet(pool) /\ WorkerWeighted(pool, hash) \in ToSet(pool)
    BY <1>5, <2>1, WeightedSame, PrioritySame
  <2>3. WorkerSelect(policy, cands, r) \in ToSet(actives)
    BY <1>5, <1>6, <1>8, <2>2
  <2> QED BY <1>1, <2>3, OfActives
<1> QED BY <1>7, <1>8

\* The server chooses.
LEMMA ServerChooses ==
  ASSUME NEW policy, policy.name \in PolicyNames,
         NEW cands, CandidateList(cands), cands # <<>>,
         NEW r, r.client \in Clients \cup {NoClient}, r.peer \in Clients, r.path \in Paths
  PROVE  Chosen(cands, SelectRoutingCandidate(policy, cands, r))
<1>1. PICK actives : actives = Actives(cands)
  OBVIOUS
<1>2. PICK near : near = Near(policy, cands, r)
  OBVIOUS
<1>3. PICK pool : pool = IF near = <<>> THEN actives ELSE near
  OBVIOUS
<1>4. PICK hash \in Nat : hash = Hash[ServerKey(policy, r)]
  BY KeyFacts
<1>5. CandidateList(actives) /\ CandidateList(pool) /\ ToSet(pool) \subseteq ToSet(actives)
  BY <1>1, <1>2, <1>3, ActivesFacts, NearFacts
<1>6. SelectRoutingCandidate(policy, cands, r) =
        IF actives = <<>> THEN Weighted(cands, hash)
        ELSE CASE policy.mode = "global_accel"         -> FirstPriority(pool)
               [] policy.mode = "global_load_balance"  -> Weighted(pool, hash)
               [] OTHER                                -> Weighted(actives, hash)
  BY <1>1, <1>2, <1>3, <1>4 DEF SelectRoutingCandidate, Actives, Near
<1>7. CASE actives = <<>>
  BY <1>1, <1>6, <1>7, ActivesFacts, WeightedSame DEF Chosen
<1>8. CASE actives # <<>>
  <2>1. pool # <<>>
    BY <1>3, <1>8
  <2>2. /\ FirstPriority(pool) \in ToSet(pool) /\ Weighted(pool, hash) \in ToSet(pool)
        /\ Weighted(actives, hash) \in ToSet(actives)
    BY <1>5, <1>8, <2>1, WeightedSame, PrioritySame
  <2>3. SelectRoutingCandidate(policy, cands, r) \in ToSet(actives)
    BY <1>5, <1>6, <1>8, <2>2
  <2> QED BY <1>1, <2>3, OfActives
<1> QED BY <1>7, <1>8

\* Of the same candidates and for a client that both see, they choose alike where they
\* read the same.
LEMMA ChoiceSame ==
  ASSUME NEW policy, policy.name \in PolicyNames, policy.name \in AsciiNames,
         NEW cands, CandidateList(cands), cands # <<>>, TiesAlike(ToSet(cands)),
         NEW r, r.client \in Clients, r.client # NoClient, r.peer \in Clients,
         r.path \in Paths, Encoded(r.path) = r.path
  PROVE  WorkerSelect(policy, cands, r) = SelectRoutingCandidate(policy, cands, r)
<1>1. PICK actives : actives = Actives(cands)
  OBVIOUS
<1>2. PICK near : near = Near(policy, cands, r)
  OBVIOUS
<1>3. PICK pool : pool = IF near = <<>> THEN actives ELSE near
  OBVIOUS
<1>4. PICK hash \in Nat : /\ hash = WorkerHash[WorkerKey(policy, r)]
                          /\ hash = Hash[ServerKey(policy, r)]
  BY KeyFacts
<1>5. CandidateList(actives) /\ CandidateList(pool) /\ TiesAlike(ToSet(pool))
  <2>1. /\ CandidateList(actives) /\ CandidateList(near)
        /\ ToSet(near) \subseteq ToSet(actives) /\ ToSet(actives) \subseteq ToSet(cands)
    BY <1>1, <1>2, ActivesFacts, NearFacts
  <2> QED BY <1>3, <2>1 DEF TiesAlike
<1>6. SelectRoutingCandidate(policy, cands, r) =
        IF actives = <<>> THEN Weighted(cands, hash)
        ELSE CASE policy.mode = "global_accel"         -> FirstPriority(pool)
               [] policy.mode = "global_load_balance"  -> Weighted(pool, hash)
               [] OTHER                                -> Weighted(actives, hash)
  BY <1>1, <1>2, <1>3, <1>4 DEF SelectRoutingCandidate, Actives, Near
<1> DEFINE global == policy.mode \in {"global_accel", "global_load_balance"}
           theirs == IF (IF global THEN near ELSE <<>>) = <<>>
                     THEN actives ELSE IF global THEN near ELSE <<>>
<1>7. WorkerSelect(policy, cands, r) =
        IF actives = <<>> THEN WorkerWeighted(cands, hash)
        ELSE IF policy.mode = "global_accel" THEN WorkerFirstPriority(theirs)
                                             ELSE WorkerWeighted(theirs, hash)
  BY <1>1, <1>2, <1>4 DEF WorkerSelect, Actives, Near
<1>8. theirs = IF global THEN pool ELSE actives
  BY <1>3
<1>9. CASE actives = <<>>
  BY <1>6, <1>7, <1>9, WeightedSame
<1>10. CASE actives # <<>>
  <2>1. pool # <<>>
    BY <1>3, <1>10
  <2>2. /\ WorkerFirstPriority(pool) = FirstPriority(pool)
        /\ WorkerWeighted(pool, hash) = Weighted(pool, hash)
        /\ WorkerWeighted(actives, hash) = Weighted(actives, hash)
    BY <1>5, <1>10, <2>1, WeightedSame, PrioritySame
  <2>3. CASE policy.mode = "global_accel"
    BY <1>6, <1>7, <1>8, <1>10, <2>2, <2>3
  <2>4. CASE policy.mode = "global_load_balance"
    BY <1>6, <1>7, <1>8, <1>10, <2>2, <2>4
  <2>5. CASE policy.mode \notin {"global_accel", "global_load_balance"}
    BY <1>6, <1>7, <1>8, <1>10, <2>2, <2>5
  <2> QED BY <2>3, <2>4, <2>5
<1> QED BY <1>9, <1>10

-----------------------------------------------------------------------------
(* The order in which a request tries its candidates.                      *)

LaterCandidate(cands, c, e) ==
  IF c.fallbackOnly # e.fallbackOnly THEN e.fallbackOnly
  ELSE IF c.priority # e.priority THEN c.priority < e.priority
  ELSE NameBefore(cands, c, e)

\* A set that is put in order is a list of its members.
LEMMA OrderedList ==
  ASSUME NEW S, IsFiniteSet(S), NEW R, StrictOrder(S, R), NEW q, q = InOrder(S, R)
  PROVE  /\ q \in Seq(S)
         /\ \A x \in S : \E k \in 1 .. Len(q) : q[k] = x
         /\ \A i, j \in 1 .. Len(q) : i < j <=> <<q[i], q[j]>> \in R
<1>1. /\ Cardinality(S) \in Nat
      /\ q \in [1 .. Cardinality(S) -> S]
      /\ \A x \in S : \E k \in 1 .. Cardinality(S) : q[k] = x
      /\ \A i, j \in 1 .. Cardinality(S) : i < j <=> <<q[i], q[j]>> \in R
  BY InOrderPlaces
<1>2. Len(q) = Cardinality(S)
  BY <1>1
<1>3. q \in Seq(S)
  BY <1>1
<1> QED BY <1>1, <1>2, <1>3

\* What every candidate has.
LEMMA CandidateFacts ==
  ASSUME NEW cands, CandidateList(cands)
  PROVE  /\ cands \in Seq(ToSet(cands)) /\ IsFiniteSet(ToSet(cands))
         /\ \A c \in ToSet(cands) :
              /\ c.priority \in Nat /\ c.weight \in Nat /\ c.target \in Targets
              /\ c.fallbackOnly \in BOOLEAN
<1>1. cands \in Seq(ToSet(cands))
  BY DEF CandidateList
<1>2. IsFiniteSet(ToSet(cands))
  BY <1>1, ListFacts
<1>3. \A c \in ToSet(cands) :
        /\ c.priority \in Nat /\ c.weight \in Nat /\ c.target \in Targets
        /\ c.fallbackOnly \in BOOLEAN
  BY DEF CandidateList, IsCandidate
<1> QED BY <1>1, <1>2, <1>3

\* The candidates that are for fallback only come after all that are not.
LEMMA LaterIsStrict ==
  ASSUME NEW cands, CandidateList(cands), NEW S, S \subseteq ToSet(cands),
         NEW R, \A c, e \in S : <<c, e>> \in R <=> LaterCandidate(cands, c, e)
  PROVE  StrictOrder(S, R)
<1>1. /\ \A c \in S : c.priority \in Nat /\ c.fallbackOnly \in BOOLEAN
      /\ \A c \in S : ~NameBefore(cands, c, c)
      /\ \A c, e \in S : c # e => NameBefore(cands, c, e) \/ NameBefore(cands, e, c)
      /\ \A c, e, f \in S :
           NameBefore(cands, c, e) /\ NameBefore(cands, e, f) => NameBefore(cands, c, f)
  <2>1. \A c \in S : c.priority \in Nat /\ c.fallbackOnly \in BOOLEAN
    BY CandidateFacts
  <2> QED BY <2>1, NameIsStrict
<1>2. \A x \in S : <<x, x>> \notin R
  BY <1>1 DEF LaterCandidate
<1>3. \A x, y \in S : x # y => <<x, y>> \in R \/ <<y, x>> \in R
  BY <1>1 DEF LaterCandidate
<1>4. ASSUME NEW x \in S, NEW y \in S, NEW z \in S, <<x, y>> \in R, <<y, z>> \in R
      PROVE  <<x, z>> \in R
  <2>1. LaterCandidate(cands, x, y) /\ LaterCandidate(cands, y, z)
    BY <1>4
  <2>2. LaterCandidate(cands, x, z)
    BY <1>1, <2>1 DEF LaterCandidate
  <2> QED BY <2>2
<1> QED BY <1>2, <1>3, <1>4 DEF StrictOrder

\* The list q has the candidates, and one for fallback only has all others before it.
InTheEnd(cands, q) ==
  /\ q \in Seq(ToSet(cands)) /\ q # <<>>
  /\ \A k \in 1 .. Len(q) : q[k].fallbackOnly =>
       \A e \in ToSet(cands) : e.fallbackOnly \/ \E j \in 1 .. k - 1 : q[j] = e

\* The Worker's order of a policy's candidates is such a list, the chosen one first.
LEMMA SmartOrderFacts ==
  ASSUME NEW cands, CandidateList(cands), NEW chosen, Chosen(cands, chosen)
  PROVE  /\ InTheEnd(cands, SmartOrder(cands, chosen))
         /\ SmartOrder(cands, chosen)[1] = chosen
<1> DEFINE S == ToSet(cands) \ {chosen}
           R == {p \in S \X S : LaterCandidate(cands, p[1], p[2])}
           rest == InOrder(S, R)
<1>1. SmartOrder(cands, chosen) = <<chosen>> \o rest
  BY DEF SmartOrder, Sorted, LaterCandidate
<1>2. S \subseteq ToSet(cands) /\ IsFiniteSet(S) /\ chosen \in ToSet(cands)
  BY CandidateFacts, FS_Subset DEF Chosen
<1>3. \A e \in ToSet(cands) : e = chosen \/ e \in S
  OBVIOUS
<1>4. \A c, e \in S : <<c, e>> \in R <=> LaterCandidate(cands, c, e)
  OBVIOUS
<1> HIDE DEF S, R
<1>5. /\ rest \in Seq(S)
      /\ \A x \in S : \E k \in 1 .. Len(rest) : rest[k] = x
      /\ \A i, j \in 1 .. Len(rest) : i < j <=> <<rest[i], rest[j]>> \in R
  <2>1. StrictOrder(S, R)
    BY <1>2, <1>4, LaterIsStrict
  <2> QED BY <1>2, <2>1, OrderedList
<1> HIDE DEF rest
<1>6. PICK q : q = <<chosen>> \o rest
  OBVIOUS
<1>7. /\ q \in Seq(ToSet(cands)) /\ Len(q) = Len(rest) + 1 /\ Len(rest) \in Nat
      /\ q[1] = chosen /\ \A k \in 2 .. Len(q) : q[k] = rest[k - 1]
  <2>1. <<chosen>> \in Seq(ToSet(cands)) /\ Len(<<chosen>>) = 1
    BY <1>2
  <2>2. rest \in Seq(ToSet(cands)) /\ Len(rest) \in Nat
    BY <1>2, <1>5
  <2> QED BY <1>6, <2>1, <2>2
<1>8. \A k \in 1 .. Len(rest) : rest[k] \in S
  BY <1>5
<1>9. ASSUME NEW k \in 1 .. Len(q), q[k].fallbackOnly, NEW e \in ToSet(cands), ~e.fallbackOnly
      PROVE  \E j \in 1 .. k - 1 : q[j] = e
  <2>1. chosen.fallbackOnly => e.fallbackOnly
    BY DEF Chosen
  <2>2. k # 1 /\ k \in 2 .. Len(q)
    BY <1>7, <1>9, <2>1
  <2>3. CASE e = chosen
    <3>1. 1 \in 1 .. k - 1
      BY <1>7, <2>2
    <3> QED BY <1>7, <2>3, <3>1
  <2>4. CASE e \in S
    <3>1. PICK i \in 1 .. Len(rest) : rest[i] = e
      BY <1>5, <2>4
    <3>2. k - 1 \in 1 .. Len(rest) /\ q[k] = rest[k - 1] /\ rest[k - 1] \in S
      BY <1>7, <1>8, <2>2
    <3>3. LaterCandidate(cands, rest[i], rest[k - 1])
      <4>1. e.fallbackOnly \in BOOLEAN /\ q[k].fallbackOnly \in BOOLEAN
        BY <1>2, <1>7, CandidateFacts
      <4> QED BY <1>9, <3>1, <3>2, <4>1 DEF LaterCandidate
    <3>4. i < k - 1
      BY <1>4, <1>5, <1>8, <3>2, <3>3
    <3>5. i + 1 \in 1 .. k - 1 /\ q[i + 1] = e
      BY <1>7, <2>2, <3>1, <3>4, SMTT(30)
    <3> QED BY <3>5
  <2> QED BY <1>3, <2>3, <2>4
<1>10. q # <<>>
  BY <1>7
<1>11. InTheEnd(cands, q)
  BY <1>7, <1>9, <1>10 DEF InTheEnd
<1> QED BY <1>1, <1>6, <1>7, <1>11

\* Without a policy the candidates are tried by their place in the profile.
LEMMA FailoverOrderFacts ==
  ASSUME NEW cands, CandidateList(cands)
  PROVE  FailoverOrder(cands) \in Seq(ToSet(cands))
<1> DEFINE S == ToSet(cands)
           Before(c, e) == \/ c.priority < e.priority
                           \/ c.priority = e.priority /\ NameBefore(cands, c, e)
           R == {p \in S \X S : Before(p[1], p[2])}
<1>1. FailoverOrder(cands) = InOrder(S, R)
  BY DEF FailoverOrder, Sorted
<1>2. /\ IsFiniteSet(S)
      /\ \A c \in S : c.priority \in Nat
      /\ \A c \in S : ~NameBefore(cands, c, c)
      /\ \A c, e \in S : c # e => NameBefore(cands, c, e) \/ NameBefore(cands, e, c)
      /\ \A c, e, f \in S :
           NameBefore(cands, c, e) /\ NameBefore(cands, e, f) => NameBefore(cands, c, f)
  <2>1. IsFiniteSet(S) /\ \A c \in S : c.priority \in Nat
    BY CandidateFacts
  <2> QED BY <2>1, NameIsStrict
<1>3. \A c, e \in S : <<c, e>> \in R <=> Before(c, e)
  OBVIOUS
<1> HIDE DEF S, R
<1>4. StrictOrder(S, R)
  <2>1. \A x \in S : <<x, x>> \notin R
    BY <1>2, <1>3
  <2>2. \A x, y \in S : x # y => <<x, y>> \in R \/ <<y, x>> \in R
    BY <1>2, <1>3
  <2>3. ASSUME NEW x \in S, NEW y \in S, NEW z \in S, <<x, y>> \in R, <<y, z>> \in R
        PROVE  <<x, z>> \in R
    <3>1. Before(x, y) /\ Before(y, z)
      BY <1>3, <2>3
    <3>2. Before(x, z)
      BY <1>2, <3>1
    <3> QED BY <1>3, <3>2
  <2> QED BY <2>1, <2>2, <2>3 DEF StrictOrder
<1>5. InOrder(S, R) \in Seq(S)
  BY <1>2, <1>4, OrderedList
<1> QED BY <1>1, <1>5 DEF S

-----------------------------------------------------------------------------
(* The Worker's plan.                                                      *)

\* In the list of targets, one whose candidate is for fallback only has the targets
\* of all others before it, unless they have been tried.
InTurn(queue, cands, tried) ==
  \A c \in cands : \A k \in 1 .. Len(queue) : queue[k] = c.target /\ c.fallbackOnly =>
    \A e \in cands : \/ e.fallbackOnly \/ e.target \in tried
                     \/ \E j \in 1 .. k - 1 : queue[j] = e.target

\* What a manifest has for a file.
RouteFine(route) ==
  /\ CandidateList(route.cands)
  /\ route.gateways \in Seq(Targets)
  /\ route.type \in {"ipfs", "redirect"} => route.target \in Targets
  /\ route.policy = NoPolicy => \A c \in ToSet(route.cands) : ~c.fallbackOnly
  /\ route.policy # NoPolicy => route.policy.name \in PolicyNames

PlanFine(plan, cands) ==
  /\ plan.how \in {"none", "redirect", "proxy", "gateway", "failover"}
  /\ plan.queue \in Seq(Targets)
  /\ plan.how \in {"redirect", "proxy", "gateway"} => plan.queue # <<>>
  /\ InTurn(plan.queue, cands, {})

\* The targets of candidates, in their order.
LEMMA TargetsOfFacts ==
  ASSUME NEW cands, CandidateList(cands), NEW q \in Seq(ToSet(cands))
  PROVE  /\ TargetsOf(q) \in Seq(Targets) /\ Len(TargetsOf(q)) = Len(q)
         /\ \A k \in 1 .. Len(q) : TargetsOf(q)[k] = q[k].target
<1>1. /\ Len(q) \in Nat /\ DOMAIN q = 1 .. Len(q)
      /\ \A k \in 1 .. Len(q) : q[k] \in ToSet(cands)
  OBVIOUS
<1>2. \A k \in 1 .. Len(q) : q[k].target \in Targets
  BY <1>1, CandidateFacts
<1>3. TargetsOf(q) = [k \in 1 .. Len(q) |-> q[k].target]
  BY <1>1 DEF TargetsOf
<1>4. TargetsOf(q) \in [1 .. Len(q) -> Targets]
  BY <1>2, <1>3
<1>5. TargetsOf(q) \in Seq(Targets)
  BY <1>1, <1>4
<1> QED BY <1>1, <1>3, <1>4, <1>5

\* The chosen candidate alone is tried in turn.
LEMMA AloneInTurn ==
  ASSUME NEW cands, CandidateList(cands), NEW c, Chosen(cands, c)
  PROVE  /\ <<c.target>> \in Seq(Targets) /\ <<c.target>> # <<>>
         /\ InTurn(<<c.target>>, ToSet(cands), {})
<1>1. c.target \in Targets
  BY CandidateFacts DEF Chosen
<1>2. \A e \in ToSet(cands) : e.target = c.target => e = c
  BY DEF Chosen, CandidateList
<1>3. PICK q : q = <<c.target>>
  OBVIOUS
<1>4. q \in Seq(Targets) /\ Len(q) = 1 /\ q[1] = c.target
  BY <1>1, <1>3
<1>5. InTurn(q, ToSet(cands), {})
  <2> SUFFICES ASSUME NEW d \in ToSet(cands), NEW k \in 1 .. Len(q), q[k] = d.target,
                      d.fallbackOnly, NEW e \in ToSet(cands)
               PROVE  e.fallbackOnly
    BY DEF InTurn
  <2>1. d = c
    BY <1>2, <1>4
  <2> QED BY <2>1 DEF Chosen
<1> QED BY <1>3, <1>4, <1>5

\* So are candidates of which those for fallback only come in the end.
LEMMA AllInTurn ==
  ASSUME NEW cands, CandidateList(cands), NEW q, InTheEnd(cands, q)
  PROVE  TargetsOf(q) \in Seq(Targets) /\ InTurn(TargetsOf(q), ToSet(cands), {})
<1>1. q \in Seq(ToSet(cands))
  BY DEF InTheEnd
<1>2. /\ TargetsOf(q) \in Seq(Targets) /\ Len(TargetsOf(q)) = Len(q)
      /\ \A k \in 1 .. Len(q) : TargetsOf(q)[k] = q[k].target
  BY <1>1, TargetsOfFacts
<1>3. \A k \in 1 .. Len(q) : q[k] \in ToSet(cands)
  BY <1>1
<1>4. InTurn(TargetsOf(q), ToSet(cands), {})
  <2> SUFFICES ASSUME NEW d \in ToSet(cands), NEW k \in 1 .. Len(TargetsOf(q)),
                      TargetsOf(q)[k] = d.target, d.fallbackOnly, NEW e \in ToSet(cands),
                      ~e.fallbackOnly
               PROVE  \E j \in 1 .. k - 1 : TargetsOf(q)[j] = e.target
    BY DEF InTurn
  <2>1. k \in 1 .. Len(q) /\ q[k] = d
    BY <1>2, <1>3 DEF CandidateList
  <2>2. PICK j \in 1 .. k - 1 : q[j] = e
    BY <2>1 DEF InTheEnd
  <2>3. j \in 1 .. Len(q)
    BY <2>1, <1>1
  <2> QED BY <1>2, <2>2, <2>3
<1> QED BY <1>2, <1>4

\* Where no candidate is for fallback only, every order will do.
LEMMA AnyTurn ==
  ASSUME NEW cands, \A c \in cands : ~c.fallbackOnly, NEW queue, NEW tried
  PROVE  InTurn(queue, cands, tried)
BY DEF InTurn

\* Whatever the Worker makes of a route is a list of targets to be tried in turn.
LEMMA PlanFacts ==
  ASSUME NEW route, RouteFine(route), NEW failover \in BOOLEAN,
         NEW r, r.client \in Clients \cup {NoClient}, r.path \in Paths
  PROVE  PlanFine(Plan(route, failover, r), ToSet(route.cands))
<1> DEFINE To(t) == [how   |-> IF t \in Insecure THEN "proxy" ELSE "redirect",
                     queue |-> <<t>>]
<1>1. PICK cands : cands = route.cands
  OBVIOUS
<1>2. CandidateList(cands)
  BY <1>1 DEF RouteFine
<1>3. PICK chosen : chosen = WorkerSelect(route.policy, cands, r)
  OBVIOUS
<1>4. PICK plan : plan = Plan(route, failover, r)
  OBVIOUS
<1>5. plan = IF route.policy # NoPolicy /\ cands # <<>>
             THEN IF failover /\ Len(cands) > 1
                  THEN [how   |-> "failover", queue |-> TargetsOf(SmartOrder(cands, chosen))]
                  ELSE IF URLKind[chosen.target] = "ipfs"
                       THEN [how |-> "gateway", queue |-> <<chosen.target>>]
                       ELSE To(chosen.target)
             ELSE CASE route.type = "failover" ->
                         [how   |-> "failover", queue |-> TargetsOf(FailoverOrder(cands))]
                    [] route.type = "ipfs" ->
                         [how   |-> "gateway",
                          queue |-> <<route.target>> \o
                                    Select(route.gateways, LAMBDA t : t # route.target)]
                    [] route.type = "redirect" -> To(route.target)
                    [] OTHER -> NoPlan
  BY <1>1, <1>3, <1>4 DEF Plan
<1>6. \A t : To(t).how \in {"redirect", "proxy"} /\ To(t).queue = <<t>>
  OBVIOUS
<1> HIDE DEF To
<1>7. CASE route.policy # NoPolicy /\ cands # <<>>
  <2>1. Chosen(cands, chosen)
    BY <1>2, <1>3, <1>7, WorkerChooses DEF RouteFine
  <2>2. CASE failover /\ Len(cands) > 1
    <3>1. InTheEnd(cands, SmartOrder(cands, chosen))
      BY <1>2, <2>1, SmartOrderFacts
    <3>2. /\ TargetsOf(SmartOrder(cands, chosen)) \in Seq(Targets)
          /\ InTurn(TargetsOf(SmartOrder(cands, chosen)), ToSet(cands), {})
      BY <1>2, <3>1, AllInTurn
    <3>3. plan.how = "failover" /\ plan.queue = TargetsOf(SmartOrder(cands, chosen))
      BY <1>5, <1>7, <2>2
    <3> QED BY <1>1, <1>4, <3>2, <3>3 DEF PlanFine
  <2>3. CASE ~(failover /\ Len(cands) > 1)
    <3>1. plan.how \in {"gateway", "redirect", "proxy"} /\ plan.queue = <<chosen.target>>
      BY <1>5, <1>6, <1>7, <2>3
    <3>2. /\ <<chosen.target>> \in Seq(Targets) /\ <<chosen.target>> # <<>>
          /\ InTurn(<<chosen.target>>, ToSet(cands), {})
      BY <1>2, <2>1, AloneInTurn
    <3> QED BY <1>1, <1>4, <3>1, <3>2 DEF PlanFine
  <2> QED BY <2>2, <2>3
<1>8. CASE ~(route.policy # NoPolicy /\ cands # <<>>)
  <2>1. \A c \in ToSet(cands) : ~c.fallbackOnly
    BY <1>1, <1>8 DEF RouteFine, ToSet
  <2>2. \A queue : InTurn(queue, ToSet(cands), {})
    BY <2>1, AnyTurn
  <2>3. CASE route.type = "failover"
    <3>1. plan.how = "failover" /\ plan.queue = TargetsOf(FailoverOrder(cands))
      BY <1>5, <1>8, <2>3
    <3>2. TargetsOf(FailoverOrder(cands)) \in Seq(Targets)
      BY <1>2, FailoverOrderFacts, TargetsOfFacts
    <3> QED BY <1>1, <1>4, <2>2, <3>1, <3>2 DEF PlanFine
  <2>4. CASE route.type = "ipfs"
    <3>1. PICK others : others = Select(route.gateways, LAMBDA t : t # route.target)
      OBVIOUS
    <3>2. plan.how = "gateway" /\ plan.queue = <<route.target>> \o others
      BY <1>5, <1>8, <2>4, <3>1
    <3>3. others \in Seq(Targets)
      <4>1. PICK g \in Seq(Targets) : g = route.gateways
        BY DEF RouteFine
      <4>2. PICK K : K = {t \in ToSet(g) : t # route.target}
        OBVIOUS
      <4>3. others = Only(g, K)
        BY <3>1, <4>1, <4>2 DEF Select
      <4> QED BY <4>3, SelectedList
    <3>4. route.target \in Targets
      BY <2>4 DEF RouteFine
    <3>5. <<route.target>> \o others \in Seq(Targets) /\ <<route.target>> \o others # <<>>
      BY <3>3, <3>4
    <3> QED BY <1>1, <1>4, <2>2, <3>2, <3>5 DEF PlanFine
  <2>5. CASE route.type = "redirect"
    <3>1. plan.how \in {"redirect", "proxy"} /\ plan.queue = <<route.target>>
      BY <1>5, <1>6, <1>8, <2>5
    <3>2. <<route.target>> \in Seq(Targets) /\ <<route.target>> # <<>>
      BY <2>5 DEF RouteFine
    <3> QED BY <1>1, <1>4, <2>2, <3>1, <3>2 DEF PlanFine
  <2>6. CASE route.type \notin {"failover", "ipfs", "redirect"}
    <3>1. plan.how = "none" /\ plan.queue = <<>>
      BY <1>5, <1>8, <2>6 DEF NoPlan
    <3> QED BY <1>1, <1>4, <2>2, <3>1 DEF PlanFine
  <2> QED BY <2>3, <2>4, <2>5, <2>6
<1> QED BY <1>7, <1>8

-----------------------------------------------------------------------------
(* What the server knows of its targets.                                   *)

\* The candidates of a policy are a list of candidates.
LEMMA PolicyCandidatesFacts ==
  ASSUME NEW policy, PolicyWellFormed(policy), NEW copies, NEW ill
  PROVE  CandidateList(PolicyCandidates(policy, copies, ill))
<1> DEFINE Sources == [target : Targets, region : STRING, weight : Int,
                       priority : Nat, fallbackOnly : BOOLEAN]
           Normal(s) == [s EXCEPT !.weight = PositiveWeight(s.weight),
                                  !.region = IF s.region = "" THEN policy.region
                                                              ELSE s.region]
<1>1. PICK ss \in Seq(Sources) : ss = policy.sources
  BY DEF PolicyWellFormed
<1>2. \A i, j \in DOMAIN ss : ss[i].target = ss[j].target => i = j
  BY <1>1 DEF PolicyWellFormed
<1>3. PICK K : K = {s \in ToSet(ss) : MayServe(s.target, copies, ill)}
  OBVIOUS
<1>4. PICK ready : ready = Only(ss, K)
  OBVIOUS
<1>5. PICK cands : cands = [i \in DOMAIN ready |-> Normal(ready[i])]
  OBVIOUS
<1>6. PolicyCandidates(policy, copies, ill) = cands
  BY <1>1, <1>3, <1>4, <1>5 DEF PolicyCandidates, Select
<1>7. \A s \in Sources : IsCandidate(Normal(s)) /\ Normal(s).target = s.target
  <2> SUFFICES ASSUME NEW s \in Sources
               PROVE  IsCandidate(Normal(s)) /\ Normal(s).target = s.target
    OBVIOUS
  <2>1. PositiveWeight(s.weight) \in Nat \ {0}
    BY DEF PositiveWeight
  <2>2. /\ Normal(s).target = s.target /\ Normal(s).weight = PositiveWeight(s.weight)
        /\ Normal(s).priority = s.priority /\ Normal(s).fallbackOnly = s.fallbackOnly
    OBVIOUS
  <2> HIDE DEF Normal
  <2> QED BY <2>1, <2>2 DEF IsCandidate
<1> HIDE DEF Normal, Sources
<1>8. ready \in Seq(Sources) /\ ToSet(ready) \subseteq ToSet(ss)
  <2>1. ready \in Seq(Sources)
    BY <1>4, SelectedList
  <2>2. ss \in Seq(Sources) /\ ready = Only(ss, K)
    BY <1>4
  <2>3. ready \in Seq(Sources \cap K) /\ ToSet(ready) = ToSet(ss) \cap K
    BY ONLY <2>2, SelectedList
  <2> QED BY <2>1, <2>3
<1>9. /\ Len(ready) \in Nat /\ DOMAIN ready = 1 .. Len(ready)
      /\ \A k \in 1 .. Len(ready) : ready[k] \in Sources /\ ready[k] \in ToSet(ss)
  BY <1>8, ListFacts
<1>10. \A x, y \in ToSet(ss) : x.target = y.target => x = y
  <2>1. \A x \in ToSet(ss) : \E i \in DOMAIN ss : ss[i] = x
    BY ListFacts, SMTT(30)
  <2> QED BY <1>2, <2>1
<1>11. cands \in Seq({Normal(s) : s \in ToSet(ready)})
  <2>1. \A k \in 1 .. Len(ready) : ready[k] \in ToSet(ready)
    BY <1>8, ListFacts
  <2>2. cands \in [1 .. Len(ready) -> {Normal(s) : s \in ToSet(ready)}]
    BY <1>5, <1>9, <2>1
  <2> QED BY <1>9, <2>2
<1>12. cands \in Seq(ToSet(cands)) /\ ToSet(cands) \subseteq {Normal(s) : s \in ToSet(ready)}
  BY <1>11, ListFacts
<1>13. \A s \in ToSet(ready) : s \in Sources /\ s \in ToSet(ss)
  <2>1. \A s \in ToSet(ready) : \E k \in 1 .. Len(ready) : ready[k] = s
    BY <1>8, ListFacts
  <2> QED BY <1>9, <2>1
<1>14. CandidateList(cands)
  <2>1. ASSUME NEW c \in ToSet(cands) PROVE \E s \in ToSet(ready) : c = Normal(s)
    BY <1>12
  <2>2. \A c \in ToSet(cands) : IsCandidate(c)
    BY <1>7, <1>13, <2>1
  <2>3. ASSUME NEW c \in ToSet(cands), NEW e \in ToSet(cands), c.target = e.target
        PROVE  c = e
    <3>1. PICK s \in ToSet(ready), u \in ToSet(ready) : c = Normal(s) /\ e = Normal(u)
      BY <2>1
    <3>2. s.target = u.target
      BY <1>7, <1>13, <2>3, <3>1
    <3>3. s = u
      BY <1>10, <1>13, <3>2
    <3> QED BY <3>1, <3>3
  <2> QED BY <1>12, <2>2, <2>3 DEF CandidateList
<1> QED BY <1>6, <1>14

\* So are those of a profile, and none of them is for fallback only.
LEMMA FailoverCandidatesFacts ==
  ASSUME NEW copies, NEW ill
  PROVE  /\ CandidateList(FailoverCandidates(copies, ill))
         /\ \A c \in ToSet(FailoverCandidates(copies, ill)) : ~c.fallbackOnly
<1> DEFINE Made(i) == [target |-> Profile[i], region |-> "failover", weight |-> 1,
                       priority |-> i - 1, fallbackOnly |-> FALSE]
<1>1. /\ Len(Profile) \in Nat /\ DOMAIN Profile = 1 .. Len(Profile)
      /\ \A i \in 1 .. Len(Profile) : Profile[i] \in Targets
      /\ \A i, j \in 1 .. Len(Profile) : Profile[i] = Profile[j] => i = j
  BY ProfileAssumption
<1>2. PICK places : places = [i \in DOMAIN Profile |-> i]
  OBVIOUS
<1>3. places \in Seq(1 .. Len(Profile))
  BY <1>1, <1>2
<1>4. PICK K : K = {i \in ToSet(places) : MayServe(Profile[i], copies, ill)}
  OBVIOUS
<1>5. PICK ready : ready = Only(places, K)
  OBVIOUS
<1>6. PICK cands : cands = [k \in DOMAIN ready |-> Made(ready[k])]
  OBVIOUS
<1>7. FailoverCandidates(copies, ill) = cands
  BY <1>2, <1>4, <1>5, <1>6 DEF FailoverCandidates, Select
<1>8. ready \in Seq(1 .. Len(Profile))
  BY <1>3, <1>5, SelectedList
<1>9. /\ Len(ready) \in Nat /\ DOMAIN ready = 1 .. Len(ready)
      /\ \A k \in 1 .. Len(ready) : ready[k] \in 1 .. Len(Profile)
  BY <1>8
<1>10. \A i \in 1 .. Len(Profile) : /\ IsCandidate(Made(i)) /\ ~Made(i).fallbackOnly
                                    /\ Made(i).target = Profile[i]
  BY <1>1 DEF IsCandidate
<1> HIDE DEF Made
<1>11. cands \in [1 .. Len(ready) -> {Made(i) : i \in 1 .. Len(Profile)}]
  BY <1>6, <1>9
<1>12. cands \in Seq({Made(i) : i \in 1 .. Len(Profile)})
  BY <1>9, <1>11
<1>13. /\ cands \in Seq(ToSet(cands))
       /\ ToSet(cands) \subseteq {Made(i) : i \in 1 .. Len(Profile)}
  BY <1>12, ListFacts
<1>14. ASSUME NEW c \in ToSet(cands)
       PROVE  \E i \in 1 .. Len(Profile) : c = Made(i)
  BY <1>13
<1>15. \A c \in ToSet(cands) : IsCandidate(c) /\ ~c.fallbackOnly
  BY <1>10, <1>14
<1>16. ASSUME NEW c \in ToSet(cands), NEW e \in ToSet(cands), c.target = e.target
       PROVE  c = e
  <2>1. PICK i \in 1 .. Len(Profile), j \in 1 .. Len(Profile) : c = Made(i) /\ e = Made(j)
    BY <1>14
  <2>2. Profile[i] = Profile[j]
    BY <1>10, <1>16, <2>1
  <2> QED BY <1>1, <2>1, <2>2
<1> QED BY <1>7, <1>13, <1>15, <1>16 DEF CandidateList

\* The replicas of an object that are ready, the primary before others.
LEMMA ReadyFacts ==
  ASSUME NEW copies, NEW main \in Targets
  PROVE  /\ ReadyInOrder(copies, main) \in Seq(Targets)
         /\ PrimaryURL(copies, main) \in Targets \cup {NoTarget}
         /\ AnyURL(copies, main) \in Targets \cup {NoTarget}
<1>1. ASSUME NEW s \in Seq(Targets), NEW K
      PROVE  Only(s, K) \in Seq(Targets)
  BY SelectedList
<1>2. Profile \in Seq(Targets)
  BY ProfileAssumption
<1>3. ServeOrder(main) \in Seq(Targets)
  <2>1. PICK others : others = Select(Profile, LAMBDA t : t # main)
    OBVIOUS
  <2>2. others \in Seq(Targets)
    BY <1>1, <1>2, <2>1 DEF Select
  <2>3. <<main>> \o others \in Seq(Targets)
    BY <2>2
  <2> QED BY <2>1, <2>3 DEF ServeOrder
<1>4. ReadyInOrder(copies, main) \in Seq(Targets)
  BY <1>1, <1>3 DEF ReadyInOrder, Select
<1>5. PICK direct : direct = Select(ReadyInOrder(copies, main), LAMBDA t : URLKind[t] # "none")
  OBVIOUS
<1>6. direct \in Seq(Targets)
  BY <1>1, <1>4, <1>5 DEF Select
<1>7. direct # <<>> => Head(direct) \in Targets
  BY <1>6
<1> QED BY <1>4, <1>5, <1>7 DEF AnyURL, PrimaryURL

-----------------------------------------------------------------------------
(* The route of a file.                                                    *)

\* With candidates of a policy, these and the policy are the route; without, but for
\* the failover among copies, it is the primary's direct URL, if it has one.
PolicyRoute(route, policy, cands) == route.policy = policy /\ route.cands = cands

DirectRoute(route, direct) ==
  /\ route.policy = NoPolicy /\ route.cands = <<>>
  /\ direct = NoTarget => route.type = "origin"
  /\ direct # NoTarget =>
       /\ route.type = IF URLKind[direct] = "ipfs" THEN "ipfs" ELSE "redirect"
       /\ route.target = direct

Route(type, target, cands, policy, gateways) ==
  [type |-> type, target |-> target, cands |-> cands, policy |-> policy,
   gateways |-> gateways]

Plain(gateways) == Route("origin", NoTarget, <<>>, NoPolicy, gateways)

Set4(route, type, target, cands, policy) ==
  [route EXCEPT !.type = type, !.target = target, !.cands = cands, !.policy = policy]

Set3(route, type, target, cands) ==
  [route EXCEPT !.type = type, !.target = target, !.cands = cands]

Set2(route, type, target) == [route EXCEPT !.type = type, !.target = target]

\* A route that is set up field by field.
LEMMA RouteMade ==
  ASSUME NEW ty, NEW t, NEW cs, NEW p, NEW g, NEW plain, plain = Plain(g)
  PROVE  /\ Set4(plain, ty, t, cs, p) = Route(ty, t, cs, p, g)
         /\ Set3(plain, ty, t, cs) = Route(ty, t, cs, NoPolicy, g)
         /\ Set2(plain, ty, t) = Route(ty, t, <<>>, NoPolicy, g)
<1>1. /\ DOMAIN plain = {"type", "target", "cands", "policy", "gateways"}
      /\ plain = [f \in DOMAIN plain |-> plain[f]]
      /\ plain["cands"] = <<>> /\ plain["policy"] = NoPolicy /\ plain["gateways"] = g
  BY DEF Plain, Route
<1>2. ASSUME NEW q, q = [plain EXCEPT !.type = ty, !.target = t, !.cands = cs, !.policy = p]
      PROVE  q = Route(ty, t, cs, p, g)
  <2>1. DOMAIN q = DOMAIN plain /\ q = [f \in DOMAIN q |-> q[f]]
    BY <1>1, <1>2
  <2>2. q["type"] = ty /\ q["target"] = t /\ q["cands"] = cs
    BY <1>1, <1>2
  <2>3. q["policy"] = p /\ q["gateways"] = g
    BY <1>1, <1>2
  <2> QED BY <1>1, <2>1, <2>2, <2>3 DEF Route
<1>3. ASSUME NEW q, q = [plain EXCEPT !.type = ty, !.target = t, !.cands = cs]
      PROVE  q = Route(ty, t, cs, NoPolicy, g)
  <2>1. DOMAIN q = DOMAIN plain /\ q = [f \in DOMAIN q |-> q[f]]
    BY <1>1, <1>3
  <2>2. q["type"] = ty /\ q["target"] = t /\ q["cands"] = cs
    BY <1>1, <1>3
  <2>3. q["policy"] = NoPolicy /\ q["gateways"] = g
    BY <1>1, <1>3
  <2> QED BY <1>1, <2>1, <2>2, <2>3 DEF Route
<1>4. ASSUME NEW q, q = [plain EXCEPT !.type = ty, !.target = t]
      PROVE  q = Route(ty, t, <<>>, NoPolicy, g)
  <2>1. DOMAIN q = DOMAIN plain /\ q = [f \in DOMAIN q |-> q[f]]
    BY <1>1, <1>4
  <2>2. q["type"] = ty /\ q["target"] = t /\ q["cands"] = <<>>
    BY <1>1, <1>4
  <2>3. q["policy"] = NoPolicy /\ q["gateways"] = g
    BY <1>1, <1>4
  <2> QED BY <1>1, <2>1, <2>2, <2>3 DEF Route
<1> QED BY <1>2, <1>3, <1>4 DEF Set4, Set3, Set2

\* What the manifest says of a file is a route, and which.
LEMMA RouteFacts ==
  ASSUME NEW policy, policy # NoPolicy => PolicyWellFormed(policy),
         NEW failover \in BOOLEAN, NEW copies, NEW ill, NEW main \in Targets
  PROVE  LET route == RouteForFile("redirect", policy, failover, copies, ill, main)
             cands == PolicyCandidates(policy, copies, ill)
         IN  /\ RouteFine(route)
             /\ policy # NoPolicy /\ cands # <<>> => PolicyRoute(route, policy, cands)
             /\ policy # NoPolicy /\ cands = <<>> => DirectRoute(route, PrimaryURL(copies, main))
             /\ policy = NoPolicy /\ ~failover => DirectRoute(route, PrimaryURL(copies, main))
             /\ policy = NoPolicy => route.policy = NoPolicy
<1> DEFINE TypeOf(t) == IF URLKind[t] = "ipfs" THEN "ipfs" ELSE "redirect"
           pins == Select(Profile, LAMBDA t : URLKind[t] = "ipfs" /\ copies[t] # "none")
           cands == IF policy # NoPolicy THEN PolicyCandidates(policy, copies, ill)
                                         ELSE FailoverCandidates(copies, ill)
           first == IF cands = <<>> THEN NoTarget ELSE cands[1].target
           direct == PrimaryURL(copies, main)
           plain == [OriginRoute EXCEPT !.gateways = pins]
           route == RouteForFile("redirect", policy, failover, copies, ill, main)
<1>1. plain = Plain(pins)
  <2>1. PICK g : g = pins
    OBVIOUS
  <2>2. [OriginRoute EXCEPT !.gateways = g] = Plain(g)
    BY DEF OriginRoute, Plain, Route
  <2> QED BY <2>1, <2>2
<1>2. cands = IF policy # NoPolicy THEN PolicyCandidates(policy, copies, ill)
                                   ELSE FailoverCandidates(copies, ill)
  OBVIOUS
<1>3. first = IF cands = <<>> THEN NoTarget ELSE cands[1].target
  OBVIOUS
<1>4. direct = PrimaryURL(copies, main)
  OBVIOUS
<1>5. pins = Select(Profile, LAMBDA t : URLKind[t] = "ipfs" /\ copies[t] # "none")
  OBVIOUS
<1>7. route = RouteForFile("redirect", policy, failover, copies, ill, main)
  OBVIOUS
<1>8. route = CASE policy # NoPolicy /\ Len(cands) >= 2 ->
                     Set4(plain, "smart", first, cands, policy)
                [] policy # NoPolicy /\ Len(cands) = 1 ->
                     Set4(plain, TypeOf(first), first, cands, policy)
                [] policy = NoPolicy /\ failover -> Set3(plain, "failover", first, cands)
                [] OTHER -> IF direct = NoTarget THEN plain
                            ELSE Set2(plain, TypeOf(direct), direct)
  BY Zenon DEF RouteForFile, Set4, Set3, Set2
<1>16. TypeOf(first) \in {"ipfs", "redirect"} /\ TypeOf(direct) \in {"ipfs", "redirect"}
  OBVIOUS
<1> HIDE DEF pins, cands, first, direct, plain, route, TypeOf
<1>9. CandidateList(cands)
  BY <1>2, PolicyCandidatesFacts, FailoverCandidatesFacts
<1>10. pins \in Seq(Targets)
  <2>1. Profile \in Seq(Targets)
    BY ProfileAssumption
  <2>2. PICK K : K = {t \in ToSet(Profile) : URLKind[t] = "ipfs" /\ copies[t] # "none"}
    OBVIOUS
  <2>3. pins = Only(Profile, K)
    BY <1>5, <2>2 DEF Select
  <2> QED BY <2>1, <2>3, SelectedList
<1>11. Len(cands) \in Nat /\ (cands = <<>> <=> Len(cands) = 0)
       /\ (cands # <<>> => first \in Targets)
  <2>1. cands \in Seq(ToSet(cands))
    BY <1>9 DEF CandidateList
  <2>2. cands # <<>> => cands[1] \in ToSet(cands)
    BY <2>1, ListFacts
  <2>3. Len(cands) \in Nat /\ (cands = <<>> <=> Len(cands) = 0)
    BY <2>1, ListFacts
  <2> QED BY <1>3, <1>9, <2>2, <2>3, CandidateFacts
<1>12. direct \in Targets \cup {NoTarget}
  BY <1>4, ReadyFacts
<1>17. CandidateList(<<>>)
  <2>1. ToSet(<<>>) = {}
    BY DEF ToSet
  <2>2. <<>> \in Seq({})
    OBVIOUS
  <2> QED BY <2>1, <2>2 DEF CandidateList
<1>18. CASE policy # NoPolicy /\ cands # <<>>
  <2> DEFINE ty == IF Len(cands) >= 2 THEN "smart" ELSE TypeOf(first)
  <2>1. route = Route(ty, first, cands, policy, pins)
    <3>1. route = Set4(plain, ty, first, cands, policy)
      <4>1. Len(cands) >= 2 \/ Len(cands) = 1
        <5>1. PICK n \in Nat : n = Len(cands)
          BY <1>11
        <5>2. n # 0 => n >= 2 \/ n = 1
          BY <5>1
        <5>3. n # 0
          BY <1>11, <1>18, <5>1
        <5> QED BY <5>1, <5>2, <5>3
      <4>2. Len(cands) >= 2 => Len(cands) # 1
        <5>1. PICK n \in Nat : n = Len(cands)
          BY <1>11
        <5>2. n >= 2 => n # 1
          OBVIOUS
        <5> QED BY <5>1, <5>2
      <4>3. CASE Len(cands) >= 2
        <5>1. route = Set4(plain, "smart", first, cands, policy)
          BY <1>8, <1>18, <4>2, <4>3, Zenon
        <5> QED BY <4>3, <5>1
      <4>4. CASE Len(cands) = 1
        <5>1. ~(Len(cands) >= 2)
          BY <4>4
        <5>2. route = Set4(plain, TypeOf(first), first, cands, policy)
          BY <1>8, <1>18, <4>4, <5>1, Zenon
        <5> QED BY <5>1, <5>2
      <4> QED BY <4>1, <4>3, <4>4
    <3> HIDE DEF ty
    <3> QED BY <1>1, <3>1, RouteMade
  <2> HIDE DEF ty
  <2>2. /\ route.policy = policy /\ route.cands = cands /\ route.target = first
        /\ route.gateways = pins
    BY <2>1 DEF Route
  <2>3. cands = PolicyCandidates(policy, copies, ill)
    BY <1>2, <1>18
  <2> QED BY <1>7, <1>9, <1>10, <1>11, <1>18, <2>2, <2>3 DEF RouteFine, PolicyRoute, PolicyWellFormed
<1>19. CASE policy = NoPolicy /\ failover
  <2>1. route = Route("failover", first, cands, NoPolicy, pins)
    <3>1. route = Set3(plain, "failover", first, cands)
      BY <1>8, <1>19
    <3> QED BY <1>1, <3>1, RouteMade
  <2>2. /\ route.policy = NoPolicy /\ route.cands = cands /\ route.type = "failover"
        /\ route.gateways = pins
    BY <2>1 DEF Route
  <2>3. \A c \in ToSet(cands) : ~c.fallbackOnly
    BY <1>2, <1>19, FailoverCandidatesFacts
  <2> QED BY <1>7, <1>9, <1>10, <1>19, <2>2, <2>3 DEF RouteFine
<1>20. CASE (policy # NoPolicy /\ cands = <<>>) \/ (policy = NoPolicy /\ ~failover)
  <2>1. route = IF direct = NoTarget THEN plain
                ELSE Set2(plain, TypeOf(direct), direct)
    BY <1>8, <1>11, <1>20
  <2>2. route = IF direct = NoTarget THEN Plain(pins)
                ELSE Route(TypeOf(direct), direct, <<>>, NoPolicy, pins)
    BY <1>1, <2>1, RouteMade DEF Plain
  <2>3. /\ route.policy = NoPolicy /\ route.cands = <<>> /\ route.gateways = pins
        /\ direct = NoTarget => route.type = "origin"
        /\ direct # NoTarget => route.type = TypeOf(direct) /\ route.target = direct
    BY <2>2 DEF Plain, Route
  <2>4. ToSet(<<>>) = {}
    BY DEF ToSet
  <2>5. RouteFine(route)
    BY <1>10, <1>12, <1>17, <2>3, <2>4 DEF RouteFine
  <2>6. DirectRoute(route, direct)
    BY <2>3 DEF DirectRoute, TypeOf
  <2> QED BY <1>2, <1>4, <1>7, <1>20, <2>3, <2>5, <2>6
<1> QED BY <1>18, <1>19, <1>20
Fields == {"pc", "r", "dep", "force", "queue", "how", "cands", "offered", "tried",
           "reply", "answer", "atOrigin", "steady", "live", "online"}

IsRequest(q) == q = [f \in Fields |-> q[f]]

IsAnswer(a) == a = [f \in {"by", "kind", "status", "dep", "target"} |-> a[f]]

AtServer == {"serve", "deployment", "file", "stream", "resolve", "storage"}

-----------------------------------------------------------------------------
(* The invariant.                                                          *)

\* What a request has seen.
Sees(q) ==
  /\ q.live \subseteq published
  /\ active # None => active \in q.live
  /\ online => q.online

\* Where it is says where it came through.
Path(q) ==
  /\ q.r \in Requests
  /\ q.pc \in AtServer => q.atOrigin
  /\ q.pc = "cache" => ~StaticEnabled
  /\ q.r.via = "worker" /\ q.r.path \in Assets /\ StaticEnabled => ~q.atOrigin
  /\ q.r.path \in SitePaths =>
       /\ q.pc = "deployment" => q.online
       /\ q.pc \in {"file", "stream"} => q.online /\ q.dep \in q.live
       /\ q.reply.dep # None => q.reply.dep \in q.live /\ q.online

RequestInv(q) ==
  /\ IsRequest(q) /\ IsAnswer(q.reply)
  /\ q.pc # "idle" => Sees(q) /\ Path(q)
  /\ q.pc = "idle" => q.reply.dep = None

KeptInv ==
  /\ cache = [p \in Paths |-> cache[p]]
  /\ \A p \in SitePaths : cache[p] # None => cache[p].dep \in published \cup {None}
  /\ \A w \in late : w.path \in SitePaths => w.holds.dep \in published \cup {None}

Inv ==
  /\ active # None => active \in published
  /\ KeptInv
  /\ RequestInv(req)

GivenUp == {"failover_failed", "gateway_failed", "proxy_failed", "stream_failed"}

NoneLeft(q) == q.offered \cap q.steady = {}

\* The targets that have been up all along are still to be tried.
Queue(q) ==
  /\ q.steady \cap down = {}
  /\ q.pc = "fetch" => q.how \notin GivenUp
  /\ q.pc \in {"fetch", "stream"} => q.offered \cap q.steady \subseteq ToSet(q.queue)
  /\ q.pc = "resolve" /\ q.reply.kind \in GivenUp => NoneLeft(q)
  /\ q.pc = "done" /\ q.answer.kind \in GivenUp => NoneLeft(q)

QueueInv ==
  /\ req.pc # "idle" => Queue(req)
  /\ req.pc # "done" => req.answer = NoAnswer
  /\ \A p \in Paths : cache[p] # None => cache[p].kind = "kept"
  /\ \A w \in late : w.holds.kind = "kept"

-----------------------------------------------------------------------------
(* Requests and answers.                                                   *)

\* n is q at another place.
Carries(q, n) ==
  /\ IsRequest(n)
  /\ n.r = q.r /\ n.live = q.live /\ n.online = q.online /\ n.steady = q.steady

\* The request n may follow on the one in flight.
Fine(n) ==
  /\ RequestInv(n)
  /\ QueueInv /\ req.queue \in Seq(Targets) =>
       /\ n.pc # "idle" => Queue(n)
       /\ n.pc # "done" => n.answer = NoAnswer

\* An answer is what it is made of.
LEMMA AnswerFacts ==
  ASSUME NEW by, NEW kind, NEW status, NEW dep, NEW target
  PROVE  LET a == Answer(by, kind, status, dep, target)
             f == Failure(by, kind, status)
         IN  /\ IsAnswer(a) /\ a.kind = kind /\ a.dep = dep /\ a.status = status
             /\ IsAnswer(f) /\ f.kind = kind /\ f.dep = None /\ f.status = status
BY DEF Answer, Failure, IsAnswer

\* No answer is an answer.
LEMMA NoAnswerFacts == IsAnswer(NoAnswer) /\ NoAnswer.dep = None /\ NoAnswer.kind = "none"
BY DEF NoAnswer, IsAnswer

\* A request moves on, with all that it has.
LEMMA MovedFacts ==
  ASSUME IsRequest(req), NEW pc
  PROVE  LET n == Moved(pc)
         IN  /\ Carries(req, n) /\ n.pc = pc
             /\ n.reply = req.reply /\ n.answer = req.answer /\ n.dep = req.dep
             /\ n.atOrigin = req.atOrigin /\ n.offered = req.offered /\ n.queue = req.queue
             /\ n.how = req.how /\ n.cands = req.cands /\ n.tried = req.tried
BY DEF Moved, Carries, IsRequest, Fields

\* A request is answered.
LEMMA AnsweredFacts ==
  ASSUME NEW q, IsRequest(q), NEW a
  PROVE  LET n == Answered(a, q)
         IN  /\ Carries(q, n) /\ n.pc = "done" /\ n.answer = a
             /\ n.reply = q.reply /\ n.atOrigin = q.atOrigin /\ n.offered = q.offered
             /\ n.queue = <<>> /\ n.dep = q.dep /\ n.cands = q.cands /\ n.tried = q.tried
<1> DEFINE n == Answered(a, q)
<1>1. DOMAIN q = Fields /\ q = [f \in DOMAIN q |-> q[f]]
  BY DEF IsRequest
<1>2. DOMAIN n = Fields /\ n = [f \in DOMAIN n |-> n[f]]
  BY <1>1 DEF Answered
<1>3. n["pc"] = "done" /\ n["answer"] = a
  BY <1>1 DEF Answered, Fields
<1>4. /\ n["r"] = q["r"] /\ n["live"] = q["live"]
      /\ n["online"] = q["online"] /\ n["steady"] = q["steady"]
  BY <1>1 DEF Answered, Fields
<1>5. n["reply"] = q["reply"] /\ n["atOrigin"] = q["atOrigin"] /\ n["offered"] = q["offered"]
  BY <1>1 DEF Answered, Fields
<1>6. IsRequest(n)
  <2> HIDE DEF n
  <2> QED BY <1>2 DEF IsRequest
<1>7. /\ n["queue"] = <<>> /\ n["dep"] = q["dep"]
      /\ n["cands"] = q["cands"] /\ n["tried"] = q["tried"]
  BY <1>1 DEF Answered, Fields
<1> QED BY <1>3, <1>4, <1>5, <1>6, <1>7 DEF Carries

\* A request is given the server's reply.
LEMMA ReplyFacts ==
  ASSUME NEW q, IsRequest(q), NEW a
  PROVE  LET n == Reply(a, q)
         IN  /\ Carries(q, n) /\ n.pc = "resolve" /\ n.reply = a
             /\ n.answer = q.answer /\ n.atOrigin = q.atOrigin /\ n.offered = q.offered
             /\ n.dep = q.dep /\ n.queue = q.queue
             /\ n.cands = q.cands /\ n.tried = q.tried
<1> DEFINE n == Reply(a, q)
<1>1. DOMAIN q = Fields /\ q = [f \in DOMAIN q |-> q[f]]
  BY DEF IsRequest
<1>2. DOMAIN n = Fields /\ n = [f \in DOMAIN n |-> n[f]]
  BY <1>1 DEF Reply
<1>3. n["pc"] = "resolve" /\ n["reply"] = a
  BY <1>1 DEF Reply, Fields
<1>4. /\ n["r"] = q["r"] /\ n["live"] = q["live"]
      /\ n["online"] = q["online"] /\ n["steady"] = q["steady"]
  BY <1>1 DEF Reply, Fields
<1>5. /\ n["answer"] = q["answer"] /\ n["atOrigin"] = q["atOrigin"] /\ n["offered"] = q["offered"]
      /\ n["dep"] = q["dep"] /\ n["queue"] = q["queue"]
  BY <1>1 DEF Reply, Fields
<1>6. IsRequest(n)
  <2> HIDE DEF n
  <2> QED BY <1>2 DEF IsRequest
<1>7. n["cands"] = q["cands"] /\ n["tried"] = q["tried"]
  BY <1>1 DEF Reply, Fields
<1> QED BY <1>3, <1>4, <1>5, <1>6, <1>7 DEF Carries

\* A request goes to the server.
LEMMA AskServerFacts ==
  ASSUME IsRequest(req), NEW how
  PROVE  LET n == AskServer(how)
         IN  /\ Carries(req, n) /\ n.pc = "serve" /\ n.atOrigin = TRUE
             /\ n.reply = req.reply /\ n.answer = req.answer /\ n.offered = req.offered
             /\ n.tried = req.tried /\ n.cands = {} /\ n.dep = req.dep /\ n.queue = req.queue
             /\ n.how = how
<1> DEFINE n == AskServer(how)
           m == Moved("serve")
<1>1. DOMAIN req = Fields /\ req = [f \in DOMAIN req |-> req[f]]
  BY DEF IsRequest
<1>2. DOMAIN m = Fields /\ m = [f \in DOMAIN m |-> m[f]]
  BY <1>1 DEF Moved
<1>3. /\ m["pc"] = "serve" /\ m["r"] = req["r"] /\ m["live"] = req["live"]
      /\ m["online"] = req["online"] /\ m["steady"] = req["steady"]
      /\ m["reply"] = req["reply"] /\ m["answer"] = req["answer"]
      /\ m["offered"] = req["offered"] /\ m["tried"] = req["tried"]
      /\ m["dep"] = req["dep"] /\ m["queue"] = req["queue"]
  BY <1>1 DEF Moved, Fields
<1>4. DOMAIN n = Fields /\ n = [f \in DOMAIN n |-> n[f]]
  <2> HIDE DEF m
  <2> QED BY <1>2 DEF AskServer, m
<1>5. /\ n["pc"] = m["pc"] /\ n["r"] = m["r"] /\ n["live"] = m["live"]
      /\ n["online"] = m["online"] /\ n["steady"] = m["steady"]
      /\ n["reply"] = m["reply"] /\ n["answer"] = m["answer"]
      /\ n["offered"] = m["offered"] /\ n["tried"] = m["tried"]
      /\ n["atOrigin"] = TRUE
  BY <1>2 DEF AskServer, Fields
<1>7. /\ n["cands"] = {} /\ n["how"] = how
      /\ n["dep"] = m["dep"] /\ n["queue"] = m["queue"]
  BY <1>2 DEF AskServer, Fields
<1>6. IsRequest(n)
  <2> HIDE DEF n
  <2> QED BY <1>4 DEF IsRequest
<1> QED BY <1>3, <1>5, <1>6, <1>7 DEF Carries

-----------------------------------------------------------------------------
(* Steps of the request.                                                   *)

\* What a step has to keep.
Keeps == Inv' /\ (QueueInv /\ req.queue \in Seq(Targets) => QueueInv')

\* A write to the cache that may be under way.
MayBeKept(w) ==
  /\ w.path \in SitePaths => w.holds.dep \in published \cup {None}
  /\ w.holds.kind = "kept"

\* If a request may follow, the step keeps everything.
LEMMA StepKeeps ==
  ASSUME Inv, NEW n, Step(n), Fine(n), cache' = cache,
         late' = late \/ \E w : MayBeKept(w) /\ late' = late \cup {w}
  PROVE  Keeps
<1>1. /\ req' = n /\ env' = env /\ online' = online /\ active' = active
      /\ published' = published /\ down' = down
  BY DEF Step, world
<1>2. RequestInv(n)
  BY DEF Fine
<1>3. RequestInv(req)'
  BY <1>1, <1>2 DEF RequestInv, Sees, Path, StaticEnabled
<1>4. KeptInv'
  BY <1>1 DEF Inv, KeptInv, MayBeKept
<1>5. Inv'
  BY <1>1, <1>3, <1>4 DEF Inv
<1>6. ASSUME QueueInv, req.queue \in Seq(Targets)
      PROVE  QueueInv'
  <2>1. /\ n.pc # "idle" => Queue(n)
        /\ n.pc # "done" => n.answer = NoAnswer
    BY <1>6 DEF Fine
  <2>2. req'.pc # "idle" => Queue(req)'
    BY <1>1, <2>1 DEF Queue, NoneLeft
  <2> QED BY <1>1, <1>6, <2>1, <2>2 DEF QueueInv, MayBeKept
<1> QED BY <1>5, <1>6 DEF Keeps

\* An answer goes out.
LEMMA AnsweredFine ==
  ASSUME Inv, req.pc # "idle", NEW q, Carries(req, q), q.reply = req.reply,
         q.atOrigin = req.atOrigin, q.offered = req.offered,
         NEW a, QueueInv /\ a.kind \in GivenUp => NoneLeft(req)
  PROVE  Fine(Answered(a, q))
<1>1. PICK n : n = Answered(a, q)
  OBVIOUS
<1>2. /\ Carries(q, n) /\ n.pc = "done" /\ n.answer = a
      /\ n.reply = q.reply /\ n.atOrigin = q.atOrigin /\ n.offered = q.offered
  BY <1>1, AnsweredFacts DEF Carries
<1>3. RequestInv(n)
  BY <1>2 DEF Inv, RequestInv, Carries, Sees, Path, AtServer
<1>4. ASSUME QueueInv
      PROVE  Queue(n)
  BY <1>2, <1>4 DEF QueueInv, Queue, NoneLeft, Carries
<1> QED BY <1>1, <1>2, <1>3, <1>4 DEF Fine

\* The server replies.
LEMMA ReplyFine ==
  ASSUME Inv, req.pc \notin {"idle", "done"}, req.atOrigin,
         NEW q, Carries(req, q), q.answer = req.answer,
         q.atOrigin = req.atOrigin, q.offered = req.offered,
         NEW a, IsAnswer(a),
         a.dep # None /\ req.r.path \in SitePaths => a.dep \in req.live /\ req.online,
         QueueInv /\ a.kind \in GivenUp => NoneLeft(req)
  PROVE  Fine(Reply(a, q))
<1>1. PICK n : n = Reply(a, q)
  OBVIOUS
<1>2. /\ Carries(q, n) /\ n.pc = "resolve" /\ n.reply = a /\ n.answer = q.answer
      /\ n.atOrigin = q.atOrigin /\ n.offered = q.offered
  <2>1. IsRequest(q)
    BY DEF Carries
  <2>2. Carries(q, n)
    BY <1>1, <2>1, ReplyFacts
  <2>3. n.pc = "resolve"
    BY <1>1, <2>1, ReplyFacts
  <2>4. n.reply = a
    BY <1>1, <2>1, ReplyFacts
  <2>5. n.answer = q.answer
    BY <1>1, <2>1, ReplyFacts
  <2>6. n.atOrigin = q.atOrigin /\ n.offered = q.offered
    BY <1>1, <2>1, ReplyFacts
  <2> QED BY <2>2, <2>3, <2>4, <2>5, <2>6
<1>3. RequestInv(n)
  BY <1>2 DEF Inv, RequestInv, Carries, Sees, Path, AtServer
<1>4. ASSUME QueueInv
      PROVE  Queue(n) /\ n.answer = NoAnswer
  BY <1>2, <1>4 DEF QueueInv, Queue, NoneLeft, Carries
<1> QED BY <1>1, <1>2, <1>3, <1>4 DEF Fine

\* The request moves on by itself.
LEMMA MovedFine ==
  ASSUME Inv, req.pc \notin {"idle", "done"}, NEW n, Carries(req, n), NEW pc, n.pc = pc,
         n.reply = req.reply, n.answer = req.answer,
         n.atOrigin = req.atOrigin,
         pc \notin {"idle", "fetch", "stream", "resolve", "done"},
         pc \in AtServer => req.atOrigin,
         pc = "cache" => ~StaticEnabled,
         req.r.path \in SitePaths =>
           /\ pc = "deployment" => req.online
           /\ pc = "file" => req.online /\ n.dep \in req.live
  PROVE  Fine(n)
<1>1. RequestInv(n)
  BY DEF Inv, RequestInv, Carries, Sees, Path
<1>2. ASSUME QueueInv
      PROVE  Queue(n) /\ n.answer = NoAnswer
  BY <1>2 DEF QueueInv, Queue, Carries
<1> QED BY <1>1, <1>2 DEF Fine

\* The request goes to the server, unless it is for an asset that stays at the edge.
LEMMA AskServerFine ==
  ASSUME Inv, req.pc \notin {"idle", "done"}, NEW n, Carries(req, n), n.pc = "serve",
         n.reply = req.reply, n.answer = req.answer, n.atOrigin = TRUE,
         req.atOrigin \/ ~StaticEnabled \/ req.r.path \notin Assets
  PROVE  Fine(n)
<1>1. RequestInv(n)
  BY DEF Inv, RequestInv, Carries, Sees, Path, AtServer
<1>2. ASSUME QueueInv
      PROVE  Queue(n) /\ n.answer = NoAnswer
  BY <1>2 DEF QueueInv, Queue, Carries
<1> QED BY <1>1, <1>2 DEF Fine

-----------------------------------------------------------------------------
(* The actions, at the edge.                                               *)

\* A request arrives.
LEMMA ArriveKeeps ==
  ASSUME Inv, NEW r \in Requests, Arrive(r)
  PROVE  Keeps
<1>1. PICK n : n = [Idle EXCEPT
              !.pc = IF r.via = "origin" THEN "serve"
                     ELSE IF r.method = "POST" THEN "refuse" ELSE "manifest",
              !.r = r, !.atOrigin = r.via = "origin",
              !.steady = Targets \ down,
              !.live = {active} \ {None},
              !.online = online]
  OBVIOUS
<1>2. req.pc = "idle" /\ Step(n) /\ cache' = cache /\ late' = late
  BY <1>1 DEF Arrive
<1>3. DOMAIN Idle = Fields /\ Idle = [f \in DOMAIN Idle |-> Idle[f]]
      /\ Idle["reply"] = NoAnswer /\ Idle["answer"] = NoAnswer
  BY DEF Idle, Fields
<1>4. IsRequest(n)
  BY <1>1, <1>3 DEF IsRequest
<1>5. /\ n["pc"] = IF r.via = "origin" THEN "serve"
                   ELSE IF r.method = "POST" THEN "refuse" ELSE "manifest"
      /\ n["r"] = r /\ n["atOrigin"] = (r.via = "origin")
  BY <1>1, <1>3 DEF Fields
<1>6. n["steady"] = Targets \ down /\ n["live"] = {active} \ {None} /\ n["online"] = online
  BY <1>1, <1>3 DEF Fields
<1>7. n["reply"] = NoAnswer /\ n["answer"] = NoAnswer
  BY <1>1, <1>3 DEF Fields
<1>8. /\ n.pc \in {"serve", "refuse", "manifest"}
      /\ n.pc = "serve" <=> r.via = "origin"
  BY <1>5
<1>9. RequestInv(n)
  BY <1>4, <1>5, <1>6, <1>7, <1>8, NoAnswerFacts DEF RequestInv, Sees, Path, AtServer, Inv
<1>10. Queue(n)
  BY <1>6, <1>8 DEF Queue
<1>11. Fine(n)
  BY <1>7, <1>9, <1>10 DEF Fine
<1> QED BY <1>2, <1>11, StepKeeps

\* The connection is free again.
LEMMA LeaveKeeps ==
  ASSUME Inv, Leave
  PROVE  Keeps
<1>1. Step(Idle) /\ cache' = cache /\ late' = late
  BY DEF Leave
<1>2. IsRequest(Idle) /\ Idle.pc = "idle" /\ Idle.reply = NoAnswer /\ Idle.answer = NoAnswer
  BY DEF Idle, IsRequest, Fields
<1>3. Fine(Idle)
  BY <1>2, NoAnswerFacts DEF Fine, RequestInv
<1> QED BY <1>1, <1>3, StepKeeps

\* What the request in flight is.
LEMMA RequestFacts ==
  ASSUME Inv
  PROVE  /\ IsRequest(req) /\ Carries(req, req)
         /\ req.pc # "idle" => /\ req.pc \in AtServer => req.atOrigin
                               /\ req.pc = "cache" => ~StaticEnabled
BY DEF Inv, RequestInv, Path, Carries

\* Some answer that is not about storage given up.
LEMMA AnswerKeeps ==
  ASSUME Inv, req.pc # "idle", NEW a, a.kind \notin GivenUp, Step(Answered(a, req)),
         cache' = cache, late' = late
  PROVE  Keeps
<1>1. Fine(Answered(a, req))
  BY RequestFacts, AnsweredFine
<1> QED BY <1>1, StepKeeps

\* A failure that is not about storage given up.
LEMMA FailureKeeps ==
  ASSUME Inv, req.pc # "idle", NEW by, NEW kind, kind \notin GivenUp, NEW status,
         Step(Answered(Failure(by, kind, status), req)), cache' = cache, late' = late
  PROVE  Keeps
BY AnswerFacts, AnswerKeeps

\* A method that is refused at the edge.
LEMMA RefuseKeeps ==
  ASSUME Inv, Refuse
  PROVE  Keeps
<1>1. req.pc = "refuse" /\ cache' = cache /\ late' = late
  BY DEF Refuse
<1>2. CASE StaticEnabled
  <2>1. Step(Answered(Failure("worker", "method", 405), req))
    BY <1>2 DEF Refuse
  <2> QED BY <1>1, <2>1, FailureKeeps DEF GivenUp
<1>3. CASE ~StaticEnabled /\ ~OriginFallbackEnabled
  <2>1. Step(Answered(Failure("worker", "fallback_disabled", 502), req))
    BY <1>3 DEF Refuse
  <2> QED BY <1>1, <2>1, FailureKeeps DEF GivenUp
<1>4. CASE ~StaticEnabled /\ OriginFallbackEnabled
  <2>1. PICK m : m = Moved("serve")
    OBVIOUS
  <2>2. /\ Carries(req, m) /\ m.pc = "serve" /\ m.reply = req.reply /\ m.answer = req.answer
    BY <2>1, RequestFacts, MovedFacts
  <2>3. PICK n : n = [m EXCEPT !.atOrigin = TRUE]
    OBVIOUS
  <2>4. Step(n)
    BY <1>4, <2>1, <2>3 DEF Refuse
  <2>5. /\ Carries(req, n) /\ n.pc = "serve" /\ n.reply = req.reply /\ n.answer = req.answer
        /\ n.atOrigin = TRUE
    BY <2>2, <2>3 DEF Carries, IsRequest, Fields
  <2>6. Fine(n)
    BY <1>1, <1>4, <2>5, AskServerFine
  <2> QED BY <1>1, <2>4, <2>6, StepKeeps
<1> QED BY <1>2, <1>3, <1>4

\* The candidates a request remembers are nobody's business but the model's.
LEMMA CandsFine ==
  ASSUME NEW n, Fine(n), NEW c
  PROVE  Fine([n EXCEPT !.cands = c])
<1>1. PICK m : m = [n EXCEPT !.cands = c]
  OBVIOUS
<1>2. IsRequest(n)
  BY DEF Fine, RequestInv
<1>3. /\ IsRequest(m)
      /\ m.pc = n.pc /\ m.r = n.r /\ m.dep = n.dep /\ m.queue = n.queue /\ m.how = n.how
      /\ m.offered = n.offered /\ m.reply = n.reply /\ m.answer = n.answer
      /\ m.atOrigin = n.atOrigin /\ m.steady = n.steady /\ m.live = n.live
      /\ m.online = n.online
  BY <1>1, <1>2 DEF IsRequest, Fields
<1>4. RequestInv(m)
  BY <1>3 DEF Fine, RequestInv, Sees, Path
<1>5. ASSUME QueueInv, req.queue \in Seq(Targets)
      PROVE  /\ m.pc # "idle" => Queue(m)
             /\ m.pc # "done" => m.answer = NoAnswer
  BY <1>3, <1>5 DEF Fine, Queue, NoneLeft
<1> QED BY <1>1, <1>4, <1>5 DEF Fine

\* A request is about to go through the targets it is offered.
LEMMA OfferFine ==
  ASSUME Inv, req.pc \notin {"idle", "done"}, NEW n, Carries(req, n),
         n.reply = req.reply, n.answer = req.answer, n.atOrigin = req.atOrigin,
         n.pc \in {"fetch", "stream"},
         n.pc = "fetch" => n.how \notin GivenUp,
         n.pc = "stream" => req.atOrigin,
         n.pc = "stream" /\ req.r.path \in SitePaths => req.online /\ n.dep \in req.live,
         n.offered = ToSet(n.queue)
  PROVE  Fine(n)
<1>1. RequestInv(n)
  BY DEF Inv, RequestInv, Carries, Sees, Path, AtServer
<1>2. ASSUME QueueInv
      PROVE  Queue(n) /\ n.answer = NoAnswer
  BY <1>2 DEF QueueInv, Queue, Carries
<1> QED BY <1>1, <1>2 DEF Fine

\* The manifest has an answer of its own.
LEMMA ManifestRedirectsKeeps ==
  ASSUME Inv, ManifestRedirects
  PROVE  Keeps
<1>1. req.pc = "manifest" /\ cache' = cache /\ late' = late
  BY DEF ManifestRedirects
<1>2. CASE Step(Answered(Answer("worker", "rule", 302, kv.dep, NoTarget), req))
  <2>1. PICK a : a = Answer("worker", "rule", 302, kv.dep, NoTarget)
    OBVIOUS
  <2>2. a.kind \notin GivenUp
    BY <2>1, AnswerFacts DEF GivenUp
  <2> QED BY <1>1, <1>2, <2>1, <2>2, AnswerKeeps
<1>3. CASE Step([Answered(Answer("worker", "redirect", 302, kv.dep,
                                 Head(ManifestPlan.queue)), req)
                 EXCEPT !.cands = ToSet(kv.asset.cands)])
  <2>1. PICK a : a = Answer("worker", "redirect", 302, kv.dep, Head(ManifestPlan.queue))
    OBVIOUS
  <2>2. a.kind \notin GivenUp
    BY <2>1, AnswerFacts DEF GivenUp
  <2>3. Fine(Answered(a, req))
    BY <1>1, <2>2, RequestFacts, AnsweredFine
  <2>4. PICK n : n = [Answered(a, req) EXCEPT !.cands = ToSet(kv.asset.cands)]
    OBVIOUS
  <2>5. Fine(n)
    BY <2>3, <2>4, CandsFine
  <2>6. Step(n)
    BY <1>3, <2>1, <2>4
  <2> QED BY <1>1, <2>5, <2>6, StepKeeps
<1> QED BY <1>2, <1>3 DEF ManifestRedirects

\* The Worker is to fetch the asset.
LEMMA ManifestFetchesKeeps ==
  ASSUME Inv, ManifestFetches
  PROVE  Keeps
<1>1. /\ req.pc = "manifest" /\ cache' = cache /\ late' = late
      /\ ManifestPlan.how \in {"proxy", "gateway", "failover"}
  BY DEF ManifestFetches
<1>2. PICK m : m = Moved("fetch")
  OBVIOUS
<1>3. /\ Carries(req, m) /\ m.pc = "fetch" /\ m.reply = req.reply /\ m.answer = req.answer
      /\ m.atOrigin = req.atOrigin
  BY <1>2, RequestFacts, MovedFacts
<1>4. PICK n : n = [m EXCEPT !.dep = kv.dep, !.how = ManifestPlan.how,
                             !.queue = ManifestPlan.queue,
                             !.offered = ToSet(ManifestPlan.queue),
                             !.cands = ToSet(kv.asset.cands)]
  OBVIOUS
<1>5. Step(n)
  BY <1>2, <1>4 DEF ManifestFetches
<1>6. DOMAIN m = Fields /\ m = [f \in DOMAIN m |-> m[f]]
  BY <1>3 DEF Carries, IsRequest
<1>7. IsRequest(n)
  BY <1>4, <1>6 DEF IsRequest
<1>8. n["queue"] = ManifestPlan.queue /\ n["offered"] = ToSet(ManifestPlan.queue)
      /\ n["how"] = ManifestPlan.how
  BY <1>4, <1>6 DEF Fields
<1>9. /\ n["pc"] = m["pc"] /\ n["r"] = m["r"] /\ n["live"] = m["live"]
      /\ n["online"] = m["online"] /\ n["steady"] = m["steady"]
  BY <1>4, <1>6 DEF Fields
<1>10. n["reply"] = m["reply"] /\ n["answer"] = m["answer"] /\ n["atOrigin"] = m["atOrigin"]
  BY <1>4, <1>6 DEF Fields
<1>11. Carries(req, n)
  BY <1>3, <1>7, <1>9 DEF Carries
<1>12. n.how \notin GivenUp
  BY <1>1, <1>8 DEF GivenUp
<1>13. n.reply = req.reply /\ n.answer = req.answer /\ n.atOrigin = req.atOrigin
  BY <1>3, <1>10
<1>14. n.pc = "fetch" /\ n.offered = ToSet(n.queue)
  BY <1>3, <1>8, <1>9
<1>15. req.pc \notin {"idle", "done"}
  BY <1>1
<1>16. Fine(n)
  BY <1>11, <1>12, <1>13, <1>14, <1>15, OfferFine
<1> QED BY <1>1, <1>5, <1>16, StepKeeps

\* The manifest has nothing for the request.
LEMMA ManifestSilentKeeps ==
  ASSUME Inv, ManifestSilent
  PROVE  Keeps
<1>1. req.pc = "manifest" /\ cache' = cache /\ late' = late
  BY DEF ManifestSilent
<1>2. CASE ~RoutingEnabled \/ ~ManifestHasLastWord
  <2>1. PICK n : n = Moved("static")
    OBVIOUS
  <2>2. Step(n)
    BY <1>2, <2>1 DEF ManifestSilent
  <2>3. /\ Carries(req, n) /\ n.pc = "static" /\ n.reply = req.reply /\ n.answer = req.answer
        /\ n.atOrigin = req.atOrigin
    BY <2>1, RequestFacts, MovedFacts
  <2>4. Fine(n)
    BY <1>1, <2>3, MovedFine DEF AtServer
  <2> QED BY <1>1, <2>2, <2>4, StepKeeps
<1>3. CASE RoutingEnabled /\ ManifestHasLastWord /\ kv = None
  <2>1. Step(Answered(Failure("worker", "no_manifest", 503), req))
    BY <1>3 DEF ManifestSilent
  <2> QED BY <1>1, <2>1, FailureKeeps DEF GivenUp
<1>4. CASE RoutingEnabled /\ ManifestHasLastWord /\ kv # None
  <2>1. PICK s : Step(Answered(Failure("worker", "unresolved", s), req))
    BY <1>4 DEF ManifestSilent
  <2> QED BY <1>1, <2>1, FailureKeeps DEF GivenUp
<1> QED BY <1>2, <1>3, <1>4
\* What is left when the first is taken away.
LEMMA TailLeaves ==
  ASSUME NEW T, NEW s \in Seq(T), s # <<>>
  PROVE  ToSet(s) \subseteq {Head(s)} \cup ToSet(Tail(s))
<1>1. /\ Len(s) \in Nat \ {0} /\ DOMAIN s = 1 .. Len(s)
      /\ DOMAIN Tail(s) = 1 .. Len(Tail(s)) /\ Len(Tail(s)) = Len(s) - 1
      /\ Head(s) = s[1] /\ \A i \in 1 .. Len(Tail(s)) : Tail(s)[i] = s[i + 1]
  BY EmptySeq, LenProperties, HeadTailProperties
<1>2. ASSUME NEW i \in DOMAIN s, i # 1
      PROVE  s[i] \in ToSet(Tail(s))
  <2>1. i - 1 \in DOMAIN Tail(s) /\ Tail(s)[i - 1] = s[i]
    BY <1>1, <1>2
  <2> QED BY <2>1 DEF ToSet
<1> QED BY <1>1, <1>2 DEF ToSet

\* A target that is down is passed by: the others are still to be tried.
LEMMA PassedBy ==
  ASSUME Inv, req.pc \in {"fetch", "stream"}, req.queue # <<>>,
         Head(req.queue) \in down, NEW S,
         Step([[req EXCEPT !.tried = S] EXCEPT !.queue = Tail(@)]),
         cache' = cache, late' = late
  PROVE  Keeps
<1>1. PICK m : m = [req EXCEPT !.tried = S]
  OBVIOUS
<1>2. /\ Carries(req, m) /\ m.pc = req.pc /\ m.reply = req.reply /\ m.answer = req.answer
      /\ m.atOrigin = req.atOrigin /\ m.how = req.how /\ m.offered = req.offered
      /\ m.dep = req.dep /\ m.queue = req.queue
  BY <1>1, RequestFacts DEF Carries, IsRequest, Fields
<1>3. PICK n : n = [m EXCEPT !.queue = Tail(@)]
  OBVIOUS
<1>4. /\ Carries(req, n) /\ n.pc = req.pc /\ n.reply = req.reply /\ n.answer = req.answer
      /\ n.atOrigin = req.atOrigin /\ n.how = req.how /\ n.offered = req.offered
      /\ n.dep = req.dep /\ n.queue = Tail(req.queue)
  BY <1>2, <1>3 DEF Carries, IsRequest, Fields
<1>5. Step(n)
  BY <1>1, <1>3
<1>6. RequestInv(n)
  BY <1>4 DEF Inv, RequestInv, Carries, Sees, Path
<1>7. ASSUME QueueInv, req.queue \in Seq(Targets)
      PROVE  Queue(n) /\ n.answer = NoAnswer
  <2>1. ToSet(req.queue) \subseteq {Head(req.queue)} \cup ToSet(Tail(req.queue))
    BY <1>7, TailLeaves
  <2>2. /\ req.steady \cap down = {}
        /\ req.pc = "fetch" => req.how \notin GivenUp
        /\ req.offered \cap req.steady \subseteq ToSet(req.queue)
        /\ req.answer = NoAnswer
    BY <1>7 DEF QueueInv, Queue
  <2>3. n.offered \cap n.steady \subseteq ToSet(n.queue) /\ n.steady \cap down = {}
    BY <1>4, <2>1, <2>2 DEF Carries
  <2> QED BY <1>4, <2>2, <2>3 DEF Queue
<1>8. Fine(n)
  BY <1>4, <1>6, <1>7 DEF Fine
<1> QED BY <1>5, <1>8, StepKeeps

\* The queue is used up: nothing that was offered has been up all along.
LEMMA UsedUp ==
  ASSUME QueueInv, req.pc \in {"fetch", "stream"}, req.queue = <<>>
  PROVE  NoneLeft(req)
<1>1. ToSet(req.queue) = {}
  BY DEF ToSet
<1> QED BY <1>1 DEF QueueInv, Queue, NoneLeft

\* A target that was asked: the request is otherwise what it was.
LEMMA TriedFacts ==
  ASSUME Inv, NEW S
  PROVE  LET n == [req EXCEPT !.tried = S]
         IN  /\ Carries(req, n) /\ n.reply = req.reply /\ n.answer = req.answer
             /\ n.atOrigin = req.atOrigin /\ n.offered = req.offered /\ n.dep = req.dep
             /\ n.pc = req.pc /\ n.queue = req.queue /\ n.how = req.how
             /\ n.cands = req.cands /\ n.tried = S
BY RequestFacts DEF Carries, IsRequest, Fields

\* The Worker asks the next target.
LEMMA FetchKeeps ==
  ASSUME Inv, Fetch
  PROVE  Keeps
<1>1. req.pc = "fetch" /\ cache' = cache /\ late' = late
  BY DEF Fetch
<1>2. CASE req.queue = <<>>
  <2>1. PICK a : a = Failure("worker", FailureOf(req.how), 502)
    OBVIOUS
  <2>2. Step(Answered(a, req))
    BY <1>2, <2>1 DEF Fetch
  <2>3. QueueInv => NoneLeft(req)
    BY <1>1, <1>2, UsedUp
  <2>4. Fine(Answered(a, req))
    BY <1>1, <2>3, RequestFacts, AnsweredFine
  <2> QED BY <1>1, <2>2, <2>4, StepKeeps
<1>3. CASE req.queue # <<>> /\ Head(req.queue) \in down
  <2>1. Step([[req EXCEPT !.tried = req.tried \cup {Head(req.queue)}]
              EXCEPT !.queue = Tail(@)])
    BY <1>3 DEF Fetch
  <2> QED BY <1>1, <1>3, <2>1, PassedBy
<1>4. CASE req.queue # <<>> /\ Head(req.queue) \notin down
  <2>1. PICK a : a = Answer("worker", req.how, 200, req.dep, Head(req.queue))
    OBVIOUS
  <2>2. PICK m : m = [req EXCEPT !.tried = req.tried \cup {Head(req.queue)}]
    OBVIOUS
  <2>3. Step(Answered(a, m))
    BY <1>4, <2>1, <2>2 DEF Fetch
  <2>4. a.kind = req.how
    BY <2>1, AnswerFacts
  <2>5. QueueInv => a.kind \notin GivenUp
    BY <1>1, <2>4 DEF QueueInv, Queue
  <2>6. /\ Carries(req, m) /\ m.reply = req.reply
        /\ m.atOrigin = req.atOrigin /\ m.offered = req.offered
    BY <2>2, TriedFacts
  <2>7. Fine(Answered(a, m))
    BY <1>1, <2>5, <2>6, AnsweredFine
  <2> QED BY <1>1, <2>3, <2>7, StepKeeps
<1> QED BY <1>2, <1>3, <1>4

\* A request that may not stay at the edge is sent on.
LEMMA AskServerKeeps ==
  ASSUME Inv, req.pc \notin {"idle", "done"}, NEW how, Step(AskServer(how)),
         req.atOrigin \/ ~StaticEnabled \/ req.r.path \notin Assets,
         cache' = cache, late' = late
  PROVE  Keeps
<1>1. PICK n : n = AskServer(how)
  OBVIOUS
<1>2. /\ Carries(req, n) /\ n.pc = "serve" /\ n.atOrigin = TRUE
      /\ n.reply = req.reply /\ n.answer = req.answer
  BY <1>1, RequestFacts, AskServerFacts
<1>3. Fine(n)
  BY <1>2, AskServerFine
<1> QED BY <1>1, <1>3, StepKeeps

\* Without static assets.
LEMMA StaticOffKeeps ==
  ASSUME Inv, StaticOff
  PROVE  Keeps
<1>1. req.pc = "static" /\ ~StaticEnabled /\ cache' = cache /\ late' = late
  BY DEF StaticOff
<1>2. CASE ~OriginFallbackEnabled
  <2>1. Step(Answered(Failure("worker", "fallback_disabled", 502), req))
    BY <1>2 DEF StaticOff
  <2> QED BY <1>1, <2>1, FailureKeeps DEF GivenUp
<1>3. CASE OriginFallbackEnabled /\ req.r.range
  <2>1. Step(AskServer("plain"))
    BY <1>3 DEF StaticOff
  <2> QED BY <1>1, <2>1, AskServerKeeps
<1>4. CASE OriginFallbackEnabled /\ ~req.r.range
  <2>1. PICK n : n = Moved("cache")
    OBVIOUS
  <2>2. Step(n)
    BY <1>4, <2>1 DEF StaticOff
  <2>3. /\ Carries(req, n) /\ n.pc = "cache" /\ n.reply = req.reply /\ n.answer = req.answer
        /\ n.atOrigin = req.atOrigin
    BY <2>1, RequestFacts, MovedFacts
  <2>4. Fine(n)
    BY <1>1, <2>3, MovedFine DEF AtServer
  <2> QED BY <1>1, <2>2, <2>4, StepKeeps
<1> QED BY <1>2, <1>3, <1>4

\* With static assets.
LEMMA StaticKeeps ==
  ASSUME Inv, Static
  PROVE  Keeps
<1>1. req.pc = "static" /\ cache' = cache /\ late' = late
  BY DEF Static
<1>2. PICK status : Step(IF status # 200 /\ EntryFallback THEN AskServer("entry")
                         ELSE Answered(Answer("assets", "static", status, None, NoTarget), req))
  BY DEF Static
<1>3. CASE status # 200 /\ EntryFallback
  <2>1. Step(AskServer("entry"))
    BY <1>2, <1>3
  <2>2. req.r.path \notin Assets
    BY <1>3 DEF EntryFallback, Assets
  <2> QED BY <1>1, <2>1, <2>2, AskServerKeeps
<1>4. CASE ~(status # 200 /\ EntryFallback)
  <2>1. PICK a : a = Answer("assets", "static", status, None, NoTarget)
    OBVIOUS
  <2>2. Step(Answered(a, req))
    BY <1>2, <1>4, <2>1
  <2>3. a.kind \notin GivenUp
    BY <2>1, AnswerFacts DEF GivenUp
  <2> QED BY <1>1, <2>2, <2>3, AnswerKeeps
<1> QED BY <1>3, <1>4

\* What the cache holds.
LEMMA MatchCacheKeeps ==
  ASSUME Inv, MatchCache
  PROVE  Keeps
<1>1. req.pc = "cache" /\ cache' = cache /\ late' = late
  BY DEF MatchCache
<1>2. PICK a : a = cache[req.r.path]
  OBVIOUS
<1>3. CASE a = None
  <2>1. Step(AskServer("plain"))
    BY <1>2, <1>3 DEF MatchCache
  <2>2. ~StaticEnabled
    BY <1>1, RequestFacts
  <2> QED BY <1>1, <2>1, <2>2, AskServerKeeps
<1>4. CASE a # None
  <2>1. Step(Answered(a, req))
    BY <1>2, <1>4 DEF MatchCache
  <2>2. req.r \in Requests
    BY <1>1 DEF Inv, RequestInv, Path
  <2>3. req.r.path \in Paths
    BY <2>2, ServingAssumption
  <2>4. QueueInv => a.kind \notin GivenUp
    BY <1>2, <1>4, <2>3 DEF QueueInv, GivenUp
  <2>5. Fine(Answered(a, req))
    BY <1>1, <2>4, RequestFacts, AnsweredFine
  <2> QED BY <1>1, <2>1, <2>5, StepKeeps
<1> QED BY <1>3, <1>4

-----------------------------------------------------------------------------
(* The actions, at the server.                                             *)

\* The server replies to the request in flight.
LEMMA ReplyKeeps ==
  ASSUME Inv, req.pc \notin {"idle", "done"}, req.atOrigin, NEW a, IsAnswer(a),
         a.dep # None /\ req.r.path \in SitePaths => a.dep \in req.live /\ req.online,
         QueueInv /\ a.kind \in GivenUp => NoneLeft(req),
         Step(Reply(a, req)), cache' = cache, late' = late
  PROVE  Keeps
<1>1. Fine(Reply(a, req))
  BY RequestFacts, ReplyFine
<1> QED BY <1>1, StepKeeps

\* The server replies that something failed, other than all of storage.
LEMMA FailedReplyKeeps ==
  ASSUME Inv, req.pc \notin {"idle", "done"}, req.atOrigin,
         NEW kind, kind \notin GivenUp, NEW status,
         Step(Reply(Failure("go", kind, status), req)), cache' = cache, late' = late
  PROVE  Keeps
<1>1. PICK a : a = Failure("go", kind, status)
  OBVIOUS
<1>2. IsAnswer(a) /\ a.dep = None /\ a.kind = kind
  BY <1>1, AnswerFacts
<1> QED BY <1>1, <1>2, ReplyKeeps

\* Streaming an object, or sending the client to it.
LEMMA StreamedFine ==
  ASSUME Inv, req.pc \notin {"idle", "done"}, req.atOrigin,
         NEW o, NEW dep, NEW pass \in BOOLEAN,
         req.r.path \in SitePaths => req.online /\ dep \in req.live
  PROVE  Fine(Streamed(o, dep, pass, req))
<1>1. PICK ready : ready = Select(ReadyInOrder(rows[o], primary[o]),
                                     LAMBDA t : t \in Stores)
  OBVIOUS
<1>2. CASE ready = <<>>
  <2>1. PICK a : a = Failure("go", "no_replica", 404)
    OBVIOUS
  <2>2. Streamed(o, dep, pass, req) = Reply(a, req)
    BY <1>1, <1>2, <2>1 DEF Streamed
  <2>3. IsAnswer(a) /\ a.dep = None /\ a.kind \notin GivenUp
    BY <2>1, AnswerFacts DEF GivenUp
  <2>4. Fine(Reply(a, req))
    BY <2>3, RequestFacts, ReplyFine
  <2> QED BY <2>2, <2>4
<1>3. CASE ready # <<>> /\ pass /\ URLKind[Head(ready)] # "none"
  <2>1. PICK a : a = Answer("go", "pass", 302, dep, Head(ready))
    OBVIOUS
  <2>2. Streamed(o, dep, pass, req) = Reply(a, req)
    BY <1>1, <1>3, <2>1 DEF Streamed
  <2>3. IsAnswer(a) /\ a.dep = dep /\ a.kind \notin GivenUp
    BY <2>1, AnswerFacts DEF GivenUp
  <2>4. Fine(Reply(a, req))
    BY <2>3, RequestFacts, ReplyFine
  <2> QED BY <2>2, <2>4
<1>4. CASE ready # <<>> /\ ~(pass /\ URLKind[Head(ready)] # "none")
  <2>1. PICK n : n = [req EXCEPT !.pc = "stream", !.dep = dep, !.cands = {},
                                 !.queue = ready, !.offered = ToSet(ready)]
    OBVIOUS
  <2>2. Streamed(o, dep, pass, req) = n
    BY <1>1, <1>4, <2>1 DEF Streamed
  <2>3. DOMAIN req = Fields /\ req = [f \in DOMAIN req |-> req[f]]
    BY RequestFacts DEF IsRequest
  <2>4. IsRequest(n)
    BY <2>1, <2>3 DEF IsRequest
  <2>5. /\ n["pc"] = "stream" /\ n["dep"] = dep /\ n["queue"] = ready
        /\ n["offered"] = ToSet(ready)
    BY <2>1, <2>3 DEF Fields
  <2>6. /\ n["r"] = req["r"] /\ n["live"] = req["live"]
        /\ n["online"] = req["online"] /\ n["steady"] = req["steady"]
    BY <2>1, <2>3 DEF Fields
  <2>7. n["reply"] = req["reply"] /\ n["answer"] = req["answer"] /\ n["atOrigin"] = req["atOrigin"]
    BY <2>1, <2>3 DEF Fields
  <2>8. Carries(req, n)
    BY <2>4, <2>6 DEF Carries
  <2>9. n.offered = ToSet(n.queue)
    BY <2>5
  <2>10. n.pc = "stream" /\ n.dep = dep
    BY <2>5
  <2>11. Fine(n)
    BY <2>7, <2>8, <2>9, <2>10, OfferFine
  <2> QED BY <2>2, <2>11
<1> QED BY <1>2, <1>3, <1>4

\* servePublic, up to the first row it reads.
LEMMA ServeSiteKeeps ==
  ASSUME Inv, ServeSite
  PROVE  Keeps
<1>1. req.pc = "serve" /\ cache' = cache /\ late' = late /\ req.atOrigin
  BY RequestFacts DEF ServeSite, AtServer
<1>2. CASE req.r.method = "POST"
  <2>1. Step(Reply(Failure("go", "method", 405), req))
    BY <1>2 DEF ServeSite
  <2> QED BY <1>1, <2>1, FailedReplyKeeps DEF GivenUp
<1>3. CASE req.r.method # "POST" /\ ~online
  <2>1. Step(Reply(Failure("go", "offline", 410), req))
    BY <1>3 DEF ServeSite
  <2> QED BY <1>1, <2>1, FailedReplyKeeps DEF GivenUp
<1>4. CASE req.r.method # "POST" /\ online
  <2>1. PICK n : n = Moved("deployment")
    OBVIOUS
  <2>2. Step(n)
    BY <1>4, <2>1 DEF ServeSite
  <2>3. /\ Carries(req, n) /\ n.pc = "deployment" /\ n.reply = req.reply
        /\ n.answer = req.answer /\ n.atOrigin = req.atOrigin
    BY <2>1, RequestFacts, MovedFacts
  <2>4. req.online
    BY <1>1, <1>4 DEF Inv, RequestInv, Sees
  <2>5. Fine(n)
    BY <1>1, <2>3, <2>4, MovedFine
  <2> QED BY <1>1, <2>2, <2>5, StepKeeps
<1> QED BY <1>2, <1>3, <1>4

\* A deployment is chosen, by its name or as the active one.
LEMMA ChosenKeeps ==
  ASSUME Inv, req.pc \notin {"idle", "done"}, req.atOrigin, NEW d,
         req.r.path \in SitePaths => req.online /\ d \in req.live,
         Step([Moved("file") EXCEPT !.dep = d]), cache' = cache, late' = late
  PROVE  Keeps
<1>1. PICK m : m = Moved("file")
  OBVIOUS
<1>2. /\ Carries(req, m) /\ m.pc = "file" /\ m.reply = req.reply
      /\ m.answer = req.answer /\ m.atOrigin = req.atOrigin
  BY <1>1, RequestFacts, MovedFacts
<1>3. PICK n : n = [m EXCEPT !.dep = d]
  OBVIOUS
<1>4. /\ Carries(req, n) /\ n.pc = "file" /\ n.reply = req.reply
      /\ n.answer = req.answer /\ n.atOrigin = req.atOrigin /\ n.dep = d
  BY <1>2, <1>3 DEF Carries, IsRequest, Fields
<1>5. Step(n)
  BY <1>1, <1>3
<1>6. Fine(n)
  BY <1>4, MovedFine
<1> QED BY <1>5, <1>6, StepKeeps

\* A preview.
LEMMA ServePreviewKeeps ==
  ASSUME Inv, ServePreview
  PROVE  Keeps
<1>1. req.pc = "serve" /\ req.r.path = "preview" /\ cache' = cache /\ late' = late
      /\ req.atOrigin
  BY RequestFacts DEF ServePreview, AtServer
<1>2. PICK d : Step([Moved("file") EXCEPT !.dep = d])
  BY DEF ServePreview
<1> QED BY <1>1, <1>2, ChosenKeeps DEF SitePaths, Assets

\* The active deployment.
LEMMA FindDeploymentKeeps ==
  ASSUME Inv, FindDeployment
  PROVE  Keeps
<1>1. req.pc = "deployment" /\ cache' = cache /\ late' = late /\ req.atOrigin
  BY RequestFacts DEF FindDeployment, AtServer
<1>2. CASE active = None
  <2>1. Step(Reply(Failure("go", "no_deployment", 404), req))
    BY <1>2 DEF FindDeployment
  <2> QED BY <1>1, <2>1, FailedReplyKeeps DEF GivenUp
<1>3. CASE active # None
  <2>1. Step([Moved("file") EXCEPT !.dep = active])
    BY <1>3 DEF FindDeployment
  <2>2. req.r.path \in SitePaths => req.online /\ active \in req.live
    BY <1>1, <1>3 DEF Inv, RequestInv, Path, Sees
  <2> QED BY <1>1, <2>1, <2>2, ChosenKeeps
<1> QED BY <1>2, <1>3

\* A download.
LEMMA ServeDownloadKeeps ==
  ASSUME Inv, ServeDownload
  PROVE  Keeps
<1>1. req.pc = "serve" /\ req.r.path = "download" /\ cache' = cache /\ late' = late
      /\ req.atOrigin
  BY RequestFacts DEF ServeDownload, AtServer
<1>2. PICK d : LET t == AnyURL(rows[d], primary[d])
               IN  Step(Reply(IF t = NoTarget THEN Failure("go", "no_url", 502)
                              ELSE Answer("go", "redirect", 302, d, t), req))
  BY DEF ServeDownload
<1>3. PICK t : t = AnyURL(rows[d], primary[d])
  OBVIOUS
<1>4. CASE t = NoTarget
  <2>1. Step(Reply(Failure("go", "no_url", 502), req))
    BY <1>2, <1>3, <1>4
  <2> QED BY <1>1, <2>1, FailedReplyKeeps DEF GivenUp
<1>5. CASE t # NoTarget
  <2>1. PICK a : a = Answer("go", "redirect", 302, d, t)
    OBVIOUS
  <2>2. Step(Reply(a, req))
    BY <1>2, <1>3, <1>5, <2>1
  <2>3. IsAnswer(a) /\ a.kind \notin GivenUp
    BY <2>1, AnswerFacts DEF GivenUp
  <2>4. req.r.path \notin SitePaths
    BY <1>1 DEF SitePaths, Assets
  <2> QED BY <1>1, <2>2, <2>3, <2>4, ReplyKeeps
<1> QED BY <1>4, <1>5

\* An object of a project or of a bucket.
LEMMA ServeObjectKeeps ==
  ASSUME Inv, ServeObject
  PROVE  Keeps
<1>1. req.pc = "serve" /\ req.r.path \in {"object", "bucket"} /\ cache' = cache
      /\ late' = late /\ req.atOrigin
  BY RequestFacts DEF ServeObject, AtServer
<1>2. req.r.path \notin SitePaths
  BY <1>1 DEF SitePaths, Assets
<1>3. PICK t : t = PolicyTarget(setup.policy, Bucket, 2, req.r)
  OBVIOUS
<1>4. CASE req.r.path = "bucket" /\ setup.bucketPolicy /\ ~req.r.range /\ t # NoTarget
  <2>1. PICK a : a = Answer("go", "redirect", 302, None, t)
    OBVIOUS
  <2>2. PICK n : n = [Reply(a, req) EXCEPT !.cands = PolicyCands(setup.policy, Bucket)]
    OBVIOUS
  <2>3. Step(n)
    BY <1>3, <1>4, <2>1, <2>2 DEF ServeObject
  <2>4. IsAnswer(a) /\ a.kind \notin GivenUp
    BY <2>1, AnswerFacts DEF GivenUp
  <2>5. Fine(Reply(a, req))
    BY <1>1, <1>2, <2>4, RequestFacts, ReplyFine
  <2>6. Fine(n)
    BY <2>2, <2>5, CandsFine
  <2> QED BY <1>1, <2>3, <2>6, StepKeeps
<1>5. CASE ~(req.r.path = "bucket" /\ setup.bucketPolicy /\ ~req.r.range /\ t # NoTarget)
  <2>1. Step(Streamed(Bucket, None, setup.allowRedirect /\ ~req.r.range, req))
    BY <1>3, <1>5 DEF ServeObject
  <2>2. PICK pass \in BOOLEAN : pass = (setup.allowRedirect /\ ~req.r.range)
    OBVIOUS
  <2>3. Fine(Streamed(Bucket, None, pass, req))
    BY <1>1, <1>2, StreamedFine
  <2> QED BY <1>1, <2>1, <2>2, <2>3, StepKeeps
<1> QED BY <1>4, <1>5

\* A deployment's file, its rule, or nothing.
LEMMA SendFileKeeps ==
  ASSUME Inv, SendFile
  PROVE  Keeps
<1>1. req.pc = "file" /\ cache' = cache /\ late' = late /\ req.atOrigin
  BY RequestFacts DEF SendFile, AtServer
<1>2. PICK d : d = req.dep
  OBVIOUS
<1>3. PICK found : found = FileFor(d, req.r.path)
  OBVIOUS
<1>4. PICK t : t = SiteTarget(d, req.r)
  OBVIOUS
<1>5. PICK may \in BOOLEAN : may = (/\ Delivery(found.file) = "redirect"
                                   /\ ~req.r.range
                                   /\ ~(req.force /\ env.secret = "agreed"))
  OBVIOUS
<1>6. req.r.path \in SitePaths => req.online /\ d \in req.live
  BY <1>1, <1>2 DEF Inv, RequestInv, Path
<1>7. Step(CASE found.file = "rule" -> Reply(Answer("go", "rule", 302, d, NoTarget), req)
             [] found.file = "none" -> Reply(Failure("go", "no_file", 404), req)
             [] OTHER ->
                   IF may /\ t # NoTarget
                   THEN [Reply(Answer("go", "redirect", 302, d, t), req)
                         EXCEPT !.cands = PolicyCands(PolicyOf(d), d)]
                   ELSE IF may /\ setup.deps[d].failover
                        THEN Reply(Failure("go", "no_target", 502), req)
                        ELSE Streamed(d, d, FALSE, req))
  BY <1>2, <1>3, <1>4, <1>5, ZenonT(60) DEF SendFile
<1>8. CASE found.file = "rule"
  <2>1. PICK a : a = Answer("go", "rule", 302, d, NoTarget)
    OBVIOUS
  <2>2. Step(Reply(a, req))
    BY <1>7, <1>8, <2>1
  <2>3. IsAnswer(a) /\ a.dep = d /\ a.kind \notin GivenUp
    BY <2>1, AnswerFacts DEF GivenUp
  <2> QED BY <1>1, <1>6, <2>2, <2>3, ReplyKeeps
<1>9. CASE found.file = "none"
  <2>1. Step(Reply(Failure("go", "no_file", 404), req))
    BY <1>7, <1>9
  <2> QED BY <1>1, <2>1, FailedReplyKeeps DEF GivenUp
<1>10. CASE found.file \notin {"rule", "none"} /\ may /\ t # NoTarget
  <2>1. PICK a : a = Answer("go", "redirect", 302, d, t)
    OBVIOUS
  <2>2. PICK n : n = [Reply(a, req) EXCEPT !.cands = PolicyCands(PolicyOf(d), d)]
    OBVIOUS
  <2>3. Step(n)
    BY <1>7, <1>10, <2>1, <2>2
  <2>4. IsAnswer(a) /\ a.dep = d /\ a.kind \notin GivenUp
    BY <2>1, AnswerFacts DEF GivenUp
  <2>5. Fine(Reply(a, req))
    BY <1>1, <1>6, <2>4, RequestFacts, ReplyFine
  <2>6. Fine(n)
    BY <2>2, <2>5, CandsFine
  <2> QED BY <1>1, <2>3, <2>6, StepKeeps
<1>11. CASE found.file \notin {"rule", "none"} /\ ~(may /\ t # NoTarget)
            /\ may /\ setup.deps[d].failover
  <2>1. Step(Reply(Failure("go", "no_target", 502), req))
    BY <1>7, <1>11
  <2> QED BY <1>1, <2>1, FailedReplyKeeps DEF GivenUp
<1>12. CASE found.file \notin {"rule", "none"} /\ ~(may /\ t # NoTarget)
            /\ ~(may /\ setup.deps[d].failover)
  <2>1. Step(Streamed(d, d, FALSE, req))
    BY <1>7, <1>12
  <2>2. Fine(Streamed(d, d, FALSE, req))
    BY <1>1, <1>6, StreamedFine
  <2> QED BY <1>1, <2>1, <2>2, StepKeeps
<1> QED BY <1>8, <1>9, <1>10, <1>11, <1>12

\* The next store is asked for the object.
LEMMA StreamKeeps ==
  ASSUME Inv, Stream
  PROVE  Keeps
<1>1. req.pc = "stream" /\ cache' = cache /\ late' = late /\ req.atOrigin
  BY RequestFacts DEF Stream, AtServer
<1>2. CASE req.queue = <<>>
  <2>1. PICK a : a = Failure("go", "stream_failed", 502)
    OBVIOUS
  <2>2. Step(Reply(a, req))
    BY <1>2, <2>1 DEF Stream
  <2>3. IsAnswer(a) /\ a.dep = None
    BY <2>1, AnswerFacts
  <2>4. QueueInv => NoneLeft(req)
    BY <1>1, <1>2, UsedUp
  <2> QED BY <1>1, <2>2, <2>3, <2>4, ReplyKeeps
<1>3. CASE req.queue # <<>> /\ Head(req.queue) \in down
  <2>1. Step([[req EXCEPT !.tried = req.tried \cup {Head(req.queue)}]
              EXCEPT !.queue = Tail(@)])
    BY <1>3 DEF Stream
  <2> QED BY <1>1, <1>3, <2>1, PassedBy
<1>4. CASE req.queue # <<>> /\ Head(req.queue) \notin down
  <2>1. PICK status : status = (IF req.dep = None THEN 200
                                ELSE FileFor(req.dep, req.r.path).status)
    OBVIOUS
  <2>2. PICK a : a = Answer("go", "stream", status, req.dep, Head(req.queue))
    OBVIOUS
  <2>3. PICK m : m = [req EXCEPT !.tried = req.tried \cup {Head(req.queue)}]
    OBVIOUS
  <2>4. Step(Reply(a, m))
    BY <1>4, <2>1, <2>2, <2>3 DEF Stream
  <2>5. IsAnswer(a) /\ a.dep = req.dep /\ a.kind \notin GivenUp
    BY <2>2, AnswerFacts DEF GivenUp
  <2>6. req.r.path \in SitePaths => req.online /\ req.dep \in req.live
    BY <1>1 DEF Inv, RequestInv, Path
  <2>7. /\ Carries(req, m) /\ m.answer = req.answer
        /\ m.atOrigin = req.atOrigin /\ m.offered = req.offered
    BY <2>3, TriedFacts
  <2>8. Fine(Reply(a, m))
    BY <1>1, <2>5, <2>6, <2>7, ReplyFine
  <2> QED BY <1>1, <2>4, <2>8, StepKeeps
<1> QED BY <1>2, <1>3, <1>4

-----------------------------------------------------------------------------
(* The actions, with the server's reply.                                   *)

\* What is kept of an answer.
LEMMA KeptFacts ==
  ASSUME NEW a, IsAnswer(a)
  PROVE  LET k == Kept(a) IN k.dep = a.dep /\ k.kind = "kept"
BY DEF Kept, IsAnswer

\* An answer of a deployment that the request saw goes out, and may be kept.
LEMMA FinishKeeps ==
  ASSUME Inv, req.pc \notin {"idle", "done"}, NEW a, IsAnswer(a),
         a.dep # None /\ req.r.path \in SitePaths => a.dep \in req.live,
         QueueInv /\ a.kind \in GivenUp => NoneLeft(req),
         NEW q, Carries(req, q), q.reply = req.reply, q.atOrigin = req.atOrigin,
         q.offered = req.offered, Finish(a, q)
  PROVE  Keeps
<1>1. Step(Answered(a, q)) /\ Store(a) /\ cache' = cache
  BY DEF Finish
<1>2. Fine(Answered(a, q))
  BY AnsweredFine
<1>3. PICK w : w = [path |-> req.r.path, holds |-> Kept(a)]
  OBVIOUS
<1>4. late' = late \/ late' = late \cup {w}
  BY <1>1, <1>3 DEF Store
<1>5. w.path = req.r.path /\ w.holds = Kept(a)
  BY <1>3
<1>6. req.live \subseteq published
  BY DEF Inv, RequestInv, Sees
<1>7. MayBeKept(w)
  BY <1>5, <1>6, KeptFacts DEF MayBeKept
<1> QED BY <1>1, <1>2, <1>4, <1>7, StepKeeps

\* The reply is the answer.
LEMMA PassOnKeeps ==
  ASSUME Inv, PassOn
  PROVE  Keeps
<1>1. req.pc = "resolve" /\ Finish(req.reply, req)
  BY DEF PassOn
<1>2. PICK a : a = req.reply
  OBVIOUS
<1>3. /\ IsAnswer(a)
      /\ a.dep # None /\ req.r.path \in SitePaths => a.dep \in req.live
  BY <1>1, <1>2 DEF Inv, RequestInv, Path
<1>4. QueueInv /\ a.kind \in GivenUp => NoneLeft(req)
  BY <1>1, <1>2 DEF QueueInv, Queue
<1> QED BY <1>1, <1>2, <1>3, <1>4, RequestFacts, FinishKeeps

\* A marked redirect.
LEMMA FollowRedirectKeeps ==
  ASSUME Inv, FollowRedirect
  PROVE  Keeps
<1>1. req.pc = "resolve" /\ cache' = cache /\ late' = late /\ req.atOrigin
  BY RequestFacts DEF FollowRedirect, AtServer
<1>2. CASE Step(Moved("storage"))
  <2>1. PICK n : n = Moved("storage")
    OBVIOUS
  <2>2. /\ Carries(req, n) /\ n.pc = "storage" /\ n.reply = req.reply
        /\ n.answer = req.answer /\ n.atOrigin = req.atOrigin
    BY <2>1, RequestFacts, MovedFacts
  <2>3. Fine(n)
    BY <1>1, <2>2, MovedFine
  <2> QED BY <1>1, <1>2, <2>1, <2>3, StepKeeps
<1>3. CASE Step(Answered(Failure("worker", "storage_failed", 502), req))
  BY <1>1, <1>3, FailureKeeps DEF GivenUp
<1> QED BY <1>2, <1>3 DEF FollowRedirect

\* The storage that the reply names.
LEMMA FetchStorageKeeps ==
  ASSUME Inv, FetchStorage
  PROVE  Keeps
<1>1. req.pc = "storage" /\ req.atOrigin
  BY RequestFacts DEF FetchStorage, AtServer
<1>2. PICK q : q = [req EXCEPT !.tried = req.tried \cup {req.reply.target}]
  OBVIOUS
<1>3. /\ Carries(req, q) /\ q.reply = req.reply /\ q.answer = req.answer
      /\ q.atOrigin = req.atOrigin /\ q.offered = req.offered
  BY <1>2, TriedFacts
<1>4. CASE req.reply.target \notin down
           /\ Finish(Answer("storage", "proxied", 200, req.reply.dep, req.reply.target), q)
  <2>1. PICK a : a = Answer("storage", "proxied", 200, req.reply.dep, req.reply.target)
    OBVIOUS
  <2>2. IsAnswer(a) /\ a.dep = req.reply.dep /\ a.kind \notin GivenUp
    BY <2>1, AnswerFacts DEF GivenUp
  <2>3. a.dep # None /\ req.r.path \in SitePaths => a.dep \in req.live
    BY <1>1, <2>2 DEF Inv, RequestInv, Path
  <2>4. IsAnswer(a) /\ (QueueInv /\ a.kind \in GivenUp => NoneLeft(req))
    BY <2>2
  <2>5. Finish(a, q)
    BY <1>4, <2>1
  <2>6. req.pc \notin {"idle", "done"}
    BY <1>1
  <2>7. q.reply = req.reply /\ q.atOrigin = req.atOrigin /\ q.offered = req.offered
    BY <1>3
  <2>8. Carries(req, q)
    BY <1>3
  <2> QED BY <2>3, <2>4, <2>5, <2>6, <2>7, <2>8, FinishKeeps
<1>5. CASE \E status \in {404, 502} : Finish(Failure("storage", "storage_failed", status), q)
  <2>1. PICK status : Finish(Failure("storage", "storage_failed", status), q)
    BY <1>5
  <2>2. PICK a : a = Failure("storage", "storage_failed", status)
    OBVIOUS
  <2>3. IsAnswer(a) /\ a.dep = None /\ a.kind \notin GivenUp
    BY <2>2, AnswerFacts DEF GivenUp
  <2> QED BY <1>1, <1>3, <2>1, <2>2, <2>3, FinishKeeps
<1>6. CASE Step([AskServer("again") EXCEPT !.tried = q.tried]) /\ cache' = cache /\ late' = late
  <2>1. PICK m : m = AskServer("again")
    OBVIOUS
  <2>2. /\ Carries(req, m) /\ m.pc = "serve" /\ m.atOrigin = TRUE
        /\ m.reply = req.reply /\ m.answer = req.answer
    BY <2>1, RequestFacts, AskServerFacts
  <2>3. PICK n : n = [m EXCEPT !.tried = q.tried]
    OBVIOUS
  <2>4. /\ Carries(req, n) /\ n.pc = "serve" /\ n.atOrigin = TRUE
        /\ n.reply = req.reply /\ n.answer = req.answer
    BY <2>2, <2>3 DEF Carries, IsRequest, Fields
  <2>5. Fine(n)
    BY <1>1, <2>4, AskServerFine
  <2> QED BY <1>6, <2>1, <2>3, <2>5, StepKeeps
<1> QED BY <1>2, <1>4, <1>5, <1>6 DEF FetchStorage

-----------------------------------------------------------------------------
(* The cache and the world.                                                *)

\* What was late is in the cache.
LEMMA WriteCacheKeeps ==
  ASSUME Inv, WriteCache
  PROVE  Keeps
<1>1. PICK w \in late : cache' = [cache EXCEPT ![w.path] = w.holds] /\ late' = late \ {w}
  BY DEF WriteCache
<1>2. /\ req' = req /\ env' = env /\ online' = online /\ active' = active
      /\ published' = published /\ down' = down
  BY DEF WriteCache, world
<1>3. RequestInv(req)'
  BY <1>2 DEF Inv, RequestInv, Sees, Path, StaticEnabled
<1>4. KeptInv'
  BY <1>1, <1>2 DEF Inv, KeptInv
<1>5. ASSUME QueueInv
      PROVE  QueueInv'
  <2>1. req'.pc # "idle" => Queue(req)'
    BY <1>2, <1>5 DEF QueueInv, Queue, NoneLeft
  <2>2. cache = [p \in Paths |-> cache[p]]
    BY DEF Inv, KeptInv
  <2> QED BY <1>1, <1>2, <1>5, <2>1, <2>2 DEF QueueInv
<1> QED BY <1>2, <1>3, <1>4, <1>5 DEF Inv, Keeps

\* What is in the cache expires, or is purged.
LEMMA ForgottenKeeps ==
  ASSUME Inv, late' = late, published \subseteq published',
         cache' = [p \in Paths |-> cache'[p]],
         \A p \in Paths : cache'[p] = cache[p] \/ cache'[p] = None
  PROVE  /\ KeptInv'
         /\ QueueInv => \A p \in Paths : cache'[p] # None => cache'[p].kind = "kept"
<1>1. KeptInv'
  BY DEF Inv, KeptInv, SitePaths, Assets, Paths
<1> QED BY <1>1 DEF QueueInv

\* A path is forgotten.
LEMMA ExpireKeeps ==
  ASSUME Inv, Expire
  PROVE  Keeps
<1>1. PICK p \in Paths : cache' = [cache EXCEPT ![p] = None]
  BY DEF Expire
<1>2. /\ req' = req /\ env' = env /\ online' = online /\ active' = active
      /\ published' = published /\ down' = down /\ late' = late
  BY DEF Expire, world
<1>3. cache = [x \in Paths |-> cache[x]]
  BY DEF Inv, KeptInv
<1>4. /\ cache' = [x \in Paths |-> cache'[x]]
      /\ \A x \in Paths : cache'[x] = cache[x] \/ cache'[x] = None
  BY <1>1, <1>3
<1>5. RequestInv(req)'
  BY <1>2 DEF Inv, RequestInv, Sees, Path, StaticEnabled
<1>6. /\ KeptInv'
      /\ QueueInv => \A x \in Paths : cache'[x] # None => cache'[x].kind = "kept"
  BY <1>2, <1>4, ForgottenKeeps
<1>7. ASSUME QueueInv
      PROVE  QueueInv'
  <2>1. req'.pc # "idle" => Queue(req)'
    BY <1>2, <1>7 DEF QueueInv, Queue, NoneLeft
  <2> QED BY <1>2, <1>6, <1>7, <2>1 DEF QueueInv
<1> QED BY <1>2, <1>5, <1>6, <1>7 DEF Inv, Keeps

\* What a change of the world does to a request in flight.
LEMMA SeenFacts ==
  ASSUME Inv, Seen, req.pc # "idle"
  PROVE  /\ IsRequest(req')
         /\ req'.pc = req.pc /\ req'.r = req.r /\ req'.dep = req.dep
         /\ req'.queue = req.queue /\ req'.how = req.how /\ req'.offered = req.offered
         /\ req'.reply = req.reply /\ req'.answer = req.answer
         /\ req'.atOrigin = req.atOrigin
         /\ req'.cands = req.cands /\ req'.tried = req.tried
         /\ req'.steady = req.steady \ down'
         /\ req'.live = req.live \cup ({active'} \ {None})
         /\ req.online \/ online' => req'.online
<1>1. PICK n : n = [req EXCEPT !.steady = @ \ down',
                               !.live = @ \cup ({active'} \ {None}),
                               !.online = @ \/ online']
  OBVIOUS
<1>2. req' = n
  BY <1>1 DEF Seen
<1>3. DOMAIN req = Fields /\ req = [f \in DOMAIN req |-> req[f]]
  BY RequestFacts DEF IsRequest
<1>4. IsRequest(n)
  BY <1>1, <1>3 DEF IsRequest
<1>5. /\ n["pc"] = req["pc"] /\ n["r"] = req["r"] /\ n["dep"] = req["dep"]
      /\ n["queue"] = req["queue"] /\ n["how"] = req["how"]
  BY <1>1, <1>3 DEF Fields
<1>6. /\ n["offered"] = req["offered"] /\ n["reply"] = req["reply"]
      /\ n["answer"] = req["answer"] /\ n["atOrigin"] = req["atOrigin"]
  BY <1>1, <1>3 DEF Fields
<1>7. /\ n["steady"] = req["steady"] \ down'
      /\ n["live"] = req["live"] \cup ({active'} \ {None})
  BY <1>1, <1>3 DEF Fields
<1>8. n["online"] = (req["online"] \/ online')
  BY <1>1, <1>3 DEF Fields
<1>9. req["online"] \/ online' => n["online"]
  BY <1>8
<1>10. n["cands"] = req["cands"] /\ n["tried"] = req["tried"]
  BY <1>1, <1>3 DEF Fields
<1> QED BY <1>2, <1>4, <1>5, <1>6, <1>7, <1>9, <1>10

\* The world changes.
LEMMA SeenKeeps ==
  ASSUME Inv, Seen, env' = env, late' = late, published \subseteq published',
         active' # None => active' \in published',
         cache' = [p \in Paths |-> cache'[p]],
         \A p \in Paths : cache'[p] = cache[p] \/ cache'[p] = None
  PROVE  Keeps
<1>1. /\ KeptInv'
      /\ QueueInv => \A x \in Paths : cache'[x] # None => cache'[x].kind = "kept"
  BY ForgottenKeeps
<1>2. CASE req.pc = "idle"
  <2>1. req' = req
    BY <1>2 DEF Seen
  <2>2. RequestInv(req)'
    BY <1>2, <2>1 DEF Inv, RequestInv
  <2>3. QueueInv => QueueInv'
    BY <1>1, <1>2, <2>1 DEF QueueInv
  <2> QED BY <1>1, <2>2, <2>3 DEF Inv, Keeps
<1>3. CASE req.pc # "idle"
  <2>1. /\ IsRequest(req) /\ IsAnswer(req.reply) /\ Sees(req) /\ Path(req)
    BY <1>3 DEF Inv, RequestInv
  <2>2. Sees(req)'
    BY <1>3, <2>1, SeenFacts DEF Sees
  <2>3. Path(req)'
    <3>1. /\ req'.r = req.r /\ req'.pc = req.pc /\ req'.dep = req.dep
          /\ req'.reply = req.reply /\ req'.atOrigin = req.atOrigin
          /\ req.live \subseteq req'.live /\ (req.online => req'.online)
      BY <1>3, SeenFacts
    <3> QED BY <2>1, <3>1 DEF Path, StaticEnabled
  <2>4. RequestInv(req)'
    BY <1>3, <2>1, <2>2, <2>3, SeenFacts DEF RequestInv
  <2>5. ASSUME QueueInv
        PROVE  QueueInv'
    <3>1. /\ req'.pc = req.pc /\ req'.how = req.how /\ req'.queue = req.queue
          /\ req'.offered = req.offered /\ req'.reply = req.reply
          /\ req'.answer = req.answer /\ req'.steady = req.steady \ down'
      BY <1>3, SeenFacts
    <3>2. Queue(req)
      BY <1>3, <2>5 DEF QueueInv
    <3>3. Queue(req)'
      BY <3>1, <3>2 DEF Queue, NoneLeft
    <3> QED BY <1>1, <2>5, <3>1, <3>3 DEF QueueInv
  <2> QED BY <1>1, <2>4, <2>5 DEF Inv, Keeps
<1> QED BY <1>2, <1>3

\* Whatever changes.
LEMMA WorldKeeps ==
  ASSUME Inv, WorldStep
  PROVE  Keeps
<1>1. /\ cache = [p \in Paths |-> cache[p]]
      /\ active # None => active \in published
  BY DEF Inv, KeptInv
<1>2. ASSUME Change, Seen, cache' = cache, active' = active, published' = published
      PROVE  Keeps
  BY <1>1, <1>2, SeenKeeps DEF Change
<1>3. ASSUME NEW d, Activate(d)
      PROVE  Keeps
  BY <1>1, <1>3, SeenKeeps DEF Activate, Change
<1>4. ASSUME Purge
      PROVE  Keeps
  <2>1. PICK reached : cache' = [p \in Paths |-> IF p \in {"index"} \cup reached
                                                THEN None ELSE cache[p]]
    BY <1>4 DEF Purge
  <2>2. /\ cache' = [p \in Paths |-> cache'[p]]
        /\ \A p \in Paths : cache'[p] = cache[p] \/ cache'[p] = None
    BY <2>1
  <2> QED BY <1>1, <1>4, <2>2, SeenKeeps DEF Purge, Change
<1>5. CASE SetSiteStatus
  BY <1>2, <1>5 DEF SetSiteStatus
<1>6. CASE PublishManifest
  BY <1>2, <1>6 DEF PublishManifest
<1>7. ASSUME NEW t, Probe(t) \/ Outage(t)
      PROVE  Keeps
  BY <1>2, <1>7 DEF Probe, Outage
<1>8. ASSUME NEW o, NEW t, ReplicaChanges(o, t) \/ SwitchPrimary(o, t)
      PROVE  Keeps
  BY <1>2, <1>8 DEF ReplicaChanges, SwitchPrimary
<1> QED BY <1>3, <1>4, <1>5, <1>6, <1>7, <1>8 DEF WorldStep


-----------------------------------------------------------------------------
(* What the variables are, and what a request may be answered from.        *)

\* The target t may serve a request with these candidates that has tried those.
Allowed(t, cands, tried) ==
  \A c \in cands : t = c.target /\ c.fallbackOnly =>
    \A e \in cands : e.fallbackOnly \/ e.target \in tried

Places == {"idle", "refuse", "manifest", "fetch", "static", "cache", "serve",
           "deployment", "file", "stream", "resolve", "storage", "done"}

Sound(q) ==
  /\ IsRequest(q)
  /\ q.dep \in Deployments \cup {None}
  /\ q.reply \in Answers /\ q.answer \in Answers
  /\ q.queue \in Seq(Targets)
  /\ \A c \in q.cands : c.target \in Targets

\* Candidates are remembered from where they are chosen among to the answer.
Placed(q) ==
  /\ q.pc \in Places
  /\ q.pc = "file" => q.dep \in Deployments
  /\ q.pc = "fetch" =>
       /\ q.how \in {"proxy", "gateway", "failover"}
       /\ InTurn(q.queue, q.cands, q.tried)
  /\ q.pc \in {"resolve", "storage"} => Allowed(q.reply.target, q.cands, q.tried)
  /\ q.pc = "done" => Allowed(q.answer.target, q.cands, q.tried)
  /\ q.pc \notin {"fetch", "resolve", "storage", "done"} => q.cands = {}

Shape(q) == Sound(q) /\ Placed(q)

Stored == {a \in Answers : a.status \in {200, 404}}

CacheFine ==
  /\ \A p \in Paths : cache[p] # None => cache[p] \in Stored
  /\ \A w \in late : w.path \in Paths /\ w.holds \in Stored

SetupFine ==
  /\ setup.first \in Deployments
  /\ setup.deps \in [Deployments -> [policy : BOOLEAN, failover : BOOLEAN,
                                     spa : BOOLEAN, notFound : BOOLEAN]]
  /\ setup.policy # NoPolicy => PolicyWellFormed(setup.policy)

ManifestFine ==
  kv # None => kv.dep \in Deployments /\ Buildable(kv.dep) /\ RouteFine(kv.asset)

WorldFine ==
  /\ online \in BOOLEAN
  /\ active \in Deployments \cup {None}
  /\ published \subseteq Deployments
  /\ rows \in [Objects -> [Targets -> {"ready", "pending", "none"}]]
  /\ primary \in [Objects -> Targets]
  /\ sick \subseteq Targets /\ down \subseteq Targets
  /\ changes \in 0..MaxChanges

ShapeInv == SetupFine /\ WorldFine /\ ManifestFine /\ CacheFine /\ Shape(req)

\* An answer is one of the answers.
LEMMA AnswerIn ==
  ASSUME NEW by \in {"nobody", "worker", "assets", "cache", "storage", "go"},
         NEW kind \in Kinds,
         NEW status \in {0, 200, 302, 404, 405, 410, 502, 503},
         NEW dep \in Deployments \cup {None}, NEW target \in Targets \cup {NoTarget}
  PROVE  /\ Answer(by, kind, status, dep, target) \in Answers
         /\ Answer(by, kind, status, dep, target).target = target
BY DEF Answer, Answers

\* A failure is an answer from nowhere.
LEMMA FailureIn ==
  ASSUME NEW by \in {"nobody", "worker", "assets", "cache", "storage", "go"},
         NEW kind \in Kinds,
         NEW status \in {0, 200, 302, 404, 405, 410, 502, 503}
  PROVE  Failure(by, kind, status) \in Answers /\ Failure(by, kind, status).target = NoTarget
BY AnswerIn DEF Failure

\* Nothing is no target of a candidate.
LEMMA NowhereAllowed ==
  ASSUME NEW cands, \A c \in cands : c.target \in Targets, NEW tried
  PROVE  Allowed(NoTarget, cands, tried)
BY ProfileAssumption DEF Allowed

\* Where there are no candidates, every target will do; so it does when more have been tried.
LEMMA AllowedFacts ==
  ASSUME NEW t, NEW cands, NEW tried, NEW S, Allowed(t, cands, tried)
  PROVE  Allowed(t, {}, S) /\ Allowed(t, cands, tried \cup S)
BY DEF Allowed

\* The first target of a list to be tried in turn may serve the request, and the others
\* are to be tried in turn when it has been tried.
LEMMA TurnTaken ==
  ASSUME NEW queue \in Seq(Targets), queue # <<>>, NEW cands, NEW tried,
         InTurn(queue, cands, tried)
  PROVE  /\ Head(queue) \in Targets /\ Tail(queue) \in Seq(Targets)
         /\ Allowed(Head(queue), cands, tried)
         /\ InTurn(Tail(queue), cands, tried \cup {Head(queue)})
<1>1. /\ Len(queue) \in Nat \ {0} /\ Head(queue) = queue[1] /\ queue[1] \in Targets
      /\ Tail(queue) \in Seq(Targets) /\ Len(Tail(queue)) = Len(queue) - 1
      /\ \A i \in 1 .. Len(Tail(queue)) : Tail(queue)[i] = queue[i + 1]
  BY EmptySeq, LenProperties, HeadTailProperties
<1>2. Allowed(Head(queue), cands, tried)
  <2>1. 1 \in 1 .. Len(queue)
    BY <1>1
  <2>2. \A j : j \notin 1 .. 1 - 1
    OBVIOUS
  <2> QED BY <1>1, <2>1, <2>2 DEF InTurn, Allowed
<1>3. InTurn(Tail(queue), cands, tried \cup {Head(queue)})
  <2> SUFFICES ASSUME NEW c \in cands, NEW k \in 1 .. Len(Tail(queue)),
                      Tail(queue)[k] = c.target, c.fallbackOnly, NEW e \in cands,
                      ~e.fallbackOnly, e.target \notin tried \cup {Head(queue)}
               PROVE  \E j \in 1 .. k - 1 : Tail(queue)[j] = e.target
    BY DEF InTurn
  <2>1. k + 1 \in 1 .. Len(queue) /\ queue[k + 1] = c.target
    BY <1>1
  <2>2. PICK j \in 1 .. k : queue[j] = e.target
    <3>1. PICK j \in 1 .. (k + 1) - 1 : queue[j] = e.target
      BY <2>1 DEF InTurn
    <3> QED BY <3>1
  <2>3. j # 1
    BY <1>1, <2>2
  <2>4. j - 1 \in 1 .. k - 1 /\ j - 1 \in 1 .. Len(Tail(queue))
    BY <1>1, <2>2, <2>3
  <2>5. Tail(queue)[j - 1] = queue[j]
    BY <1>1, <2>4
  <2> QED BY <2>2, <2>4, <2>5
<1> QED BY <1>1, <1>2, <1>3

\* What is to be tried in turn at first is so later.
LEMMA TurnKept ==
  ASSUME NEW queue, NEW cands, NEW S, InTurn(queue, cands, {})
  PROVE  InTurn(queue, cands, S)
BY DEF InTurn

\* A request that is answered.
LEMMA AnsweredShape ==
  ASSUME NEW q, Sound(q), NEW a \in Answers, Allowed(a.target, q.cands, q.tried)
  PROVE  Shape(Answered(a, q))
<1>1. PICK n : n = Answered(a, q)
  OBVIOUS
<1>2. IsRequest(q)
  BY DEF Sound
<1>3. /\ Carries(q, n) /\ n.pc = "done" /\ n.answer = a /\ n.reply = q.reply
      /\ n.queue = <<>> /\ n.dep = q.dep /\ n.cands = q.cands /\ n.tried = q.tried
  BY <1>1, <1>2, AnsweredFacts
<1>4. <<>> \in Seq(Targets)
  OBVIOUS
<1>5. Sound(n)
  BY <1>3, <1>4 DEF Sound, Carries
<1>6. Placed(n)
  BY <1>3 DEF Placed, Places
<1> QED BY <1>1, <1>5, <1>6 DEF Shape

\* A request with the server's reply.
LEMMA ReplyShape ==
  ASSUME NEW q, Sound(q), NEW a \in Answers, Allowed(a.target, q.cands, q.tried)
  PROVE  Shape(Reply(a, q))
<1>1. PICK n : n = Reply(a, q)
  OBVIOUS
<1>2. IsRequest(q)
  BY DEF Sound
<1>3. Carries(q, n) /\ n.pc = "resolve" /\ n.reply = a /\ n.answer = q.answer
  BY <1>1, <1>2, ReplyFacts
<1>4. n.queue = q.queue /\ n.dep = q.dep /\ n.cands = q.cands /\ n.tried = q.tried
  BY <1>1, <1>2, ReplyFacts
<1>5. Sound(n)
  BY <1>3, <1>4 DEF Sound, Carries
<1>6. Placed(n)
  BY <1>3, <1>4 DEF Placed, Places
<1> QED BY <1>1, <1>5, <1>6 DEF Shape

\* A request that moves on, without candidates.
LEMMA OnwardShape ==
  ASSUME NEW q, Sound(q), NEW n, IsRequest(n),
         n.pc \in {"serve", "static", "cache", "deployment"}, n.cands = {},
         n.dep = q.dep, n.reply = q.reply, n.answer = q.answer, n.queue = q.queue
  PROVE  Shape(n)
<1>1. Sound(n)
  BY DEF Sound
<1>2. Placed(n)
  BY DEF Placed, Places
<1> QED BY <1>1, <1>2 DEF Shape

\* The request in flight moves on, or to the server.
LEMMA MovedShape ==
  ASSUME Shape(req), NEW pc
  PROVE  /\ pc \in {"serve", "static", "cache", "deployment"} /\ req.cands = {} =>
              Shape(Moved(pc))
         /\ \A how : Shape(AskServer(how))
<1>1. IsRequest(req) /\ Sound(req)
  BY DEF Shape, Sound
<1>2. ASSUME pc \in {"serve", "static", "cache", "deployment"}, req.cands = {}
      PROVE  Shape(Moved(pc))
  <2>1. PICK n : n = Moved(pc)
    OBVIOUS
  <2>2. /\ IsRequest(n) /\ n.pc = pc /\ n.cands = {} /\ n.dep = req.dep
        /\ n.reply = req.reply /\ n.answer = req.answer /\ n.queue = req.queue
    BY <1>1, <1>2, <2>1, MovedFacts DEF Carries
  <2> QED BY <1>1, <1>2, <2>1, <2>2, OnwardShape
<1>3. ASSUME NEW how
      PROVE  Shape(AskServer(how))
  <2>1. PICK n : n = AskServer(how)
    OBVIOUS
  <2>2. /\ IsRequest(n) /\ n.pc = "serve" /\ n.cands = {} /\ n.dep = req.dep
        /\ n.reply = req.reply /\ n.answer = req.answer /\ n.queue = req.queue
    BY <1>1, <2>1, AskServerFacts DEF Carries
  <2> QED BY <1>1, <2>1, <2>2, OnwardShape
<1> QED BY <1>2, <1>3

\* The candidates are set when an answer is chosen among them.
LEMMA CandsShape ==
  ASSUME NEW n, Shape(n), NEW cands, \A c \in cands : c.target \in Targets,
         n.pc = "resolve" => \A S : Allowed(n.reply.target, cands, S),
         n.pc = "done" => \A S : Allowed(n.answer.target, cands, S),
         n.pc \in {"resolve", "done"}
  PROVE  Shape([n EXCEPT !.cands = cands])
<1>1. PICK m : m = [n EXCEPT !.cands = cands]
  OBVIOUS
<1>2. IsRequest(n)
  BY DEF Shape, Sound
<1>3. /\ IsRequest(m) /\ m.pc = n.pc /\ m.dep = n.dep /\ m.queue = n.queue
      /\ m.reply = n.reply /\ m.answer = n.answer /\ m.tried = n.tried
  BY <1>1, <1>2 DEF IsRequest, Fields
<1>4. m.cands = cands
  BY <1>1, <1>2 DEF IsRequest, Fields
<1>5. Sound(m)
  BY <1>3, <1>4 DEF Shape, Sound
<1>6. Placed(m)
  BY <1>3, <1>4 DEF Shape, Placed
<1> QED BY <1>1, <1>5, <1>6 DEF Shape

\* If the next request is as it should be, all is after a step of the request.
LEMMA ShapeKept ==
  ASSUME ShapeInv, NEW n, Step(n), Shape(n), cache' = cache,
         late' = late \/ \E w : w.path \in Paths /\ w.holds \in Stored /\ late' = late \cup {w}
  PROVE  ShapeInv'
<1>1. /\ req' = n /\ setup' = setup /\ online' = online /\ active' = active
      /\ published' = published /\ rows' = rows /\ primary' = primary /\ sick' = sick
      /\ down' = down /\ kv' = kv /\ changes' = changes
  BY DEF Step, world
<1>2. SetupFine'
  BY <1>1 DEF ShapeInv, SetupFine
<1>3. WorldFine'
  BY <1>1 DEF ShapeInv, WorldFine
<1>4. ManifestFine'
  BY <1>1 DEF ShapeInv, ManifestFine, Buildable
<1>5. CacheFine'
  BY DEF ShapeInv, CacheFine
<1>6. Shape(req)'
  BY <1>1 DEF Shape, Sound, Placed
<1> QED BY <1>2, <1>3, <1>4, <1>5, <1>6 DEF ShapeInv

\* What is known of the variables, when nothing but the request matters.
LEMMA ShapeFacts ==
  ASSUME ShapeInv
  PROVE  /\ Shape(req) /\ Sound(req) /\ IsRequest(req)
         /\ req.pc \notin {"fetch", "resolve", "storage", "done"} => req.cands = {}
         /\ \A t : \A S : Allowed(t, {}, S)
BY DEF ShapeInv, Shape, Sound, Placed, Allowed

\* The request is answered with something that may serve it.
LEMMA AnsweredKept ==
  ASSUME ShapeInv, NEW a \in Answers, Allowed(a.target, req.cands, req.tried),
         Step(Answered(a, req)), cache' = cache, late' = late
  PROVE  ShapeInv'
<1>1. Shape(Answered(a, req))
  BY ShapeFacts, AnsweredShape
<1> QED BY <1>1, ShapeKept

\* The request fails.
LEMMA FailedShape ==
  ASSUME ShapeInv, NEW by \in {"nobody", "worker", "assets", "cache", "storage", "go"},
         NEW kind \in Kinds,
         NEW status \in {0, 200, 302, 404, 405, 410, 502, 503},
         Step(Answered(Failure(by, kind, status), req)), cache' = cache, late' = late
  PROVE  ShapeInv'
<1>1. PICK a : a = Failure(by, kind, status)
  OBVIOUS
<1>2. a \in Answers /\ a.target = NoTarget
  BY <1>1, FailureIn
<1>3. \A c \in req.cands : c.target \in Targets
  BY DEF ShapeInv, Shape, Sound
<1>4. Allowed(a.target, req.cands, req.tried)
  BY <1>2, <1>3, NowhereAllowed
<1> QED BY <1>1, <1>2, <1>4, AnsweredKept

\* The request moves on by itself, or to the server.
LEMMA OnwardKept ==
  ASSUME ShapeInv, cache' = cache, late' = late,
         \/ /\ \E pc \in {"serve", "static", "cache", "deployment"} : Step(Moved(pc))
            /\ req.cands = {}
         \/ \E how : Step(AskServer(how))
  PROVE  ShapeInv'
<1>1. CASE req.cands = {} /\ \E pc \in {"serve", "static", "cache", "deployment"} : Step(Moved(pc))
  <2>1. PICK pc \in {"serve", "static", "cache", "deployment"} : Step(Moved(pc))
    BY <1>1
  <2>2. Shape(Moved(pc))
    BY <1>1, ShapeFacts, MovedShape
  <2> QED BY <2>1, <2>2, ShapeKept
<1>2. CASE \E how : Step(AskServer(how))
  <2>1. PICK how : Step(AskServer(how))
    BY <1>2
  <2>2. Shape(AskServer(how))
    BY ShapeFacts, MovedShape
  <2> QED BY <2>1, <2>2, ShapeKept
<1> QED BY <1>1, <1>2

\* A request arrives.
LEMMA ArriveShape ==
  ASSUME ShapeInv, NEW r \in Requests, Arrive(r)
  PROVE  ShapeInv'
<1>1. PICK n : n = [Idle EXCEPT
              !.pc = IF r.via = "origin" THEN "serve"
                     ELSE IF r.method = "POST" THEN "refuse" ELSE "manifest",
              !.r = r, !.atOrigin = r.via = "origin",
              !.steady = Targets \ down,
              !.live = {active} \ {None},
              !.online = online]
  OBVIOUS
<1>2. Step(n) /\ cache' = cache /\ late' = late
  BY <1>1 DEF Arrive
<1>3. DOMAIN Idle = Fields /\ Idle = [f \in DOMAIN Idle |-> Idle[f]]
  BY DEF Idle, Fields
<1>4. IsRequest(n)
  BY <1>1, <1>3 DEF IsRequest
<1>5. /\ Idle["reply"] = NoAnswer /\ Idle["answer"] = NoAnswer /\ Idle["dep"] = None
      /\ Idle["queue"] = <<>> /\ Idle["cands"] = {}
  BY DEF Idle
<1>6. n["pc"] \in {"serve", "refuse", "manifest"}
  BY <1>1, <1>3 DEF Fields
<1>7. n["reply"] = Idle["reply"] /\ n["answer"] = Idle["answer"] /\ n["dep"] = Idle["dep"]
  BY <1>1, <1>3 DEF Fields
<1>8. n["queue"] = Idle["queue"] /\ n["cands"] = Idle["cands"]
  BY <1>1, <1>3 DEF Fields
<1>9. NoAnswer \in Answers
  BY DEF NoAnswer, Answers, Kinds
<1>10. <<>> \in Seq(Targets)
  OBVIOUS
<1>11. Sound(n)
  BY <1>4, <1>5, <1>7, <1>8, <1>9, <1>10 DEF Sound
<1>12. Placed(n)
  BY <1>5, <1>6, <1>8 DEF Placed, Places
<1>13. Shape(n)
  BY <1>11, <1>12 DEF Shape
<1> QED BY <1>2, <1>13, ShapeKept

\* There is none.
LEMMA IdleShape == Shape(Idle)
<1>1. NoAnswer \in Answers
  BY DEF NoAnswer, Answers, Kinds
<1>2. <<>> \in Seq(Targets)
  OBVIOUS
<1>3. IsRequest(Idle)
  BY DEF Idle, IsRequest, Fields
<1>4. /\ Idle.pc = "idle" /\ Idle.reply = NoAnswer /\ Idle.answer = NoAnswer
      /\ Idle.dep = None /\ Idle.queue = <<>> /\ Idle.cands = {}
  BY DEF Idle
<1>5. Sound(Idle)
  BY <1>1, <1>2, <1>3, <1>4 DEF Sound
<1>6. Placed(Idle)
  BY <1>4 DEF Placed, Places
<1> QED BY <1>5, <1>6 DEF Shape

\* The connection is free again.
LEMMA LeaveShape ==
  ASSUME ShapeInv, Leave
  PROVE  ShapeInv'
BY IdleShape, ShapeKept DEF Leave

\* A method that is refused at the edge.
LEMMA RefuseShape ==
  ASSUME ShapeInv, Refuse
  PROVE  ShapeInv'
<1>1. req.pc = "refuse" /\ cache' = cache /\ late' = late
  BY DEF Refuse
<1>2. CASE StaticEnabled
  <2>1. Step(Answered(Failure("worker", "method", 405), req))
    BY <1>2 DEF Refuse
  <2> QED BY <1>1, <2>1, FailedShape DEF Kinds
<1>3. CASE ~StaticEnabled /\ ~OriginFallbackEnabled
  <2>1. Step(Answered(Failure("worker", "fallback_disabled", 502), req))
    BY <1>3 DEF Refuse
  <2> QED BY <1>1, <2>1, FailedShape DEF Kinds
<1>4. CASE ~StaticEnabled /\ OriginFallbackEnabled
  <2>1. PICK m : m = Moved("serve")
    OBVIOUS
  <2>2. PICK n : n = [m EXCEPT !.atOrigin = TRUE]
    OBVIOUS
  <2>3. Step(n)
    BY <1>4, <2>1, <2>2 DEF Refuse
  <2>4. req.cands = {} /\ IsRequest(req) /\ Sound(req)
    BY <1>1, ShapeFacts
  <2>5. /\ IsRequest(m) /\ m.pc = "serve" /\ m.cands = {} /\ m.dep = req.dep
        /\ m.reply = req.reply /\ m.answer = req.answer /\ m.queue = req.queue
    BY <2>1, <2>4, MovedFacts DEF Carries
  <2>6. /\ IsRequest(n) /\ n.pc = "serve" /\ n.cands = {} /\ n.dep = req.dep
        /\ n.reply = req.reply /\ n.answer = req.answer /\ n.queue = req.queue
    BY <2>2, <2>5 DEF IsRequest, Fields
  <2>7. Shape(n)
    BY <2>4, <2>6, OnwardShape
  <2> QED BY <1>1, <2>3, <2>7, ShapeKept
<1> QED BY <1>2, <1>3, <1>4

\* What the manifest has for the request in flight.
LEMMA ManifestPlanFacts ==
  ASSUME ShapeInv, Inv, req.pc = "manifest", NEW plan, plan = ManifestPlan, plan.how # "none"
  PROVE  /\ kv # None /\ kv.dep \in Deployments
         /\ PlanFine(plan, ToSet(kv.asset.cands))
         /\ \A c \in ToSet(kv.asset.cands) : c.target \in Targets
<1>1. NoPlan.how = "none"
  BY DEF NoPlan
<1>2. kv # None /\ plan = Plan(kv.asset, setup.deps[kv.dep].failover, req.r)
  BY <1>1 DEF ManifestPlan
<1>3. kv.dep \in Deployments /\ RouteFine(kv.asset)
  BY <1>2 DEF ShapeInv, ManifestFine
<1>4. setup.deps[kv.dep].failover \in BOOLEAN
  BY <1>3 DEF ShapeInv, SetupFine
<1>5. req.r.client \in Clients \cup {NoClient} /\ req.r.path \in Paths
  <2>1. req.r \in Requests
    BY DEF Inv, RequestInv, Path
  <2> QED BY <2>1, ServingAssumption
<1>6. PICK route : route = kv.asset
  OBVIOUS
<1>7. PICK failover \in BOOLEAN : failover = setup.deps[kv.dep].failover
  BY <1>4
<1>8. PlanFine(Plan(route, failover, req.r), ToSet(route.cands))
  BY <1>3, <1>5, <1>6, PlanFacts
<1>9. \A c \in ToSet(route.cands) : c.target \in Targets
  BY <1>3, <1>6, CandidateFacts DEF RouteFine
<1> QED BY <1>2, <1>3, <1>6, <1>7, <1>8, <1>9

\* The manifest has an answer of its own.
LEMMA ManifestRedirectsShape ==
  ASSUME ShapeInv, Inv, ManifestRedirects
  PROVE  ShapeInv'
<1>1. req.pc = "manifest" /\ cache' = cache /\ late' = late
  BY DEF ManifestRedirects
<1>2. req.cands = {} /\ Sound(req)
  BY <1>1, ShapeFacts
<1>3. CASE kv # None /\ Step(Answered(Answer("worker", "rule", 302, kv.dep, NoTarget), req))
  <2>1. PICK a : a = Answer("worker", "rule", 302, kv.dep, NoTarget)
    OBVIOUS
  <2>2. kv.dep \in Deployments \cup {None}
    BY <1>3 DEF ShapeInv, ManifestFine
  <2>3. a \in Answers
    BY <2>1, <2>2, AnswerIn DEF Kinds
  <2>4. Allowed(a.target, req.cands, req.tried)
    BY <1>2, ShapeFacts
  <2> QED BY <1>1, <1>3, <2>1, <2>3, <2>4, AnsweredKept
<1>4. CASE /\ ManifestPlan.how = "redirect"
           /\ Step([Answered(Answer("worker", "redirect", 302, kv.dep,
                                    Head(ManifestPlan.queue)), req)
                    EXCEPT !.cands = ToSet(kv.asset.cands)])
  <2>1. PICK plan : plan = ManifestPlan
    OBVIOUS
  <2>2. PICK cands : cands = ToSet(kv.asset.cands)
    OBVIOUS
  <2>3. plan.how = "redirect"
    BY <1>4, <2>1
  <2>4. /\ kv.dep \in Deployments /\ PlanFine(plan, cands)
        /\ \A c \in cands : c.target \in Targets
    BY <1>1, <2>1, <2>2, <2>3, ManifestPlanFacts
  <2>5. PICK queue : queue = plan.queue
    OBVIOUS
  <2>6. queue \in Seq(Targets) /\ queue # <<>> /\ InTurn(queue, cands, {})
    BY <2>3, <2>4, <2>5 DEF PlanFine
  <2>7. Head(queue) \in Targets
    BY <2>6, TurnTaken
  <2>8. ASSUME NEW S PROVE Allowed(Head(queue), cands, S)
    <3>1. InTurn(queue, cands, S)
      BY <2>6, TurnKept
    <3> QED BY <2>6, <3>1, TurnTaken
  <2>9. PICK a : a = Answer("worker", "redirect", 302, kv.dep, Head(queue))
    OBVIOUS
  <2>10. a \in Answers /\ a.target = Head(queue)
    <3>1. /\ "redirect" \in Kinds /\ kv.dep \in Deployments \cup {None}
          /\ Head(queue) \in Targets \cup {NoTarget}
      BY <2>4, <2>7 DEF Kinds
    <3> QED BY <2>9, <3>1, AnswerIn
  <2>11. Allowed(a.target, req.cands, req.tried)
    BY <1>2, ShapeFacts
  <2>12. PICK m : m = Answered(a, req)
    OBVIOUS
  <2>13. Shape(m) /\ m.pc = "done" /\ m.answer = a
    BY <1>2, <2>10, <2>11, <2>12, AnsweredShape, AnsweredFacts, ShapeFacts, ZenonT(60)
  <2>14. Shape([m EXCEPT !.cands = cands])
    BY <2>4, <2>8, <2>10, <2>13, CandsShape
  <2>15. Step([m EXCEPT !.cands = cands])
    BY <1>4, <2>1, <2>2, <2>5, <2>9, <2>12
  <2> QED BY <1>1, <2>14, <2>15, ShapeKept
<1> QED BY <1>3, <1>4 DEF ManifestRedirects

\* The Worker is to fetch the asset.
LEMMA ManifestFetchesShape ==
  ASSUME ShapeInv, Inv, ManifestFetches
  PROVE  ShapeInv'
<1>1. PICK plan : plan = ManifestPlan
  OBVIOUS
<1>2. PICK cands : cands = ToSet(kv.asset.cands)
  OBVIOUS
<1>3. /\ req.pc = "manifest" /\ cache' = cache /\ late' = late
      /\ plan.how \in {"proxy", "gateway", "failover"}
  BY <1>1 DEF ManifestFetches
<1>4. plan.how # "none"
  BY <1>3
<1>5. /\ kv.dep \in Deployments /\ PlanFine(plan, cands)
      /\ \A c \in cands : c.target \in Targets
  BY <1>1, <1>2, <1>3, <1>4, ManifestPlanFacts
<1>6. plan.queue \in Seq(Targets) /\ \A S : InTurn(plan.queue, cands, S)
  <2>1. plan.queue \in Seq(Targets) /\ InTurn(plan.queue, cands, {})
    BY <1>5 DEF PlanFine
  <2> QED BY <2>1, TurnKept
<1>7. PICK m : m = Moved("fetch")
  OBVIOUS
<1>8. IsRequest(req) /\ Sound(req)
  BY ShapeFacts
<1>9. /\ IsRequest(m) /\ m.pc = "fetch" /\ m.reply = req.reply /\ m.answer = req.answer
  BY <1>7, <1>8, MovedFacts DEF Carries
<1>10. PICK n : n = [m EXCEPT !.dep = kv.dep, !.how = plan.how, !.queue = plan.queue,
                              !.offered = ToSet(plan.queue), !.cands = cands]
  OBVIOUS
<1>11. Step(n)
  BY <1>1, <1>2, <1>7, <1>10 DEF ManifestFetches
<1>12. DOMAIN m = Fields /\ m = [f \in DOMAIN m |-> m[f]]
  BY <1>9 DEF IsRequest
<1>13. IsRequest(n)
  BY <1>10, <1>12 DEF IsRequest
<1>14. n["dep"] = kv.dep /\ n["how"] = plan.how /\ n["queue"] = plan.queue
  BY <1>10, <1>12 DEF Fields
<1>15. n["cands"] = cands /\ n["pc"] = m["pc"]
  BY <1>10, <1>12 DEF Fields
<1>16. n["reply"] = m["reply"] /\ n["answer"] = m["answer"]
  BY <1>10, <1>12 DEF Fields
<1>17. Sound(n)
  BY <1>5, <1>6, <1>8, <1>9, <1>13, <1>14, <1>15, <1>16 DEF Sound
<1>18. Placed(n)
  BY <1>3, <1>6, <1>9, <1>14, <1>15 DEF Placed, Places
<1> QED BY <1>3, <1>11, <1>17, <1>18, ShapeKept DEF Shape

\* The manifest has nothing for the request.
LEMMA ManifestSilentShape ==
  ASSUME ShapeInv, ManifestSilent
  PROVE  ShapeInv'
<1>1. req.pc = "manifest" /\ cache' = cache /\ late' = late
  BY DEF ManifestSilent
<1>2. CASE ~RoutingEnabled \/ ~ManifestHasLastWord
  <2>1. Step(Moved("static"))
    BY <1>2 DEF ManifestSilent
  <2>2. req.cands = {}
    BY <1>1, ShapeFacts
  <2> QED BY <1>1, <2>1, <2>2, OnwardKept
<1>3. CASE RoutingEnabled /\ ManifestHasLastWord /\ kv = None
  <2>1. Step(Answered(Failure("worker", "no_manifest", 503), req))
    BY <1>3 DEF ManifestSilent
  <2> QED BY <1>1, <2>1, FailedShape DEF Kinds
<1>4. CASE RoutingEnabled /\ ManifestHasLastWord /\ kv # None
  <2>1. PICK s \in {404, 502} : Step(Answered(Failure("worker", "unresolved", s), req))
    BY <1>4 DEF ManifestSilent
  <2> QED BY <1>1, <2>1, FailedShape DEF Kinds
<1> QED BY <1>2, <1>3, <1>4

\* What a target that was asked adds to a request.
LEMMA TriedShape ==
  ASSUME ShapeInv, NEW t
  PROVE  LET n == [req EXCEPT !.tried = req.tried \cup {t}]
         IN  /\ Sound(n) /\ n.cands = req.cands /\ n.tried = req.tried \cup {t}
             /\ n.pc = req.pc /\ n.how = req.how /\ n.dep = req.dep /\ n.queue = req.queue
             /\ n.reply = req.reply /\ n.answer = req.answer
<1>1. PICK n : n = [req EXCEPT !.tried = req.tried \cup {t}]
  OBVIOUS
<1>2. IsRequest(req) /\ Sound(req)
  BY ShapeFacts
<1>3. /\ IsRequest(n) /\ n.cands = req.cands /\ n.tried = req.tried \cup {t}
      /\ n.pc = req.pc /\ n.how = req.how /\ n.dep = req.dep /\ n.queue = req.queue
      /\ n.reply = req.reply /\ n.answer = req.answer
  BY <1>1, <1>2 DEF IsRequest, Fields
<1>4. Sound(n)
  BY <1>2, <1>3 DEF Sound
<1> QED BY <1>1, <1>3, <1>4

\* A target that is down is passed by.
LEMMA PassedByShape ==
  ASSUME ShapeInv, req.pc \in {"fetch", "stream"}, req.queue # <<>>,
         NEW tried, tried = req.tried \cup {Head(req.queue)},
         Step([[req EXCEPT !.tried = tried] EXCEPT !.queue = Tail(@)]),
         cache' = cache, late' = late
  PROVE  ShapeInv'
<1>1. PICK m : m = [req EXCEPT !.tried = tried]
  OBVIOUS
<1>2. /\ Sound(m) /\ m.cands = req.cands /\ m.tried = tried
      /\ m.pc = req.pc /\ m.how = req.how /\ m.queue = req.queue
  BY <1>1, TriedShape, ZenonT(60)
<1>3. PICK n : n = [m EXCEPT !.queue = Tail(@)]
  OBVIOUS
<1>4. IsRequest(m)
  BY <1>2 DEF Sound
<1>5. /\ IsRequest(n) /\ n.cands = req.cands /\ n.tried = tried
      /\ n.pc = req.pc /\ n.how = req.how /\ n.dep = m.dep
      /\ n.reply = m.reply /\ n.answer = m.answer
  BY <1>2, <1>3, <1>4 DEF IsRequest, Fields
<1>6. n.queue = Tail(req.queue)
  BY <1>2, <1>3, <1>4 DEF IsRequest, Fields
<1>7. PICK queue \in Seq(Targets) : queue = req.queue
  BY ShapeFacts DEF Sound
<1>8. Tail(queue) \in Seq(Targets)
  BY <1>7, TurnTaken, HeadTailProperties
<1>9. Sound(n)
  BY <1>2, <1>5, <1>6, <1>7, <1>8 DEF Sound
<1>10. Placed(n)
  <2>1. CASE req.pc = "fetch"
    <3>1. /\ req.how \in {"proxy", "gateway", "failover"}
          /\ InTurn(queue, req.cands, req.tried)
      BY <1>7, <2>1, ShapeFacts DEF Shape, Placed
    <3>2. InTurn(Tail(queue), req.cands, tried)
      BY <1>7, <3>1, TurnTaken
    <3> QED BY <1>5, <1>6, <1>7, <2>1, <3>1, <3>2 DEF Placed, Places
  <2>2. CASE req.pc = "stream"
    <3>1. req.cands = {}
      BY <2>2, ShapeFacts
    <3> QED BY <1>5, <2>2, <3>1 DEF Placed, Places
  <2> QED BY <2>1, <2>2
<1>11. Shape(n)
  BY <1>9, <1>10 DEF Shape
<1> QED BY <1>1, <1>3, <1>11, ShapeKept

\* The Worker asks the next target.
LEMMA FetchShape ==
  ASSUME ShapeInv, Fetch
  PROVE  ShapeInv'
<1>1. req.pc = "fetch" /\ cache' = cache /\ late' = late
  BY DEF Fetch
<1>2. PICK queue \in Seq(Targets) : queue = req.queue
  BY ShapeFacts DEF Sound
<1>3. /\ req.how \in {"proxy", "gateway", "failover"}
      /\ InTurn(queue, req.cands, req.tried)
  BY <1>1, <1>2, ShapeFacts DEF Shape, Placed
<1>4. CASE queue = <<>>
  <2>1. Step(Answered(Failure("worker", FailureOf(req.how), 502), req))
    BY <1>2, <1>4 DEF Fetch
  <2>2. FailureOf(req.how) \in Kinds
    BY <1>3 DEF FailureOf, Kinds
  <2> QED BY <1>1, <2>1, <2>2, FailedShape
<1>5. CASE queue # <<>> /\ Head(queue) \in down
  <2>1. PICK tried : tried = req.tried \cup {Head(req.queue)}
    OBVIOUS
  <2>2. Step([[req EXCEPT !.tried = tried] EXCEPT !.queue = Tail(@)])
    BY <1>2, <1>5, <2>1 DEF Fetch
  <2> QED BY <1>1, <1>2, <1>5, <2>1, <2>2, PassedByShape
<1>6. CASE queue # <<>> /\ Head(queue) \notin down
  <2>1. PICK t : t = Head(queue)
    OBVIOUS
  <2>2. t \in Targets /\ Allowed(t, req.cands, req.tried)
    BY <1>3, <1>6, <2>1, TurnTaken
  <2>3. PICK m : m = [req EXCEPT !.tried = req.tried \cup {t}]
    OBVIOUS
  <2>4. Sound(m) /\ m.cands = req.cands /\ m.tried = req.tried \cup {t}
    BY <2>3, TriedShape
  <2>5. PICK a : a = Answer("worker", req.how, 200, req.dep, t)
    OBVIOUS
  <2>6. Step(Answered(a, m))
    BY <1>2, <1>6, <2>1, <2>3, <2>5 DEF Fetch
  <2>7. a \in Answers /\ a.target = t
    <3>1. PICK how : how = req.how
      OBVIOUS
    <3>2. PICK d : d = req.dep
      OBVIOUS
    <3>3. how \in {"proxy", "gateway", "failover"}
      BY <1>3, <3>1
    <3>4. how \in Kinds
      BY <3>3 DEF Kinds
    <3>5. d \in Deployments \cup {None}
      BY <3>2, ShapeFacts DEF Sound
    <3>6. t \in Targets \cup {NoTarget}
      BY <2>2
    <3>7. a = Answer("worker", how, 200, d, t)
      BY <2>5, <3>1, <3>2
    <3> QED BY <3>4, <3>5, <3>6, <3>7, AnswerIn
  <2>8. Allowed(a.target, m.cands, m.tried)
    <3>1. Allowed(t, req.cands, req.tried \cup {t})
      BY <2>2, AllowedFacts
    <3> QED BY <2>4, <2>7, <3>1
  <2>9. Shape(Answered(a, m))
    BY <2>4, <2>7, <2>8, AnsweredShape
  <2> QED BY <1>1, <2>6, <2>9, ShapeKept
<1> QED BY <1>4, <1>5, <1>6

\* Without static assets.
LEMMA StaticOffShape ==
  ASSUME ShapeInv, StaticOff
  PROVE  ShapeInv'
<1>1. req.pc = "static" /\ cache' = cache /\ late' = late
  BY DEF StaticOff
<1>2. req.cands = {}
  BY <1>1, ShapeFacts
<1>3. CASE ~OriginFallbackEnabled
  <2>1. Step(Answered(Failure("worker", "fallback_disabled", 502), req))
    BY <1>3 DEF StaticOff
  <2> QED BY <1>1, <2>1, FailedShape DEF Kinds
<1>4. CASE OriginFallbackEnabled /\ req.r.range
  <2>1. Step(AskServer("plain"))
    BY <1>4 DEF StaticOff
  <2> QED BY <1>1, <2>1, OnwardKept
<1>5. CASE OriginFallbackEnabled /\ ~req.r.range
  <2>1. Step(Moved("cache"))
    BY <1>5 DEF StaticOff
  <2> QED BY <1>1, <1>2, <2>1, OnwardKept
<1> QED BY <1>3, <1>4, <1>5

\* With static assets.
LEMMA StaticShape ==
  ASSUME ShapeInv, Static
  PROVE  ShapeInv'
<1>1. req.pc = "static" /\ cache' = cache /\ late' = late
  BY DEF Static
<1>2. req.cands = {}
  BY <1>1, ShapeFacts
<1>3. PICK status \in {200, 404, 502, 503} :
         Step(IF status # 200 /\ EntryFallback THEN AskServer("entry")
              ELSE Answered(Answer("assets", "static", status, None, NoTarget), req))
  BY DEF Static
<1>4. CASE status # 200 /\ EntryFallback
  <2>1. Step(AskServer("entry"))
    BY <1>3, <1>4
  <2> QED BY <1>1, <2>1, OnwardKept
<1>5. CASE ~(status # 200 /\ EntryFallback)
  <2>1. PICK a : a = Answer("assets", "static", status, None, NoTarget)
    OBVIOUS
  <2>2. Step(Answered(a, req))
    BY <1>3, <1>5, <2>1
  <2>3. "static" \in Kinds
    BY DEF Kinds
  <2>4. a \in Answers
    BY <2>1, <2>3, AnswerIn
  <2>5. Allowed(a.target, req.cands, req.tried)
    BY <1>2, ShapeFacts
  <2> QED BY <1>1, <2>2, <2>4, <2>5, AnsweredKept
<1> QED BY <1>4, <1>5

\* What the cache holds.
LEMMA MatchCacheShape ==
  ASSUME ShapeInv, Inv, MatchCache
  PROVE  ShapeInv'
<1>1. req.pc = "cache" /\ cache' = cache /\ late' = late
  BY DEF MatchCache
<1>2. req.cands = {}
  BY <1>1, ShapeFacts
<1>3. PICK a : a = cache[req.r.path]
  OBVIOUS
<1>4. CASE a = None
  <2>1. Step(AskServer("plain"))
    BY <1>3, <1>4 DEF MatchCache
  <2> QED BY <1>1, <2>1, OnwardKept
<1>5. CASE a # None
  <2>1. Step(Answered(a, req))
    BY <1>3, <1>5 DEF MatchCache
  <2>2. req.r \in Requests
    BY <1>1 DEF Inv, RequestInv, Path
  <2>3. req.r.path \in Paths
    BY <2>2, ServingAssumption
  <2>4. a \in Answers
    BY <1>3, <1>5, <2>3 DEF ShapeInv, CacheFine, Stored
  <2>5. Allowed(a.target, req.cands, req.tried)
    BY <1>2, ShapeFacts
  <2> QED BY <1>1, <2>1, <2>4, <2>5, AnsweredKept
<1> QED BY <1>4, <1>5

-----------------------------------------------------------------------------
(* The targets the server redirects to.                                    *)

\* The policy's choice may serve a request that remembers the policy's candidates, and
\* there is none only if there are no candidates, or too few.
LEMMA PolicyTargetFacts ==
  ASSUME NEW policy, policy # NoPolicy => PolicyWellFormed(policy), NEW o,
         NEW enough \in {1, 2}, NEW r, r.client \in Clients \cup {NoClient}, r.peer \in Clients,
         r.path \in Paths
  PROVE  LET t     == PolicyTarget(policy, o, enough, r)
             cands == PolicyCands(policy, o)
         IN  /\ t \in Targets \cup {NoTarget}
             /\ \A c \in cands : c.target \in Targets
             /\ t # NoTarget => \A S : Allowed(t, cands, S)
             /\ t = NoTarget /\ enough = 1 => cands = {}
<1>1. PICK list : list = PolicyCandidates(policy, rows[o], sick)
  OBVIOUS
<1>2. CASE ~PolicyUsable(policy)
  <2>1. PolicyTarget(policy, o, enough, r) = NoTarget /\ PolicyCands(policy, o) = {}
    BY <1>2 DEF PolicyTarget, PolicyCands
  <2> QED BY <2>1
<1>3. CASE PolicyUsable(policy)
  <2>1. PolicyWellFormed(policy)
    BY <1>3 DEF PolicyUsable
  <2>2. CandidateList(list)
    BY <1>1, <2>1, PolicyCandidatesFacts
  <2>3. \A c \in ToSet(list) : c.target \in Targets
    BY <2>2, CandidateFacts
  <2>4. PolicyCands(policy, o) = ToSet(list)
    BY <1>1, <1>3 DEF PolicyCands
  <2>5. Len(list) \in Nat /\ (list = <<>> <=> Len(list) = 0) /\ (list = <<>> <=> ToSet(list) = {})
    <3>1. list \in Seq(ToSet(list))
      BY <2>2 DEF CandidateList
    <3> QED BY <3>1, ListFacts
  <2>6. PICK c : c = SelectRoutingCandidate(policy, list, r)
    OBVIOUS
  <2>7. PolicyTarget(policy, o, enough, r) = IF Len(list) >= enough THEN c.target ELSE NoTarget
    BY <1>1, <1>3, <2>6 DEF PolicyTarget
  <2>8. CASE list # <<>> /\ Len(list) >= enough
    <3>1. Chosen(list, c)
      BY <2>1, <2>2, <2>6, <2>8, ServerChooses DEF PolicyWellFormed
    <3>2. c.target \in Targets /\ c.target # NoTarget
      BY <2>3, <3>1, ProfileAssumption DEF Chosen
    <3>3. \A S : Allowed(c.target, ToSet(list), S)
      <4>1. \A e \in ToSet(list) : e.target = c.target => e = c
        BY <2>2, <3>1 DEF CandidateList, Chosen
      <4> QED BY <3>1, <4>1 DEF Allowed, Chosen
    <3> QED BY <2>3, <2>4, <2>7, <2>8, <3>2, <3>3
  <2>9. CASE ~(list # <<>> /\ Len(list) >= enough)
    <3>1. ~(Len(list) >= enough)
      <4>1. PICK n \in Nat : n = Len(list)
        BY <2>5
      <4>2. n = 0 => ~(n >= enough)
        OBVIOUS
      <4> QED BY <2>5, <2>9, <4>1, <4>2
    <3>2. enough = 1 => list = <<>>
      <4>1. PICK n \in Nat : n = Len(list)
        BY <2>5
      <4>2. enough = 1 /\ ~(n >= enough) => n = 0
        OBVIOUS
      <4> QED BY <2>5, <3>1, <4>1, <4>2
    <3> QED BY <2>3, <2>4, <2>5, <2>7, <3>1, <3>2
  <2> QED BY <2>8, <2>9
<1> QED BY <1>2, <1>3

\* What the request in flight asks for.
LEMMA AskedFacts ==
  ASSUME Inv, req.pc # "idle"
  PROVE  /\ req.r \in Requests /\ req.r.client \in Clients \cup {NoClient}
         /\ req.r.peer \in Clients /\ req.r.path \in Paths
<1>1. req.r \in Requests
  BY DEF Inv, RequestInv, Path
<1> QED BY <1>1, ServingAssumption

\* The policy of a deployment.
LEMMA PolicyFacts ==
  ASSUME ShapeInv
  PROVE  /\ setup.policy # NoPolicy => PolicyWellFormed(setup.policy)
         /\ \A d : PolicyOf(d) # NoPolicy => PolicyWellFormed(PolicyOf(d))
BY DEF ShapeInv, SetupFine, PolicyOf

\* The replicas of an object, and its primary.
LEMMA RowsFacts ==
  ASSUME ShapeInv, NEW o \in Objects
  PROVE  /\ primary[o] \in Targets
         /\ ReadyInOrder(rows[o], primary[o]) \in Seq(Targets)
         /\ PrimaryURL(rows[o], primary[o]) \in Targets \cup {NoTarget}
         /\ AnyURL(rows[o], primary[o]) \in Targets \cup {NoTarget}
<1>1. primary[o] \in Targets
  BY DEF ShapeInv, WorldFine
<1> QED BY <1>1, ReadyFacts

\* So may the target that a file of a deployment is at.
LEMMA SiteTargetFacts ==
  ASSUME ShapeInv, NEW d \in Deployments, NEW r,
         r.client \in Clients \cup {NoClient}, r.peer \in Clients, r.path \in Paths
  PROVE  LET t     == SiteTarget(d, r)
             cands == PolicyCands(PolicyOf(d), d)
         IN  /\ t \in Targets \cup {NoTarget}
             /\ \A c \in cands : c.target \in Targets
             /\ t # NoTarget => \A S : Allowed(t, cands, S)
<1>1. PICK policy : policy = PolicyOf(d)
  OBVIOUS
<1>2. policy # NoPolicy => PolicyWellFormed(policy)
  BY <1>1, PolicyFacts
<1>3. PICK chosen : chosen = PolicyTarget(policy, d, 1, r)
  OBVIOUS
<1>4. PICK cands : cands = PolicyCands(policy, d)
  OBVIOUS
<1>5. /\ chosen \in Targets \cup {NoTarget}
      /\ \A c \in cands : c.target \in Targets
      /\ chosen # NoTarget => \A S : Allowed(chosen, cands, S)
      /\ chosen = NoTarget => cands = {}
  BY <1>2, <1>3, <1>4, PolicyTargetFacts
<1>6. d \in Objects
  BY DEF Objects
<1>7. PICK direct \in Targets \cup {NoTarget} : direct = PrimaryURL(rows[d], primary[d])
  BY <1>6, RowsFacts
<1>8. PICK any \in Targets \cup {NoTarget} : any = IF setup.deps[d].failover
                                             THEN AnyURL(rows[d], primary[d]) ELSE NoTarget
  BY <1>6, RowsFacts
<1>9. SiteTarget(d, r) = IF chosen # NoTarget THEN chosen
                         ELSE IF direct # NoTarget THEN direct ELSE any
  BY <1>1, <1>3, <1>7, <1>8 DEF SiteTarget
<1>10. \A t, S : Allowed(t, {}, S)
  BY DEF Allowed
<1> QED BY <1>1, <1>4, <1>5, <1>9, <1>10

-----------------------------------------------------------------------------
(* The steps of the server.                                                *)

\* The server replies with something that may serve the request.
LEMMA RepliedKept ==
  ASSUME ShapeInv, NEW a \in Answers, Allowed(a.target, req.cands, req.tried),
         Step(Reply(a, req)), cache' = cache, late' = late
  PROVE  ShapeInv'
<1>1. Shape(Reply(a, req))
  BY ShapeFacts, ReplyShape
<1> QED BY <1>1, ShapeKept

\* The server replies that it failed.
LEMMA FailedReplyShape ==
  ASSUME ShapeInv, NEW kind \in Kinds,
         NEW status \in {0, 200, 302, 404, 405, 410, 502, 503},
         Step(Reply(Failure("go", kind, status), req)), cache' = cache, late' = late
  PROVE  ShapeInv'
<1>1. PICK a : a = Failure("go", kind, status)
  OBVIOUS
<1>2. a \in Answers /\ a.target = NoTarget
  BY <1>1, FailureIn
<1>3. \A c \in req.cands : c.target \in Targets
  BY DEF ShapeInv, Shape, Sound
<1>4. Allowed(a.target, req.cands, req.tried)
  BY <1>2, <1>3, NowhereAllowed
<1> QED BY <1>1, <1>2, <1>4, RepliedKept

\* The server replies with a redirect to a target that it chose among candidates.
LEMMA RedirectShape ==
  ASSUME ShapeInv, req.cands = {}, NEW d \in Deployments \cup {None}, NEW t \in Targets,
         NEW cands, \A c \in cands : c.target \in Targets, \A S : Allowed(t, cands, S),
         Step([Reply(Answer("go", "redirect", 302, d, t), req) EXCEPT !.cands = cands]),
         cache' = cache, late' = late
  PROVE  ShapeInv'
<1>1. PICK a : a = Answer("go", "redirect", 302, d, t)
  OBVIOUS
<1>2. "redirect" \in Kinds /\ t \in Targets \cup {NoTarget}
  BY DEF Kinds
<1>3. a \in Answers /\ a.target = t
  BY <1>1, <1>2, AnswerIn
<1>4. Allowed(a.target, req.cands, req.tried)
  BY ShapeFacts
<1>5. PICK m : m = Reply(a, req)
  OBVIOUS
<1>6. Sound(req) /\ IsRequest(req)
  BY ShapeFacts
<1>7. Shape(m)
  BY <1>3, <1>4, <1>5, <1>6, ReplyShape
<1>8. m.pc = "resolve" /\ m.reply = a
  BY <1>5, <1>6, ReplyFacts
<1>9. Shape([m EXCEPT !.cands = cands])
  BY <1>3, <1>7, <1>8, CandsShape
<1> QED BY <1>1, <1>5, <1>9, ShapeKept

\* Streaming an object, or sending the client to it.
LEMMA StreamedShape ==
  ASSUME ShapeInv, req.cands = {}, NEW o \in Objects, NEW dep \in Deployments \cup {None},
         NEW pass \in BOOLEAN
  PROVE  Shape(Streamed(o, dep, pass, req))
<1>1. PICK ready : ready = Select(ReadyInOrder(rows[o], primary[o]),
                                  LAMBDA t : t \in Stores)
  OBVIOUS
<1>2. ready \in Seq(Targets)
  <2>1. PICK all \in Seq(Targets) : all = ReadyInOrder(rows[o], primary[o])
    BY RowsFacts
  <2>2. PICK K : K = {t \in ToSet(all) : t \in Stores}
    OBVIOUS
  <2>3. ready = Only(all, K)
    BY <1>1, <2>1, <2>2 DEF Select
  <2> QED BY <2>3, SelectedList
<1>3. Sound(req) /\ IsRequest(req) /\ \A t : Allowed(t, req.cands, req.tried)
  BY ShapeFacts
<1>4. CASE ready = <<>>
  <2>1. PICK a : a = Failure("go", "no_replica", 404)
    OBVIOUS
  <2>2. Streamed(o, dep, pass, req) = Reply(a, req)
    BY <1>1, <1>4, <2>1 DEF Streamed
  <2>3. "no_replica" \in Kinds
    BY DEF Kinds
  <2>4. a \in Answers
    BY <2>1, <2>3, FailureIn
  <2>5. Shape(Reply(a, req))
    BY <1>3, <2>4, ReplyShape
  <2> QED BY <2>2, <2>5
<1>5. CASE ready # <<>> /\ pass /\ URLKind[Head(ready)] # "none"
  <2>1. PICK t : t = Head(ready)
    OBVIOUS
  <2>2. t \in Targets \cup {NoTarget}
    BY <1>2, <1>5, <2>1
  <2>3. PICK a : a = Answer("go", "pass", 302, dep, t)
    OBVIOUS
  <2>4. Streamed(o, dep, pass, req) = Reply(a, req)
    BY <1>1, <1>5, <2>1, <2>3 DEF Streamed
  <2>5. "pass" \in Kinds
    BY DEF Kinds
  <2>6. a \in Answers
    BY <2>2, <2>3, <2>5, AnswerIn
  <2>7. Shape(Reply(a, req))
    BY <1>3, <2>6, ReplyShape
  <2> QED BY <2>4, <2>7
<1>6. CASE ready # <<>> /\ ~(pass /\ URLKind[Head(ready)] # "none")
  <2>1. PICK n : n = [req EXCEPT !.pc = "stream", !.dep = dep, !.cands = {},
                                 !.queue = ready, !.offered = ToSet(ready)]
    OBVIOUS
  <2>2. Streamed(o, dep, pass, req) = n
    BY <1>1, <1>6, <2>1 DEF Streamed
  <2>3. DOMAIN req = Fields /\ req = [f \in DOMAIN req |-> req[f]]
    BY <1>3 DEF IsRequest
  <2>4. IsRequest(n)
    BY <2>1, <2>3 DEF IsRequest
  <2>5. n["pc"] = "stream" /\ n["dep"] = dep /\ n["queue"] = ready
    BY <2>1, <2>3 DEF Fields
  <2>6. n["cands"] = {}
    BY <2>1, <2>3 DEF Fields
  <2>7. n["reply"] = req["reply"] /\ n["answer"] = req["answer"]
    BY <2>1, <2>3 DEF Fields
  <2>8. Sound(n)
    BY <1>2, <1>3, <2>4, <2>5, <2>6, <2>7 DEF Sound
  <2>9. Placed(n)
    BY <2>5, <2>6 DEF Placed, Places
  <2> QED BY <2>2, <2>8, <2>9 DEF Shape
<1> QED BY <1>4, <1>5, <1>6

\* servePublic, up to the first row it reads.
LEMMA ServeSiteShape ==
  ASSUME ShapeInv, ServeSite
  PROVE  ShapeInv'
<1>1. req.pc = "serve" /\ cache' = cache /\ late' = late
  BY DEF ServeSite
<1>2. req.cands = {}
  BY <1>1, ShapeFacts
<1>3. CASE req.r.method = "POST"
  <2>1. Step(Reply(Failure("go", "method", 405), req))
    BY <1>3 DEF ServeSite
  <2> QED BY <1>1, <2>1, FailedReplyShape DEF Kinds
<1>4. CASE req.r.method # "POST" /\ ~online
  <2>1. Step(Reply(Failure("go", "offline", 410), req))
    BY <1>4 DEF ServeSite
  <2> QED BY <1>1, <2>1, FailedReplyShape DEF Kinds
<1>5. CASE req.r.method # "POST" /\ online
  <2>1. Step(Moved("deployment"))
    BY <1>5 DEF ServeSite
  <2> QED BY <1>1, <1>2, <2>1, OnwardKept
<1> QED BY <1>3, <1>4, <1>5

\* A deployment is chosen, by its name or as the active one.
LEMMA ChosenShape ==
  ASSUME ShapeInv, req.cands = {}, NEW d \in Deployments,
         Step([Moved("file") EXCEPT !.dep = d]), cache' = cache, late' = late
  PROVE  ShapeInv'
<1>1. PICK m : m = Moved("file")
  OBVIOUS
<1>2. IsRequest(req) /\ Sound(req)
  BY ShapeFacts
<1>3. /\ IsRequest(m) /\ m.pc = "file" /\ m.reply = req.reply
      /\ m.answer = req.answer /\ m.queue = req.queue /\ m.cands = {}
  BY <1>1, <1>2, MovedFacts DEF Carries
<1>4. PICK n : n = [m EXCEPT !.dep = d]
  OBVIOUS
<1>5. /\ IsRequest(n) /\ n.pc = "file" /\ n.reply = req.reply
      /\ n.answer = req.answer /\ n.queue = req.queue /\ n.cands = {}
  BY <1>3, <1>4 DEF IsRequest, Fields
<1>6. n.dep = d
  BY <1>3, <1>4 DEF IsRequest, Fields
<1>7. Sound(n)
  BY <1>2, <1>5, <1>6 DEF Sound
<1>8. Placed(n)
  BY <1>5, <1>6 DEF Placed, Places
<1>9. Shape(n)
  BY <1>7, <1>8 DEF Shape
<1> QED BY <1>1, <1>4, <1>9, ShapeKept

\* A preview.
LEMMA ServePreviewShape ==
  ASSUME ShapeInv, ServePreview
  PROVE  ShapeInv'
<1>1. req.pc = "serve" /\ cache' = cache /\ late' = late
  BY DEF ServePreview
<1>2. req.cands = {}
  BY <1>1, ShapeFacts
<1>3. PICK d \in Deployments : Step([Moved("file") EXCEPT !.dep = d])
  BY DEF ServePreview
<1> QED BY <1>1, <1>2, <1>3, ChosenShape

\* The active deployment.
LEMMA FindDeploymentShape ==
  ASSUME ShapeInv, FindDeployment
  PROVE  ShapeInv'
<1>1. req.pc = "deployment" /\ cache' = cache /\ late' = late
  BY DEF FindDeployment
<1>2. req.cands = {}
  BY <1>1, ShapeFacts
<1>3. CASE active = None
  <2>1. Step(Reply(Failure("go", "no_deployment", 404), req))
    BY <1>3 DEF FindDeployment
  <2> QED BY <1>1, <2>1, FailedReplyShape DEF Kinds
<1>4. CASE active # None
  <2>1. active \in Deployments
    BY <1>4 DEF ShapeInv, WorldFine
  <2>2. Step([Moved("file") EXCEPT !.dep = active])
    BY <1>4 DEF FindDeployment
  <2> QED BY <1>1, <1>2, <2>1, <2>2, ChosenShape
<1> QED BY <1>3, <1>4

\* A download.
LEMMA ServeDownloadShape ==
  ASSUME ShapeInv, ServeDownload
  PROVE  ShapeInv'
<1>1. req.pc = "serve" /\ cache' = cache /\ late' = late
  BY DEF ServeDownload
<1>2. req.cands = {}
  BY <1>1, ShapeFacts
<1>3. PICK d \in Deployments :
         LET t == AnyURL(rows[d], primary[d])
         IN  Step(Reply(IF t = NoTarget THEN Failure("go", "no_url", 502)
                        ELSE Answer("go", "redirect", 302, d, t), req))
  BY DEF ServeDownload
<1>4. d \in Objects
  BY DEF Objects
<1>5. PICK t \in Targets \cup {NoTarget} : t = AnyURL(rows[d], primary[d])
  BY <1>4, RowsFacts
<1>6. CASE t = NoTarget
  <2>1. Step(Reply(Failure("go", "no_url", 502), req))
    BY <1>3, <1>5, <1>6
  <2> QED BY <1>1, <2>1, FailedReplyShape DEF Kinds
<1>7. CASE t # NoTarget
  <2>1. PICK a : a = Answer("go", "redirect", 302, d, t)
    OBVIOUS
  <2>2. Step(Reply(a, req))
    BY <1>3, <1>5, <1>7, <2>1
  <2>3. "redirect" \in Kinds /\ d \in Deployments \cup {None}
    BY DEF Kinds
  <2>4. a \in Answers
    BY <2>1, <2>3, AnswerIn
  <2>5. Allowed(a.target, req.cands, req.tried)
    BY <1>2, ShapeFacts
  <2> QED BY <1>1, <2>2, <2>4, <2>5, RepliedKept
<1> QED BY <1>6, <1>7

\* An object of a project or of a bucket.
LEMMA ServeObjectShape ==
  ASSUME ShapeInv, Inv, ServeObject
  PROVE  ShapeInv'
<1>1. req.pc = "serve" /\ cache' = cache /\ late' = late
  BY DEF ServeObject
<1>2. req.cands = {}
  BY <1>1, ShapeFacts
<1>3. PICK policy : policy = setup.policy
  OBVIOUS
<1>4. PICK t : t = PolicyTarget(policy, Bucket, 2, req.r)
  OBVIOUS
<1>5. PICK cands : cands = PolicyCands(policy, Bucket)
  OBVIOUS
<1>6. CASE req.r.path = "bucket" /\ setup.bucketPolicy /\ ~req.r.range /\ t # NoTarget
  <2>1. Step([Reply(Answer("go", "redirect", 302, None, t), req) EXCEPT !.cands = cands])
    BY <1>3, <1>4, <1>5, <1>6 DEF ServeObject
  <2>2. /\ policy # NoPolicy => PolicyWellFormed(policy)
        /\ req.r.client \in Clients \cup {NoClient} /\ req.r.peer \in Clients
        /\ req.r.path \in Paths
    BY <1>1, <1>3, PolicyFacts, AskedFacts
  <2>3. /\ t \in Targets /\ \A c \in cands : c.target \in Targets
        /\ \A S : Allowed(t, cands, S)
    BY <1>4, <1>5, <1>6, <2>2, PolicyTargetFacts
  <2> QED BY <1>1, <1>2, <2>1, <2>3, RedirectShape
<1>7. CASE ~(req.r.path = "bucket" /\ setup.bucketPolicy /\ ~req.r.range /\ t # NoTarget)
  <2>1. Step(Streamed(Bucket, None, setup.allowRedirect /\ ~req.r.range, req))
    BY <1>3, <1>4, <1>7 DEF ServeObject
  <2>2. PICK pass \in BOOLEAN : pass = (setup.allowRedirect /\ ~req.r.range)
    OBVIOUS
  <2>3. Bucket \in Objects
    BY DEF Objects
  <2>4. Shape(Streamed(Bucket, None, pass, req))
    BY <1>2, <2>3, StreamedShape
  <2> QED BY <1>1, <2>1, <2>2, <2>4, ShapeKept
<1> QED BY <1>6, <1>7

\* A deployment's file, its rule, or nothing.
LEMMA SendFileShape ==
  ASSUME ShapeInv, Inv, SendFile
  PROVE  ShapeInv'
<1>1. req.pc = "file" /\ cache' = cache /\ late' = late
  BY DEF SendFile
<1>2. req.cands = {}
  BY <1>1, ShapeFacts
<1> DEFINE d     == req.dep
           file  == FileFor(d, req.r.path).file
           t     == SiteTarget(d, req.r)
           cands == PolicyCands(PolicyOf(d), d)
           may   == /\ Delivery(file) = "redirect"
                    /\ ~req.r.range
                    /\ ~(req.force /\ env.secret = "agreed")
<1>3. d \in Deployments
  BY <1>1 DEF ShapeInv, Shape, Placed
<1>4. t = SiteTarget(d, req.r) /\ cands = PolicyCands(PolicyOf(d), d)
  OBVIOUS
<1>8. Step(CASE file = "rule" -> Reply(Answer("go", "rule", 302, d, NoTarget), req)
             [] file = "none" -> Reply(Failure("go", "no_file", 404), req)
             [] OTHER ->
                   IF may /\ t # NoTarget
                   THEN [Reply(Answer("go", "redirect", 302, d, t), req)
                         EXCEPT !.cands = cands]
                   ELSE IF may /\ setup.deps[d].failover
                        THEN Reply(Failure("go", "no_target", 502), req)
                        ELSE Streamed(d, d, FALSE, req))
  BY DEF SendFile
<1>9. d \in Deployments \cup {None} /\ d \in Objects
  BY <1>3 DEF Objects
<1> HIDE DEF d, file, t, cands, may
<1>10. CASE file = "rule"
  <2>1. PICK a : a = Answer("go", "rule", 302, d, NoTarget)
    OBVIOUS
  <2>2. Step(Reply(a, req))
    BY <1>8, <1>10, <2>1
  <2>3. "rule" \in Kinds
    BY DEF Kinds
  <2>4. a \in Answers
    BY <1>9, <2>1, <2>3, AnswerIn
  <2>5. Allowed(a.target, req.cands, req.tried)
    BY <1>2, ShapeFacts
  <2> QED BY <1>1, <2>2, <2>4, <2>5, RepliedKept
<1>11. CASE file = "none"
  <2>1. Step(Reply(Failure("go", "no_file", 404), req))
    BY <1>8, <1>11
  <2> QED BY <1>1, <2>1, FailedReplyShape DEF Kinds
<1>12. CASE file \notin {"rule", "none"} /\ may /\ t # NoTarget
  <2>1. Step([Reply(Answer("go", "redirect", 302, d, t), req) EXCEPT !.cands = cands])
    BY <1>8, <1>12
  <2>2. /\ req.r.client \in Clients \cup {NoClient} /\ req.r.peer \in Clients
        /\ req.r.path \in Paths
    BY <1>1, AskedFacts
  <2>3. /\ t \in Targets /\ \A c \in cands : c.target \in Targets
        /\ \A S : Allowed(t, cands, S)
    BY <1>3, <1>4, <1>12, <2>2, SiteTargetFacts
  <2> QED BY <1>1, <1>2, <1>9, <2>1, <2>3, RedirectShape
<1>13. CASE file \notin {"rule", "none"} /\ ~(may /\ t # NoTarget)
            /\ may /\ setup.deps[d].failover
  <2>1. Step(Reply(Failure("go", "no_target", 502), req))
    BY <1>8, <1>13
  <2> QED BY <1>1, <2>1, FailedReplyShape DEF Kinds
<1>14. CASE file \notin {"rule", "none"} /\ ~(may /\ t # NoTarget)
            /\ ~(may /\ setup.deps[d].failover)
  <2>1. Step(Streamed(d, d, FALSE, req))
    BY <1>8, <1>14
  <2>2. Shape(Streamed(d, d, FALSE, req))
    BY <1>2, <1>9, StreamedShape
  <2> QED BY <1>1, <2>1, <2>2, ShapeKept
<1> QED BY <1>10, <1>11, <1>12, <1>13, <1>14

\* The status a path is answered with.
LEMMA StatusFacts ==
  ASSUME NEW d, NEW path
  PROVE  FileFor(d, path).status \in {200, 302, 404}
BY DEF FileFor

\* The next store is asked for the object.
LEMMA StreamShape ==
  ASSUME ShapeInv, Stream
  PROVE  ShapeInv'
<1>1. req.pc = "stream" /\ cache' = cache /\ late' = late
  BY DEF Stream
<1>2. req.cands = {}
  BY <1>1, ShapeFacts
<1>3. PICK queue \in Seq(Targets) : queue = req.queue
  BY ShapeFacts DEF Sound
<1>4. CASE queue = <<>>
  <2>1. Step(Reply(Failure("go", "stream_failed", 502), req))
    BY <1>3, <1>4 DEF Stream
  <2> QED BY <1>1, <2>1, FailedReplyShape DEF Kinds
<1>5. CASE queue # <<>> /\ Head(queue) \in down
  <2>1. PICK tried : tried = req.tried \cup {Head(req.queue)}
    OBVIOUS
  <2>2. Step([[req EXCEPT !.tried = tried] EXCEPT !.queue = Tail(@)])
    BY <1>3, <1>5, <2>1 DEF Stream
  <2> QED BY <1>1, <1>3, <1>5, <2>1, <2>2, PassedByShape
<1>6. CASE queue # <<>> /\ Head(queue) \notin down
  <2>1. PICK t : t = Head(queue)
    OBVIOUS
  <2>2. PICK status : status = (IF req.dep = None THEN 200
                                ELSE FileFor(req.dep, req.r.path).status)
    OBVIOUS
  <2>3. PICK d : d = req.dep
    OBVIOUS
  <2>4. PICK a : a = Answer("go", "stream", status, d, t)
    OBVIOUS
  <2>5. PICK m : m = [req EXCEPT !.tried = req.tried \cup {t}]
    OBVIOUS
  <2>6. Step(Reply(a, m))
    BY <1>3, <1>6, <2>1, <2>2, <2>3, <2>4, <2>5 DEF Stream
  <2>7. "stream" \in Kinds
    BY DEF Kinds
  <2>8. status \in {200, 302, 404}
    BY <2>2, StatusFacts
  <2>9. status \in {0, 200, 302, 404, 405, 410, 502, 503}
    BY <2>8
  <2>10. d \in Deployments \cup {None}
    BY <2>3, ShapeFacts DEF Sound
  <2>11. t \in Targets \cup {NoTarget}
    BY <1>6, <2>1
  <2>12. a \in Answers
    BY <2>4, <2>7, <2>9, <2>10, <2>11, AnswerIn
  <2>13. Sound(m) /\ m.cands = req.cands
    BY <2>5, TriedShape
  <2>14. Allowed(a.target, m.cands, m.tried)
    BY <1>2, <2>13, ShapeFacts
  <2>15. Shape(Reply(a, m))
    BY <2>12, <2>13, <2>14, ReplyShape
  <2> QED BY <1>1, <2>6, <2>15, ShapeKept
<1> QED BY <1>4, <1>5, <1>6

-----------------------------------------------------------------------------
(* The Worker again.                                                       *)

\* What is kept of an answer is one.
LEMMA KeptIn ==
  ASSUME NEW a \in Answers
  PROVE  Kept(a) \in Answers /\ Kept(a).status = a.status
<1>1. PICK k : k = Kept(a)
  OBVIOUS
<1>2. a \in [{"by", "kind", "status", "dep", "target"} -> {a[f] : f \in
                {"by", "kind", "status", "dep", "target"}}]
  BY DEF Answers
<1>3. /\ DOMAIN a = {"by", "kind", "status", "dep", "target"}
      /\ a["status"] \in {0, 200, 302, 404, 405, 410, 502, 503}
      /\ a["dep"] \in Deployments \cup {None}
  BY DEF Answers
<1>4. DOMAIN k = DOMAIN a /\ k = [f \in DOMAIN k |-> k[f]]
  BY <1>1, <1>2 DEF Kept
<1>5. k["by"] = "cache" /\ k["kind"] = "kept" /\ k["target"] = NoTarget
  BY <1>1, <1>3 DEF Kept
<1>6. k["status"] = a["status"] /\ k["dep"] = a["dep"]
  BY <1>1, <1>3 DEF Kept
<1>7. "kept" \in Kinds
  BY DEF Kinds
<1>8. k = [by |-> k["by"], kind |-> k["kind"], status |-> k["status"], dep |-> k["dep"],
           target |-> k["target"]]
  BY <1>3, <1>4
<1>9. k \in Answers
  BY <1>3, <1>5, <1>6, <1>7, <1>8 DEF Answers
<1> QED BY <1>1, <1>6, <1>9

\* An answer goes out and may be kept.
LEMMA FinishShape ==
  ASSUME ShapeInv, Inv, req.pc # "idle", NEW q, Sound(q), NEW a \in Answers,
         Allowed(a.target, q.cands, q.tried), Finish(a, q)
  PROVE  ShapeInv'
<1>1. Step(Answered(a, q)) /\ Store(a) /\ cache' = cache
  BY DEF Finish
<1>2. Shape(Answered(a, q))
  BY AnsweredShape
<1>3. req.r.path \in Paths
  BY AskedFacts, ServingAssumption
<1>4. CASE late' = late
  BY <1>1, <1>2, <1>4, ShapeKept
<1>5. CASE late' # late
  <2>1. PICK w : w = [path |-> req.r.path, holds |-> Kept(a)]
    OBVIOUS
  <2>2. a.status \in {200, 404} /\ late' = late \cup {w}
    BY <1>1, <1>5, <2>1 DEF Store
  <2>3. w.path \in Paths /\ w.holds \in Stored
    BY <1>3, <2>1, <2>2, KeptIn DEF Stored
  <2> QED BY <1>1, <1>2, <2>2, <2>3, ShapeKept
<1> QED BY <1>4, <1>5

\* The reply is the answer.
LEMMA PassOnShape ==
  ASSUME ShapeInv, Inv, PassOn
  PROVE  ShapeInv'
<1>1. req.pc = "resolve" /\ Finish(req.reply, req)
  BY DEF PassOn
<1>2. Allowed(req.reply.target, req.cands, req.tried)
  BY <1>1 DEF ShapeInv, Shape, Placed
<1>3. Sound(req) /\ req.reply \in Answers
  BY ShapeFacts DEF Sound
<1> QED BY <1>1, <1>2, <1>3, FinishShape

\* A marked redirect.
LEMMA FollowRedirectShape ==
  ASSUME ShapeInv, FollowRedirect
  PROVE  ShapeInv'
<1>1. req.pc = "resolve" /\ cache' = cache /\ late' = late
  BY DEF FollowRedirect
<1>2. CASE Step(Moved("storage"))
  <2>1. PICK n : n = Moved("storage")
    OBVIOUS
  <2>2. Sound(req) /\ IsRequest(req) /\ Allowed(req.reply.target, req.cands, req.tried)
    BY <1>1, ShapeFacts DEF Shape, Placed
  <2>3. /\ IsRequest(n) /\ n.pc = "storage" /\ n.reply = req.reply /\ n.answer = req.answer
        /\ n.dep = req.dep /\ n.queue = req.queue /\ n.cands = req.cands
        /\ n.tried = req.tried
    BY <2>1, <2>2, MovedFacts DEF Carries
  <2>4. Sound(n)
    BY <2>2, <2>3 DEF Sound
  <2>5. Placed(n)
    BY <2>2, <2>3 DEF Placed, Places
  <2>6. Shape(n)
    BY <2>4, <2>5 DEF Shape
  <2> QED BY <1>1, <1>2, <2>1, <2>6, ShapeKept
<1>3. CASE Step(Answered(Failure("worker", "storage_failed", 502), req))
  BY <1>1, <1>3, FailedShape DEF Kinds
<1> QED BY <1>2, <1>3 DEF FollowRedirect

\* The storage that the reply names.
LEMMA FetchStorageShape ==
  ASSUME ShapeInv, Inv, FetchStorage
  PROVE  ShapeInv'
<1>1. req.pc = "storage"
  BY DEF FetchStorage
<1>2. PICK t : t = req.reply.target
  OBVIOUS
<1>3. PICK q : q = [req EXCEPT !.tried = req.tried \cup {t}]
  OBVIOUS
<1>4. Sound(q) /\ q.cands = req.cands /\ q.tried = req.tried \cup {t}
  BY <1>3, TriedShape
<1>5. Sound(req) /\ IsRequest(req) /\ Allowed(t, req.cands, req.tried)
  BY <1>1, <1>2, ShapeFacts DEF Shape, Placed
<1>6. req.reply.dep \in Deployments \cup {None} /\ t \in Targets \cup {NoTarget}
  BY <1>2, <1>5 DEF Sound, Answers
<1>7. CASE Finish(Answer("storage", "proxied", 200, req.reply.dep, t), q)
  <2>1. PICK d \in Deployments \cup {None} : d = req.reply.dep
    BY <1>6
  <2>2. PICK a : a = Answer("storage", "proxied", 200, d, t)
    OBVIOUS
  <2>3. "proxied" \in Kinds
    BY DEF Kinds
  <2>4. a \in Answers /\ a.target = t
    BY <1>6, <2>2, <2>3, AnswerIn
  <2>5. Allowed(t, req.cands, req.tried \cup {t})
    BY <1>5, AllowedFacts
  <2>6. Allowed(a.target, q.cands, q.tried)
    BY <1>4, <2>4, <2>5
  <2> QED BY <1>1, <1>4, <1>7, <2>1, <2>2, <2>4, <2>6, FinishShape
<1>8. CASE \E status \in {404, 502} : Finish(Failure("storage", "storage_failed", status), q)
  <2>1. PICK status \in {404, 502} : Finish(Failure("storage", "storage_failed", status), q)
    BY <1>8
  <2>2. PICK a : a = Failure("storage", "storage_failed", status)
    OBVIOUS
  <2>3. "storage_failed" \in Kinds
    BY DEF Kinds
  <2>4. a \in Answers /\ a.target = NoTarget
    BY <2>2, <2>3, FailureIn
  <2>5. Allowed(a.target, q.cands, q.tried)
    BY <1>4, <2>4, NowhereAllowed DEF Sound
  <2> QED BY <1>1, <1>4, <2>1, <2>2, <2>4, <2>5, FinishShape
<1>9. CASE Step([AskServer("again") EXCEPT !.tried = q.tried]) /\ cache' = cache /\ late' = late
  <2>1. PICK m : m = AskServer("again")
    OBVIOUS
  <2>2. /\ IsRequest(m) /\ m.pc = "serve" /\ m.cands = {} /\ m.dep = req.dep
        /\ m.reply = req.reply /\ m.answer = req.answer /\ m.queue = req.queue
    BY <1>5, <2>1, AskServerFacts DEF Carries
  <2>3. PICK n : n = [m EXCEPT !.tried = q.tried]
    OBVIOUS
  <2>4. /\ IsRequest(n) /\ n.pc = "serve" /\ n.cands = {} /\ n.dep = req.dep
        /\ n.reply = req.reply /\ n.answer = req.answer /\ n.queue = req.queue
    BY <2>2, <2>3 DEF IsRequest, Fields
  <2>5. Shape(n)
    BY <1>5, <2>4, OnwardShape
  <2> QED BY <1>9, <2>1, <2>3, <2>5, ShapeKept
<1> QED BY <1>2, <1>3, <1>7, <1>8, <1>9 DEF FetchStorage

-----------------------------------------------------------------------------
(* The cache, the world and the beginning.                                 *)

\* What a request in flight sees of the world changes nothing of this.
LEMMA SeenShape ==
  ASSUME ShapeInv, Inv, Seen
  PROVE  Shape(req')
<1>1. CASE req.pc = "idle"
  BY <1>1, ShapeFacts DEF Seen
<1>2. CASE req.pc # "idle"
  <2>1. /\ IsRequest(req') /\ req'.pc = req.pc /\ req'.dep = req.dep
        /\ req'.queue = req.queue /\ req'.how = req.how
        /\ req'.reply = req.reply /\ req'.answer = req.answer
        /\ req'.cands = req.cands /\ req'.tried = req.tried
    BY <1>2, SeenFacts
  <2>2. Sound(req) /\ Placed(req)
    BY ShapeFacts DEF Shape
  <2>3. PICK n : n = req'
    OBVIOUS
  <2>4. /\ IsRequest(n) /\ n.pc = req.pc /\ n.dep = req.dep
        /\ n.queue = req.queue /\ n.how = req.how
        /\ n.reply = req.reply /\ n.answer = req.answer
        /\ n.cands = req.cands /\ n.tried = req.tried
    BY <2>1, <2>3
  <2>5. Sound(n)
    BY <2>2, <2>4 DEF Sound
  <2>6. Placed(n)
    BY <2>2, <2>4 DEF Placed
  <2> QED BY <2>3, <2>5, <2>6 DEF Shape
<1> QED BY <1>1, <1>2

\* The world changes as it should.
LEMMA WorldShape ==
  ASSUME ShapeInv, Inv, Seen, setup' = setup, late' = late, WorldFine', ManifestFine',
         \A p \in Paths : cache'[p] = cache[p] \/ cache'[p] = None
  PROVE  ShapeInv'
<1>1. Shape(req)'
  BY SeenShape DEF Shape, Sound, Placed
<1>2. SetupFine'
  BY DEF ShapeInv, SetupFine
<1>3. CacheFine'
  BY DEF ShapeInv, CacheFine
<1> QED BY <1>1, <1>2, <1>3 DEF ShapeInv

\* The manifest stays.
LEMMA ManifestStays ==
  ASSUME ShapeInv, kv' = kv, setup' = setup
  PROVE  ManifestFine'
BY DEF ShapeInv, ManifestFine, Buildable

\* One change more.
LEMMA ChangeCounts ==
  ASSUME ShapeInv, Change
  PROVE  /\ changes' \in 0..MaxChanges /\ setup' = setup /\ late' = late
         /\ online \in BOOLEAN /\ active \in Deployments \cup {None}
         /\ published \subseteq Deployments
         /\ rows \in [Objects -> [Targets -> {"ready", "pending", "none"}]]
         /\ primary \in [Objects -> Targets]
         /\ sick \subseteq Targets /\ down \subseteq Targets
BY ServingAssumption DEF ShapeInv, WorldFine, Change

\* A manifest of a deployment that can have one.
LEMMA ManifestIsFine ==
  ASSUME SetupFine, WorldFine, NEW d \in Deployments
  PROVE  /\ Manifest(d).dep = d
         /\ RouteFine(Manifest(d).asset)
<1>1. PICK policy : policy = PolicyOf(d)
  OBVIOUS
<1>2. PICK failover \in BOOLEAN : failover = setup.deps[d].failover
  BY DEF SetupFine
<1>3. policy # NoPolicy => PolicyWellFormed(policy)
  BY <1>1 DEF SetupFine, PolicyOf
<1>4. primary[d] \in Targets
  BY DEF WorldFine, Objects
<1>5. RouteFine(RouteForFile("redirect", policy, failover, rows[d], sick, primary[d]))
  BY <1>3, <1>4, RouteFacts
<1> QED BY <1>1, <1>2, <1>5 DEF Manifest

\* Whatever changes.
LEMMA WorldStepShape ==
  ASSUME ShapeInv, Inv, WorldStep
  PROVE  ShapeInv'
<1>1. ASSUME NEW d \in Deployments, Activate(d)
      PROVE  ShapeInv'
  <2>1. WorldFine'
    BY <1>1, ChangeCounts DEF Activate, WorldFine
  <2>2. ManifestFine'
    BY <1>1, ChangeCounts, ManifestStays DEF Activate
  <2> QED BY <1>1, <2>1, <2>2, ChangeCounts, WorldShape DEF Activate
<1>2. ASSUME SetSiteStatus
      PROVE  ShapeInv'
  <2>1. WorldFine'
    BY <1>2, ChangeCounts DEF SetSiteStatus, WorldFine
  <2>2. ManifestFine'
    BY <1>2, ChangeCounts, ManifestStays DEF SetSiteStatus
  <2> QED BY <1>2, <2>1, <2>2, ChangeCounts, WorldShape DEF SetSiteStatus
<1>3. ASSUME NEW o \in Objects, NEW t \in Targets, ReplicaChanges(o, t)
      PROVE  ShapeInv'
  <2>1. PICK status \in {"ready", "pending"} : rows' = [rows EXCEPT ![o][t] = status]
    BY <1>3 DEF ReplicaChanges
  <2>2. rows' \in [Objects -> [Targets -> {"ready", "pending", "none"}]]
    BY <1>3, <2>1, ChangeCounts DEF ReplicaChanges
  <2>3. WorldFine'
    BY <1>3, <2>2, ChangeCounts DEF ReplicaChanges, WorldFine
  <2>4. ManifestFine'
    BY <1>3, ChangeCounts, ManifestStays DEF ReplicaChanges
  <2> QED BY <1>3, <2>3, <2>4, ChangeCounts, WorldShape DEF ReplicaChanges
<1>4. ASSUME NEW t \in Targets, Probe(t)
      PROVE  ShapeInv'
  <2>1. WorldFine'
    BY <1>4, ChangeCounts DEF Probe, WorldFine
  <2>2. ManifestFine'
    BY <1>4, ChangeCounts, ManifestStays DEF Probe
  <2> QED BY <1>4, <2>1, <2>2, ChangeCounts, WorldShape DEF Probe
<1>5. ASSUME NEW t \in Targets, Outage(t)
      PROVE  ShapeInv'
  <2>1. WorldFine'
    BY <1>5, ChangeCounts DEF Outage, WorldFine
  <2>2. ManifestFine'
    BY <1>5, ChangeCounts, ManifestStays DEF Outage
  <2> QED BY <1>5, <2>1, <2>2, ChangeCounts, WorldShape DEF Outage
<1>6. ASSUME NEW o \in Objects, NEW t \in Targets, SwitchPrimary(o, t)
      PROVE  ShapeInv'
  <2>1. WorldFine'
    BY <1>6, ChangeCounts DEF SwitchPrimary, WorldFine
  <2>2. ManifestFine'
    BY <1>6, ChangeCounts, ManifestStays DEF SwitchPrimary
  <2> QED BY <1>6, <2>1, <2>2, ChangeCounts, WorldShape DEF SwitchPrimary
<1>7. ASSUME PublishManifest
      PROVE  ShapeInv'
  <2>1. WorldFine'
    BY <1>7, ChangeCounts DEF PublishManifest, WorldFine
  <2>2. active \in Deployments /\ Buildable(active) /\ kv' = Manifest(active)
    BY <1>7, ChangeCounts DEF PublishManifest
  <2>3. kv'.dep \in Deployments /\ Buildable(kv'.dep) /\ RouteFine(kv'.asset)
    BY <2>2, ManifestIsFine DEF ShapeInv
  <2>4. ManifestFine'
    BY <1>7, <2>3, ChangeCounts DEF PublishManifest, ManifestFine, Buildable
  <2> QED BY <1>7, <2>1, <2>4, ChangeCounts, WorldShape DEF PublishManifest
<1>8. ASSUME Purge
      PROVE  ShapeInv'
  <2>1. WorldFine'
    BY <1>8, ChangeCounts DEF Purge, WorldFine
  <2>2. ManifestFine'
    BY <1>8, ChangeCounts, ManifestStays DEF Purge
  <2>3. \A p \in Paths : cache'[p] = cache[p] \/ cache'[p] = None
    <3>1. PICK reached : cache' = [p \in Paths |-> IF p \in {"index"} \cup reached
                                                  THEN None ELSE cache[p]]
      BY <1>8 DEF Purge
    <3> QED BY <3>1
  <2> QED BY <1>8, <2>1, <2>2, <2>3, ChangeCounts, WorldShape DEF Purge
<1>9. ToSet(Profile) \subseteq Targets
  BY ProfileAssumption, ListFacts
<1> QED BY <1>1, <1>2, <1>3, <1>4, <1>5, <1>6, <1>7, <1>8, <1>9 DEF WorldStep

\* What was late is in the cache, or what was in it expires.
LEMMA CacheShape ==
  ASSUME ShapeInv, Inv, WriteCache \/ Expire
  PROVE  ShapeInv'
<1>1. /\ setup' = setup /\ online' = online /\ active' = active /\ req' = req
      /\ published' = published /\ rows' = rows /\ primary' = primary /\ sick' = sick
      /\ down' = down /\ kv' = kv /\ changes' = changes
  BY DEF WriteCache, Expire, world
<1>2. cache = [p \in Paths |-> cache[p]]
  BY DEF Inv, KeptInv
<1>3. CacheFine'
  <2>1. CASE WriteCache
    <3>1. PICK w \in late : cache' = [cache EXCEPT ![w.path] = w.holds] /\ late' = late \ {w}
      BY <2>1 DEF WriteCache
    <3>2. w.holds \in Stored
      BY <3>1 DEF ShapeInv, CacheFine
    <3>3. \A p \in Paths : cache'[p] = cache[p] \/ cache'[p] = w.holds
      BY <1>2, <3>1
    <3> QED BY <3>1, <3>2, <3>3 DEF ShapeInv, CacheFine
  <2>2. CASE Expire
    <3>1. PICK p \in Paths : cache' = [cache EXCEPT ![p] = None] /\ late' = late
      BY <2>2 DEF Expire
    <3>2. \A x \in Paths : cache'[x] = cache[x] \/ cache'[x] = None
      BY <1>2, <3>1
    <3> QED BY <3>1, <3>2 DEF ShapeInv, CacheFine
  <2> QED BY <2>1, <2>2
<1>4. SetupFine'
  BY <1>1 DEF ShapeInv, SetupFine
<1>5. WorldFine'
  BY <1>1 DEF ShapeInv, WorldFine
<1>6. ManifestFine'
  BY <1>1, ManifestStays
<1>7. Shape(req)'
  BY <1>1 DEF ShapeInv, Shape, Sound, Placed
<1> QED BY <1>3, <1>4, <1>5, <1>6, <1>7 DEF ShapeInv

\* Every step keeps it.
LEMMA NextShape ==
  ASSUME ShapeInv, Inv, [Next]_vars
  PROVE  ShapeInv'
<1>1. CASE vars' = vars
  <2>1. /\ setup' = setup /\ online' = online /\ active' = active /\ req' = req
        /\ published' = published /\ rows' = rows /\ primary' = primary /\ sick' = sick
        /\ down' = down /\ kv' = kv /\ changes' = changes /\ cache' = cache /\ late' = late
    BY <1>1 DEF vars, world
  <2>2. SetupFine' /\ WorldFine' /\ CacheFine'
    BY <2>1 DEF ShapeInv, SetupFine, WorldFine, CacheFine
  <2>3. ManifestFine'
    BY <2>1, ManifestStays
  <2>4. Shape(req)'
    BY <2>1 DEF ShapeInv, Shape, Sound, Placed
  <2> QED BY <2>2, <2>3, <2>4 DEF ShapeInv
<1>2. ASSUME NEW r \in Requests, Arrive(r)
      PROVE  ShapeInv'
  BY <1>2, ArriveShape
<1>3. CASE RequestStep
  BY <1>3, LeaveShape, RefuseShape, ManifestRedirectsShape, ManifestFetchesShape,
     ManifestSilentShape, FetchShape, StaticOffShape, StaticShape, MatchCacheShape,
     ServeSiteShape, ServePreviewShape, ServeDownloadShape, ServeObjectShape,
     FindDeploymentShape, SendFileShape, StreamShape, PassOnShape,
     FollowRedirectShape, FetchStorageShape DEF RequestStep
<1>4. CASE WriteCache \/ Expire
  BY <1>4, CacheShape
<1>5. CASE WorldStep
  BY <1>5, WorldStepShape
<1> QED BY <1>1, <1>2, <1>3, <1>4, <1>5 DEF Next

\* It begins so.
LEMMA InitShape ==
  ASSUME Init
  PROVE  ShapeInv
<1>1. PICK s \in Starts :
          /\ env = s.env /\ setup = s.setup /\ sick = s.sick /\ down = s.down
          /\ rows = [o \in Objects |-> [t \in Targets |->
                        IF t \notin ToSet(Profile) THEN "none"
                        ELSE IF o = s.setup.first /\ t \in s.pending
                             THEN "pending" ELSE "ready"]]
  BY DEF Init
<1>2. /\ online = TRUE /\ active \in {None, setup.first} /\ published = {active} \ {None}
      /\ primary = [o \in Objects |-> Profile[1]]
      /\ cache = [p \in Paths |-> None] /\ late = {} /\ req = Idle /\ changes = 0
  BY DEF Init
<1>3. SetupFine
  BY <1>1, ServingAssumption DEF SetupFine
<1>4. sick \subseteq Targets /\ down \subseteq Targets
  BY <1>1, ServingAssumption
<1>5. rows \in [Objects -> [Targets -> {"ready", "pending", "none"}]]
  BY <1>1
<1>6. primary \in [Objects -> Targets]
  <2>1. Profile[1] \in Targets
    BY ProfileAssumption
  <2> QED BY <1>2, <2>1
<1>7. 0 \in 0..MaxChanges
  BY ServingAssumption
<1>8. active \in Deployments \cup {None} /\ published \subseteq Deployments
  BY <1>2, <1>3 DEF SetupFine
<1>9. WorldFine
  BY <1>2, <1>4, <1>5, <1>6, <1>7, <1>8 DEF WorldFine
<1>10. CacheFine
  BY <1>2 DEF CacheFine
<1>11. Shape(req)
  BY <1>2, IdleShape
<1>12. kv # None => active \in Deployments /\ Buildable(active) /\ kv = Manifest(active)
  <2>1. kv \in {None} \cup (IF active # None /\ Buildable(active)
                            THEN {Manifest(active)} ELSE {})
    BY DEF Init
  <2> QED BY <1>8, <2>1
<1>13. ManifestFine
  BY <1>3, <1>9, <1>12, ManifestIsFine DEF ManifestFine
<1> QED BY <1>3, <1>9, <1>10, <1>11, <1>13 DEF ShapeInv
-----------------------------------------------------------------------------
(* The theorems.                                                           *)

\* It begins so.
LEMMA InitInv ==
  ASSUME Init
  PROVE  Inv /\ QueueInv
<1>1. /\ cache = [p \in Paths |-> None] /\ late = {} /\ req = Idle
      /\ published = {active} \ {None}
  BY DEF Init
<1>2. /\ IsRequest(Idle) /\ Idle.pc = "idle" /\ Idle.reply = NoAnswer /\ Idle.answer = NoAnswer
  BY DEF Idle, IsRequest, Fields
<1>3. RequestInv(req)
  BY <1>1, <1>2, NoAnswerFacts DEF RequestInv
<1>4. KeptInv
  BY <1>1 DEF KeptInv, SitePaths, Assets, Paths
<1>5. QueueInv
  BY <1>1, <1>2 DEF QueueInv
<1> QED BY <1>1, <1>3, <1>4, <1>5 DEF Inv

\* Every step keeps it.
LEMMA NextKeeps ==
  ASSUME Inv, [Next]_vars
  PROVE  Keeps
<1>1. CASE vars' = vars
  <2>1. /\ req' = req /\ env' = env /\ online' = online /\ active' = active
        /\ published' = published /\ down' = down /\ cache' = cache /\ late' = late
    BY <1>1 DEF vars, world
  <2>2. Inv'
    BY <2>1 DEF Inv, KeptInv, RequestInv, Sees, Path, StaticEnabled
  <2>3. QueueInv => QueueInv'
    BY <2>1 DEF QueueInv, Queue, NoneLeft
  <2> QED BY <2>2, <2>3 DEF Keeps
<1>2. ASSUME NEW r \in Requests, Arrive(r)
      PROVE  Keeps
  BY <1>2, ArriveKeeps
<1>3. CASE RequestStep
  BY <1>3, LeaveKeeps, RefuseKeeps, ManifestRedirectsKeeps, ManifestFetchesKeeps,
     ManifestSilentKeeps, FetchKeeps, StaticOffKeeps, StaticKeeps, MatchCacheKeeps,
     ServeSiteKeeps, ServePreviewKeeps, ServeDownloadKeeps, ServeObjectKeeps,
     FindDeploymentKeeps, SendFileKeeps, StreamKeeps, PassOnKeeps,
     FollowRedirectKeeps, FetchStorageKeeps DEF RequestStep
<1>4. CASE WriteCache \/ Expire
  BY <1>4, WriteCacheKeeps, ExpireKeeps
<1>5. CASE WorldStep
  BY <1>5, WorldKeeps
<1> QED BY <1>1, <1>2, <1>3, <1>4, <1>5 DEF Next

\* The invariant holds.
THEOREM Invariant == Spec => []Inv
<1>1. Init => Inv
  BY InitInv
<1>2. Inv /\ [Next]_vars => Inv'
  BY NextKeeps DEF Keeps
<1> QED BY <1>1, <1>2, PTL DEF Spec

\* So does the shape of the variables, and the targets a request has left are a list:
\* whatever the policies and profiles, and however the replicas, their health and the
\* manifest change.
THEOREM ShapeInvariant == Spec => []ShapeInv
<1>1. Init => ShapeInv
  BY InitShape
<1>2. ShapeInv /\ Inv /\ [Next]_vars => ShapeInv'
  BY NextShape
<1> QED BY <1>1, <1>2, Invariant, PTL DEF Spec

\* Every variable has the shape the code gives it, and nothing but whole answers of
\* status 200 or 404 is in the Worker's cache or on its way there.
THEOREM TypeCorrect == Spec => []TypeOK
<1>1. ShapeInv => TypeOK
  <2> SUFFICES ASSUME ShapeInv PROVE TypeOK
    OBVIOUS
  <2>1. /\ online \in BOOLEAN /\ active \in Deployments \cup {None}
        /\ published \subseteq Deployments
        /\ rows \in [Objects -> [Targets -> {"ready", "pending", "none"}]]
        /\ primary \in [Objects -> Targets]
        /\ sick \subseteq Targets /\ down \subseteq Targets
        /\ changes \in 0..MaxChanges
    BY DEF ShapeInv, WorldFine
  <2>2. kv # None => kv.dep \in Deployments
    BY DEF ShapeInv, ManifestFine
  <2>3. req.reply \in Answers /\ req.answer \in Answers /\ QueueOK
    BY ShapeFacts DEF Sound, QueueOK
  <2>4. req.pc \in Places
    BY ShapeFacts DEF Shape, Placed
  <2>5. \A a \in {cache[p] : p \in Paths} \cup {w.holds : w \in late} :
           a # None => a \in Answers /\ a.status \in {200, 404}
    BY DEF ShapeInv, CacheFine, Stored
  <2> QED BY <2>1, <2>2, <2>3, <2>4, <2>5 DEF TypeOK, Places
<1> QED BY <1>1, ShapeInvariant, PTL

\* An asset of a site on static assets with a manifest never reaches the Go
\* server: whichever of the Worker's switches are on, whatever fails or changes.
THEOREM AssetsStay == Spec => []AssetsStayAtTheEdge
<1>1. Inv => AssetsStayAtTheEdge
  BY DEF Inv, RequestInv, Path, AssetsStayAtTheEdge
<1> QED BY <1>1, Invariant, PTL

\* What the server answers for a site's own URL is of a deployment that was
\* active, on a site that was online, at some moment of the request, and what
\* the edge keeps of it is of one that has been active: however the site changes
\* between the rows that are read, and however late the cache is written.
THEOREM AnswersLive == Spec => []AnswersWereLive
<1>1. Inv => AnswersWereLive
  BY NoAnswerFacts DEF Inv, RequestInv, Path, KeptInv, AnswersWereLive
<1> QED BY <1>1, Invariant, PTL

\* The targets that have been up all along are still to be tried.
LEMMA QueueKept == Spec => []QueueInv
<1>1. Init => QueueInv
  BY InitInv
<1>2. Inv /\ ShapeInv /\ QueueInv /\ [Next]_vars => QueueInv'
  BY NextKeeps, ShapeFacts DEF Keeps, Sound
<1> QED BY <1>1, <1>2, Invariant, ShapeInvariant, PTL DEF Spec

\* When the Worker or the server gives up on storage, no target that the request
\* was offered has been up all along, however the targets were chosen and ordered.
THEOREM GivesUp == Spec => []GivesUpLast
<1>1. QueueInv => GivesUpLast
  <2>1. NoAnswer.kind \notin GivenUp
    BY DEF NoAnswer, GivenUp
  <2>2. ASSUME QueueInv
        PROVE  GivesUpLast
    <3>1. CASE req.pc # "done"
      BY <2>1, <2>2, <3>1 DEF QueueInv, GivesUpLast, GivenUp
    <3>2. CASE req.pc = "done"
      BY <2>2, <3>2 DEF QueueInv, Queue, GivesUpLast, GivenUp, NoneLeft
    <3> QED BY <3>1, <3>2
  <2> QED BY <2>2
<1> QED BY <1>1, QueueKept, PTL

\* A source marked fallback_only serves a request only if the policy had no other, or
\* all others have been tried for this request: by whichever half it was chosen, alone
\* or in a list that is gone through while health, replicas and policy targets change.
THEOREM FallbackIsLast == Spec => []FallbackOnlyLast
<1>1. ShapeInv /\ QueueInv => FallbackOnlyLast
  <2> SUFFICES ASSUME ShapeInv, QueueInv PROVE FallbackOnlyLast
    OBVIOUS
  <2>1. CASE req.pc = "done"
    <3>1. Allowed(req.answer.target, req.cands, req.tried)
      BY <2>1, ShapeFacts DEF Shape, Placed
    <3> QED BY <3>1 DEF Allowed, FallbackOnlyLast
  <2>2. CASE req.pc # "done"
    <3>1. req.answer.target = NoTarget
      BY <2>2 DEF QueueInv, NoAnswer
    <3>2. \A c \in req.cands : c.target \in Targets
      BY ShapeFacts DEF Sound
    <3> QED BY <3>1, <3>2, ProfileAssumption DEF FallbackOnlyLast
  <2> QED BY <2>1, <2>2
<1> QED BY <1>1, ShapeInvariant, QueueKept, PTL

\* With candidates of its policy, a manifest's plan begins with the target the server
\* takes from the same candidates, where both read the same.
LEMMA PolicyAgrees ==
  ASSUME NEW route, NEW policy, policy # NoPolicy,
         policy.name \in PolicyNames, policy.name \in AsciiNames,
         NEW list, CandidateList(list), list # <<>>, TiesAlike(ToSet(list)),
         PolicyRoute(route, policy, list), NEW failover \in BOOLEAN,
         NEW r, r.client \in Clients, r.peer \in Clients,
         r.path \in Paths, Encoded(r.path) = r.path,
         NEW chosen, chosen = SelectRoutingCandidate(policy, list, r),
         NEW plan, plan = Plan(route, failover, r)
  PROVE  plan # NoPlan /\ Head(plan.queue) = chosen.target
<1> DEFINE To(t) == [how   |-> IF t \in Insecure THEN "proxy" ELSE "redirect",
                     queue |-> <<t>>]
<1>1. chosen = WorkerSelect(policy, list, r)
  BY ChoiceSame, ProfileAssumption
<1>2. plan = IF failover /\ Len(list) > 1
             THEN [how   |-> "failover", queue |-> TargetsOf(SmartOrder(list, chosen))]
             ELSE IF URLKind[chosen.target] = "ipfs"
                  THEN [how |-> "gateway", queue |-> <<chosen.target>>]
                  ELSE To(chosen.target)
  BY <1>1 DEF Plan, PolicyRoute
<1>3. \A t : To(t).how \in {"redirect", "proxy"} /\ To(t).queue = <<t>>
  OBVIOUS
<1> HIDE DEF To
<1>4. Chosen(list, chosen)
  BY <1>1, WorkerChooses
<1>5. CASE failover /\ Len(list) > 1
  <2>1. PICK q : q = SmartOrder(list, chosen)
    OBVIOUS
  <2>2. q \in Seq(ToSet(list)) /\ q # <<>> /\ q[1] = chosen
    BY <1>4, <2>1, SmartOrderFacts DEF InTheEnd
  <2>3. PICK queue \in Seq(Targets) : queue = TargetsOf(q)
    BY <2>2, TargetsOfFacts
  <2>4. Len(q) >= 1 /\ Len(queue) = Len(q) /\ \A k \in 1 .. Len(q) : queue[k] = q[k].target
    BY <2>2, <2>3, TargetsOfFacts, ListFacts
  <2>5. queue[1] = chosen.target
    <3>1. PICK n \in Nat : n = Len(q)
      BY <2>2
    <3>2. 1 \in 1 .. n
      BY <2>4, <3>1
    <3> QED BY <2>2, <2>4, <3>1, <3>2
  <2>6. Head(queue) = queue[1]
    BY <2>3, <2>4
  <2> QED BY <1>2, <1>5, <2>1, <2>3, <2>5, <2>6 DEF NoPlan
<1>6. CASE ~(failover /\ Len(list) > 1)
  <2>1. plan.how \in {"gateway", "redirect", "proxy"} /\ plan.queue = <<chosen.target>>
    BY <1>2, <1>3, <1>6
  <2>2. Head(<<chosen.target>>) = chosen.target
    OBVIOUS
  <2> QED BY <2>1, <2>2 DEF NoPlan
<1> QED BY <1>5, <1>6

\* Without, it is the primary's direct URL, if it has one.
LEMMA DirectAgrees ==
  ASSUME NEW route, NEW direct \in Targets \cup {NoTarget}, DirectRoute(route, direct),
         NEW failover, NEW r, NEW plan, plan = Plan(route, failover, r)
  PROVE  /\ plan = NoPlan <=> direct = NoTarget
         /\ direct # NoTarget => Head(plan.queue) = direct
<1> DEFINE To(t) == [how   |-> IF t \in Insecure THEN "proxy" ELSE "redirect",
                     queue |-> <<t>>]
           rest == Select(route.gateways, LAMBDA t : t # route.target)
<1>1. plan = CASE route.type = "failover" ->
                    [how   |-> "failover", queue |-> TargetsOf(FailoverOrder(route.cands))]
               [] route.type = "ipfs" ->
                    [how   |-> "gateway", queue |-> <<route.target>> \o rest]
               [] route.type = "redirect" -> To(route.target)
               [] OTHER -> NoPlan
  BY DEF Plan, DirectRoute
<1>2. \A t : To(t).how \in {"redirect", "proxy"} /\ To(t).queue = <<t>>
  OBVIOUS
<1> HIDE DEF To, rest
<1>3. CASE direct = NoTarget
  <2>1. route.type = "origin"
    BY <1>3 DEF DirectRoute
  <2> QED BY <1>1, <1>3, <2>1
<1>4. CASE direct # NoTarget /\ URLKind[direct] = "ipfs"
  <2>1. route.type = "ipfs" /\ route.target = direct
    BY <1>4 DEF DirectRoute
  <2>2. plan.how = "gateway" /\ plan.queue = <<direct>> \o rest
    BY <1>1, <2>1
  <2>3. Head(<<direct>> \o rest) = direct
    OBVIOUS
  <2> QED BY <1>4, <2>2, <2>3 DEF NoPlan
<1>5. CASE direct # NoTarget /\ URLKind[direct] # "ipfs"
  <2>1. route.type = "redirect" /\ route.target = direct
    BY <1>5 DEF DirectRoute
  <2>2. plan.how \in {"redirect", "proxy"} /\ plan.queue = <<direct>>
    BY <1>1, <1>2, <2>1
  <2>3. Head(<<direct>>) = direct
    OBVIOUS
  <2> QED BY <1>5, <2>2, <2>3 DEF NoPlan
<1> QED BY <1>3, <1>4, <1>5

\* The Go half of routing and the TypeScript half agree wherever they read the same: a
\* manifest that is up to date sends an asset whose path is not encoded where the server
\* would, for every policy with an ASCII name and weights, priorities and regions of any
\* kind, every two hashes that are equal on ASCII keys, every two orders of names that put
\* tied sources alike, and every client, but where resource_failover leaves it without a
\* policy's candidates.
THEOREM BothAgree == Spec => []HalvesAgree
<1>1. ShapeInv => HalvesAgree
  <2> SUFFICES ASSUME ShapeInv, kv # None, kv = Manifest(kv.dep), ReadAlike(kv.asset),
                      NEW r \in AssetRequests, Encoded(r.path) = r.path,
                      setup.deps[kv.dep].failover => kv.asset.policy # NoPolicy
               PROVE  LET plan   == Plan(kv.asset, setup.deps[kv.dep].failover, r)
                          target == SiteTarget(kv.dep, r)
                      IN  IF plan = NoPlan THEN target = NoTarget
                                           ELSE Head(plan.queue) = target
    BY DEF HalvesAgree
  <2>1. PICK d \in Deployments : d = kv.dep /\ Buildable(d)
    BY DEF ShapeInv, ManifestFine
  <2>2. PICK failover \in BOOLEAN : failover = setup.deps[d].failover
    BY DEF ShapeInv, SetupFine
  <2>3. PICK policy : policy = PolicyOf(d)
    OBVIOUS
  <2>4. policy # NoPolicy => PolicyWellFormed(policy) /\ PolicyUsable(policy)
    BY <2>1, <2>3, PolicyFacts DEF PolicyOf, Buildable
  <2>5. r.client \in Clients /\ r.peer \in Clients /\ r.path \in Paths
    BY DEF AssetRequests, Assets, Paths
  <2>6. PICK p \in Targets : p = primary[d]
    BY RowsFacts DEF Objects
  <2>7. PICK list : list = PolicyCandidates(policy, rows[d], sick)
    OBVIOUS
  <2>8. PICK route : route = RouteForFile("redirect", policy, failover, rows[d], sick, p)
    OBVIOUS
  <2>9. kv.asset = route
    <3>1. kv = Manifest(d)
      BY <2>1
    <3> QED BY <2>2, <2>3, <2>6, <2>8, <3>1 DEF Manifest
  <2>10. PICK direct \in Targets \cup {NoTarget} : direct = PrimaryURL(rows[d], p)
    BY <2>6, RowsFacts DEF Objects
  <2>11. /\ policy # NoPolicy /\ list # <<>> => PolicyRoute(route, policy, list)
         /\ policy # NoPolicy /\ list = <<>> => DirectRoute(route, direct)
         /\ policy = NoPolicy /\ ~failover => DirectRoute(route, direct)
         /\ policy = NoPolicy => route.policy = NoPolicy
    BY <2>4, <2>7, <2>8, <2>10, RouteFacts
  <2>12. failover => route.policy # NoPolicy
    BY <2>1, <2>2, <2>9
  <2>13. PICK plan : plan = Plan(route, failover, r)
    OBVIOUS
  <2>14. PICK chosen : chosen = PolicyTarget(policy, d, 1, r)
    OBVIOUS
  <2>15. PICK any : any = IF failover THEN AnyURL(rows[d], p) ELSE NoTarget
    OBVIOUS
  <2>16. SiteTarget(d, r) = IF chosen # NoTarget THEN chosen
                            ELSE IF direct # NoTarget THEN direct ELSE any
    BY <2>2, <2>3, <2>6, <2>10, <2>14, <2>15 DEF SiteTarget
  <2>17. CASE policy # NoPolicy /\ list # <<>>
    <3>1. CandidateList(list) /\ PolicyUsable(policy)
      BY <2>4, <2>7, <2>17, PolicyCandidatesFacts
    <3>2. PICK c : c = SelectRoutingCandidate(policy, list, r)
      OBVIOUS
    <3>3. plan # NoPlan /\ Head(plan.queue) = c.target
      <4>1. route.policy = policy /\ route.cands = list /\ ReadAlike(route)
        BY <2>9, <2>11, <2>17 DEF PolicyRoute
      <4>2. policy.name \in AsciiNames /\ TiesAlike(ToSet(list))
        BY <2>17, <4>1 DEF ReadAlike, TiesAlike
      <4>3. policy.name \in PolicyNames
        BY <2>4, <2>17 DEF PolicyWellFormed
      <4> QED BY <2>5, <2>11, <2>13, <2>17, <3>1, <3>2, <4>2, <4>3, PolicyAgrees
    <3>4. Len(list) >= 1
      <4>1. list \in Seq(ToSet(list))
        BY <3>1 DEF CandidateList
      <4> QED BY <2>17, <4>1, ListFacts
    <3>5. chosen = c.target
      BY <2>7, <2>14, <3>1, <3>2, <3>4 DEF PolicyTarget
    <3>6. c.target # NoTarget
      <4>1. Chosen(list, c)
        BY <2>4, <2>5, <2>17, <3>1, <3>2, ServerChooses DEF PolicyWellFormed
      <4> QED BY <3>1, <4>1, CandidateFacts, ProfileAssumption DEF Chosen
    <3> QED BY <2>1, <2>2, <2>9, <2>13, <2>16, <3>3, <3>5, <3>6
  <2>18. CASE ~(policy # NoPolicy /\ list # <<>>)
    <3>1. ~failover /\ DirectRoute(route, direct)
      BY <2>11, <2>12, <2>18 DEF DirectRoute
    <3>2. chosen = NoTarget
      <4>1. Len(<<>>) = 0
        OBVIOUS
      <4>2. policy # NoPolicy => ~(Len(list) >= 1)
        BY <2>18, <4>1
      <4> QED BY <2>7, <2>14, <4>2 DEF PolicyTarget, PolicyUsable
    <3>3. /\ plan = NoPlan <=> direct = NoTarget
          /\ direct # NoTarget => Head(plan.queue) = direct
      BY <2>13, <3>1, DirectAgrees
    <3>4. any = NoTarget
      BY <2>15, <3>1
    <3> QED BY <2>1, <2>2, <2>9, <2>13, <2>16, <3>2, <3>3, <3>4
  <2> QED BY <2>17, <2>18
<1> QED BY <1>1, ShapeInvariant, PTL
=============================================================================
