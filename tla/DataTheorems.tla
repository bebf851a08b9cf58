---------------------------- MODULE DataTheorems ----------------------------
(***************************************************************************)
(* Facts about the data the modules compute with: sums over finite sets,   *)
(* and lists that are filtered and sorted.                                 *)
(*                                                                         *)
(* What is defined by recursion is reasoned about through least elements:  *)
(* of the sets for which a fact fails, one has no part for which it does.  *)
(***************************************************************************)
EXTENDS Selections, FiniteSetsExt, FiniteSetTheorems, FunctionTheorems, TLAPS

-----------------------------------------------------------------------------
(* Least elements.                                                         *)

\* A set of naturals that is not empty has a least element.
LEMMA LeastNatural ==
  ASSUME NEW T, T \subseteq Nat, T # {}
  PROVE  \E n \in T : \A m \in T : n <= m
<1>1. PICK n \in T : \A m \in T : ~(<<m, n>> \in OpToRel(<, Nat))
  BY NatLessThanWellFounded, WFMin
<1>2. ASSUME NEW m \in T
      PROVE  n <= m
  <2>1. n \in Nat /\ m \in Nat
    OBVIOUS
  <2>2. ~(m < n)
    BY <1>1, <2>1 DEF OpToRel
  <2> QED BY <2>1, <2>2
<1> QED BY <1>2

\* Of finite sets, one has no more elements than any other.
LEMMA SmallestSet ==
  ASSUME NEW C, C # {}, \A T \in C : IsFiniteSet(T)
  PROVE  \E T \in C : \A U \in C : Cardinality(T) <= Cardinality(U)
<1> DEFINE sizes == {Cardinality(T) : T \in C}
<1>1. \A T \in C : Cardinality(T) \in Nat
  BY FS_CardinalityType
<1>2. sizes \subseteq Nat /\ sizes # {}
  BY <1>1
<1>3. PICK n \in sizes : \A m \in sizes : n <= m
  <2> HIDE DEF sizes
  <2> QED BY <1>2, LeastNatural
<1> QED BY <1>3

-----------------------------------------------------------------------------
(* Sums.                                                                   *)

\* One of the set, the same one whenever it is asked for.
One(T) == CHOOSE x \in T : TRUE

\* The function g adds up f over each part of S.
Adds(g, f, S) ==
  g = [T \in SUBSET S |-> IF T = {} THEN 0 ELSE f[One(T)] + g[T \ {One(T)}]]

Total(f, S) == MapThenSumSet(LAMBDA x : f[x], S)

\* There is such a function: if it is there for the parts with n elements at most,
\* it is there for those with one more.
LEMMA AddsExists ==
  ASSUME NEW f, NEW S, IsFiniteSet(S)
  PROVE  \E g : Adds(g, f, S)
<1> DEFINE Upto(n) == {T \in SUBSET S : Cardinality(T) <= n}
           Good(g, n) == \A T \in Upto(n) :
              g[T] = IF T = {} THEN 0 ELSE f[One(T)] + g[T \ {One(T)}]
           Fails == {n \in Nat : ~ \E g : Good(g, n)}
<1>1. \A T \in SUBSET S : IsFiniteSet(T) /\ Cardinality(T) \in Nat
                          /\ Cardinality(T) <= Cardinality(S)
  BY FS_Subset, FS_CardinalityType
<1>2. \A T \in SUBSET S : T # {} => /\ One(T) \in T
                                    /\ T \ {One(T)} \in SUBSET S
                                    /\ Cardinality(T \ {One(T)}) = Cardinality(T) - 1
                                    /\ Cardinality(T) # 0
  <2> TAKE T \in SUBSET S
  <2> HAVE T # {}
  <2>1. One(T) \in T
    BY DEF One
  <2>2. Cardinality(T \ {One(T)}) = Cardinality(T) - 1
    BY <1>1, <2>1, FS_RemoveElement
  <2>3. Cardinality(T) # 0
    BY <1>1, FS_EmptySet
  <2> QED BY <2>1, <2>2, <2>3
<1>3. Fails = {}
  <2> SUFFICES ASSUME Fails # {} PROVE FALSE
    OBVIOUS
  <2>1. PICK n \in Fails : \A m \in Fails : n <= m
    <3>1. Fails \subseteq Nat
      OBVIOUS
    <3> HIDE DEF Fails
    <3> QED BY <3>1, LeastNatural
  <2>2. CASE n = 0
    <3>1. \A T \in Upto(0) : T = {}
      BY <1>1, FS_EmptySet
    <3>2. Good([T \in SUBSET S |-> 0], 0)
      BY <3>1
    <3>3. \E g : Good(g, 0)
      <4> HIDE DEF Good
      <4> QED BY <3>2
    <3>4. ~ \E g : Good(g, n)
      <4>1. n \in Fails
        BY <2>1
      <4> HIDE DEF Good
      <4> QED BY <4>1
    <3> HIDE DEF Good
    <3> QED BY <2>2, <3>3, <3>4
  <2>3. CASE n # 0
    <3>1. n - 1 \in Nat /\ n - 1 \notin Fails
      <4>1. n \in Nat
        OBVIOUS
      <4> HIDE DEF Fails
      <4> QED BY <2>1, <2>3, <4>1
    <3>2. PICK g : Good(g, n - 1)
      BY <3>1
    <3> DEFINE h == [T \in SUBSET S |->
                       IF Cardinality(T) <= n - 1 THEN g[T]
                       ELSE f[One(T)] + g[T \ {One(T)}]]
    <3>3. ASSUME NEW T \in Upto(n)
          PROVE  h[T] = IF T = {} THEN 0 ELSE f[One(T)] + h[T \ {One(T)}]
      <4>1. CASE T = {}
        <5>1. T \in Upto(n - 1)
          BY <3>1, <4>1, FS_EmptySet
        <5> QED BY <3>2, <4>1, <5>1
      <4>2. CASE T # {}
        <5>1. /\ One(T) \in T /\ T \ {One(T)} \in SUBSET S
              /\ Cardinality(T \ {One(T)}) = Cardinality(T) - 1
          BY <1>2, <4>2
        <5>2. Cardinality(T) \in Nat /\ Cardinality(T) <= n
          BY <1>1
        <5>3. h[T \ {One(T)}] = g[T \ {One(T)}]
          BY <5>1, <5>2, <2>1
        <5>4. CASE Cardinality(T) <= n - 1
          <6>1. h[T] = g[T] /\ T \in Upto(n - 1)
            BY <5>4
          <6>2. g[T] = f[One(T)] + g[T \ {One(T)}]
            BY <6>1, <3>2, <4>2
          <6> QED BY <6>1, <6>2, <5>3, <4>2
        <5>5. CASE ~(Cardinality(T) <= n - 1)
          BY <5>3, <5>5, <4>2
        <5> QED BY <5>4, <5>5
      <4> QED BY <4>1, <4>2
    <3> HIDE DEF h
    <3>4. Good(h, n)
      BY <3>3
    <3> QED BY <2>1, <3>4
  <2> QED BY <2>2, <2>3
<1>4. PICK g : Good(g, Cardinality(S))
  <2>1. Cardinality(S) \in Nat
    BY FS_CardinalityType
  <2> QED BY <1>3, <2>1
<1>5. \A T \in SUBSET S : g[T] = IF T = {} THEN 0 ELSE f[One(T)] + g[T \ {One(T)}]
  BY <1>4, <1>1
<1> DEFINE k == [T \in SUBSET S |-> g[T]]
<1>6. \A T \in SUBSET S : k[T] = IF T = {} THEN 0 ELSE f[One(T)] + k[T \ {One(T)}]
  BY <1>5
<1>7. Adds(k, f, S)
  BY <1>6 DEF Adds
<1> QED BY <1>7

\* Such a function yields naturals, and any element may be counted first.
LEMMA AddsParts ==
  ASSUME NEW g, NEW f, NEW S, IsFiniteSet(S), Adds(g, f, S), \A x \in S : f[x] \in Nat
  PROVE  /\ g[{}] = 0
         /\ \A T \in SUBSET S : g[T] \in Nat
         /\ \A T \in SUBSET S : \A x \in T : g[T] = f[x] + g[T \ {x}]
<1>1. \A T \in SUBSET S : g[T] = IF T = {} THEN 0 ELSE f[One(T)] + g[T \ {One(T)}]
  BY DEF Adds
<1>9. g[{}] = 0
  BY <1>1
<1>2. \A T \in SUBSET S : T # {} => One(T) \in T
  BY DEF One
<1>3. \A T \in SUBSET S : IsFiniteSet(T) /\ Cardinality(T) \in Nat
  BY FS_Subset, FS_CardinalityType
<1>4. \A T \in SUBSET S : \A x \in T : Cardinality(T \ {x}) = Cardinality(T) - 1
  BY <1>3, FS_RemoveElement
<1> DEFINE Wrong == {T \in SUBSET S : g[T] \notin Nat}
<1>5. Wrong = {}
  <2> SUFFICES ASSUME Wrong # {} PROVE FALSE
    OBVIOUS
  <2>1. PICK T \in Wrong : \A U \in Wrong : Cardinality(T) <= Cardinality(U)
    <3>1. \A U \in Wrong : IsFiniteSet(U)
      BY <1>3
    <3> HIDE DEF Wrong
    <3> QED BY <3>1, SmallestSet
  <2>2. T \in SUBSET S /\ g[T] \notin Nat /\ T # {}
    <3>1. T \in SUBSET S /\ g[T] \notin Nat
      OBVIOUS
    <3> QED BY <1>9, <3>1
  <2>3. One(T) \in T /\ One(T) \in S
    BY <1>2, <2>2
  <2>4. T \ {One(T)} \notin Wrong
    BY <2>1, <2>3, <1>3, <1>4
  <2>5. g[T \ {One(T)}] \in Nat /\ f[One(T)] \in Nat
    BY <2>2, <2>3, <2>4
  <2>6. g[T] = f[One(T)] + g[T \ {One(T)}]
    BY <1>1, <2>2
  <2> QED BY <2>2, <2>5, <2>6
<1>6. \A T \in SUBSET S : g[T] \in Nat
  BY <1>5
<1> DEFINE Bad == {T \in SUBSET S : \E x \in T : g[T] # f[x] + g[T \ {x}]}
<1>7. Bad = {}
  <2> SUFFICES ASSUME Bad # {} PROVE FALSE
    OBVIOUS
  <2>1. PICK T \in Bad : \A U \in Bad : Cardinality(T) <= Cardinality(U)
    <3>1. \A U \in Bad : IsFiniteSet(U)
      BY <1>3
    <3> HIDE DEF Bad
    <3> QED BY <3>1, SmallestSet
  <2>2. /\ T \in SUBSET S
        /\ \E x \in T : g[T] # f[x] + g[T \ {x}]
    OBVIOUS
  <2>11. PICK x \in T : g[T] # f[x] + g[T \ {x}]
    BY <2>2
  <2> DEFINE o == One(T)
  <2>3. o \in T /\ o \in S /\ x \in S
    BY <1>2, <2>2
  <2>4. g[T] = f[o] + g[T \ {o}]
    BY <1>1, <2>2
  <2> HIDE DEF o
  <2>5. x # o
    BY <2>11, <2>4
  <2>6. T \ {o} \notin Bad /\ T \ {x} \notin Bad
    <3>1. /\ Cardinality(T \ {o}) = Cardinality(T) - 1
          /\ Cardinality(T \ {x}) = Cardinality(T) - 1
          /\ Cardinality(T) \in Nat
      BY <2>2, <2>3, <1>3, <1>4
    <3> HIDE DEF Bad
    <3> QED BY <2>1, <3>1
  <2>7. g[T \ {o}] = f[x] + g[(T \ {o}) \ {x}]
    BY <2>3, <2>5, <2>6
  <2>8. g[T \ {x}] = f[o] + g[(T \ {x}) \ {o}]
    BY <2>3, <2>5, <2>6
  <2>9. (T \ {o}) \ {x} = (T \ {x}) \ {o}
    OBVIOUS
  <2>10. g[(T \ {x}) \ {o}] \in Nat /\ f[o] \in Nat /\ f[x] \in Nat
    <3>1. (T \ {x}) \ {o} \in SUBSET S
      BY <2>2
    <3> QED BY <1>6, <2>3, <3>1
  <2> DEFINE rest == g[(T \ {x}) \ {o}]
  <2>12. g[T \ {o}] = f[x] + rest /\ g[T \ {x}] = f[o] + rest /\ rest \in Nat
    BY <2>7, <2>8, <2>9, <2>10
  <2> HIDE DEF rest
  <2> QED BY <2>10, <2>11, <2>12, <2>4
<1>8. \A T \in SUBSET S : \A x \in T : g[T] = f[x] + g[T \ {x}]
  BY <1>7
<1> QED BY <1>6, <1>8, <1>9

\* Two functions that add up the same values yield the same sums.
LEMMA AddsAgree ==
  ASSUME NEW g, NEW f, NEW S, IsFiniteSet(S), Adds(g, f, S),
         NEW h, NEW e, NEW R, Adds(h, e, R), S \subseteq R,
         \A x \in S : f[x] = e[x]
  PROVE  g[S] = h[S]
<1>1. \A T \in SUBSET S : g[T] = IF T = {} THEN 0 ELSE f[One(T)] + g[T \ {One(T)}]
  BY DEF Adds
<1>2. \A T \in SUBSET S : h[T] = IF T = {} THEN 0 ELSE e[One(T)] + h[T \ {One(T)}]
  BY DEF Adds
<1>3. \A T \in SUBSET S : T # {} => One(T) \in T
  BY DEF One
<1>4. \A T \in SUBSET S : IsFiniteSet(T) /\ Cardinality(T) \in Nat
  BY FS_Subset, FS_CardinalityType
<1> DEFINE Bad == {T \in SUBSET S : g[T] # h[T]}
<1>5. Bad = {}
  <2> SUFFICES ASSUME Bad # {} PROVE FALSE
    OBVIOUS
  <2>1. PICK T \in Bad : \A U \in Bad : Cardinality(T) <= Cardinality(U)
    <3>1. \A U \in Bad : IsFiniteSet(U)
      BY <1>4
    <3> HIDE DEF Bad
    <3> QED BY <3>1, SmallestSet
  <2>2. T # {}
    BY <1>1, <1>2
  <2>3. One(T) \in T /\ One(T) \in S
    BY <1>3, <2>2
  <2>4. Cardinality(T \ {One(T)}) = Cardinality(T) - 1
    BY <2>3, <1>4, FS_RemoveElement
  <2>5. T \ {One(T)} \notin Bad
    BY <2>1, <2>4, <1>4
  <2>6. g[T \ {One(T)}] = h[T \ {One(T)}]
    BY <2>5
  <2> QED BY <1>1, <1>2, <2>1, <2>2, <2>3, <2>6
<1> QED BY <1>5

\* What the library's sum is: the last value of a function that adds up.
LEMMA TotalAdds ==
  ASSUME NEW f, NEW S, IsFiniteSet(S)
  PROVE  \E g : Adds(g, f, S) /\ Total(f, S) = g[S]
<1>1. PICK g : Adds(g, f, S)
  BY AddsExists
<1> DEFINE sum == CHOOSE iter : iter = [s \in SUBSET S |->
                    IF s = {} THEN 0
                    ELSE LET x == CHOOSE x \in s : TRUE IN f[x] + iter[s \ {x}]]
<1>2. Total(f, S) = sum[S]
  BY DEF Total, MapThenSumSet, MapThenFoldSet
<1>3. Adds(sum, f, S)
  BY <1>1 DEF Adds, One
<1> HIDE DEF sum
<1> QED BY <1>2, <1>3

\* Nothing adds up to nothing; naturals add up to a natural; any element may be
\* counted apart from the rest.
LEMMA TotalParts ==
  ASSUME NEW f, NEW S, IsFiniteSet(S), \A x \in S : f[x] \in Nat
  PROVE  /\ S = {} => Total(f, S) = 0
         /\ Total(f, S) \in Nat
         /\ \A x \in S : Total(f, S) = f[x] + Total(f, S \ {x})
<1>1. PICK g : Adds(g, f, S) /\ Total(f, S) = g[S]
  BY TotalAdds
<1>2. /\ g[{}] = 0
      /\ \A T \in SUBSET S : g[T] \in Nat
      /\ \A T \in SUBSET S : \A x \in T : g[T] = f[x] + g[T \ {x}]
  <2>1. g[{}] = 0
    BY <1>1, AddsParts
  <2>2. \A T \in SUBSET S : g[T] \in Nat
    BY <1>1, AddsParts
  <2>3. ASSUME NEW T \in SUBSET S, NEW x \in T
        PROVE  g[T] = f[x] + g[T \ {x}]
    BY <1>1, AddsParts
  <2> QED BY <2>1, <2>2, <2>3
<1>3. ASSUME NEW x \in S
      PROVE  Total(f, S) = f[x] + Total(f, S \ {x})
  <2>1. IsFiniteSet(S \ {x})
    BY FS_Subset
  <2>2. PICK h : Adds(h, f, S \ {x}) /\ Total(f, S \ {x}) = h[S \ {x}]
    BY <2>1, TotalAdds
  <2>3. h[S \ {x}] = g[S \ {x}]
    BY <1>1, <2>1, <2>2, AddsAgree
  <2> QED BY <1>1, <1>2, <2>2, <2>3
<1> QED BY <1>1, <1>2, <1>3

\* The same values add up to the same.
LEMMA TotalSame ==
  ASSUME NEW f, NEW e, NEW S, IsFiniteSet(S), \A x \in S : f[x] = e[x]
  PROVE  Total(f, S) = Total(e, S)
<1>1. PICK g : Adds(g, f, S) /\ Total(f, S) = g[S]
  BY TotalAdds
<1>2. PICK h : Adds(h, e, S) /\ Total(e, S) = h[S]
  BY TotalAdds
<1> QED BY <1>1, <1>2, AddsAgree

\* What f adds at x to a sum over S.
At(f, S, x) == IF x \in S THEN f[x] ELSE 0

DifferAt(f, e, S, T, x) ==
  /\ S \ {x} = T \ {x}
  /\ \A y \in S : f[y] \in Nat
  /\ \A y \in T : e[y] \in Nat
  /\ \A y \in S \ {x} : f[y] = e[y]

Shifts(f, e, S, T, x) ==
  \E rest \in Nat : Total(f, S) = At(f, S, x) + rest /\ Total(e, T) = At(e, T, x) + rest

\* Sums over sets that differ in x only, of values that differ at x only, differ by
\* the values at x.
LEMMA TotalChange ==
  ASSUME NEW f, NEW e, NEW S, NEW T, NEW x, IsFiniteSet(S),
         DifferAt(f, e, S, T, x)
  PROVE  /\ IsFiniteSet(T)
         /\ Shifts(f, e, S, T, x)
<1> DEFINE R == S \ {x}
<1>0. /\ S \ {x} = T \ {x}
      /\ \A y \in S : f[y] \in Nat
      /\ \A y \in T : e[y] \in Nat
      /\ \A y \in S \ {x} : f[y] = e[y]
  BY DEF DifferAt
<1>1. IsFiniteSet(R)
  BY FS_Subset
<1>2. IsFiniteSet(T)
  <2>1. IsFiniteSet(R \cup {x})
    <3> HIDE DEF R
    <3> QED BY <1>1, FS_AddElement
  <2>2. T \in SUBSET (R \cup {x})
    BY <1>0
  <2> HIDE DEF R
  <2> QED BY <2>1, <2>2, FS_Subset
<1>3. Total(f, R) \in Nat /\ Total(f, R) = Total(e, R)
  <2>1. \A y \in R : f[y] \in Nat /\ f[y] = e[y]
    BY <1>0
  <2> HIDE DEF R
  <2> QED BY <1>1, <2>1, TotalParts, TotalSame
<1>4. Total(f, S) = At(f, S, x) + Total(f, R)
  <2>1. CASE x \in S
    <3>1. Total(f, S) = f[x] + Total(f, S \ {x})
      BY <1>0, <2>1, TotalParts
    <3> QED BY <2>1, <3>1 DEF At
  <2>2. CASE x \notin S
    <3>1. R = S
      BY <2>2
    <3> HIDE DEF R
    <3> QED BY <1>3, <2>2, <3>1 DEF At
  <2> QED BY <2>1, <2>2
<1>5. Total(e, T) = At(e, T, x) + Total(e, R)
  <2>0. R = T \ {x}
    BY <1>0
  <2>1. CASE x \in T
    <3>1. Total(e, T) = e[x] + Total(e, T \ {x})
      BY <1>0, <1>2, <2>1, TotalParts
    <3> QED BY <2>0, <2>1, <3>1 DEF At
  <2>2. CASE x \notin T
    <3>1. R = T
      BY <2>0, <2>2
    <3> HIDE DEF R
    <3> QED BY <1>3, <2>2, <3>1 DEF At
  <2> QED BY <2>1, <2>2
<1> HIDE DEF R
<1> QED BY <1>2, <1>3, <1>4, <1>5 DEF Shifts

-----------------------------------------------------------------------------
(* Lists.                                                                  *)

StrictOrder(S, R) ==
  /\ \A x \in S : <<x, x>> \notin R
  /\ \A x, y \in S : x # y => <<x, y>> \in R \/ <<y, x>> \in R
  /\ \A x, y, z \in S : <<x, y>> \in R /\ <<y, z>> \in R => <<x, z>> \in R

\* In a strict order, every member has its place and every place its member, and who
\* comes before whom has the smaller place.
LEMMA InOrderPlaces ==
  ASSUME NEW S, IsFiniteSet(S), NEW R, StrictOrder(S, R),
         NEW q, q = InOrder(S, R)
  PROVE  /\ Cardinality(S) \in Nat
         /\ q \in [1 .. Cardinality(S) -> S]
         /\ \A x \in S : \E k \in 1 .. Cardinality(S) : q[k] = x
         /\ \A i, j \in 1 .. Cardinality(S) : i < j <=> <<q[i], q[j]>> \in R
<1> DEFINE Under(x) == {y \in S : <<y, x>> \in R}
           Below(x) == Cardinality(Under(x))
           n == Cardinality(S)
<1>1. n \in Nat
  BY FS_CardinalityType
<1>2. ASSUME NEW x \in S
      PROVE  IsFiniteSet(Under(x)) /\ Below(x) \in 0 .. n - 1
  <2>1. Under(x) \in SUBSET (S \ {x})
    BY DEF StrictOrder
  <2>2. IsFiniteSet(S \ {x}) /\ Cardinality(S \ {x}) = n - 1
    BY FS_RemoveElement
  <2>3. IsFiniteSet(Under(x)) /\ Cardinality(Under(x)) <= n - 1
    <3> HIDE DEF Under, n
    <3> QED BY <2>1, <2>2, FS_Subset
  <2>4. Cardinality(Under(x)) \in Nat
    <3> HIDE DEF Under
    <3> QED BY <2>3, FS_CardinalityType
  <2> HIDE DEF Under, n
  <2> QED BY <1>1, <2>3, <2>4
<1>10. \A x \in S : Below(x) \in Nat /\ Below(x) + 1 \in 1 .. n
  <2> SUFFICES ASSUME NEW x \in S PROVE Below(x) \in Nat /\ Below(x) + 1 \in 1 .. n
    OBVIOUS
  <2>1. Below(x) \in 0 .. n - 1
    BY <1>2
  <2> HIDE DEF Below, n
  <2> QED BY <1>1, <2>1
<1>3. ASSUME NEW x \in S, NEW y \in S, <<x, y>> \in R
      PROVE  Below(x) < Below(y)
  <2>1. x \notin Under(x) /\ Under(x) \cup {x} \in SUBSET Under(y)
    BY <1>3 DEF StrictOrder
  <2>2. IsFiniteSet(Under(x)) /\ IsFiniteSet(Under(y)) /\ Below(x) \in Nat /\ Below(y) \in Nat
    BY <1>2
  <2> HIDE DEF Under
  <2>3. Cardinality(Under(x) \cup {x}) = Cardinality(Under(x)) + 1
    BY <2>1, <2>2, FS_AddElement
  <2>4. Cardinality(Under(x) \cup {x}) <= Cardinality(Under(y))
    BY <2>1, <2>2, FS_Subset
  <2> QED BY <2>2, <2>3, <2>4
<1>4. \A x, y \in S : x # y => Below(x) # Below(y)
  <2> SUFFICES ASSUME NEW x \in S, NEW y \in S, x # y PROVE Below(x) # Below(y)
    OBVIOUS
  <2>1. Below(x) \in Nat /\ Below(y) \in Nat
    <3> HIDE DEF Below, n
    <3> QED BY <1>10
  <2>2. Below(x) < Below(y) \/ Below(y) < Below(x)
    <3>1. <<x, y>> \in R \/ <<y, x>> \in R
      BY DEF StrictOrder
    <3> HIDE DEF Below
    <3> QED BY <1>3, <3>1
  <2> HIDE DEF Below
  <2> QED BY <2>1, <2>2
<1>5. \A k \in 1 .. n : \E x \in S : Below(x) = k - 1
  <2> DEFINE f == [x \in S |-> Below(x)]
  <2>1. f \in Injection(S, 0 .. n - 1)
    <3>1. f \in [S -> 0 .. n - 1]
      BY <1>2
    <3>2. \A x, y \in S : f[x] = f[y] => x = y
      BY <1>4
    <3> HIDE DEF f
    <3> QED BY <3>1, <3>2, Fun_IsInj
  <2>2. IsFiniteSet(0 .. n - 1) /\ Cardinality(0 .. n - 1) = n
    <3> HIDE DEF n
    <3>1. n - 1 \in Int /\ 0 \in Int
      BY <1>1
    <3>2. IsFiniteSet(0 .. n - 1)
          /\ Cardinality(0 .. n - 1) = IF 0 > n - 1 THEN 0 ELSE (n - 1) - 0 + 1
      BY <3>1, FS_Interval
    <3> QED BY <1>1, <3>2
  <2>3. f \in Surjection(S, 0 .. n - 1)
    <3> HIDE DEF f
    <3> QED BY <2>1, <2>2, FS_Injection
  <2>4. \A k \in 0 .. n - 1 : \E x \in S : f[x] = k
    BY <2>3 DEF Surjection
  <2> SUFFICES ASSUME NEW k \in 1 .. n PROVE \E x \in S : Below(x) = k - 1
    OBVIOUS
  <2>5. k - 1 \in 0 .. n - 1
    BY <1>1
  <2> QED BY <2>4, <2>5
<1>6. \A k \in 1 .. n : q[k] \in S /\ Below(q[k]) = k - 1
  <2> SUFFICES ASSUME NEW k \in 1 .. n PROVE q[k] \in S /\ Below(q[k]) = k - 1
    OBVIOUS
  <2>1. q[k] = CHOOSE x \in S : Below(x) = k - 1
    BY DEF InOrder
  <2> HIDE DEF Below
  <2> QED BY <1>5, <2>1
<1>7. q \in [1 .. n -> S]
  BY <1>6 DEF InOrder
<1> HIDE DEF Below
<1>8. ASSUME NEW x \in S PROVE \E k \in 1 .. n : q[k] = x
  <2>1. Below(x) + 1 \in 1 .. n /\ (Below(x) + 1) - 1 = Below(x)
    <3> HIDE DEF n
    <3> QED BY <1>10
  <2>2. q[Below(x) + 1] \in S /\ Below(q[Below(x) + 1]) = Below(x)
    BY <1>6, <2>1
  <2> QED BY <1>4, <2>1, <2>2
<1>9. ASSUME NEW i \in 1 .. n, NEW j \in 1 .. n
      PROVE  i < j <=> <<q[i], q[j]>> \in R
  <2>1. /\ q[i] \in S /\ Below(q[i]) = i - 1
        /\ q[j] \in S /\ Below(q[j]) = j - 1
    BY <1>6
  <2>2. <<q[i], q[j]>> \in R => i < j
    BY <1>3, <2>1
  <2>3. <<q[j], q[i]>> \in R => j < i
    BY <1>3, <2>1
  <2>4. q[i] = q[j] \/ <<q[i], q[j]>> \in R \/ <<q[j], q[i]>> \in R
    BY <2>1 DEF StrictOrder
  <2>5. q[i] = q[j] => i = j
    BY <2>1
  <2> QED BY <2>2, <2>3, <2>4, <2>5
<1> QED BY <1>1, <1>7, <1>8, <1>9

\* The list q has the elements of s that are in K: those at the places p.
Picks(q, p, s, K) ==
  /\ Len(q) \in Nat /\ DOMAIN q = 1 .. Len(q) /\ p \in [1 .. Len(q) -> DOMAIN s]
  /\ \A k \in 1 .. Len(q) : p[k] \in DOMAIN s /\ q[k] = s[p[k]] /\ q[k] \in K
  /\ \A i \in DOMAIN s : s[i] \in K => \E k \in 1 .. Len(q) : p[k] = i
  /\ \A i, j \in 1 .. Len(q) : i < j <=> p[i] < p[j]

\* The elements that are kept come in the order they had, and all of them do.
LEMMA OnlyKeeps ==
  ASSUME NEW s, NEW m \in Nat, DOMAIN s = 1 .. m, NEW K, NEW q, q = Only(s, K)
  PROVE  \E p : Picks(q, p, s, K)
<1> DEFINE P == {i \in DOMAIN s : s[i] \in K}
           R == {r \in P \X P : r[1] < r[2]}
           p == InOrder(P, R)
           n == Cardinality(P)
<1>1. IsFiniteSet(P) /\ P \subseteq 1 .. m
  <2>1. IsFiniteSet(1 .. m)
    BY FS_Interval
  <2>2. P \in SUBSET (1 .. m)
    OBVIOUS
  <2> HIDE DEF P
  <2> QED BY <2>1, <2>2, FS_Subset
<1>2. StrictOrder(P, R)
  <2> HIDE DEF P
  <2> QED BY <1>1 DEF StrictOrder
<1>3. \A i, j \in P : <<i, j>> \in R <=> i < j
  OBVIOUS
<1>4. q = [k \in DOMAIN p |-> s[p[k]]]
  BY DEF Only, Sorted
<1>5. P = {i \in 1 .. m : s[i] \in K}
  OBVIOUS
<1> HIDE DEF P, R
<1>6. /\ n \in Nat /\ p \in [1 .. n -> P]
      /\ \A x \in P : \E k \in 1 .. n : p[k] = x
      /\ \A i, j \in 1 .. n : i < j <=> <<p[i], p[j]>> \in R
  BY <1>1, <1>2, InOrderPlaces
<1> HIDE DEF p, n
<1>7. DOMAIN p = 1 .. n /\ DOMAIN q = 1 .. n /\ Len(p) = n /\ Len(q) = n
  BY <1>4, <1>6
<1>8. \A k \in 1 .. n : p[k] \in P /\ p[k] \in 1 .. m /\ q[k] = s[p[k]] /\ q[k] \in K
  BY <1>4, <1>5, <1>6, <1>7
<1>9. \A i \in 1 .. m : s[i] \in K => \E k \in 1 .. n : p[k] = i
  BY <1>5, <1>6
<1>10. \A i, j \in 1 .. n : i < j <=> p[i] < p[j]
  BY <1>3, <1>6, <1>8
<1>11. p \in [1 .. n -> 1 .. m]
  BY <1>6, <1>8
<1>12. Picks(q, p, s, K)
  BY <1>6, <1>7, <1>8, <1>9, <1>10, <1>11 DEF Picks
<1> QED BY <1>12

\* A filtered list is one of elements that were kept; it is empty only if there are
\* none, and no longer than the list.
LEMMA SelectedList ==
  ASSUME NEW T, NEW s \in Seq(T), NEW K, NEW q, q = Only(s, K)
  PROVE  /\ q \in Seq(T) /\ q \in Seq(T \cap K)
         /\ ToSet(q) = ToSet(s) \cap K
         /\ q = <<>> <=> ToSet(s) \cap K = {}
<1>1. Len(s) \in Nat /\ DOMAIN s = 1 .. Len(s) /\ \A i \in DOMAIN s : s[i] \in T
  OBVIOUS
<1>2. PICK p : Picks(q, p, s, K)
  BY <1>1, OnlyKeeps
<1>3. /\ Len(q) \in Nat /\ DOMAIN q = 1 .. Len(q)
      /\ \A k \in 1 .. Len(q) : p[k] \in DOMAIN s /\ q[k] = s[p[k]] /\ q[k] \in K
      /\ \A i \in DOMAIN s : s[i] \in K => \E k \in 1 .. Len(q) : p[k] = i
  BY <1>2 DEF Picks
<1>4. \A k \in 1 .. Len(q) : q[k] \in T \cap K
  BY <1>1, <1>3
<1>5. q \in [1 .. Len(q) -> T \cap K]
  <2>1. q = [k \in DOMAIN q |-> q[k]]
    BY DEF Only
  <2> QED BY <1>3, <1>4, <2>1
<1>6. q \in Seq(T \cap K)
  BY <1>3, <1>5
<1>7. q \in Seq(T)
  BY <1>6
<1>8. ToSet(q) = ToSet(s) \cap K
  <2>1. ToSet(q) = {q[k] : k \in 1 .. Len(q)} /\ ToSet(s) = {s[i] : i \in DOMAIN s}
    BY <1>3 DEF ToSet
  <2>2. ASSUME NEW x \in ToSet(q) PROVE x \in ToSet(s) \cap K
    <3>1. PICK k \in 1 .. Len(q) : x = q[k]
      BY <2>1
    <3>2. p[k] \in DOMAIN s /\ x = s[p[k]] /\ x \in K
      BY <1>3, <3>1
    <3> QED BY <2>1, <3>2
  <2>3. ASSUME NEW x \in ToSet(s) \cap K PROVE x \in ToSet(q)
    <3>1. PICK i \in DOMAIN s : x = s[i]
      BY <2>1
    <3>2. PICK k \in 1 .. Len(q) : p[k] = i
      BY <1>3, <3>1
    <3>3. q[k] = x
      BY <1>3, <3>1, <3>2
    <3> QED BY <2>1, <3>3
  <2> QED BY <2>2, <2>3
<1>9. q = <<>> <=> ToSet(q) = {}
  <2>1. ToSet(q) = {q[k] : k \in 1 .. Len(q)}
    BY <1>3 DEF ToSet
  <2>2. q = <<>> <=> Len(q) = 0
    BY <1>6
  <2>3. 1 .. Len(q) = {} <=> Len(q) = 0
    BY <1>3
  <2>4. 1 .. Len(q) = {} => ToSet(q) = {}
    BY <2>1
  <2>5. \A k \in 1 .. Len(q) : q[k] \in ToSet(q)
    BY <2>1
  <2> QED BY <2>2, <2>3, <2>4, <2>5
<1> QED BY <1>6, <1>7, <1>8, <1>9
=============================================================================
