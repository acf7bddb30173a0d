-------------------------- MODULE TopoOrderProofs --------------------------
(***************************************************************************)
(* What topo_order_() returns is an order, and what it refuses has none,   *)
(* for every configuration of finitely many processes.                     *)
(*                                                                         *)
(* The inductive invariant TopoInv says what indeg counts: the mentions of *)
(* names that have not been taken from the work list, or whose decrement   *)
(* is still to come.                                                       *)
(***************************************************************************)
EXTENDS TopoOrder, FiniteSetTheorems, WellFoundedInduction, TLAPS

Visited == {q[i] : i \in 1..visited}

\* The places of n's list that indeg[n] still counts.
Left(n) == {k \in 1..Len(deps[n]) : deps[n][k] \notin Visited \/ k \in relaxing[n]}

DepsKnown == \A n \in Names : Elements(deps[n]) \subseteq Names

ListedOnce == \A j, k \in 1..Len(q) : q[j] = q[k] => j = k

\* Everything in the work list comes after all that it depends on.
AfterDeps ==
  \A i \in 1..Len(q) : \A d \in Elements(deps[q[i]]) :
    \E j \in 1..Len(q) : j < i /\ q[j] = d

Counting ==
  /\ DepsKnown
  /\ \A n \in Names : indeg[n] = Len(deps[n])
  /\ q = <<>> /\ visited = 0 /\ Relaxed

Sorting ==
  /\ DepsKnown
  /\ ListedOnce
  /\ AfterDeps
  /\ \A n \in Names : indeg[n] = Cardinality(Left(n))
  /\ \A n \in Names : indeg[n] = 0 <=> n \in Elements(q)
  /\ \A n \in Names : relaxing[n] \subseteq 1..Len(deps[n])
  /\ \A n \in Names : \A k \in relaxing[n] : visited > 0 /\ deps[n][k] = q[visited]

TopoInv ==
  /\ TypeOK
  /\ result = "called" => q = <<>> /\ visited = 0 /\ Relaxed
  /\ result = "unknown dependency" => ~DepsKnown
  /\ result = "counted" => Counting
  /\ result \in {"sorting", "returned", "dependency cycle"} => Sorting
  /\ result \in {"returned", "dependency cycle"} => visited = Len(q) /\ Relaxed
  /\ result = "returned" => Len(q) = Cardinality(Names)
  /\ result = "dependency cycle" => Len(q) # Cardinality(Names)

--------------------------------------------------------------------------
\* Lemmas about the counts.

\* The places a list has are finitely many, so what is left of them is a number,
\* and it is 0 only if nothing is left.
LEMMA LeftFinite ==
  ASSUME TypeOK, NEW n \in Names
  PROVE  /\ Len(deps[n]) \in Nat
         /\ IsFiniteSet(1..Len(deps[n])) /\ Cardinality(1..Len(deps[n])) = Len(deps[n])
         /\ IsFiniteSet(Left(n)) /\ Cardinality(Left(n)) \in Nat
         /\ Cardinality(Left(n)) = 0 <=> Left(n) = {}
  <1>1. Len(deps[n]) \in Nat
    BY DepListsAssumption DEF TypeOK
  <1>2. IsFiniteSet(1..Len(deps[n])) /\ Cardinality(1..Len(deps[n])) = Len(deps[n])
    BY <1>1, FS_Interval
  <1>3. Left(n) \in SUBSET (1..Len(deps[n]))
    BY DEF Left
  <1>4. IsFiniteSet(Left(n))
    BY <1>2, <1>3, FS_Subset
  <1> QED
    BY <1>1, <1>2, <1>4, FS_CardinalityType, FS_EmptySet

\* The first n places are n.
LEMMA FirstPlaces ==
  ASSUME NEW n \in Nat
  PROVE  Cardinality(1..n) = n
  <1>1. 1 \in Int /\ n \in Int
    OBVIOUS
  <1>2. Cardinality(1..n) = IF 1 > n THEN 0 ELSE n - 1 + 1
    BY <1>1, FS_Interval
  <1> QED
    BY <1>2

\* A set of places has a least element (the induction over an order).
LEMMA LeastElement ==
  ASSUME NEW T \in SUBSET Nat, T # {}
  PROVE  \E m \in T : \A k \in T : m <= k
  <1> DEFINE Below == {1..k : k \in T}
  <1>1. Below \subseteq FiniteSubsetsOf(Nat) /\ Below # {}
    <2>1. \A k \in T : k \in Int /\ 1..k \in SUBSET Nat
      OBVIOUS
    <2>2. \A k \in T : IsFiniteSet(1..k)
      BY <2>1, FS_Interval
    <2> QED
      BY <2>1, <2>2 DEF FiniteSubsetsOf
  <1>2. PICK B \in Below : \A C \in Below : ~(<<C, B>> \in StrictSubsetOrdering(Nat))
    BY <1>1, FS_StrictSubsetOrderingWellFounded, WFMin
  <1>3. PICK m \in T : B = 1..m
    BY <1>2
  <1>4. ASSUME NEW k \in T, k < m PROVE FALSE
    <2>1. 1..k \subseteq 1..m /\ m \in 1..m /\ m \notin 1..k
      BY <1>4
    <2>2. <<1..k, 1..m>> \in StrictSubsetOrdering(Nat)
      BY <2>1 DEF StrictSubsetOrdering
    <2> QED
      BY <1>2, <1>3, <2>2
  <1> QED
    BY <1>4

\* The parts of Sorting that are about deps and q only.
LEMMA OrderKept ==
  ASSUME deps' = deps, q' = q
  PROVE  /\ DepsKnown' <=> DepsKnown
         /\ ListedOnce' <=> ListedOnce
         /\ AfterDeps' <=> AfterDeps
  <1>1. DepsKnown' <=> DepsKnown
    BY DEF DepsKnown, Elements
  <1>2. ListedOnce' <=> ListedOnce
    BY DEF ListedOnce
  <1>3. AfterDeps' <=> AfterDeps
    BY DEF AfterDeps, Elements
  <1> QED
    BY <1>1, <1>2, <1>3

LEMMA SortingKept ==
  ASSUME Sorting, UNCHANGED <<deps, indeg, q, visited, relaxing>>
  PROVE  Sorting'
  <1>1. \A n \in Names : Left(n)' = Left(n)
    BY DEF Left, Visited
  <1>2. Elements(q)' = Elements(q)
    BY DEF Elements
  <1> QED
    BY <1>1, <1>2, OrderKept DEF Sorting

--------------------------------------------------------------------------
\* The steps.

LEMMA CountCounts ==
  ASSUME TopoInv, Count
  PROVE  TopoInv'
  <1>1. \A n \in Names : Len(deps[n]) \in Nat
    BY LeftFinite DEF TopoInv
  <1>2. TypeOK'
    BY <1>1 DEF TopoInv, TypeOK, Count, Mentions, Results
  <1>3. Counting'
    BY DEF TopoInv, Counting, Count, Mentions, DepsKnown, Elements, Relaxed
  <1> QED
    BY <1>2, <1>3 DEF TopoInv, Count

LEMMA SeedSorts ==
  ASSUME TopoInv, Seed
  PROVE  TopoInv'
  <1> DEFINE Z == {n \in Names : indeg[n] = 0}
  <1>1. /\ q' \in Seq(Names) /\ visited' = 0
        /\ \A j, k \in 1..Len(q') : q'[j] = q'[k] => j = k
        /\ \A k \in 1..Len(q') : q'[k] \in Z
        /\ \A n \in Z : \E k \in 1..Len(q') : q'[k] = n
    <2>1. IsFiniteSet(Z)
      BY NamesAssumption, FS_Subset
    <2>2. Cardinality(Z) \in Nat
      BY <2>1, FS_CardinalityType
    <2>3. q' \in [1..Cardinality(Z) -> Z] /\ DOMAIN q' = 1..Cardinality(Z)
      BY DEF Seed, Listings
    <2>4. q' \in Seq(Names) /\ Len(q') = Cardinality(Z)
      <3>1. q' \in [1..Cardinality(Z) -> Names]
        BY <2>3
      <3> HIDE DEF Z
      <3> QED
        BY <2>2, <3>1
    <2> QED
      BY <2>3, <2>4 DEF Seed, Listings, TopoInv, Counting
  <1>2. TypeOK'
    BY <1>1 DEF TopoInv, TypeOK, Seed, Results
  <1>3. \A n \in Names : Left(n)' = 1..Len(deps[n])
    BY <1>1 DEF Left, Visited, Seed
  <1>4. \A n \in Names : indeg'[n] = Cardinality(Left(n)')
    BY <1>3, LeftFinite DEF TopoInv, Counting, Seed
  <1>5. \A n \in Names : indeg'[n] = 0 <=> n \in Elements(q')
    BY <1>1 DEF Elements, Seed
  <1>6. AfterDeps'
    <2> SUFFICES ASSUME NEW i \in 1..Len(q'), NEW d \in Elements(deps[q'[i]])
                 PROVE  FALSE
      BY DEF AfterDeps, Seed, Elements
    <2>1. q'[i] \in Names /\ indeg[q'[i]] = 0
      BY <1>1
    <2>2. Len(deps[q'[i]]) = 0
      BY <2>1 DEF TopoInv, Counting, Seed
    <2> QED
      BY <2>2 DEF Elements
  <1>7. Sorting'
    <2>1. DepsKnown'
      BY DEF TopoInv, Counting, DepsKnown, Seed, Elements
    <2>2. ListedOnce'
      BY <1>1 DEF ListedOnce
    <2>3. \A n \in Names : relaxing'[n] = {}
      BY DEF TopoInv, Counting, Relaxed, Seed
    <2> QED
      BY <1>4, <1>5, <1>6, <2>1, <2>2, <2>3 DEF Sorting
  <1> QED
    BY <1>2, <1>7 DEF TopoInv, Seed

\* Taking u from the list moves the mentions of u from "not taken" to "to be
\* relaxed": the counts stay.
LEMMA VisitKeepsCounts ==
  ASSUME TopoInv, Visit
  PROVE  TopoInv'
  <1> DEFINE u == q[visited + 1]
  <1>0. /\ Sorting /\ Relaxed /\ TypeOK
        /\ visited \in Nat /\ visited < Len(q) /\ visited' = visited + 1
        /\ q' = q /\ deps' = deps /\ indeg' = indeg /\ result' = "sorting"
        /\ q \in Seq(Names) /\ Len(q) \in Nat
        /\ \A n \in Names : relaxing'[n] = Places(n, u)
    BY DEF TopoInv, Visit, TypeOK, Out
  <1>1. TypeOK'
    <2>1. visited' \in 0..Len(q')
      BY <1>0
    <2>2. relaxing' \in [Names -> SUBSET Nat]
      BY DEF Visit, Out, Places
    <2> QED
      BY <1>0, <2>1, <2>2 DEF TypeOK, Results
  <1>2. u \notin Visited /\ Visited' = Visited \cup {u}
    BY <1>0 DEF Visited, Sorting, ListedOnce
  <1>3. \A n \in Names : Left(n)' = Left(n)
    <2> TAKE n \in Names
    <2>1. relaxing[n] = {}
      BY <1>0 DEF Relaxed
    <2>2. relaxing'[n] = {k \in 1..Len(deps[n]) : deps[n][k] = u}
      BY <1>0 DEF Places
    <2> QED
      BY <1>0, <1>2, <2>1, <2>2 DEF Left
  <1>4. Sorting'
    <2>1. \A n \in Names : /\ relaxing'[n] \subseteq 1..Len(deps[n])
                           /\ \A k \in relaxing'[n] : visited' > 0 /\ deps[n][k] = q[visited']
      BY <1>0 DEF Places
    <2>2. DepsKnown' /\ ListedOnce' /\ AfterDeps'
      BY <1>0 DEF Sorting, DepsKnown, ListedOnce, AfterDeps, Elements
    <2>3. \A n \in Names : indeg'[n] = 0 <=> n \in Elements(q')
      BY <1>0 DEF Sorting
    <2> QED
      BY <1>0, <1>3, <2>1, <2>2, <2>3 DEF Sorting
  <1> QED
    BY <1>0, <1>1, <1>4 DEF TopoInv

\* The places of n's list other than k, when k is the one relaxed.
LEMMA RelaxLeft ==
  ASSUME TopoInv, NEW n \in Names, NEW k \in relaxing[n], Relax(n, k)
  PROVE  /\ Visited' = Visited
         /\ k \in Left(n) /\ Left(n)' = Left(n) \ {k}
         /\ \A m \in Names : m # n => Left(m)' = Left(m)
         /\ indeg[n] # 0 /\ n \notin Elements(q)
         /\ indeg'[n] = Cardinality(Left(n)')
  <1>0. /\ Sorting /\ TypeOK /\ deps' = deps /\ visited' = visited
        /\ q' = IF indeg[n] - 1 = 0 THEN Append(q, n) ELSE q
        /\ relaxing' = [relaxing EXCEPT ![n] = @ \ {k}]
        /\ indeg' = [indeg EXCEPT ![n] = @ - 1]
        /\ q \in Seq(Names) /\ visited \in 0..Len(q)
    BY DEF TopoInv, Relax, TypeOK
  <1>1. Visited' = Visited
    <2>1. \A i \in 1..visited : q'[i] = q[i]
      BY <1>0
    <2> QED
      BY <1>0, <2>1 DEF Visited
  <1>2. k \in 1..Len(deps[n]) /\ deps[n][k] = q[visited] /\ visited > 0
    BY <1>0 DEF Sorting
  <1>3. deps[n][k] \in Visited
    BY <1>0, <1>2 DEF Visited
  <1>4. k \in Left(n)
    BY <1>2 DEF Left
  <1>5. relaxing'[n] = relaxing[n] \ {k} /\ \A m \in Names : m # n => relaxing'[m] = relaxing[m]
    BY <1>0 DEF TypeOK
  <1>6. Left(n)' = Left(n) \ {k}
    BY <1>0, <1>1, <1>3, <1>5 DEF Left
  <1>7. \A m \in Names : m # n => Left(m)' = Left(m)
    BY <1>0, <1>1, <1>5 DEF Left
  <1>8. IsFiniteSet(Left(n)) /\ Cardinality(Left(n)) \in Nat /\ Cardinality(Left(n)) # 0
    BY <1>0, <1>4, LeftFinite
  <1>9. indeg[n] = Cardinality(Left(n))
    BY <1>0 DEF Sorting
  <1>10. indeg[n] # 0 /\ n \notin Elements(q)
    BY <1>0, <1>8, <1>9 DEF Sorting
  <1>11. Cardinality(Left(n) \ {k}) = Cardinality(Left(n)) - 1
    BY <1>4, <1>8, FS_RemoveElement
  <1>12. indeg'[n] = indeg[n] - 1
    BY <1>0 DEF TypeOK
  <1> QED
    BY <1>1, <1>4, <1>6, <1>7, <1>9, <1>10, <1>11, <1>12

\* A name enters the work list when nothing is left of its list: then all it
\* depends on has been taken, and stands before it.
LEMMA RelaxKeepsCounts ==
  ASSUME TopoInv, NEW n \in Names, NEW k \in relaxing[n], Relax(n, k)
  PROVE  TopoInv'
  <1>0. /\ Sorting /\ TypeOK /\ deps' = deps /\ visited' = visited /\ result' = "sorting"
        /\ q' = IF indeg[n] - 1 = 0 THEN Append(q, n) ELSE q
        /\ relaxing' = [relaxing EXCEPT ![n] = @ \ {k}]
        /\ indeg' = [indeg EXCEPT ![n] = @ - 1]
        /\ q \in Seq(Names) /\ visited \in 0..Len(q) /\ Len(q) \in Nat
        /\ indeg \in [Names -> Int] /\ relaxing \in [Names -> SUBSET Nat]
    BY DEF TopoInv, Relax, TypeOK
  <1>1. /\ indeg'[n] = indeg[n] - 1 /\ \A m \in Names : m # n => indeg'[m] = indeg[m]
        /\ relaxing'[n] = relaxing[n] \ {k}
        /\ \A m \in Names : m # n => relaxing'[m] = relaxing[m]
    BY <1>0
  <1>2. /\ q' \in Seq(Names) /\ Len(q') \in Nat /\ Len(q) <= Len(q')
        /\ \A i \in 1..Len(q) : q'[i] = q[i]
    BY <1>0
  <1>3. TypeOK'
    <2>1. indeg' \in [Names -> Int] /\ relaxing' \in [Names -> SUBSET Nat]
      BY <1>0
    <2>2. visited' \in 0..Len(q')
      BY <1>0, <1>2
    <2> QED
      BY <1>0, <1>2, <2>1, <2>2 DEF TypeOK, Results
  <1>4. \A m \in Names : indeg'[m] = Cardinality(Left(m)')
    <2>1. \A m \in Names : indeg[m] = Cardinality(Left(m))
      BY <1>0 DEF Sorting
    <2> QED
      BY <1>1, <2>1, RelaxLeft
  <1>5. \A m \in Names : /\ relaxing'[m] \subseteq 1..Len(deps[m])
                         /\ \A j \in relaxing'[m] : visited' > 0 /\ deps[m][j] = q'[visited']
    BY <1>0, <1>1, <1>2 DEF Sorting
  <1>6. ListedOnce' /\ AfterDeps' /\ \A m \in Names : indeg'[m] = 0 <=> m \in Elements(q')
    <2>1. CASE indeg[n] - 1 # 0
      <3>1. q' = q
        BY <1>0, <2>1
      <3>2. indeg'[n] # 0 /\ n \notin Elements(q)
        BY <1>1, <2>1, RelaxLeft
      <3>3. \A m \in Names : indeg'[m] = 0 <=> m \in Elements(q')
        BY <1>0, <1>1, <3>1, <3>2 DEF Sorting
      <3>4. ListedOnce' /\ AfterDeps'
        BY <1>0, <3>1, OrderKept DEF Sorting
      <3> QED
        BY <3>3, <3>4
    <2>2. CASE indeg[n] - 1 = 0
      <3>1. /\ q' = Append(q, n) /\ Len(q') = Len(q) + 1 /\ q'[Len(q')] = n
            /\ \A i \in 1..Len(q') : i # Len(q') => i \in 1..Len(q)
        BY <1>0, <2>2
      <3>2. Elements(q') = Elements(q) \cup {n} /\ n \notin Elements(q)
        BY <1>2, <3>1, RelaxLeft DEF Elements
      <3>3. ListedOnce'
        <4> SUFFICES ASSUME NEW i \in 1..Len(q'), NEW j \in 1..Len(q'), q'[i] = q'[j], i # j
                     PROVE  FALSE
          BY DEF ListedOnce
        <4>1. CASE i \in 1..Len(q) /\ j \in 1..Len(q)
          BY <1>0, <1>2, <4>1 DEF Sorting, ListedOnce
        <4>2. CASE i = Len(q') /\ j \in 1..Len(q)
          BY <1>2, <3>1, <3>2, <4>2 DEF Elements
        <4>3. CASE j = Len(q') /\ i \in 1..Len(q)
          BY <1>2, <3>1, <3>2, <4>3 DEF Elements
        <4> QED
          BY <3>1, <4>1, <4>2, <4>3
      <3>4. \A d \in Elements(deps[n]) : \E j \in 1..Len(q) : q[j] = d
        <4>1. Left(n)' = {}
          <5>1. Cardinality(Left(n)') = 0
            BY <1>1, <2>2, RelaxLeft
          <5>2. IsFiniteSet(Left(n)) /\ Left(n)' = Left(n) \ {k}
            BY <1>0, LeftFinite, RelaxLeft
          <5> QED
            BY <5>1, <5>2, FS_RemoveElement, FS_EmptySet
        <4>2. \A j \in 1..Len(deps[n]) : deps[n][j] \in Visited
          BY <1>0, <4>1, RelaxLeft DEF Left
        <4>3. \A d \in Visited : \E j \in 1..Len(q) : q[j] = d
          BY <1>0 DEF Visited
        <4> QED
          BY <4>2, <4>3 DEF Elements
      <3>5. AfterDeps'
        <4> SUFFICES ASSUME NEW i \in 1..Len(q'), NEW d \in Elements(deps[q'[i]])
                     PROVE  \E j \in 1..Len(q') : j < i /\ q'[j] = d
          BY <1>0 DEF AfterDeps
        <4>1. CASE i \in 1..Len(q)
          <5>1. PICK j \in 1..Len(q) : j < i /\ q[j] = d
            BY <1>0, <1>2, <4>1 DEF Sorting, AfterDeps
          <5> QED
            BY <1>2, <5>1
        <4>2. CASE i = Len(q')
          <5>1. PICK j \in 1..Len(q) : q[j] = d
            BY <3>1, <3>4, <4>2
          <5> QED
            BY <1>2, <3>1, <4>2, <5>1
        <4> QED
          BY <3>1, <4>1, <4>2
      <3>6. \A m \in Names : indeg'[m] = 0 <=> m \in Elements(q')
        BY <1>0, <1>1, <2>2, <3>2 DEF Sorting
      <3> QED
        BY <3>3, <3>5, <3>6
    <2> QED
      BY <2>1, <2>2
  <1>7. DepsKnown'
    BY <1>0 DEF Sorting, DepsKnown, Elements
  <1> QED
    BY <1>0, <1>3, <1>4, <1>5, <1>6, <1>7 DEF TopoInv, Sorting

--------------------------------------------------------------------------
\* TopoInv is inductive.

LEMMA TopoInit == Init => TopoInv
  BY DEF Init, TopoInv, TypeOK, Results, Relaxed

LEMMA TopoStep ==
  ASSUME TopoInv, [Next]_vars
  PROVE  TopoInv'
  <1>1. CASE UnknownDependency
    <2>1. /\ result = "called" /\ result' = "unknown dependency" /\ ~DepsKnown
          /\ UNCHANGED <<deps, indeg, q, visited, relaxing>>
      BY <1>1 DEF UnknownDependency, DepsKnown
    <2>2. TypeOK'
      BY <2>1 DEF TopoInv, TypeOK, Results
    <2>3. DepsKnown' <=> DepsKnown
      BY <2>1, OrderKept
    <2> QED
      BY <2>1, <2>2, <2>3 DEF TopoInv
  <1>2. CASE Count
    BY <1>2, CountCounts
  <1>3. CASE Seed
    BY <1>3, SeedSorts
  <1>4. CASE Visit
    BY <1>4, VisitKeepsCounts
  <1>5. CASE \E n \in Names : \E k \in relaxing[n] : Relax(n, k)
    BY <1>5, RelaxKeepsCounts
  <1>6. CASE Finish
    <2>1. /\ Sorting /\ TypeOK /\ visited = Len(q) /\ Relaxed
          /\ deps' = deps /\ indeg' = indeg /\ q' = q /\ visited' = visited
          /\ relaxing' = relaxing
          /\ result' = IF Len(q) = Cardinality(Names) THEN "returned" ELSE "dependency cycle"
      BY <1>6 DEF TopoInv, Finish
    <2>2. TypeOK' /\ Relaxed'
      BY <2>1 DEF TypeOK, Results, Relaxed
    <2>3. Sorting'
      BY <2>1, SortingKept
    <2> QED
      BY <2>1, <2>2, <2>3 DEF TopoInv
  <1>7. CASE UNCHANGED vars
    <2>1. TypeOK' /\ (Relaxed' <=> Relaxed) /\ (DepsKnown' <=> DepsKnown)
      BY <1>7, OrderKept DEF vars, TopoInv, TypeOK, Relaxed
    <2>2. (Sorting => Sorting') /\ (Counting => Counting')
      BY <1>7, <2>1, SortingKept DEF vars, Counting
    <2> QED
      BY <1>7, <2>1, <2>2 DEF vars, TopoInv
  <1> QED
    BY <1>1, <1>2, <1>3, <1>4, <1>5, <1>6, <1>7 DEF Next, Done

\* The counters of topo_order_() count the mentions still to be relaxed, in
\* every configuration.
THEOREM TopoInvariant == Spec => []TopoInv
  <1>1. Init => TopoInv
    BY TopoInit
  <1>2. TopoInv /\ [Next]_vars => TopoInv'
    BY TopoStep
  <1> QED
    BY <1>1, <1>2, PTL DEF Spec

--------------------------------------------------------------------------
\* What the invariant says of the result.

\* As many different names as there are names: all of them.
LEMMA FullListIsAll ==
  ASSUME TypeOK, ListedOnce, Len(q) = Cardinality(Names)
  PROVE  \A n \in Names : \E k \in 1..Len(q) : q[k] = n
  <1>1. q \in [1..Len(q) -> Names] /\ Len(q) \in Nat
    BY DEF TypeOK
  <1>2. q \in Injection(1..Len(q), Names)
    BY <1>1 DEF ListedOnce, Injection, IsInjective
  <1>3. Cardinality(1..Len(q)) = Len(q)
    BY <1>1, FS_Interval
  <1>4. q \in Surjection(1..Len(q), Names)
    BY <1>2, <1>3, NamesAssumption, FS_Injection
  <1> QED
    BY <1>4 DEF Surjection

\* The order topo_order_() returns has every process once, after all it
\* depends on: start_all() may start them in this order.
LEMMA InvReturnsOrder == TopoInv => ReturnsOrder
  <1> SUFFICES ASSUME TopoInv, result = "returned"
               PROVE  StartsInOrder(q)
    BY DEF ReturnsOrder
  <1>1. TypeOK /\ Sorting /\ Len(q) = Cardinality(Names) /\ q \in Seq(Names)
    BY DEF TopoInv, TypeOK
  <1>2. \A n \in Names : \E k \in 1..Len(q) : q[k] = n
    BY <1>1, FullListIsAll DEF Sorting
  <1>3. ASSUME NEW j \in 1..Len(q), NEW k \in 1..Len(q), q[j] \in Elements(deps[q[k]])
        PROVE  j < k
    <2>1. PICK i \in 1..Len(q) : i < k /\ q[i] = q[j]
      BY <1>1, <1>3 DEF Sorting, AfterDeps
    <2> QED
      BY <1>1, <2>1 DEF Sorting, ListedOnce
  <1> QED
    BY <1>1, <1>2, <1>3 DEF StartsInOrder, Sorting, ListedOnce

\* A refused configuration has processes that never reach a count of 0.  Each of
\* them depends on another one of them, so the first of them in an order would
\* come after one of them.
LEMMA InvRefusesRightly == TopoInv => RefusesRightly
  <1> SUFFICES ASSUME TopoInv PROVE RefusesRightly
    OBVIOUS
  <1>1. ASSUME result = "unknown dependency"
        PROVE  \E n \in Names : \E d \in Elements(deps[n]) : d \notin Names
    BY <1>1 DEF TopoInv, DepsKnown
  <1>2. ASSUME result = "dependency cycle", NEW s \in Listings(Names), StartsInOrder(s)
        PROVE  FALSE
    <2>1. /\ TypeOK /\ Sorting /\ visited = Len(q) /\ Relaxed
          /\ Len(q) # Cardinality(Names) /\ q \in Seq(Names) /\ Len(q) \in Nat
      <3>1. TypeOK
        BY DEF TopoInv
      <3>2. q \in Seq(Names) /\ Len(q) \in Nat
        BY <3>1 DEF TypeOK
      <3>3. Sorting /\ visited = Len(q) /\ Relaxed /\ Len(q) # Cardinality(Names)
        BY <1>2 DEF TopoInv
      <3> QED
        BY <3>1, <3>2, <3>3
    <2> DEFINE S == Names \ Elements(q)
               At == {i \in 1..Len(s) : s[i] \in S}
    <2>2. \A m \in S : \E d \in Elements(deps[m]) : d \in S
      <3> SUFFICES ASSUME NEW m \in S PROVE \E d \in Elements(deps[m]) : d \in S
        OBVIOUS
      <3>1. indeg[m] # 0 /\ indeg[m] = Cardinality(Left(m))
        BY <2>1 DEF Sorting
      <3>2. Left(m) # {}
        BY <2>1, <3>1, LeftFinite
      <3>3. PICK k \in 1..Len(deps[m]) : deps[m][k] \notin Visited
        BY <2>1, <3>2 DEF Left, Relaxed
      <3>4. Visited = Elements(q)
        BY <2>1 DEF Visited, Elements
      <3>5. deps[m][k] \in Elements(deps[m])
        BY DEF Elements
      <3> QED
        BY <2>1, <3>3, <3>4, <3>5 DEF Sorting, DepsKnown
    <2>3. S # {}
      <3> SUFFICES ASSUME Names \subseteq Elements(q) PROVE FALSE
        OBVIOUS
      <3>1. q \in [1..Len(q) -> Names]
        BY <2>1
      <3>2. q \in Injection(1..Len(q), Names)
        BY <2>1, <3>1 DEF Sorting, ListedOnce, Injection, IsInjective
      <3>3. q \in Surjection(1..Len(q), Names)
        BY <3>1 DEF Elements, Surjection
      <3>4. Cardinality(1..Len(q)) = Cardinality(Names)
        BY <3>2, <3>3, NamesAssumption, FS_Injection
      <3>5. Len(q) \in Nat
        BY <2>1
      <3>6. Cardinality(1..Len(q)) = Len(q)
        BY <3>5, FirstPlaces
      <3> QED
        BY <2>1, <3>4, <3>6
    <2>4. \A n \in Names : \E k \in 1..Len(s) : s[k] = n
      BY <1>2 DEF StartsInOrder
    <2>5. At \in SUBSET Nat /\ At # {}
      BY <2>3, <2>4
    <2>6. PICK i \in At : \A j \in At : i <= j
      BY <2>5, LeastElement
    <2>7. PICK d \in Elements(deps[s[i]]) : d \in S
      BY <2>2
    <2>8. PICK j \in 1..Len(s) : s[j] = d
      BY <2>4, <2>7
    <2>9. j < i
      BY <1>2, <2>7, <2>8 DEF StartsInOrder
    <2> QED
      BY <2>5, <2>6, <2>7, <2>8, <2>9
  <1> QED
    BY <1>1, <1>2 DEF RefusesRightly

--------------------------------------------------------------------------
\* What topo_order_() returns is an order in which start_all() can start the
\* processes, whatever the order of the maps and with names listed twice.
THEOREM OrderReturned == Spec => []ReturnsOrder
  BY TopoInvariant, InvReturnsOrder, PTL

\* topo_order_() throws only for a dependency that is not configured or for a
\* configuration no order fits.
THEOREM OrderRefused == Spec => []RefusesRightly
  BY TopoInvariant, InvRefusesRightly, PTL
==========================================================================
