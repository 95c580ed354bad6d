------------------------- MODULE PointTransferProofs -------------------------
(***************************************************************************)
(* Facts about the transfer of points that hold for every number of ranks, *)
(* of points and of calls, and for every tag: which rank the search in the *)
(* sorted ends of the owned ranges finds, what a rank that probes can      *)
(* meet, that the lists of indices two ranks keep for each other pair,     *)
(* where an index is found among its rank's, whose values a rank gets,     *)
(* which ranges overlap, and when the constructor of a pattern throws, in  *)
(* a transfer and for any ranges and ghosts another caller gives it.       *)
(***************************************************************************)
EXTENDS PointTransfer, Integers, FiniteSetTheorems, NaturalsInduction, WellFoundedInduction, TLAPS

(***************************************************************************)
(* Owners.                                                                 *)
(***************************************************************************)
\* When no two ranges overlap and none goes beyond the indices, upper_bound in
\* the sorted ends finds the owner of an index and no other rank, wherever empty
\* ranges are and in whatever order the ranks have theirs.
THEOREM OwnerFound ==
  ASSUME NEW R \in SUBSET Nat, NEW n \in Nat, NEW own \in [R -> Nat \X Nat],
         \A r \in R : own[r][1] <= own[r][2] /\ (own[r][1] < own[r][2] => own[r][2] <= n),
         \A p, q \in R : p = q \/ own[p][1] = own[p][2] \/ own[q][1] = own[q][2]
                           \/ own[p][2] <= own[q][1] \/ own[q][2] <= own[p][1],
         NEW o \in R, NEW g \in Nat, Owns(own, o, g)
  PROVE  Finders(own, n, g) = {o}
<1>1. \A r \in R : own[r][1] \in Nat /\ own[r][2] \in Nat /\ r \in Nat
  OBVIOUS
<1>2. EndOf(own, n, o) = own[o][2] /\ g < own[o][2] /\ own[o][1] <= g /\ own[o][2] <= n
  BY <1>1 DEF EndOf, Owns, Size
<1>3. ASSUME NEW q \in R, q # o, EndOf(own, n, q) > g
      PROVE  EndOf(own, n, q) > own[o][2]
  <2>1. CASE own[q][1] = own[q][2]
    BY <1>1, <1>2, <2>1 DEF EndOf, Size
  <2>2. CASE own[q][1] # own[q][2]
    <3>1. EndOf(own, n, q) = own[q][2] /\ own[q][1] < own[q][2]
      BY <1>1, <2>2 DEF EndOf, Size
    <3>2. own[o][2] <= own[q][1]
      BY <1>1, <1>2, <1>3, <3>1, <2>2
    <3>3. QED BY <1>1, <3>1, <3>2
  <2>3. QED BY <2>1, <2>2
<1>4. \A q \in R : EndOf(own, n, q) \in Nat
  BY <1>1 DEF EndOf, Size
<1>5. DOMAIN own = R
  OBVIOUS
<1>6. o \in Finders(own, n, g)
  BY <1>1, <1>2, <1>3, <1>4, <1>5 DEF Finders
<1>7. ASSUME NEW q \in Finders(own, n, g), q # o PROVE FALSE
  <2>1. q \in R /\ EndOf(own, n, q) > g /\ EndOf(own, n, q) <= EndOf(own, n, o)
    BY <1>1, <1>2, <1>5, <1>7 DEF Finders
  <2>2. EndOf(own, n, q) > own[o][2]
    BY <1>3, <1>7, <2>1
  <2>3. QED BY <1>1, <1>2, <1>4, <2>1, <2>2
<1>8. QED BY <1>6, <1>7
-----------------------------------------------------------------------------
(***************************************************************************)
(* Probes.                                                                 *)
(***************************************************************************)
Early == {"search", "consensus"}

\* While a rank has not left the exchange of requesters, none has sent anything.
IInv ==
  /\ pc \in [Ranks -> DOMAIN Phases]
  /\ (\E r \in Ranks : pc[r] \in Early) =>
       /\ \A q \in Ranks : pc[q] \in Early \cup {"reduce"}
       /\ \A p, q \in Ranks : chan[p][q] = <<>>

LEMMA InitIInv == Init => IInv
BY DEF Init, IInv, Early, Phases, NoMessages

LEMMA NumbersOfPhases ==
  ASSUME NEW p \in DOMAIN Phases
  PROVE  PhaseNumber(p) >= PhaseNumber("reduce") <=> p \notin Early
BY DEF Phases, PhaseNumber, Early

\* Once a rank is past the reductions no rank is early, and none becomes early.
LEMMA LateStep ==
  ASSUME IInv, NEW r \in Ranks, \A q \in Ranks : pc[q] \notin Early,
         NEW x \in DOMAIN Phases \ Early,
         pc' = pc \/ pc' = [pc EXCEPT ![r] = x]
  PROVE  IInv'
BY DEF IInv

LEMMA PastReductions ==
  ASSUME IInv, NEW r \in Ranks, pc[r] \notin Early \cup {"reduce"}
  PROVE  \A q \in Ranks : pc[q] \notin Early
BY DEF IInv

LEMMA MapStepIInv ==
  ASSUME IInv, NEW r \in Ranks, MapStep(r)
  PROVE  IInv'
<1>1. CASE Search(r)
  <2>1. pc[r] = "search" /\ pc' = [pc EXCEPT ![r] = "consensus"] /\ chan' = chan
    BY <1>1 DEF Search, At, Goes
  <2>2. QED BY <2>1 DEF IInv, Early, Phases
<1>2. CASE LearnSenders(r)
  <2>1. pc[r] = "consensus" /\ pc' = [pc EXCEPT ![r] = "reduce"] /\ chan' = chan
    BY <1>2 DEF LearnSenders, At, Goes
  <2>2. QED BY <2>1 DEF IInv, Early, Phases
<1>3. CASE SendNumbers(r)
  <2>1. AllIn("reduce") /\ pc' = [pc EXCEPT ![r] = "numbers"]
    BY <1>3 DEF SendNumbers, Goes
  <2>2. \A q \in Ranks : pc[q] \notin Early
    BY <2>1, NumbersOfPhases DEF AllIn, IInv
  <2>3. "numbers" \in DOMAIN Phases \ Early
    BY DEF Phases, Early
  <2>4. QED BY <2>1, <2>2, <2>3, LateStep
<1>4. CASE SendIds(r) \/ SendCoordinates(r) \/ Locate(r) \/ MakePattern(r)
  <2>1. PICK x \in {"ids", "coords", "found", "gather"} :
          pc[r] \notin Early \cup {"reduce"} /\ pc' = [pc EXCEPT ![r] = x]
    BY <1>4 DEF SendIds, SendCoordinates, Locate, MakePattern, At, Goes, Early
  <2>2. x \in DOMAIN Phases \ Early
    BY DEF Phases, Early
  <2>3. QED BY <2>1, <2>2, PastReductions, LateStep
<1>5. QED BY <1>1, <1>2, <1>3, <1>4 DEF MapStep

LEMMA LaterStepIInv ==
  ASSUME IInv, NEW r \in Ranks, PatternStep(r) \/ CallStep(r)
  PROVE  IInv'
<1> DEFINE Late == {"ask", "counts", "indices", "built", "checked", "agree", "work", "insert"}
<1>1. pc[r] \in Late \cup {"gather"} /\ \E x \in Late : pc' = pc \/ pc' = [pc EXCEPT ![r] = x]
  <2>1. CASE LeaveGather(r) \/ SendCounts(r)
    BY <2>1 DEF LeaveGather, SendCounts, At, Goes, Throws
  <2>2. CASE SendIndices(r) \/ KeepIndices(r)
    BY <2>2 DEF SendIndices, KeepIndices, At, Goes, Throws
  <2>3. CASE Check(r) \/ EndCheck(r) \/ Interpolate(r) \/ EndInterpolate(r)
    BY <2>3 DEF Check, EndCheck, Interpolate, EndInterpolate, Computes, Inserts, At, Goes
  <2>4. CASE Agree(r)
    BY <2>4 DEF Agree, At, Goes, Throws
  <2>5. QED BY <2>1, <2>2, <2>3, <2>4 DEF PatternStep, CallStep
<1>2. \A x \in Late : x \in DOMAIN Phases \ Early
  BY DEF Phases, Early
<1>3. pc[r] \notin Early \cup {"reduce"}
  BY <1>1 DEF Early
<1>4. QED BY <1>1, <1>2, <1>3, PastReductions, LateStep

\* The two reductions of receivePoints, made for two numbers that are printed,
\* keep the numbers of points from ranks that still probe for requesters: in a
\* job of any size, with any tags, a rank finds nothing else while it probes.
THEOREM NoStrayProbeCorrect == Spec => []NoStrayProbe
<1>1. IInv /\ [Next]_vars => IInv'
  <2> SUFFICES ASSUME IInv, [Next]_vars PROVE IInv'
    OBVIOUS
  <2>1. CASE UNCHANGED vars
    BY <2>1 DEF vars, patternVars, IInv
  <2>2. ASSUME NEW r \in Ranks, RankStep(r) PROVE IInv'
    BY <2>2, MapStepIInv, LaterStepIInv DEF RankStep
  <2>3. QED BY <2>1, <2>2 DEF Next
<1>2. IInv => NoStrayProbe
  BY DEF IInv, NoStrayProbe, Early
<1>3. QED BY <1>1, <1>2, InitIInv, PTL DEF Spec
(***************************************************************************)
(* Least elements, sums over finite sets, and sorted sequences.            *)
(***************************************************************************)
LEMMA LeastNumber ==
  ASSUME NEW T \in SUBSET Nat, T # {}
  PROVE  \E x \in T : \A y \in T : x <= y
<1>1. PICK x \in T : \A y \in T : ~(<<y, x>> \in OpToRel(<, Nat))
  BY WFMin, NatLessThanWellFounded
<1>2. ASSUME NEW y \in T PROVE x <= y
  <2>1. x \in Nat /\ y \in Nat
    OBVIOUS
  <2>2. ~(y < x)
    BY <1>1, <2>1 DEF OpToRel
  <2>3. QED BY <2>1, <2>2
<1>3. QED BY <1>2

LEMMA LeastOfFacts ==
  ASSUME NEW T \in SUBSET Nat, T # {}
  PROVE  LeastOf(T) \in T /\ \A y \in T : LeastOf(T) <= y
BY LeastNumber DEF LeastOf

\* The sums over the subsets of S, one element after the other.
Chosen(s) == CHOOSE x \in s : TRUE
OneByOne(f, S, g) ==
  g = [s \in SUBSET S |-> IF s = {} THEN 0 ELSE f[Chosen(s)] + g[s \ {Chosen(s)}]]
Sums(f, S) == CHOOSE g : OneByOne(f, S, g)
SumOf(f, S) == Sums(f, S)[S]

LEMMA SumsAreFolds ==
  ASSUME NEW f, NEW S
  PROVE  SumFunctionOnSet(f, S) = SumOf(f, S) /\ MapThenSumSet(LAMBDA q : f[q], S) = SumOf(f, S)
BY DEF SumFunctionOnSet, FoldFunctionOnSet, MapThenSumSet, MapThenFoldSet, SumOf, Sums, OneByOne, Chosen

\* The recursion has a solution, and it is the sums.
LEMMA SumsExist ==
  ASSUME NEW S, IsFiniteSet(S), NEW f, \A x \in S : f[x] \in Nat
  PROVE  \E g \in [SUBSET S -> Nat] : OneByOne(f, S, g)
<1> DEFINE Step(g) == [s \in SUBSET S |-> IF s = {} THEN 0 ELSE f[Chosen(s)] + g[s \ {Chosen(s)}]]
           Upto(n, g) == \A s \in SUBSET S : Cardinality(s) <= n => g[s] = Step(g)[s]
           Bad == {n \in Nat : ~ \E g \in [SUBSET S -> Nat] : Upto(n, g)}
<1>1. ASSUME NEW s \in SUBSET S
      PROVE  /\ Cardinality(s) \in Nat /\ Cardinality(s) <= Cardinality(S)
             /\ s # {} => /\ Chosen(s) \in s /\ s \ {Chosen(s)} \in SUBSET S
                          /\ Cardinality(s \ {Chosen(s)}) = Cardinality(s) - 1
             /\ Cardinality(s) = 0 => s = {}
  <2>1. IsFiniteSet(s) /\ Cardinality(s) <= Cardinality(S)
    BY FS_Subset
  <2>2. s # {} => Chosen(s) \in s
    BY DEF Chosen
  <2>3. QED BY <2>1, <2>2, FS_CardinalityType, FS_RemoveElement, FS_EmptySet
<1>2. \A g \in [SUBSET S -> Nat] : Step(g) \in [SUBSET S -> Nat]
  <2> SUFFICES ASSUME NEW g \in [SUBSET S -> Nat], NEW s \in SUBSET S, s # {}
               PROVE  f[Chosen(s)] + g[s \ {Chosen(s)}] \in Nat
    OBVIOUS
  <2>1. Chosen(s) \in S /\ s \ {Chosen(s)} \in SUBSET S
    BY <1>1
  <2>2. f[Chosen(s)] \in Nat /\ g[s \ {Chosen(s)}] \in Nat
    BY <2>1
  <2>3. QED BY <2>2
<1>3. \A n \in Nat : n \notin Bad
  <2> SUFFICES ASSUME Bad # {} PROVE FALSE
    OBVIOUS
  <2>1. PICK n \in Bad : \A m \in Bad : n <= m
    <3> HIDE DEF Bad
    <3>1. Bad \in SUBSET Nat
      BY DEF Bad
    <3>2. QED BY <3>1, LeastNumber
  <2>2. CASE n = 0
    <3> DEFINE g == [s \in SUBSET S |-> 0]
    <3>1. g \in [SUBSET S -> Nat]
      OBVIOUS
    <3>2. ASSUME NEW s \in SUBSET S, Cardinality(s) <= 0 PROVE g[s] = Step(g)[s]
      <4>1. Cardinality(s) = 0
        <5> HIDE DEF Step, Upto, Bad, g
        <5>1. Cardinality(s) \in Nat
          BY <1>1
        <5>2. QED BY <3>2, <5>1
      <4>2. s = {}
        <5> HIDE DEF Step, Upto, Bad, g
        <5>1. QED BY <1>1, <4>1
      <4>3. QED BY <4>2
    <3>3. Upto(0, g)
      BY <3>2
    <3>4. QED BY <2>1, <2>2, <3>1, <3>3
  <2>3. CASE n # 0
    <3>1. n - 1 \in Nat /\ n - 1 \notin Bad /\ n \in Nat
      <4>1. n \in Nat
        OBVIOUS
      <4> HIDE DEF Bad
      <4>2. QED BY <2>1, <2>3, <4>1
    <3>2. PICK g \in [SUBSET S -> Nat] : Upto(n - 1, g)
      BY <3>1
    <3>3. Step(g) \in [SUBSET S -> Nat]
      BY <1>2
    <3>4. ASSUME NEW s \in SUBSET S, Cardinality(s) <= n
          PROVE  Step(g)[s] = Step(Step(g))[s]
      <4>1. CASE s = {}
        BY <4>1
      <4>2. CASE s # {}
        <5> DEFINE t == s \ {Chosen(s)}
        <5>1. t \in SUBSET S /\ Cardinality(t) <= n - 1
          BY <1>1, <3>1, <3>4, <4>2
        <5>2. g[t] = Step(g)[t]
          BY <3>2, <5>1
        <5> HIDE DEF t
        <5>3. Step(g)[s] = f[Chosen(s)] + g[t]
          BY <4>2 DEF t
        <5>4. Step(Step(g))[s] = f[Chosen(s)] + Step(g)[t]
          <6> DEFINE h == Step(g)
          <6> HIDE DEF h
          <6>1. Step(h)[s] = f[Chosen(s)] + h[t]
            BY <4>2 DEF t
          <6>2. QED BY <6>1 DEF h
        <5>5. QED BY <5>2, <5>3, <5>4
      <4>3. QED BY <4>1, <4>2
    <3>5. Upto(n, Step(g))
      BY <3>4
    <3>6. QED BY <2>1, <3>3, <3>5
  <2>4. QED BY <2>2, <2>3
<1>4. Cardinality(S) \in Nat
  BY FS_CardinalityType
<1>5. PICK g \in [SUBSET S -> Nat] : Upto(Cardinality(S), g)
  BY <1>3, <1>4
<1>6. g = Step(g)
  <2>1. \A s \in SUBSET S : g[s] = Step(g)[s]
    BY <1>1, <1>5
  <2>2. Step(g) \in [SUBSET S -> Nat]
    BY <1>2
  <2> DEFINE h == Step(g)
  <2> HIDE DEF h
  <2>3. g = h
    BY <2>1, <2>2 DEF h
  <2>4. QED BY <2>3 DEF h
<1>7. QED BY <1>6 DEF OneByOne

Unfolds(f, T, g) ==
  \A s \in SUBSET T : g[s] = IF s = {} THEN 0 ELSE f[Chosen(s)] + g[s \ {Chosen(s)}]

LEMMA SumsUnique ==
  ASSUME NEW T, IsFiniteSet(T), NEW f, NEW g, NEW h,
         Unfolds(f, T, g), Unfolds(f, T, h)
  PROVE  g[T] = h[T]
<1> DEFINE Bad == {n \in Nat : \E s \in SUBSET T : Cardinality(s) = n /\ g[s] # h[s]}
<1>1. ASSUME NEW s \in SUBSET T
      PROVE  /\ Cardinality(s) \in Nat
             /\ s # {} => /\ Chosen(s) \in s /\ s \ {Chosen(s)} \in SUBSET T
                          /\ Cardinality(s \ {Chosen(s)}) = Cardinality(s) - 1
                          /\ Cardinality(s) - 1 \in Nat
  <2>1. IsFiniteSet(s)
    BY FS_Subset
  <2>2. s # {} => Chosen(s) \in s
    BY DEF Chosen
  <2>3. Cardinality(s) \in Nat /\ (s # {} => Cardinality(s) # 0)
    BY <2>1, FS_CardinalityType, FS_EmptySet
  <2>4. Chosen(s) \in s => Cardinality(s \ {Chosen(s)}) = Cardinality(s) - 1
    BY <2>1, FS_RemoveElement
  <2>5. QED BY <2>2, <2>3, <2>4
<1>2. Bad = {}
  <2> SUFFICES ASSUME Bad # {} PROVE FALSE
    OBVIOUS
  <2>1. PICK n \in Bad : \A m \in Bad : n <= m
    <3>1. Bad \in SUBSET Nat
      OBVIOUS
    <3> HIDE DEF Bad
    <3>2. QED BY <3>1, LeastNumber
  <2>2. PICK s \in SUBSET T : Cardinality(s) = n /\ g[s] # h[s]
    BY <2>1
  <2>3. s # {}
    BY <2>2 DEF Unfolds
  <2>4. s \ {Chosen(s)} \in SUBSET T /\ Cardinality(s \ {Chosen(s)}) = n - 1 /\ n - 1 \in Nat
    BY <1>1, <2>2, <2>3
  <2>5. n - 1 \notin Bad
    BY <2>1, <2>4
  <2>6. g[s \ {Chosen(s)}] = h[s \ {Chosen(s)}]
    BY <2>4, <2>5
  <2>7. QED BY <2>2, <2>3, <2>6 DEF Unfolds
<1>3. QED BY <1>1, <1>2

\* A sum is a number, zero over no element, and the chosen element and the rest.
LEMMA SumUnfolds ==
  ASSUME NEW S, IsFiniteSet(S), NEW f, \A x \in S : f[x] \in Nat
  PROVE  /\ SumOf(f, S) \in Nat
         /\ S = {} => SumOf(f, S) = 0
         /\ S # {} => SumOf(f, S) = f[Chosen(S)] + SumOf(f, S \ {Chosen(S)})
<1>1. PICK g \in [SUBSET S -> Nat] : OneByOne(f, S, g)
  BY SumsExist
<1>2. OneByOne(f, S, Sums(f, S))
  BY <1>1 DEF Sums
<1>3. \A s \in SUBSET S : g[s] = IF s = {} THEN 0 ELSE f[Chosen(s)] + g[s \ {Chosen(s)}]
  BY <1>1 DEF OneByOne
<1>4. ASSUME NEW T \in SUBSET S PROVE SumOf(f, T) = g[T]
  <2>1. IsFiniteSet(T)
    BY FS_Subset
  <2>2. \E h \in [SUBSET T -> Nat] : OneByOne(f, T, h)
    BY <2>1, SumsExist
  <2>3. OneByOne(f, T, Sums(f, T))
    BY <2>2 DEF Sums
  <2> DEFINE h == Sums(f, T)
  <2>4. Unfolds(f, T, h)
    <3> HIDE DEF h
    <3>1. OneByOne(f, T, h)
      BY <2>3 DEF h
    <3>2. h = [s \in SUBSET T |-> IF s = {} THEN 0 ELSE f[Chosen(s)] + h[s \ {Chosen(s)}]]
      BY <3>1 DEF OneByOne
    <3>3. QED BY <3>2 DEF Unfolds
  <2>5. Unfolds(f, T, g)
    BY <1>3 DEF Unfolds
  <2> HIDE DEF h
  <2>6. h[T] = g[T]
    BY <2>1, <2>4, <2>5, SumsUnique
  <2>7. QED BY <2>6 DEF SumOf, h
<1>5. S # {} => S \ {Chosen(S)} \in SUBSET S
  OBVIOUS
<1>6. QED BY <1>1, <1>3, <1>4, <1>5
-----------------------------------------------------------------------------
\* The elements of S before x.
Below(S, x) == {y \in S : y < x}

LEMMA InBelow ==
  ASSUME NEW S, NEW x, NEW z PROVE z \in Below(S, x) <=> (z \in S /\ z < x)
BY DEF Below

LEMMA BelowFacts ==
  ASSUME NEW S \in SUBSET Nat, IsFiniteSet(S), NEW x \in S
  PROVE  /\ IsFiniteSet(Below(S, x)) /\ Cardinality(Below(S, x)) \in Nat
         /\ Cardinality(S) \in Nat /\ Cardinality(Below(S, x)) < Cardinality(S)
         /\ \A y \in S : x < y => Cardinality(Below(S, x)) < Cardinality(Below(S, y))
         /\ IsFiniteSet(Below(S, x) \cup {x})
         /\ Cardinality(Below(S, x) \cup {x}) = Cardinality(Below(S, x)) + 1
<1>1. ASSUME NEW y \in S PROVE IsFiniteSet(Below(S, y)) /\ Cardinality(Below(S, y)) \in Nat
  <2>1. Below(S, y) \in SUBSET S
    BY DEF Below
  <2>2. QED BY <2>1, FS_Subset, FS_CardinalityType
<1>2. x \in Nat /\ x \notin Below(S, x)
  BY DEF Below
<1>3. /\ IsFiniteSet(Below(S, x) \cup {x})
      /\ Cardinality(Below(S, x) \cup {x}) = Cardinality(Below(S, x)) + 1
  BY <1>1, <1>2, FS_AddElement
<1>4. ASSUME NEW T, IsFiniteSet(T), Below(S, x) \cup {x} \in SUBSET T
      PROVE  Cardinality(Below(S, x)) < Cardinality(T)
  <2>1. Cardinality(Below(S, x) \cup {x}) <= Cardinality(T) /\ Cardinality(T) \in Nat
    BY <1>4, FS_Subset, FS_CardinalityType
  <2>2. QED BY <1>1, <1>3, <2>1
<1>5. Cardinality(Below(S, x)) < Cardinality(S)
  <2>1. Below(S, x) \cup {x} \in SUBSET S
    BY DEF Below
  <2>2. QED BY <1>4, <2>1
<1>6. ASSUME NEW y \in S, x < y PROVE Cardinality(Below(S, x)) < Cardinality(Below(S, y))
  <2>1. Below(S, x) \cup {x} \in SUBSET Below(S, y)
    <3>1. ASSUME NEW z \in Below(S, x) \cup {x} PROVE z \in S /\ z < y
      <4>1. z \in S /\ (z = x \/ z < x)
        BY InBelow
      <4>2. z \in Nat /\ y \in Nat
        BY <4>1
      <4>3. QED BY <1>2, <1>6, <4>1, <4>2
    <3>2. QED BY <3>1, InBelow
  <2>2. QED BY <1>1, <1>4, <2>1
<1>7. Cardinality(S) \in Nat
  BY FS_CardinalityType
<1>8. QED BY <1>1, <1>3, <1>5, <1>6, <1>7

\* Every place is some element's.
LEMMA PlacesTaken ==
  ASSUME NEW S \in SUBSET Nat, IsFiniteSet(S), NEW k \in Nat, k < Cardinality(S)
  PROVE  \E x \in S : Cardinality(Below(S, x)) = k
<1> DEFINE Bad == {n \in Nat : n < Cardinality(S) /\ ~ \E x \in S : Cardinality(Below(S, x)) = n}
<1>1. Cardinality(S) \in Nat
  BY FS_CardinalityType
<1>2. Bad = {}
  <2> SUFFICES ASSUME Bad # {} PROVE FALSE
    OBVIOUS
  <2>1. PICK n \in Bad : \A m \in Bad : n <= m
    <3>1. Bad \in SUBSET Nat
      OBVIOUS
    <3> HIDE DEF Bad
    <3>2. QED BY <3>1, LeastNumber
  <2>2. n \in Nat /\ n < Cardinality(S) /\ S # {}
    <3>1. n \in Nat /\ n < Cardinality(S)
      OBVIOUS
    <3>2. S # {}
      BY <1>1, <3>1, FS_EmptySet
    <3>3. QED BY <3>1, <3>2
  <2>3. CASE n = 0
    <3>1. LeastOf(S) \in S /\ \A y \in S : LeastOf(S) <= y
      BY <2>2, LeastOfFacts
    <3>2. Below(S, LeastOf(S)) = {}
      <4>1. ASSUME NEW y \in Below(S, LeastOf(S)) PROVE FALSE
        <5>1. y \in S /\ y < LeastOf(S)
          BY InBelow
        <5>2. y \in Nat /\ LeastOf(S) \in Nat /\ LeastOf(S) <= y
          BY <3>1, <5>1
        <5>3. QED BY <5>1, <5>2
      <4>2. QED BY <4>1
    <3>3. QED BY <2>1, <2>3, <3>1, <3>2, FS_EmptySet
  <2>4. CASE n # 0
    <3>1. n - 1 \in Nat /\ n - 1 < Cardinality(S) /\ ~(n <= n - 1)
      BY <1>1, <2>2, <2>4
    <3>2. n - 1 \notin Bad
      <4> HIDE DEF Bad
      <4>1. QED BY <2>1, <3>1
    <3>3. PICK x \in S : Cardinality(Below(S, x)) = n - 1
      BY <3>1, <3>2
    <3> DEFINE above == {y \in S : x < y}
    <3>4. Cardinality(Below(S, x) \cup {x}) = n
      <4>1. Cardinality(Below(S, x) \cup {x}) = Cardinality(Below(S, x)) + 1
        BY BelowFacts
      <4>2. QED BY <2>2, <3>3, <4>1
    <3>5. above # {}
      <4>1. SUFFICES ASSUME above = {} PROVE FALSE
        OBVIOUS
      <4>2. ASSUME NEW y \in S PROVE y \in Below(S, x) \cup {x}
        <5>1. ~(x < y) /\ x \in Nat /\ y \in Nat
          BY <4>1
        <5>2. y < x \/ y = x
          BY <5>1
        <5>3. QED BY <5>2, InBelow
      <4>3. Below(S, x) \cup {x} = S
        BY <4>2, InBelow
      <4>4. QED BY <1>1, <2>2, <3>4, <4>3
    <3>6. PICK y \in above : \A z \in above : y <= z
      <4>1. above \in SUBSET Nat
        OBVIOUS
      <4> HIDE DEF above
      <4>2. QED BY <3>5, <4>1, LeastNumber
    <3>7. Below(S, y) = Below(S, x) \cup {x}
      <4>1. y \in S /\ x < y /\ y \in Nat /\ x \in Nat
        OBVIOUS
      <4>2. ASSUME NEW z \in S PROVE z < y <=> z < x \/ z = x
        <5>1. z \in Nat /\ (x < z => y <= z)
          BY <3>6
        <5>2. QED BY <4>1, <5>1
      <4> HIDE DEF above
      <4>3. \A z : z \in Below(S, y) <=> z \in Below(S, x) \cup {x}
        BY <4>1, <4>2, InBelow
      <4>4. QED BY <4>3
    <3>8. Cardinality(Below(S, y)) = n /\ y \in S
      BY <3>4, <3>7
    <3>9. QED BY <2>1, <3>8
  <2>5. QED BY <2>3, <2>4
<1>3. QED BY <1>2

\* A finite set of numbers in order: a sequence of its elements, each once, each
\* behind those before it.
LEMMA SortedFacts ==
  ASSUME NEW S \in SUBSET Nat, IsFiniteSet(S)
  PROVE  /\ Sorted(S) \in Seq(S) /\ Len(Sorted(S)) = Cardinality(S) /\ Cardinality(S) \in Nat
         /\ \A i \in 1..Cardinality(S) :
              Sorted(S)[i] \in S /\ Cardinality(Below(S, Sorted(S)[i])) = i - 1
         /\ \A i, j \in 1..Cardinality(S) : i < j => Sorted(S)[i] < Sorted(S)[j]
         /\ \A x \in S : /\ Cardinality(Below(S, x)) + 1 \in 1..Cardinality(S)
                         /\ Sorted(S)[Cardinality(Below(S, x)) + 1] = x
<1>1. Cardinality(S) \in Nat
  BY FS_CardinalityType
<1>2. Sorted(S) = [i \in 1..Cardinality(S) |-> CHOOSE x \in S : Cardinality(Below(S, x)) = i - 1]
  BY DEF Sorted, InOrder, Below
<1>3. ASSUME NEW i \in 1..Cardinality(S)
      PROVE  Sorted(S)[i] \in S /\ Cardinality(Below(S, Sorted(S)[i])) = i - 1
  <2>1. i - 1 \in Nat /\ i - 1 < Cardinality(S)
    BY <1>1
  <2>2. \E x \in S : Cardinality(Below(S, x)) = i - 1
    BY <2>1, PlacesTaken
  <2>3. QED BY <1>2, <2>2
<1>4. Sorted(S) \in Seq(S) /\ Len(Sorted(S)) = Cardinality(S)
  <2>1. Sorted(S) \in [1..Cardinality(S) -> S]
    BY <1>2, <1>3
  <2>2. QED BY <1>1, <2>1
<1>5. ASSUME NEW x \in S, NEW y \in S PROVE Cardinality(Below(S, x)) = Cardinality(Below(S, y)) => x = y
  <2>1. /\ x < y => Cardinality(Below(S, x)) < Cardinality(Below(S, y))
        /\ y < x => Cardinality(Below(S, y)) < Cardinality(Below(S, x))
        /\ Cardinality(Below(S, x)) \in Nat /\ Cardinality(Below(S, y)) \in Nat
    BY BelowFacts
  <2>2. x \in Nat /\ y \in Nat
    OBVIOUS
  <2>3. QED BY <2>1, <2>2
<1>6. ASSUME NEW i \in 1..Cardinality(S), NEW j \in 1..Cardinality(S), i < j
      PROVE  Sorted(S)[i] < Sorted(S)[j]
  <2>1. PICK x \in S : x = Sorted(S)[i] /\ Cardinality(Below(S, x)) = i - 1
    BY <1>3
  <2>2. PICK y \in S : y = Sorted(S)[j] /\ Cardinality(Below(S, y)) = j - 1
    BY <1>3
  <2>3. y < x => Cardinality(Below(S, y)) < Cardinality(Below(S, x))
    BY BelowFacts
  <2>4. x \in Nat /\ y \in Nat /\ i \in Nat /\ j \in Nat
    BY <1>1
  <2>5. x < y
    BY <1>6, <2>1, <2>2, <2>3, <2>4
  <2>6. QED BY <2>1, <2>2, <2>5
<1>7. ASSUME NEW x \in S
      PROVE  /\ Cardinality(Below(S, x)) + 1 \in 1..Cardinality(S)
             /\ Sorted(S)[Cardinality(Below(S, x)) + 1] = x
  <2>1. PICK n \in Nat : n = Cardinality(Below(S, x)) /\ n < Cardinality(S)
    BY BelowFacts
  <2>2. n + 1 \in 1..Cardinality(S)
    BY <1>1, <2>1
  <2>3. PICK y \in S : y = Sorted(S)[n + 1] /\ Cardinality(Below(S, y)) = n + 1 - 1
    <3> DEFINE m == n + 1
    <3> HIDE DEF m
    <3>1. m \in 1..Cardinality(S)
      BY <2>2 DEF m
    <3>2. \E y \in S : y = Sorted(S)[m] /\ Cardinality(Below(S, y)) = m - 1
      BY <1>3, <3>1
    <3>3. QED BY <3>2 DEF m
  <2>4. y = x
    BY <1>5, <2>1, <2>3
  <2>5. QED BY <2>1, <2>2, <2>3, <2>4
<1>8. QED BY <1>1, <1>3, <1>4, <1>6, <1>7
-----------------------------------------------------------------------------
(***************************************************************************)
(* The messages of a link, from one rank to another, in the order they are *)
(* sent and received: the numbers, ids and coordinates of the points asked *)
(* for; then the count and the indices of the pattern, and the values of   *)
(* one call after the other.                                               *)
(***************************************************************************)
Num(r) == PhaseNumber(pc[r])

Message(tag, data) == [tag |-> tag, data |-> data]
MapMessages(p, q) ==
  <<Message(q, <<Len(sendTo[p][q])>>),
    Message(PatternTag, sendTo[p][q]),
    Message(PatternTag, sendTo[p][q])>>
PatternMessages(p, q) ==
  [k \in Nat \ {0} |->
     IF k = 1 THEN Message(PatternTag, <<Size(ghostRange[p][q])>>)
     ELSE IF k = 2 THEN Message(PatternTag, LocalAt(p, q))
     ELSE Message(GatherTag, GhostValues(p, q, Computed(p, k - 2)))]

\* How many of them a rank has sent and received in phase n, after c calls.
MapSent(n) == IF n <= 3 THEN 0 ELSE IF n >= 6 THEN 3 ELSE n - 3
MapTook(n) == IF n <= 4 THEN 0 ELSE IF n >= 7 THEN 3 ELSE n - 4
PatternSent(n, c) == IF n <= 9 THEN 0 ELSE IF n = 10 THEN 1 ELSE 2 + c
PatternTook(n, c) ==
  IF n <= 10 THEN 0 ELSE IF n = 11 THEN 1 ELSE IF n \in {13, 16} THEN 1 + c ELSE 2 + c

IsSeq(s) == s \in Seq(ToSet(s))
\* s holds the messages of m that have been sent and not received.
Carries(s, m, took, sent) ==
  /\ IsSeq(s) /\ took <= sent /\ Len(s) = sent - took
  /\ \A i \in 1..(sent - took) : s[i] = m[took + i]

MapLink(p, q) ==
  IF q \in DOMAIN sendTo[p]
    THEN Carries(chan[p][q], MapMessages(p, q), MapTook(Num(q)), MapSent(Num(p)))
    ELSE chan[p][q] = <<>>
PatternLink(p, q) ==
  IF q \in DOMAIN ghostRange[p]
    THEN Carries(chan[p][q], PatternMessages(p, q),
                 PatternTook(Num(q), calls[q]), PatternSent(Num(p), calls[p]))
    ELSE chan[p][q] = <<>>
Mapping == \E r \in Ranks : Num(r) < 9
Links ==
  /\ Mapping => \A p, q \in Ranks : MapLink(p, q)
  /\ ~Mapping => \A p, q \in Ranks : PatternLink(p, q)
-----------------------------------------------------------------------------
(***************************************************************************)
(* The invariant.                                                          *)
(***************************************************************************)
OnRanks(f) == f = [r \in Ranks |-> f[r]]
Types ==
  /\ pc \in [Ranks -> DOMAIN Phases] /\ calls \in [Ranks -> Nat]
  /\ owned \in [Ranks -> Nat \X Nat] /\ numPoints \in [Ranks -> Nat]
  /\ ghosts \in [Ranks -> Seq(Nat)]
  /\ OnRanks(sendTo) /\ OnRanks(heard) /\ OnRanks(found) /\ OnRanks(values)
  /\ OnRanks(ghostRange) /\ OnRanks(numFor) /\ OnRanks(ownedFor)
  /\ OnRanks(chan) /\ \A p \in Ranks : OnRanks(chan[p])
  /\ \A r \in Ranks : (Num(r) <= 12 => calls[r] = 0) /\ (Num(r) > 12 => calls[r] > 0)

\* No rank is past a collective operation that another has not entered.
Gates == {2, 3, 7, 8, 9, 14}
Sync == \A p, q \in Ranks, k \in Gates : Num(p) > k => Num(q) >= k

Asked(p) == [q \in {x \in Ranks \ {p} : SentTo(p, x) # <<>>} |-> SentTo(p, q)]
Lists ==
  \A r \in Ranks :
    /\ Num(r) = 1 => sendTo[r] = EmptyMap
    /\ Num(r) > 1 => sendTo[r] = Asked(r)
    /\ Num(r) >= 3 => DOMAIN heard[r] = Requesters(r, sendTo)
    /\ Num(r) >= 6 => \A q \in DOMAIN heard[r] : heard[r][q] = sendTo[q][r]

\* Every ghost is in the range of a rank.
Placed(r) ==
  /\ DOMAIN ghostRange[r] \subseteq Ranks
  /\ \A o \in DOMAIN ghostRange[r] :
       /\ ghostRange[r][o] \in Nat \X Nat
       /\ ghostRange[r][o][1] < ghostRange[r][o][2] /\ ghostRange[r][o][2] <= Len(ghosts[r])
  /\ \A i \in DOMAIN ghosts[r] : \E o \in DOMAIN ghostRange[r] :
       ghostRange[r][o][1] < i /\ i <= ghostRange[r][o][2]
GhostSide ==
  \A r \in Ranks :
    /\ Num(r) >= 9 => Placed(r)
    /\ Num(r) >= 11 => \A o \in DOMAIN ghostRange[r] : ~Foreign(r, o)
TargetSide ==
  \A r \in Ranks :
    /\ Num(r) >= 10 => DOMAIN numFor[r] = Requesters(r, ghostRange)
    /\ Num(r) >= 12 => ownedFor[r] = [q \in Requesters(r, ghostRange) |-> LocalAt(q, r)]

Running == Types /\ Sync /\ Lists /\ Links /\ GhostSide /\ TargetSide
PatternInv == PatternsPair /\ (threw = {} => Running)
-----------------------------------------------------------------------------
(***************************************************************************)
(* Links.                                                                  *)
(***************************************************************************)
LEMMA EmptyCarries ==
  ASSUME NEW m, NEW t \in Nat
  PROVE  Carries(<<>>, m, t, t)
<1>1. <<>> \in Seq(ToSet(<<>>)) /\ Len(<<>>) = 0
  OBVIOUS
<1>2. \A i \in 1..(t - t) : FALSE
  OBVIOUS
<1>3. QED BY <1>1, <1>2 DEF Carries, IsSeq

LEMMA NothingLeft ==
  ASSUME NEW s, NEW m, NEW t \in Nat, Carries(s, m, t, t)
  PROVE  s = <<>>
BY DEF Carries, IsSeq

LEMMA Push ==
  ASSUME NEW s, NEW m, NEW took \in Nat, NEW sent \in Nat, Carries(s, m, took, sent),
         NEW e, e = m[sent + 1]
  PROVE  Carries(Append(s, e), m, took, sent + 1)
<1> DEFINE t == Append(s, e)
           n == sent - took
<1>1. s \in Seq(ToSet(s)) /\ n \in Nat /\ Len(s) = n /\ took <= sent
  BY DEF Carries, IsSeq
<1>2. s \in Seq(ToSet(s) \cup {e})
  BY <1>1
<1> HIDE DEF n
<1>3. t \in Seq(ToSet(s) \cup {e}) /\ Len(t) = n + 1 /\ t[n + 1] = e /\ \A i \in 1..n : t[i] = s[i]
  BY <1>1, <1>2
<1>4. IsSeq(t)
  <2> HIDE DEF t
  <2>1. DOMAIN t = 1..(n + 1) /\ n + 1 \in Nat /\ t = [i \in 1..(n + 1) |-> t[i]]
    BY <1>1, <1>3
  <2>2. \A i \in 1..(n + 1) : t[i] \in ToSet(t)
    BY <2>1 DEF ToSet
  <2>3. t \in [1..(n + 1) -> ToSet(t)]
    BY <2>1, <2>2
  <2>4. QED BY <2>1, <2>3 DEF IsSeq
<1>5. took <= sent + 1 /\ Len(t) = sent + 1 - took
  BY <1>1, <1>3 DEF n
<1>6. ASSUME NEW i \in 1..(sent + 1 - took) PROVE t[i] = m[took + i]
  <2>1. CASE i \in 1..n
    <3>1. s[i] = m[took + i]
      BY <2>1 DEF Carries, n
    <3>2. QED BY <1>3, <2>1, <3>1
  <2>2. CASE i = n + 1
    <3>1. took + i = sent + 1
      BY <2>2, <1>1 DEF n
    <3>2. QED BY <1>3, <2>2, <3>1
  <2>3. QED BY <1>1, <2>1, <2>2 DEF n
<1>7. QED BY <1>4, <1>5, <1>6 DEF Carries

LEMMA WithoutFirst ==
  ASSUME NEW s, IsSeq(s), NEW n \in Nat, Len(s) = n + 1
  PROVE  /\ IsSeq(RemoveAt(s, 1)) /\ Len(RemoveAt(s, 1)) = n
         /\ \A i \in 1..n : RemoveAt(s, 1)[i] = s[i + 1]
<1> DEFINE a == SubSeq(s, 1, 0)
           b == SubSeq(s, 2, Len(s))
           t == a \o b
<1>1. s \in Seq(ToSet(s))
  BY DEF IsSeq
<1>2. RemoveAt(s, 1) = t
  BY DEF RemoveAt
<1>3. a \in Seq(ToSet(s)) /\ Len(a) = 0
  BY <1>1
<1>4. b \in Seq(ToSet(s)) /\ Len(b) = n /\ \A i \in 1..n : b[i] = s[i + 1]
  BY <1>1
<1> HIDE DEF a, b
<1>5. t \in Seq(ToSet(s)) /\ Len(t) = Len(a) + Len(b) /\ \A i \in 1..Len(b) : t[Len(a) + i] = b[i]
  BY <1>3, <1>4
<1>6. Len(t) = n /\ \A i \in 1..n : t[i] = s[i + 1]
  <2> HIDE DEF t
  <2>1. \A i \in 1..n : Len(a) + i = i
    BY <1>3
  <2>2. \A i \in 1..n : t[Len(a) + i] = b[i]
    BY <1>4, <1>5
  <2>3. \A i \in 1..n : t[i] = b[i]
    BY <2>1, <2>2
  <2>4. QED BY <1>3, <1>4, <1>5, <2>3
<1>7. IsSeq(t)
  <2> HIDE DEF t
  <2>1. DOMAIN t = 1..n /\ t = [i \in 1..n |-> t[i]]
    BY <1>5, <1>6
  <2>2. \A i \in 1..n : t[i] \in ToSet(t)
    BY <2>1 DEF ToSet
  <2>3. t \in [1..n -> ToSet(t)]
    BY <2>1, <2>2
  <2>4. QED BY <2>3 DEF IsSeq
<1> HIDE DEF t
<1>8. QED BY <1>2, <1>6, <1>7

\* A receive takes the first message of a link, of whatever tag: every message is
\* received in its turn.
LEMMA Pop ==
  ASSUME NEW r, NEW q, NEW tag, NEW m, NEW took \in Nat, NEW sent \in Nat,
         Carries(chan[q][r], m, took, sent), chan[q][r] # <<>>,
         m[took + 1].tag = tag
  PROVE  /\ took + 1 <= sent
         /\ FirstMatch(r, q, tag) = 1
         /\ Received(r, q, tag) = m[took + 1].data
         /\ Carries(RemoveAt(chan[q][r], FirstMatch(r, q, tag)), m, took + 1, sent)
<1> DEFINE s == chan[q][r]
<1>1. s \in Seq(ToSet(s)) /\ Len(s) = sent - took /\ took <= sent
      /\ \A i \in 1..(sent - took) : s[i] = m[took + i]
  BY DEF Carries, IsSeq
<1>2. Len(s) # 0
  BY <1>1
<1>3. PICK n \in Nat : sent - took = n + 1
  <2>1. sent - took - 1 \in Nat /\ sent - took = (sent - took - 1) + 1
    BY <1>1, <1>2
  <2>2. QED BY <2>1
<1>4. DOMAIN s = 1..(n + 1) /\ s[1] = m[took + 1]
  BY <1>1, <1>3
<1>5. FirstMatch(r, q, tag) = 1
  <2> DEFINE T == {i \in DOMAIN s : Matches(s[i], tag)}
  <2>1. T \in SUBSET Nat /\ 1 \in T /\ \A i \in T : 1 <= i
    BY <1>4 DEF Matches
  <2>2. FirstMatch(r, q, tag) = LeastOf(T)
    BY DEF FirstMatch
  <2> HIDE DEF T
  <2>3. LeastOf(T) \in T /\ LeastOf(T) <= 1
    BY <2>1, LeastOfFacts
  <2>4. LeastOf(T) \in Nat /\ 1 <= LeastOf(T)
    BY <2>1, <2>3
  <2>5. LeastOf(T) = 1
    BY <2>3, <2>4
  <2>6. QED BY <2>2, <2>5
<1>6. Received(r, q, tag) = m[took + 1].data
  BY <1>4, <1>5 DEF Received
<1> HIDE DEF s
<1> DEFINE t == RemoveAt(s, 1)
<1>7. IsSeq(t) /\ Len(t) = n /\ \A i \in 1..n : t[i] = s[i + 1]
  <2>1. IsSeq(s) /\ Len(s) = n + 1
    BY <1>1, <1>3 DEF IsSeq
  <2> HIDE DEF t
  <2>2. QED BY <2>1, WithoutFirst DEF t
<1> HIDE DEF t
<1>8. sent - (took + 1) = n /\ took + 1 <= sent
  BY <1>3
<1>9. ASSUME NEW i \in 1..n PROVE t[i] = m[took + 1 + i]
  <2>1. i + 1 \in 1..(sent - took) /\ took + (i + 1) = took + 1 + i
    BY <1>3
  <2>2. s[i + 1] = m[took + (i + 1)]
    BY <1>1, <2>1
  <2>3. QED BY <1>7, <2>1, <2>2
<1>10. Carries(t, m, took + 1, sent)
  BY <1>7, <1>8, <1>9 DEF Carries
<1>11. QED BY <1>5, <1>6, <1>8, <1>10 DEF s, t
-----------------------------------------------------------------------------
(***************************************************************************)
(* Phases.                                                                 *)
(***************************************************************************)
LEMMA PhaseNumbers ==
  /\ \A c \in DOMAIN Phases : PhaseNumber(c) \in 1..16
  /\ PhaseNumber("search") = 1 /\ PhaseNumber("consensus") = 2 /\ PhaseNumber("reduce") = 3
  /\ PhaseNumber("numbers") = 4 /\ PhaseNumber("ids") = 5 /\ PhaseNumber("coords") = 6
  /\ PhaseNumber("found") = 7 /\ PhaseNumber("gather") = 8 /\ PhaseNumber("ask") = 9
  /\ PhaseNumber("counts") = 10 /\ PhaseNumber("indices") = 11 /\ PhaseNumber("built") = 12
  /\ PhaseNumber("checked") = 13 /\ PhaseNumber("agree") = 14 /\ PhaseNumber("work") = 15
  /\ PhaseNumber("insert") = 16
BY DEF Phases, PhaseNumber

LEMMA PhaseNames ==
  DOMAIN Phases = {"search", "consensus", "reduce", "numbers", "ids", "coords", "found",
                   "gather", "ask", "counts", "indices", "built", "checked", "agree",
                   "work", "insert"}
BY DEF Phases

LEMMA NumIsNumber ==
  ASSUME pc \in [Ranks -> DOMAIN Phases], NEW r \in Ranks PROVE Num(r) \in 1..16
BY PhaseNumbers DEF Num

\* A rank goes on to a phase.
LEMMA Moves ==
  ASSUME pc \in [Ranks -> DOMAIN Phases], NEW r \in Ranks, NEW c \in DOMAIN Phases,
         pc' = [pc EXCEPT ![r] = c]
  PROVE  /\ pc' \in [Ranks -> DOMAIN Phases] /\ Num(r)' = PhaseNumber(c)
         /\ \A q \in Ranks : Num(q)' = IF q = r THEN PhaseNumber(c) ELSE Num(q)
BY DEF Num

\* The next phase but one begins when the collective operation in it does.
LEMMA SyncKept ==
  ASSUME Types, Sync, NEW r \in Ranks, NEW n \in 1..16,
         \A q \in Ranks : Num(q)' = IF q = r THEN n ELSE Num(q),
         n = Num(r) + 1 \/ (Num(r) = 16 /\ n = 15),
         Num(r) \in Gates => \A q \in Ranks : Num(q) >= Num(r)
  PROVE  Sync'
<1> SUFFICES ASSUME NEW p \in Ranks, NEW q \in Ranks, NEW k \in Gates, Num(p)' > k
             PROVE  Num(q)' >= k
  BY DEF Sync
<1>1. /\ Num(p) \in 1..16 /\ Num(q) \in 1..16 /\ Num(r) \in 1..16
      /\ k \in {2, 3, 7, 8, 9, 14}
  BY NumIsNumber DEF Types, Gates
<1>2. Num(q) >= k
  <2>1. CASE Num(p) > k
    BY <2>1 DEF Sync
  <2>2. CASE ~(Num(p) > k)
    <3>1. p = r /\ n > k /\ Num(r) <= k
      BY <1>1, <2>2
    <3>2. Num(r) = k
      BY <1>1, <3>1
    <3>3. QED BY <3>2
  <2>3. QED BY <2>1, <2>2
<1>3. QED
  <2>1. CASE q # r
    BY <1>2, <2>1
  <2>2. CASE q = r
    BY <1>1, <1>2, <2>2
  <2>3. QED BY <2>1, <2>2

LEMMA Together ==
  ASSUME Types, NEW c \in DOMAIN Phases, AllIn(c), NEW q \in Ranks
  PROVE  Num(q) >= PhaseNumber(c)
BY DEF AllIn, Num
-----------------------------------------------------------------------------
(***************************************************************************)
(* Initial states.                                                         *)
(***************************************************************************)
LEMMA RanksFinite == IsFiniteSet(Ranks) /\ Ranks \subseteq Nat
<1>1. 0 \in Int /\ NumRanks - 1 \in Int
  BY ConstantsOK
<1>2. QED BY <1>1, FS_Interval, ConstantsOK DEF Ranks

LEMMA PointsFinite ==
  ASSUME numPoints \in [Ranks -> Nat]
  PROVE  NumPoints \in Nat /\ IsFiniteSet(Points) /\ Points \subseteq Nat
<1>1. IsFiniteSet(DOMAIN numPoints) /\ \A x \in DOMAIN numPoints : numPoints[x] \in Nat
  BY RanksFinite
<1>2. NumPoints = SumOf(numPoints, DOMAIN numPoints)
  BY SumsAreFolds DEF NumPoints, SumFunction
<1>3. NumPoints \in Nat
  BY <1>1, <1>2, SumUnfolds
<1>4. 0 \in Int /\ NumPoints - 1 \in Int
  BY <1>3
<1>5. QED BY <1>3, <1>4, FS_Interval DEF Points

LEMMA RangesTyped ==
  ASSUME NEW counts \in [Ranks -> Nat]
  PROVE  RangesOf(counts) \in [Ranks -> Nat \X Nat]
<1>1. ASSUME NEW r \in Ranks
      PROVE  SumFunctionOnSet(counts, 0..(r - 1)) \in Nat
  <2>1. r \in Nat /\ r <= NumRanks - 1 /\ NumRanks \in Nat
    BY ConstantsOK DEF Ranks
  <2>2. 0..(r - 1) \subseteq Ranks
    BY <2>1 DEF Ranks
  <2>3. IsFiniteSet(0..(r - 1))
    BY <2>2, RanksFinite, FS_Subset
  <2>4. \A x \in 0..(r - 1) : counts[x] \in Nat
    BY <2>2
  <2>5. SumOf(counts, 0..(r - 1)) \in Nat
    BY <2>3, <2>4, SumUnfolds
  <2>6. SumFunctionOnSet(counts, 0..(r - 1)) = SumOf(counts, 0..(r - 1))
    BY SumsAreFolds
  <2>7. QED BY <2>5, <2>6
<1>2. ASSUME NEW r \in Ranks
      PROVE  /\ SumFunctionOnSet(counts, 0..(r - 1)) \in Nat
             /\ SumFunctionOnSet(counts, 0..(r - 1)) + counts[r] \in Nat
  BY <1>1
<1>3. QED BY <1>2 DEF RangesOf

LEMMA InitRunning ==
  ASSUME Init PROVE PatternInv
<1>1. \A r \in Ranks : pc[r] = "search" /\ Num(r) = 1
  BY PhaseNumbers DEF Init, Num
<1>2. Types
  <2>1. owned \in [Ranks -> Nat \X Nat]
    BY RangesTyped DEF Init
  <2>2. pc \in [Ranks -> DOMAIN Phases]
    BY PhaseNames DEF Init
  <2>3. ghosts \in [Ranks -> Seq(Nat)]
    BY DEF Init
  <2>4. OnRanks(sendTo) /\ OnRanks(heard) /\ OnRanks(found) /\ OnRanks(values)
    BY DEF Init, OnRanks
  <2>5. OnRanks(ghostRange) /\ OnRanks(numFor) /\ OnRanks(ownedFor)
    BY DEF Init, OnRanks, NoPattern
  <2>6. OnRanks(chan) /\ \A p \in Ranks : OnRanks(chan[p])
    BY DEF Init, OnRanks, NoMessages
  <2>7. \A r \in Ranks : calls[r] = 0 /\ Num(r) <= 12 /\ ~(Num(r) > 12)
    BY <1>1 DEF Init
  <2>8. calls \in [Ranks -> Nat] /\ numPoints \in [Ranks -> Nat]
    BY DEF Init
  <2>9. QED BY <2>1, <2>2, <2>3, <2>4, <2>5, <2>6, <2>7, <2>8 DEF Types
<1>3. Sync
  BY <1>1 DEF Sync, Gates
<1>4. Lists
  BY <1>1 DEF Lists, Init
<1>5. Links
  <2>1. Mapping
    <3>1. 0 \in Ranks
      BY ConstantsOK DEF Ranks
    <3>2. QED BY <1>1, <3>1 DEF Mapping
  <2>2. \A p, q \in Ranks : sendTo[p] = EmptyMap /\ chan[p][q] = <<>>
    BY DEF Init, NoMessages
  <2>3. \A p, q \in Ranks : q \notin DOMAIN sendTo[p]
    BY <2>2 DEF EmptyMap
  <2>4. QED BY <2>1, <2>2, <2>3 DEF Links, MapLink
<1>6. GhostSide /\ TargetSide
  BY <1>1 DEF GhostSide, TargetSide
<1>7. PatternsPair
  BY <1>1 DEF PatternsPair, Built, Num, PhaseNumber, Phases
<1>8. QED BY <1>2, <1>3, <1>4, <1>5, <1>6, <1>7 DEF PatternInv, Running
-----------------------------------------------------------------------------
(***************************************************************************)
(* Sending and receiving, link by link.                                    *)
(***************************************************************************)
SendIndexed(c, r, what) == Send(c, r, what, LAMBDA q : PatternTag)
SendValued(c, r, what) == Send(c, r, what, LAMBDA q : GatherTag)
SendNumbered(c, r, what) == Send(c, r, what, LAMBDA q : q)

ChanOK(c) == OnRanks(c) /\ \A p \in Ranks : OnRanks(c[p])

LEMMA SendFacts ==
  ASSUME NEW c, ChanOK(c), NEW r \in Ranks, NEW what
  PROVE  LET d == SendIndexed(c, r, what)
         IN  /\ ChanOK(d)
             /\ \A p, q \in Ranks :
                  d[p][q] = IF p = r /\ q \in DOMAIN what
                              THEN Append(c[p][q], Message(PatternTag, what[q])) ELSE c[p][q]
BY DEF Send, SendIndexed, SendValued, SendNumbered, ChanOK, OnRanks, Message

LEMMA SendValuesFacts ==
  ASSUME NEW c, ChanOK(c), NEW r \in Ranks, NEW what
  PROVE  LET d == SendValued(c, r, what)
         IN  /\ ChanOK(d)
             /\ \A p, q \in Ranks :
                  d[p][q] = IF p = r /\ q \in DOMAIN what
                              THEN Append(c[p][q], Message(GatherTag, what[q])) ELSE c[p][q]
BY DEF Send, SendIndexed, SendValued, SendNumbered, ChanOK, OnRanks, Message

LEMMA SendNumberedFacts ==
  ASSUME NEW c, ChanOK(c), NEW r \in Ranks, NEW what
  PROVE  LET d == SendNumbered(c, r, what)
         IN  /\ ChanOK(d)
             /\ \A p, q \in Ranks :
                  d[p][q] = IF p = r /\ q \in DOMAIN what
                              THEN Append(c[p][q], Message(q, what[q])) ELSE c[p][q]
BY DEF Send, SendIndexed, SendValued, SendNumbered, ChanOK, OnRanks, Message

LEMMA TakenFacts ==
  ASSUME ChanOK(chan), NEW r \in Ranks, NEW froms, NEW t
  PROVE  /\ ChanOK(Taken(r, froms, t))
         /\ \A p, q \in Ranks :
              Taken(r, froms, t)[p][q] =
                IF p \in froms /\ q = r THEN RemoveAt(chan[p][r], FirstMatch(r, p, t))
                                        ELSE chan[p][q]
BY DEF Taken, ChanOK, OnRanks

LEMMA ArrivedFacts ==
  ASSUME NEW r \in Ranks, NEW froms, NEW t, Arrived(r, froms, t), NEW q \in froms
  PROVE  chan[q][r] # <<>>
BY DEF Arrived

LEMMA MessageFacts ==
  ASSUME NEW t, NEW x PROVE Message(t, x).tag = t /\ Message(t, x).data = x
BY DEF Message

LEMMA MapMessagesFacts ==
  ASSUME NEW p, NEW q, NEW k
  PROVE  /\ k = 1 => MapMessages(p, q)[k] = Message(q, <<Len(sendTo[p][q])>>)
         /\ k = 2 \/ k = 3 => MapMessages(p, q)[k] = Message(PatternTag, sendTo[p][q])
BY DEF MapMessages

LEMMA MapMessagesParts ==
  ASSUME NEW p, NEW q, NEW k
  PROVE  /\ k = 1 => MapMessages(p, q)[k].tag = q
         /\ k = 2 \/ k = 3 => /\ MapMessages(p, q)[k].tag = PatternTag
                             /\ MapMessages(p, q)[k].data = sendTo[p][q]
BY DEF MapMessages, Message

LEMMA PatternMessagesFacts ==
  ASSUME NEW p, NEW q, NEW k
  PROVE  /\ k = 1 => PatternMessages(p, q)[k] = Message(PatternTag, <<Size(ghostRange[p][q])>>)
         /\ k = 2 => PatternMessages(p, q)[k] = Message(PatternTag, LocalAt(p, q))
BY DEF PatternMessages

LEMMA PatternValuesFacts ==
  ASSUME NEW p, NEW q, NEW k \in Nat, NEW n \in Nat, k = n + 2, n > 0
  PROVE  /\ PatternMessages(p, q)[k] = Message(GatherTag, GhostValues(p, q, Computed(p, n)))
         /\ PatternMessages(p, q)[k].tag = GatherTag
<1>1. k \in Nat \ {0} /\ k # 1 /\ k # 2 /\ k - 2 = n
  OBVIOUS
<1>2. PatternMessages(p, q)[k] = Message(GatherTag, GhostValues(p, q, Computed(p, k - 2)))
  BY <1>1 DEF PatternMessages
<1>3. QED BY <1>1, <1>2, MessageFacts

LEMMA PatternMessagesParts ==
  ASSUME NEW p, NEW q, NEW k
  PROVE  /\ k = 1 \/ k = 2 => PatternMessages(p, q)[k].tag = PatternTag
         /\ k = 1 => PatternMessages(p, q)[k].data = <<Size(ghostRange[p][q])>>
         /\ k = 2 => PatternMessages(p, q)[k].data = LocalAt(p, q)
<1>1. CASE k = 1
  <2> DEFINE x == <<Size(ghostRange[p][q])>>
  <2>1. PatternMessages(p, q)[k] = Message(PatternTag, x)
    BY <1>1, PatternMessagesFacts
  <2> HIDE DEF x
  <2>2. PatternMessages(p, q)[k].tag = PatternTag /\ PatternMessages(p, q)[k].data = x
    BY <2>1, MessageFacts
  <2>3. QED BY <1>1, <2>2 DEF x
<1>2. CASE k = 2
  <2>1. PatternMessages(p, q)[k] = Message(PatternTag, LocalAt(p, q))
    BY <1>2, PatternMessagesFacts
  <2>2. /\ PatternMessages(p, q)[k].tag = PatternTag
        /\ PatternMessages(p, q)[k].data = LocalAt(p, q)
    BY <2>1, MessageFacts
  <2>3. QED BY <1>2, <2>2
<1>3. QED BY <1>1, <1>2
-----------------------------------------------------------------------------
(***************************************************************************)
(* The map's steps.                                                        *)
(***************************************************************************)
\* What Running leaves to show of a step that changes no pattern.
LEMMA MapBasics ==
  ASSUME Running, NEW r \in Ranks, Num(r) < 9
  PROVE  /\ Mapping /\ ChanOK(chan)
         /\ \A p \in Ranks : Num(p) \in 1..16 /\ Num(p) <= 9
         /\ \A p, q \in Ranks : MapLink(p, q)
         /\ \A p \in Ranks : p \in Nat
<1>1. Mapping /\ ChanOK(chan)
  BY DEF Mapping, Running, Types, ChanOK
<1>2. ASSUME NEW p \in Ranks PROVE Num(p) \in 1..16 /\ Num(p) <= 9
  <2>1. Num(p) \in 1..16 /\ Num(r) \in 1..16
    BY NumIsNumber DEF Running, Types
  <2>2. Num(p) > 9 => Num(r) >= 9
    BY DEF Running, Sync, Gates
  <2>3. QED BY <2>1, <2>2
<1>3. QED BY <1>1, <1>2, RanksFinite DEF Running, Links

\* A receive of the map takes the message that is due on every link.
LEMMA MapTakes ==
  ASSUME Running, NEW r \in Ranks, Num(r) \in {4, 5, 6}, NEW t, NEW n \in Nat, n = Num(r) - 3,
         \A q \in Ranks : MapMessages(q, r)[n].tag = t,
         Arrived(r, DOMAIN heard[r], t)
  PROVE  LET c == Taken(r, DOMAIN heard[r], t) IN
         /\ ChanOK(c)
         /\ \A p, q \in Ranks :
              IF q = r /\ q \in DOMAIN sendTo[p]
                THEN /\ Carries(c[p][q], MapMessages(p, q), n, MapSent(Num(p)))
                     /\ Received(r, p, t) = MapMessages(p, q)[n].data
                     /\ n <= MapSent(Num(p))
                ELSE c[p][q] = chan[p][q]
<1> DEFINE froms == DOMAIN heard[r]
           c == Taken(r, froms, t)
<1>1. froms = Requesters(r, sendTo)
  BY DEF Running, Lists
<1>2. ChanOK(chan) /\ \A p, q \in Ranks : MapLink(p, q)
  BY MapBasics
<1>3. ChanOK(c) /\ \A p, q \in Ranks :
        c[p][q] = IF p \in froms /\ q = r THEN RemoveAt(chan[p][r], FirstMatch(r, p, t))
                                          ELSE chan[p][q]
  BY <1>2, TakenFacts
<1>4. ASSUME NEW p \in Ranks, r \in DOMAIN sendTo[p]
      PROVE  /\ Carries(c[p][r], MapMessages(p, r), n, MapSent(Num(p)))
             /\ Received(r, p, t) = MapMessages(p, r)[n].data
             /\ n <= MapSent(Num(p))
  <2>1. p \in froms
    BY <1>1, <1>4 DEF Requesters
  <2>2. PICK k \in Nat : k + 1 = n /\ MapTook(Num(r)) = k
    <3>1. n - 1 \in Nat /\ (n - 1) + 1 = n /\ MapTook(Num(r)) = n - 1
      BY DEF MapTook
    <3>2. QED BY <3>1
  <2>3. PICK s \in Nat : MapSent(Num(p)) = s
    <3>1. Num(p) \in 1..16
      BY MapBasics
    <3>2. MapSent(Num(p)) \in Nat
      BY <3>1 DEF MapSent
    <3>3. QED BY <3>2
  <2>4. Carries(chan[p][r], MapMessages(p, r), k, s)
    BY <1>2, <1>4, <2>2, <2>3 DEF MapLink
  <2>5. chan[p][r] # <<>>
    BY <2>1, ArrivedFacts
  <2>6. MapMessages(p, r)[k + 1].tag = t
    BY <2>2
  <2> DEFINE m == MapMessages(p, r)
  <2> HIDE DEF m
  <2>7. /\ k + 1 <= s
        /\ Received(r, p, t) = m[k + 1].data
        /\ Carries(RemoveAt(chan[p][r], FirstMatch(r, p, t)), m, k + 1, s)
    BY <2>4, <2>5, <2>6, Pop DEF m
  <2>8. c[p][r] = RemoveAt(chan[p][r], FirstMatch(r, p, t))
    BY <1>3, <2>1
  <2>9. QED BY <2>2, <2>3, <2>7, <2>8 DEF m
<1>5. ASSUME NEW p \in Ranks, NEW q \in Ranks, ~(q = r /\ q \in DOMAIN sendTo[p])
      PROVE  c[p][q] = chan[p][q]
  <2>1. ~(p \in froms /\ q = r)
    BY <1>1, <1>5 DEF Requesters
  <2>2. QED BY <1>3, <2>1
<1> HIDE DEF c
<1>6. QED BY <1>3, <1>4, <1>5 DEF c

\* The step of a rank from phase n to the next leaves the links as they should be
\* when it has received what it should (c) and sent what it should.
LEMMA MapLinksKept ==
  ASSUME Running, NEW r \in Ranks, Num(r) < 9,
         \A q \in Ranks : Num(q)' = IF q = r THEN Num(r) + 1 ELSE Num(q),
         sendTo' = sendTo,
         NEW c, NEW k, k = Num(r) - 2,
         \A p, q \in Ranks :
           IF q = r /\ q \in DOMAIN sendTo[p]
             THEN Carries(c[p][q], MapMessages(p, q), MapTook(Num(r) + 1), MapSent(Num(p)))
             ELSE c[p][q] = chan[p][q],
         \A p, q \in Ranks :
           chan'[p][q] = IF p = r /\ q \in DOMAIN sendTo[r] /\ Num(r) \in {3, 4, 5}
                           THEN Append(c[p][q], MapMessages(p, q)[k]) ELSE c[p][q]
  PROVE  \A p, q \in Ranks : MapLink(p, q)'
<1> SUFFICES ASSUME NEW p \in Ranks, NEW q \in Ranks PROVE MapLink(p, q)'
  OBVIOUS
<1> DEFINE m == MapMessages(p, q)
           took == IF q = r THEN MapTook(Num(r) + 1) ELSE MapTook(Num(q))
           sent == MapSent(Num(p))
<1>1. Num(r) \in 1..8 /\ Num(p) \in 1..16 /\ Num(q) \in 1..16
  BY MapBasics
<1>2. MapTook(Num(q))' = took
  BY DEF MapTook
<1>3. m' = m
  BY DEF MapMessages
<1>4. took \in Nat /\ sent \in Nat
  BY <1>1 DEF MapTook, MapSent
<1>5. MapLink(p, q)
  BY MapBasics
<1>6. CASE q \notin DOMAIN sendTo[p]
  <2>1. chan[p][q] = <<>>
    BY <1>5, <1>6 DEF MapLink
  <2>2. c[p][q] = chan[p][q]
    BY <1>6
  <2>3. chan'[p][q] = <<>>
    BY <1>6, <2>1, <2>2
  <2>4. QED BY <1>6, <2>3 DEF MapLink
<1>7. CASE q \in DOMAIN sendTo[p]
  <2>1. Carries(c[p][q], m, took, sent)
    <3>1. CASE q = r
      BY <1>7, <3>1
    <3>2. CASE q # r
      <4>1. c[p][q] = chan[p][q]
        BY <3>2
      <4>2. Carries(chan[p][q], m, MapTook(Num(q)), sent)
        BY <1>5, <1>7 DEF MapLink
      <4>3. QED BY <3>2, <4>1, <4>2
    <3>3. QED BY <3>1, <3>2
  <2>2. CASE p = r /\ Num(r) \in {3, 4, 5}
    <3>1. sent + 1 = Num(r) - 2 /\ MapSent(Num(p))' = sent + 1
      BY <2>2 DEF MapSent
    <3>2. chan'[p][q] = Append(c[p][q], m[sent + 1])
      <4>1. chan'[p][q] = Append(c[p][q], m[k])
        BY <1>7, <2>2
      <4>2. sent + 1 = k
        BY <3>1
      <4> HIDE DEF m, sent
      <4>3. QED BY <4>1, <4>2
    <3> HIDE DEF m, took, sent
    <3>3. Carries(Append(c[p][q], m[sent + 1]), m, took, sent + 1)
      BY <1>4, <2>1, Push
    <3>4. Carries(chan'[p][q], m', MapTook(Num(q))', MapSent(Num(p))')
      BY <1>2, <1>3, <3>1, <3>2, <3>3
    <3>5. QED BY <1>7, <3>4 DEF MapLink, m
  <2>3. CASE ~(p = r /\ Num(r) \in {3, 4, 5})
    <3>1. MapSent(Num(p))' = sent
      <4>1. CASE p # r
        BY <4>1 DEF MapSent
      <4>2. CASE p = r
        <5>1. Num(r) \in {1, 2, 6, 7, 8} /\ Num(p)' = Num(r) + 1
          BY <1>1, <2>3, <4>2
        <5>2. MapSent(Num(r) + 1) = MapSent(Num(r))
          BY <5>1 DEF MapSent
        <5>3. QED BY <4>2, <5>1, <5>2 DEF MapSent
      <4>3. QED BY <4>1, <4>2
    <3>2. chan'[p][q] = c[p][q]
      BY <2>3
    <3> HIDE DEF m, took, sent
    <3>3. Carries(chan'[p][q], m', MapTook(Num(q))', MapSent(Num(p))')
      BY <1>2, <1>3, <2>1, <3>1, <3>2
    <3>4. QED BY <1>7, <3>3 DEF MapLink, m
  <2>4. QED BY <2>2, <2>3
<1>8. QED BY <1>6, <1>7

\* No rank is past the gather of the ranges, but for those that have their ghosts' owners.
LEMMA MapRest ==
  ASSUME Running, NEW r \in Ranks, Num(r) < 8,
         \A q \in Ranks : Num(q)' = IF q = r THEN Num(r) + 1 ELSE Num(q),
         \A q \in Ranks : q # r => ghosts'[q] = ghosts[q],
         UNCHANGED <<pattern, owned>>
  PROVE  GhostSide' /\ TargetSide' /\ Mapping'
<1>1. \A q \in Ranks : Num(q) \in 1..16 /\ Num(q) <= 9
  <2>1. Num(r) \in 1..16
    BY NumIsNumber DEF Running, Types
  <2>2. Num(r) < 9
    BY <2>1
  <2>3. QED BY <2>2, MapBasics
<1>2. Num(r)' < 9
  BY <1>1
<1>3. Mapping'
  BY <1>2 DEF Mapping
<1>4. ghostRange' = ghostRange
  BY DEF pattern
<1>5. GhostSide'
  <2>1. ASSUME NEW q \in Ranks, Num(q)' >= 9 PROVE Placed(q)'
    <3>1. q # r /\ Num(q) >= 9
      BY <1>1, <2>1
    <3>2. Placed(q) /\ ghosts'[q] = ghosts[q]
      BY <3>1 DEF Running, GhostSide
    <3>3. QED BY <1>4, <3>2 DEF Placed
  <2>2. \A q \in Ranks : ~(Num(q)' >= 11)
    BY <1>1
  <2>3. QED BY <2>1, <2>2 DEF GhostSide
<1>6. TargetSide'
  <2>1. \A q \in Ranks : ~(Num(q)' >= 10)
    BY <1>1
  <2>2. \A q \in Ranks : ~(Num(q)' >= 12)
    BY <1>1
  <2>3. QED BY <2>1, <2>2 DEF TargetSide
<1>7. QED BY <1>3, <1>5, <1>6

LEMMA MovesOn ==
  ASSUME Types, NEW r \in Ranks, NEW c \in DOMAIN Phases, Goes(r, c),
         PhaseNumber(c) = Num(r) + 1
  PROVE  /\ pc' \in [Ranks -> DOMAIN Phases]
         /\ \A q \in Ranks : Num(q)' = IF q = r THEN Num(r) + 1 ELSE Num(q)
<1>1. pc \in [Ranks -> DOMAIN Phases] /\ pc' = [pc EXCEPT ![r] = c]
  BY DEF Types, Goes
<1>2. QED BY <1>1, Moves

\* The types after a step of the map, and the collective operations.
LEMMA MapTypesKept ==
  ASSUME Running, NEW r \in Ranks, Num(r) \in 1..8,
         pc' \in [Ranks -> DOMAIN Phases],
         \A q \in Ranks : Num(q)' = IF q = r THEN Num(r) + 1 ELSE Num(q),
         Num(r) \in Gates => \A q \in Ranks : Num(q) >= Num(r),
         UNCHANGED <<owned, numPoints, values, calls>>,
         ghosts' \in [Ranks -> Seq(Nat)],
         OnRanks(sendTo)', OnRanks(heard)', OnRanks(found)', OnRanks(ghostRange)',
         OnRanks(numFor)', OnRanks(ownedFor)', ChanOK(chan')
  PROVE  Types' /\ Sync'
<1>1. OnRanks(values)'
  BY DEF Running, Types, OnRanks
<1>2. /\ calls' \in [Ranks -> Nat] /\ owned' \in [Ranks -> Nat \X Nat]
      /\ numPoints' \in [Ranks -> Nat]
  BY DEF Running, Types
<1>3. ASSUME NEW q \in Ranks
      PROVE  (Num(q)' <= 12 => calls'[q] = 0) /\ (Num(q)' > 12 => calls'[q] > 0)
  <2>1. (Num(q) <= 12 => calls[q] = 0) /\ (Num(q) > 12 => calls[q] > 0)
    BY DEF Running, Types
  <2>2. CASE q = r
    <3>1. Num(q) <= 12 /\ Num(q)' <= 12 /\ ~(Num(q)' > 12)
      BY <2>2
    <3>2. QED BY <2>1, <3>1
  <2>3. CASE q # r
    BY <2>1, <2>3
  <2>4. QED BY <2>2, <2>3
<1>4. OnRanks(chan)' /\ \A p \in Ranks : OnRanks(chan[p])'
  BY DEF ChanOK, OnRanks
<1>5. Types'
  BY <1>1, <1>2, <1>3, <1>4 DEF Types
<1>6. Sync'
  <2>1. Num(r) + 1 \in 1..16
    OBVIOUS
  <2>2. QED BY <2>1, SyncKept DEF Running
<1>7. QED BY <1>5, <1>6

LEMMA SearchRuns ==
  ASSUME Running, NEW r \in Ranks, Search(r) PROVE Running'
<1>1. /\ Num(r) = 1 /\ pc' = [pc EXCEPT ![r] = "consensus"] /\ chan' = chan
      /\ \A q \in Ranks : q # r => sendTo'[q] = sendTo[q] /\ found'[q] = found[q]
      /\ sendTo'[r] = [q \in {x \in Ranks \ {r} : SentTo(r, x) # <<>>} |-> SentTo(r, q)]
      /\ OnRanks(sendTo') /\ OnRanks(found')
      /\ UNCHANGED <<owned, ghosts, threw, pattern>>
      /\ UNCHANGED <<numPoints, inside, boxed, heard, values, calls>>
  BY PhaseNumbers DEF Search, At, Goes, Num, OnRanks, Running, Types
<1>2. /\ pc' \in [Ranks -> DOMAIN Phases]
      /\ \A q \in Ranks : Num(q)' = IF q = r THEN Num(r) + 1 ELSE Num(q)
  <2>1. "consensus" \in DOMAIN Phases /\ PhaseNumber("consensus") = Num(r) + 1
    BY <1>1, PhaseNames, PhaseNumbers
  <2>2. Goes(r, "consensus")
    BY <1>1 DEF Goes
  <2>3. QED BY <2>1, <2>2, MovesOn DEF Running
<1>3. \A q \in Ranks : Num(q) \in {1, 2}
  <2>1. \A q \in Ranks : Num(q) \in 1..16
    BY NumIsNumber DEF Running, Types
  <2>2. \A q \in Ranks : Num(q) > 2 => Num(r) >= 2
    BY DEF Running, Sync, Gates
  <2>3. QED BY <1>1, <2>1, <2>2
<1>4. ghosts' \in [Ranks -> Seq(Nat)] /\ ChanOK(chan') /\ OnRanks(heard)'
      /\ OnRanks(ghostRange)' /\ OnRanks(numFor)' /\ OnRanks(ownedFor)'
  BY <1>1 DEF Running, Types, pattern, OnRanks, ChanOK
<1>5. Types' /\ Sync'
  <2>1. Num(r) \in 1..8 /\ Num(r) \notin Gates
    BY <1>1 DEF Gates
  <2>2. OnRanks(sendTo)' /\ OnRanks(found)'
    BY <1>1 DEF OnRanks
  <2>3. QED BY <1>1, <1>2, <1>4, <2>1, <2>2, MapTypesKept
<1>6. Lists'
  <2>1. \A p \in Ranks : Asked(p)' = Asked(p)
    BY <1>1 DEF Asked, SentTo, Lost, Mine, Points, NumPoints
  <2>2. sendTo'[r] = Asked(r)
    BY <1>1 DEF Asked
  <2>3. \A q \in Ranks : Num(q)' \in {1, 2} /\ (Num(q)' = 1 <=> (q # r /\ Num(q) = 1))
    BY <1>1, <1>2, <1>3
  <2>4. \A q \in Ranks : (Num(q) = 1 => sendTo[q] = EmptyMap) /\ (Num(q) > 1 => sendTo[q] = Asked(q))
    BY DEF Running, Lists
  <2>5. ASSUME NEW q \in Ranks
        PROVE  /\ Num(q)' = 1 => sendTo'[q] = EmptyMap
               /\ Num(q)' > 1 => sendTo'[q] = Asked(q)
               /\ ~(Num(q)' >= 3) /\ ~(Num(q)' >= 6)
    <3>1. CASE q = r
      BY <1>1, <1>2, <2>2, <3>1
    <3>2. CASE q # r
      BY <1>1, <1>2, <1>3, <2>4, <3>2
    <3>3. QED BY <3>1, <3>2
  <2>6. EmptyMap' = EmptyMap
    BY DEF EmptyMap
  <2>7. QED BY <2>1, <2>5, <2>6 DEF Lists
<1>7. GhostSide' /\ TargetSide' /\ Mapping'
  BY <1>1, <1>2, MapRest
<1>8. ASSUME NEW p \in Ranks, NEW q \in Ranks PROVE MapLink(p, q)'
  <2>1. MapTook(Num(q))' = MapTook(Num(q))
    BY <1>1, <1>2, <1>3 DEF MapTook
  <2>2. MapSent(Num(p))' = MapSent(Num(p))
    BY <1>1, <1>2, <1>3 DEF MapSent
  <2>3. MapLink(p, q)
    BY <1>1, MapBasics
  <2>4. CASE p # r
    <3>1. MapMessages(p, q)' = MapMessages(p, q) /\ sendTo'[p] = sendTo[p]
      BY <1>1, <2>4 DEF MapMessages
    <3>2. QED BY <1>1, <2>1, <2>2, <2>3, <3>1 DEF MapLink
  <2>5. CASE p = r
    <3>1. chan[p][q] = <<>>
      <4>1. q \notin DOMAIN sendTo[p]
        BY <1>1, <2>5 DEF Running, Lists, EmptyMap
      <4>2. QED BY <2>3, <4>1 DEF MapLink
    <3>2. MapTook(Num(q))' = 0 /\ MapSent(Num(p))' = 0
      <4>1. MapTook(Num(q)) = 0
        BY <1>3 DEF MapTook
      <4>2. MapSent(Num(p)) = 0
        BY <1>3 DEF MapSent
      <4>3. QED BY <2>1, <2>2, <4>1, <4>2
    <3> DEFINE m == MapMessages(p, q)'
    <3> HIDE DEF m
    <3>3. Carries(<<>>, m, 0, 0)
      BY EmptyCarries
    <3>4. Carries(chan'[p][q], m, MapTook(Num(q))', MapSent(Num(p))')
      BY <1>1, <3>1, <3>2, <3>3
    <3>5. QED BY <1>1, <3>1, <3>4 DEF MapLink, m
  <2>6. QED BY <2>4, <2>5
<1>9. Links'
  BY <1>7, <1>8 DEF Links
<1>10. QED BY <1>5, <1>6, <1>7, <1>9 DEF Running

\* A step that sends and receives nothing.
LEMMA MapQuiet ==
  ASSUME Running, NEW r \in Ranks, Num(r) \in {2, 7, 8},
         \A q \in Ranks : Num(q)' = IF q = r THEN Num(r) + 1 ELSE Num(q),
         sendTo' = sendTo, chan' = chan
  PROVE  \A p, q \in Ranks : MapLink(p, q)'
<1>1. \A p, q \in Ranks : MapLink(p, q)
  BY MapBasics
<1>2. MapTook(Num(r) + 1) = MapTook(Num(r))
  BY DEF MapTook
<1>3. ASSUME NEW p \in Ranks, NEW q \in Ranks, q = r, q \in DOMAIN sendTo[p]
      PROVE  Carries(chan[p][q], MapMessages(p, q), MapTook(Num(r) + 1), MapSent(Num(p)))
  BY <1>1, <1>2, <1>3 DEF MapLink
<1>4. Num(r) < 9 /\ Num(r) \notin {3, 4, 5}
  OBVIOUS
<1> DEFINE c == chan
           k == Num(r) - 2
<1>5. \A p, q \in Ranks :
        IF q = r /\ q \in DOMAIN sendTo[p]
          THEN Carries(c[p][q], MapMessages(p, q), MapTook(Num(r) + 1), MapSent(Num(p)))
          ELSE c[p][q] = chan[p][q]
  BY <1>3
<1>6. \A p, q \in Ranks :
        chan'[p][q] = IF p = r /\ q \in DOMAIN sendTo[r] /\ Num(r) \in {3, 4, 5}
                        THEN Append(c[p][q], MapMessages(p, q)[k]) ELSE c[p][q]
  BY <1>4
<1>7. k = Num(r) - 2
  OBVIOUS
<1> HIDE DEF c, k
<1>8. QED BY <1>4, <1>5, <1>6, <1>7, MapLinksKept

\* What a map's step leaves of the lists and the types.
LEMMA MapListsKept ==
  ASSUME Running, NEW r \in Ranks, Num(r) \in 2..8,
         \A q \in Ranks : Num(q)' = IF q = r THEN Num(r) + 1 ELSE Num(q),
         \A q \in Ranks : q # r => heard'[q] = heard[q],
         UNCHANGED <<owned, numPoints, inside, boxed, sendTo>>,
         Num(r) >= 2 => DOMAIN heard'[r] = Requesters(r, sendTo),
         Num(r) >= 5 => \A q \in DOMAIN heard'[r] : heard'[r][q] = sendTo[q][r]
  PROVE  Lists'
<1>1. \A p \in Ranks : Asked(p)' = Asked(p) /\ Requesters(p, sendTo)' = Requesters(p, sendTo)
  BY DEF Asked, SentTo, Lost, Mine, Points, NumPoints, Requesters
<1>2. EmptyMap' = EmptyMap
  BY DEF EmptyMap
<1>3. \A q \in Ranks : Num(q) \in 1..16
  BY NumIsNumber DEF Running, Types
<1>4. ASSUME NEW q \in Ranks
      PROVE  /\ Num(q)' = 1 => sendTo[q] = EmptyMap
             /\ Num(q)' > 1 => sendTo[q] = Asked(q)
             /\ Num(q)' >= 3 => DOMAIN heard'[q] = Requesters(q, sendTo)
             /\ Num(q)' >= 6 => \A p \in DOMAIN heard'[q] : heard'[q][p] = sendTo[p][q]
  <2>1. CASE q = r
    <3>1. Num(q)' = Num(r) + 1 /\ Num(r) > 1
      BY <2>1
    <3>2. sendTo[q] = Asked(q)
      BY <2>1, <3>1 DEF Running, Lists
    <3>3. Num(q)' # 1 /\ (Num(q)' >= 3 => Num(r) >= 2) /\ (Num(q)' >= 6 => Num(r) >= 5)
      BY <3>1
    <3>4. QED BY <2>1, <3>2, <3>3
  <2>2. CASE q # r
    BY <2>2 DEF Running, Lists
  <2>3. QED BY <2>1, <2>2
<1>5. QED BY <1>1, <1>2, <1>4 DEF Lists

LEMMA LearnSendersRuns ==
  ASSUME Running, NEW r \in Ranks, LearnSenders(r) PROVE Running'
<1>1. /\ Num(r) = 2 /\ Goes(r, "reduce") /\ AllIn("consensus")
      /\ heard' = [heard EXCEPT ![r] = [q \in Requesters(r, sendTo) |-> <<>>]]
      /\ UNCHANGED <<owned, ghosts, threw, pattern, chan>>
      /\ UNCHANGED <<numPoints, inside, boxed, sendTo, found, values, calls>>
  BY PhaseNumbers DEF LearnSenders, At, Num
<1>2. /\ pc' \in [Ranks -> DOMAIN Phases]
      /\ \A q \in Ranks : Num(q)' = IF q = r THEN Num(r) + 1 ELSE Num(q)
  BY <1>1, PhaseNames, PhaseNumbers, MovesOn DEF Running
<1>3. \A q \in Ranks : Num(q) >= Num(r)
  BY <1>1, PhaseNames, PhaseNumbers, Together DEF Running
<1>4. /\ OnRanks(heard)' /\ \A q \in Ranks : q # r => heard'[q] = heard[q]
      /\ heard'[r] = [q \in Requesters(r, sendTo) |-> <<>>]
  BY <1>1 DEF Running, Types, OnRanks
<1>5. Types' /\ Sync'
  <2>1. /\ ghosts' \in [Ranks -> Seq(Nat)] /\ ChanOK(chan') /\ OnRanks(sendTo)' /\ OnRanks(found)'
        /\ OnRanks(ghostRange)' /\ OnRanks(numFor)' /\ OnRanks(ownedFor)'
    BY <1>1 DEF Running, Types, pattern, OnRanks, ChanOK
  <2>2. Num(r) \in 1..8
    BY <1>1
  <2>3. QED BY <1>1, <1>2, <1>3, <1>4, <2>1, <2>2, MapTypesKept
<1>6. Lists'
  <2>1. Num(r) \in 2..8 /\ ~(Num(r) >= 5) /\ DOMAIN heard'[r] = Requesters(r, sendTo)
    BY <1>1, <1>4
  <2>2. QED BY <1>1, <1>2, <1>4, <2>1, MapListsKept
<1>7. GhostSide' /\ TargetSide' /\ Mapping'
  BY <1>1, <1>2, MapRest
<1>8. \A p, q \in Ranks : MapLink(p, q)'
  BY <1>1, <1>2, MapQuiet
<1>9. Links'
  BY <1>7, <1>8 DEF Links
<1>10. QED BY <1>5, <1>6, <1>7, <1>9 DEF Running

LEMMA SendNumbersRuns ==
  ASSUME Running, NEW r \in Ranks, SendNumbers(r) PROVE Running'
<1> DEFINE what == [p \in DOMAIN sendTo[r] |-> <<Len(sendTo[r][p])>>]
<1>1. /\ Num(r) = 3 /\ Goes(r, "numbers") /\ AllIn("reduce")
      /\ chan' = SendNumbered(chan, r, what)
      /\ UNCHANGED <<owned, ghosts, threw, pattern>>
      /\ UNCHANGED <<numPoints, inside, boxed, sendTo, heard, found, values, calls>>
  BY PhaseNumbers DEF SendNumbers, SendNumbered, At, Num, transferVars, mapping
<1>2. /\ pc' \in [Ranks -> DOMAIN Phases]
      /\ \A q \in Ranks : Num(q)' = IF q = r THEN Num(r) + 1 ELSE Num(q)
  BY <1>1, PhaseNames, PhaseNumbers, MovesOn DEF Running
<1>3. \A q \in Ranks : Num(q) >= Num(r)
  BY <1>1, PhaseNames, PhaseNumbers, Together DEF Running
<1>4. /\ ChanOK(chan')
      /\ \A p, q \in Ranks :
           chan'[p][q] = IF p = r /\ q \in DOMAIN what
                           THEN Append(chan[p][q], Message(q, what[q])) ELSE chan[p][q]
  <2>1. ChanOK(chan)
    BY <1>1, MapBasics
  <2> HIDE DEF what
  <2>2. QED BY <1>1, <2>1, SendNumberedFacts
<1>5. Types' /\ Sync'
  <2>1. /\ ghosts' \in [Ranks -> Seq(Nat)] /\ OnRanks(sendTo)' /\ OnRanks(found)' /\ OnRanks(heard)'
        /\ OnRanks(ghostRange)' /\ OnRanks(numFor)' /\ OnRanks(ownedFor)'
    BY <1>1 DEF Running, Types, pattern, OnRanks
  <2>2. Num(r) \in 1..8
    BY <1>1
  <2>3. QED BY <1>1, <1>2, <1>3, <1>4, <2>1, <2>2, MapTypesKept
<1>6. Lists'
  <2>1. Num(r) \in 2..8 /\ ~(Num(r) >= 5) /\ DOMAIN heard'[r] = Requesters(r, sendTo)
    BY <1>1 DEF Running, Lists
  <2>2. QED BY <1>1, <1>2, <2>1, MapListsKept
<1>7. GhostSide' /\ TargetSide' /\ Mapping'
  BY <1>1, <1>2, MapRest
<1>8. \A p, q \in Ranks : MapLink(p, q)'
  <2> DEFINE c == chan
             k == 1
  <2>1. /\ Num(r) < 9 /\ Num(r) \in {3, 4, 5} /\ MapTook(Num(r) + 1) = MapTook(Num(r))
        /\ k = Num(r) - 2
    BY <1>1 DEF MapTook
  <2>2. \A p, q \in Ranks :
          IF q = r /\ q \in DOMAIN sendTo[p]
            THEN Carries(c[p][q], MapMessages(p, q), MapTook(Num(r) + 1), MapSent(Num(p)))
            ELSE c[p][q] = chan[p][q]
    <3>1. \A p, q \in Ranks : MapLink(p, q)
      BY <2>1, MapBasics
    <3>2. ASSUME NEW p \in Ranks, NEW q \in Ranks, q = r, q \in DOMAIN sendTo[p]
          PROVE  Carries(c[p][q], MapMessages(p, q), MapTook(Num(r) + 1), MapSent(Num(p)))
      BY <2>1, <3>1, <3>2 DEF MapLink
    <3>3. QED BY <3>2
  <2>3. \A p, q \in Ranks :
          chan'[p][q] = IF p = r /\ q \in DOMAIN sendTo[r] /\ Num(r) \in {3, 4, 5}
                          THEN Append(c[p][q], MapMessages(p, q)[k]) ELSE c[p][q]
    <3>1. ASSUME NEW q \in Ranks, q \in DOMAIN sendTo[r]
          PROVE  MapMessages(r, q)[k] = Message(q, what[q])
      <4>1. MapMessages(r, q)[k] = Message(q, <<Len(sendTo[r][q])>>)
        BY MapMessagesFacts
      <4>2. what[q] = <<Len(sendTo[r][q])>>
        BY <3>1
      <4>3. QED BY <4>1, <4>2
    <3>2. DOMAIN what = DOMAIN sendTo[r]
      OBVIOUS
    <3> HIDE DEF what, k
    <3>3. QED BY <1>4, <2>1, <3>1, <3>2
  <2> HIDE DEF c, k
  <2>4. sendTo' = sendTo
    BY <1>1
  <2>5. QED BY <1>2, <2>1, <2>2, <2>3, <2>4, MapLinksKept
<1>9. Links'
  BY <1>7, <1>8 DEF Links
<1>10. QED BY <1>5, <1>6, <1>7, <1>9 DEF Running

\* A round of the map: the messages that are due are received, and the lists sent.
LEMMA MapRound ==
  ASSUME Running, NEW r \in Ranks, Num(r) \in {4, 5, 6}, NEW t, NEW n \in Nat, n = Num(r) - 3,
         \A q \in Ranks : MapMessages(q, r)[n].tag = t,
         Arrived(r, DOMAIN heard[r], t),
         \A q \in Ranks : Num(q)' = IF q = r THEN Num(r) + 1 ELSE Num(q),
         sendTo' = sendTo,
         chan' = IF Num(r) = 6 THEN Taken(r, DOMAIN heard[r], t)
                 ELSE SendIndexed(Taken(r, DOMAIN heard[r], t), r, sendTo[r])
  PROVE  ChanOK(chan') /\ \A p, q \in Ranks : MapLink(p, q)'
<1> DEFINE c == Taken(r, DOMAIN heard[r], t)
<1>1. Num(r) < 9 /\ MapTook(Num(r) + 1) = n
  BY DEF MapTook
<1>0. PICK k \in Nat : k = Num(r) - 2
  OBVIOUS
<1>2. /\ ChanOK(c)
      /\ \A p, q \in Ranks :
           IF q = r /\ q \in DOMAIN sendTo[p]
             THEN Carries(c[p][q], MapMessages(p, q), MapTook(Num(r) + 1), MapSent(Num(p)))
             ELSE c[p][q] = chan[p][q]
  BY <1>1, MapTakes
<1>3. chan' = IF Num(r) = 6 THEN c ELSE SendIndexed(c, r, sendTo[r])
  OBVIOUS
<1> HIDE DEF c
<1>4. CASE Num(r) = 6
  <2>1. chan' = c
    BY <1>3, <1>4
  <2>2. \A p, q \in Ranks :
          chan'[p][q] = IF p = r /\ q \in DOMAIN sendTo[r] /\ Num(r) \in {3, 4, 5}
                          THEN Append(c[p][q], MapMessages(p, q)[k]) ELSE c[p][q]
    BY <1>4, <2>1
  <2>3. QED BY <1>1, <1>0, <1>2, <2>1, <2>2, MapLinksKept
<1>5. CASE Num(r) # 6
  <2>1. chan' = SendIndexed(c, r, sendTo[r])
    BY <1>3, <1>5
  <2>2. /\ ChanOK(chan')
        /\ \A p, q \in Ranks :
             chan'[p][q] = IF p = r /\ q \in DOMAIN sendTo[r]
                             THEN Append(c[p][q], Message(PatternTag, sendTo[r][q]))
                             ELSE c[p][q]
    <3> DEFINE d == SendIndexed(c, r, sendTo[r])
    <3>1. /\ ChanOK(d)
          /\ \A p, q \in Ranks :
               d[p][q] = IF p = r /\ q \in DOMAIN sendTo[r]
                           THEN Append(c[p][q], Message(PatternTag, sendTo[r][q]))
                           ELSE c[p][q]
      BY <1>2, SendFacts
    <3> HIDE DEF d
    <3>2. QED BY <2>1, <3>1 DEF d
  <2>3. Num(r) \in {3, 4, 5} /\ (k = 2 \/ k = 3)
    BY <1>5, <1>0
  <2>4. ASSUME NEW q \in Ranks
        PROVE  MapMessages(r, q)[k] = Message(PatternTag, sendTo[r][q])
    <3>1. CASE k = 2
      BY <3>1, MapMessagesFacts
    <3>2. CASE k = 3
      BY <3>2, MapMessagesFacts
    <3>3. QED BY <2>3, <3>1, <3>2
  <2>5. \A p, q \in Ranks :
          chan'[p][q] = IF p = r /\ q \in DOMAIN sendTo[r] /\ Num(r) \in {3, 4, 5}
                          THEN Append(c[p][q], MapMessages(p, q)[k]) ELSE c[p][q]
    BY <2>2, <2>3, <2>4
  <2>6. QED BY <1>1, <1>0, <1>2, <2>2, <2>5, MapLinksKept
<1>6. QED BY <1>4, <1>5

LEMMA SendIdsRuns ==
  ASSUME Running, NEW r \in Ranks, SendIds(r) PROVE Running'
<1>1. /\ Num(r) = 4 /\ Goes(r, "ids") /\ Arrived(r, DOMAIN heard[r], r)
      /\ chan' = SendIndexed(Taken(r, DOMAIN heard[r], r), r, sendTo[r])
      /\ UNCHANGED <<owned, ghosts, threw, pattern>>
      /\ UNCHANGED <<numPoints, inside, boxed, sendTo, heard, found, values, calls>>
  BY PhaseNumbers DEF SendIds, SendIndexed, At, Num, transferVars, mapping
<1>2. /\ pc' \in [Ranks -> DOMAIN Phases]
      /\ \A q \in Ranks : Num(q)' = IF q = r THEN Num(r) + 1 ELSE Num(q)
  BY <1>1, PhaseNames, PhaseNumbers, MovesOn DEF Running
<1>3. ChanOK(chan') /\ \A p, q \in Ranks : MapLink(p, q)'
  <2> DEFINE n == 1
  <2>1. Num(r) \in {4, 5, 6} /\ Num(r) # 6 /\ n \in Nat /\ n = Num(r) - 3
    BY <1>1
  <2>2. \A q \in Ranks : MapMessages(q, r)[n].tag = r
    BY MapMessagesParts
  <2> HIDE DEF n
  <2>3. QED BY <1>1, <1>2, <2>1, <2>2, MapRound
<1>4. Types' /\ Sync'
  <2>1. /\ ghosts' \in [Ranks -> Seq(Nat)] /\ OnRanks(sendTo)' /\ OnRanks(found)' /\ OnRanks(heard)'
        /\ OnRanks(ghostRange)' /\ OnRanks(numFor)' /\ OnRanks(ownedFor)'
    BY <1>1 DEF Running, Types, pattern, OnRanks
  <2>2. Num(r) \in 1..8 /\ Num(r) \notin Gates
    BY <1>1 DEF Gates
  <2>3. QED BY <1>1, <1>2, <1>3, <2>1, <2>2, MapTypesKept
<1>5. Lists'
  <2>1. Num(r) \in 2..8 /\ ~(Num(r) >= 5) /\ DOMAIN heard'[r] = Requesters(r, sendTo)
    BY <1>1 DEF Running, Lists
  <2>2. QED BY <1>1, <1>2, <2>1, MapListsKept
<1>6. GhostSide' /\ TargetSide' /\ Mapping'
  BY <1>1, <1>2, MapRest
<1>7. Links'
  BY <1>3, <1>6 DEF Links
<1>8. QED BY <1>4, <1>5, <1>6, <1>7 DEF Running

LEMMA SendCoordinatesRuns ==
  ASSUME Running, NEW r \in Ranks, SendCoordinates(r) PROVE Running'
<1> DEFINE froms == DOMAIN heard[r]
           n == 2
<1>1. /\ Num(r) = 5 /\ Goes(r, "coords") /\ Arrived(r, froms, PatternTag)
      /\ chan' = SendIndexed(Taken(r, froms, PatternTag), r, sendTo[r])
      /\ heard' = [heard EXCEPT ![r] = [q \in froms |-> Received(r, q, PatternTag)]]
      /\ UNCHANGED <<owned, ghosts, threw, pattern>>
      /\ UNCHANGED <<numPoints, inside, boxed, sendTo, found, values, calls>>
  BY PhaseNumbers DEF SendCoordinates, SendIndexed, At, Num
<1>2. /\ pc' \in [Ranks -> DOMAIN Phases]
      /\ \A q \in Ranks : Num(q)' = IF q = r THEN Num(r) + 1 ELSE Num(q)
  BY <1>1, PhaseNames, PhaseNumbers, MovesOn DEF Running
<1>3. Num(r) \in {4, 5, 6} /\ Num(r) # 6 /\ n \in Nat /\ n = Num(r) - 3 /\ Num(r) \in 1..8 /\ Num(r) \in 2..8
      /\ Num(r) \notin Gates
  BY <1>1 DEF Gates
<1>4. \A q \in Ranks : /\ MapMessages(q, r)[n].tag = PatternTag
                        /\ MapMessages(q, r)[n].data = sendTo[q][r]
  BY MapMessagesParts
<1> HIDE DEF n
<1>5. ChanOK(chan') /\ \A p, q \in Ranks : MapLink(p, q)'
  <2>1. Num(r) = 6 <=> FALSE
    BY <1>3
  <2>2. /\ sendTo' = sendTo
        /\ chan' = IF Num(r) = 6 THEN Taken(r, froms, PatternTag)
                   ELSE SendIndexed(Taken(r, froms, PatternTag), r, sendTo[r])
    BY <1>1, <2>1
  <2>3. \A q \in Ranks : MapMessages(q, r)[n].tag = PatternTag
    BY <1>4
  <2>4. QED BY <1>1, <1>2, <1>3, <2>2, <2>3, MapRound
<1>6. froms = Requesters(r, sendTo)
  BY <1>1 DEF Running, Lists
<1>7. \A q \in froms : Received(r, q, PatternTag) = sendTo[q][r]
  <2>1. \A q \in froms : q \in Ranks /\ r \in DOMAIN sendTo[q]
    BY <1>6 DEF Requesters
  <2>2. \A q \in froms : Received(r, q, PatternTag) = MapMessages(q, r)[n].data
    <3>1. \A q \in Ranks : MapMessages(q, r)[n].tag = PatternTag
      BY <1>4
    <3>2. QED BY <1>1, <1>3, <2>1, <3>1, MapTakes
  <2>3. QED BY <1>4, <2>1, <2>2
<1>8. /\ OnRanks(heard)' /\ \A q \in Ranks : q # r => heard'[q] = heard[q]
      /\ DOMAIN heard'[r] = froms /\ \A q \in froms : heard'[r][q] = sendTo[q][r]
  BY <1>1, <1>7 DEF Running, Types, OnRanks
<1>9. Types' /\ Sync'
  <2>1. /\ ghosts' \in [Ranks -> Seq(Nat)] /\ OnRanks(sendTo)' /\ OnRanks(found)'
        /\ OnRanks(ghostRange)' /\ OnRanks(numFor)' /\ OnRanks(ownedFor)'
    BY <1>1 DEF Running, Types, pattern, OnRanks
  <2>2. QED BY <1>1, <1>2, <1>3, <1>5, <1>8, <2>1, MapTypesKept
<1>10. Lists'
  BY <1>1, <1>2, <1>3, <1>6, <1>8, MapListsKept
<1>11. GhostSide' /\ TargetSide' /\ Mapping'
  BY <1>1, <1>2, MapRest
<1>12. Links'
  BY <1>5, <1>11 DEF Links
<1>13. QED BY <1>9, <1>10, <1>11, <1>12 DEF Running

LEMMA SeqWider ==
  ASSUME NEW A, NEW B, A \subseteq B, NEW s \in Seq(A) PROVE s \in Seq(B)
<1>1. Len(s) \in Nat /\ s \in [1..Len(s) -> A]
  OBVIOUS
<1>2. s \in [1..Len(s) -> B]
  BY <1>1
<1>3. QED BY <1>1, <1>2

LEMMA SentToFacts ==
  ASSUME numPoints \in [Ranks -> Nat], NEW p, NEW q
  PROVE  SentTo(p, q) \in Seq(Points) /\ Points \in SUBSET Nat /\ IsFiniteSet(Points)
<1> DEFINE T == {g \in Lost(p) : q \in boxed[g]}
<1>1. IsFiniteSet(Points) /\ Points \in SUBSET Nat
  BY PointsFinite
<1>2. T \in SUBSET Points
  BY DEF Lost, Mine
<1>3. SentTo(p, q) = Sorted(T)
  BY DEF SentTo
<1> HIDE DEF T
<1>4. IsFiniteSet(T) /\ T \in SUBSET Nat
  BY <1>1, <1>2, FS_Subset
<1>5. Sorted(T) \in Seq(T)
  BY <1>4, SortedFacts
<1>6. Sorted(T) \in Seq(Points)
  BY <1>2, <1>5, SeqWider
<1>7. QED BY <1>1, <1>3, <1>6

LEMMA LocateRuns ==
  ASSUME Running, NEW r \in Ranks, Locate(r) PROVE Running'
<1> DEFINE froms == DOMAIN heard[r]
           ids == {h.id : h \in Hits(r)}
           n == 3
<1>1. /\ Num(r) = 6 /\ Goes(r, "found") /\ Arrived(r, froms, PatternTag)
      /\ chan' = Taken(r, froms, PatternTag)
      /\ ghosts' = [ghosts EXCEPT ![r] = Sorted(ids)]
      /\ found' = [found EXCEPT ![r] = @ \cup GhostPlaces(r, Hits(r))]
      /\ UNCHANGED <<owned, threw, pattern>>
      /\ UNCHANGED <<numPoints, inside, boxed, sendTo, heard, values, calls>>
  BY PhaseNumbers DEF Locate, At, Num
<1>2. /\ pc' \in [Ranks -> DOMAIN Phases]
      /\ \A q \in Ranks : Num(q)' = IF q = r THEN Num(r) + 1 ELSE Num(q)
  BY <1>1, PhaseNames, PhaseNumbers, MovesOn DEF Running
<1>3. Num(r) \in {4, 5, 6} /\ n \in Nat /\ n = Num(r) - 3 /\ Num(r) \in 1..8 /\ Num(r) \in 2..8
      /\ Num(r) \notin Gates
  BY <1>1 DEF Gates
<1>4. \A q \in Ranks : MapMessages(q, r)[n].tag = PatternTag
  BY MapMessagesParts
<1> HIDE DEF n
<1>5. ChanOK(chan') /\ \A p, q \in Ranks : MapLink(p, q)'
  <2>1. sendTo' = sendTo
    BY <1>1
  <2>2. chan' = IF Num(r) = 6 THEN Taken(r, froms, PatternTag)
                ELSE SendIndexed(Taken(r, froms, PatternTag), r, sendTo[r])
    BY <1>1
  <2>3. QED BY <1>1, <1>2, <1>3, <1>4, <2>1, <2>2, MapRound
<1>6. /\ froms = Requesters(r, sendTo)
      /\ \A q \in froms : heard[r][q] = sendTo[q][r]
  BY <1>1 DEF Running, Lists
<1>7. ids \in SUBSET Points
  <2>1. ASSUME NEW q \in froms PROVE heard[r][q] \in Seq(Points)
    <3>1. q \in Ranks /\ r \in DOMAIN sendTo[q]
      BY <1>6 DEF Requesters
    <3>2. (Num(q) = 1 => sendTo[q] = EmptyMap) /\ (Num(q) > 1 => sendTo[q] = Asked(q))
      BY <3>1 DEF Running, Lists
    <3>3. Num(q) \in 1..16
      BY <3>1, NumIsNumber DEF Running, Types
    <3>4. sendTo[q] = Asked(q)
      <4>1. sendTo[q] # EmptyMap
        BY <3>1 DEF EmptyMap
      <4>2. QED BY <3>2, <3>3, <4>1
    <3>5. sendTo[q][r] = SentTo(q, r)
      BY <3>1, <3>4 DEF Asked
    <3>6. SentTo(q, r) \in Seq(Points)
      BY SentToFacts DEF Running, Types
    <3>7. QED BY <1>6, <3>5, <3>6
  <2>2. ASSUME NEW h \in Hits(r) PROVE h.id \in Points
    <3>1. PICK k \in froms \X (1..NumPoints) :
            k[2] \in DOMAIN heard[r][k[1]] /\ h.id = heard[r][k[1]][k[2]]
      BY DEF Hits
    <3>2. heard[r][k[1]] \in Seq(Points)
      BY <2>1
    <3> DEFINE s == heard[r][k[1]]
    <3> HIDE DEF s
    <3>3. s \in Seq(Points) /\ k[2] \in DOMAIN s /\ h.id = s[k[2]]
      BY <3>1, <3>2 DEF s
    <3>4. QED BY <3>3
  <2>3. QED BY <2>2
<1>8. ghosts' \in [Ranks -> Seq(Nat)] /\ \A q \in Ranks : q # r => ghosts'[q] = ghosts[q]
  <2> HIDE DEF ids
  <2>1. IsFiniteSet(ids) /\ ids \in SUBSET Nat
    BY <1>7, SentToFacts, FS_Subset DEF Running, Types
  <2>2. Sorted(ids) \in Seq(ids)
    BY <2>1, SortedFacts
  <2>3. Sorted(ids) \in Seq(Nat)
    BY <2>1, <2>2, SeqWider
  <2>4. QED BY <1>1, <2>3 DEF Running, Types
<1>9. Types' /\ Sync'
  <2>1. /\ OnRanks(sendTo)' /\ OnRanks(found)' /\ OnRanks(heard)'
        /\ OnRanks(ghostRange)' /\ OnRanks(numFor)' /\ OnRanks(ownedFor)'
    <3>1. /\ OnRanks(sendTo)' /\ OnRanks(heard)'
          /\ OnRanks(ghostRange)' /\ OnRanks(numFor)' /\ OnRanks(ownedFor)'
      BY <1>1 DEF Running, Types, pattern, OnRanks
    <3>2. OnRanks(found)'
      <4> DEFINE g == found[r] \cup GhostPlaces(r, Hits(r))
      <4>1. found' = [found EXCEPT ![r] = g]
        BY <1>1
      <4> HIDE DEF g
      <4>2. QED BY <4>1 DEF Running, Types, OnRanks
    <3>3. QED BY <3>1, <3>2
  <2>2. QED BY <1>1, <1>2, <1>3, <1>5, <1>8, <2>1, MapTypesKept
<1>10. Lists'
  <2>1. UNCHANGED <<owned, numPoints, inside, boxed, sendTo>> /\ heard' = heard
    BY <1>1
  <2>2. QED BY <1>2, <1>3, <1>6, <2>1, MapListsKept
<1>11. GhostSide' /\ TargetSide' /\ Mapping'
  <2>1. Num(r) < 8 /\ UNCHANGED <<pattern, owned>>
    BY <1>1
  <2>2. QED BY <1>2, <1>8, <2>1, MapRest
<1>12. Links'
  BY <1>5, <1>11 DEF Links
<1>13. QED BY <1>9, <1>10, <1>11, <1>12 DEF Running

LEMMA MakePatternRuns ==
  ASSUME Running, NEW r \in Ranks, MakePattern(r) PROVE Running'
<1>1. /\ Num(r) = 7 /\ Goes(r, "gather") /\ AllIn("found")
      /\ UNCHANGED <<owned, ghosts, threw, pattern, chan>>
      /\ UNCHANGED <<numPoints, inside, boxed, sendTo, heard, found, values, calls>>
  BY PhaseNumbers DEF MakePattern, At, Num, transferVars, mapping
<1>2. /\ pc' \in [Ranks -> DOMAIN Phases]
      /\ \A q \in Ranks : Num(q)' = IF q = r THEN Num(r) + 1 ELSE Num(q)
  BY <1>1, PhaseNames, PhaseNumbers, MovesOn DEF Running
<1>3. \A q \in Ranks : Num(q) >= Num(r)
  BY <1>1, PhaseNames, PhaseNumbers, Together DEF Running
<1>4. Types' /\ Sync'
  <2>1. /\ ghosts' \in [Ranks -> Seq(Nat)] /\ OnRanks(sendTo)' /\ OnRanks(found)' /\ OnRanks(heard)'
        /\ OnRanks(ghostRange)' /\ OnRanks(numFor)' /\ OnRanks(ownedFor)' /\ ChanOK(chan')
    BY <1>1 DEF Running, Types, pattern, OnRanks, ChanOK
  <2>2. Num(r) \in 1..8
    BY <1>1
  <2>3. QED BY <1>1, <1>2, <1>3, <2>1, <2>2, MapTypesKept
<1>5. Lists'
  <2>1. /\ Num(r) \in 2..8 /\ DOMAIN heard'[r] = Requesters(r, sendTo)
        /\ \A q \in DOMAIN heard'[r] : heard'[r][q] = sendTo[q][r]
    BY <1>1 DEF Running, Lists
  <2>2. QED BY <1>1, <1>2, <2>1, MapListsKept
<1>6. GhostSide' /\ TargetSide' /\ Mapping'
  BY <1>1, <1>2, MapRest
<1>7. \A p, q \in Ranks : MapLink(p, q)'
  BY <1>1, <1>2, MapQuiet
<1>8. Links'
  BY <1>6, <1>7 DEF Links
<1>9. QED BY <1>4, <1>5, <1>6, <1>8 DEF Running
-----------------------------------------------------------------------------
(***************************************************************************)
(* The owners of the ghosts.                                               *)
(***************************************************************************)
GreatestOf(S) == CHOOSE x \in S : \A y \in S : x >= y

LEMMA GreatestOfFacts ==
  ASSUME NEW T \in SUBSET Nat, T # {}, NEW n \in Nat, \A y \in T : y <= n
  PROVE  GreatestOf(T) \in T /\ \A y \in T : y <= GreatestOf(T)
<1> DEFINE U == {m \in Nat : \A y \in T : y <= m}
<1>1. PICK m \in U : \A k \in U : m <= k
  <2>1. U \in SUBSET Nat /\ U # {}
    OBVIOUS
  <2> HIDE DEF U
  <2>2. QED BY <2>1, LeastNumber
<1>2. m \in Nat /\ \A y \in T : y <= m
  OBVIOUS
<1>3. m \in T
  <2> SUFFICES ASSUME m \notin T PROVE FALSE
    OBVIOUS
  <2>1. \A y \in T : y <= m - 1 /\ y \in Nat
    BY <1>2
  <2>2. m - 1 \in Nat
    <3>1. PICK y \in T : TRUE
      OBVIOUS
    <3>2. y \in Nat /\ y <= m - 1
      BY <2>1
    <3>3. QED BY <1>2, <3>2
  <2>3. m - 1 \in U
    BY <2>1, <2>2
  <2> HIDE DEF U
  <2>4. m <= m - 1
    BY <1>1, <2>3
  <2>5. QED BY <1>2, <2>4
<1>4. \E x \in T : \A y \in T : x >= y
  BY <1>2, <1>3
<1>5. GreatestOf(T) \in T /\ \A y \in T : GreatestOf(T) >= y
  BY <1>4 DEF GreatestOf
<1>6. \A y \in T : y \in Nat
  OBVIOUS
<1>7. QED BY <1>5, <1>6

\* The ghosts of one owner are in its range, and the range is not empty.
LEMMA RangeOfFacts ==
  ASSUME NEW f, NEW n \in Nat, DOMAIN f = 1..n, NEW i \in DOMAIN f
  PROVE  LET range == RangeOf(PlacesOf(f, f[i])) IN
         /\ range \in Nat \X Nat /\ range[1] < range[2] /\ range[2] <= n
         /\ range[1] < i /\ i <= range[2]
<1> DEFINE T == PlacesOf(f, f[i])
<1>1. /\ T \in SUBSET Nat /\ i - 1 \in T /\ \A y \in T : y <= n - 1 /\ y \in Nat
      /\ n - 1 \in Nat /\ i \in 1..n
  BY DEF PlacesOf
<1> HIDE DEF T
<1>2. LeastOf(T) \in T /\ \A y \in T : LeastOf(T) <= y
  BY <1>1, LeastOfFacts
<1>3. GreatestOf(T) \in T /\ \A y \in T : y <= GreatestOf(T)
  BY <1>1, GreatestOfFacts
<1>4. RangeOf(T) = <<LeastOf(T), 1 + GreatestOf(T)>>
  BY DEF RangeOf, GreatestOf
<1>5. /\ LeastOf(T) <= i - 1 /\ i - 1 <= GreatestOf(T)
      /\ LeastOf(T) \in Nat /\ GreatestOf(T) \in Nat /\ GreatestOf(T) <= n - 1
  BY <1>1, <1>2, <1>3
<1>6. QED BY <1>1, <1>4, <1>5 DEF T

LEMMA LeaveGatherRuns ==
  ASSUME Running, NEW r \in Ranks, LeaveGather(r), UNCHANGED transferVars, threw' = {}
  PROVE  Running'
<1>1. /\ Num(r) = 8 /\ Goes(r, "ask") /\ AllIn("gather")
      /\ UNCHANGED <<owned, ghosts, numFor, ownedFor, chan>>
      /\ UNCHANGED <<numPoints, inside, boxed, sendTo, heard, found, values, calls>>
      /\ \E f \in Attributions(r) :
           ghostRange' = [ghostRange EXCEPT ![r] = [p \in ToSet(f) |-> RangeOf(PlacesOf(f, p))]]
  <2>1. r \in threw \cup {r}
    OBVIOUS
  <2>2. ~Throws(r)
    BY <2>1 DEF Throws
  <2>3. QED BY <2>2, PhaseNumbers DEF LeaveGather, At, Num, transferVars, mapping
<1>2. PICK f \in Attributions(r) :
        ghostRange' = [ghostRange EXCEPT ![r] = [p \in ToSet(f) |-> RangeOf(PlacesOf(f, p))]]
  BY <1>1
<1>3. /\ pc' \in [Ranks -> DOMAIN Phases]
      /\ \A q \in Ranks : Num(q)' = IF q = r THEN Num(r) + 1 ELSE Num(q)
  BY <1>1, PhaseNames, PhaseNumbers, MovesOn DEF Running
<1>4. \A q \in Ranks : Num(q) >= Num(r)
  BY <1>1, PhaseNames, PhaseNumbers, Together DEF Running
<1>5. /\ OnRanks(ghostRange)' /\ \A q \in Ranks : q # r => ghostRange'[q] = ghostRange[q]
      /\ ghostRange'[r] = [p \in ToSet(f) |-> RangeOf(PlacesOf(f, p))]
  BY <1>2 DEF Running, Types, OnRanks
<1>6. Types' /\ Sync'
  <2>1. /\ ghosts' \in [Ranks -> Seq(Nat)] /\ OnRanks(sendTo)' /\ OnRanks(found)' /\ OnRanks(heard)'
        /\ OnRanks(numFor)' /\ OnRanks(ownedFor)' /\ ChanOK(chan')
    BY <1>1 DEF Running, Types, OnRanks, ChanOK
  <2>2. Num(r) \in 1..8
    BY <1>1
  <2>3. QED BY <1>1, <1>3, <1>4, <1>5, <2>1, <2>2, MapTypesKept
<1>7. Lists'
  <2>1. /\ Num(r) \in 2..8 /\ DOMAIN heard'[r] = Requesters(r, sendTo)
        /\ \A q \in DOMAIN heard'[r] : heard'[r][q] = sendTo[q][r]
    BY <1>1 DEF Running, Lists
  <2>2. QED BY <1>1, <1>3, <2>1, MapListsKept
<1>8. \A q \in Ranks : Num(q) \in 1..16 /\ Num(q) <= 9
  <2>1. Num(r) < 9
    BY <1>1
  <2>2. QED BY <2>1, MapBasics
<1>9. Placed(r)'
  <2>1. PICK n \in Nat : DOMAIN ghosts[r] = 1..n /\ Len(ghosts[r]) = n
    <3> DEFINE s == ghosts[r]
    <3>1. s \in Seq(Nat)
      BY DEF Running, Types
    <3> HIDE DEF s
    <3>2. Len(s) \in Nat /\ DOMAIN s = 1..Len(s)
      BY <3>1
    <3>3. QED BY <3>2 DEF s
  <2>2. f \in [DOMAIN ghosts[r] -> Ranks]
    BY DEF Attributions
  <2>3. ASSUME NEW o \in ToSet(f)
        PROVE  \E i \in DOMAIN f : o = f[i]
    BY DEF ToSet
  <2>4. ASSUME NEW i \in DOMAIN f
        PROVE  /\ ghostRange'[r][f[i]] = RangeOf(PlacesOf(f, f[i]))
               /\ f[i] \in ToSet(f)
    <3>1. f[i] \in ToSet(f)
      BY DEF ToSet
    <3>2. QED BY <1>5, <3>1
  <2>5. DOMAIN ghostRange'[r] = ToSet(f) /\ DOMAIN f = 1..n /\ ToSet(f) \subseteq Ranks
    BY <1>5, <2>1, <2>2, <2>3
  <2>6. ASSUME NEW i \in DOMAIN f
        PROVE  LET range == ghostRange'[r][f[i]] IN
               /\ range \in Nat \X Nat /\ range[1] < range[2] /\ range[2] <= n
               /\ range[1] < i /\ i <= range[2]
    BY <2>4, <2>5, RangeOfFacts
  <2>7. ASSUME NEW o \in ToSet(f)
        PROVE  /\ ghostRange'[r][o] \in Nat \X Nat
               /\ ghostRange'[r][o][1] < ghostRange'[r][o][2] /\ ghostRange'[r][o][2] <= n
    <3>1. PICK i \in DOMAIN f : o = f[i]
      BY <2>3
    <3>2. QED BY <2>6, <3>1
  <2>8. ghosts' = ghosts /\ DOMAIN ghosts[r] = DOMAIN f
    BY <1>1, <2>2
  <2>9. ASSUME NEW i \in DOMAIN ghosts[r]
        PROVE  \E o \in DOMAIN ghostRange'[r] :
                 ghostRange'[r][o][1] < i /\ i <= ghostRange'[r][o][2]
    <3>1. i \in DOMAIN f
      BY <2>8
    <3>2. f[i] \in DOMAIN ghostRange'[r]
      BY <2>4, <2>5, <3>1
    <3>3. QED BY <2>6, <3>1, <3>2
  <2>10. QED BY <2>1, <2>5, <2>7, <2>8, <2>9 DEF Placed
<1>10. GhostSide'
  <2>1. ASSUME NEW q \in Ranks, Num(q)' >= 9 PROVE Placed(q)'
    <3>1. CASE q = r
      BY <1>9, <3>1
    <3>2. CASE q # r
      <4>1. Placed(q) /\ ghosts' = ghosts /\ ghostRange'[q] = ghostRange[q]
        BY <1>1, <1>3, <1>5, <2>1, <3>2 DEF Running, GhostSide
      <4>2. QED BY <4>1 DEF Placed
    <3>3. QED BY <3>1, <3>2
  <2>2. \A q \in Ranks : ~(Num(q)' >= 11)
    BY <1>1, <1>3, <1>8
  <2>3. QED BY <2>1, <2>2 DEF GhostSide
<1>11. TargetSide'
  <2>1. \A q \in Ranks : ~(Num(q)' >= 10) /\ ~(Num(q)' >= 12)
    BY <1>1, <1>3, <1>8
  <2>2. QED BY <2>1 DEF TargetSide
<1>12. \A p, q \in Ranks : MapLink(p, q)'
  BY <1>1, <1>3, MapQuiet
<1>13. ASSUME ~Mapping', NEW p \in Ranks, NEW q \in Ranks PROVE PatternLink(p, q)'
  <2>1. Num(p)' = 9 /\ Num(q)' = 9
    <3>1. \A x \in Ranks : ~(Num(x)' < 9)
      BY <1>13 DEF Mapping
    <3>2. \A x \in Ranks : Num(x)' \in 1..9
      BY <1>1, <1>3, <1>8
    <3>3. \A x \in Ranks : Num(x)' = 9
      BY <3>1, <3>2
    <3>4. QED BY <3>3
  <2>2. MapTook(Num(q))' = 3 /\ MapSent(Num(p))' = 3
    BY <2>1 DEF MapTook, MapSent
  <2>3. chan'[p][q] = <<>>
    <3>1. CASE q \in DOMAIN sendTo'[p]
      <4>1. Carries(chan'[p][q], MapMessages(p, q)', 3, 3)
        BY <1>12, <2>2, <3>1 DEF MapLink
      <4> DEFINE m == MapMessages(p, q)'
                 s == chan'[p][q]
      <4> HIDE DEF m, s
      <4>2. Carries(s, m, 3, 3)
        BY <4>1 DEF m, s
      <4>3. s = <<>>
        BY <4>2, NothingLeft
      <4>4. QED BY <4>3 DEF s
    <3>2. CASE q \notin DOMAIN sendTo'[p]
      BY <1>12, <3>2 DEF MapLink
    <3>3. QED BY <3>1, <3>2
  <2>4. PatternTook(Num(q), calls[q])' = 0 /\ PatternSent(Num(p), calls[p])' = 0
    BY <2>1 DEF PatternTook, PatternSent
  <2> DEFINE m == PatternMessages(p, q)'
  <2> HIDE DEF m
  <2>5. Carries(<<>>, m, 0, 0)
    BY EmptyCarries
  <2>6. Carries(chan'[p][q], m, PatternTook(Num(q), calls[q])', PatternSent(Num(p), calls[p])')
    BY <2>3, <2>4, <2>5
  <2>7. QED BY <2>3, <2>6 DEF PatternLink, m
<1>14. Links'
  BY <1>12, <1>13 DEF Links
<1>15. QED BY <1>6, <1>7, <1>10, <1>11, <1>14 DEF Running
-----------------------------------------------------------------------------
(***************************************************************************)
(* The steps of the pattern and of the calls.                              *)
(***************************************************************************)
LEMMA PatternBasics ==
  ASSUME Running, NEW r \in Ranks, Num(r) > 9 \/ AllIn("ask")
  PROVE  /\ ~Mapping /\ ChanOK(chan)
         /\ \A p \in Ranks : Num(p) \in 9..16
         /\ \A p, q \in Ranks : PatternLink(p, q)
<1>1. \A p \in Ranks : Num(p) \in 1..16
  BY NumIsNumber DEF Running, Types
<1>2. \A p \in Ranks : Num(p) >= 9
  <2>1. CASE Num(r) > 9
    BY <2>1 DEF Running, Sync, Gates
  <2>2. CASE AllIn("ask")
    BY <2>2, Together, PhaseNames, PhaseNumbers DEF Running
  <2>3. QED BY <2>1, <2>2
<1>3. \A p \in Ranks : Num(p) \in 9..16 /\ ~(Num(p) < 9)
  BY <1>1, <1>2
<1>4. ~Mapping
  BY <1>3 DEF Mapping
<1>5. ChanOK(chan)
  BY DEF Running, Types, ChanOK
<1>6. QED BY <1>3, <1>4, <1>5 DEF Running, Links

\* Constants of a rank once it has its pattern's ghosts.
FixedByNow == <<owned, ghosts, ghostRange, numPoints, inside, boxed, sendTo, heard, found>>

LEMMA MessagesFixed ==
  ASSUME UNCHANGED FixedByNow
  PROVE  \A p, q : PatternMessages(p, q)' = PatternMessages(p, q)
BY DEF FixedByNow, PatternMessages, LocalAt, GhostsAt, GhostValues, Computed, NoValue,
       NumPoints, Message

\* What a step of the pattern or of a call leaves of the lists and the ghosts.
LEMMA PatternRest ==
  ASSUME Running, NEW r \in Ranks, \A q \in Ranks : Num(q) \in 9..16, NEW n \in 9..16,
         \A q \in Ranks : Num(q)' = IF q = r THEN n ELSE Num(q),
         UNCHANGED FixedByNow,
         n < 11 \/ Num(r) >= 11 \/ \A o \in DOMAIN ghostRange[r] : ~Foreign(r, o)
  PROVE  Lists' /\ GhostSide' /\ ~Mapping'
<1>1. UNCHANGED <<owned, ghosts, ghostRange, numPoints, inside, boxed, sendTo, heard, found>>
  BY DEF FixedByNow
<1>2. \A q \in Ranks : Num(q)' \in 9..16
  OBVIOUS
<1>3. ~Mapping'
  <2>1. \A q \in Ranks : ~(Num(q)' < 9)
    BY <1>2
  <2>2. QED BY <2>1 DEF Mapping
<1>4. Lists'
  <2>1. \A p \in Ranks : Asked(p)' = Asked(p) /\ Requesters(p, sendTo)' = Requesters(p, sendTo)
    BY <1>1 DEF Asked, SentTo, Lost, Mine, Points, NumPoints, Requesters
  <2>2. \A q \in Ranks : Num(q)' # 1 /\ Num(q) > 1 /\ Num(q) >= 3 /\ Num(q) >= 6
    BY <1>2
  <2>3. \A q \in Ranks : /\ sendTo[q] = Asked(q) /\ DOMAIN heard[q] = Requesters(q, sendTo)
                         /\ \A p \in DOMAIN heard[q] : heard[q][p] = sendTo[p][q]
    BY <2>2 DEF Running, Lists
  <2>4. QED BY <1>1, <2>1, <2>2, <2>3 DEF Lists
<1>5. GhostSide'
  <2>1. \A q \in Ranks : Placed(q)' <=> Placed(q)
    BY <1>1 DEF Placed
  <2>2. \A q \in Ranks : \A o : Foreign(q, o)' <=> Foreign(q, o)
    BY <1>1 DEF Foreign, GhostsAt
  <2>3. \A q \in Ranks : Placed(q)
    BY DEF Running, GhostSide
  <2>4. ASSUME NEW q \in Ranks, Num(q)' >= 11, NEW o \in DOMAIN ghostRange[q]
        PROVE  ~Foreign(q, o)
    <3>1. CASE Num(q) >= 11
      BY <2>4, <3>1 DEF Running, GhostSide
    <3>2. CASE ~(Num(q) >= 11)
      <4>1. q = r /\ ~(n < 11) /\ ~(Num(r) >= 11)
        BY <2>4, <3>2
      <4>2. QED BY <2>4, <4>1
    <3>3. QED BY <3>1, <3>2
  <2>5. QED BY <1>1, <2>1, <2>2, <2>3, <2>4 DEF GhostSide
<1>6. QED BY <1>3, <1>4, <1>5

LEMMA PatternTypesKept ==
  ASSUME Running, NEW r \in Ranks, NEW n \in 9..16,
         pc' \in [Ranks -> DOMAIN Phases],
         \A q \in Ranks : Num(q)' = IF q = r THEN n ELSE Num(q),
         n = Num(r) + 1 \/ (Num(r) = 16 /\ n = 15),
         Num(r) \in Gates => \A q \in Ranks : Num(q) >= Num(r),
         UNCHANGED FixedByNow,
         calls' \in [Ranks -> Nat], \A q \in Ranks : q # r => calls'[q] = calls[q],
         n <= 12 => calls'[r] = 0, n > 12 => calls'[r] > 0,
         OnRanks(values)', OnRanks(numFor)', OnRanks(ownedFor)', ChanOK(chan')
  PROVE  Types' /\ Sync'
<1>1. UNCHANGED <<owned, ghosts, ghostRange, numPoints, inside, boxed, sendTo, heard, found>>
  BY DEF FixedByNow
<1>2. /\ owned' \in [Ranks -> Nat \X Nat] /\ numPoints' \in [Ranks -> Nat]
      /\ ghosts' \in [Ranks -> Seq(Nat)]
      /\ OnRanks(sendTo)' /\ OnRanks(heard)' /\ OnRanks(found)' /\ OnRanks(ghostRange)'
  BY <1>1 DEF Running, Types, OnRanks
<1>3. ASSUME NEW q \in Ranks
      PROVE  (Num(q)' <= 12 => calls'[q] = 0) /\ (Num(q)' > 12 => calls'[q] > 0)
  <2>1. CASE q = r
    BY <2>1
  <2>2. CASE q # r
    BY <2>2 DEF Running, Types
  <2>3. QED BY <2>1, <2>2
<1>4. OnRanks(chan)' /\ \A p \in Ranks : OnRanks(chan[p])'
  BY DEF ChanOK, OnRanks
<1>5. Types'
  BY <1>2, <1>3, <1>4 DEF Types
<1>6. Sync'
  <2>1. n \in 1..16
    OBVIOUS
  <2>2. QED BY <2>1, SyncKept DEF Running
<1>7. QED BY <1>5, <1>6

\* What a rank has received once it is in phase n, and what it has sent.
AfterReceives(r, c, n) ==
  \A p, q \in Ranks :
    IF q = r /\ q \in DOMAIN ghostRange[p]
      THEN Carries(c[p][q], PatternMessages(p, q), PatternTook(n, calls'[r]),
                   PatternSent(Num(p), calls[p]))
      ELSE c[p][q] = chan[p][q]
SendsNothing(r, c, n) ==
  /\ PatternSent(n, calls'[r]) = PatternSent(Num(r), calls[r])
  /\ \A p, q \in Ranks : chan'[p][q] = c[p][q]
SendsNext(r, c, n) ==
  /\ PatternSent(n, calls'[r]) = PatternSent(Num(r), calls[r]) + 1
  /\ \E k \in Nat :
       /\ k = PatternSent(Num(r), calls[r]) + 1
       /\ \A p, q \in Ranks :
            chan'[p][q] = IF p = r /\ q \in DOMAIN ghostRange[r]
                            THEN Append(c[p][q], PatternMessages(p, q)[k]) ELSE c[p][q]

\* A step leaves the links as they should be when the rank has received what it
\* should (c) and sent what it should.
LEMMA PatternLinksKept ==
  ASSUME Running, NEW r \in Ranks, \A q \in Ranks : Num(q) \in 9..16,
         \A p, q \in Ranks : PatternLink(p, q), NEW n \in 9..16,
         \A q \in Ranks : Num(q)' = IF q = r THEN n ELSE Num(q),
         UNCHANGED FixedByNow, \A q \in Ranks : q # r => calls'[q] = calls[q],
         calls'[r] \in Nat,
         NEW c, AfterReceives(r, c, n), SendsNothing(r, c, n) \/ SendsNext(r, c, n)
  PROVE  \A p, q \in Ranks : PatternLink(p, q)'
<1>0. PICK took \in Nat, sent \in Nat :
        took = PatternTook(n, calls'[r]) /\ sent = PatternSent(Num(r), calls[r])
  <2>1. PatternTook(n, calls'[r]) \in Nat
    BY DEF PatternTook
  <2>2. Num(r) \in 9..16 /\ calls[r] \in Nat
    BY DEF Running, Types
  <2>3. PatternSent(Num(r), calls[r]) \in Nat
    BY <2>2 DEF PatternSent
  <2>4. QED BY <2>1, <2>3
<1> SUFFICES ASSUME NEW p \in Ranks, NEW q \in Ranks PROVE PatternLink(p, q)'
  OBVIOUS
<1> DEFINE m == PatternMessages(p, q)
<1>1. ghostRange' = ghostRange
  BY DEF FixedByNow
<1>2. m' = m
  BY MessagesFixed
<1>3. CASE q \notin DOMAIN ghostRange[p]
  <2>1. chan[p][q] = <<>>
    BY <1>3 DEF PatternLink
  <2>2. c[p][q] = chan[p][q]
    BY <1>3 DEF AfterReceives
  <2>3. p = r => q \notin DOMAIN ghostRange[r]
    BY <1>3
  <2>4. chan'[p][q] = <<>>
    BY <2>1, <2>2, <2>3 DEF SendsNothing, SendsNext
  <2>5. QED BY <1>1, <1>3, <2>4 DEF PatternLink
<1>4. CASE q \in DOMAIN ghostRange[p]
  <2>1. PICK t \in Nat : t = PatternTook(Num(q), calls[q])'
    <3>1. CASE q = r
      <4>1. PatternTook(Num(q), calls[q])' = PatternTook(n, calls'[r])
        <5>1. Num(q)' = n
          BY <3>1
        <5>2. QED BY <3>1, <5>1 DEF PatternTook
      <4>2. QED BY <1>0, <4>1
    <3>2. CASE q # r
      <4>1. Num(q) \in 9..16 /\ calls[q] \in Nat
        BY DEF Running, Types
      <4>2. PatternTook(Num(q), calls[q]) \in Nat
        BY <4>1 DEF PatternTook
      <4>3. PatternTook(Num(q), calls[q])' = PatternTook(Num(q), calls[q])
        BY <3>2 DEF PatternTook
      <4>4. QED BY <4>2, <4>3
    <3>3. QED BY <3>1, <3>2
  <2>2. PICK s \in Nat : s = PatternSent(Num(p), calls[p])
    <3>1. Num(p) \in 9..16 /\ calls[p] \in Nat
      BY DEF Running, Types
    <3>2. PatternSent(Num(p), calls[p]) \in Nat
      BY <3>1 DEF PatternSent
    <3>3. QED BY <3>2
  <2>3. Carries(c[p][q], m, t, s)
    <3>1. CASE q = r
      <4>1. Num(q)' = n
        BY <3>1
      <4>2. PatternTook(Num(q), calls[q])' = PatternTook(n, calls'[r])
        BY <3>1, <4>1 DEF PatternTook
      <4>3. t = took
        BY <1>0, <2>1, <4>2
      <4>4. QED BY <1>0, <1>4, <2>2, <3>1, <4>3 DEF AfterReceives
    <3>2. CASE q # r
      <4>1. PatternTook(Num(q), calls[q])' = PatternTook(Num(q), calls[q])
        BY <3>2 DEF PatternTook
      <4>2. Carries(chan[p][q], m, t, s)
        BY <1>4, <2>1, <2>2, <4>1 DEF PatternLink
      <4>3. c[p][q] = chan[p][q]
        BY <3>2 DEF AfterReceives
      <4>4. QED BY <4>2, <4>3
    <3>3. QED BY <3>1, <3>2
  <2>4. CASE p # r
    <3>1. PatternSent(Num(p), calls[p])' = s
      BY <2>2, <2>4 DEF PatternSent
    <3>2. chan'[p][q] = c[p][q]
      BY <2>4 DEF SendsNothing, SendsNext
    <3> HIDE DEF m
    <3>3. Carries(chan'[p][q], m', PatternTook(Num(q), calls[q])', PatternSent(Num(p), calls[p])')
      BY <1>2, <2>1, <2>3, <3>1, <3>2
    <3>4. QED BY <1>1, <1>4, <3>3 DEF PatternLink, m
  <2>5. CASE p = r
    <3>1. s = sent /\ PatternSent(Num(p), calls[p])' = PatternSent(n, calls'[r])
      <4>1. Num(p)' = n
        BY <2>5
      <4>2. QED BY <1>0, <2>2, <2>5, <4>1 DEF PatternSent
    <3>2. CASE PatternSent(n, calls'[r]) = sent /\ chan'[p][q] = c[p][q]
      <4> HIDE DEF m
      <4>1. Carries(chan'[p][q], m', PatternTook(Num(q), calls[q])', PatternSent(Num(p), calls[p])')
        BY <1>2, <2>1, <2>3, <3>1, <3>2
      <4>2. QED BY <1>1, <1>4, <4>1 DEF PatternLink, m
    <3>3. ASSUME PatternSent(n, calls'[r]) = sent + 1, NEW k \in Nat, k = sent + 1,
                 chan'[p][q] = Append(c[p][q], m[k])
          PROVE  PatternLink(p, q)'
      <4> HIDE DEF m
      <4>1. m[k] = m[s + 1]
        BY <3>1, <3>3
      <4>2. Carries(Append(c[p][q], m[s + 1]), m, t, s + 1)
        BY <2>3, Push
      <4>3. Carries(chan'[p][q], m', PatternTook(Num(q), calls[q])', PatternSent(Num(p), calls[p])')
        BY <1>2, <2>1, <3>1, <3>3, <4>1, <4>2
      <4>4. QED BY <1>1, <1>4, <4>3 DEF PatternLink, m
    <3>4. CASE SendsNothing(r, c, n)
      BY <1>0, <3>2, <3>4 DEF SendsNothing
    <3>5. CASE SendsNext(r, c, n)
      BY <1>0, <1>4, <2>5, <3>3, <3>5 DEF SendsNext
    <3>6. QED BY <3>4, <3>5
  <2>6. QED BY <2>4, <2>5
<1>5. QED BY <1>3, <1>4

\* A receive takes the message that is due on every link.
LEMMA PatternTakes ==
  ASSUME Running, NEW r \in Ranks, Num(r) \in {10, 11, 13, 16},
         NEW t, NEW took \in Nat, took = PatternTook(Num(r), calls[r]), NEW n, n = took + 1,
         \A q \in Ranks : PatternMessages(q, r)[n].tag = t,
         NEW froms, froms = Requesters(r, ghostRange), Arrived(r, froms, t)
  PROVE  LET c == Taken(r, froms, t) IN
         /\ ChanOK(c)
         /\ \A p, q \in Ranks :
              IF q = r /\ q \in DOMAIN ghostRange[p]
                THEN /\ Carries(c[p][q], PatternMessages(p, q), n, PatternSent(Num(p), calls[p]))
                     /\ Received(r, p, t) = PatternMessages(p, q)[n].data
                ELSE c[p][q] = chan[p][q]
<1> DEFINE c == Taken(r, froms, t)
<1>1. ChanOK(chan) /\ \A p, q \in Ranks : PatternLink(p, q)
  <2>1. Num(r) > 9
    OBVIOUS
  <2>2. QED BY <2>1, PatternBasics
<1>2. ChanOK(c) /\ \A p, q \in Ranks :
        c[p][q] = IF p \in froms /\ q = r THEN RemoveAt(chan[p][r], FirstMatch(r, p, t))
                                          ELSE chan[p][q]
  BY <1>1, TakenFacts
<1>3. ASSUME NEW p \in Ranks, r \in DOMAIN ghostRange[p]
      PROVE  /\ Carries(c[p][r], PatternMessages(p, r), n, PatternSent(Num(p), calls[p]))
             /\ Received(r, p, t) = PatternMessages(p, r)[n].data
  <2>1. p \in froms
    BY <1>3 DEF Requesters
  <2>2. PICK s \in Nat : PatternSent(Num(p), calls[p]) = s
    <3>1. Num(p) \in 1..16 /\ calls[p] \in Nat
      BY NumIsNumber DEF Running, Types
    <3>2. PatternSent(Num(p), calls[p]) \in Nat
      BY <3>1 DEF PatternSent
    <3>3. QED BY <3>2
  <2>3. Carries(chan[p][r], PatternMessages(p, r), took, s)
    BY <1>1, <1>3, <2>2 DEF PatternLink
  <2>4. chan[p][r] # <<>>
    BY <2>1, ArrivedFacts
  <2> DEFINE m == PatternMessages(p, r)
  <2> HIDE DEF m
  <2>5. m[took + 1].tag = t /\ m[took + 1] = m[n]
    <3>1. m[n].tag = t
      BY DEF m
    <3>2. QED BY <3>1
  <2>6. /\ Received(r, p, t) = m[took + 1].data
        /\ Carries(RemoveAt(chan[p][r], FirstMatch(r, p, t)), m, took + 1, s)
    <3>1. Carries(chan[p][r], m, took, s) /\ m[took + 1].tag = t
      BY <2>3, <2>5 DEF m
    <3>2. QED BY <2>4, <3>1, Pop
  <2>7. c[p][r] = RemoveAt(chan[p][r], FirstMatch(r, p, t))
    BY <1>2, <2>1
  <2>8. QED BY <2>2, <2>5, <2>6, <2>7 DEF m
<1>4. ASSUME NEW p \in Ranks, NEW q \in Ranks, ~(q = r /\ q \in DOMAIN ghostRange[p])
      PROVE  c[p][q] = chan[p][q]
  <2>1. ~(p \in froms /\ q = r)
    BY <1>4 DEF Requesters
  <2>2. QED BY <1>2, <2>1
<1> HIDE DEF c
<1>5. QED BY <1>2, <1>3, <1>4 DEF c

LEMMA MovesTo ==
  ASSUME Types, NEW r \in Ranks, NEW c \in DOMAIN Phases, Goes(r, c)
  PROVE  /\ pc' \in [Ranks -> DOMAIN Phases]
         /\ \A q \in Ranks : Num(q)' = IF q = r THEN PhaseNumber(c) ELSE Num(q)
<1>1. pc \in [Ranks -> DOMAIN Phases] /\ pc' = [pc EXCEPT ![r] = c]
  BY DEF Types, Goes
<1>2. QED BY <1>1, Moves

LEMMA TargetRest ==
  ASSUME Running, NEW r \in Ranks, NEW n \in 9..16,
         \A q \in Ranks : Num(q)' = IF q = r THEN n ELSE Num(q),
         UNCHANGED FixedByNow,
         \A q \in Ranks : q # r => numFor'[q] = numFor[q] /\ ownedFor'[q] = ownedFor[q],
         n >= 10 => DOMAIN numFor'[r] = Requesters(r, ghostRange),
         n >= 12 => ownedFor'[r] = [q \in Requesters(r, ghostRange) |-> LocalAt(q, r)]
  PROVE  TargetSide'
<1>1. \A q \in Ranks : Requesters(q, ghostRange)' = Requesters(q, ghostRange)
  BY DEF FixedByNow, Requesters
<1>2. \A p, q : LocalAt(p, q)' = LocalAt(p, q)
  BY DEF FixedByNow, LocalAt, GhostsAt
<1>3. \A q \in Ranks : [p \in Requesters(q, ghostRange) |-> LocalAt(p, q)]'
                         = [p \in Requesters(q, ghostRange) |-> LocalAt(p, q)]
  BY <1>1, <1>2
<1>4. ASSUME NEW q \in Ranks
      PROVE  /\ Num(q)' >= 10 => DOMAIN numFor'[q] = Requesters(q, ghostRange)
             /\ Num(q)' >= 12 => ownedFor'[q] = [p \in Requesters(q, ghostRange) |-> LocalAt(p, q)]
  <2>1. CASE q = r
    <3>1. Num(q)' = n
      BY <2>1
    <3>2. QED BY <2>1, <3>1
  <2>2. CASE q # r
    <3>1. Num(q)' = Num(q) /\ numFor'[q] = numFor[q] /\ ownedFor'[q] = ownedFor[q]
      BY <2>2
    <3>2. QED BY <3>1 DEF Running, TargetSide
  <2>3. QED BY <2>1, <2>2
<1>5. QED BY <1>1, <1>3, <1>4 DEF TargetSide

LEMMA SendCountsRuns ==
  ASSUME Running, NEW r \in Ranks, SendCounts(r), UNCHANGED transferVars PROVE Running'
<1> DEFINE what == [p \in DOMAIN ghostRange[r] |-> <<Size(ghostRange[r][p])>>]
           n == 10
<1>1. /\ Num(r) = 9 /\ Goes(r, "counts") /\ AllIn("ask")
      /\ numFor' = [numFor EXCEPT ![r] = [q \in Requesters(r, ghostRange) |-> 0]]
      /\ chan' = SendIndexed(chan, r, what)
      /\ UNCHANGED FixedByNow /\ UNCHANGED <<ownedFor, values, calls>>
  BY PhaseNumbers DEF SendCounts, SendIndexed, At, Num, transferVars, mapping, FixedByNow
<1>2. /\ pc' \in [Ranks -> DOMAIN Phases]
      /\ \A q \in Ranks : Num(q)' = IF q = r THEN n ELSE Num(q)
  BY <1>1, PhaseNames, PhaseNumbers, MovesTo DEF Running
<1>3. /\ \A q \in Ranks : Num(q) \in 9..16
      /\ \A p, q \in Ranks : PatternLink(p, q)
      /\ ChanOK(chan)
  BY <1>1, PatternBasics
<1>4. /\ ChanOK(chan')
      /\ \A p, q \in Ranks :
           chan'[p][q] = IF p = r /\ q \in DOMAIN what
                           THEN Append(chan[p][q], Message(PatternTag, what[q])) ELSE chan[p][q]
  <2> HIDE DEF what
  <2>1. QED BY <1>1, <1>3, SendFacts
<1>5. /\ calls'[r] = 0 /\ calls[r] = 0 /\ calls' \in [Ranks -> Nat]
      /\ \A q \in Ranks : q # r => calls'[q] = calls[q]
  BY <1>1 DEF Running, Types
<1>6. /\ n \in 9..16 /\ n = Num(r) + 1 /\ n < 11 /\ n <= 12 /\ ~(n > 12) /\ ~(n >= 12)
      /\ PatternTook(n, calls'[r]) = 0 /\ PatternTook(Num(r), calls[r]) = 0
      /\ PatternSent(n, calls'[r]) = 1 /\ PatternSent(Num(r), calls[r]) = 0
  BY <1>1 DEF PatternTook, PatternSent
<1> HIDE DEF n
<1>7. Types' /\ Sync'
  <2>1. OnRanks(values)' /\ OnRanks(numFor)' /\ OnRanks(ownedFor)'
    BY <1>1 DEF Running, Types, OnRanks
  <2>2. \A q \in Ranks : Num(q) >= Num(r)
    BY <1>1, <1>3
  <2>3. UNCHANGED FixedByNow
    BY <1>1
  <2>4. QED BY <1>2, <1>4, <1>5, <1>6, <2>1, <2>2, <2>3, PatternTypesKept
<1>8. Lists' /\ GhostSide' /\ ~Mapping'
  BY <1>1, <1>2, <1>3, <1>6, PatternRest
<1>9. TargetSide'
  <2>1. DOMAIN numFor'[r] = Requesters(r, ghostRange)
    BY <1>1 DEF Running, Types, OnRanks
  <2>2. \A q \in Ranks : q # r => numFor'[q] = numFor[q] /\ ownedFor'[q] = ownedFor[q]
    BY <1>1 DEF Running, Types, OnRanks
  <2>3. QED BY <1>1, <1>2, <1>6, <2>1, <2>2, TargetRest
<1>10. \A p, q \in Ranks : PatternLink(p, q)'
  <2>1. AfterReceives(r, chan, n)
    <3>1. ASSUME NEW p \in Ranks, NEW q \in Ranks, q = r, q \in DOMAIN ghostRange[p]
          PROVE  Carries(chan[p][q], PatternMessages(p, q), PatternTook(n, calls'[r]),
                         PatternSent(Num(p), calls[p]))
      BY <1>3, <1>6, <3>1 DEF PatternLink
    <3>2. QED BY <3>1 DEF AfterReceives
  <2>2. SendsNext(r, chan, n)
    <3> DEFINE k == 1
    <3>1. ASSUME NEW q \in Ranks, q \in DOMAIN ghostRange[r]
          PROVE  Message(PatternTag, what[q]) = PatternMessages(r, q)[k]
      <4>1. PatternMessages(r, q)[k] = Message(PatternTag, <<Size(ghostRange[r][q])>>)
        BY PatternMessagesFacts
      <4>2. QED BY <3>1, <4>1
    <3>2. DOMAIN what = DOMAIN ghostRange[r]
      OBVIOUS
    <3>3. k \in Nat /\ k = PatternSent(Num(r), calls[r]) + 1
      BY <1>6
    <3> HIDE DEF what, k
    <3>4. \A p, q \in Ranks :
            chan'[p][q] = IF p = r /\ q \in DOMAIN ghostRange[r]
                            THEN Append(chan[p][q], PatternMessages(p, q)[k]) ELSE chan[p][q]
      BY <1>4, <3>1, <3>2
    <3>5. PatternSent(n, calls'[r]) = PatternSent(Num(r), calls[r]) + 1
      BY <1>6
    <3>6. QED BY <3>3, <3>4, <3>5 DEF SendsNext
  <2>3. calls'[r] \in Nat
    BY <1>5
  <2>4. UNCHANGED FixedByNow
    BY <1>1
  <2>5. QED BY <1>2, <1>3, <1>5, <1>6, <2>1, <2>2, <2>3, <2>4, PatternLinksKept
<1>11. Links'
  BY <1>8, <1>10 DEF Links
<1>12. QED BY <1>7, <1>8, <1>9, <1>11 DEF Running

LEMMA SendIndicesRuns ==
  ASSUME Running, NEW r \in Ranks, SendIndices(r), UNCHANGED transferVars, threw' = {}
  PROVE  Running'
<1> DEFINE froms == DOMAIN numFor[r]
           what == [p \in DOMAIN ghostRange[r] |-> LocalAt(r, p)]
           taken == Taken(r, froms, PatternTag)
           n == 11
           m == 1
<1>1. /\ Num(r) = 10 /\ Goes(r, "indices") /\ Arrived(r, froms, PatternTag)
      /\ \A o \in DOMAIN ghostRange[r] : ~Foreign(r, o)
      /\ numFor' = [numFor EXCEPT ![r] = [q \in froms |-> Received(r, q, PatternTag)[1]]]
      /\ chan' = SendIndexed(taken, r, what)
      /\ UNCHANGED FixedByNow /\ UNCHANGED <<ownedFor, values, calls>>
  <2> DEFINE bad == {p \in DOMAIN ghostRange[r] : Foreign(r, p)}
             good == {p \in DOMAIN ghostRange[r] : \A b \in bad : p < b}
  <2>1. bad = {}
    <3>1. r \in threw \cup {r}
      OBVIOUS
    <3>2. ~Throws(r)
      BY <3>1 DEF Throws
    <3>3. QED BY <3>2 DEF SendIndices
  <2>2. good = DOMAIN ghostRange[r]
    <3> HIDE DEF bad
    <3>1. QED BY <2>1
  <2>3. chan' = SendIndexed(taken, r, [p \in good |-> LocalAt(r, p)])
    BY DEF SendIndices, SendIndexed
  <2>4. /\ Num(r) = 10 /\ Arrived(r, froms, PatternTag)
        /\ numFor' = [numFor EXCEPT ![r] = [q \in froms |-> Received(r, q, PatternTag)[1]]]
        /\ UNCHANGED <<owned, ghosts, ghostRange, ownedFor>>
    BY PhaseNumbers DEF SendIndices, At, Num
  <2>5. Goes(r, "indices")
    BY <2>1 DEF SendIndices
  <2>6. UNCHANGED FixedByNow /\ UNCHANGED <<ownedFor, values, calls>>
    BY <2>4 DEF FixedByNow, transferVars, mapping
  <2>7. chan' = SendIndexed(taken, r, what)
    <3> HIDE DEF good, taken
    <3>1. QED BY <2>2, <2>3
  <2>8. QED BY <2>1, <2>4, <2>5, <2>6, <2>7
<1>2. /\ pc' \in [Ranks -> DOMAIN Phases]
      /\ \A q \in Ranks : Num(q)' = IF q = r THEN n ELSE Num(q)
  BY <1>1, PhaseNames, PhaseNumbers, MovesTo DEF Running
<1>3. /\ \A q \in Ranks : Num(q) \in 9..16
      /\ \A p, q \in Ranks : PatternLink(p, q)
      /\ ChanOK(chan)
  <2>1. Num(r) > 9
    BY <1>1
  <2>2. QED BY <2>1, PatternBasics
<1>4. froms = Requesters(r, ghostRange)
  <2>1. Num(r) >= 10
    BY <1>1
  <2>2. QED BY <2>1 DEF Running, TargetSide
<1>5. /\ calls'[r] = 0 /\ calls[r] = 0 /\ calls' \in [Ranks -> Nat]
      /\ \A q \in Ranks : q # r => calls'[q] = calls[q]
  BY <1>1 DEF Running, Types
<1>6. /\ n \in 9..16 /\ n = Num(r) + 1 /\ n <= 12 /\ ~(n > 12) /\ ~(n >= 12)
      /\ Num(r) \notin Gates /\ Num(r) \in {10, 11, 13, 16}
      /\ PatternTook(n, calls'[r]) = m /\ m = PatternTook(Num(r), calls[r]) + 1
      /\ PatternTook(Num(r), calls[r]) \in Nat
      /\ PatternSent(n, calls'[r]) = 2 /\ PatternSent(Num(r), calls[r]) = 1
  BY <1>1, <1>5 DEF PatternTook, PatternSent, Gates
<1>7. \A q \in Ranks : PatternMessages(q, r)[m].tag = PatternTag
  BY PatternMessagesParts
<1> HIDE DEF n, m
<1>8. /\ ChanOK(taken)
      /\ \A p, q \in Ranks :
           IF q = r /\ q \in DOMAIN ghostRange[p]
             THEN Carries(taken[p][q], PatternMessages(p, q), m, PatternSent(Num(p), calls[p]))
             ELSE taken[p][q] = chan[p][q]
  BY <1>1, <1>4, <1>6, <1>7, PatternTakes
<1> HIDE DEF taken
<1>9. /\ ChanOK(chan')
      /\ \A p, q \in Ranks :
           chan'[p][q] = IF p = r /\ q \in DOMAIN what
                           THEN Append(taken[p][q], Message(PatternTag, what[q])) ELSE taken[p][q]
  <2> HIDE DEF what
  <2>1. QED BY <1>1, <1>8, SendFacts
<1>10. Types' /\ Sync'
  <2>1. OnRanks(values)' /\ OnRanks(ownedFor)'
    BY <1>1 DEF Running, Types, OnRanks
  <2>2. OnRanks(numFor)'
    BY <1>1 DEF Running, Types, OnRanks
  <2>3. UNCHANGED FixedByNow
    BY <1>1
  <2>4. QED BY <1>2, <1>5, <1>6, <1>9, <2>1, <2>2, <2>3, PatternTypesKept
<1>11. Lists' /\ GhostSide' /\ ~Mapping'
  BY <1>1, <1>2, <1>3, <1>6, PatternRest
<1>12. TargetSide'
  <2>1. DOMAIN numFor'[r] = Requesters(r, ghostRange)
    BY <1>1, <1>4 DEF Running, Types, OnRanks
  <2>2. \A q \in Ranks : q # r => numFor'[q] = numFor[q] /\ ownedFor'[q] = ownedFor[q]
    BY <1>1 DEF Running, Types, OnRanks
  <2>3. QED BY <1>1, <1>2, <1>6, <2>1, <2>2, TargetRest
<1>13. \A p, q \in Ranks : PatternLink(p, q)'
  <2>1. AfterReceives(r, taken, n)
    BY <1>6, <1>8 DEF AfterReceives
  <2>2. SendsNext(r, taken, n)
    <3> DEFINE k == 2
    <3>1. ASSUME NEW q \in Ranks, q \in DOMAIN ghostRange[r]
          PROVE  Message(PatternTag, what[q]) = PatternMessages(r, q)[k]
      <4>1. PatternMessages(r, q)[k] = Message(PatternTag, LocalAt(r, q))
        BY PatternMessagesFacts
      <4>2. QED BY <3>1, <4>1
    <3>2. DOMAIN what = DOMAIN ghostRange[r]
      OBVIOUS
    <3>3. k \in Nat /\ k = PatternSent(Num(r), calls[r]) + 1
      BY <1>6
    <3> HIDE DEF what, k
    <3>4. \A p, q \in Ranks :
            chan'[p][q] = IF p = r /\ q \in DOMAIN ghostRange[r]
                            THEN Append(taken[p][q], PatternMessages(p, q)[k]) ELSE taken[p][q]
      BY <1>9, <3>1, <3>2
    <3>5. PatternSent(n, calls'[r]) = PatternSent(Num(r), calls[r]) + 1
      BY <1>6
    <3>6. QED BY <3>3, <3>4, <3>5 DEF SendsNext
  <2>3. calls'[r] \in Nat
    BY <1>5
  <2>4. UNCHANGED FixedByNow
    BY <1>1
  <2>5. QED BY <1>2, <1>3, <1>5, <1>6, <2>1, <2>2, <2>3, <2>4, PatternLinksKept
<1>14. Links'
  BY <1>11, <1>13 DEF Links
<1>15. QED BY <1>10, <1>11, <1>12, <1>14 DEF Running

LEMMA KeepIndicesRuns ==
  ASSUME Running, NEW r \in Ranks, KeepIndices(r), UNCHANGED transferVars, threw' = {}
  PROVE  Running'
<1> DEFINE froms == DOMAIN numFor[r]
           taken == Taken(r, froms, PatternTag)
           n == 12
           m == 2
<1>1. /\ Num(r) = 11 /\ Goes(r, "built") /\ Arrived(r, froms, PatternTag)
      /\ ownedFor' = [ownedFor EXCEPT ![r] = [q \in froms |-> Received(r, q, PatternTag)]]
      /\ chan' = taken
      /\ UNCHANGED FixedByNow /\ UNCHANGED <<numFor, values, calls>>
  <2>1. r \in threw \cup {r}
    OBVIOUS
  <2>2. ~Throws(r)
    BY <2>1 DEF Throws
  <2>3. QED BY <2>2, PhaseNumbers DEF KeepIndices, At, Num, FixedByNow, transferVars, mapping
<1>2. /\ pc' \in [Ranks -> DOMAIN Phases]
      /\ \A q \in Ranks : Num(q)' = IF q = r THEN n ELSE Num(q)
  BY <1>1, PhaseNames, PhaseNumbers, MovesTo DEF Running
<1>3. /\ \A q \in Ranks : Num(q) \in 9..16
      /\ \A p, q \in Ranks : PatternLink(p, q)
      /\ ChanOK(chan)
  <2>1. Num(r) > 9
    BY <1>1
  <2>2. QED BY <2>1, PatternBasics
<1>4. froms = Requesters(r, ghostRange)
  <2>1. Num(r) >= 10
    BY <1>1
  <2>2. QED BY <2>1 DEF Running, TargetSide
<1>5. /\ calls'[r] = 0 /\ calls[r] = 0 /\ calls' \in [Ranks -> Nat]
      /\ \A q \in Ranks : q # r => calls'[q] = calls[q]
  BY <1>1 DEF Running, Types
<1>6. /\ n \in 9..16 /\ n = Num(r) + 1 /\ n <= 12 /\ ~(n > 12) /\ Num(r) >= 11
      /\ Num(r) \notin Gates /\ Num(r) \in {10, 11, 13, 16}
      /\ PatternTook(n, calls'[r]) = m /\ m = PatternTook(Num(r), calls[r]) + 1
      /\ PatternTook(Num(r), calls[r]) \in Nat
      /\ PatternSent(n, calls'[r]) = 2 /\ PatternSent(Num(r), calls[r]) = 2
  BY <1>1, <1>5 DEF PatternTook, PatternSent, Gates
<1>7. \A q \in Ranks : /\ PatternMessages(q, r)[m].tag = PatternTag
                       /\ PatternMessages(q, r)[m].data = LocalAt(q, r)
  BY PatternMessagesParts
<1> HIDE DEF n, m
<1>8. /\ ChanOK(taken)
      /\ \A p, q \in Ranks :
           IF q = r /\ q \in DOMAIN ghostRange[p]
             THEN /\ Carries(taken[p][q], PatternMessages(p, q), m, PatternSent(Num(p), calls[p]))
                  /\ Received(r, p, PatternTag) = PatternMessages(p, q)[m].data
             ELSE taken[p][q] = chan[p][q]
  <2>1. \A q \in Ranks : PatternMessages(q, r)[m].tag = PatternTag
    BY <1>7
  <2>2. QED BY <1>1, <1>4, <1>6, <2>1, PatternTakes
<1> HIDE DEF taken
<1>9. Types' /\ Sync'
  <2>1. OnRanks(values)' /\ OnRanks(numFor)'
    BY <1>1 DEF Running, Types, OnRanks
  <2>2. OnRanks(ownedFor)'
    BY <1>1 DEF Running, Types, OnRanks
  <2>3. UNCHANGED FixedByNow /\ ChanOK(chan')
    BY <1>1, <1>8
  <2>4. QED BY <1>2, <1>5, <1>6, <2>1, <2>2, <2>3, PatternTypesKept
<1>10. Lists' /\ GhostSide' /\ ~Mapping'
  BY <1>1, <1>2, <1>3, <1>6, PatternRest
<1>11. TargetSide'
  <2>1. \A q \in froms : Received(r, q, PatternTag) = LocalAt(q, r)
    <3>1. \A q \in froms : q \in Ranks /\ r \in DOMAIN ghostRange[q]
      BY <1>4 DEF Requesters
    <3>2. QED BY <1>7, <1>8, <3>1
  <2>2. DOMAIN numFor'[r] = Requesters(r, ghostRange)
    BY <1>1, <1>4
  <2>3. ownedFor'[r] = [q \in Requesters(r, ghostRange) |-> LocalAt(q, r)]
    <3>1. ownedFor'[r] = [q \in froms |-> Received(r, q, PatternTag)]
      BY <1>1 DEF Running, Types, OnRanks
    <3>2. QED BY <1>4, <2>1, <3>1
  <2>4. \A q \in Ranks : q # r => numFor'[q] = numFor[q] /\ ownedFor'[q] = ownedFor[q]
    BY <1>1 DEF Running, Types, OnRanks
  <2>5. QED BY <1>1, <1>2, <1>6, <2>2, <2>3, <2>4, TargetRest
<1>12. \A p, q \in Ranks : PatternLink(p, q)'
  <2>1. AfterReceives(r, taken, n)
    BY <1>6, <1>8 DEF AfterReceives
  <2>2. SendsNothing(r, taken, n)
    BY <1>1, <1>6 DEF SendsNothing
  <2>3. calls'[r] \in Nat
    BY <1>5
  <2>4. UNCHANGED FixedByNow
    BY <1>1
  <2>5. QED BY <1>2, <1>3, <1>5, <1>6, <2>1, <2>2, <2>3, <2>4, PatternLinksKept
<1>13. Links'
  BY <1>10, <1>12 DEF Links
<1>14. QED BY <1>9, <1>10, <1>11, <1>13 DEF Running

\* The steps of a call.
LEMMA ComputesRuns ==
  ASSUME Running, NEW r \in Ranks, NEW next \in DOMAIN Phases, NEW n, n = PhaseNumber(next),
         Num(r) \in {12, 15}, n = Num(r) + 1, Computes(r, next)
  PROVE  Running'
<1>0. PICK made \in Nat : made = calls[r] + 1
  BY DEF Running, Types
<1> DEFINE what == [p \in DOMAIN ghostRange[r] |-> GhostValues(r, p, Computed(r, made))]
<1>1. /\ Goes(r, next)
      /\ chan' = SendValued(chan, r, what)
      /\ calls' = [calls EXCEPT ![r] = made]
      /\ values' = [values EXCEPT ![r] = Computed(r, made)]
      /\ UNCHANGED FixedByNow /\ UNCHANGED <<numFor, ownedFor>>
  <2>1. /\ Goes(r, next)
        /\ calls' = [calls EXCEPT ![r] = made]
        /\ UNCHANGED FixedByNow /\ UNCHANGED <<numFor, ownedFor>>
    BY <1>0 DEF Computes, FixedByNow, pattern, mapping
  <2>2. chan' = SendValued(chan, r, what)
    BY <1>0 DEF Computes, SendValued
  <2>3. values' = [values EXCEPT ![r] = Computed(r, made)]
    BY <1>0 DEF Computes
  <2>4. QED BY <2>1, <2>2, <2>3
<1>2. /\ pc' \in [Ranks -> DOMAIN Phases]
      /\ \A q \in Ranks : Num(q)' = IF q = r THEN n ELSE Num(q)
  BY <1>1, MovesTo DEF Running
<1>3. /\ \A q \in Ranks : Num(q) \in 9..16
      /\ \A p, q \in Ranks : PatternLink(p, q)
      /\ ChanOK(chan)
  <2>1. Num(r) > 9
    OBVIOUS
  <2>2. QED BY <2>1, PatternBasics
<1>4. /\ ChanOK(chan')
      /\ \A p, q \in Ranks :
           chan'[p][q] = IF p = r /\ q \in DOMAIN what
                           THEN Append(chan[p][q], Message(GatherTag, what[q])) ELSE chan[p][q]
  <2> HIDE DEF what
  <2>1. QED BY <1>1, <1>3, SendValuesFacts
<1>5. /\ calls'[r] = made /\ made > 0 /\ calls' \in [Ranks -> Nat]
      /\ \A q \in Ranks : q # r => calls'[q] = calls[q]
  BY <1>0, <1>1 DEF Running, Types
<1>6. /\ n \in 9..16 /\ ~(n <= 12) /\ n > 12 /\ n >= 12 /\ Num(r) >= 12 /\ Num(r) >= 11
      /\ Num(r) \notin Gates
      /\ PatternTook(n, calls'[r]) = PatternTook(Num(r), calls[r])
      /\ PatternSent(n, calls'[r]) = PatternSent(Num(r), calls[r]) + 1
      /\ PatternSent(Num(r), calls[r]) + 1 = made + 2
  BY <1>0, <1>5 DEF PatternTook, PatternSent, Gates, Running, Types
<1>7. Types' /\ Sync'
  <2>1. OnRanks(values)' /\ OnRanks(numFor)' /\ OnRanks(ownedFor)'
    BY <1>1 DEF Running, Types, OnRanks
  <2>2. UNCHANGED FixedByNow
    BY <1>1
  <2>3. QED BY <1>2, <1>4, <1>5, <1>6, <2>1, <2>2, PatternTypesKept
<1>8. Lists' /\ GhostSide' /\ ~Mapping'
  BY <1>1, <1>2, <1>3, <1>6, PatternRest
<1>9. TargetSide'
  <2>1. /\ DOMAIN numFor'[r] = Requesters(r, ghostRange)
        /\ ownedFor'[r] = [q \in Requesters(r, ghostRange) |-> LocalAt(q, r)]
    <3>1. Num(r) >= 10 /\ Num(r) >= 12
      BY <1>6
    <3>2. QED BY <1>1, <3>1 DEF Running, TargetSide
  <2>2. QED BY <1>1, <1>2, <1>6, <2>1, TargetRest
<1>10. \A p, q \in Ranks : PatternLink(p, q)'
  <2>1. AfterReceives(r, chan, n)
    <3>1. ASSUME NEW p \in Ranks, NEW q \in Ranks, q = r, q \in DOMAIN ghostRange[p]
          PROVE  Carries(chan[p][q], PatternMessages(p, q), PatternTook(n, calls'[r]),
                         PatternSent(Num(p), calls[p]))
      BY <1>3, <1>6, <3>1 DEF PatternLink
    <3>2. QED BY <3>1 DEF AfterReceives
  <2>2. SendsNext(r, chan, n)
    <3>1. PICK k \in Nat : k = made + 2
      OBVIOUS
    <3>2. ASSUME NEW q \in Ranks, q \in DOMAIN ghostRange[r]
          PROVE  Message(GatherTag, what[q]) = PatternMessages(r, q)[k]
      <4>1. PatternMessages(r, q)[k] = Message(GatherTag, GhostValues(r, q, Computed(r, made)))
        BY <1>5, <3>1, PatternValuesFacts
      <4>2. QED BY <3>2, <4>1
    <3>3. DOMAIN what = DOMAIN ghostRange[r]
      OBVIOUS
    <3>4. k \in Nat /\ k = PatternSent(Num(r), calls[r]) + 1
      BY <1>6, <3>1
    <3> HIDE DEF what
    <3>5. \A p, q \in Ranks :
            chan'[p][q] = IF p = r /\ q \in DOMAIN ghostRange[r]
                            THEN Append(chan[p][q], PatternMessages(p, q)[k]) ELSE chan[p][q]
      BY <1>4, <3>2, <3>3
    <3>6. PatternSent(n, calls'[r]) = PatternSent(Num(r), calls[r]) + 1
      BY <1>6
    <3>7. QED BY <3>4, <3>5, <3>6 DEF SendsNext
  <2>3. calls'[r] \in Nat
    BY <1>5
  <2>4. UNCHANGED FixedByNow
    BY <1>1
  <2>5. QED BY <1>2, <1>3, <1>5, <1>6, <2>1, <2>2, <2>3, <2>4, PatternLinksKept
<1>11. Links'
  BY <1>8, <1>10 DEF Links
<1>12. QED BY <1>7, <1>8, <1>9, <1>11 DEF Running

LEMMA InsertsRuns ==
  ASSUME Running, NEW r \in Ranks, NEW next \in DOMAIN Phases, NEW n, n = PhaseNumber(next),
         (Num(r) = 13 /\ n = 14) \/ (Num(r) = 16 /\ n = 15), Inserts(r, next)
  PROVE  Running'
<1> DEFINE froms == DOMAIN ownedFor[r]
           taken == Taken(r, froms, GatherTag)
<1>1. /\ Goes(r, next) /\ Arrived(r, froms, GatherTag)
      /\ chan' = taken
      /\ values' = [values EXCEPT ![r] = Inserted(r)]
      /\ UNCHANGED FixedByNow /\ UNCHANGED <<numFor, ownedFor, calls>>
  BY DEF Inserts, FixedByNow, pattern, mapping
<1>2. /\ pc' \in [Ranks -> DOMAIN Phases]
      /\ \A q \in Ranks : Num(q)' = IF q = r THEN n ELSE Num(q)
  BY <1>1, MovesTo DEF Running
<1>3. /\ \A q \in Ranks : Num(q) \in 9..16
      /\ \A p, q \in Ranks : PatternLink(p, q)
      /\ ChanOK(chan)
  <2>1. Num(r) > 9
    OBVIOUS
  <2>2. QED BY <2>1, PatternBasics
<1>4. /\ DOMAIN numFor[r] = Requesters(r, ghostRange)
      /\ ownedFor[r] = [q \in Requesters(r, ghostRange) |-> LocalAt(q, r)]
  <2>1. Num(r) >= 10 /\ Num(r) >= 12
    OBVIOUS
  <2>2. QED BY <2>1 DEF Running, TargetSide
<1>5. froms = Requesters(r, ghostRange)
  BY <1>4
<1>6. /\ calls'[r] = calls[r] /\ calls[r] \in Nat /\ calls[r] > 0 /\ calls' \in [Ranks -> Nat]
      /\ \A q \in Ranks : q # r => calls'[q] = calls[q]
  BY <1>1 DEF Running, Types
<1>7. PICK m \in Nat : m = calls[r] + 2
  BY <1>6
<1>8. /\ n \in 9..16 /\ ~(n <= 12) /\ n > 12 /\ n >= 12 /\ Num(r) >= 11
      /\ n = Num(r) + 1 \/ (Num(r) = 16 /\ n = 15)
      /\ Num(r) \notin Gates /\ Num(r) \in {10, 11, 13, 16}
      /\ PatternTook(n, calls'[r]) = m /\ m = PatternTook(Num(r), calls[r]) + 1
      /\ PatternTook(Num(r), calls[r]) \in Nat
      /\ PatternSent(n, calls'[r]) = PatternSent(Num(r), calls[r])
  BY <1>6, <1>7 DEF PatternTook, PatternSent, Gates
<1>9. \A q \in Ranks : PatternMessages(q, r)[m].tag = GatherTag
  BY <1>6, <1>7, PatternValuesFacts
<1>10. /\ ChanOK(taken)
       /\ \A p, q \in Ranks :
            IF q = r /\ q \in DOMAIN ghostRange[p]
              THEN Carries(taken[p][q], PatternMessages(p, q), m, PatternSent(Num(p), calls[p]))
              ELSE taken[p][q] = chan[p][q]
  BY <1>1, <1>5, <1>8, <1>9, PatternTakes
<1> HIDE DEF taken
<1>11. Types' /\ Sync'
  <2>1. OnRanks(values)' /\ OnRanks(numFor)' /\ OnRanks(ownedFor)'
    BY <1>1 DEF Running, Types, OnRanks
  <2>2. UNCHANGED FixedByNow /\ ChanOK(chan')
    BY <1>1, <1>10
  <2>3. calls'[r] > 0
    BY <1>6
  <2>4. QED BY <1>2, <1>6, <1>8, <2>1, <2>2, <2>3, PatternTypesKept
<1>12. Lists' /\ GhostSide' /\ ~Mapping'
  BY <1>1, <1>2, <1>3, <1>8, PatternRest
<1>13. TargetSide'
  BY <1>1, <1>2, <1>4, <1>8, TargetRest
<1>14. \A p, q \in Ranks : PatternLink(p, q)'
  <2>1. AfterReceives(r, taken, n)
    BY <1>8, <1>10 DEF AfterReceives
  <2>2. SendsNothing(r, taken, n)
    BY <1>1, <1>8 DEF SendsNothing
  <2>3. calls'[r] \in Nat
    BY <1>6
  <2>4. UNCHANGED FixedByNow
    BY <1>1
  <2>5. QED BY <1>2, <1>3, <1>6, <1>8, <2>1, <2>2, <2>3, <2>4, PatternLinksKept
<1>15. Links'
  BY <1>12, <1>14 DEF Links
<1>16. QED BY <1>11, <1>12, <1>13, <1>15 DEF Running

LEMMA AgreeRuns ==
  ASSUME Running, NEW r \in Ranks, Agree(r), threw' = {}
  PROVE  Running'
<1> DEFINE n == 15
<1>1. /\ Num(r) = 14 /\ Goes(r, "work") /\ AllIn("agree")
      /\ UNCHANGED FixedByNow /\ UNCHANGED <<numFor, ownedFor, values, calls, chan>>
  <2>1. r \in threw \cup {r}
    OBVIOUS
  <2>2. ~Throws(r)
    BY <2>1 DEF Throws
  <2>3. QED BY <2>2, PhaseNumbers DEF Agree, At, Num, FixedByNow, transferVars, mapping, pattern
<1>2. /\ pc' \in [Ranks -> DOMAIN Phases]
      /\ \A q \in Ranks : Num(q)' = IF q = r THEN n ELSE Num(q)
  BY <1>1, PhaseNames, PhaseNumbers, MovesTo DEF Running
<1>3. /\ \A q \in Ranks : Num(q) \in 9..16
      /\ \A p, q \in Ranks : PatternLink(p, q)
      /\ ChanOK(chan)
  <2>1. Num(r) > 9
    BY <1>1
  <2>2. QED BY <2>1, PatternBasics
<1>4. \A q \in Ranks : Num(q) >= Num(r)
  BY <1>1, PhaseNames, PhaseNumbers, Together DEF Running
<1>5. /\ calls'[r] = calls[r] /\ calls[r] \in Nat /\ calls[r] > 0 /\ calls' \in [Ranks -> Nat]
      /\ calls'[r] > 0 /\ \A q \in Ranks : q # r => calls'[q] = calls[q]
  BY <1>1 DEF Running, Types
<1>6. /\ n \in 9..16 /\ n = Num(r) + 1 /\ ~(n <= 12) /\ n > 12 /\ n >= 12 /\ Num(r) >= 11
      /\ PatternTook(n, calls'[r]) = PatternTook(Num(r), calls[r])
      /\ PatternSent(n, calls'[r]) = PatternSent(Num(r), calls[r])
  BY <1>1, <1>5 DEF PatternTook, PatternSent
<1> HIDE DEF n
<1>7. Types' /\ Sync'
  <2>1. OnRanks(values)' /\ OnRanks(numFor)' /\ OnRanks(ownedFor)'
    BY <1>1 DEF Running, Types, OnRanks
  <2>2. UNCHANGED FixedByNow /\ ChanOK(chan')
    BY <1>1, <1>3
  <2>3. QED BY <1>2, <1>4, <1>5, <1>6, <2>1, <2>2, PatternTypesKept
<1>8. Lists' /\ GhostSide' /\ ~Mapping'
  BY <1>1, <1>2, <1>3, <1>6, PatternRest
<1>9. TargetSide'
  <2>1. /\ DOMAIN numFor'[r] = Requesters(r, ghostRange)
        /\ ownedFor'[r] = [q \in Requesters(r, ghostRange) |-> LocalAt(q, r)]
    <3>1. Num(r) >= 10 /\ Num(r) >= 12
      BY <1>1
    <3>2. QED BY <1>1, <3>1 DEF Running, TargetSide
  <2>2. QED BY <1>1, <1>2, <1>6, <2>1, TargetRest
<1>10. \A p, q \in Ranks : PatternLink(p, q)'
  <2>1. AfterReceives(r, chan, n)
    <3>1. ASSUME NEW p \in Ranks, NEW q \in Ranks, q = r, q \in DOMAIN ghostRange[p]
          PROVE  Carries(chan[p][q], PatternMessages(p, q), PatternTook(n, calls'[r]),
                         PatternSent(Num(p), calls[p]))
      BY <1>3, <1>6, <3>1 DEF PatternLink
    <3>2. QED BY <3>1 DEF AfterReceives
  <2>2. SendsNothing(r, chan, n)
    BY <1>1, <1>6 DEF SendsNothing
  <2>3. calls'[r] \in Nat
    BY <1>5
  <2>4. UNCHANGED FixedByNow
    BY <1>1
  <2>5. QED BY <1>2, <1>3, <1>5, <1>6, <2>1, <2>2, <2>3, <2>4, PatternLinksKept
<1>11. Links'
  BY <1>8, <1>10 DEF Links
<1>12. QED BY <1>7, <1>8, <1>9, <1>11 DEF Running
-----------------------------------------------------------------------------
(***************************************************************************)
(* Exceptions, and what the patterns are.                                  *)
(***************************************************************************)
LEMMA GhostsOfRange ==
  ASSUME Running, NEW p \in Ranks, Num(p) >= 9, NEW o \in DOMAIN ghostRange[p]
  PROVE  /\ DOMAIN GhostsAt(p, o) = 1..(ghostRange[p][o][2] - ghostRange[p][o][1])
         /\ \A i \in DOMAIN GhostsAt(p, o) : GhostsAt(p, o)[i] \in Nat
<1> DEFINE first == ghostRange[p][o][1]
           end == ghostRange[p][o][2]
<1>1. /\ first \in Nat /\ end \in Nat /\ first < end /\ end <= Len(ghosts[p])
      /\ ghosts[p] \in Seq(Nat)
  BY DEF Running, GhostSide, Placed, Types
<1>2. \A i \in 1..(end - first) : first + i \in 1..Len(ghosts[p])
  BY <1>1
<1>3. \A i \in 1..Len(ghosts[p]) : ghosts[p][i] \in Nat
  <2> DEFINE s == ghosts[p]
  <2> HIDE DEF s
  <2>1. s \in Seq(Nat)
    BY <1>1 DEF s
  <2>2. \A i \in 1..Len(s) : s[i] \in Nat
    BY <2>1
  <2>3. QED BY <2>2 DEF s
<1>4. GhostsAt(p, o) = [i \in 1..(end - first) |-> ghosts[p][first + i]]
  BY DEF GhostsAt, Size
<1> HIDE DEF first, end
<1>5. /\ DOMAIN GhostsAt(p, o) = 1..(end - first)
      /\ \A i \in 1..(end - first) : GhostsAt(p, o)[i] = ghosts[p][first + i]
  BY <1>4
<1>6. \A i \in 1..(end - first) : GhostsAt(p, o)[i] \in Nat
  BY <1>2, <1>3, <1>5
<1>7. QED BY <1>5, <1>6 DEF first, end

LEMMA RunningPairs ==
  ASSUME Running PROVE PatternsPair
<1> SUFFICES ASSUME NEW p \in Ranks, NEW q \in Ranks, Built(p), Built(q)
             PROVE  /\ Pairs(p, q)
                    /\ \A i \in DOMAIN ghosts[p] : \E o \in DOMAIN ghostRange[p] :
                         /\ Owns(owned, o, ghosts[p][i])
                         /\ ghostRange[p][o][1] < i /\ i <= ghostRange[p][o][2]
  BY DEF PatternsPair
<1>1. Num(p) >= 9 /\ Num(p) >= 11 /\ Num(q) >= 12
  <2>1. PhaseNumber("built") = 12 /\ Num(p) \in 1..16 /\ Num(q) \in 1..16
    BY PhaseNumbers, NumIsNumber DEF Running, Types
  <2>2. Num(p) >= 12 /\ Num(q) >= 12
    BY <2>1 DEF Built, Num
  <2>3. QED BY <2>1, <2>2
<1>2. ownedFor[q] = [x \in Requesters(q, ghostRange) |-> LocalAt(x, q)]
  BY <1>1 DEF Running, TargetSide
<1>3. p \in Requesters(q, ghostRange) <=> q \in DOMAIN ghostRange[p]
  BY DEF Requesters
<1>4. Pairs(p, q)
  <2>1. CASE q \in DOMAIN ghostRange[p]
    <3> DEFINE mine == GhostsAt(p, q)
               first == owned[q][1]
    <3>1. p \in DOMAIN ownedFor[q] /\ ownedFor[q][p] = LocalAt(p, q)
      BY <1>2, <1>3, <2>1
    <3>2. LocalAt(p, q) = [i \in DOMAIN mine |-> mine[i] - first]
      BY DEF LocalAt
    <3>3. \A i \in DOMAIN mine : mine[i] \in Nat
      BY <1>1, <2>1, GhostsOfRange
    <3>4. first \in Nat
      BY DEF Running, Types
    <3>5. mine = [i \in DOMAIN mine |-> mine[i]]
      BY DEF GhostsAt
    <3> HIDE DEF mine, first
    <3>6. mine = [i \in DOMAIN LocalAt(p, q) |-> first + LocalAt(p, q)[i]]
      <4>1. DOMAIN LocalAt(p, q) = DOMAIN mine
        BY <3>2
      <4>2. \A i \in DOMAIN mine : first + LocalAt(p, q)[i] = mine[i]
        BY <3>2, <3>3, <3>4
      <4>3. QED BY <3>5, <4>1, <4>2
    <3>7. QED BY <2>1, <3>1, <3>6 DEF Pairs, mine, first
  <2>2. CASE q \notin DOMAIN ghostRange[p]
    <3>1. p \notin DOMAIN ownedFor[q]
      BY <1>2, <1>3, <2>2
    <3>2. QED BY <2>2, <3>1 DEF Pairs
  <2>3. QED BY <2>1, <2>2
<1>5. ASSUME NEW i \in DOMAIN ghosts[p]
      PROVE  \E o \in DOMAIN ghostRange[p] :
               /\ Owns(owned, o, ghosts[p][i])
               /\ ghostRange[p][o][1] < i /\ i <= ghostRange[p][o][2]
  <2>1. PICK o \in DOMAIN ghostRange[p] : ghostRange[p][o][1] < i /\ i <= ghostRange[p][o][2]
    BY <1>1, <1>5 DEF Running, GhostSide, Placed
  <2>2. ghostRange[p][o][1] \in Nat /\ ghostRange[p][o][2] \in Nat
    BY <1>1 DEF Running, GhostSide, Placed
  <2>3. i \in Nat
    <3> DEFINE s == ghosts[p]
    <3>1. s \in Seq(Nat) /\ i \in DOMAIN s
      BY <1>5 DEF Running, Types
    <3> HIDE DEF s
    <3>2. QED BY <3>1
  <2>4. PICK k \in 1..(ghostRange[p][o][2] - ghostRange[p][o][1]) : ghostRange[p][o][1] + k = i
    <3>1. i - ghostRange[p][o][1] \in 1..(ghostRange[p][o][2] - ghostRange[p][o][1])
      BY <2>1, <2>2, <2>3
    <3>2. ghostRange[p][o][1] + (i - ghostRange[p][o][1]) = i
      BY <2>2, <2>3
    <3>3. QED BY <3>1, <3>2
  <2>5. k \in DOMAIN GhostsAt(p, o) /\ GhostsAt(p, o)[k] = ghosts[p][i]
    <3>1. DOMAIN GhostsAt(p, o) = 1..(ghostRange[p][o][2] - ghostRange[p][o][1])
      BY <1>1, GhostsOfRange
    <3>2. k \in 1..Size(ghostRange[p][o])
      BY DEF Size
    <3>3. GhostsAt(p, o)[k] = ghosts[p][ghostRange[p][o][1] + k]
      BY <3>2 DEF GhostsAt
    <3>4. QED BY <2>4, <3>1, <3>3
  <2>6. ~Foreign(p, o)
    BY <1>1 DEF Running, GhostSide
  <2>7. QED BY <2>1, <2>5, <2>6 DEF Foreign
<1>6. QED BY <1>4, <1>5

LEMMA StepRuns ==
  ASSUME Running, NEW r \in Ranks, RankStep(r), threw' = {}
  PROVE  Running'
<1>1. CASE Search(r)
  BY <1>1, SearchRuns
<1>2. CASE LearnSenders(r)
  BY <1>2, LearnSendersRuns
<1>3. CASE SendNumbers(r)
  BY <1>3, SendNumbersRuns
<1>4. CASE SendIds(r)
  BY <1>4, SendIdsRuns
<1>5. CASE SendCoordinates(r)
  BY <1>5, SendCoordinatesRuns
<1>6. CASE Locate(r)
  BY <1>6, LocateRuns
<1>7. CASE MakePattern(r)
  BY <1>7, MakePatternRuns
<1>8. CASE PatternStep(r) /\ UNCHANGED transferVars
  BY <1>8, LeaveGatherRuns, SendCountsRuns, SendIndicesRuns, KeepIndicesRuns DEF PatternStep
<1>9. CASE Check(r)
  <2>1. Num(r) = 12 /\ Computes(r, "checked")
    BY <1>9, PhaseNumbers DEF Check, At, Num
  <2>2. "checked" \in DOMAIN Phases /\ PhaseNumber("checked") = 13
    BY PhaseNames, PhaseNumbers
  <2>3. QED BY <2>1, <2>2, ComputesRuns
<1>10. CASE EndCheck(r)
  <2>1. Num(r) = 13 /\ Inserts(r, "agree")
    BY <1>10, PhaseNumbers DEF EndCheck, At, Num
  <2>2. PICK next \in DOMAIN Phases, n \in Nat : next = "agree" /\ n = PhaseNumber(next) /\ n = 14
    BY PhaseNames, PhaseNumbers
  <2>3. (Num(r) = 13 /\ n = 14) \/ (Num(r) = 16 /\ n = 15)
    BY <2>1, <2>2
  <2>4. Inserts(r, next) /\ n = PhaseNumber(next)
    BY <2>1, <2>2
  <2>5. QED BY <2>3, <2>4, InsertsRuns
<1>11. CASE Agree(r)
  BY <1>11, AgreeRuns
<1>12. CASE Interpolate(r)
  <2>1. Num(r) = 15 /\ Computes(r, "insert")
    BY <1>12, PhaseNumbers DEF Interpolate, At, Num
  <2>2. "insert" \in DOMAIN Phases /\ PhaseNumber("insert") = 16
    BY PhaseNames, PhaseNumbers
  <2>3. QED BY <2>1, <2>2, ComputesRuns
<1>13. CASE EndInterpolate(r)
  <2>1. Num(r) = 16 /\ Inserts(r, "work")
    BY <1>13, PhaseNumbers DEF EndInterpolate, At, Num
  <2>2. PICK next \in DOMAIN Phases, n \in Nat : next = "work" /\ n = PhaseNumber(next) /\ n = 15
    BY PhaseNames, PhaseNumbers
  <2>3. (Num(r) = 13 /\ n = 14) \/ (Num(r) = 16 /\ n = 15)
    BY <2>1, <2>2
  <2>4. Inserts(r, next) /\ n = PhaseNumber(next)
    BY <2>1, <2>2
  <2>5. QED BY <2>3, <2>4, InsertsRuns
<1>14. QED
  BY <1>1, <1>2, <1>3, <1>4, <1>5, <1>6, <1>7, <1>8, <1>9, <1>10, <1>11, <1>12, <1>13
  DEF RankStep, MapStep, CallStep

\* Every step is made before a rank throws.
LEMMA StepsUntilThrow ==
  ASSUME NEW r \in Ranks, RankStep(r) PROVE threw = {} /\ threw \subseteq threw'
<1>1. CASE MapStep(r)
  BY <1>1 DEF MapStep, Search, LearnSenders, SendNumbers, SendIds, SendCoordinates, Locate,
              MakePattern, At
<1>2. CASE PatternStep(r)
  BY <1>2 DEF PatternStep, LeaveGather, SendCounts, SendIndices, KeepIndices, At
<1>3. CASE CallStep(r)
  BY <1>3 DEF CallStep, Check, EndCheck, Agree, Interpolate, EndInterpolate, At
<1>4. QED BY <1>1, <1>2, <1>3 DEF RankStep

\* A rank that throws has built no pattern, or has it already; and no rank goes on.
LEMMA ThrowIsAll ==
  ASSUME NEW r \in Ranks, RankStep(r), threw' # {}
  PROVE  /\ pc' = pc /\ UNCHANGED transferVars /\ UNCHANGED <<owned, ghosts, ghostRange>>
         /\ \A q \in Ranks : Built(q) => ownedFor'[q] = ownedFor[q]
<1>1. threw = {}
  BY StepsUntilThrow
<1>2. ~(UNCHANGED threw)
  BY <1>1
<1>3. CASE LeaveGather(r) /\ UNCHANGED transferVars
  BY <1>2, <1>3 DEF LeaveGather, Throws
<1>4. CASE SendIndices(r) /\ UNCHANGED transferVars
  BY <1>2, <1>4 DEF SendIndices, Throws
<1>5. CASE KeepIndices(r) /\ UNCHANGED transferVars
  <2>1. ~Built(r)
    BY <1>5, PhaseNumbers DEF KeepIndices, At, Built
  <2>2. Throws(r) /\ UNCHANGED <<owned, ghosts, ghostRange>>
    BY <1>2, <1>5 DEF KeepIndices
  <2>3. \E x : ownedFor' = [ownedFor EXCEPT ![r] = x]
    BY <1>5 DEF KeepIndices
  <2>4. \A q \in Ranks : q # r => ownedFor'[q] = ownedFor[q]
    BY <2>3
  <2>5. QED BY <1>5, <2>1, <2>2, <2>4 DEF Throws
<1>6. CASE Agree(r)
  BY <1>2, <1>6 DEF Agree, Throws, pattern
<1>7. CASE MapStep(r)
  BY <1>2, <1>7 DEF MapStep, Search, LearnSenders, SendNumbers, SendIds, SendCoordinates,
                    Locate, MakePattern
<1>8. CASE SendCounts(r)
  BY <1>2, <1>8 DEF SendCounts
<1>9. CASE Check(r) \/ EndCheck(r) \/ Interpolate(r) \/ EndInterpolate(r)
  BY <1>2, <1>9 DEF Check, EndCheck, Interpolate, EndInterpolate, Computes, Inserts
<1>10. QED BY <1>3, <1>4, <1>5, <1>6, <1>7, <1>8, <1>9 DEF RankStep, PatternStep, CallStep

LEMMA ThrowKeepsPairs ==
  ASSUME PatternsPair, NEW r \in Ranks, RankStep(r), threw' # {}
  PROVE  PatternsPair'
<1>1. /\ pc' = pc /\ UNCHANGED <<owned, ghosts, ghostRange>>
      /\ \A q \in Ranks : Built(q) => ownedFor'[q] = ownedFor[q]
  BY ThrowIsAll
<1>2. \A q \in Ranks : Built(q)' <=> Built(q)
  BY <1>1 DEF Built
<1>3. \A p, q \in Ranks : GhostsAt(p, q)' = GhostsAt(p, q)
  BY <1>1 DEF GhostsAt
<1>4. ASSUME NEW p \in Ranks, NEW q \in Ranks, Built(p)', Built(q)'
      PROVE  Pairs(p, q)'
  <2>1. Pairs(p, q) /\ ownedFor'[q] = ownedFor[q]
    BY <1>1, <1>2, <1>4 DEF PatternsPair
  <2>2. QED BY <1>1, <1>3, <2>1 DEF Pairs
<1>5. ASSUME NEW p \in Ranks, NEW q \in Ranks, Built(p)', Built(q)'
      PROVE  \A i \in DOMAIN ghosts'[p] : \E o \in DOMAIN ghostRange'[p] :
               /\ Owns(owned, o, ghosts[p][i])'
               /\ ghostRange'[p][o][1] < i /\ i <= ghostRange'[p][o][2]
  <2>1. \A i \in DOMAIN ghosts[p] : \E o \in DOMAIN ghostRange[p] :
          /\ Owns(owned, o, ghosts[p][i])
          /\ ghostRange[p][o][1] < i /\ i <= ghostRange[p][o][2]
    BY <1>2, <1>5 DEF PatternsPair
  <2>2. QED BY <1>1, <2>1 DEF Owns
<1>6. QED BY <1>4, <1>5 DEF PatternsPair

LEMMA UnchangedRuns ==
  ASSUME PatternInv, UNCHANGED vars PROVE PatternInv'
<1> USE DEF vars, patternVars, transferVars, pattern, mapping
<1>1. Types' <=> Types
  <2>1. /\ OnRanks(sendTo)' <=> OnRanks(sendTo)
        /\ OnRanks(heard)' <=> OnRanks(heard)
        /\ OnRanks(found)' <=> OnRanks(found)
        /\ OnRanks(values)' <=> OnRanks(values)
        /\ OnRanks(ghostRange)' <=> OnRanks(ghostRange)
        /\ OnRanks(numFor)' <=> OnRanks(numFor)
        /\ OnRanks(ownedFor)' <=> OnRanks(ownedFor)
        /\ OnRanks(chan)' <=> OnRanks(chan)
        /\ (\A p \in Ranks : OnRanks(chan[p]))' <=> (\A p \in Ranks : OnRanks(chan[p]))
    BY DEF OnRanks
  <2>2. \A q \in Ranks : Num(q)' = Num(q)
    BY DEF Num
  <2>3. QED BY <2>1, <2>2 DEF Types
<1>2. Sync' <=> Sync
  BY DEF Sync, Num
<1>3. Lists' <=> Lists
  BY DEF Lists, Num, Asked, SentTo, Lost, Mine, Points, NumPoints, Requesters
<1>4. Links' <=> Links
  <2>1. \A p, q : MapMessages(p, q)' = MapMessages(p, q)
    BY DEF MapMessages, Message
  <2>2. \A p, q : PatternMessages(p, q)' = PatternMessages(p, q)
    BY MessagesFixed DEF FixedByNow
  <2>3. \A p, q \in Ranks : MapLink(p, q)' <=> MapLink(p, q)
    BY <2>1 DEF MapLink, Num
  <2>4. \A p, q \in Ranks : PatternLink(p, q)' <=> PatternLink(p, q)
    BY <2>2 DEF PatternLink, Num
  <2>5. Mapping' <=> Mapping
    BY DEF Mapping, Num
  <2>6. QED BY <2>3, <2>4, <2>5 DEF Links
<1>5. GhostSide' <=> GhostSide
  BY DEF GhostSide, Placed, Foreign, GhostsAt, Owns, Num
<1>6. TargetSide' <=> TargetSide
  BY DEF TargetSide, Requesters, LocalAt, GhostsAt, Num
<1>7. PatternsPair' <=> PatternsPair
  BY DEF PatternsPair, Built, Pairs, GhostsAt, Owns
<1>8. threw' = threw
  OBVIOUS
<1>9. QED BY <1>1, <1>2, <1>3, <1>4, <1>5, <1>6, <1>7, <1>8 DEF PatternInv, Running

LEMMA PatternKept ==
  ASSUME PatternInv, [Next]_vars PROVE PatternInv'
<1>1. CASE UNCHANGED vars
  BY <1>1, UnchangedRuns
<1>2. ASSUME NEW r \in Ranks, RankStep(r) PROVE PatternInv'
  <2>1. CASE threw' = {}
    <3>1. Running'
      BY <1>2, <2>1, StepsUntilThrow, StepRuns DEF PatternInv
    <3>2. PatternsPair'
      BY <3>1, RunningPairs, PTL
    <3>3. QED BY <3>1, <3>2 DEF PatternInv
  <2>2. CASE threw' # {}
    BY <1>2, <2>2, ThrowKeepsPairs DEF PatternInv
  <2>3. QED BY <2>1, <2>2
<1>3. QED BY <1>1, <1>2 DEF Next

\* Whatever cells the points are in and however the ranks' steps interleave, the
\* indices a rank keeps for another are that rank's ghosts of its points, in the
\* order in which their values are sent back.
THEOREM PatternsPairCorrect == Spec => []PatternsPair
<1>1. PatternInv /\ [Next]_vars => PatternInv'
  BY PatternKept
<1>2. PatternInv => PatternsPair
  BY DEF PatternInv
<1>3. Init => PatternInv
  BY InitRunning
<1>4. QED BY <1>1, <1>2, <1>3, PTL DEF Spec
-----------------------------------------------------------------------------
(***************************************************************************)
(* Sums, and the ranges of the ranks.                                      *)
(***************************************************************************)
\* A sum is any of its elements and the rest.
LEMMA SumOneMore ==
  ASSUME NEW S, IsFiniteSet(S), NEW f, \A y \in S : f[y] \in Nat, NEW x \in S
  PROVE  SumOf(f, S) = f[x] + SumOf(f, S \ {x})
<1> DEFINE Bad == {n \in Nat : \E T \in SUBSET S : \E y \in T :
                     Cardinality(T) = n /\ SumOf(f, T) # f[y] + SumOf(f, T \ {y})}
<1>1. ASSUME NEW T \in SUBSET S
      PROVE  /\ IsFiniteSet(T) /\ Cardinality(T) \in Nat
             /\ SumOf(f, T) \in Nat
             /\ T # {} => SumOf(f, T) = f[Chosen(T)] + SumOf(f, T \ {Chosen(T)})
             /\ \A y \in T : Cardinality(T \ {y}) = Cardinality(T) - 1 /\ T \ {y} \in SUBSET S
  <2>1. IsFiniteSet(T)
    BY FS_Subset
  <2>2. \A y \in T : f[y] \in Nat
    OBVIOUS
  <2>3. QED BY <2>1, <2>2, SumUnfolds, FS_CardinalityType, FS_RemoveElement
<1>2. Bad = {}
  <2> SUFFICES ASSUME Bad # {} PROVE FALSE
    OBVIOUS
  <2>1. PICK n \in Bad : \A m \in Bad : n <= m
    <3>1. Bad \in SUBSET Nat
      OBVIOUS
    <3> HIDE DEF Bad
    <3>2. QED BY <3>1, LeastNumber
  <2>2. PICK T \in SUBSET S : \E y \in T : Cardinality(T) = n /\ SumOf(f, T) # f[y] + SumOf(f, T \ {y})
    BY <2>1
  <2>3. PICK y \in T : Cardinality(T) = n /\ SumOf(f, T) # f[y] + SumOf(f, T \ {y})
    BY <2>2
  <2>4. PICK c \in T : c = Chosen(T)
    BY DEF Chosen
  <2>5. n \in Nat
    OBVIOUS
  <2>6. \A z \in T : T \ {z} \in SUBSET S /\ Cardinality(T \ {z}) \in Nat /\ Cardinality(T \ {z}) < n
    <3>1. \A z \in T : T \ {z} \in SUBSET S /\ Cardinality(T \ {z}) = n - 1
      BY <1>1, <2>3
    <3>2. \A z \in T : Cardinality(T \ {z}) \in Nat
      BY <1>1, <3>1
    <3>3. QED BY <2>5, <3>1, <3>2
  <2>7. \A U \in SUBSET S : Cardinality(U) \in Nat /\ Cardinality(U) < n =>
          \A z \in U : SumOf(f, U) = f[z] + SumOf(f, U \ {z})
    <3> SUFFICES ASSUME NEW U \in SUBSET S, Cardinality(U) \in Nat, Cardinality(U) < n, NEW z \in U,
                        SumOf(f, U) # f[z] + SumOf(f, U \ {z})
                 PROVE  FALSE
      OBVIOUS
    <3>1. Cardinality(U) \in Bad
      OBVIOUS
    <3> HIDE DEF Bad
    <3>2. n <= Cardinality(U)
      BY <2>1, <3>1
    <3>3. QED BY <2>5, <3>2
  <2>8. SumOf(f, T) = f[c] + SumOf(f, T \ {c})
    BY <1>1, <2>4
  <2>9. c # y
    BY <2>3, <2>8
  <2>10. SumOf(f, T \ {c}) = f[y] + SumOf(f, (T \ {c}) \ {y})
    BY <2>6, <2>7, <2>9
  <2>11. SumOf(f, T \ {y}) = f[c] + SumOf(f, (T \ {y}) \ {c})
    BY <2>6, <2>7, <2>9
  <2>12. (T \ {y}) \ {c} = (T \ {c}) \ {y} /\ (T \ {y}) \ {c} \in SUBSET S
    OBVIOUS
  <2> DEFINE rest == SumOf(f, (T \ {y}) \ {c})
             fy == f[y]
             fc == f[c]
  <2>13. rest \in Nat /\ fy \in Nat /\ fc \in Nat
    BY <1>1, <2>12
  <2>14. SumOf(f, T) = fc + (fy + rest) /\ SumOf(f, T \ {y}) = fc + rest
    BY <2>8, <2>10, <2>11, <2>12
  <2> HIDE DEF rest, fy, fc
  <2>15. SumOf(f, T) = fy + SumOf(f, T \ {y})
    BY <2>13, <2>14
  <2>16. QED BY <2>3, <2>15 DEF fy
<1>3. QED
  <2> SUFFICES ASSUME SumOf(f, S) # f[x] + SumOf(f, S \ {x}) PROVE FALSE
    OBVIOUS
  <2>1. Cardinality(S) \in Bad
    BY <1>1
  <2>2. QED BY <1>2, <2>1

\* The sum over the numbers below n.
LEMMA SumBelow ==
  ASSUME NEW m \in Nat, NEW f, \A x \in 0..m : f[x] \in Nat
  PROVE  /\ SumOf(f, 0..(m - 1)) \in Nat
         /\ SumOf(f, 0..m) = SumOf(f, 0..(m - 1)) + f[m]
         /\ SumOf(f, 0..m) \in Nat
<1>1. IsFiniteSet(0..m) /\ m \in 0..m
  BY FS_Interval
<1>2. (0..m) \ {m} = 0..(m - 1)
  OBVIOUS
<1>3. SumOf(f, 0..m) = f[m] + SumOf(f, (0..m) \ {m})
  BY <1>1, SumOneMore
<1>4. IsFiniteSet(0..(m - 1)) /\ \A x \in 0..(m - 1) : f[x] \in Nat
  BY FS_Interval
<1>5. SumOf(f, 0..(m - 1)) \in Nat
  BY <1>4, SumUnfolds
<1>6. f[m] \in Nat
  BY <1>1
<1>7. SumOf(f, 0..m) = f[m] + SumOf(f, 0..(m - 1))
  BY <1>2, <1>3
<1> HIDE DEF SumOf
<1>8. QED BY <1>5, <1>6, <1>7

\* The ranges of the ranks follow each other, and the last ends with the points.
LEMMA RangesFollow ==
  ASSUME NEW counts \in [Ranks -> Nat]
  PROVE  LET own == RangesOf(counts) IN
         /\ \A r \in Ranks : /\ own[r][1] \in Nat /\ own[r][2] = own[r][1] + counts[r]
                             /\ own[r][2] <= SumFunction(counts)
         /\ \A p, q \in Ranks : p < q => own[p][2] <= own[q][1]
         /\ SumFunction(counts) \in Nat
<1> DEFINE own == RangesOf(counts)
           Before(n) == SumOf(counts, 0..(n - 1))
<1>1. /\ NumRanks \in Nat /\ NumRanks > 0 /\ NumRanks - 1 \in Nat
      /\ \A r : r \in Ranks <=> (r \in Nat /\ r < NumRanks)
  BY ConstantsOK DEF Ranks
<1>2. ASSUME NEW n \in Nat, n <= NumRanks PROVE Before(n) \in Nat
  <2>1. IsFiniteSet(0..(n - 1)) /\ \A x \in 0..(n - 1) : counts[x] \in Nat
    <3>1. 0 \in Int /\ n - 1 \in Int
      OBVIOUS
    <3>2. \A x \in 0..(n - 1) : x \in Ranks
      BY <1>1, <1>2
    <3>3. QED BY <3>1, <3>2, FS_Interval
  <2>2. QED BY <2>1, SumUnfolds
<1>3. ASSUME NEW r \in Ranks PROVE Before(r + 1) = Before(r) + counts[r] /\ r + 1 <= NumRanks /\ r \in Nat
  <2>1. r \in Nat /\ r + 1 <= NumRanks /\ (r + 1) - 1 = r /\ \A x \in 0..r : x \in Ranks
    BY <1>1
  <2>2. \A x \in 0..r : counts[x] \in Nat
    BY <2>1
  <2>3. SumOf(counts, 0..r) = SumOf(counts, 0..(r - 1)) + counts[r]
    BY <2>1, <2>2, SumBelow
  <2>4. QED BY <2>1, <2>3
<1>4. ASSUME NEW r \in Ranks PROVE own[r][1] = Before(r) /\ own[r][2] = Before(r) + counts[r]
  <2>1. SumFunctionOnSet(counts, 0..(r - 1)) = Before(r)
    BY SumsAreFolds
  <2>2. own[r] = <<SumFunctionOnSet(counts, 0..(r - 1)), SumFunctionOnSet(counts, 0..(r - 1)) + counts[r]>>
    BY DEF RangesOf
  <2> HIDE DEF own, Before
  <2>3. QED BY <2>1, <2>2
<1>5. SumFunction(counts) = Before(NumRanks)
  BY SumsAreFolds DEF SumFunction, Ranks
<1> HIDE DEF own, Before
<1>6. ASSUME NEW p \in Ranks
      PROVE  \A n \in Nat : p < n /\ n <= NumRanks => Before(p) + counts[p] <= Before(n)
  <2> DEFINE Bad == {n \in Nat : p < n /\ n <= NumRanks /\ ~(Before(p) + counts[p] <= Before(n))}
  <2> SUFFICES ASSUME Bad # {} PROVE FALSE
    OBVIOUS
  <2>1. PICK n \in Bad : \A m \in Bad : n <= m
    <3>1. Bad \in SUBSET Nat
      OBVIOUS
    <3> HIDE DEF Bad
    <3>2. QED BY <3>1, LeastNumber
  <2>2. n \in Nat /\ p < n /\ n <= NumRanks /\ ~(Before(p) + counts[p] <= Before(n))
    BY <2>1
  <2>3. p \in Nat /\ Before(p) \in Nat /\ counts[p] \in Nat /\ Before(p + 1) = Before(p) + counts[p]
    BY <1>1, <1>2, <1>3
  <2>4. CASE n = p + 1
    BY <2>2, <2>3, <2>4
  <2>5. CASE n # p + 1
    <3>1. PICK m \in Nat : m + 1 = n /\ p < m /\ m < NumRanks
      <4>1. n - 1 \in Nat /\ (n - 1) + 1 = n /\ p < n - 1 /\ n - 1 < NumRanks
        BY <1>1, <2>2, <2>3, <2>5
      <4>2. QED BY <4>1
    <3>2. m \notin Bad
      <4> HIDE DEF Bad
      <4>1. ~(n <= m)
        BY <2>2, <3>1
      <4>2. QED BY <2>1, <4>1
    <3>3. Before(p) + counts[p] <= Before(m)
      BY <1>1, <3>1, <3>2
    <3>4. m \in Ranks /\ counts[m] \in Nat /\ Before(m) \in Nat /\ Before(m + 1) = Before(m) + counts[m]
      BY <1>1, <1>2, <1>3, <3>1
    <3>5. QED BY <2>2, <2>3, <3>1, <3>3, <3>4
  <2>6. QED BY <2>4, <2>5
<1>7. ASSUME NEW r \in Ranks
      PROVE  own[r][1] \in Nat /\ own[r][2] = own[r][1] + counts[r] /\ own[r][2] <= SumFunction(counts)
  BY <1>1, <1>2, <1>4, <1>5, <1>6
<1>8. ASSUME NEW p \in Ranks, NEW q \in Ranks, p < q PROVE own[p][2] <= own[q][1]
  BY <1>1, <1>4, <1>6, <1>8
<1>9. SumFunction(counts) \in Nat
  BY <1>1, <1>2, <1>5
<1>10. QED BY <1>7, <1>8, <1>9 DEF own

SizesOneByOne(own, S, g) ==
  g = [s \in SUBSET S |-> IF s = {} THEN 0 ELSE Size(own[Chosen(s)]) + g[s \ {Chosen(s)}]]

\* The ranges hold as many indices as their sizes add up to.
LEMMA SizesAddUp ==
  ASSUME NEW counts \in [Ranks -> Nat], NEW own, DOMAIN own = Ranks,
         \A r \in Ranks : Size(own[r]) = counts[r]
  PROVE  NumGlobal(own) = SumFunction(counts)
<1>1. DOMAIN counts = Ranks
  OBVIOUS
<1>2. \A r \in Ranks : Size(own[r]) = counts[r]
  OBVIOUS
<1>3. NumGlobal(own) = (CHOOSE g : SizesOneByOne(own, DOMAIN own, g))[DOMAIN own]
  BY DEF NumGlobal, MapThenSumSet, MapThenFoldSet, SizesOneByOne, Chosen
<1>4. SumFunction(counts) = SumOf(counts, Ranks)
  BY <1>1, SumsAreFolds DEF SumFunction
<1>5. \A g : SizesOneByOne(own, Ranks, g) <=> OneByOne(counts, Ranks, g)
  <2> SUFFICES ASSUME NEW g PROVE SizesOneByOne(own, Ranks, g) <=> OneByOne(counts, Ranks, g)
    OBVIOUS
  <2>1. \A s \in SUBSET Ranks : s # {} => Size(own[Chosen(s)]) = counts[Chosen(s)]
    BY <1>2 DEF Chosen
  <2> DEFINE A == [s \in SUBSET Ranks |-> IF s = {} THEN 0 ELSE Size(own[Chosen(s)]) + g[s \ {Chosen(s)}]]
             B == [s \in SUBSET Ranks |-> IF s = {} THEN 0 ELSE counts[Chosen(s)] + g[s \ {Chosen(s)}]]
  <2>2. A = B
    BY <2>1
  <2>3. QED BY <2>2 DEF SizesOneByOne, OneByOne
<1> DEFINE h == CHOOSE g : SizesOneByOne(own, Ranks, g)
<1>6. \E g : OneByOne(counts, Ranks, g)
  <2>1. IsFiniteSet(Ranks) /\ \A x \in Ranks : counts[x] \in Nat
    BY RanksFinite
  <2>2. QED BY <2>1, SumsExist
<1>7. OneByOne(counts, Ranks, h) /\ OneByOne(counts, Ranks, Sums(counts, Ranks))
  <2>1. \E g : SizesOneByOne(own, Ranks, g)
    BY <1>5, <1>6
  <2>2. SizesOneByOne(own, Ranks, h)
    BY <2>1
  <2> HIDE DEF h
  <2>3. QED BY <1>5, <1>6, <2>2 DEF Sums
<1> HIDE DEF h
<1>8. ASSUME NEW g, OneByOne(counts, Ranks, g) PROVE Unfolds(counts, Ranks, g)
  <2>1. g = [s \in SUBSET Ranks |-> IF s = {} THEN 0 ELSE counts[Chosen(s)] + g[s \ {Chosen(s)}]]
    BY <1>8 DEF OneByOne
  <2>2. QED BY <2>1 DEF Unfolds
<1> DEFINE k == Sums(counts, Ranks)
<1>9. Unfolds(counts, Ranks, h) /\ Unfolds(counts, Ranks, k)
  BY <1>7, <1>8
<1> HIDE DEF k
<1>10. h[Ranks] = k[Ranks]
  BY <1>9, SumsUnique, RanksFinite
<1>11. QED BY <1>1, <1>3, <1>4, <1>10 DEF h, k, SumOf

LEMMA GlobalIsPoints ==
  ASSUME NEW counts \in [Ranks -> Nat] PROVE NumGlobal(RangesOf(counts)) = SumFunction(counts)
<1> DEFINE own == RangesOf(counts)
<1>1. DOMAIN own = Ranks
  BY DEF RangesOf
<1>2. \A r \in Ranks : Size(own[r]) = counts[r]
  BY RangesFollow DEF Size
<1> HIDE DEF own
<1>3. QED BY <1>1, <1>2, SizesAddUp DEF own
-----------------------------------------------------------------------------
(***************************************************************************)
(* Positions in an index set kept as ranges.                               *)
(***************************************************************************)
EntriesOneByOne(b, S, g) ==
  g = [s \in SUBSET S |-> IF s = {} THEN 0
                          ELSE (b[2 * Chosen(s)] - b[2 * Chosen(s) - 1]) + g[s \ {Chosen(s)}]]

LEMMA EntriesAreSums ==
  ASSUME NEW b, NEW k \in Nat, NEW f, \A j \in 1..(k - 1) : f[j] = b[2 * j] - b[2 * j - 1] /\ f[j] \in Nat
  PROVE  EntriesBefore(b, k) = SumOf(f, 1..(k - 1))
<1> DEFINE T == 1..(k - 1)
<1>1. EntriesBefore(b, k) = (CHOOSE g : EntriesOneByOne(b, T, g))[T]
  BY DEF EntriesBefore, MapThenSumSet, MapThenFoldSet, EntriesOneByOne, Chosen
<1>2. IsFiniteSet(T) /\ \A x \in T : f[x] \in Nat
  <2>1. 1 \in Int /\ k - 1 \in Int
    OBVIOUS
  <2>2. QED BY <2>1, FS_Interval
<1>3. \A j \in T : f[j] = b[2 * j] - b[2 * j - 1]
  OBVIOUS
<1> HIDE DEF T
<1>4. \A g : EntriesOneByOne(b, T, g) <=> OneByOne(f, T, g)
  <2> SUFFICES ASSUME NEW g PROVE EntriesOneByOne(b, T, g) <=> OneByOne(f, T, g)
    OBVIOUS
  <2>1. \A s \in SUBSET T : s # {} => b[2 * Chosen(s)] - b[2 * Chosen(s) - 1] = f[Chosen(s)]
    BY <1>3 DEF Chosen
  <2> DEFINE A == [s \in SUBSET T |-> IF s = {} THEN 0
                          ELSE (b[2 * Chosen(s)] - b[2 * Chosen(s) - 1]) + g[s \ {Chosen(s)}]]
             B == [s \in SUBSET T |-> IF s = {} THEN 0 ELSE f[Chosen(s)] + g[s \ {Chosen(s)}]]
  <2>2. A = B
    BY <2>1
  <2>3. QED BY <2>2 DEF EntriesOneByOne, OneByOne
<1> DEFINE h == CHOOSE g : EntriesOneByOne(b, T, g)
           w == Sums(f, T)
<1>5. \E g : OneByOne(f, T, g)
  BY <1>2, SumsExist
<1>6. OneByOne(f, T, h) /\ OneByOne(f, T, w)
  <2>1. \E g : EntriesOneByOne(b, T, g)
    BY <1>4, <1>5
  <2>2. EntriesOneByOne(b, T, h)
    BY <2>1
  <2> HIDE DEF h
  <2>3. QED BY <1>4, <1>5, <2>2 DEF Sums
<1> HIDE DEF h, w
<1>7. ASSUME NEW g, OneByOne(f, T, g) PROVE Unfolds(f, T, g)
  <2>1. g = [s \in SUBSET T |-> IF s = {} THEN 0 ELSE f[Chosen(s)] + g[s \ {Chosen(s)}]]
    BY <1>7 DEF OneByOne
  <2>2. QED BY <2>1 DEF Unfolds
<1>8. h[T] = w[T]
  BY <1>2, <1>6, <1>7, SumsUnique
<1>9. QED BY <1>1, <1>8 DEF h, w, SumOf, T

LEMMA EntriesFacts ==
  ASSUME NEW b, NEW k \in Nat \ {0}, \A j \in 1..k : b[2 * j] - b[2 * j - 1] \in Nat
  PROVE  /\ EntriesBefore(b, 1) = 0 /\ EntriesBefore(b, k) \in Nat
         /\ EntriesBefore(b, k + 1) = EntriesBefore(b, k) + (b[2 * k] - b[2 * k - 1])
<1> DEFINE f == [j \in 1..k |-> b[2 * j] - b[2 * j - 1]]
<1>1. \A j \in 1..k : f[j] = b[2 * j] - b[2 * j - 1] /\ f[j] \in Nat
  OBVIOUS
<1>2. /\ IsFiniteSet(1..k) /\ IsFiniteSet(1..(k - 1)) /\ k \in 1..k /\ (1..k) \ {k} = 1..(k - 1)
      /\ (k + 1) - 1 = k /\ k + 1 \in Nat /\ 1..(1 - 1) = {}
  BY FS_Interval
<1> HIDE DEF f
<1>3. SumOf(f, 1..(k - 1)) \in Nat
  <2>1. \A j \in 1..(k - 1) : f[j] \in Nat
    BY <1>1
  <2>2. QED BY <1>2, <2>1, SumUnfolds
<1>4. SumOf(f, 1..k) = f[k] + SumOf(f, 1..(k - 1))
  <2>1. \A j \in 1..k : f[j] \in Nat
    BY <1>1
  <2>2. SumOf(f, 1..k) = f[k] + SumOf(f, (1..k) \ {k})
    BY <1>2, <2>1, SumOneMore
  <2>3. QED BY <1>2, <2>2
<1>5. EntriesBefore(b, k) = SumOf(f, 1..(k - 1))
  <2>1. \A j \in 1..(k - 1) : f[j] = b[2 * j] - b[2 * j - 1] /\ f[j] \in Nat
    BY <1>1
  <2>2. QED BY <2>1, EntriesAreSums
<1>6. EntriesBefore(b, k + 1) = SumOf(f, 1..k)
  <2> DEFINE m == k + 1
  <2>1. m \in Nat /\ m - 1 = k
    OBVIOUS
  <2> HIDE DEF m
  <2>2. \A j \in 1..(m - 1) : f[j] = b[2 * j] - b[2 * j - 1] /\ f[j] \in Nat
    BY <1>1, <2>1
  <2>3. EntriesBefore(b, m) = SumOf(f, 1..(m - 1))
    BY <2>1, <2>2, EntriesAreSums
  <2>4. QED BY <2>1, <2>3 DEF m
<1>7. EntriesBefore(b, 1) = 0
  <2>1. \A j \in 1..(1 - 1) : f[j] = b[2 * j] - b[2 * j - 1] /\ f[j] \in Nat
    OBVIOUS
  <2>2. EntriesBefore(b, 1) = SumOf(f, 1..(1 - 1))
    BY <2>1, EntriesAreSums
  <2>3. IsFiniteSet({}) /\ \A x \in {} : f[x] \in Nat
    BY FS_EmptySet
  <2>4. SumOf(f, {}) = 0
    BY <2>3, SumUnfolds
  <2>5. QED BY <1>2, <2>2, <2>4
<1>8. f[k] \in Nat /\ f[k] = b[2 * k] - b[2 * k - 1]
  BY <1>1, <1>2
<1> HIDE DEF SumOf
<1>9. SumOf(f, 1..k) = SumOf(f, 1..(k - 1)) + f[k]
  BY <1>3, <1>4, <1>8
<1>10. QED BY <1>3, <1>5, <1>6, <1>7, <1>8, <1>9

\* How many elements are before the next number.
LEMMA NextBelow ==
  ASSUME NEW T \in SUBSET Nat, IsFiniteSet(T), NEW x \in Nat
  PROVE  /\ IsFiniteSet(Below(T, x)) /\ Cardinality(Below(T, x)) \in Nat
         /\ Cardinality(Below(T, x + 1)) = Cardinality(Below(T, x)) + (IF x \in T THEN 1 ELSE 0)
         /\ Cardinality(Below(T, 0)) = 0
<1>1. Below(T, x) \in SUBSET T /\ x \notin Below(T, x)
  BY DEF Below
<1>0. Below(T, 0) = {} /\ \A z \in T : z < x + 1 <=> (z < x \/ z = x)
  <2>1. \A z \in T : z \in Nat
    OBVIOUS
  <2>2. \A z \in T : ~(z < 0) /\ (z < x + 1 <=> (z < x \/ z = x))
    BY <2>1
  <2>3. QED BY <2>2 DEF Below
<1>2. IsFiniteSet(Below(T, x)) /\ Cardinality(Below(T, x)) \in Nat
  BY <1>1, FS_Subset, FS_CardinalityType
<1>3. CASE x \in T
  <2>1. Below(T, x + 1) = Below(T, x) \cup {x}
    BY <1>0, <1>3 DEF Below
  <2>2. Cardinality(Below(T, x) \cup {x}) = Cardinality(Below(T, x)) + 1
    BY <1>1, <1>2, FS_AddElement
  <2>3. Below(T, 0) = {}
    BY <1>0
  <2>4. QED BY <1>2, <1>3, <2>1, <2>2, <2>3, FS_EmptySet
<1>4. CASE x \notin T
  <2>1. Below(T, x + 1) = Below(T, x)
    BY <1>0, <1>4 DEF Below
  <2>2. Below(T, 0) = {}
    BY <1>0
  <2>3. QED BY <1>2, <1>4, <2>1, <2>2, FS_EmptySet
<1>5. QED BY <1>3, <1>4

\* The starts and the ends of the ranges a set is kept as.
Edges(S) == {x \in S : x = 0 \/ x - 1 \notin S} \cup {x + 1 : x \in {y \in S : y + 1 \notin S}}

LEMMA EdgesFacts ==
  ASSUME NEW S \in SUBSET Nat, NEW n \in Nat, \A y \in S : y < n
  PROVE  /\ Edges(S) \in SUBSET Nat /\ IsFiniteSet(Edges(S)) /\ IsFiniteSet(S)
         /\ Boundaries(S) = Sorted(Edges(S))
         /\ 0 \in Edges(S) <=> 0 \in S
         /\ \A x \in Nat : x + 1 \in Edges(S) <=> ~(x \in S <=> x + 1 \in S)
<1>1. Edges(S) \in SUBSET (0..n) /\ S \in SUBSET (0..n)
  <2>1. \A x \in S : x \in 0..n /\ x + 1 \in 0..n
    <3>1. \A x \in S : x \in Nat /\ x < n
      OBVIOUS
    <3>2. QED BY <3>1
  <2>2. QED BY <2>1 DEF Edges
<1>2. IsFiniteSet(0..n)
  BY FS_Interval
<1>3. IsFiniteSet(Edges(S)) /\ IsFiniteSet(S)
  BY <1>1, <1>2, FS_Subset
<1>4. 0 \in Edges(S) <=> 0 \in S
  BY DEF Edges
<1>5. ASSUME NEW x \in Nat PROVE x + 1 \in Edges(S) <=> ~(x \in S <=> x + 1 \in S)
  <2>1. x + 1 \in {z \in S : z = 0 \/ z - 1 \notin S} <=> (x + 1 \in S /\ x \notin S)
    OBVIOUS
  <2>2. x + 1 \in {z + 1 : z \in {y \in S : y + 1 \notin S}} <=> (x \in S /\ x + 1 \notin S)
    <3>1. ASSUME NEW z \in {y \in S : y + 1 \notin S}, z + 1 = x + 1 PROVE z = x
      BY <3>1
    <3>2. QED BY <3>1
  <2>3. QED BY <2>1, <2>2 DEF Edges
<1>6. Boundaries(S) = Sorted(Edges(S))
  BY DEF Boundaries, Edges
<1>7. QED BY <1>1, <1>3, <1>4, <1>5, <1>6

\* The edges up to x: 2k - 1 of them inside the k-th range, 2k - 2 before it.
Counted(S, x, k) ==
  LET b == Sorted(Edges(S)) IN
  IF x \in S
    THEN /\ Cardinality(Below(Edges(S), x + 1)) = 2 * k - 1
         /\ b[2 * k - 1] \in Nat /\ b[2 * k - 1] <= x
         /\ Cardinality(Below(S, x)) = EntriesBefore(b, k) + x - b[2 * k - 1]
    ELSE /\ Cardinality(Below(Edges(S), x + 1)) = 2 * k - 2
         /\ Cardinality(Below(S, x)) = EntriesBefore(b, k)

LEMMA EdgesInOrder ==
  ASSUME NEW S \in SUBSET Nat, NEW n \in Nat, \A y \in S : y < n
  PROVE  LET B == Edges(S)  b == Sorted(B) IN
         /\ Cardinality(B) \in Nat /\ DOMAIN b = 1..Cardinality(B)
         /\ \A i \in 1..Cardinality(B) : b[i] \in Nat
         /\ \A j \in Nat \ {0} : 2 * j <= Cardinality(B) => b[2 * j] - b[2 * j - 1] \in Nat
         /\ \A x \in Nat : /\ Cardinality(Below(B, x)) \in Nat
                           /\ Cardinality(Below(B, x)) <= Cardinality(B)
                           /\ x \in B => /\ b[Cardinality(Below(B, x)) + 1] = x
                                         /\ Cardinality(Below(B, x)) < Cardinality(B)
                           /\ \A i \in 1..Cardinality(B) :
                                b[i] > x <=> i > Cardinality(Below(B, x + 1))
<1> DEFINE B == Edges(S)
           b == Sorted(B)
           c == Cardinality(B)
<1>1. B \in SUBSET Nat /\ IsFiniteSet(B)
  BY EdgesFacts
<1> HIDE DEF B
<1>2. /\ b \in Seq(B) /\ Len(b) = c /\ c \in Nat
      /\ \A i \in 1..c : b[i] \in B /\ Cardinality(Below(B, b[i])) = i - 1
      /\ \A i, j \in 1..c : i < j => b[i] < b[j]
      /\ \A x \in B : Cardinality(Below(B, x)) + 1 \in 1..c /\ b[Cardinality(Below(B, x)) + 1] = x
  BY <1>1, SortedFacts
<1> HIDE DEF b, c
<1>3. DOMAIN b = 1..c /\ \A i \in 1..c : b[i] \in Nat
  <2>1. DOMAIN b = 1..c
    BY <1>2
  <2>2. \A y \in B : y \in Nat
    BY <1>1
  <2>3. QED BY <1>2, <2>1, <2>2
<1>4. ASSUME NEW j \in Nat \ {0}, 2 * j <= c PROVE b[2 * j] - b[2 * j - 1] \in Nat
  <2>1. PICK k \in 1..c, m \in 1..c : k = 2 * j /\ m = 2 * j - 1 /\ m < k
    <3>1. 2 * j \in 1..c /\ 2 * j - 1 \in 1..c /\ 2 * j - 1 < 2 * j
      BY <1>2, <1>4
    <3>2. QED BY <3>1
  <2>2. b[m] < b[k] /\ b[m] \in Nat /\ b[k] \in Nat
    BY <1>2, <1>3, <2>1
  <2>3. b[k] - b[m] \in Nat
    BY <2>2
  <2>4. QED BY <2>1, <2>3
<1>5. ASSUME NEW x \in Nat
      PROVE  IsFiniteSet(Below(B, x)) /\ Cardinality(Below(B, x)) \in Nat /\ Cardinality(Below(B, x)) <= c
  <2>1. Below(B, x) \in SUBSET B
    BY DEF Below
  <2>2. QED BY <1>1, <2>1, FS_Subset, FS_CardinalityType DEF c
<1>6. ASSUME NEW x \in Nat, x \in B
      PROVE  b[Cardinality(Below(B, x)) + 1] = x /\ Cardinality(Below(B, x)) < c
  <2>1. Cardinality(Below(B, x)) + 1 \in 1..c /\ b[Cardinality(Below(B, x)) + 1] = x
    BY <1>2, <1>6
  <2>2. Cardinality(Below(B, x)) \in Nat
    BY <1>5
  <2>3. QED BY <1>2, <2>1, <2>2
<1>7. ASSUME NEW x \in Nat, NEW i \in 1..c PROVE b[i] > x <=> i > Cardinality(Below(B, x + 1))
  <2>1. PICK z \in B : z = b[i] /\ Cardinality(Below(B, z)) = i - 1
    BY <1>2
  <2>2. z \in Nat /\ x + 1 \in Nat /\ i \in Nat /\ \A y \in B : y \in Nat
    BY <1>1, <1>2
  <2>3. /\ Cardinality(Below(B, x + 1)) \in Nat /\ IsFiniteSet(Below(B, x + 1))
        /\ Cardinality(Below(B, z)) \in Nat /\ IsFiniteSet(Below(B, z))
        /\ IsFiniteSet(Below(B, z) \cup {z}) /\ Cardinality(Below(B, z) \cup {z}) = i
    <3>1. /\ Cardinality(Below(B, x + 1)) \in Nat /\ IsFiniteSet(Below(B, x + 1))
          /\ Cardinality(Below(B, z)) \in Nat /\ IsFiniteSet(Below(B, z))
      BY <1>5, <2>2
    <3>2. IsFiniteSet(Below(B, z) \cup {z}) /\ Cardinality(Below(B, z) \cup {z}) = Cardinality(Below(B, z)) + 1
      BY <1>1, BelowFacts
    <3>3. QED BY <2>1, <2>2, <3>1, <3>2
  <2>4. CASE z > x
    <3>1. Below(B, x + 1) \in SUBSET Below(B, z)
      <4>1. \A y \in B : y < x + 1 => y < z
        BY <2>2, <2>4
      <4>2. QED BY <4>1 DEF Below
    <3>2. Cardinality(Below(B, x + 1)) <= Cardinality(Below(B, z))
      BY <2>3, <3>1, FS_Subset
    <3>3. Cardinality(Below(B, x + 1)) <= i - 1
      BY <2>1, <3>2
    <3>4. QED BY <2>1, <2>2, <2>3, <2>4, <3>3
  <2>5. CASE ~(z > x)
    <3>1. Below(B, z) \cup {z} \in SUBSET Below(B, x + 1)
      <4>1. z < x + 1 /\ \A y \in B : y < z => y < x + 1
        BY <2>2, <2>5
      <4>2. QED BY <4>1 DEF Below
    <3>2. i <= Cardinality(Below(B, x + 1))
      BY <2>3, <3>1, FS_Subset
    <3>3. QED BY <2>1, <2>2, <2>3, <2>5, <3>2
  <2>6. QED BY <2>4, <2>5
<1>8. QED BY <1>2, <1>3, <1>4, <1>5, <1>6, <1>7 DEF B, b, c

LEMMA EdgesCounted ==
  ASSUME NEW S \in SUBSET Nat, NEW n \in Nat, \A y \in S : y < n, NEW x \in Nat
  PROVE  \E k \in Nat \ {0} : Counted(S, x, k)
<1> DEFINE B == Edges(S)
           b == Sorted(B)
           At0(y) == Cardinality(Below(B, y))
           Bad == {m \in Nat : ~ \E k \in Nat \ {0} : Counted(S, m, k)}
<1>1. /\ B \in SUBSET Nat /\ IsFiniteSet(B) /\ IsFiniteSet(S)
      /\ (0 \in B <=> 0 \in S)
      /\ \A m \in Nat : m + 1 \in B <=> ~(m \in S <=> m + 1 \in S)
  BY EdgesFacts
<1>2. /\ Cardinality(B) \in Nat
      /\ \A i \in 1..Cardinality(B) : b[i] \in Nat
      /\ \A j \in Nat \ {0} : 2 * j <= Cardinality(B) => b[2 * j] - b[2 * j - 1] \in Nat
      /\ \A y \in Nat : /\ At0(y) \in Nat /\ At0(y) <= Cardinality(B)
                        /\ y \in B => b[At0(y) + 1] = y /\ At0(y) < Cardinality(B)
  BY EdgesInOrder
<1>3. /\ \A m \in Nat : At0(m + 1) = At0(m) + (IF m \in B THEN 1 ELSE 0)
      /\ At0(0) = 0
  BY <1>1, NextBelow
<1>4. /\ \A m \in Nat : /\ Cardinality(Below(S, m)) \in Nat
                        /\ Cardinality(Below(S, m + 1)) = Cardinality(Below(S, m)) + (IF m \in S THEN 1 ELSE 0)
      /\ Cardinality(Below(S, 0)) = 0
  BY <1>1, NextBelow
<1>5. \A m \in Nat, k \in Nat \ {0} :
        Counted(S, m, k) <=>
          IF m \in S
            THEN /\ At0(m + 1) = 2 * k - 1
                 /\ b[2 * k - 1] \in Nat /\ b[2 * k - 1] <= m
                 /\ Cardinality(Below(S, m)) = EntriesBefore(b, k) + m - b[2 * k - 1]
            ELSE /\ At0(m + 1) = 2 * k - 2
                 /\ Cardinality(Below(S, m)) = EntriesBefore(b, k)
  BY DEF Counted
<1>6. EntriesBefore(b, 1) = 0
  <2>1. \A j \in 1..0 : b[2 * j] - b[2 * j - 1] \in Nat
    OBVIOUS
  <2>2. EntriesBefore(b, 1) = SumOf([j \in {} |-> 0], 1..(1 - 1))
    <3> DEFINE f == [j \in {} |-> 0]
    <3> HIDE DEF f
    <3>1. \A j \in 1..(1 - 1) : f[j] = b[2 * j] - b[2 * j - 1] /\ f[j] \in Nat
      OBVIOUS
    <3>2. EntriesBefore(b, 1) = SumOf(f, 1..(1 - 1))
      BY <3>1, EntriesAreSums
    <3>3. QED BY <3>2 DEF f
  <2> DEFINE f == [j \in {} |-> 0]
  <2> HIDE DEF f
  <2>3. IsFiniteSet({}) /\ \A j \in {} : f[j] \in Nat
    BY FS_EmptySet
  <2>4. SumOf(f, {}) = 0
    BY <2>3, SumUnfolds
  <2>5. 1..(1 - 1) = {}
    OBVIOUS
  <2>6. QED BY <2>2, <2>4, <2>5 DEF f
<1> HIDE DEF B, b, At0
<1>7. ASSUME NEW k \in Nat \ {0}, 2 * k <= Cardinality(B)
      PROVE  /\ EntriesBefore(b, k) \in Nat
             /\ EntriesBefore(b, k + 1) = EntriesBefore(b, k) + (b[2 * k] - b[2 * k - 1])
             /\ b[2 * k] - b[2 * k - 1] \in Nat
  <2>1. \A j \in 1..k : j \in Nat \ {0} /\ 2 * j <= Cardinality(B)
    BY <1>2, <1>7
  <2>2. \A j \in 1..k : b[2 * j] - b[2 * j - 1] \in Nat
    BY <1>2, <2>1
  <2>3. k \in 1..k
    OBVIOUS
  <2>4. QED BY <2>2, <2>3, EntriesFacts
<1>8. Bad = {}
  <2> SUFFICES ASSUME Bad # {} PROVE FALSE
    OBVIOUS
  <2>1. PICK m \in Bad : \A l \in Bad : m <= l
    <3>1. Bad \in SUBSET Nat
      OBVIOUS
    <3> HIDE DEF Bad
    <3>2. QED BY <3>1, LeastNumber
  <2>2. m \in Nat /\ \A k \in Nat \ {0} : ~Counted(S, m, k)
    BY <2>1
  <2>3. CASE m = 0
    <3>1. CASE 0 \in S
      <4>1. At0(0 + 1) = 2 * 1 - 1
        BY <1>1, <1>3, <3>1
      <4>2. b[1] = 0
        <5>1. b[At0(0) + 1] = 0
          BY <1>1, <1>2, <3>1
        <5>2. QED BY <1>3, <5>1
      <4>3. Counted(S, 0, 1)
        <5>1. PICK k \in Nat \ {0}, z \in Nat : k = 1 /\ z = 0 /\ 2 * k - 1 = 1
          OBVIOUS
        <5>2. At0(z + 1) = 2 * k - 1 /\ b[2 * k - 1] = z
          BY <4>1, <4>2, <5>1
        <5>3. Cardinality(Below(S, z)) = EntriesBefore(b, k) + z - b[2 * k - 1]
          <6>1. Cardinality(Below(S, z)) = 0 /\ EntriesBefore(b, k) = 0
            BY <1>4, <1>6, <5>1
          <6>2. QED BY <5>1, <5>2, <6>1
        <5>4. z \in S /\ b[2 * k - 1] \in Nat /\ b[2 * k - 1] <= z
          BY <3>1, <5>1, <5>2
        <5>5. Counted(S, z, k)
          BY <1>5, <5>2, <5>3, <5>4
        <5>6. QED BY <5>1, <5>5
      <4>4. QED BY <2>2, <2>3, <4>3
    <3>2. CASE 0 \notin S
      <4>1. At0(0 + 1) = 2 * 1 - 2
        BY <1>1, <1>3, <3>2
      <4>2. Counted(S, 0, 1)
        BY <1>4, <1>5, <1>6, <3>2, <4>1
      <4>3. QED BY <2>2, <2>3, <4>2
    <3>3. QED BY <3>1, <3>2
  <2>4. CASE m # 0
    <3>1. PICK l \in Nat : m = l + 1
      <4>1. m - 1 \in Nat /\ m = (m - 1) + 1
        BY <2>2, <2>4
      <4>2. QED BY <4>1
    <3>2. PICK k \in Nat \ {0} : Counted(S, l, k)
      <4>1. l \notin Bad
        <5> HIDE DEF Bad
        <5>1. ~(m <= l)
          BY <3>1
        <5>2. QED BY <2>1, <5>1
      <4>2. QED BY <4>1
    <3>3. /\ At0(m + 1) = At0(m) + (IF m \in B THEN 1 ELSE 0) /\ At0(m) \in Nat
          /\ m \in B <=> ~(l \in S <=> m \in S)
          /\ m \in B => b[At0(m) + 1] = m /\ At0(m) + 1 <= Cardinality(B)
          /\ Cardinality(Below(S, m)) = Cardinality(Below(S, l)) + (IF l \in S THEN 1 ELSE 0)
          /\ Cardinality(Below(S, l)) \in Nat
      <4>1. /\ At0(m + 1) = At0(m) + (IF m \in B THEN 1 ELSE 0) /\ At0(m) \in Nat
            /\ m \in B <=> ~(l \in S <=> m \in S)
            /\ Cardinality(Below(S, m)) = Cardinality(Below(S, l)) + (IF l \in S THEN 1 ELSE 0)
            /\ Cardinality(Below(S, l)) \in Nat
        BY <1>1, <1>2, <1>3, <1>4, <2>2, <3>1
      <4>2. m \in B => b[At0(m) + 1] = m /\ At0(m) < Cardinality(B)
        BY <1>2, <2>2
      <4>3. At0(m) < Cardinality(B) => At0(m) + 1 <= Cardinality(B)
        BY <1>2, <4>1
      <4>4. QED BY <4>1, <4>2, <4>3
    <3>4. CASE l \in S /\ m \in S
      <4>1. /\ At0(m) = 2 * k - 1 /\ b[2 * k - 1] \in Nat /\ b[2 * k - 1] <= l
            /\ Cardinality(Below(S, l)) = EntriesBefore(b, k) + l - b[2 * k - 1]
        BY <1>5, <3>1, <3>2, <3>4
      <4>2. At0(m + 1) = 2 * k - 1
        BY <3>3, <3>4, <4>1
      <4>3. Cardinality(Below(S, m)) = EntriesBefore(b, k) + l - b[2 * k - 1] + 1
        BY <3>3, <3>4, <4>1
      <4>4. EntriesBefore(b, k) \in Nat
        <5>1. \A j \in 1..(k - 1) : j \in Nat \ {0} /\ 2 * j <= Cardinality(B)
          <6>1. At0(m) <= Cardinality(B)
            BY <1>2, <2>2
          <6>2. QED BY <1>2, <4>1, <6>1
        <5>2. QED
          <6>1. CASE k = 1
            BY <1>6, <6>1
          <6>2. CASE k # 1
            <7>1. PICK i \in Nat \ {0} : k = i + 1 /\ 2 * i <= Cardinality(B)
              <8>1. k - 1 \in 1..(k - 1) /\ k = (k - 1) + 1
                BY <6>2
              <8>2. QED BY <5>1, <8>1
            <7>2. EntriesBefore(b, i + 1) \in Nat
              <8> DEFINE d == b[2 * i] - b[2 * i - 1]
              <8>1. EntriesBefore(b, i) \in Nat /\ EntriesBefore(b, i + 1) = EntriesBefore(b, i) + d /\ d \in Nat
                BY <1>7, <7>1
              <8> HIDE DEF d
              <8>2. QED BY <8>1
            <7>3. QED BY <7>1, <7>2
          <6>3. QED BY <6>1, <6>2
      <4>5. Cardinality(Below(S, m)) = EntriesBefore(b, k) + m - b[2 * k - 1] /\ b[2 * k - 1] <= m
        <5> DEFINE d == b[2 * k - 1]
                   e == EntriesBefore(b, k)
                   s == Cardinality(Below(S, m))
        <5>1. d \in Nat /\ d <= l /\ e \in Nat /\ s = e + l - d + 1 /\ m = l + 1
          BY <3>1, <4>1, <4>3, <4>4
        <5> HIDE DEF d, e, s
        <5>2. s = e + m - d /\ d <= m
          BY <5>1
        <5>3. QED BY <5>2 DEF d, e, s
      <4>6. Counted(S, m, k)
        BY <1>5, <2>2, <3>4, <4>1, <4>2, <4>5
      <4>7. QED BY <2>2, <4>6
    <3>5. CASE l \in S /\ m \notin S
      <4>1. /\ At0(m) = 2 * k - 1 /\ b[2 * k - 1] \in Nat /\ b[2 * k - 1] <= l
            /\ Cardinality(Below(S, l)) = EntriesBefore(b, k) + l - b[2 * k - 1]
        BY <1>5, <3>1, <3>2, <3>5
      <4>2. At0(m + 1) = 2 * (k + 1) - 2 /\ At0(m) + 1 = 2 * k /\ 2 * k <= Cardinality(B)
        <5>1. m \in B
          BY <3>3, <3>5
        <5>2. At0(m) + 1 = 2 * k
          BY <4>1
        <5>3. QED BY <3>3, <5>1, <5>2
      <4>3. b[2 * k] = m
        <5>1. b[At0(m) + 1] = m
          BY <3>3, <3>5
        <5>2. QED BY <4>2, <5>1
      <4>4. /\ EntriesBefore(b, k) \in Nat
            /\ EntriesBefore(b, k + 1) = EntriesBefore(b, k) + (b[2 * k] - b[2 * k - 1])
        BY <1>7, <4>2
      <4>5. Cardinality(Below(S, m)) = EntriesBefore(b, k + 1)
        <5> DEFINE d == b[2 * k - 1]
                   e == EntriesBefore(b, k)
                   s == Cardinality(Below(S, m))
        <5>1. d \in Nat /\ e \in Nat /\ s = e + l - d + 1 /\ m = l + 1 /\ EntriesBefore(b, k + 1) = e + (m - d)
          BY <3>1, <3>3, <3>5, <4>1, <4>3, <4>4
        <5> HIDE DEF d, e, s
        <5>2. s = EntriesBefore(b, k + 1)
          BY <5>1
        <5>3. QED BY <5>2 DEF s
      <4>6. Counted(S, m, k + 1)
        <5> DEFINE j == k + 1
        <5>1. j \in Nat \ {0} /\ At0(m + 1) = 2 * j - 2 /\ Cardinality(Below(S, m)) = EntriesBefore(b, j)
          BY <4>2, <4>5
        <5> HIDE DEF j
        <5>2. Counted(S, m, j)
          BY <1>5, <2>2, <3>5, <5>1
        <5>3. QED BY <5>2 DEF j
      <4>7. k + 1 \in Nat \ {0}
        OBVIOUS
      <4>8. QED BY <2>2, <4>6, <4>7
    <3>6. CASE l \notin S /\ m \in S
      <4>1. At0(m) = 2 * k - 2 /\ Cardinality(Below(S, l)) = EntriesBefore(b, k)
        BY <1>5, <3>1, <3>2, <3>6
      <4>2. At0(m + 1) = 2 * k - 1 /\ At0(m) + 1 = 2 * k - 1
        <5>1. At0(m) + 1 = 2 * k - 1
          BY <4>1
        <5>2. QED BY <3>3, <3>6, <5>1
      <4>3. b[2 * k - 1] = m
        <5>1. b[At0(m) + 1] = m
          BY <3>3, <3>6
        <5>2. QED BY <4>2, <5>1
      <4>4. Cardinality(Below(S, m)) = EntriesBefore(b, k) + m - b[2 * k - 1]
        <5> DEFINE e == EntriesBefore(b, k)
                   s == Cardinality(Below(S, m))
        <5>1. e \in Nat /\ s = e
          BY <3>3, <3>6, <4>1
        <5> HIDE DEF e, s
        <5>2. s = e + m - m
          BY <2>2, <5>1
        <5>3. QED BY <4>3, <5>2 DEF e, s
      <4>5. b[2 * k - 1] \in Nat /\ b[2 * k - 1] <= m
        BY <2>2, <4>3
      <4>6. Counted(S, m, k)
        BY <1>5, <2>2, <3>6, <4>2, <4>4, <4>5
      <4>7. QED BY <2>2, <4>6
    <3>7. CASE l \notin S /\ m \notin S
      <4>1. At0(m) = 2 * k - 2 /\ Cardinality(Below(S, l)) = EntriesBefore(b, k)
        BY <1>5, <3>1, <3>2, <3>7
      <4>2. At0(m + 1) = 2 * k - 2 /\ Cardinality(Below(S, m)) = EntriesBefore(b, k)
        BY <3>3, <3>7, <4>1
      <4>3. Counted(S, m, k)
        BY <1>5, <2>2, <3>7, <4>2
      <4>4. QED BY <2>2, <4>3
    <3>8. QED BY <3>4, <3>5, <3>6, <3>7
  <2>5. QED BY <2>3, <2>4
<1>9. QED BY <1>8

\* getPosition finds how many indices are before one that is in the set, and
\* nothing for one that is not: the boundaries of the contiguous ranges are enough
\* to tell both.
THEOREM PositionFound ==
  ASSUME NEW S \in SUBSET Nat, NEW n \in Nat, \A y \in S : y < n, NEW x \in Nat
  PROVE  Position(S, x) = IF x \in S THEN {Cardinality(Below(S, x))} ELSE {}
<1> DEFINE b == Sorted(Edges(S))
           c == Cardinality(Below(Edges(S), x + 1))
           size == Cardinality(Edges(S))
           up == {i \in DOMAIN b : b[i] > x}
           least == LeastOf(up)
<1>1. Position(S, x) = IF up = {} \/ least % 2 = 1 THEN {} ELSE {EntriesBefore(b, least \div 2) + x - b[least - 1]}
  BY EdgesFacts DEF Position
<1>2. /\ size \in Nat /\ DOMAIN b = 1..size
      /\ \A i \in 1..size : b[i] > x <=> i > c
      /\ c \in Nat /\ c <= size
  <2>1. x + 1 \in Nat
    OBVIOUS
  <2>2. QED BY <2>1, EdgesInOrder
<1>3. PICK k \in Nat \ {0} : Counted(S, x, k)
  BY EdgesCounted
<1>4. IF x \in S
        THEN c = 2 * k - 1 /\ Cardinality(Below(S, x)) = EntriesBefore(b, k) + x - b[2 * k - 1]
        ELSE c = 2 * k - 2
  BY <1>3 DEF Counted
<1>5. x \in S => c < size
  <2> SUFFICES ASSUME x \in S PROVE c < size
    OBVIOUS
  <2> DEFINE Out == {y \in Nat : y > x /\ y \notin S}
  <2>1. PICK y \in Out : \A z \in Out : y <= z
    <3>1. Out \in SUBSET Nat /\ n \in Out
      OBVIOUS
    <3> HIDE DEF Out
    <3>2. QED BY <3>1, LeastNumber
  <2>2. PICK z \in Nat : y = z + 1 /\ x <= z
    <3>1. y - 1 \in Nat /\ y = (y - 1) + 1 /\ x <= y - 1
      BY <2>1
    <3>2. QED BY <3>1
  <2>3. z \in S
    <3>1. z \notin Out
      <4> HIDE DEF Out
      <4>1. ~(y <= z)
        BY <2>2
      <4>2. QED BY <2>1, <4>1
    <3>2. QED BY <2>2, <3>1
  <2>4. y \in Edges(S)
    BY <2>1, <2>2, <2>3, EdgesFacts
  <2>5. y \notin Below(Edges(S), x + 1) /\ Below(Edges(S), x + 1) \in SUBSET Edges(S)
    BY <2>1 DEF Below
  <2>6. /\ IsFiniteSet(Edges(S)) /\ IsFiniteSet(Below(Edges(S), x + 1))
        /\ IsFiniteSet(Below(Edges(S), x + 1) \cup {y})
    BY <2>5, EdgesFacts, FS_Subset, FS_AddElement
  <2>7. Cardinality(Below(Edges(S), x + 1) \cup {y}) = c + 1
    BY <2>5, <2>6, FS_AddElement
  <2>8. Cardinality(Below(Edges(S), x + 1) \cup {y}) <= size
    <3>1. Below(Edges(S), x + 1) \cup {y} \in SUBSET Edges(S)
      BY <2>4, <2>5
    <3>2. QED BY <2>6, <3>1, FS_Subset
  <2> HIDE DEF c, size
  <2>9. QED BY <1>2, <2>7, <2>8
<1> HIDE DEF b, c, size
<1>6. up # {} => least = c + 1
  <2> SUFFICES ASSUME up # {} PROVE least = c + 1
    OBVIOUS
  <2>1. up \in SUBSET Nat /\ \A i \in up : i \in Nat /\ i > c /\ i <= size
    BY <1>2
  <2>2. c + 1 \in up
    <3>1. PICK i \in up : i \in Nat /\ i > c /\ i <= size
      BY <2>1
    <3>2. c + 1 \in 1..size /\ c + 1 > c
      BY <1>2, <3>1
    <3> DEFINE j == c + 1
    <3> HIDE DEF j
    <3>3. j \in 1..size /\ j > c
      BY <3>2 DEF j
    <3>4. j \in up
      BY <1>2, <3>3
    <3>5. QED BY <3>4 DEF j
  <2> HIDE DEF up
  <2>3. least \in up /\ \A i \in up : least <= i
    BY <2>1, <2>2, LeastOfFacts
  <2>4. least \in Nat /\ least > c /\ least <= c + 1
    BY <2>1, <2>2, <2>3
  <2> HIDE DEF least
  <2>5. QED BY <1>2, <2>4
<1>7. c < size => up # {}
  <2> SUFFICES ASSUME c < size PROVE up # {}
    OBVIOUS
  <2>1. PICK j \in 1..size : j > c
    <3>1. c + 1 \in 1..size /\ c + 1 > c
      BY <1>2
    <3>2. QED BY <3>1
  <2>2. j \in up
    BY <1>2, <2>1
  <2>3. QED BY <2>2
<1> HIDE DEF up, least
<1>8. CASE x \in S
  <2>1. up # {} /\ least = 2 * k /\ c = 2 * k - 1
    BY <1>4, <1>5, <1>6, <1>7, <1>8
  <2>2. ~(least % 2 = 1) /\ least \div 2 = k /\ least - 1 = 2 * k - 1
    BY <2>1
  <2>3. Position(S, x) = {EntriesBefore(b, k) + x - b[2 * k - 1]}
    BY <1>1, <2>1, <2>2
  <2>4. QED BY <1>4, <1>8, <2>3
<1>9. CASE x \notin S
  <2>1. up = {} \/ least = 2 * k - 1
    BY <1>4, <1>6, <1>9
  <2>2. (2 * k - 1) % 2 = 1
    OBVIOUS
  <2>3. QED BY <1>1, <1>9, <2>1, <2>2
<1>10. QED BY <1>8, <1>9
-----------------------------------------------------------------------------
(***************************************************************************)
(* Overlaps: the marks in order, and the pass over them.                   *)
(***************************************************************************)
\* B[x] is what is before x in a total order of S.
OrderedBy(S, B) ==
  /\ \A x \in S : x \notin B[x]
  /\ \A x, y \in S : x \in B[y] => B[x] \subseteq B[y]
  /\ \A x, y \in S : x = y \/ x \in B[y] \/ y \in B[x]

LEMMA PredecessorsCounted ==
  ASSUME NEW S, IsFiniteSet(S), NEW B \in [S -> SUBSET S], OrderedBy(S, B)
  PROVE  /\ \A x \in S : Cardinality(B[x]) \in Nat /\ Cardinality(B[x]) < Cardinality(S)
         /\ \A x, y \in S : x \in B[y] => Cardinality(B[x]) < Cardinality(B[y])
         /\ \A x, y \in S : Cardinality(B[x]) = Cardinality(B[y]) => x = y
         /\ Cardinality(S) \in Nat
<1>1. ASSUME NEW T, IsFiniteSet(T), NEW x \in S, x \in T, B[x] \subseteq T
      PROVE  Cardinality(B[x]) \in Nat /\ Cardinality(B[x]) < Cardinality(T)
  <2>1. x \notin B[x]
    BY DEF OrderedBy
  <2>2. IsFiniteSet(B[x]) /\ Cardinality(B[x]) <= Cardinality(T) /\ Cardinality(B[x]) # Cardinality(T)
    BY <1>1, <2>1, FS_Subset
  <2>3. Cardinality(B[x]) \in Nat /\ Cardinality(T) \in Nat
    BY <1>1, <2>2, FS_CardinalityType
  <2>4. QED BY <2>2, <2>3
<1>2. ASSUME NEW x \in S PROVE IsFiniteSet(B[x]) /\ B[x] \subseteq S
  BY FS_Subset
<1>3. ASSUME NEW x \in S
      PROVE  Cardinality(B[x]) \in Nat /\ Cardinality(B[x]) < Cardinality(S)
  BY <1>1, <1>2
<1>4. ASSUME NEW x \in S, NEW y \in S, x \in B[y]
      PROVE  Cardinality(B[x]) < Cardinality(B[y])
  <2>1. B[x] \subseteq B[y]
    BY <1>4 DEF OrderedBy
  <2>2. QED BY <1>1, <1>2, <1>4, <2>1
<1>5. ASSUME NEW x \in S, NEW y \in S, Cardinality(B[x]) = Cardinality(B[y])
      PROVE  x = y
  <2>1. x = y \/ x \in B[y] \/ y \in B[x]
    BY DEF OrderedBy
  <2>2. Cardinality(B[x]) \in Nat
    BY <1>3
  <2>3. x \notin B[y] /\ y \notin B[x]
    BY <1>4, <1>5, <2>2
  <2>4. QED BY <2>1, <2>3
<1>6. Cardinality(S) \in Nat
  BY FS_CardinalityType
<1>7. QED BY <1>3, <1>4, <1>5, <1>6

\* Every place is some element's, and the sequence of the elements by place is
\* the order.
LEMMA PlacesFilled ==
  ASSUME NEW S, IsFiniteSet(S), NEW B \in [S -> SUBSET S], OrderedBy(S, B),
         NEW i \in 1..Cardinality(S)
  PROVE  \E x \in S : Cardinality(B[x]) = i - 1
<1> DEFINE n == Cardinality(S)
           f == [x \in S |-> Cardinality(B[x]) + 1]
<1>1. /\ n \in Nat
      /\ \A x \in S : Cardinality(B[x]) \in Nat /\ Cardinality(B[x]) < n
      /\ \A x, y \in S : Cardinality(B[x]) = Cardinality(B[y]) => x = y
  BY PredecessorsCounted
<1> HIDE DEF n
<1>2. f \in Injection(S, 1..n)
  <2>1. f \in [S -> 1..n]
    BY <1>1
  <2>2. \A x, y \in S : f[x] = f[y] => x = y
    BY <1>1
  <2> HIDE DEF f
  <2>3. QED BY <2>1, <2>2 DEF Injection, IsInjective
<1>3. IsFiniteSet(1..n) /\ Cardinality(1..n) = n
  BY <1>1, FS_Interval
<1>4. f \in Surjection(S, 1..n)
  <2> HIDE DEF f
  <2>1. QED BY <1>2, <1>3, FS_Injection DEF n
<1>5. PICK x \in S : f[x] = i
  <2>1. i \in 1..n
    BY DEF n
  <2> HIDE DEF f
  <2>2. QED BY <1>4, <2>1 DEF Surjection
<1>6. QED BY <1>1, <1>5

LEMMA InOrderFacts ==
  ASSUME NEW S, IsFiniteSet(S), NEW B \in [S -> SUBSET S], OrderedBy(S, B), NEW s,
         \A i \in 1..Cardinality(S) : s[i] \in S /\ Cardinality(B[s[i]]) = i - 1
  PROVE  /\ \A x \in S : \E i \in 1..Cardinality(S) : s[i] = x
         /\ \A i, j \in 1..Cardinality(S) : s[i] \in B[s[j]] <=> i < j
<1>1. /\ Cardinality(S) \in Nat
      /\ \A x \in S : Cardinality(B[x]) \in Nat /\ Cardinality(B[x]) < Cardinality(S)
      /\ \A x, y \in S : x \in B[y] => Cardinality(B[x]) < Cardinality(B[y])
      /\ \A x, y \in S : Cardinality(B[x]) = Cardinality(B[y]) => x = y
  BY PredecessorsCounted
<1>2. ASSUME NEW x \in S PROVE \E i \in 1..Cardinality(S) : s[i] = x
  <2>1. PICK i \in 1..Cardinality(S) : i = Cardinality(B[x]) + 1
    BY <1>1
  <2>2. s[i] \in S /\ Cardinality(B[s[i]]) = Cardinality(B[x])
    BY <1>1, <2>1
  <2>3. QED BY <1>1, <2>2
<1>3. ASSUME NEW i \in 1..Cardinality(S), NEW j \in 1..Cardinality(S)
      PROVE  s[i] \in B[s[j]] <=> i < j
  <2>1. /\ s[i] \in S /\ s[j] \in S /\ i \in Nat /\ j \in Nat
        /\ Cardinality(B[s[i]]) = i - 1 /\ Cardinality(B[s[j]]) = j - 1
    BY <1>1
  <2>2. s[i] \in B[s[j]] => i < j
    BY <1>1, <2>1
  <2>3. s[j] \in B[s[i]] => j < i
    BY <1>1, <2>1
  <2>4. s[i] = s[j] => i = j
    BY <2>1
  <2>5. s[i] = s[j] \/ s[i] \in B[s[j]] \/ s[j] \in B[s[i]]
    BY <2>1 DEF OrderedBy
  <2>6. QED BY <2>1, <2>2, <2>3, <2>4, <2>5
<1>4. QED BY <1>2, <1>3

\* The ranges of the ranks in R, and which of them came first where the sort
\* leaves it open.
RangesAndOrder(R, own, rank) ==
  /\ IsFiniteSet(R) /\ own \in [R -> Nat \X Nat] /\ \A r \in R : own[r][1] <= own[r][2]
  /\ rank \in [R -> Nat] /\ IsInjective(rank)

MarksBefore(own, rank) ==
  [x \in Marks(own) |-> {y \in Marks(own) : MarkBefore(own, rank, y, x)}]

LEMMA MarksTyped ==
  ASSUME NEW R, NEW own, NEW rank, RangesAndOrder(R, own, rank), NEW x \in Marks(own)
  PROVE  /\ x.rank \in R /\ x.start \in BOOLEAN /\ x = [rank |-> x.rank, start |-> x.start]
         /\ own[x.rank][1] \in Nat /\ own[x.rank][2] \in Nat /\ own[x.rank][1] < own[x.rank][2]
         /\ MarkAt(own, x) = (IF x.start THEN own[x.rank][1] ELSE own[x.rank][2])
         /\ MarkAt(own, x) \in Nat /\ rank[x.rank] \in Nat
<1>1. own \in [R -> Nat \X Nat] /\ rank \in [R -> Nat] /\ \A r \in R : own[r][1] <= own[r][2]
  BY DEF RangesAndOrder
<1>2. x \in [rank : R, start : BOOLEAN] /\ own[x.rank][2] - own[x.rank][1] > 0
  BY <1>1 DEF Marks, Size
<1>3. x.rank \in R /\ x.start \in BOOLEAN /\ x = [rank |-> x.rank, start |-> x.start]
  BY <1>2
<1>4. own[x.rank][1] \in Nat /\ own[x.rank][2] \in Nat
  BY <1>1, <1>3
<1>5. own[x.rank][1] < own[x.rank][2]
  BY <1>2, <1>4
<1>6. QED BY <1>1, <1>3, <1>4, <1>5 DEF MarkAt

LEMMA MarksFinite ==
  ASSUME NEW R, NEW own, NEW rank, RangesAndOrder(R, own, rank)
  PROVE  IsFiniteSet(Marks(own))
<1> DEFINE f == [x \in Marks(own) |-> <<x.rank, x.start>>]
<1>1. IsFiniteSet(R \X BOOLEAN)
  <2>1. IsFiniteSet(BOOLEAN)
    <3>1. IsFiniteSet({} \cup {TRUE}) /\ IsFiniteSet(({} \cup {TRUE}) \cup {FALSE})
      BY FS_EmptySet, FS_AddElement
    <3>2. BOOLEAN = ({} \cup {TRUE}) \cup {FALSE}
      OBVIOUS
    <3>3. QED BY <3>1, <3>2
  <2>2. QED BY <2>1, FS_Product DEF RangesAndOrder
<1>2. f \in Injection(Marks(own), R \X BOOLEAN)
  <2>1. f \in [Marks(own) -> R \X BOOLEAN]
    BY MarksTyped
  <2>2. ASSUME NEW x \in Marks(own), NEW y \in Marks(own), f[x] = f[y] PROVE x = y
    <3>1. x.rank = y.rank /\ x.start = y.start
      BY <2>2
    <3>2. QED BY <3>1, MarksTyped
  <2> HIDE DEF f
  <2>3. QED BY <2>1, <2>2 DEF Injection, IsInjective
<1> HIDE DEF f
<1>3. QED BY <1>1, <1>2, FS_Injection

\* compareRangeMetaData, with the ties decided, is a total order of the marks.
LEMMA MarksOrdered ==
  ASSUME NEW R, NEW own, NEW rank, RangesAndOrder(R, own, rank)
  PROVE  /\ MarksBefore(own, rank) \in [Marks(own) -> SUBSET Marks(own)]
         /\ OrderedBy(Marks(own), MarksBefore(own, rank))
<1> DEFINE B == MarksBefore(own, rank)
           M == Marks(own)
<1>1. B \in [M -> SUBSET M]
  BY DEF MarksBefore
<1>2. \A x, y \in M : x \in B[y] <=> MarkBefore(own, rank, x, y)
  BY DEF MarksBefore
<1> HIDE DEF B, M
<1>3. \A x \in M : /\ MarkAt(own, x) \in Nat /\ rank[x.rank] \in Nat
                   /\ x.start \in BOOLEAN /\ x.rank \in R
                   /\ x = [rank |-> x.rank, start |-> x.start]
  BY MarksTyped DEF M
<1>4. \A p, q \in R : rank[p] = rank[q] => p = q
  BY DEF RangesAndOrder, IsInjective
<1>5. ASSUME NEW x \in M PROVE x \notin B[x]
  BY <1>2, <1>3 DEF MarkBefore
<1>6. ASSUME NEW x \in M, NEW y \in M, NEW z \in M, x \in B[y], z \in B[x] PROVE z \in B[y]
  <2>1. MarkBefore(own, rank, x, y) /\ MarkBefore(own, rank, z, x)
    BY <1>2, <1>6
  <2>2. MarkBefore(own, rank, z, y)
    BY <2>1, <1>3 DEF MarkBefore
  <2>3. QED BY <1>2, <2>2
<1>7. ASSUME NEW x \in M, NEW y \in M PROVE x = y \/ x \in B[y] \/ y \in B[x]
  <2>1. x.rank # y.rank => rank[x.rank] < rank[y.rank] \/ rank[y.rank] < rank[x.rank]
    BY <1>3, <1>4
  <2>2. x.rank = y.rank /\ x.start = y.start => x = y
    BY <1>3
  <2>3. x = y \/ MarkBefore(own, rank, x, y) \/ MarkBefore(own, rank, y, x)
    BY <1>3, <2>1, <2>2 DEF MarkBefore
  <2>4. QED BY <1>2, <2>3
<1>8. OrderedBy(M, B)
  BY <1>1, <1>5, <1>6, <1>7 DEF OrderedBy
<1>9. QED BY <1>1, <1>8 DEF B, M

LEMMA MarksInOrderFacts ==
  ASSUME NEW R, NEW own, NEW rank, RangesAndOrder(R, own, rank)
  PROVE  LET s == MarksInOrder(own, rank)
             n == Cardinality(Marks(own)) IN
         /\ n \in Nat /\ s \in Seq(Marks(own)) /\ Len(s) = n
         /\ \A i \in 1..n : s[i] \in Marks(own)
         /\ \A x \in Marks(own) : \E i \in 1..n : s[i] = x
         /\ \A i, j \in 1..n : MarkBefore(own, rank, s[i], s[j]) <=> i < j
<1> DEFINE B == MarksBefore(own, rank)
           M == Marks(own)
           n == Cardinality(M)
           s == MarksInOrder(own, rank)
           Earlier(x) == {y \in M : MarkBefore(own, rank, y, x)}
<1>1. B \in [M -> SUBSET M] /\ OrderedBy(M, B) /\ IsFiniteSet(M)
  BY MarksOrdered, MarksFinite
<1>2. s = [i \in 1..n |-> CHOOSE x \in M : Cardinality(Earlier(x)) = i - 1]
  BY DEF MarksInOrder, InOrder
<1>3. \A x \in M : B[x] = Earlier(x)
  BY DEF MarksBefore
<1>4. \A x, y \in M : x \in B[y] <=> MarkBefore(own, rank, x, y)
  BY <1>3
<1>5. n \in Nat
  BY <1>1, FS_CardinalityType
<1> HIDE DEF B, M, n, s
<1>6. ASSUME NEW i \in 1..n
      PROVE  s[i] \in M /\ Cardinality(B[s[i]]) = i - 1
  <2>1. \E x \in M : Cardinality(B[x]) = i - 1
    BY <1>1, PlacesFilled DEF n
  <2>2. \E x \in M : Cardinality(Earlier(x)) = i - 1
    BY <1>3, <2>1
  <2> DEFINE c == CHOOSE x \in M : Cardinality(Earlier(x)) = i - 1
  <2>3. c \in M /\ Cardinality(Earlier(c)) = i - 1
    BY <2>2
  <2>4. s[i] = c
    BY <1>2
  <2> HIDE DEF c
  <2>5. QED BY <1>3, <2>3, <2>4
<1>7. /\ \A x \in M : \E i \in 1..n : s[i] = x
      /\ \A i, j \in 1..n : s[i] \in B[s[j]] <=> i < j
  BY <1>1, <1>6, InOrderFacts DEF n
<1>8. s \in Seq(M) /\ Len(s) = n
  <2>1. s \in [1..n -> M]
    BY <1>2, <1>6
  <2>2. QED BY <1>5, <2>1
<1>9. QED BY <1>4, <1>5, <1>6, <1>7, <1>8 DEF M, n, s

\* One by one up to n.
LEMMA CountsUp ==
  ASSUME NEW n \in Nat, NEW T, 0 \in T, \A i \in 1..n : i - 1 \in T => i \in T
  PROVE  \A i \in 0..n : i \in T
<1> DEFINE Bad == {i \in 0..n : i \notin T}
<1> SUFFICES ASSUME Bad # {} PROVE FALSE
  OBVIOUS
<1>1. Bad \in SUBSET Nat
  OBVIOUS
<1>2. PICK i \in Bad : \A k \in Bad : i <= k
  <2> HIDE DEF Bad
  <2>1. QED BY <1>1, LeastNumber
<1>3. i \in 1..n /\ i - 1 \in 0..n /\ ~(i <= i - 1)
  OBVIOUS
<1>4. i - 1 \notin Bad
  <2> HIDE DEF Bad
  <2>1. QED BY <1>2, <1>3
<1>5. QED BY <1>3, <1>4

Start == [open |-> {}, found |-> {}]
States(R) == [open : SUBSET R, found : SUBSET R]
Scanned(own, marks, scan) ==
  scan = [i \in 0..Len(marks) |-> IF i = 0 THEN Start ELSE Visit(own, scan[i - 1], marks[i])]
ScanOf(own, marks) == CHOOSE scan : Scanned(own, marks, scan)

LEMMA OverlapIsScan ==
  ASSUME NEW own, NEW rank
  PROVE  Overlapping(own, rank)
           = ScanOf(own, MarksInOrder(own, rank))[Len(MarksInOrder(own, rank))].found
BY DEF Overlapping, ScanOf, Scanned, Start

LEMMA VisitTyped ==
  ASSUME NEW R, NEW own, NEW scan \in States(R), NEW m, m.rank \in R
  PROVE  Visit(own, scan, m) \in States(R)
BY DEF Visit, States

\* The pass has a state after every mark.
LEMMA ScanExists ==
  ASSUME NEW R, NEW own, NEW N \in Nat, NEW marks, Len(marks) = N,
         \A i \in 1..N : marks[i].rank \in R
  PROVE  \E scan \in [0..N -> States(R)] : Scanned(own, marks, scan)
<1> DEFINE Upto(k, f) == f[0] = Start /\ \A i \in 1..k : f[i] = Visit(own, f[i - 1], marks[i])
           T == {k \in 0..N : \E f \in [0..N -> States(R)] : Upto(k, f)}
<1>1. 0 \in T
  <2> DEFINE f == [i \in 0..N |-> Start]
  <2>1. f \in [0..N -> States(R)] /\ Upto(0, f)
    BY DEF States, Start
  <2> HIDE DEF f, Upto
  <2>2. QED BY <2>1
<1>2. ASSUME NEW k \in 1..N, k - 1 \in T PROVE k \in T
  <2>1. PICK f \in [0..N -> States(R)] : Upto(k - 1, f)
    BY <1>2
  <2> DEFINE v == Visit(own, f[k - 1], marks[k])
             g == [f EXCEPT ![k] = v]
  <2>2. v \in States(R)
    <3>1. f[k - 1] \in States(R) /\ marks[k].rank \in R
      OBVIOUS
    <3>2. QED BY <3>1, VisitTyped
  <2> HIDE DEF v
  <2>3. g \in [0..N -> States(R)]
    BY <2>2
  <2>4. g[0] = Start /\ g[k] = v /\ \A i \in 0..(k - 1) : g[i] = f[i]
    BY <2>1
  <2>5. ASSUME NEW i \in 1..k PROVE g[i] = Visit(own, g[i - 1], marks[i])
    <3>1. g[i - 1] = f[i - 1]
      <4>1. i - 1 \in 0..(k - 1)
        OBVIOUS
      <4> HIDE DEF g
      <4>2. QED BY <2>4, <4>1
    <3>2. CASE i = k
      BY <2>4, <3>1, <3>2 DEF v
    <3>3. CASE i # k
      <4>1. i \in 1..(k - 1) /\ i \in 0..(k - 1)
        BY <3>3
      <4>2. f[i] = Visit(own, f[i - 1], marks[i]) /\ g[i] = f[i]
        <5> HIDE DEF g
        <5>1. QED BY <2>1, <2>4, <4>1
      <4>3. QED BY <3>1, <4>2
    <3>4. QED BY <3>2, <3>3
  <2>6. Upto(k, g)
    BY <2>4, <2>5
  <2> HIDE DEF g, Upto
  <2>7. QED BY <2>3, <2>6
<1>3. N \in T
  <2>1. \A k \in 0..N : k \in T
    <3> HIDE DEF T
    <3>1. QED BY <1>1, <1>2, CountsUp
  <2>2. N \in 0..N
    OBVIOUS
  <2> HIDE DEF T
  <2>3. QED BY <2>1, <2>2
<1>4. PICK f \in [0..N -> States(R)] : Upto(N, f)
  BY <1>3
<1>5. \A i \in 0..N : f[i] = IF i = 0 THEN Start ELSE Visit(own, f[i - 1], marks[i])
  BY <1>4
<1>6. f = [i \in 0..N |-> IF i = 0 THEN Start ELSE Visit(own, f[i - 1], marks[i])]
  BY <1>5
<1>7. QED BY <1>6 DEF Scanned

LEMMA ScanFacts ==
  ASSUME NEW R, NEW own, NEW N \in Nat, NEW marks, Len(marks) = N,
         \A i \in 1..N : marks[i].rank \in R
  PROVE  LET scan == ScanOf(own, marks) IN
         /\ scan[0] = Start /\ \A i \in 1..N : scan[i] = Visit(own, scan[i - 1], marks[i])
         /\ \A i \in 0..N : scan[i] \in States(R)
<1> DEFINE scan == ScanOf(own, marks)
<1>1. Scanned(own, marks, scan)
  <2>1. \E f : Scanned(own, marks, f)
    BY ScanExists
  <2>2. QED BY <2>1 DEF ScanOf
<1> HIDE DEF scan
<1>2. \A i \in 0..N : scan[i] = IF i = 0 THEN Start ELSE Visit(own, scan[i - 1], marks[i])
  <2>1. scan = [i \in 0..N |-> IF i = 0 THEN Start ELSE Visit(own, scan[i - 1], marks[i])]
    BY <1>1 DEF Scanned
  <2> DEFINE e(i) == IF i = 0 THEN Start ELSE Visit(own, scan[i - 1], marks[i])
  <2>2. scan = [i \in 0..N |-> e(i)]
    BY <2>1
  <2> HIDE DEF e
  <2>3. \A i \in 0..N : scan[i] = e(i)
    BY <2>2
  <2>4. QED BY <2>3 DEF e
<1>3. scan[0] = Start /\ \A i \in 1..N : scan[i] = Visit(own, scan[i - 1], marks[i])
  BY <1>2
<1>4. \A i \in 0..N : scan[i] \in States(R)
  <2> DEFINE T == {i \in 0..N : scan[i] \in States(R)}
  <2>1. 0 \in T
    BY <1>3 DEF States, Start
  <2>2. ASSUME NEW i \in 1..N, i - 1 \in T PROVE i \in T
    BY <1>3, <2>2, VisitTyped
  <2> HIDE DEF T
  <2>3. \A i \in 0..N : i \in T
    BY <2>1, <2>2, CountsUp
  <2>4. QED BY <2>3 DEF T
<1>5. QED BY <1>3, <1>4 DEF scan

-----------------------------------------------------------------------------
\* The marks of a rank that has indices, in the order they are passed.
Opening(r) == [rank |-> r, start |-> TRUE]
Closing(r) == [rank |-> r, start |-> FALSE]
\* s has the marks in their order.
InMarkOrder(R, own, rank, s, n) ==
  /\ RangesAndOrder(R, own, rank) /\ n \in Nat
  /\ \A i \in 1..n : s[i] \in Marks(own)
  /\ \A x \in Marks(own) : \E i \in 1..n : s[i] = x
  /\ \A i, j \in 1..n : MarkBefore(own, rank, s[i], s[j]) <=> i < j
Passed(R, own, rank, s, n, scan) ==
  /\ InMarkOrder(R, own, rank, s, n)
  /\ scan[0] = Start /\ \A i \in 1..n : scan[i] = Visit(own, scan[i - 1], s[i])
  /\ \A i \in 0..n : scan[i] \in States(R)

HasIndices(own, r) == own[r][1] < own[r][2]
Apart(own, p, q) == own[p][2] <= own[q][1] \/ own[q][2] <= own[p][1]

LEMMA MarkFacts ==
  ASSUME NEW R, NEW own, NEW rank, NEW s, NEW n, InMarkOrder(R, own, rank, s, n)
  PROVE  /\ \A i \in 1..n : /\ s[i].rank \in R /\ s[i].start \in BOOLEAN /\ HasIndices(own, s[i].rank)
                            /\ s[i].start => s[i] = Opening(s[i].rank)
                            /\ ~s[i].start => s[i] = Closing(s[i].rank)
         /\ \A i, j \in 1..n : s[i] = s[j] => i = j
<1>1. RangesAndOrder(R, own, rank) /\ n \in Nat /\ own \in [R -> Nat \X Nat]
  BY DEF InMarkOrder, RangesAndOrder
<1>2. ASSUME NEW i \in 1..n
      PROVE  /\ s[i].rank \in R /\ s[i].start \in BOOLEAN /\ HasIndices(own, s[i].rank)
             /\ s[i].start => s[i] = Opening(s[i].rank)
             /\ ~s[i].start => s[i] = Closing(s[i].rank)
  <2>1. s[i] \in Marks(own)
    BY DEF InMarkOrder
  <2>2. /\ s[i].rank \in R /\ s[i].start \in BOOLEAN /\ HasIndices(own, s[i].rank)
        /\ s[i] = [rank |-> s[i].rank, start |-> s[i].start]
    BY <1>1, <2>1, MarksTyped DEF HasIndices
  <2>3. s[i].start = TRUE \/ s[i].start = FALSE
    BY <2>2
  <2>4. QED BY <2>2, <2>3 DEF Opening, Closing
<1>3. ASSUME NEW i \in 1..n, NEW j \in 1..n, s[i] = s[j] PROVE i = j
  <2>1. /\ MarkBefore(own, rank, s[i], s[j]) <=> i < j
        /\ MarkBefore(own, rank, s[j], s[i]) <=> j < i
    BY DEF InMarkOrder
  <2>2. i < j <=> j < i
    BY <1>3, <2>1
  <2>3. i \in Nat /\ j \in Nat
    BY <1>1
  <2>4. QED BY <2>2, <2>3
<1>4. QED BY <1>2, <1>3

\* Every range is opened and closed.
LEMMA MarksThere ==
  ASSUME NEW R, NEW own, NEW rank, NEW s, NEW n, InMarkOrder(R, own, rank, s, n),
         NEW r \in R, HasIndices(own, r)
  PROVE  (\E i \in 1..n : s[i] = Opening(r)) /\ (\E i \in 1..n : s[i] = Closing(r))
<1>1. own \in [R -> Nat \X Nat]
  BY DEF InMarkOrder, RangesAndOrder
<1>2. own[r][2] - own[r][1] > 0 /\ DOMAIN own = R
  BY <1>1 DEF HasIndices
<1>3. Opening(r) \in Marks(own) /\ Closing(r) \in Marks(own)
  BY <1>2 DEF Marks, Size, Opening, Closing
<1> QED BY <1>3 DEF InMarkOrder

\* Where the marks of two ranks are.
LEMMA MarkPlaces ==
  ASSUME NEW R, NEW own, NEW rank, NEW s, NEW n, InMarkOrder(R, own, rank, s, n),
         NEW i \in 1..n, NEW j \in 1..n, NEW p \in R, NEW q \in R
  PROVE  /\ s[i] = Opening(p) /\ s[j] = Opening(q) /\ i < j => own[p][1] <= own[q][1]
         /\ s[i] = Opening(p) /\ s[j] = Closing(q) => (i < j <=> own[p][1] < own[q][2])
<1>1. MarkBefore(own, rank, s[i], s[j]) <=> i < j
  BY DEF InMarkOrder
<1>2. own[p][1] \in Nat /\ own[q][1] \in Nat /\ own[q][2] \in Nat
  BY DEF InMarkOrder, RangesAndOrder
<1>3. CASE s[i] = Opening(p) /\ s[j] = Opening(q)
  BY <1>1, <1>2, <1>3 DEF MarkBefore, MarkAt, Opening, Closing
<1>4. CASE s[i] = Opening(p) /\ s[j] = Closing(q)
  <2>1. /\ MarkAt(own, s[i]) = own[p][1] /\ MarkAt(own, s[j]) = own[q][2]
        /\ s[i].start = TRUE /\ s[j].start = FALSE
    BY <1>4 DEF MarkAt, Opening, Closing
  <2>2. MarkBefore(own, rank, s[i], s[j]) <=> own[p][1] < own[q][2]
    BY <1>2, <2>1 DEF MarkBefore
  <2>3. QED BY <1>1, <1>4, <2>2 DEF Opening, Closing
<1>5. QED BY <1>1, <1>2, <1>3, <1>4

\* What a visit does, by the kind of the mark.
LEMMA VisitCloses ==
  ASSUME NEW own, NEW scan, NEW r, NEW open, NEW had, scan = [open |-> open, found |-> had]
  PROVE  Visit(own, scan, Closing(r)) = [open |-> open \ {r}, found |-> had]
BY DEF Visit, Closing

LEMMA VisitOpens ==
  ASSUME NEW own, NEW scan, NEW r, NEW open, NEW had, scan = [open |-> open, found |-> had]
  PROVE  Visit(own, scan, Opening(r)) =
           [open |-> IF \A o \in open : own[r][2] > own[o][2] THEN {r} ELSE open,
            found |-> IF open = {} THEN had ELSE had \cup open \cup {r}]
<1>1. Opening(r).rank = r /\ Opening(r).start = TRUE
  BY DEF Opening
<1> QED BY <1>1 DEF Visit

\* While the ranges are apart, the open range is the one whose start alone has
\* been passed, and no overlap is found.
LEMMA ApartUnfound ==
  ASSUME NEW R, NEW own, NEW rank, NEW s, NEW n, NEW scan, Passed(R, own, rank, s, n, scan),
         \A p, q \in R : p # q /\ HasIndices(own, p) /\ HasIndices(own, q) => Apart(own, p, q)
  PROVE  scan[n].found = {}
<1> DEFINE In(i) == {r \in R : (\E a \in 1..i : s[a] = Opening(r)) /\ (\A a \in 1..i : s[a] # Closing(r))}
           T == {i \in 0..n : scan[i] = [open |-> In(i), found |-> {}]}
<1>1. InMarkOrder(R, own, rank, s, n) /\ n \in Nat
  BY DEF Passed, InMarkOrder
<1>2. 0 \in T
  <2>1. In(0) = {} /\ 0 \in 0..n
    BY <1>1
  <2>2. scan[0] = [open |-> In(0), found |-> {}]
    BY <2>1 DEF Passed, Start
  <2> HIDE DEF In
  <2>3. QED BY <2>1, <2>2
<1>3. ASSUME NEW i \in 1..n, i - 1 \in T PROVE i \in T
  <2>1. /\ scan[i - 1] = [open |-> In(i - 1), found |-> {}] /\ scan[i - 1] \in States(R)
        /\ scan[i] = Visit(own, scan[i - 1], s[i])
        /\ i - 1 \in 0..n /\ i \in 0..n /\ i \in Nat
    BY <1>1, <1>3 DEF Passed
  <2>2. PICK r \in R : HasIndices(own, r) /\ (s[i] = Opening(r) \/ s[i] = Closing(r))
    BY <1>1, MarkFacts
  <2>3. \A a \in 1..i : a \in 1..n /\ (a = i \/ a \in 1..(i - 1))
    BY <1>1
  <2>4. \A a \in 1..(i - 1) : a \in 1..i /\ a \in 1..n /\ a < i
    BY <1>1
  <2>5. CASE s[i] = Opening(r)
    <3>1. ASSUME NEW o \in In(i - 1) PROVE FALSE
      <4>1. PICK a \in 1..(i - 1) : s[a] = Opening(o)
        OBVIOUS
      <4>2. o \in R /\ \A x \in 1..(i - 1) : s[x] # Closing(o)
        OBVIOUS
      <4> HIDE DEF In, T
      <4>3. HasIndices(own, o)
        <5>1. a \in 1..n /\ s[a].rank = o
          BY <2>4, <4>1 DEF Opening
        <5>2. QED BY <1>1, <5>1, MarkFacts
      <4>4. PICK e \in 1..n : s[e] = Closing(o)
        <5>1. o \in R
          BY <4>2
        <5>2. QED BY <1>1, <4>3, <5>1, MarksThere
      <4>5. i < e
        <5>1. e # i
          BY <2>5, <4>4 DEF Opening, Closing
        <5>2. e \notin 1..(i - 1)
          BY <4>2, <4>4
        <5>3. QED BY <1>1, <2>1, <5>1, <5>2
      <4>6. o # r
        <5>1. a \in 1..n /\ a # i
          BY <2>4
        <5>2. s[a] # s[i]
          BY <1>1, <5>1, MarkFacts
        <5>3. QED BY <2>5, <4>1, <5>2
      <4>7. own[o][1] <= own[r][1]
        <5>1. a \in 1..n /\ a < i
          BY <2>4
        <5>2. QED BY <1>1, <2>5, <4>1, <4>2, <5>1, MarkPlaces
      <4>8. own[r][1] < own[o][2]
        BY <1>1, <2>5, <4>2, <4>4, <4>5, MarkPlaces
      <4>9. Apart(own, o, r)
        BY <2>2, <4>2, <4>3, <4>6
      <4>10. /\ own[o][1] \in Nat /\ own[o][2] \in Nat /\ own[r][1] \in Nat /\ own[r][2] \in Nat
        BY <1>1, <4>2 DEF InMarkOrder, RangesAndOrder
      <4>11. QED BY <2>2, <4>7, <4>8, <4>9, <4>10 DEF Apart, HasIndices
    <3>2. In(i - 1) = {}
      BY <3>1
    <3>3. scan[i] = [open |-> {r}, found |-> {}]
      <4> HIDE DEF In, T
      <4> DEFINE v == scan[i - 1]
      <4>1. v = [open |-> {}, found |-> {}]
        BY <2>1, <3>2
      <4>2. scan[i] = Visit(own, v, Opening(r))
        BY <2>1, <2>5
      <4> HIDE DEF v
      <4>3. Visit(own, v, Opening(r)) = [open |-> {r}, found |-> {}]
        BY <4>1, VisitOpens
      <4>4. QED BY <4>2, <4>3
    <3>4. In(i) = {r}
      <4>1. ASSUME NEW a \in 1..i PROVE s[a] # Closing(r)
        <5>1. a \in 1..n /\ (a = i \/ a < i)
          BY <2>3, <2>4
        <5>2. s[a] = Closing(r) => a # i
          BY <2>5 DEF Opening, Closing
        <5>3. own[r][1] < own[r][2]
          BY <2>2 DEF HasIndices
        <5>4. s[a] = Closing(r) => i < a
          BY <1>1, <2>5, <5>1, <5>3, MarkPlaces
        <5>5. a \in Nat
          BY <5>1
        <5>6. QED BY <2>1, <5>1, <5>2, <5>4, <5>5
      <4>2. r \in In(i)
        BY <2>1, <2>5, <4>1
      <4>3. ASSUME NEW o \in In(i), o # r PROVE FALSE
        <5>1. PICK a \in 1..i : s[a] = Opening(o)
          OBVIOUS
        <5>2. a # i
          BY <2>5, <4>3, <5>1 DEF Opening
        <5>3. a \in 1..(i - 1)
          BY <2>3, <5>2
        <5>4. \A x \in 1..(i - 1) : s[x] # Closing(o)
          BY <2>4
        <5>5. o \in In(i - 1)
          BY <5>1, <5>3, <5>4
        <5>6. QED BY <3>1, <5>5
      <4> HIDE DEF In, T
      <4>4. QED BY <4>2, <4>3
    <3> HIDE DEF In
    <3>5. QED BY <2>1, <3>3, <3>4
  <2>6. CASE s[i] = Closing(r)
    <3>1. scan[i] = [open |-> In(i - 1) \ {r}, found |-> {}]
      <4> HIDE DEF In, T
      <4> DEFINE v == scan[i - 1]
      <4>1. v.open = In(i - 1) /\ v.found = {} /\ v = [open |-> v.open, found |-> v.found]
        BY <2>1
      <4>2. scan[i] = Visit(own, v, Closing(r))
        BY <2>1, <2>6
      <4> HIDE DEF v
      <4>3. Visit(own, v, Closing(r)) = [open |-> In(i - 1) \ {r}, found |-> {}]
        BY <4>1, VisitCloses
      <4>4. QED BY <4>2, <4>3
    <3>2. \A o \in R : s[i] # Opening(o) /\ (s[i] = Closing(o) <=> o = r)
      <4>1. s[i].start = FALSE /\ s[i].rank = r
        BY <2>6 DEF Closing
      <4>2. \A o \in R : /\ Opening(o).start = TRUE /\ Closing(o).rank = o
        BY DEF Opening, Closing
      <4> HIDE DEF In, T
      <4>3. QED BY <2>6, <4>1, <4>2
    <3>3. In(i) = In(i - 1) \ {r}
      <4>1. ASSUME NEW o \in In(i) PROVE o \in In(i - 1) /\ o # r
        BY <2>1, <2>3, <2>4, <3>2
      <4>2. ASSUME NEW o \in In(i - 1), o # r PROVE o \in In(i)
        BY <2>1, <2>3, <2>4, <3>2, <4>2
      <4> HIDE DEF In, T
      <4>3. QED BY <4>1, <4>2
    <3> HIDE DEF In
    <3>4. QED BY <2>1, <3>1, <3>3
  <2>7. QED BY <2>2, <2>5, <2>6
<1> HIDE DEF T
<1>4. \A i \in 0..n : i \in T
  BY <1>1, <1>2, <1>3, CountsUp
<1>5. n \in T
  BY <1>1, <1>4
<1> HIDE DEF In
<1>6. QED BY <1>5 DEF T

\* What has been found stays found.
LEMMA FoundStays ==
  ASSUME NEW R, NEW own, NEW rank, NEW s, NEW n, NEW scan, Passed(R, own, rank, s, n, scan),
         scan[n].found = {}
  PROVE  \A i \in 0..n : scan[i].found = {}
<1>1. InMarkOrder(R, own, rank, s, n) /\ n \in Nat
  BY DEF Passed, InMarkOrder
<1>2. ASSUME NEW i \in 1..n PROVE scan[i - 1].found \subseteq scan[i].found
  <2>1. scan[i - 1] \in States(R) /\ scan[i] = Visit(own, scan[i - 1], s[i])
    <3>1. i - 1 \in 0..n
      BY <1>1
    <3>2. QED BY <3>1 DEF Passed
  <2>2. PICK r \in R : s[i] = Opening(r) \/ s[i] = Closing(r)
    BY <1>1, MarkFacts
  <2> DEFINE v == scan[i - 1]
  <2>3. v = [open |-> v.open, found |-> v.found] /\ scan[i] = Visit(own, v, s[i])
    BY <2>1 DEF States
  <2> HIDE DEF v
  <2>4. CASE s[i] = Opening(r)
    <3>1. Visit(own, v, Opening(r)) =
           [open |-> IF \A o \in v.open : own[r][2] > own[o][2] THEN {r} ELSE v.open,
            found |-> IF v.open = {} THEN v.found ELSE v.found \cup v.open \cup {r}]
      BY <2>3, VisitOpens
    <3>2. v.found \subseteq scan[i].found
      BY <2>3, <2>4, <3>1
    <3> QED BY <3>2 DEF v
  <2>5. CASE s[i] = Closing(r)
    <3>1. Visit(own, v, Closing(r)) = [open |-> v.open \ {r}, found |-> v.found]
      BY <2>3, VisitCloses
    <3>2. v.found \subseteq scan[i].found
      BY <2>3, <2>5, <3>1
    <3> QED BY <3>2 DEF v
  <2> QED BY <2>2, <2>4, <2>5
<1> SUFFICES ASSUME NEW j \in 0..n PROVE scan[j].found = {}
  OBVIOUS
<1> DEFINE T == {i \in 0..n : j <= i => scan[j].found \subseteq scan[i].found}
<1>3. 0 \in T
  <2>1. j <= 0 => j = 0
    BY <1>1
  <2>2. QED BY <1>1, <2>1
<1>4. ASSUME NEW i \in 1..n, i - 1 \in T PROVE i \in T
  <2>1. j <= i - 1 => scan[j].found \subseteq scan[i - 1].found
    BY <1>4
  <2>2. j <= i => j = i \/ j <= i - 1
    BY <1>1
  <2>3. j <= i => scan[j].found \subseteq scan[i].found
    BY <1>2, <2>1, <2>2
  <2>4. i \in 0..n
    BY <1>1
  <2>5. QED BY <2>3, <2>4
<1> HIDE DEF T
<1>5. \A i \in 0..n : i \in T
  BY <1>1, <1>3, <1>4, CountsUp
<1>6. scan[j].found \subseteq scan[n].found
  BY <1>1, <1>5 DEF T
<1>7. QED BY <1>6

\* A range that starts before another one's start and ends behind it is open there.
LEMMA OverlapFound ==
  ASSUME NEW R, NEW own, NEW rank, NEW s, NEW n, NEW scan, Passed(R, own, rank, s, n, scan),
         NEW p \in R, NEW q \in R, NEW i \in 1..n, NEW j \in 1..n, NEW e \in 1..n, i < j, j < e,
         s[i] = Opening(p), s[j] = Opening(q), s[e] = Closing(p)
  PROVE  scan[n].found # {}
<1> SUFFICES ASSUME scan[n].found = {} PROVE FALSE
  OBVIOUS
<1>1. InMarkOrder(R, own, rank, s, n) /\ n \in Nat
  BY DEF Passed, InMarkOrder
<1>2. \A k \in 0..n : scan[k].found = {}
  BY FoundStays
\* Between the two a mark that starts a range would have found an overlap.
<1>3. ASSUME NEW k \in 1..n, NEW r \in R, s[k] = Opening(r)
      PROVE  scan[k - 1].open = {} /\ scan[k].open = {r}
  <2> DEFINE v == scan[k - 1]
  <2>1. k - 1 \in 0..n /\ k \in 0..n
    BY <1>1
  <2>2. scan[k] = Visit(own, v, Opening(r)) /\ v = [open |-> v.open, found |-> v.found]
    BY <1>3, <2>1 DEF Passed, States
  <2>3. v.found = {} /\ scan[k].found = {}
    BY <1>2, <2>1
  <2> HIDE DEF v
  <2>4. Visit(own, v, Opening(r)) =
           [open |-> IF \A o \in v.open : own[r][2] > own[o][2] THEN {r} ELSE v.open,
            found |-> IF v.open = {} THEN v.found ELSE v.found \cup v.open \cup {r}]
    BY <2>2, VisitOpens
  <2>5. v.open = {}
    <3>1. v.open # {} => scan[k].found = v.found \cup v.open \cup {r}
      BY <2>2, <2>4
    <3> QED BY <3>1, <2>3
  <2>6. scan[k].open = {r}
    BY <2>2, <2>4, <2>5
  <2> QED BY <2>5, <2>6 DEF v
<1> DEFINE T == {k \in 0..n : i <= k /\ k < e => scan[k].open = {p}}
<1>4. 0 \in T
  BY <1>1
<1>5. ASSUME NEW k \in 1..n, k - 1 \in T PROVE k \in T
  <2> SUFFICES ASSUME i <= k, k < e PROVE scan[k].open = {p}
    BY <1>1
  <2>1. k - 1 \in 0..n
    BY <1>1
  <2>2. CASE k = i
    BY <1>3, <2>2
  <2>3. CASE k # i
    <3>1. scan[k - 1].open = {p}
      <4>1. i <= k - 1 /\ k - 1 < e
        BY <1>1, <2>3
      <4> QED BY <1>5, <4>1
    <3>2. PICK r \in R : s[k] = Opening(r) \/ s[k] = Closing(r)
      BY <1>1, MarkFacts
    <3>3. s[k] # Opening(r)
      BY <1>3, <3>1
    <3>4. s[k] = Closing(r)
      BY <3>2, <3>3
    <3>5. r # p
      <4>1. s[k] = s[e] => k = e
        BY <1>1, MarkFacts
      <4>2. k # e
        BY <1>1
      <4> QED BY <3>4, <4>1, <4>2
    <3> DEFINE v == scan[k - 1]
    <3>6. scan[k] = Visit(own, v, Closing(r)) /\ v = [open |-> v.open, found |-> v.found]
      BY <2>1, <3>4 DEF Passed, States
    <3> HIDE DEF v
    <3>7. Visit(own, v, Closing(r)) = [open |-> v.open \ {r}, found |-> v.found]
      BY <3>6, VisitCloses
    <3>8. v.open = {p}
      BY <3>1 DEF v
    <3>9. scan[k].open = {p} \ {r}
      BY <3>6, <3>7, <3>8
    <3> QED BY <3>5, <3>9
  <2> QED BY <2>2, <2>3
<1> HIDE DEF T
<1>6. \A k \in 0..n : k \in T
  BY <1>1, <1>4, <1>5, CountsUp
<1>7. j - 1 \in 0..n /\ i <= j - 1 /\ j - 1 < e
  BY <1>1
<1>8. scan[j - 1].open = {p}
  BY <1>6, <1>7 DEF T
<1>9. scan[j - 1].open = {}
  BY <1>3
<1> QED BY <1>8, <1>9

\* If none was found, ranges that are not empty are apart.
LEMMA UnfoundApart ==
  ASSUME NEW R, NEW own, NEW rank, NEW s, NEW n, NEW scan, Passed(R, own, rank, s, n, scan),
         scan[n].found = {}, NEW p \in R, NEW q \in R, p # q, HasIndices(own, p), HasIndices(own, q)
  PROVE  Apart(own, p, q)
<1>1. InMarkOrder(R, own, rank, s, n) /\ n \in Nat
  BY DEF Passed, InMarkOrder
<1>2. /\ own[p][1] \in Nat /\ own[p][2] \in Nat /\ own[q][1] \in Nat /\ own[q][2] \in Nat
  BY <1>1 DEF InMarkOrder, RangesAndOrder
<1>3. PICK i \in 1..n : s[i] = Opening(p)
  BY <1>1, MarksThere
<1>4. PICK j \in 1..n : s[j] = Opening(q)
  BY <1>1, MarksThere
<1>5. PICK e \in 1..n : s[e] = Closing(p)
  BY <1>1, MarksThere
<1>6. PICK f \in 1..n : s[f] = Closing(q)
  BY <1>1, MarksThere
<1>7. i # j
  BY <1>3, <1>4 DEF Opening
<1>8. e # j /\ f # i
  <2>1. s[e].start = FALSE /\ s[f].start = FALSE /\ s[i].start = TRUE /\ s[j].start = TRUE
    BY <1>3, <1>4, <1>5, <1>6 DEF Opening, Closing
  <2> QED BY <2>1
<1>9. CASE i < j
  <2>1. j < e <=> own[q][1] < own[p][2]
    BY <1>1, <1>4, <1>5, MarkPlaces
  <2>2. ~(j < e)
    BY <1>3, <1>4, <1>5, <1>9, OverlapFound
  <2> QED BY <1>2, <2>1, <2>2 DEF Apart
<1>10. CASE j < i
  <2>1. i < f <=> own[p][1] < own[q][2]
    BY <1>1, <1>3, <1>6, MarkPlaces
  <2>2. ~(i < f)
    BY <1>3, <1>4, <1>6, <1>10, OverlapFound
  <2> QED BY <1>2, <2>1, <2>2 DEF Apart
<1> QED BY <1>1, <1>7, <1>9, <1>10

\* getOverlappingRangeIds finds an overlap exactly if there is one, whichever of
\* the ranges come first where the sort leaves it open.
THEOREM OverlapsFound ==
  ASSUME NEW R, NEW own, NEW rank, RangesAndOrder(R, own, rank)
  PROVE  Overlapping(own, rank) = {}
           <=> \A p, q \in R : p # q /\ HasIndices(own, p) /\ HasIndices(own, q) => Apart(own, p, q)
<1> DEFINE marks == MarksInOrder(own, rank)
           n == Len(marks)
           scan == ScanOf(own, marks)
<1>1. Overlapping(own, rank) = scan[n].found
  BY OverlapIsScan
<1>2. /\ n \in Nat
      /\ \A i \in 1..n : marks[i] \in Marks(own)
      /\ \A x \in Marks(own) : \E i \in 1..n : marks[i] = x
      /\ \A i, j \in 1..n : MarkBefore(own, rank, marks[i], marks[j]) <=> i < j
  BY MarksInOrderFacts
<1> HIDE DEF marks
<1>3. \A i \in 1..n : marks[i].rank \in R
  BY <1>2, MarksTyped
<1>4. /\ scan[0] = Start /\ \A i \in 1..n : scan[i] = Visit(own, scan[i - 1], marks[i])
      /\ \A i \in 0..n : scan[i] \in States(R)
  BY <1>2, <1>3, ScanFacts
<1> HIDE DEF n, scan
<1>5. Passed(R, own, rank, marks, n, scan)
  BY <1>2, <1>4 DEF Passed, InMarkOrder
<1> QED BY <1>1, <1>5, ApartUnfound, UnfoundApart
-----------------------------------------------------------------------------
(***************************************************************************)
(* What the ranks find and compute.                                        *)
(***************************************************************************)
Layout ==
  /\ owned = RangesOf(numPoints) /\ numPoints \in [Ranks -> Nat]
  /\ inside \in [Points -> SUBSET Ranks] /\ boxed \in [Points -> SUBSET Ranks]
  /\ \A g \in Points : inside[g] \subseteq boxed[g]

\* The other ranks' points, not in their own cells, that r's cells contain.
Wanted(r) == {g \in Points : r \in inside[g] /\ \E q \in Ranks \ {r} : g \in Lost(q)}
OwnFound(r) == {[point |-> g, place |-> g - owned[r][1]] : g \in Mine(r) \ Lost(r)}
GhostFound(r) ==
  {[point |-> g, place |-> numPoints[r] + Cardinality(Below(Wanted(r), g))] : g \in Wanted(r)}
Finds(r) ==
  /\ Num(r) \in 2..6 => found[r] = OwnFound(r)
  /\ Num(r) >= 7 => /\ found[r] = OwnFound(r) \cup GhostFound(r)
                    /\ ghosts[r] = Sorted(Wanted(r))

\* Every ghost is with the ghosts of its owner.
Attributed(r) ==
  \A i \in DOMAIN ghosts[r] : \E o \in DOMAIN ghostRange[r] :
    /\ Owns(owned, o, ghosts[r][i])
    /\ ghostRange[r][o][1] < i /\ i <= ghostRange[r][o][2]

\* A rank's point has a value of the present call, if a rank's cells contain it.
Served(r) ==
  \A l \in 1..numPoints[r] :
    LET v == values[r][l] IN
    \/ v.point = owned[r][1] + l - 1 /\ v.by \in inside[v.point] /\ v.call = calls[r]
    \/ v = NoValue /\ inside[owned[r][1] + l - 1] = {}
Works(r) ==
  /\ Num(r) >= 9 => Attributed(r)
  /\ Num(r) \in {13, 16} => values[r] = Computed(r, calls[r])
  /\ Num(r) \in {14, 15} => Served(r)

Transfer == Layout /\ \A r \in Ranks : Finds(r) /\ Works(r)
ServedInv == PatternInv /\ Transfer /\ pc \in [Ranks -> DOMAIN Phases]

LEMMA LayoutFacts ==
  ASSUME Layout
  PROVE  /\ owned \in [Ranks -> Nat \X Nat]
         /\ \A r \in Ranks : owned[r][2] = owned[r][1] + numPoints[r] /\ owned[r][2] <= NumPoints
         /\ \A p, q \in Ranks : p < q => owned[p][2] <= owned[q][1]
         /\ NumGlobal(owned) = NumPoints
         /\ NumPoints \in Nat /\ Points \in SUBSET Nat /\ IsFiniteSet(Points)
         /\ \A g : g \in Points <=> (g \in Nat /\ g < NumPoints)
<1>1. owned = RangesOf(numPoints) /\ numPoints \in [Ranks -> Nat]
  BY DEF Layout
<1>2. NumPoints \in Nat /\ Points \in SUBSET Nat /\ IsFiniteSet(Points)
  BY <1>1, PointsFinite
<1>3. \A g : g \in Points <=> (g \in Nat /\ g < NumPoints)
  BY <1>2 DEF Points
<1>4. QED BY <1>1, <1>2, <1>3, RangesTyped, RangesFollow, GlobalIsPoints DEF NumPoints

\* A rank's points, one by one, and no other rank's.
LEMMA MineFacts ==
  ASSUME Layout, NEW r \in Ranks
  PROVE  /\ Mine(r) \in SUBSET Points /\ Lost(r) \in SUBSET Mine(r)
         /\ \A l \in 1..numPoints[r] : owned[r][1] + l - 1 \in Mine(r)
         /\ \A g \in Mine(r) : g \in Nat /\ owned[r][1] <= g /\ g < owned[r][1] + numPoints[r]
         /\ \A g \in Mine(r) : g \in Lost(r) <=> r \notin inside[g]
         /\ Wanted(r) \in SUBSET Points /\ IsFiniteSet(Wanted(r)) /\ Wanted(r) \in SUBSET Nat
         /\ \A g \in Wanted(r) : r \in inside[g] /\ g < NumPoints
<1>1. /\ owned \in [Ranks -> Nat \X Nat] /\ owned[r][2] = owned[r][1] + numPoints[r]
      /\ owned[r][2] <= NumPoints /\ NumPoints \in Nat /\ numPoints[r] \in Nat
      /\ Points \in SUBSET Nat /\ IsFiniteSet(Points)
      /\ \A g : g \in Points <=> (g \in Nat /\ g < NumPoints)
  BY LayoutFacts DEF Layout
<1>2. Mine(r) \in SUBSET Points /\ Lost(r) \in SUBSET Mine(r) /\ Wanted(r) \in SUBSET Points
  BY DEF Mine, Lost, Wanted
<1>3. ASSUME NEW l \in 1..numPoints[r] PROVE owned[r][1] + l - 1 \in Mine(r)
  <2>1. PICK g \in Nat : g = owned[r][1] + l - 1 /\ owned[r][1] <= g /\ g < owned[r][2]
    <3>1. owned[r][1] \in Nat /\ l \in Nat /\ l >= 1 /\ l <= numPoints[r]
      BY <1>1
    <3>2. /\ owned[r][1] + l - 1 \in Nat /\ owned[r][1] <= owned[r][1] + l - 1
          /\ owned[r][1] + l - 1 < owned[r][1] + numPoints[r]
      BY <1>1, <3>1
    <3>3. QED BY <1>1, <3>2
  <2>2. g < NumPoints
    BY <1>1, <2>1
  <2>3. g \in Points
    BY <1>1, <2>2
  <2>4. g \in Mine(r)
    BY <2>1, <2>3 DEF Mine, Owns
  <2>5. QED BY <2>1, <2>4
<1>4. \A g \in Mine(r) : g \in Nat /\ owned[r][1] <= g /\ g < owned[r][1] + numPoints[r]
  BY <1>1, <1>2 DEF Mine, Owns
<1>5. \A g \in Mine(r) : g \in Lost(r) <=> r \notin inside[g]
  BY DEF Lost
<1>6. IsFiniteSet(Wanted(r))
  BY <1>1, <1>2, FS_Subset
<1>7. \A g \in Wanted(r) : r \in inside[g] /\ g < NumPoints
  BY <1>1 DEF Wanted
<1>8. Wanted(r) \in SUBSET Nat
  BY <1>1, <1>2
<1>9. QED BY <1>2, <1>3, <1>4, <1>5, <1>6, <1>7, <1>8

\* The values computed: for the points found, in their places.
LEMMA ComputedFacts ==
  ASSUME Layout, NEW r \in Ranks, Finds(r), Num(r) >= 7, NEW n
  PROVE  /\ DOMAIN Computed(r, n) = 1..(numPoints[r] + Len(ghosts[r]))
         /\ \A l \in 1..numPoints[r] :
              Computed(r, n)[l] = IF r \in inside[owned[r][1] + l - 1]
                                    THEN [point |-> owned[r][1] + l - 1, by |-> r, call |-> n]
                                    ELSE NoValue
         /\ \A i \in 1..Len(ghosts[r]) :
              /\ Computed(r, n)[numPoints[r] + i] = [point |-> ghosts[r][i], by |-> r, call |-> n]
              /\ ghosts[r][i] \in Wanted(r)
         /\ Len(ghosts[r]) \in Nat /\ numPoints[r] \in Nat
<1> DEFINE W == Wanted(r)
           first == owned[r][1]
           size == numPoints[r]
           len == Len(ghosts[r])
           here(l) == {f \in found[r] : f.place = l - 1}
           made(g) == [point |-> g, by |-> r, call |-> n]
<1>1. found[r] = OwnFound(r) \cup GhostFound(r) /\ ghosts[r] = Sorted(W)
  BY DEF Finds
<1>2. /\ W \in SUBSET Nat /\ IsFiniteSet(W)
      /\ Mine(r) \in SUBSET Points
      /\ \A l \in 1..size : first + l - 1 \in Mine(r)
      /\ \A g \in Mine(r) : g \in Nat /\ first <= g /\ g < first + size
      /\ \A g \in Mine(r) : g \in Lost(r) <=> r \notin inside[g]
      /\ first \in Nat /\ size \in Nat
  BY MineFacts, LayoutFacts DEF Layout
<1>3. /\ len = Cardinality(W) /\ len \in Nat
      /\ \A i \in 1..len : ghosts[r][i] \in W /\ Cardinality(Below(W, ghosts[r][i])) = i - 1
      /\ \A g \in W : Cardinality(Below(W, g)) + 1 \in 1..len /\ Cardinality(Below(W, g)) \in Nat
                      /\ ghosts[r][Cardinality(Below(W, g)) + 1] = g
  <2>1. /\ Len(Sorted(W)) = Cardinality(W) /\ Cardinality(W) \in Nat
        /\ \A i \in 1..Cardinality(W) :
              Sorted(W)[i] \in W /\ Cardinality(Below(W, Sorted(W)[i])) = i - 1
        /\ \A x \in W : /\ Cardinality(Below(W, x)) + 1 \in 1..Cardinality(W)
                        /\ Sorted(W)[Cardinality(Below(W, x)) + 1] = x
    BY <1>2, SortedFacts
  <2>2. \A x \in W : Cardinality(Below(W, x)) \in Nat
    BY <1>2, BelowFacts
  <2>3. QED BY <1>1, <2>1, <2>2
<1>4. /\ DOMAIN Computed(r, n) = 1..(size + len)
      /\ \A l \in 1..(size + len) :
           Computed(r, n)[l] = IF here(l) = {} THEN NoValue ELSE made((CHOOSE f \in here(l) : TRUE).point)
  BY DEF Computed
<1>5. \A f : f \in found[r] <=>
        \/ (\E g \in Mine(r) \ Lost(r) : f = [point |-> g, place |-> g - first])
        \/ (\E g \in W : f = [point |-> g, place |-> size + Cardinality(Below(W, g))])
  <2>1. \A f : f \in OwnFound(r) <=> \E g \in Mine(r) \ Lost(r) : f = [point |-> g, place |-> g - first]
    BY DEF OwnFound
  <2>2. \A f : f \in GhostFound(r) <=>
                 \E g \in W : f = [point |-> g, place |-> size + Cardinality(Below(W, g))]
    BY DEF GhostFound
  <2> HIDE DEF W, first, size
  <2>3. QED BY <1>1, <2>1, <2>2
<1>6. \A l, f : f \in here(l) <=> f \in found[r] /\ f.place = l - 1
  OBVIOUS
<1>7. ASSUME NEW l \in 1..(size + len), NEW g, \E f \in here(l) : TRUE,
             \A f \in here(l) : f.point = g
      PROVE  Computed(r, n)[l] = made(g)
  <2>1. here(l) # {} /\ (CHOOSE f \in here(l) : TRUE) \in here(l)
    BY <1>7
  <2>2. (CHOOSE f \in here(l) : TRUE).point = g
    BY <1>7, <2>1
  <2> HIDE DEF here, made
  <2>3. QED BY <1>4, <2>1, <2>2
<1> HIDE DEF W, first, size, len, here, made
<1>8. ASSUME NEW l \in 1..size
      PROVE  Computed(r, n)[l] = IF r \in inside[first + l - 1] THEN made(first + l - 1) ELSE NoValue
  <2>1. PICK g \in Mine(r) : g = first + l - 1 /\ g \in Nat
    BY <1>2
  <2>2. l \in Nat /\ l >= 1 /\ l <= size /\ l \in 1..(size + len)
    BY <1>2, <1>3
  <2>3. ASSUME NEW f \in here(l)
        PROVE  f.point = g /\ g \notin Lost(r)
    <3>1. f \in found[r] /\ f.place = l - 1
      BY <1>6
    <3>2. CASE \E x \in Mine(r) \ Lost(r) : f = [point |-> x, place |-> x - first]
      <4>1. PICK x \in Mine(r) \ Lost(r) : f = [point |-> x, place |-> x - first]
        BY <3>2
      <4>2. f.point = x /\ x - first = l - 1 /\ x \in Nat
        BY <1>2, <3>1, <4>1
      <4>3. x = g
        BY <1>2, <2>1, <2>2, <4>2
      <4>4. QED BY <4>1, <4>2, <4>3
    <3>3. CASE \E x \in W : f = [point |-> x, place |-> size + Cardinality(Below(W, x))]
      <4>1. PICK x \in W : f = [point |-> x, place |-> size + Cardinality(Below(W, x))]
        BY <3>3
      <4>2. f.place = size + Cardinality(Below(W, x)) /\ Cardinality(Below(W, x)) \in Nat
        BY <1>3, <4>1
      <4>3. FALSE
        BY <1>2, <2>2, <3>1, <4>2
      <4>4. QED BY <4>3
    <3>4. QED BY <1>5, <3>1, <3>2, <3>3
  <2>4. CASE g \in Lost(r)
    <3>1. here(l) = {}
      BY <2>3, <2>4
    <3>2. Computed(r, n)[l] = NoValue
      BY <1>4, <2>2, <3>1
    <3>3. r \notin inside[g]
      BY <1>2, <2>4
    <3>4. QED BY <2>1, <3>2, <3>3
  <2>5. CASE g \notin Lost(r)
    <3>1. r \in inside[g]
      BY <1>2, <2>5
    <3>2. PICK f : f = [point |-> g, place |-> g - first]
      OBVIOUS
    <3>3. f \in found[r]
      BY <1>5, <2>5, <3>2
    <3>4. f.place = l - 1
      BY <1>2, <2>1, <2>2, <3>2
    <3>5. f \in here(l)
      BY <1>6, <3>3, <3>4
    <3>6. Computed(r, n)[l] = made(g)
      BY <1>7, <2>2, <2>3, <3>5
    <3>7. QED BY <2>1, <3>1, <3>6
  <2>6. QED BY <2>4, <2>5
<1>9. ASSUME NEW i \in 1..len
      PROVE  Computed(r, n)[size + i] = made(ghosts[r][i]) /\ ghosts[r][i] \in W
  <2>1. PICK g \in W : g = ghosts[r][i] /\ Cardinality(Below(W, g)) = i - 1
    BY <1>3
  <2>2. PICK l \in 1..(size + len) : l = size + i
    <3>1. size + i \in 1..(size + len)
      BY <1>2, <1>3
    <3>2. QED BY <3>1
  <2>3. i \in Nat /\ i >= 1 /\ l \in Nat
    BY <1>2, <2>2
  <2>4. ASSUME NEW f \in here(l) PROVE f.point = g
    <3>1. f \in found[r] /\ f.place = l - 1
      BY <1>6
    <3>2. CASE \E x \in Mine(r) \ Lost(r) : f = [point |-> x, place |-> x - first]
      <4>1. PICK x \in Mine(r) \ Lost(r) : f = [point |-> x, place |-> x - first]
        BY <3>2
      <4>2. f.place = x - first /\ x \in Nat /\ first <= x /\ x < first + size
        BY <1>2, <4>1
      <4>3. FALSE
        BY <1>2, <2>2, <2>3, <3>1, <4>2
      <4>4. QED BY <4>3
    <3>3. CASE \E x \in W : f = [point |-> x, place |-> size + Cardinality(Below(W, x))]
      <4>1. PICK x \in W : f = [point |-> x, place |-> size + Cardinality(Below(W, x))]
        BY <3>3
      <4>2. PICK k \in Nat : k = Cardinality(Below(W, x)) /\ ghosts[r][k + 1] = x
        BY <1>3
      <4>3. f.place = size + k /\ f.point = x
        BY <4>1, <4>2
      <4>4. k + 1 = i
        BY <1>2, <2>2, <2>3, <3>1, <4>2, <4>3
      <4>5. QED BY <2>1, <4>2, <4>3, <4>4
    <3>4. QED BY <1>5, <3>1, <3>2, <3>3
  <2>5. \E f \in here(l) : TRUE
    <3>1. PICK f : f = [point |-> g, place |-> size + Cardinality(Below(W, g))]
      OBVIOUS
    <3>2. f \in found[r]
      <4>1. \E x \in W : f = [point |-> x, place |-> size + Cardinality(Below(W, x))]
        BY <3>1
      <4>2. QED BY <1>5, <4>1
    <3>3. f.place = l - 1
      <4>1. f.place = size + (i - 1)
        BY <2>1, <3>1
      <4>2. QED BY <1>2, <2>2, <2>3, <4>1
    <3>4. QED BY <1>6, <3>2, <3>3
  <2>6. Computed(r, n)[l] = made(g)
    BY <1>7, <2>4, <2>5
  <2>7. QED BY <2>1, <2>2, <2>6
<1>10. QED BY <1>2, <1>3, <1>4, <1>8, <1>9 DEF W, first, size, len, made

LEMMA InitTransfer ==
  ASSUME Init PROVE Transfer
<1>1. \A r \in Ranks : Num(r) = 1
  BY PhaseNumbers DEF Init, Num
<1>2. Layout
  BY DEF Init, Layout
<1>3. \A r \in Ranks : Finds(r) /\ Works(r)
  BY <1>1 DEF Finds, Works
<1>4. QED BY <1>2, <1>3 DEF Transfer

\* A rank that does nothing in a step.
LEMMA IdleRank ==
  ASSUME UNCHANGED <<owned, numPoints, inside, boxed>>, NEW q \in Ranks, Num(q)' = Num(q),
         found'[q] = found[q], ghosts'[q] = ghosts[q], ghostRange'[q] = ghostRange[q],
         values'[q] = values[q], calls'[q] = calls[q]
  PROVE  /\ Layout' <=> Layout
         /\ OwnFound(q)' = OwnFound(q) /\ GhostFound(q)' = GhostFound(q) /\ Wanted(q)' = Wanted(q)
         /\ Attributed(q)' <=> Attributed(q)
         /\ Served(q)' <=> Served(q)
         /\ Finds(q)' <=> Finds(q)
         /\ Works(q)' <=> Works(q)
<1>1. /\ Points' = Points /\ NumPoints' = NumPoints /\ NoValue' = NoValue
      /\ \A p : Mine(p)' = Mine(p) /\ Lost(p)' = Lost(p) /\ Wanted(p)' = Wanted(p)
  BY DEF Points, NumPoints, NoValue, Mine, Lost, Wanted
<1>2. Layout' <=> Layout
  BY <1>1 DEF Layout
<1>3. OwnFound(q)' = OwnFound(q)
  BY <1>1 DEF OwnFound
<1>4. GhostFound(q)' = GhostFound(q)
  BY <1>1 DEF GhostFound
<1>5. Attributed(q)' <=> Attributed(q)
  BY DEF Attributed, Owns
<1>6. Computed(q, calls[q])' = Computed(q, calls[q])
  BY <1>1 DEF Computed
<1>7. Served(q)' <=> Served(q)
  BY <1>1 DEF Served
<1>8. Finds(q)' <=> Finds(q)
  BY <1>1, <1>3, <1>4 DEF Finds
<1>9. Works(q)' <=> Works(q)
  BY <1>5, <1>6, <1>7 DEF Works
<1>10. QED BY <1>1, <1>2, <1>3, <1>4, <1>5, <1>7, <1>8, <1>9

\* It is enough to look at the rank that makes a step.
LEMMA OtherRanks ==
  ASSUME Transfer, NEW r \in Ranks, UNCHANGED <<owned, numPoints, inside, boxed>>,
         \A q \in Ranks : q # r =>
           /\ Num(q)' = Num(q) /\ found'[q] = found[q] /\ ghosts'[q] = ghosts[q]
           /\ ghostRange'[q] = ghostRange[q] /\ values'[q] = values[q] /\ calls'[q] = calls[q],
         Finds(r)', Works(r)'
  PROVE  Transfer'
<1>1. Layout'
  BY DEF Transfer, Layout, Points, NumPoints
<1>2. ASSUME NEW q \in Ranks PROVE Finds(q)' /\ Works(q)'
  <2>1. CASE q = r
    BY <2>1
  <2>2. CASE q # r
    <3>1. Finds(q) /\ Works(q)
      BY DEF Transfer
    <3>2. (Finds(q)' <=> Finds(q)) /\ (Works(q)' <=> Works(q))
      BY <2>2, IdleRank
    <3>3. QED BY <3>1, <3>2
  <2>3. QED BY <2>1, <2>2
<1>3. QED BY <1>1, <1>2 DEF Transfer

\* A rank that goes on without finding or computing anything.
LEMMA QuietRank ==
  ASSUME Transfer, NEW r \in Ranks, UNCHANGED <<owned, numPoints, inside, boxed>>,
         UNCHANGED <<found, ghosts, ghostRange, values, calls>>,
         \A q \in Ranks : q # r => Num(q)' = Num(q),
         Num(r) \in 1..16, Num(r)' \in 1..16,
         \/ Num(r) \in {2, 3, 4, 5} /\ Num(r)' = Num(r) + 1
         \/ Num(r) = 7 /\ Num(r)' = 8
         \/ Num(r) \in {9, 10, 11} /\ Num(r)' = Num(r) + 1
         \/ Num(r) = 14 /\ Num(r)' = 15
  PROVE  Transfer'
<1>1. Finds(r) /\ Works(r)
  BY DEF Transfer
<1>2. /\ Points' = Points /\ NumPoints' = NumPoints /\ NoValue' = NoValue
      /\ \A p : Mine(p)' = Mine(p) /\ Lost(p)' = Lost(p) /\ Wanted(p)' = Wanted(p)
  BY DEF Points, NumPoints, NoValue, Mine, Lost, Wanted
<1>3. OwnFound(r)' = OwnFound(r) /\ GhostFound(r)' = GhostFound(r)
  BY <1>2 DEF OwnFound, GhostFound
<1>4. Finds(r)'
  BY <1>1, <1>2, <1>3 DEF Finds
<1>5. Attributed(r)' <=> Attributed(r)
  BY DEF Attributed, Owns
<1>6. Served(r)' <=> Served(r)
  BY <1>2 DEF Served
<1>7. Works(r)'
  BY <1>1, <1>5, <1>6 DEF Works
<1>8. QED BY <1>4, <1>7, OtherRanks

LEMMA SearchFinds ==
  ASSUME Running, Transfer, NEW r \in Ranks, Search(r) PROVE Transfer'
<1>1. /\ Num(r) = 1 /\ Goes(r, "consensus")
      /\ found' = [found EXCEPT ![r] = OwnFound(r)]
      /\ UNCHANGED <<owned, numPoints, inside, boxed>> /\ UNCHANGED <<ghosts, ghostRange, values, calls>>
  BY PhaseNumbers DEF Search, At, Num, OwnFound, pattern
<1>2. Num(r)' = 2 /\ \A q \in Ranks : q # r => Num(q)' = Num(q)
  BY <1>1, PhaseNames, PhaseNumbers, MovesOn DEF Running
<1>3. found'[r] = OwnFound(r) /\ \A q \in Ranks : q # r => found'[q] = found[q]
  BY <1>1 DEF Running, Types, OnRanks
<1>4. OwnFound(r)' = OwnFound(r)
  BY <1>1 DEF OwnFound, Mine, Lost, Points, NumPoints
<1>5. Finds(r)'
  BY <1>2, <1>3, <1>4 DEF Finds
<1>6. Works(r)'
  BY <1>2 DEF Works
<1>7. QED BY <1>1, <1>2, <1>3, <1>5, <1>6, OtherRanks

\* What a rank asks another for.
LEMMA AskedFacts ==
  ASSUME Layout, NEW p \in Ranks, NEW q \in Ranks
  PROVE  /\ SentTo(p, q) \in Seq(Points) /\ Len(SentTo(p, q)) <= NumPoints
         /\ \A i \in DOMAIN SentTo(p, q) :
              i \in 1..NumPoints /\ SentTo(p, q)[i] \in Lost(p) /\ q \in boxed[SentTo(p, q)[i]]
         /\ \A g \in Lost(p) : q \in boxed[g] => \E i \in DOMAIN SentTo(p, q) : SentTo(p, q)[i] = g
<1> DEFINE T == {g \in Lost(p) : q \in boxed[g]}
<1>1. T \in SUBSET Points /\ IsFiniteSet(Points) /\ NumPoints \in Nat /\ Points \in SUBSET Nat
  BY LayoutFacts, MineFacts
<1>2. /\ SentTo(p, q) = Sorted(T)
      /\ \A g : g \in T <=> (g \in Lost(p) /\ q \in boxed[g])
  BY DEF SentTo
<1> HIDE DEF T
<1>3. IsFiniteSet(T) /\ T \in SUBSET Nat /\ Cardinality(T) <= Cardinality(Points)
  BY <1>1, FS_Subset
<1>4. Cardinality(Points) = NumPoints
  <2>1. 0 \in Int /\ NumPoints - 1 \in Int
    BY <1>1
  <2>2. Cardinality(0..(NumPoints - 1)) = IF 0 > NumPoints - 1 THEN 0 ELSE (NumPoints - 1) - 0 + 1
    BY <2>1, FS_Interval
  <2>3. QED BY <1>1, <2>2 DEF Points
<1> DEFINE s == Sorted(T)
           c == Cardinality(T)
<1>5. /\ s \in Seq(T) /\ Len(s) = c /\ c \in Nat
      /\ \A i \in 1..c : s[i] \in T
      /\ \A x \in T : Cardinality(Below(T, x)) + 1 \in 1..c /\ s[Cardinality(Below(T, x)) + 1] = x
  BY <1>3, SortedFacts
<1> HIDE DEF s
<1>6. DOMAIN s = 1..c
  BY <1>5
<1>7. SentTo(p, q) \in Seq(Points)
  BY <1>1, <1>2, <1>5, SeqWider DEF s
<1>8. c <= NumPoints /\ \A i \in 1..c : i \in 1..NumPoints
  BY <1>1, <1>3, <1>4, <1>5
<1> HIDE DEF c
<1>9. \A i \in DOMAIN s : i \in 1..NumPoints /\ s[i] \in T
  BY <1>5, <1>6, <1>8
<1>10. \A x \in T : \E i \in DOMAIN s : s[i] = x
  BY <1>5, <1>6
<1>11. QED BY <1>2, <1>5, <1>7, <1>8, <1>9, <1>10 DEF s

\* The points found for others are those wanted, and their ids are right.
LEMMA HitsFacts ==
  ASSUME Running, Layout, NEW r \in Ranks, Num(r) = 6, Arrived(r, DOMAIN heard[r], PatternTag)
  PROVE  /\ \A h \in Hits(r) : h.id \in Wanted(r) /\ h.point = h.id
         /\ \A g \in Wanted(r) : \E h \in Hits(r) : h.id = g
<1> DEFINE froms == DOMAIN heard[r]
           got(q) == Received(r, q, PatternTag)
<1>1. \A q \in Ranks : sendTo[q] = Asked(q)
  <2>1. \A q \in Ranks : Num(q) \in 1..16 /\ Num(q) >= 3
    <3>1. \A q \in Ranks : Num(r) > 3 => Num(q) >= 3
      <4>1. 3 \in Gates
        BY DEF Gates
      <4>2. QED BY <4>1 DEF Running, Sync
    <3>2. \A q \in Ranks : Num(q) \in 1..16
      BY NumIsNumber DEF Running, Types
    <3>3. QED BY <3>1, <3>2
  <2>2. QED BY <2>1 DEF Running, Lists
<1>2. /\ \A q : q \in froms <=> (q \in Ranks /\ q # r /\ SentTo(q, r) # <<>>)
      /\ \A q \in froms : q \in Ranks /\ r \in DOMAIN sendTo[q] /\ sendTo[q][r] = SentTo(q, r)
  <2>1. froms = Requesters(r, sendTo)
    BY DEF Running, Lists
  <2>2. \A q \in Ranks : DOMAIN sendTo[q] = {x \in Ranks \ {q} : SentTo(q, x) # <<>>}
    BY <1>1 DEF Asked
  <2>3. \A q \in Ranks : \A x \in DOMAIN sendTo[q] : sendTo[q][x] = SentTo(q, x)
    BY <1>1 DEF Asked
  <2>4. QED BY <2>1, <2>2, <2>3 DEF Requesters
<1>3. \A q \in froms : heard[r][q] = SentTo(q, r)
  BY <1>2 DEF Running, Lists
<1>4. \A q \in froms : got(q) = SentTo(q, r)
  <2> DEFINE n == 3
  <2>1. n \in Nat /\ n = Num(r) - 3 /\ Num(r) \in {4, 5, 6}
    OBVIOUS
  <2>2. \A q \in Ranks : /\ MapMessages(q, r)[n].tag = PatternTag
                         /\ MapMessages(q, r)[n].data = sendTo[q][r]
    BY MapMessagesParts
  <2> HIDE DEF n
  <2>3. \A q \in Ranks : MapMessages(q, r)[n].tag = PatternTag
    BY <2>2
  <2>4. \A q \in froms : Received(r, q, PatternTag) = MapMessages(q, r)[n].data
    <3>1. \A q \in froms : q \in Ranks /\ r \in DOMAIN sendTo[q]
      BY <1>2
    <3>2. \A p \in Ranks : r \in DOMAIN sendTo[p] => Received(r, p, PatternTag) = MapMessages(p, r)[n].data
      BY <2>1, <2>3, MapTakes
    <3>3. QED BY <3>1, <3>2
  <2>5. QED BY <1>2, <2>2, <2>4
<1> HIDE DEF froms
<1>5. \A h : h \in Hits(r) <=>
         \E k \in froms \X (1..NumPoints) :
            /\ k[2] \in DOMAIN heard[r][k[1]]
            /\ r \in inside[got(k[1])[k[2]]]
            /\ h = [from |-> k[1], nth |-> k[2], id |-> heard[r][k[1]][k[2]], point |-> got(k[1])[k[2]]]
  BY DEF Hits, froms
<1> HIDE DEF got
<1>6. ASSUME NEW h \in Hits(r) PROVE h.id \in Wanted(r) /\ h.point = h.id
  <2>1. PICK k \in froms \X (1..NumPoints) :
            /\ k[2] \in DOMAIN heard[r][k[1]]
            /\ r \in inside[got(k[1])[k[2]]]
            /\ h = [from |-> k[1], nth |-> k[2], id |-> heard[r][k[1]][k[2]], point |-> got(k[1])[k[2]]]
    BY <1>5
  <2>2. PICK q \in froms, i \in 1..NumPoints : q = k[1] /\ i = k[2]
    OBVIOUS
  <2>3. q \in Ranks /\ q # r /\ i \in DOMAIN SentTo(q, r)
    BY <1>2, <1>3, <2>1, <2>2
  <2>4. PICK g \in Lost(q) : g = SentTo(q, r)[i]
    BY <2>3, AskedFacts
  <2>5. h.id = g /\ h.point = g /\ r \in inside[g]
    BY <1>3, <1>4, <2>1, <2>2, <2>4
  <2>6. g \in Points
    BY <2>3, MineFacts
  <2>7. QED BY <2>3, <2>4, <2>5, <2>6 DEF Wanted
<1>7. ASSUME NEW g \in Wanted(r) PROVE \E h \in Hits(r) : h.id = g
  <2>1. PICK q \in Ranks \ {r} : g \in Lost(q)
    BY DEF Wanted
  <2>2. g \in Points /\ r \in inside[g] /\ r \in boxed[g]
    BY DEF Wanted, Layout
  <2>3. PICK i \in DOMAIN SentTo(q, r) : SentTo(q, r)[i] = g
    BY <2>1, <2>2, AskedFacts
  <2>4. SentTo(q, r) # <<>> /\ i \in 1..NumPoints
    BY <2>1, <2>3, AskedFacts
  <2>5. q \in froms
    BY <1>2, <2>1, <2>4
  <2>6. PICK k \in froms \X (1..NumPoints) : k[1] = q /\ k[2] = i
    <3>1. <<q, i>> \in froms \X (1..NumPoints) /\ <<q, i>>[1] = q /\ <<q, i>>[2] = i
      BY <2>4, <2>5
    <3>2. QED BY <3>1
  <2>7. PICK h : h = [from |-> k[1], nth |-> k[2], id |-> heard[r][k[1]][k[2]], point |-> got(k[1])[k[2]]]
    OBVIOUS
  <2>8. heard[r][k[1]][k[2]] = g /\ got(k[1])[k[2]] = g /\ k[2] \in DOMAIN heard[r][k[1]]
    BY <1>3, <1>4, <2>3, <2>5, <2>6
  <2>9. h \in Hits(r)
    BY <1>5, <2>2, <2>7, <2>8
  <2>10. h.id = g
    BY <2>7, <2>8
  <2>11. QED BY <2>9, <2>10
<1>8. QED BY <1>6, <1>7

LEMMA LocateFinds ==
  ASSUME Running, Transfer, NEW r \in Ranks, Locate(r) PROVE Transfer'
<1> DEFINE hits == Hits(r)
           ids == {h.id : h \in hits}
           W == Wanted(r)
           placed(h) == {[point |-> h.point, place |-> numPoints[r] + p] : p \in Position(ids, h.id)}
           there(g) == [point |-> g, place |-> numPoints[r] + Cardinality(Below(W, g))]
<1>1. /\ Num(r) = 6 /\ Goes(r, "found") /\ Arrived(r, DOMAIN heard[r], PatternTag)
      /\ ghosts' = [ghosts EXCEPT ![r] = Sorted(ids)]
      /\ found' = [found EXCEPT ![r] = @ \cup GhostPlaces(r, hits)]
      /\ UNCHANGED <<owned, numPoints, inside, boxed>> /\ UNCHANGED <<ghostRange, values, calls>>
  BY PhaseNumbers DEF Locate, At, Num, pattern
<1>2. Num(r)' = 7 /\ \A q \in Ranks : q # r => Num(q)' = Num(q)
  BY <1>1, PhaseNames, PhaseNumbers, MovesOn DEF Running
<1>3. Layout
  BY DEF Transfer
<1>4. /\ \A h \in hits : h.id \in W /\ h.point = h.id
      /\ \A g \in W : \E h \in hits : h.id = g
  BY <1>1, <1>3, HitsFacts
<1>5. W \in SUBSET Nat /\ NumPoints \in Nat /\ \A g \in W : g < NumPoints
  BY <1>3, MineFacts, LayoutFacts
<1>6. GhostPlaces(r, hits) = UNION {placed(h) : h \in hits}
  BY DEF GhostPlaces
<1>7. GhostFound(r) = {there(g) : g \in W}
  BY DEF GhostFound
<1> HIDE DEF hits, W
<1>8. ids = W
  BY <1>4
<1> HIDE DEF ids
<1>9. \A h \in hits : placed(h) = {there(h.id)}
  <2> SUFFICES ASSUME NEW h \in hits PROVE placed(h) = {there(h.id)}
    OBVIOUS
  <2>1. PICK g \in W : g = h.id /\ g = h.point
    BY <1>4
  <2>2. Position(W, g) = {Cardinality(Below(W, g))}
    BY <1>5, PositionFound
  <2>3. Position(ids, h.id) = {Cardinality(Below(W, g))}
    BY <1>8, <2>1, <2>2
  <2>4. QED BY <2>1, <2>3
<1> HIDE DEF placed, there
<1>10. UNION {placed(h) : h \in hits} = {there(g) : g \in W}
  <2>1. ASSUME NEW x \in UNION {placed(h) : h \in hits} PROVE x \in {there(g) : g \in W}
    <3>1. PICK h \in hits : x \in placed(h)
      OBVIOUS
    <3>2. x = there(h.id) /\ h.id \in W
      BY <1>4, <1>9, <3>1
    <3>3. QED BY <3>2
  <2>2. ASSUME NEW x \in {there(g) : g \in W} PROVE x \in UNION {placed(h) : h \in hits}
    <3>1. PICK g \in W : x = there(g)
      OBVIOUS
    <3>2. PICK h \in hits : h.id = g
      BY <1>4
    <3>3. x \in placed(h)
      BY <1>9, <3>1, <3>2
    <3>4. QED BY <3>3
  <2>3. QED BY <2>1, <2>2
<1>11. /\ found'[r] = found[r] \cup GhostFound(r) /\ ghosts'[r] = Sorted(W)
       /\ \A q \in Ranks : q # r => found'[q] = found[q] /\ ghosts'[q] = ghosts[q]
  <2>1. GhostPlaces(r, hits) = GhostFound(r)
    BY <1>6, <1>7, <1>10
  <2>2. OnRanks(found) /\ ghosts \in [Ranks -> Seq(Nat)]
    BY DEF Running, Types
  <2>3. r \in DOMAIN found /\ r \in DOMAIN ghosts
    BY <2>2 DEF OnRanks
  <2>4. QED BY <1>1, <1>8, <2>1, <2>3
<1>12. found[r] = OwnFound(r)
  BY <1>1 DEF Transfer, Finds
<1>13. OwnFound(r)' = OwnFound(r) /\ GhostFound(r)' = GhostFound(r) /\ Wanted(r)' = Wanted(r)
  BY <1>1 DEF OwnFound, GhostFound, Wanted, Mine, Lost, Points, NumPoints
<1>14. Finds(r)'
  BY <1>2, <1>11, <1>12, <1>13 DEF Finds, W
<1>15. Works(r)'
  BY <1>2 DEF Works
<1>16. QED BY <1>1, <1>2, <1>11, <1>14, <1>15, OtherRanks

\* The owners of a rank's ghosts are found, one by one, among the sorted ends.
LEMMA GhostsAttributed ==
  ASSUME Running, Transfer, NEW r \in Ranks, Num(r) = 8, NEW f \in Attributions(r),
         NEW i \in DOMAIN ghosts[r]
  PROVE  Owns(owned, f[i], ghosts[r][i]) /\ i \in DOMAIN f /\ f[i] \in Ranks
<1> DEFINE g == ghosts[r][i]
           n == NumGlobal(owned)
<1>1. f \in [DOMAIN ghosts[r] -> Ranks] /\ f[i] \in Finders(owned, n, g)
  BY DEF Attributions
<1>2. Layout /\ n = NumPoints /\ NumPoints \in Nat /\ Points \in SUBSET Nat
  BY LayoutFacts DEF Transfer
<1>3. g \in Wanted(r)
  <2>1. ghosts[r] = Sorted(Wanted(r))
    BY DEF Transfer, Finds
  <2>2. Wanted(r) \in SUBSET Nat /\ IsFiniteSet(Wanted(r))
    BY <1>2, MineFacts
  <2>3. Sorted(Wanted(r)) \in Seq(Wanted(r))
    BY <2>2, SortedFacts
  <2> DEFINE s == ghosts[r]
             T == Wanted(r)
  <2>4. s \in Seq(T) /\ i \in DOMAIN s
    BY <2>1, <2>3
  <2> HIDE DEF s, T
  <2>5. s[i] \in T
    BY <2>4
  <2>6. QED BY <2>5 DEF s, T
<1> HIDE DEF g, n
<1>4. PICK o \in Ranks : Owns(owned, o, g)
  BY <1>3 DEF Wanted, Lost, Mine
<1>5. g \in Nat
  BY <1>2, <1>3 DEF Wanted
<1>6. Ranks \in SUBSET Nat /\ owned \in [Ranks -> Nat \X Nat] /\ n \in Nat
  BY <1>2, RanksFinite, LayoutFacts
<1>7. \A q \in Ranks : owned[q][1] <= owned[q][2] /\ (owned[q][1] < owned[q][2] => owned[q][2] <= n)
  <2>1. \A q \in Ranks : /\ owned[q][1] \in Nat /\ numPoints[q] \in Nat
                         /\ owned[q][2] = owned[q][1] + numPoints[q] /\ owned[q][2] <= n
    BY <1>2, LayoutFacts DEF Layout
  <2>2. QED BY <2>1
<1>8. \A p, q \in Ranks : p = q \/ owned[p][1] = owned[p][2] \/ owned[q][1] = owned[q][2]
                            \/ owned[p][2] <= owned[q][1] \/ owned[q][2] <= owned[p][1]
  <2>1. \A p, q \in Ranks : p < q => owned[p][2] <= owned[q][1]
    BY <1>2, LayoutFacts
  <2>2. \A p, q \in Ranks : p = q \/ p < q \/ q < p
    BY <1>6
  <2>3. QED BY <2>1, <2>2
<1>9. Finders(owned, n, g) = {o}
  BY <1>4, <1>5, <1>6, <1>7, <1>8, OwnerFound
<1>10. QED BY <1>1, <1>4, <1>9 DEF g

LEMMA LeaveGatherWorks ==
  ASSUME Running, Transfer, NEW r \in Ranks, LeaveGather(r), UNCHANGED transferVars, threw' = {}
  PROVE  Transfer'
<1>1. /\ Num(r) = 8 /\ Goes(r, "ask")
      /\ UNCHANGED <<owned, numPoints, inside, boxed>> /\ UNCHANGED <<ghosts, found, values, calls>>
      /\ \E f \in Attributions(r) :
           ghostRange' = [ghostRange EXCEPT ![r] = [p \in ToSet(f) |-> RangeOf(PlacesOf(f, p))]]
  <2>1. r \in threw \cup {r}
    OBVIOUS
  <2>2. ~Throws(r)
    BY <2>1 DEF Throws
  <2>3. QED BY <2>2, PhaseNumbers DEF LeaveGather, At, Num, transferVars, mapping
<1>2. PICK f \in Attributions(r) :
        ghostRange' = [ghostRange EXCEPT ![r] = [p \in ToSet(f) |-> RangeOf(PlacesOf(f, p))]]
  BY <1>1
<1>3. Num(r)' = 9 /\ \A q \in Ranks : q # r => Num(q)' = Num(q)
  BY <1>1, PhaseNames, PhaseNumbers, MovesOn DEF Running
<1>4. /\ \A q \in Ranks : q # r => ghostRange'[q] = ghostRange[q]
      /\ ghostRange'[r] = [p \in ToSet(f) |-> RangeOf(PlacesOf(f, p))]
  BY <1>2 DEF Running, Types, OnRanks
<1>5. Finds(r) /\ Works(r)
  BY DEF Transfer
<1>6. Finds(r)'
  <2>1. OwnFound(r)' = OwnFound(r) /\ GhostFound(r)' = GhostFound(r) /\ Wanted(r)' = Wanted(r)
    BY <1>1 DEF OwnFound, GhostFound, Wanted, Mine, Lost, Points, NumPoints
  <2>2. QED BY <1>1, <1>3, <1>5, <2>1 DEF Finds
<1>7. PICK n \in Nat : DOMAIN ghosts[r] = 1..n
  <2> DEFINE s == ghosts[r]
  <2>1. s \in Seq(Nat)
    BY DEF Running, Types
  <2> HIDE DEF s
  <2>2. Len(s) \in Nat /\ DOMAIN s = 1..Len(s)
    BY <2>1
  <2>3. QED BY <2>2 DEF s
<1>8. ASSUME NEW i \in DOMAIN ghosts[r]
      PROVE  \E o \in DOMAIN ghostRange'[r] :
               /\ Owns(owned, o, ghosts[r][i])
               /\ ghostRange'[r][o][1] < i /\ i <= ghostRange'[r][o][2]
  <2>1. Owns(owned, f[i], ghosts[r][i]) /\ i \in DOMAIN f
    BY <1>1, GhostsAttributed
  <2>2. DOMAIN f = 1..n
    BY <1>7 DEF Attributions
  <2>3. f[i] \in ToSet(f)
    BY <2>1 DEF ToSet
  <2>4. f[i] \in DOMAIN ghostRange'[r] /\ ghostRange'[r][f[i]] = RangeOf(PlacesOf(f, f[i]))
    BY <1>4, <2>3
  <2>5. ghostRange'[r][f[i]][1] < i /\ i <= ghostRange'[r][f[i]][2]
    BY <2>1, <2>2, <2>4, RangeOfFacts
  <2>6. QED BY <2>1, <2>4, <2>5
<1>9. Attributed(r)'
  <2>1. ghosts' = ghosts /\ owned' = owned
    BY <1>1
  <2>2. QED BY <1>8, <2>1 DEF Attributed, Owns
<1>10. Works(r)'
  BY <1>3, <1>9 DEF Works
<1>11. QED BY <1>1, <1>3, <1>4, <1>6, <1>10, OtherRanks

LEMMA ComputesWorks ==
  ASSUME Running, Transfer, NEW r \in Ranks, NEW next \in DOMAIN Phases, NEW n, n = PhaseNumber(next),
         Num(r) \in {12, 15}, n = Num(r) + 1, Computes(r, next)
  PROVE  Transfer'
<1>1. PICK made \in Nat : made = calls[r] + 1
  BY DEF Running, Types
<1>2. /\ Goes(r, next)
      /\ calls' = [calls EXCEPT ![r] = made]
      /\ values' = [values EXCEPT ![r] = Computed(r, made)]
      /\ UNCHANGED <<owned, numPoints, inside, boxed>> /\ UNCHANGED <<ghosts, found, ghostRange>>
  <2>1. /\ Goes(r, next)
        /\ calls' = [calls EXCEPT ![r] = made]
        /\ UNCHANGED <<owned, numPoints, inside, boxed>> /\ UNCHANGED <<ghosts, found, ghostRange>>
    BY <1>1 DEF Computes, pattern, mapping
  <2>2. values' = [values EXCEPT ![r] = Computed(r, made)]
    BY <1>1 DEF Computes
  <2>3. QED BY <2>1, <2>2
<1>3. Num(r)' = n /\ \A q \in Ranks : q # r => Num(q)' = Num(q)
  BY <1>2, MovesTo DEF Running
<1>4. /\ calls'[r] = made /\ values'[r] = Computed(r, made)
      /\ \A q \in Ranks : q # r => calls'[q] = calls[q] /\ values'[q] = values[q]
  BY <1>2 DEF Running, Types, OnRanks
<1>5. Finds(r) /\ Works(r)
  BY DEF Transfer
<1>6. Finds(r)'
  <2>1. OwnFound(r)' = OwnFound(r) /\ GhostFound(r)' = GhostFound(r) /\ Wanted(r)' = Wanted(r)
    BY <1>2 DEF OwnFound, GhostFound, Wanted, Mine, Lost, Points, NumPoints
  <2>2. Num(r) >= 7 /\ Num(r)' >= 7 /\ Num(r)' \notin 2..6
    BY <1>3
  <2>3. QED BY <1>2, <1>5, <2>1, <2>2 DEF Finds
<1>7. Works(r)'
  <2>1. Attributed(r)' <=> Attributed(r)
    BY <1>2 DEF Attributed, Owns
  <2>2. Computed(r, made)' = Computed(r, made)
    BY <1>2 DEF Computed, NoValue, NumPoints
  <2>3. Computed(r, calls[r])' = Computed(r, made)
    BY <1>2, <1>4 DEF Computed, NoValue, NumPoints
  <2>4. Num(r) >= 9 /\ Num(r)' \notin {14, 15}
    BY <1>3
  <2>5. QED BY <1>4, <1>5, <2>1, <2>3, <2>4 DEF Works
<1>8. QED BY <1>2, <1>3, <1>4, <1>6, <1>7, OtherRanks
-----------------------------------------------------------------------------
(***************************************************************************)
(* The values inserted.                                                    *)
(***************************************************************************)
\* What a rank inserts for one of its points: a value that a rank which has the
\* point as a ghost computed for it.
LEMMA ValueReceived ==
  ASSUME Running, Transfer, NEW r \in Ranks, Num(r) \in {13, 16},
         Arrived(r, DOMAIN ownedFor[r], GatherTag), NEW q \in DOMAIN ownedFor[r]
  PROVE  /\ q \in Ranks /\ r \in DOMAIN ghostRange[q]
         /\ DOMAIN ownedFor[r][q] \in SUBSET Nat
         /\ \A i \in DOMAIN ownedFor[r][q] :
              LET g == ghosts[q][ghostRange[q][r][1] + i]
              IN  /\ g \in Nat /\ q \in inside[g]
                  /\ ownedFor[r][q][i] = g - owned[r][1]
                  /\ Received(r, q, GatherTag)[i] = [point |-> g, by |-> q, call |-> calls[r]]
<1> DEFINE made == calls[r]
           n == made + 2
           took == made + 1
           all == Computed(q, made)
           range == ghostRange[q][r]
<1>1. /\ \A p \in Ranks : Num(p) \in 9..16
      /\ made \in Nat /\ made > 0
      /\ PatternTook(Num(r), calls[r]) = took
  <2>1. Num(r) > 9 /\ Num(r) > 12
    OBVIOUS
  <2>2. \A p \in Ranks : Num(p) \in 9..16
    BY <2>1, PatternBasics
  <2>3. made \in Nat /\ made > 0
    BY <2>1 DEF Running, Types
  <2>4. PatternTook(Num(r), calls[r]) = took
    BY <2>3 DEF PatternTook
  <2>5. QED BY <2>2, <2>3, <2>4
<1>2. /\ DOMAIN ownedFor[r] = Requesters(r, ghostRange) /\ q \in Ranks /\ r \in DOMAIN ghostRange[q]
      /\ ownedFor[r][q] = LocalAt(q, r)
  <2>1. ownedFor[r] = [p \in Requesters(r, ghostRange) |-> LocalAt(p, r)]
    <3>1. Num(r) >= 12
      OBVIOUS
    <3>2. QED BY <3>1 DEF Running, TargetSide
  <2>2. QED BY <2>1 DEF Requesters
<1> HIDE DEF made
<1>3. Received(r, q, GatherTag) = GhostValues(q, r, all)
  <2>1. /\ took \in Nat /\ n = took + 1 /\ n \in Nat /\ n = made + 2 /\ made > 0 /\ made \in Nat
    BY <1>1
  <2>2. \A p \in Ranks : /\ PatternMessages(p, r)[n].tag = GatherTag
                         /\ PatternMessages(p, r)[n] = Message(GatherTag, GhostValues(p, r, Computed(p, made)))
    BY <2>1, PatternValuesFacts
  <2> HIDE DEF n, took, all
  <2>3. \A p \in Ranks : PatternMessages(p, r)[n].tag = GatherTag
    BY <2>2
  <2>4. \E froms : froms = Requesters(r, ghostRange) /\ Arrived(r, froms, GatherTag)
    BY <1>2
  <2>5. PICK froms : froms = Requesters(r, ghostRange) /\ Arrived(r, froms, GatherTag)
    BY <2>4
  <2>6. Num(r) \in {10, 11, 13, 16} /\ took = PatternTook(Num(r), calls[r])
    BY <1>1
  <2>7. \A p \in Ranks : r \in DOMAIN ghostRange[p] =>
          Received(r, p, GatherTag) = PatternMessages(p, r)[n].data
    BY <2>1, <2>3, <2>5, <2>6, PatternTakes
  <2>8. PatternMessages(q, r)[n].data = GhostValues(q, r, Computed(q, made))
    <3> DEFINE x == GhostValues(q, r, Computed(q, made))
    <3>1. PatternMessages(q, r)[n] = Message(GatherTag, x)
      BY <1>2, <2>2
    <3> HIDE DEF x
    <3>2. QED BY <3>1, MessageFacts DEF x
  <2>9. QED BY <1>2, <2>7, <2>8 DEF all
<1>4. /\ range[1] \in Nat /\ range[2] \in Nat /\ range[1] < range[2] /\ range[2] <= Len(ghosts[q])
  <2>1. Num(q) >= 9
    BY <1>1, <1>2
  <2>2. Placed(q)
    BY <1>2, <2>1 DEF Running, GhostSide
  <2>3. QED BY <1>2, <2>2 DEF Placed
<1>5. /\ Layout /\ Finds(q) /\ Num(q) >= 7
  BY <1>1, <1>2 DEF Transfer
<1>6. /\ \A i \in 1..Len(ghosts[q]) :
           /\ all[numPoints[q] + i] = [point |-> ghosts[q][i], by |-> q, call |-> made]
           /\ ghosts[q][i] \in Wanted(q)
      /\ Len(ghosts[q]) \in Nat /\ numPoints[q] \in Nat
  BY <1>2, <1>5, ComputedFacts
<1>7. /\ GhostsAt(q, r) = [i \in 1..(range[2] - range[1]) |-> ghosts[q][range[1] + i]]
      /\ GhostValues(q, r, all) = [i \in 1..(range[2] - range[1]) |-> all[numPoints[q] + range[1] + i]]
      /\ LocalAt(q, r) = [i \in DOMAIN GhostsAt(q, r) |-> GhostsAt(q, r)[i] - owned[r][1]]
  BY DEF GhostsAt, GhostValues, LocalAt, Size
<1> HIDE DEF all, range
<1>8. DOMAIN LocalAt(q, r) = 1..(range[2] - range[1])
  BY <1>7
<1>9. ASSUME NEW i \in 1..(range[2] - range[1])
      PROVE  LET g == ghosts[q][range[1] + i]
             IN  /\ g \in Nat /\ q \in inside[g]
                 /\ LocalAt(q, r)[i] = g - owned[r][1]
                 /\ GhostValues(q, r, all)[i] = [point |-> g, by |-> q, call |-> made]
  <2>1. PICK k \in 1..Len(ghosts[q]) : k = range[1] + i /\ numPoints[q] + range[1] + i = numPoints[q] + k
    <3>1. range[1] + i \in 1..Len(ghosts[q]) /\ numPoints[q] + range[1] + i = numPoints[q] + (range[1] + i)
      BY <1>4, <1>6
    <3>2. QED BY <3>1
  <2>2. PICK g \in Wanted(q) : g = ghosts[q][k]
    BY <1>6
  <2>3. g \in Nat /\ q \in inside[g]
    BY <1>2, <1>5, MineFacts
  <2>4. GhostsAt(q, r)[i] = g /\ i \in DOMAIN GhostsAt(q, r)
    BY <1>7, <2>1, <2>2
  <2>5. LocalAt(q, r)[i] = g - owned[r][1]
    BY <1>7, <2>4
  <2>6. GhostValues(q, r, all)[i] = [point |-> g, by |-> q, call |-> made]
    <3>1. GhostValues(q, r, all)[i] = all[numPoints[q] + k]
      BY <1>7, <2>1
    <3>2. QED BY <1>6, <2>2, <3>1
  <2>7. QED BY <2>1, <2>2, <2>3, <2>5, <2>6
<1>10. DOMAIN LocalAt(q, r) \in SUBSET Nat
  BY <1>4, <1>8
<1>11. QED BY <1>2, <1>3, <1>8, <1>9, <1>10 DEF made, range

\* A rank's points after the values have been inserted.
LEMMA PointsInserted ==
  ASSUME Running, Transfer, NEW r \in Ranks, Num(r) \in {13, 16},
         Arrived(r, DOMAIN ownedFor[r], GatherTag), NEW l \in 1..numPoints[r]
  PROVE  LET v == Inserted(r)[l]
             g == owned[r][1] + l - 1
         IN  \/ v.point = g /\ v.by \in inside[v.point] /\ v.call = calls[r]
             \/ v = NoValue /\ inside[g] = {}
<1> DEFINE froms == DOMAIN ownedFor[r]
           owner(q) == {i \in DOMAIN ownedFor[r][q] : ownedFor[r][q][i] = l - 1}
           hits == {q \in froms : owner(q) # {}}
           last == GreatestOf(hits)
           first == owned[r][1]
           all == Computed(r, calls[r])
           g == first + l - 1
           made == calls[r]
<1>1. /\ Layout /\ Finds(r) /\ values[r] = all /\ Num(r) >= 7
      /\ first \in Nat /\ numPoints[r] \in Nat /\ l \in Nat /\ l >= 1 /\ l <= numPoints[r]
      /\ Points \in SUBSET Nat
  <2>1. Layout /\ Finds(r) /\ Works(r)
    BY DEF Transfer
  <2>2. values[r] = all
    BY <2>1 DEF Works
  <2>3. first \in Nat /\ numPoints[r] \in Nat /\ Points \in SUBSET Nat
    BY <2>1, LayoutFacts DEF Layout
  <2>4. l \in Nat /\ l >= 1 /\ l <= numPoints[r]
    BY <2>3
  <2>5. Num(r) >= 7
    OBVIOUS
  <2>6. QED BY <2>1, <2>2, <2>3, <2>4, <2>5
<1>2. g \in Nat /\ g \in Mine(r) /\ g \in Points
  BY <1>1, MineFacts
<1>3. l \in DOMAIN values[r]
  <2>1. DOMAIN all = 1..(numPoints[r] + Len(ghosts[r])) /\ Len(ghosts[r]) \in Nat
    BY <1>1, ComputedFacts
  <2> HIDE DEF all
  <2>2. l \in 1..(numPoints[r] + Len(ghosts[r]))
    BY <1>1, <2>1
  <2>3. QED BY <1>1, <2>1, <2>2
<1>4. Inserted(r)[l] = IF hits = {} THEN values[r][l]
                       ELSE Received(r, last, GatherTag)[LeastOf(owner(last))]
  BY <1>3 DEF Inserted, GreatestOf
<1>5. \A q \in froms :
        /\ q \in Ranks /\ r \in DOMAIN ghostRange[q]
        /\ DOMAIN ownedFor[r][q] \in SUBSET Nat
        /\ \A i \in DOMAIN ownedFor[r][q] :
             LET x == ghosts[q][ghostRange[q][r][1] + i]
             IN  /\ x \in Nat /\ q \in inside[x]
                 /\ ownedFor[r][q][i] = x - first
                 /\ Received(r, q, GatherTag)[i] = [point |-> x, by |-> q, call |-> made]
  BY ValueReceived
<1>6. ASSUME NEW q \in hits
      PROVE  LET v == Received(r, q, GatherTag)[LeastOf(owner(q))]
             IN  v.point = g /\ v.by \in inside[v.point] /\ v.call = made
  <2>1. q \in froms /\ owner(q) # {} /\ owner(q) \in SUBSET Nat
    BY <1>5
  <2>2. PICK i \in owner(q) : i = LeastOf(owner(q))
    BY <2>1, LeastOfFacts
  <2>3. i \in DOMAIN ownedFor[r][q] /\ ownedFor[r][q][i] = l - 1
    BY <2>2
  <2> DEFINE x == ghosts[q][ghostRange[q][r][1] + i]
  <2>4. x \in Nat /\ q \in inside[x] /\ l - 1 = x - first
        /\ Received(r, q, GatherTag)[i] = [point |-> x, by |-> q, call |-> made]
    BY <1>5, <2>1, <2>3
  <2> HIDE DEF x
  <2>5. x = g
    BY <1>1, <2>4
  <2> HIDE DEF g, made
  <2>6. QED BY <2>2, <2>4, <2>5
<1>7. CASE hits # {}
  <2>1. hits \in SUBSET Nat /\ NumRanks \in Nat /\ \A q \in hits : q <= NumRanks
    <3>1. \A q \in hits : q \in Ranks
      BY <1>5
    <3>2. NumRanks \in Nat /\ \A q \in Ranks : q \in Nat /\ q <= NumRanks
      BY ConstantsOK DEF Ranks
    <3>3. QED BY <3>1, <3>2
  <2> HIDE DEF hits
  <2>2. last \in hits
    BY <1>7, <2>1, GreatestOfFacts
  <2> HIDE DEF last, owner
  <2>3. Inserted(r)[l] = Received(r, last, GatherTag)[LeastOf(owner(last))]
    BY <1>4, <1>7
  <2>4. QED BY <1>6, <2>2, <2>3
<1>8. CASE hits = {}
  <2>1. Inserted(r)[l] = all[l]
    BY <1>1, <1>4, <1>8
  <2>2. all[l] = IF r \in inside[g] THEN [point |-> g, by |-> r, call |-> made] ELSE NoValue
    <3>1. \A k \in 1..numPoints[r] :
            Computed(r, calls[r])[k] = IF r \in inside[owned[r][1] + k - 1]
                                         THEN [point |-> owned[r][1] + k - 1, by |-> r, call |-> calls[r]]
                                         ELSE NoValue
      BY <1>1, ComputedFacts
    <3>2. Computed(r, calls[r])[l] = IF r \in inside[owned[r][1] + l - 1]
                                       THEN [point |-> owned[r][1] + l - 1, by |-> r, call |-> calls[r]]
                                       ELSE NoValue
      BY <3>1, Zenon
    <3>3. QED BY <3>2, Zenon
  <2>3. CASE r \in inside[g]
    <3> HIDE DEF g, made, all
    <3>1. Inserted(r)[l] = [point |-> g, by |-> r, call |-> made]
      BY <2>1, <2>2, <2>3
    <3>2. QED BY <2>3, <3>1 DEF g, made
  <2>4. CASE r \notin inside[g]
    <3> SUFFICES ASSUME NEW q \in inside[g] PROVE FALSE
      BY <2>1, <2>2, <2>4
    <3>1. q \in Ranks /\ q # r
      BY <1>1, <1>2, <2>4 DEF Layout
    <3>2. g \in Lost(r)
      BY <1>1, <1>2, <2>4, MineFacts
    <3>3. g \in Wanted(q)
      BY <1>2, <3>1, <3>2 DEF Wanted
    <3>4. Num(q) >= 9 /\ Num(q) >= 7
      <4>1. Num(r) > 9
        OBVIOUS
      <4>2. Num(q) \in 9..16
        BY <3>1, <4>1, PatternBasics
      <4>3. QED BY <4>2
    <3>5. Finds(q) /\ Attributed(q) /\ Placed(q)
      BY <3>1, <3>4 DEF Transfer, Works, Running, GhostSide
    <3>6. PICK k \in DOMAIN ghosts[q] : ghosts[q][k] = g /\ k \in Nat
      <4> DEFINE W == Wanted(q)
                 s == Sorted(W)
      <4>1. ghosts[q] = s
        BY <3>4, <3>5 DEF Finds
      <4>2. W \in SUBSET Nat /\ IsFiniteSet(W)
        BY <1>1, <3>1, MineFacts
      <4>3. Cardinality(Below(W, g)) + 1 \in 1..Cardinality(W) /\ s[Cardinality(Below(W, g)) + 1] = g
            /\ s \in Seq(W) /\ Len(s) = Cardinality(W)
        BY <3>3, <4>2, SortedFacts
      <4> HIDE DEF s, W
      <4>4. DOMAIN s = 1..Cardinality(W)
        BY <4>3
      <4>5. QED BY <4>1, <4>3, <4>4
    <3>7. PICK o \in DOMAIN ghostRange[q] : /\ Owns(owned, o, g)
                                            /\ ghostRange[q][o][1] < k /\ k <= ghostRange[q][o][2]
      BY <3>5, <3>6 DEF Attributed
    <3>8. o = r
      <4>1. o \in Ranks
        BY <3>5, <3>7 DEF Placed
      <4>2. owned \in [Ranks -> Nat \X Nat] /\ \A a, b \in Ranks : a < b => owned[a][2] <= owned[b][1]
        BY <1>1, LayoutFacts
      <4>3. Owns(owned, r, g)
        BY <1>2 DEF Mine
      <4>4. o \in Nat /\ r \in Nat
        BY <4>1, RanksFinite
      <4>5. owned[o][2] \in Nat /\ owned[r][2] \in Nat /\ owned[o][1] \in Nat /\ owned[r][1] \in Nat
        BY <4>1, <4>2
      <4>6. ~(o < r) /\ ~(r < o)
        BY <1>2, <3>7, <4>1, <4>2, <4>3, <4>5 DEF Owns
      <4>7. QED BY <4>4, <4>6
    <3>9. q \in froms
      <4>1. ownedFor[r] = [p \in Requesters(r, ghostRange) |-> LocalAt(p, r)]
        <5>1. Num(r) >= 12
          OBVIOUS
        <5>2. QED BY <5>1 DEF Running, TargetSide
      <4>2. q \in Requesters(r, ghostRange)
        BY <3>1, <3>7, <3>8 DEF Requesters
      <4>3. QED BY <4>1, <4>2
    <3>10. PICK i \in DOMAIN ownedFor[r][q] : ghostRange[q][r][1] + i = k
      <4>1. ghostRange[q][r][1] \in Nat /\ ghostRange[q][r][2] \in Nat
        BY <3>5, <3>7, <3>8 DEF Placed
      <4>2. /\ k - ghostRange[q][r][1] \in 1..(ghostRange[q][r][2] - ghostRange[q][r][1])
            /\ ghostRange[q][r][1] + (k - ghostRange[q][r][1]) = k
        BY <3>6, <3>7, <3>8, <4>1
      <4>3. ownedFor[r][q] = LocalAt(q, r)
        <5>1. ownedFor[r] = [p \in Requesters(r, ghostRange) |-> LocalAt(p, r)]
          <6>1. Num(r) >= 12
            OBVIOUS
          <6>2. QED BY <6>1 DEF Running, TargetSide
        <5>2. QED BY <3>9, <5>1
      <4>4. DOMAIN LocalAt(q, r) = 1..(ghostRange[q][r][2] - ghostRange[q][r][1])
        BY DEF LocalAt, GhostsAt, Size
      <4>5. QED BY <4>2, <4>3, <4>4
    <3>11. ownedFor[r][q][i] = g - first
      BY <1>5, <3>6, <3>9, <3>10
    <3>12. i \in owner(q)
      BY <1>1, <3>11
    <3>13. QED BY <1>8, <3>9, <3>12
  <2>5. QED BY <2>3, <2>4
<1>9. QED BY <1>7, <1>8

LEMMA InsertsWorks ==
  ASSUME Running, Transfer, NEW r \in Ranks, NEW next \in DOMAIN Phases, NEW n, n = PhaseNumber(next),
         (Num(r) = 13 /\ n = 14) \/ (Num(r) = 16 /\ n = 15), Inserts(r, next)
  PROVE  Transfer'
<1>1. /\ Goes(r, next) /\ Arrived(r, DOMAIN ownedFor[r], GatherTag)
      /\ values' = [values EXCEPT ![r] = Inserted(r)]
      /\ UNCHANGED <<owned, numPoints, inside, boxed>> /\ UNCHANGED <<ghosts, found, ghostRange, calls>>
  BY DEF Inserts, pattern, mapping
<1>2. Num(r)' = n /\ \A q \in Ranks : q # r => Num(q)' = Num(q)
  BY <1>1, MovesTo DEF Running
<1>3. values'[r] = Inserted(r) /\ \A q \in Ranks : q # r => values'[q] = values[q]
  BY <1>1 DEF Running, Types, OnRanks
<1>4. Finds(r) /\ Works(r) /\ Num(r) \in {13, 16} /\ n \in {14, 15}
  BY DEF Transfer
<1>5. Finds(r)'
  <2>1. OwnFound(r)' = OwnFound(r) /\ GhostFound(r)' = GhostFound(r) /\ Wanted(r)' = Wanted(r)
    BY <1>1 DEF OwnFound, GhostFound, Wanted, Mine, Lost, Points, NumPoints
  <2>2. Num(r) >= 7 /\ Num(r)' >= 7 /\ Num(r)' \notin 2..6
    BY <1>2, <1>4
  <2>3. QED BY <1>1, <1>4, <2>1, <2>2 DEF Finds
<1>6. Served(r)'
  <2>1. numPoints' = numPoints /\ owned' = owned /\ inside' = inside /\ calls' = calls /\ NoValue' = NoValue
    BY <1>1 DEF NoValue, NumPoints
  <2>2. \A l \in 1..numPoints[r] :
          LET v == Inserted(r)[l] IN
          \/ v.point = owned[r][1] + l - 1 /\ v.by \in inside[v.point] /\ v.call = calls[r]
          \/ v = NoValue /\ inside[owned[r][1] + l - 1] = {}
    BY <1>1, <1>4, PointsInserted
  <2>3. QED BY <1>3, <2>1, <2>2 DEF Served
<1>7. Works(r)'
  <2>1. Attributed(r)' <=> Attributed(r)
    BY <1>1 DEF Attributed, Owns
  <2>2. Num(r) >= 9 /\ Num(r)' \notin {13, 16}
    BY <1>2, <1>4
  <2>3. QED BY <1>4, <1>6, <2>1, <2>2 DEF Works
<1>8. QED BY <1>1, <1>2, <1>3, <1>5, <1>7, OtherRanks

\* The steps that only exchange or agree.
LEMMA QuietSteps ==
  ASSUME Running, Transfer, NEW r \in Ranks, threw' = {},
         \/ LearnSenders(r) \/ SendNumbers(r) \/ SendIds(r) \/ SendCoordinates(r)
         \/ MakePattern(r) \/ Agree(r)
         \/ (SendCounts(r) \/ SendIndices(r) \/ KeepIndices(r)) /\ UNCHANGED transferVars
  PROVE  Transfer'
<1>1. /\ UNCHANGED <<owned, numPoints, inside, boxed>>
      /\ UNCHANGED <<found, ghosts, ghostRange, values, calls>>
      /\ \E c \in DOMAIN Phases :
           /\ Goes(r, c)
           /\ \/ Num(r) \in {2, 3, 4, 5} /\ PhaseNumber(c) = Num(r) + 1
              \/ Num(r) = 7 /\ PhaseNumber(c) = 8
              \/ Num(r) \in {9, 10, 11} /\ PhaseNumber(c) = Num(r) + 1
              \/ Num(r) = 14 /\ PhaseNumber(c) = 15
  <2>1. r \in threw \cup {r}
    OBVIOUS
  <2>2. ~Throws(r)
    BY <2>1 DEF Throws
  <2>3. CASE LearnSenders(r)
    <3>1. Num(r) = 2 /\ Goes(r, "reduce")
      BY <2>3, PhaseNumbers DEF LearnSenders, At, Num
    <3>2. /\ UNCHANGED <<owned, numPoints, inside, boxed>>
          /\ UNCHANGED <<found, ghosts, ghostRange, values, calls>>
      BY <2>3 DEF LearnSenders, pattern
    <3>3. QED BY <3>1, <3>2, PhaseNames, PhaseNumbers
  <2>4. CASE SendNumbers(r)
    <3>1. Num(r) = 3 /\ Goes(r, "numbers")
      BY <2>4, PhaseNumbers DEF SendNumbers, At, Num
    <3>2. /\ UNCHANGED <<owned, numPoints, inside, boxed>>
          /\ UNCHANGED <<found, ghosts, ghostRange, values, calls>>
      BY <2>4 DEF SendNumbers, pattern, transferVars, mapping
    <3>3. QED BY <3>1, <3>2, PhaseNames, PhaseNumbers
  <2>5. CASE SendIds(r)
    <3>1. Num(r) = 4 /\ Goes(r, "ids")
      BY <2>5, PhaseNumbers DEF SendIds, At, Num
    <3>2. /\ UNCHANGED <<owned, numPoints, inside, boxed>>
          /\ UNCHANGED <<found, ghosts, ghostRange, values, calls>>
      BY <2>5 DEF SendIds, pattern, transferVars, mapping
    <3>3. QED BY <3>1, <3>2, PhaseNames, PhaseNumbers
  <2>6. CASE SendCoordinates(r)
    <3>1. Num(r) = 5 /\ Goes(r, "coords")
      BY <2>6, PhaseNumbers DEF SendCoordinates, At, Num
    <3>2. /\ UNCHANGED <<owned, numPoints, inside, boxed>>
          /\ UNCHANGED <<found, ghosts, ghostRange, values, calls>>
      BY <2>6 DEF SendCoordinates, pattern
    <3>3. QED BY <3>1, <3>2, PhaseNames, PhaseNumbers
  <2>7. CASE MakePattern(r)
    <3>1. Num(r) = 7 /\ Goes(r, "gather")
      BY <2>7, PhaseNumbers DEF MakePattern, At, Num
    <3>2. /\ UNCHANGED <<owned, numPoints, inside, boxed>>
          /\ UNCHANGED <<found, ghosts, ghostRange, values, calls>>
      BY <2>7 DEF MakePattern, pattern, transferVars, mapping
    <3>3. QED BY <3>1, <3>2, PhaseNames, PhaseNumbers
  <2>8. CASE Agree(r)
    <3>1. Num(r) = 14 /\ Goes(r, "work")
      BY <2>2, <2>8, PhaseNumbers DEF Agree, At, Num
    <3>2. /\ UNCHANGED <<owned, numPoints, inside, boxed>>
          /\ UNCHANGED <<found, ghosts, ghostRange, values, calls>>
      BY <2>8 DEF Agree, pattern, transferVars, mapping
    <3>3. QED BY <3>1, <3>2, PhaseNames, PhaseNumbers
  <2>9. CASE SendCounts(r) /\ UNCHANGED transferVars
    <3>1. Num(r) = 9 /\ Goes(r, "counts")
      BY <2>9, PhaseNumbers DEF SendCounts, At, Num
    <3>2. /\ UNCHANGED <<owned, numPoints, inside, boxed>>
          /\ UNCHANGED <<found, ghosts, ghostRange, values, calls>>
      BY <2>9 DEF SendCounts, transferVars, mapping
    <3>3. QED BY <3>1, <3>2, PhaseNames, PhaseNumbers
  <2>10. CASE SendIndices(r) /\ UNCHANGED transferVars
    <3>1. Num(r) = 10 /\ Goes(r, "indices")
      BY <2>2, <2>10, PhaseNumbers DEF SendIndices, At, Num
    <3>2. /\ UNCHANGED <<owned, numPoints, inside, boxed>>
          /\ UNCHANGED <<found, ghosts, ghostRange, values, calls>>
      BY <2>10 DEF SendIndices, transferVars, mapping
    <3>3. QED BY <3>1, <3>2, PhaseNames, PhaseNumbers
  <2>11. CASE KeepIndices(r) /\ UNCHANGED transferVars
    <3>1. Num(r) = 11 /\ Goes(r, "built")
      BY <2>2, <2>11, PhaseNumbers DEF KeepIndices, At, Num
    <3>2. /\ UNCHANGED <<owned, numPoints, inside, boxed>>
          /\ UNCHANGED <<found, ghosts, ghostRange, values, calls>>
      BY <2>11 DEF KeepIndices, transferVars, mapping
    <3>3. QED BY <3>1, <3>2, PhaseNames, PhaseNumbers
  <2>12. QED BY <2>3, <2>4, <2>5, <2>6, <2>7, <2>8, <2>9, <2>10, <2>11
<1>2. PICK c \in DOMAIN Phases :
        /\ Goes(r, c)
        /\ \/ Num(r) \in {2, 3, 4, 5} /\ PhaseNumber(c) = Num(r) + 1
           \/ Num(r) = 7 /\ PhaseNumber(c) = 8
           \/ Num(r) \in {9, 10, 11} /\ PhaseNumber(c) = Num(r) + 1
           \/ Num(r) = 14 /\ PhaseNumber(c) = 15
  BY <1>1
<1>3. \A q \in Ranks : Num(q)' = IF q = r THEN PhaseNumber(c) ELSE Num(q)
  BY <1>2, MovesTo DEF Running
<1>4. /\ \A q \in Ranks : q # r => Num(q)' = Num(q)
      /\ Num(r)' = PhaseNumber(c)
      /\ Num(r) \in 1..16 /\ Num(r)' \in 1..16
  BY <1>2, <1>3
<1>5. QED BY <1>1, <1>2, <1>4, QuietRank

LEMMA StepTransfer ==
  ASSUME Running, Transfer, NEW r \in Ranks, RankStep(r), threw' = {}
  PROVE  Transfer'
<1>1. CASE Search(r)
  BY <1>1, SearchFinds
<1>2. CASE \/ LearnSenders(r) \/ SendNumbers(r) \/ SendIds(r) \/ SendCoordinates(r)
           \/ MakePattern(r) \/ Agree(r)
  BY <1>2, QuietSteps
<1>3. CASE (SendCounts(r) \/ SendIndices(r) \/ KeepIndices(r)) /\ UNCHANGED transferVars
  BY <1>3, QuietSteps
<1>4. CASE Locate(r)
  BY <1>4, LocateFinds
<1>5. CASE LeaveGather(r) /\ UNCHANGED transferVars
  BY <1>5, LeaveGatherWorks
<1>6. CASE Check(r)
  <2>1. Num(r) = 12 /\ Computes(r, "checked")
    BY <1>6, PhaseNumbers DEF Check, At, Num
  <2>2. PICK next \in DOMAIN Phases, n \in Nat : next = "checked" /\ n = PhaseNumber(next) /\ n = 13
    BY PhaseNames, PhaseNumbers
  <2>3. Num(r) \in {12, 15} /\ n = Num(r) + 1 /\ Computes(r, next) /\ n = PhaseNumber(next)
    BY <2>1, <2>2
  <2>4. QED BY <2>3, ComputesWorks
<1>7. CASE Interpolate(r)
  <2>1. Num(r) = 15 /\ Computes(r, "insert")
    BY <1>7, PhaseNumbers DEF Interpolate, At, Num
  <2>2. PICK next \in DOMAIN Phases, n \in Nat : next = "insert" /\ n = PhaseNumber(next) /\ n = 16
    BY PhaseNames, PhaseNumbers
  <2>3. Num(r) \in {12, 15} /\ n = Num(r) + 1 /\ Computes(r, next) /\ n = PhaseNumber(next)
    BY <2>1, <2>2
  <2>4. QED BY <2>3, ComputesWorks
<1>8. CASE EndCheck(r)
  <2>1. Num(r) = 13 /\ Inserts(r, "agree")
    BY <1>8, PhaseNumbers DEF EndCheck, At, Num
  <2>2. PICK next \in DOMAIN Phases, n \in Nat : next = "agree" /\ n = PhaseNumber(next) /\ n = 14
    BY PhaseNames, PhaseNumbers
  <2>3. (Num(r) = 13 /\ n = 14) \/ (Num(r) = 16 /\ n = 15)
    BY <2>1, <2>2
  <2>4. Inserts(r, next) /\ n = PhaseNumber(next)
    BY <2>1, <2>2
  <2>5. QED BY <2>3, <2>4, InsertsWorks
<1>9. CASE EndInterpolate(r)
  <2>1. Num(r) = 16 /\ Inserts(r, "work")
    BY <1>9, PhaseNumbers DEF EndInterpolate, At, Num
  <2>2. PICK next \in DOMAIN Phases, n \in Nat : next = "work" /\ n = PhaseNumber(next) /\ n = 15
    BY PhaseNames, PhaseNumbers
  <2>3. (Num(r) = 13 /\ n = 14) \/ (Num(r) = 16 /\ n = 15)
    BY <2>1, <2>2
  <2>4. Inserts(r, next) /\ n = PhaseNumber(next)
    BY <2>1, <2>2
  <2>5. QED BY <2>3, <2>4, InsertsWorks
<1>10. QED
  BY <1>1, <1>2, <1>3, <1>4, <1>5, <1>6, <1>7, <1>8, <1>9
  DEF RankStep, MapStep, CallStep, PatternStep

\* A rank that throws finds and computes nothing more.
LEMMA ThrowKeepsTransfer ==
  ASSUME Transfer, pc' = pc, UNCHANGED transferVars, UNCHANGED <<owned, ghosts, ghostRange>>
  PROVE  Transfer'
<1>1. /\ UNCHANGED <<owned, numPoints, inside, boxed>>
      /\ UNCHANGED <<found, ghosts, ghostRange, values, calls>>
  BY DEF transferVars, mapping
<1>2. \A q \in Ranks : Num(q)' = Num(q)
  BY DEF Num
<1>3. Layout'
  BY <1>1 DEF Transfer, Layout, Points, NumPoints
<1>4. ASSUME NEW q \in Ranks PROVE Finds(q)' /\ Works(q)'
  <2>1. (Finds(q)' <=> Finds(q)) /\ (Works(q)' <=> Works(q))
    BY <1>1, <1>2, IdleRank
  <2>2. QED BY <2>1 DEF Transfer
<1>5. QED BY <1>3, <1>4 DEF Transfer

LEMMA ServedKept ==
  ASSUME ServedInv, [Next]_vars PROVE ServedInv'
<1>1. PatternInv'
  BY PatternKept DEF ServedInv
<1>2. CASE UNCHANGED vars
  <2>1. pc' = pc /\ UNCHANGED transferVars /\ UNCHANGED <<owned, ghosts, ghostRange>>
    BY <1>2 DEF vars, patternVars, pattern
  <2>2. Transfer'
    BY <2>1, ThrowKeepsTransfer DEF ServedInv
  <2>3. QED BY <1>1, <2>1, <2>2 DEF ServedInv
<1>3. ASSUME NEW r \in Ranks, RankStep(r) PROVE ServedInv'
  <2>1. CASE threw' = {}
    <3>1. Running
      BY <1>3, StepsUntilThrow DEF ServedInv, PatternInv
    <3>2. Transfer'
      BY <1>3, <2>1, <3>1, StepTransfer DEF ServedInv
    <3>3. (pc \in [Ranks -> DOMAIN Phases])'
      BY <1>1, <2>1 DEF PatternInv, Running, Types
    <3>4. QED BY <1>1, <3>2, <3>3 DEF ServedInv
  <2>2. CASE threw' # {}
    <3>1. pc' = pc /\ UNCHANGED transferVars /\ UNCHANGED <<owned, ghosts, ghostRange>>
      BY <1>3, <2>2, ThrowIsAll
    <3>2. Transfer'
      BY <3>1, ThrowKeepsTransfer DEF ServedInv
    <3>3. QED BY <1>1, <3>1, <3>2 DEF ServedInv
  <2>3. QED BY <2>1, <2>2
<1>4. QED BY <1>2, <1>3 DEF Next

LEMMA ServedInvariant == Spec => []ServedInv
<1>1. Init => ServedInv
  <2>1. Init => pc \in [Ranks -> DOMAIN Phases]
    BY PhaseNames DEF Init
  <2>2. QED BY <2>1, InitRunning, InitTransfer DEF ServedInv
<1>2. ServedInv /\ [Next]_vars => ServedInv'
  BY ServedKept
<1>3. QED BY <1>1, <1>2, PTL DEF Spec

\* Whatever cells the points are in and however the ranks' calls interleave, a rank
\* that has made a call of interpolateSrcDataToTargetPoints has, for each of its
\* points, a value some rank whose cells contain the point computed for it in that
\* call; a point without a value is in no rank's cells.
THEOREM PointsServedCorrect == Spec => []PointsServed
<1>1. ServedInv => PointsServed
  <2> SUFFICES ASSUME ServedInv, NEW r \in Ranks, pc[r] \in {"agree", "work"} PROVE Served(r)
    BY DEF PointsServed, Served
  <2>1. Num(r) \in {14, 15}
    BY PhaseNumbers DEF Num
  <2>2. QED BY <2>1 DEF ServedInv, Transfer, Works
<1>2. QED BY <1>1, ServedInvariant, PTL
-----------------------------------------------------------------------------
(***************************************************************************)
(* Local and global numbers.                                               *)
(***************************************************************************)
\* Whatever range a rank has, and whatever ghosts in order.
LEMMA NumbersOfRank ==
  ASSUME NEW range \in Nat \X Nat, range[1] <= range[2],
         NEW W \in SUBSET Nat, IsFiniteSet(W), NEW bound \in Nat, \A y \in W : y < bound,
         NEW g \in Nat
  PROVE  LET s == Sorted(W)
             known == {LocalToGlobal(range, s, l) : l \in 0..(Size(range) + Len(s) - 1)}
             l == GlobalToLocal(range, s, g)
         IN IF {g} \in known THEN \E n \in l : LocalToGlobal(range, s, n) = {g}
                             ELSE l = {}
<1> DEFINE first == range[1]
           size == Size(range)
           s == Sorted(W)
           global(l) == LocalToGlobal(range, s, l)
           local == GlobalToLocal(range, s, g)
           below == Cardinality(Below(W, g))
<1>1. first \in Nat /\ size \in Nat /\ range[2] = first + size
  BY DEF Size
<1>2. /\ Len(s) = Cardinality(W) /\ Len(s) \in Nat /\ DOMAIN s = 1..Len(s)
      /\ \A i \in 1..Len(s) : s[i] \in W
      /\ g \in W => below + 1 \in 1..Len(s) /\ s[below + 1] = g
  <2>1. /\ s \in Seq(W) /\ Len(s) = Cardinality(W)
        /\ \A i \in 1..Cardinality(W) : s[i] \in W
        /\ \A x \in W : /\ Cardinality(Below(W, x)) + 1 \in 1..Cardinality(W)
                        /\ s[Cardinality(Below(W, x)) + 1] = x
    BY <1>1, SortedFacts
  <2>2. g \in W => below + 1 \in 1..Cardinality(W) /\ s[below + 1] = g
    BY <2>1
  <2> HIDE DEF s, below
  <2>3. Len(s) \in Nat /\ DOMAIN s = 1..Len(s)
    BY <2>1
  <2>4. QED BY <2>1, <2>2, <2>3
<1>3. below \in Nat
  <2>1. IsFiniteSet(Below(W, g))
    <3>1. Below(W, g) \subseteq W
      BY DEF Below
    <3>2. QED BY <3>1, FS_Subset
  <2>2. QED BY <2>1, FS_CardinalityType
<1>4. ToSet(s) = W
  <2>1. \A x : x \in ToSet(s) <=> \E i \in DOMAIN s : s[i] = x
    BY DEF ToSet
  <2>2. ASSUME NEW x \in W PROVE \E i \in DOMAIN s : s[i] = x
    <3>1. Cardinality(Below(W, x)) + 1 \in 1..Cardinality(W) /\ s[Cardinality(Below(W, x)) + 1] = x
      BY <1>1, SortedFacts
    <3>2. QED BY <1>2, <3>1
  <2> HIDE DEF s
  <2>3. QED BY <1>2, <2>1, <2>2
<1>5. Position(ToSet(s), g) = IF g \in W THEN {below} ELSE {}
  BY <1>1, <1>4, PositionFound
<1>6. local = IF first <= g /\ g < range[2] THEN {g - first}
              ELSE {size + p : p \in Position(ToSet(s), g)}
  BY DEF GlobalToLocal
<1>7. \A l : global(l) = IF l < size THEN {first + l}
                         ELSE IF l < size + Len(s) THEN {s[l - size + 1]} ELSE {}
  BY DEF LocalToGlobal
<1> DEFINE known == {global(l) : l \in 0..(size + Len(s) - 1)}
<1>8. \A x : x \in known <=> \E l \in 0..(size + Len(s) - 1) : x = global(l)
  OBVIOUS
<1> SUFFICES IF {g} \in known THEN \E n \in local : global(n) = {g} ELSE local = {}
  OBVIOUS
<1> HIDE DEF known, global, local, below, s, size, first
<1>9. ASSUME NEW n \in local, n \in 0..(size + Len(s) - 1), global(n) = {g}
      PROVE  {g} \in known /\ \E m \in local : global(m) = {g}
  BY <1>8, <1>9
<1>10. CASE first <= g /\ g < range[2]
  <2>1. PICK n \in Nat : n = g - first /\ n < size
    <3>1. g - first \in Nat /\ g - first < size
      BY <1>1, <1>10
    <3>2. QED BY <3>1
  <2>2. n \in local
    BY <1>6, <1>10, <2>1
  <2>3. n \in 0..(size + Len(s) - 1)
    BY <1>1, <1>2, <2>1
  <2>4. global(n) = {g}
    <3>1. global(n) = {first + n}
      BY <1>7, <2>1
    <3>2. first + n = g
      BY <1>1, <2>1
    <3>3. QED BY <3>1, <3>2
  <2>5. QED BY <1>9, <2>2, <2>3, <2>4
<1>11. CASE ~(first <= g /\ g < range[2]) /\ g \in W
  <2>1. PICK n \in Nat : n = size + below
    <3>1. size + below \in Nat
      BY <1>1, <1>3
    <3>2. QED BY <3>1
  <2>2. n \in local
    <3>1. local = {size + p : p \in {below}}
      BY <1>5, <1>6, <1>11
    <3>2. QED BY <2>1, <3>1
  <2>3. n \in 0..(size + Len(s) - 1)
    BY <1>1, <1>2, <1>3, <1>11, <2>1
  <2>4. global(n) = {g}
    <3>1. ~(n < size) /\ n < size + Len(s) /\ n - size + 1 = below + 1
      BY <1>1, <1>2, <1>3, <1>11, <2>1
    <3>2. global(n) = {s[n - size + 1]}
      BY <1>7, <3>1
    <3>3. s[n - size + 1] = g
      BY <1>2, <1>11, <3>1
    <3>4. QED BY <3>2, <3>3
  <2>5. QED BY <1>9, <2>2, <2>3, <2>4
<1>12. CASE ~(first <= g /\ g < range[2]) /\ g \notin W
  <2>1. local = {}
    BY <1>5, <1>6, <1>12
  <2>2. ASSUME NEW l \in 0..(size + Len(s) - 1), global(l) = {g} PROVE FALSE
    <3>1. l \in Nat /\ l < size + Len(s)
      BY <1>1, <1>2
    <3>2. CASE l < size
      <4>1. first + l = g
        <5>1. {first + l} = {g}
          BY <1>7, <2>2, <3>2
        <5>2. QED BY <5>1
      <4>2. QED BY <1>1, <1>12, <3>1, <3>2, <4>1
    <3>3. CASE ~(l < size)
      <4>1. l - size + 1 \in 1..Len(s)
        BY <1>1, <1>2, <3>1, <3>3
      <4>2. s[l - size + 1] = g
        <5>1. {s[l - size + 1]} = {g}
          BY <1>7, <2>2, <3>1, <3>3
        <5>2. QED BY <5>1
      <4>3. QED BY <1>2, <1>12, <4>1, <4>2
    <3>4. QED BY <3>2, <3>3
  <2>3. {g} \notin known
    BY <1>8, <2>2
  <2>4. QED BY <2>1, <2>3
<1>13. QED BY <1>10, <1>11, <1>12

LEMMA NumbersOfRanks ==
  ASSUME owned \in [Ranks -> Nat \X Nat], \A r \in Ranks : owned[r][1] <= owned[r][2],
         NumGlobal(owned) \in Nat,
         \A r \in Ranks : Built(r) =>
           \E W \in SUBSET Nat : /\ IsFiniteSet(W) /\ ghosts[r] = Sorted(W)
                                 /\ \E n \in Nat : \A y \in W : y < n
  PROVE  NumbersInverse
<1> SUFFICES ASSUME NEW r \in Ranks, Built(r), NEW g \in 0..(NumGlobal(owned) + 1)
             PROVE  LET known == {LocalToGlobal(owned[r], ghosts[r], l) :
                                    l \in 0..(Size(owned[r]) + Len(ghosts[r]) - 1)}
                        l == GlobalToLocal(owned[r], ghosts[r], g)
                    IN IF {g} \in known THEN \E n \in l : LocalToGlobal(owned[r], ghosts[r], n) = {g}
                                        ELSE l = {}
  BY DEF NumbersInverse
<1>1. PICK W \in SUBSET Nat : /\ IsFiniteSet(W) /\ ghosts[r] = Sorted(W)
                              /\ \E n \in Nat : \A y \in W : y < n
  OBVIOUS
<1>2. PICK n \in Nat : \A y \in W : y < n
  BY <1>1
<1> DEFINE range == owned[r]
           s == ghosts[r]
           known == {LocalToGlobal(range, s, l) : l \in 0..(Size(range) + Len(s) - 1)}
           local == GlobalToLocal(range, s, g)
<1>3. g \in Nat /\ range \in Nat \X Nat /\ range[1] <= range[2] /\ s = Sorted(W)
  BY <1>1
<1> SUFFICES IF {g} \in known THEN \E m \in local : LocalToGlobal(range, s, m) = {g}
                               ELSE local = {}
  OBVIOUS
<1>4. IsFiniteSet(W) /\ W \in SUBSET Nat /\ range \in Nat \X Nat
  BY <1>1, <1>3
<1> HIDE DEF range, s
<1>5. IF {g} \in {LocalToGlobal(range, Sorted(W), l) : l \in 0..(Size(range) + Len(Sorted(W)) - 1)}
        THEN \E m \in GlobalToLocal(range, Sorted(W), g) : LocalToGlobal(range, Sorted(W), m) = {g}
        ELSE GlobalToLocal(range, Sorted(W), g) = {}
  BY <1>2, <1>3, <1>4, NumbersOfRank
<1> QED BY <1>3, <1>5

\* On every rank that has its pattern, MPIPatternP2P's localToGlobal and
\* globalToLocal are each other's inverse, on its own points by their range and on
\* its ghosts by the boundaries of OptimizedIndexSet; a point that is neither is not
\* found.
THEOREM NumbersInverseCorrect == Spec => []NumbersInverse
<1>1. ServedInv => NumbersInverse
  <2> SUFFICES ASSUME ServedInv PROVE NumbersInverse
    OBVIOUS
  <2>1. Layout /\ NumGlobal(owned) \in Nat /\ owned \in [Ranks -> Nat \X Nat]
    BY LayoutFacts DEF ServedInv, Transfer
  <2>2. \A r \in Ranks : owned[r][1] <= owned[r][2]
    <3>1. \A r \in Ranks : owned[r][1] \in Nat /\ owned[r][2] = owned[r][1] + numPoints[r]
                           /\ numPoints[r] \in Nat
      BY <2>1, LayoutFacts DEF Layout
    <3> QED BY <3>1
  <2>3. ASSUME NEW r \in Ranks, Built(r)
        PROVE  \E W \in SUBSET Nat : /\ IsFiniteSet(W) /\ ghosts[r] = Sorted(W)
                                     /\ \E n \in Nat : \A y \in W : y < n
    <3>1. Num(r) \in 1..16 /\ Num(r) >= PhaseNumber("built")
      BY <2>3, NumIsNumber DEF ServedInv, Built, Num
    <3>2. Num(r) >= 7
      BY <3>1, PhaseNumbers
    <3>3. ghosts[r] = Sorted(Wanted(r))
      BY <3>2 DEF Finds, ServedInv, Transfer
    <3>4. /\ Wanted(r) \in SUBSET Nat /\ IsFiniteSet(Wanted(r))
          /\ NumPoints \in Nat /\ \A y \in Wanted(r) : y < NumPoints
      BY <2>1, MineFacts, LayoutFacts
    <3> QED BY <3>3, <3>4
  <2> QED BY <2>1, <2>2, <2>3, NumbersOfRanks
<1>2. QED BY <1>1, ServedInvariant, PTL
-----------------------------------------------------------------------------
(***************************************************************************)
(* The type invariant of the transfer: the sizes of what a rank has.       *)
(***************************************************************************)
Sized(r) ==
  /\ Num(r) = 1 => found[r] = {}
  /\ Num(r) <= 2 => heard[r] = EmptyMap
  /\ Num(r) <= 6 => ghosts[r] = <<>>
  /\ Num(r) <= 8 => ghostRange[r] = EmptyMap
  /\ Num(r) >= 11 => \A q \in DOMAIN numFor[r] : numFor[r][q] = Size(ghostRange[q][r])
  /\ Num(r) < 12 => ownedFor[r] = EmptyMap
  /\ Num(r) >= 12 => \A q \in Requesters(r, ghostRange) : Num(q) >= 11
  /\ calls[r] <= MaxCalls + 1
TypedInv == ServedInv /\ TypeOK /\ (threw = {} => \A r \in Ranks : Sized(r))

\* What a rank learns from a message of the pattern.
LEMMA CountsReceived ==
  ASSUME Running, NEW r \in Ranks, Num(r) = 10, Arrived(r, DOMAIN numFor[r], PatternTag)
  PROVE  \A q \in DOMAIN numFor[r] :
           q \in Ranks /\ Received(r, q, PatternTag)[1] = Size(ghostRange[q][r])
<1> DEFINE froms == DOMAIN numFor[r]
           m == 1
           took == 0
<1>1. froms = Requesters(r, ghostRange)
  <2>1. Num(r) >= 10
    OBVIOUS
  <2>2. QED BY <2>1 DEF Running, TargetSide
<1>2. /\ Num(r) \in {10, 11, 13, 16} /\ took \in Nat /\ took = PatternTook(Num(r), calls[r])
      /\ m = took + 1
  BY DEF PatternTook
<1>3. \A q \in Ranks : /\ PatternMessages(q, r)[m].tag = PatternTag
                       /\ PatternMessages(q, r)[m].data = <<Size(ghostRange[q][r])>>
  BY PatternMessagesParts
<1> HIDE DEF m, took, froms
<1>4. \A p, q \in Ranks : q = r /\ q \in DOMAIN ghostRange[p] =>
        Received(r, p, PatternTag) = PatternMessages(p, q)[m].data
  <2>1. \A q \in Ranks : PatternMessages(q, r)[m].tag = PatternTag
    BY <1>3
  <2>2. Arrived(r, froms, PatternTag)
    BY DEF froms
  <2>3. QED BY <1>1, <1>2, <2>1, <2>2, PatternTakes
<1>5. ASSUME NEW q \in froms
      PROVE  q \in Ranks /\ Received(r, q, PatternTag)[1] = Size(ghostRange[q][r])
  <2>1. q \in Ranks /\ r \in DOMAIN ghostRange[q]
    BY <1>1 DEF Requesters
  <2>2. Received(r, q, PatternTag) = <<Size(ghostRange[q][r])>>
    BY <1>3, <1>4, <2>1
  <2>3. QED BY <2>1, <2>2
<1>6. QED BY <1>5 DEF froms

LEMMA IndicesReceived ==
  ASSUME Running, NEW r \in Ranks, Num(r) = 11, Arrived(r, DOMAIN numFor[r], PatternTag)
  PROVE  /\ DOMAIN numFor[r] = Requesters(r, ghostRange)
         /\ \A q \in DOMAIN numFor[r] :
              q \in Ranks /\ Received(r, q, PatternTag) = LocalAt(q, r) /\ Num(q) >= 11
<1> DEFINE froms == DOMAIN numFor[r]
           m == 2
           took == 1
<1>1. froms = Requesters(r, ghostRange)
  <2>1. Num(r) >= 10
    OBVIOUS
  <2>2. QED BY <2>1 DEF Running, TargetSide
<1>2. /\ Num(r) \in {10, 11, 13, 16} /\ took \in Nat /\ took = PatternTook(Num(r), calls[r])
      /\ m = took + 1
  BY DEF PatternTook
<1>3. \A q \in Ranks : /\ PatternMessages(q, r)[m].tag = PatternTag
                       /\ PatternMessages(q, r)[m].data = LocalAt(q, r)
  BY PatternMessagesParts
<1> HIDE DEF m, took, froms
<1>4. \A p, q \in Ranks : q = r /\ q \in DOMAIN ghostRange[p] =>
        /\ Carries(Taken(r, froms, PatternTag)[p][q], PatternMessages(p, q), m,
                   PatternSent(Num(p), calls[p]))
        /\ Received(r, p, PatternTag) = PatternMessages(p, q)[m].data
  <2>1. \A q \in Ranks : PatternMessages(q, r)[m].tag = PatternTag
    BY <1>3
  <2>2. Arrived(r, froms, PatternTag)
    BY DEF froms
  <2>3. QED BY <1>1, <1>2, <2>1, <2>2, PatternTakes
<1>5. ASSUME NEW q \in froms
      PROVE  q \in Ranks /\ Received(r, q, PatternTag) = LocalAt(q, r) /\ Num(q) >= 11
  <2>1. q \in Ranks /\ r \in DOMAIN ghostRange[q]
    BY <1>1 DEF Requesters
  <2>2. Received(r, q, PatternTag) = LocalAt(q, r)
    BY <1>3, <1>4, <2>1
  <2>3. m <= PatternSent(Num(q), calls[q])
    BY <1>4, <2>1 DEF Carries
  <2>4. Num(q) \in 1..16
    BY NumIsNumber, <2>1 DEF Running, Types
  <2>5. Num(q) >= 11
    BY <2>3, <2>4 DEF PatternSent, m
  <2>6. QED BY <2>1, <2>2, <2>5
<1>6. QED BY <1>1, <1>5 DEF froms

\* The indices received are the receiver's.
LEMMA IndicesFit ==
  ASSUME Running, NEW r \in Ranks, NEW q \in Ranks, r \in DOMAIN ghostRange[q], Num(q) >= 11
  PROVE  /\ Len(LocalAt(q, r)) = Size(ghostRange[q][r])
         /\ DOMAIN LocalAt(q, r) = 1..Size(ghostRange[q][r])
         /\ Size(owned[r]) \in Int
         /\ \A i \in DOMAIN LocalAt(q, r) :
              LocalAt(q, r)[i] \in Nat /\ LocalAt(q, r)[i] < Size(owned[r])
<1> DEFINE size == Size(ghostRange[q][r])
           g == GhostsAt(q, r)
           s == LocalAt(q, r)
<1>1. size \in Nat
  <2>1. Num(q) >= 9
    <3>1. Num(q) \in 1..16
      BY NumIsNumber DEF Running, Types
    <3>2. QED BY <3>1
  <2>2. QED BY <2>1 DEF Running, GhostSide, Placed, Size
<1>2. DOMAIN g = 1..size /\ \A i \in 1..size : g[i] \in Nat
  <2>1. Num(q) >= 9
    <3>1. Num(q) \in 1..16
      BY NumIsNumber DEF Running, Types
    <3>2. QED BY <3>1
  <2>2. DOMAIN g = 1..size
    BY DEF GhostsAt
  <2>3. \A i \in DOMAIN g : g[i] \in Nat
    BY <2>1, GhostsOfRange
  <2>4. QED BY <2>2, <2>3
<1>3. DOMAIN s = 1..size /\ \A i \in 1..size : s[i] = g[i] - owned[r][1]
  <2>1. s = [i \in DOMAIN g |-> g[i] - owned[r][1]]
    BY DEF LocalAt
  <2> HIDE DEF g, s, size
  <2>2. QED BY <1>2, <2>1
<1>4. \A i \in 1..size : owned[r][1] <= g[i] /\ g[i] < owned[r][2]
  <2>1. ~Foreign(q, r)
    BY DEF Running, GhostSide
  <2>2. QED BY <1>2, <2>1 DEF Foreign, Owns
<1>5. owned[r][1] \in Nat /\ owned[r][2] \in Nat /\ Size(owned[r]) = owned[r][2] - owned[r][1]
  BY DEF Running, Types, Size
<1>6. Len(s) = size
  <2>1. s = [i \in 1..size |-> s[i]]
    BY <1>3 DEF LocalAt
  <2> HIDE DEF s, size
  <2>2. QED BY <1>1, <2>1
<1> HIDE DEF g, s, size
<1>7. \A i \in 1..size : s[i] \in Nat /\ s[i] < Size(owned[r])
  BY <1>2, <1>3, <1>4, <1>5
<1>8. QED BY <1>3, <1>5, <1>6, <1>7 DEF s, size

\* What a step leaves to show of the sizes.
LEMMA SizedStep ==
  ASSUME Running, \A q \in Ranks : Sized(q), NEW r \in Ranks, NEW n \in 1..16,
         n = Num(r) + 1 \/ (Num(r) = 16 /\ n = 15),
         \A q \in Ranks : Num(q)' = IF q = r THEN n ELSE Num(q),
         \A q \in Ranks : q # r =>
           /\ found'[q] = found[q] /\ heard'[q] = heard[q] /\ ghosts'[q] = ghosts[q]
           /\ ghostRange'[q] = ghostRange[q] /\ numFor'[q] = numFor[q]
           /\ ownedFor'[q] = ownedFor[q] /\ calls'[q] = calls[q],
         n > 2 \/ heard'[r] = heard[r],
         n > 6 \/ ghosts'[r] = ghosts[r],
         n = 9 \/ ghostRange' = ghostRange,
         \/ n < 11
         \/ \A q \in DOMAIN numFor'[r] : q \in Ranks /\ numFor'[r][q] = Size(ghostRange[q][r])
         \/ n # 11 /\ numFor'[r] = numFor[r],
         n >= 12 \/ ownedFor'[r] = ownedFor[r],
         n = 12 => \A q \in Requesters(r, ghostRange) : Num(q) >= 11,
         calls'[r] <= MaxCalls + 1
  PROVE  \A q \in Ranks : Sized(q)'
<1>1. \A q \in Ranks : Num(q) \in 1..16
  BY NumIsNumber DEF Running, Types
<1>2. ASSUME NEW q \in Ranks, Num(q)' >= 11 PROVE ghostRange' = ghostRange
  <2>1. CASE q = r
    <3>1. n # 9
      BY <1>2, <2>1
    <3>2. QED BY <3>1
  <2>2. CASE q # r
    <3>1. Num(q) > 9
      BY <1>1, <1>2, <2>2
    <3>2. Num(r) >= 9
      BY <3>1 DEF Running, Sync, Gates
    <3>3. n # 9
      BY <1>1, <3>2
    <3>4. QED BY <3>3
  <2>3. QED BY <2>1, <2>2
<1>3. ASSUME NEW q \in Ranks, Num(q) >= 11 PROVE Num(q)' >= 11
  <2>1. CASE q = r
    BY <1>1, <1>3, <2>1
  <2>2. CASE q # r
    BY <1>3, <2>2
  <2>3. QED BY <2>1, <2>2
<1>4. ASSUME NEW q \in Ranks, q # r PROVE Sized(q)'
  <2>1. Num(q)' = Num(q) /\ Sized(q)
    BY <1>4
  <2>2. /\ Num(q)' = 1 => found'[q] = {}
        /\ Num(q)' <= 2 => heard'[q] = EmptyMap
        /\ Num(q)' <= 6 => ghosts'[q] = <<>>
        /\ Num(q)' <= 8 => ghostRange'[q] = EmptyMap
        /\ Num(q)' < 12 => ownedFor'[q] = EmptyMap
        /\ calls'[q] <= MaxCalls + 1
    BY <1>4, <2>1 DEF Sized
  <2>3. Num(q)' >= 11 => \A p \in DOMAIN numFor'[q] : numFor'[q][p] = Size(ghostRange'[p][q])
    BY <1>2, <1>4, <2>1 DEF Sized
  <2>4. ASSUME Num(q)' >= 12, NEW p \in Requesters(q, ghostRange') PROVE Num(p)' >= 11
    <3>1. Num(q)' >= 11 /\ Num(q) >= 12
      BY <1>1, <2>1, <2>4
    <3>2. p \in Ranks /\ p \in Requesters(q, ghostRange)
      BY <1>2, <3>1, <2>4 DEF Requesters
    <3>3. Num(p) >= 11
      BY <2>1, <3>1, <3>2 DEF Sized
    <3>4. QED BY <1>3, <3>2, <3>3
  <2>5. QED BY <2>2, <2>3, <2>4 DEF Sized, EmptyMap
<1>5. Sized(r)'
  <2>1. Num(r)' = n /\ Sized(r) /\ n # 1
    BY <1>1
  <2>2. Num(r)' <= 2 => heard'[r] = EmptyMap
    <3>1. n <= 2 => Num(r) <= 2
      BY <1>1
    <3>2. QED BY <2>1, <3>1 DEF Sized
  <2>3. Num(r)' <= 6 => ghosts'[r] = <<>>
    <3>1. n <= 6 => Num(r) <= 6
      BY <1>1
    <3>2. QED BY <2>1, <3>1 DEF Sized
  <2>4. Num(r)' <= 8 => ghostRange'[r] = EmptyMap
    <3>1. n <= 8 => Num(r) <= 8 /\ n # 9
      BY <1>1
    <3>2. QED BY <2>1, <3>1 DEF Sized
  <2>5. Num(r)' >= 11 => \A p \in DOMAIN numFor'[r] : numFor'[r][p] = Size(ghostRange'[p][r])
    <3>1. SUFFICES ASSUME n >= 11
                   PROVE  \A p \in DOMAIN numFor'[r] : numFor'[r][p] = Size(ghostRange'[p][r])
      BY <2>1
    <3>2. ghostRange' = ghostRange
      BY <1>2, <2>1, <3>1
    <3>3. CASE n # 11 /\ numFor'[r] = numFor[r]
      <4>1. Num(r) >= 11
        BY <1>1, <3>1, <3>3
      <4>2. QED BY <2>1, <3>2, <3>3, <4>1 DEF Sized
    <3>4. CASE \A q \in DOMAIN numFor'[r] : numFor'[r][q] = Size(ghostRange[q][r])
      BY <3>2, <3>4
    <3>5. QED BY <3>1, <3>3, <3>4
  <2>6. Num(r)' < 12 => ownedFor'[r] = EmptyMap
    <3>1. n < 12 => Num(r) < 12
      BY <1>1
    <3>2. QED BY <2>1, <3>1 DEF Sized
  <2>7. ASSUME Num(r)' >= 12, NEW p \in Requesters(r, ghostRange') PROVE Num(p)' >= 11
    <3>1. p \in Ranks /\ p \in Requesters(r, ghostRange)
      <4>1. Num(r)' >= 11
        BY <2>1, <2>7
      <4>2. QED BY <1>2, <2>7, <4>1 DEF Requesters
    <3>2. Num(p) >= 11
      <4>1. CASE n = 12
        BY <3>1, <4>1
      <4>2. CASE n # 12
        <5>1. Num(r) >= 12
          BY <1>1, <2>1, <2>7, <4>2
        <5>2. QED BY <2>1, <3>1, <5>1 DEF Sized
      <4>3. QED BY <4>1, <4>2
    <3>3. QED BY <1>3, <3>1, <3>2
  <2>8. QED BY <2>1, <2>2, <2>3, <2>4, <2>5, <2>6, <2>7 DEF Sized, EmptyMap
<1>6. QED BY <1>4, <1>5

\* The steps of the map, and of a call: what changes at most is what a rank has found,
\* what it has heard, its ghosts and its number of calls.
LEMMA MapSized ==
  ASSUME Running, \A q \in Ranks : Sized(q), NEW r \in Ranks, NEW c \in DOMAIN Phases, Goes(r, c),
         NEW n, n = PhaseNumber(c),
         n \in {2, 3, 4, 5, 6, 7, 8, 13, 14, 15, 16},
         n = Num(r) + 1 \/ (Num(r) = 16 /\ n = 15),
         UNCHANGED <<ghostRange, numFor, ownedFor>>,
         \A q \in Ranks : q # r =>
           /\ found'[q] = found[q] /\ heard'[q] = heard[q] /\ ghosts'[q] = ghosts[q]
           /\ calls'[q] = calls[q],
         n > 2 \/ heard'[r] = heard[r],
         n > 6 \/ ghosts'[r] = ghosts[r],
         calls'[r] <= MaxCalls + 1
  PROVE  \A q \in Ranks : Sized(q)'
<1>1. \A q \in Ranks : Num(q)' = IF q = r THEN n ELSE Num(q)
  BY MovesTo DEF Running
<1>2. n \in 1..16 /\ (n < 11 \/ n # 11) /\ n # 12
  OBVIOUS
<1>3. /\ numFor'[r] = numFor[r] /\ ownedFor'[r] = ownedFor[r] /\ ghostRange' = ghostRange
      /\ n >= 12 \/ ownedFor'[r] = ownedFor[r]
      /\ \/ n < 11
         \/ \A q \in DOMAIN numFor'[r] : q \in Ranks /\ numFor'[r][q] = Size(ghostRange[q][r])
         \/ n # 11 /\ numFor'[r] = numFor[r]
  BY <1>2
<1>4. \A q \in Ranks : q # r =>
           /\ found'[q] = found[q] /\ heard'[q] = heard[q] /\ ghosts'[q] = ghosts[q]
           /\ ghostRange'[q] = ghostRange[q] /\ numFor'[q] = numFor[q]
           /\ ownedFor'[q] = ownedFor[q] /\ calls'[q] = calls[q]
  BY <1>3
<1>5. QED BY <1>1, <1>2, <1>3, <1>4, SizedStep

LEMMA MapStepSized ==
  ASSUME Running, \A q \in Ranks : Sized(q), NEW r \in Ranks, MapStep(r)
  PROVE  \A q \in Ranks : Sized(q)'
<1>1. calls[r] <= MaxCalls + 1
  BY DEF Sized
<1> USE PhaseNames, PhaseNumbers
<1>2. CASE Search(r)
  <2>1. /\ Num(r) = 1 /\ Goes(r, "consensus")
        /\ \E x : found' = [found EXCEPT ![r] = x]
        /\ UNCHANGED <<ghostRange, numFor, ownedFor>> /\ UNCHANGED <<heard, ghosts, calls>>
    BY <1>2 DEF Search, At, Num, pattern
  <2>2. \A q \in Ranks : q # r => found'[q] = found[q]
    BY <2>1 DEF Running, Types, OnRanks
  <2>3. QED BY <1>1, <2>1, <2>2, MapSized
<1>3. CASE LearnSenders(r)
  <2>1. /\ Num(r) = 2 /\ Goes(r, "reduce")
        /\ \E x : heard' = [heard EXCEPT ![r] = x]
        /\ UNCHANGED <<ghostRange, numFor, ownedFor>> /\ UNCHANGED <<found, ghosts, calls>>
    BY <1>3 DEF LearnSenders, At, Num, pattern
  <2>2. \A q \in Ranks : q # r => heard'[q] = heard[q]
    BY <2>1 DEF Running, Types, OnRanks
  <2>3. QED BY <1>1, <2>1, <2>2, MapSized
<1>4. CASE SendNumbers(r)
  <2>1. /\ Num(r) = 3 /\ Goes(r, "numbers")
        /\ UNCHANGED <<ghostRange, numFor, ownedFor>> /\ UNCHANGED <<found, heard, ghosts, calls>>
    BY <1>4 DEF SendNumbers, At, Num, pattern, transferVars, mapping
  <2>2. QED BY <1>1, <2>1, MapSized
<1>5. CASE SendIds(r)
  <2>1. /\ Num(r) = 4 /\ Goes(r, "ids")
        /\ UNCHANGED <<ghostRange, numFor, ownedFor>> /\ UNCHANGED <<found, heard, ghosts, calls>>
    BY <1>5 DEF SendIds, At, Num, pattern, transferVars, mapping
  <2>2. QED BY <1>1, <2>1, MapSized
<1>6. CASE SendCoordinates(r)
  <2>1. /\ Num(r) = 5 /\ Goes(r, "coords")
        /\ \E x : heard' = [heard EXCEPT ![r] = x]
        /\ UNCHANGED <<ghostRange, numFor, ownedFor>> /\ UNCHANGED <<found, ghosts, calls>>
    BY <1>6 DEF SendCoordinates, At, Num, pattern
  <2>2. \A q \in Ranks : q # r => heard'[q] = heard[q]
    BY <2>1 DEF Running, Types, OnRanks
  <2>3. QED BY <1>1, <2>1, <2>2, MapSized
<1>7. CASE Locate(r)
  <2>1. /\ Num(r) = 6 /\ Goes(r, "found")
        /\ \E x : ghosts' = [ghosts EXCEPT ![r] = x]
        /\ \E x : found' = [found EXCEPT ![r] = x]
        /\ UNCHANGED <<ghostRange, numFor, ownedFor>> /\ UNCHANGED <<heard, calls>>
    BY <1>7 DEF Locate, At, Num, pattern
  <2>2. \A q \in Ranks : q # r => found'[q] = found[q] /\ ghosts'[q] = ghosts[q]
    BY <2>1 DEF Running, Types, OnRanks
  <2>3. QED BY <1>1, <2>1, <2>2, MapSized
<1>8. CASE MakePattern(r)
  <2>1. /\ Num(r) = 7 /\ Goes(r, "gather")
        /\ UNCHANGED <<ghostRange, numFor, ownedFor>> /\ UNCHANGED <<found, heard, ghosts, calls>>
    BY <1>8 DEF MakePattern, At, Num, pattern, transferVars, mapping
  <2>2. QED BY <1>1, <2>1, MapSized
<1>9. QED BY <1>2, <1>3, <1>4, <1>5, <1>6, <1>7, <1>8 DEF MapStep

LEMMA CallStepSized ==
  ASSUME Running, \A q \in Ranks : Sized(q), NEW r \in Ranks, CallStep(r), threw' = {}
  PROVE  \A q \in Ranks : Sized(q)'
<1>1. calls[r] <= MaxCalls + 1 /\ calls[r] \in Nat /\ MaxCalls \in Nat
  BY TransferOK DEF Sized, Running, Types
<1> USE PhaseNames, PhaseNumbers
<1>2. ASSUME NEW c \in DOMAIN Phases, NEW n, n = PhaseNumber(c), Computes(r, c),
             n \in {13, 16}, n = Num(r) + 1, calls[r] <= MaxCalls
      PROVE  \A q \in Ranks : Sized(q)'
  <2>1. /\ Goes(r, c) /\ calls' = [calls EXCEPT ![r] = calls[r] + 1]
        /\ UNCHANGED <<ghostRange, numFor, ownedFor>> /\ UNCHANGED <<found, heard, ghosts>>
    BY <1>2 DEF Computes, pattern, mapping
  <2>2. calls'[r] <= MaxCalls + 1 /\ \A q \in Ranks : q # r => calls'[q] = calls[q]
    BY <1>1, <1>2, <2>1 DEF Running, Types
  <2>3. /\ n \in {2, 3, 4, 5, 6, 7, 8, 13, 14, 15, 16}
        /\ n = Num(r) + 1 \/ (Num(r) = 16 /\ n = 15)
        /\ n > 2 \/ heard'[r] = heard[r]
        /\ n > 6 \/ ghosts'[r] = ghosts[r]
    BY <1>2
  <2>4. \A q \in Ranks : q # r =>
          /\ found'[q] = found[q] /\ heard'[q] = heard[q] /\ ghosts'[q] = ghosts[q]
          /\ calls'[q] = calls[q]
    BY <2>1, <2>2
  <2>5. /\ c \in DOMAIN Phases /\ n = PhaseNumber(c) /\ Goes(r, c)
        /\ UNCHANGED <<ghostRange, numFor, ownedFor>> /\ calls'[r] <= MaxCalls + 1
    BY <1>2, <2>1, <2>2
  <2>6. QED BY <2>3, <2>4, <2>5, MapSized
<1>3. ASSUME NEW c \in DOMAIN Phases, NEW n, n = PhaseNumber(c), Inserts(r, c),
             (Num(r) = 13 /\ n = 14) \/ (Num(r) = 16 /\ n = 15)
      PROVE  \A q \in Ranks : Sized(q)'
  <2>1. /\ Goes(r, c)
        /\ UNCHANGED <<ghostRange, numFor, ownedFor>> /\ UNCHANGED <<found, heard, ghosts, calls>>
    BY <1>3 DEF Inserts, pattern, mapping
  <2>2. QED BY <1>1, <1>3, <2>1, MapSized
<1>4. CASE Check(r)
  <2>1. Num(r) = 12 /\ Computes(r, "checked")
    BY <1>4 DEF Check, At, Num
  <2>2. calls[r] = 0
    BY <2>1 DEF Running, Types
  <2>3. QED BY <1>1, <1>2, <2>1, <2>2
<1>5. CASE EndCheck(r)
  <2>1. Num(r) = 13 /\ Inserts(r, "agree")
    BY <1>5 DEF EndCheck, At, Num
  <2>2. QED BY <1>3, <2>1
<1>6. CASE Agree(r)
  <2>1. r \in threw \cup {r}
    OBVIOUS
  <2>2. ~Throws(r)
    BY <2>1 DEF Throws
  <2>3. /\ Num(r) = 14 /\ Goes(r, "work")
        /\ UNCHANGED <<ghostRange, numFor, ownedFor>> /\ UNCHANGED <<found, heard, ghosts, calls>>
    BY <1>6, <2>2 DEF Agree, At, Num, pattern, transferVars, mapping
  <2>4. QED BY <1>1, <2>3, MapSized
<1>7. CASE Interpolate(r)
  <2>1. Num(r) = 15 /\ Computes(r, "insert") /\ calls[r] <= MaxCalls
    BY <1>7 DEF Interpolate, At, Num
  <2>2. QED BY <1>2, <2>1
<1>8. CASE EndInterpolate(r)
  <2>1. Num(r) = 16 /\ Inserts(r, "work")
    BY <1>8 DEF EndInterpolate, At, Num
  <2>2. QED BY <1>3, <2>1
<1>9. QED BY <1>4, <1>5, <1>6, <1>7, <1>8 DEF CallStep

LEMMA PatternStepSized ==
  ASSUME Running, \A q \in Ranks : Sized(q), NEW r \in Ranks, PatternStep(r), threw' = {},
         UNCHANGED transferVars
  PROVE  \A q \in Ranks : Sized(q)'
<1>1. /\ UNCHANGED <<found, heard, calls>> /\ calls[r] <= MaxCalls + 1 /\ calls'[r] <= MaxCalls + 1
  BY DEF transferVars, mapping, Sized
<1>2. ~Throws(r)
  <2>1. r \in threw \cup {r}
    OBVIOUS
  <2>2. QED BY <2>1 DEF Throws
<1> USE PhaseNames, PhaseNumbers
<1>3. CASE LeaveGather(r)
  <2>1. /\ Num(r) = 8 /\ Goes(r, "ask") /\ UNCHANGED <<ghosts, numFor, ownedFor>>
        /\ \E x : ghostRange' = [ghostRange EXCEPT ![r] = x]
    BY <1>2, <1>3 DEF LeaveGather, At, Num
  <2>2. PICK n \in 1..16 : n = 9
    OBVIOUS
  <2>3. \A q \in Ranks : Num(q)' = IF q = r THEN n ELSE Num(q)
    BY <2>1, <2>2, MovesTo DEF Running
  <2>4. \A q \in Ranks : q # r => ghostRange'[q] = ghostRange[q]
    BY <2>1 DEF Running, Types, OnRanks
  <2>5. QED BY <1>1, <2>1, <2>2, <2>3, <2>4, SizedStep
<1>4. CASE SendCounts(r)
  <2>1. /\ Num(r) = 9 /\ Goes(r, "counts") /\ UNCHANGED <<ghosts, ghostRange, ownedFor>>
        /\ \E x : numFor' = [numFor EXCEPT ![r] = x]
    BY <1>4 DEF SendCounts, At, Num
  <2>2. PICK n \in 1..16 : n = 10
    OBVIOUS
  <2>3. \A q \in Ranks : Num(q)' = IF q = r THEN n ELSE Num(q)
    BY <2>1, <2>2, MovesTo DEF Running
  <2>4. \A q \in Ranks : q # r => numFor'[q] = numFor[q]
    BY <2>1 DEF Running, Types, OnRanks
  <2>5. QED BY <1>1, <2>1, <2>2, <2>3, <2>4, SizedStep
<1>5. CASE SendIndices(r)
  <2>1. /\ Num(r) = 10 /\ Goes(r, "indices") /\ UNCHANGED <<ghosts, ghostRange, ownedFor>>
        /\ Arrived(r, DOMAIN numFor[r], PatternTag)
        /\ numFor' = [numFor EXCEPT ![r] = [q \in DOMAIN numFor[r] |-> Received(r, q, PatternTag)[1]]]
    BY <1>2, <1>5 DEF SendIndices, At, Num
  <2>2. PICK n \in 1..16 : n = 11
    OBVIOUS
  <2>3. \A q \in Ranks : Num(q)' = IF q = r THEN n ELSE Num(q)
    BY <2>1, <2>2, MovesTo DEF Running
  <2>4. /\ \A q \in Ranks : q # r => numFor'[q] = numFor[q]
        /\ numFor'[r] = [q \in DOMAIN numFor[r] |-> Received(r, q, PatternTag)[1]]
    BY <2>1 DEF Running, Types, OnRanks
  <2>5. \A q \in DOMAIN numFor'[r] : q \in Ranks /\ numFor'[r][q] = Size(ghostRange[q][r])
    <3>1. \A q \in DOMAIN numFor[r] :
            q \in Ranks /\ Received(r, q, PatternTag)[1] = Size(ghostRange[q][r])
      BY <2>1, CountsReceived
    <3>2. QED BY <2>4, <3>1
  <2>6. n < 12 /\ n # 12 /\ n > 2 /\ n > 6 /\ n = Num(r) + 1 /\ ghostRange' = ghostRange
    BY <2>1, <2>2
  <2>7. \A q \in Ranks : q # r =>
          /\ found'[q] = found[q] /\ heard'[q] = heard[q] /\ ghosts'[q] = ghosts[q]
          /\ ghostRange'[q] = ghostRange[q] /\ numFor'[q] = numFor[q]
          /\ ownedFor'[q] = ownedFor[q] /\ calls'[q] = calls[q]
    BY <1>1, <2>1, <2>4
  <2>8. ownedFor'[r] = ownedFor[r]
    BY <2>1
  <2>9. QED BY <1>1, <2>3, <2>5, <2>6, <2>7, <2>8, SizedStep
<1>6. CASE KeepIndices(r)
  <2>1. /\ Num(r) = 11 /\ Goes(r, "built") /\ UNCHANGED <<ghosts, ghostRange, numFor>>
        /\ Arrived(r, DOMAIN numFor[r], PatternTag)
        /\ \E x : ownedFor' = [ownedFor EXCEPT ![r] = x]
    BY <1>2, <1>6 DEF KeepIndices, At, Num
  <2>2. PICK n \in 1..16 : n = 12
    OBVIOUS
  <2>3. \A q \in Ranks : Num(q)' = IF q = r THEN n ELSE Num(q)
    BY <2>1, <2>2, MovesTo DEF Running
  <2>4. \A q \in Ranks : q # r => ownedFor'[q] = ownedFor[q]
    BY <2>1 DEF Running, Types, OnRanks
  <2>5. \A q \in Requesters(r, ghostRange) : Num(q) >= 11
    BY <2>1, IndicesReceived
  <2>6. /\ n # 11 /\ n >= 12 /\ n > 2 /\ n > 6 /\ n = Num(r) + 1
        /\ numFor'[r] = numFor[r] /\ ghostRange' = ghostRange
    BY <2>1, <2>2
  <2>7. \A q \in Ranks : q # r =>
          /\ found'[q] = found[q] /\ heard'[q] = heard[q] /\ ghosts'[q] = ghosts[q]
          /\ ghostRange'[q] = ghostRange[q] /\ numFor'[q] = numFor[q]
          /\ ownedFor'[q] = ownedFor[q] /\ calls'[q] = calls[q]
    BY <1>1, <2>1, <2>4
  <2>8. QED BY <1>1, <2>3, <2>5, <2>6, <2>7, SizedStep
<1>7. QED BY <1>3, <1>4, <1>5, <1>6 DEF PatternStep

LEMMA SortedSet ==
  ASSUME NEW W \in SUBSET Nat, IsFiniteSet(W)
  PROVE  /\ ToSet(Sorted(W)) = W /\ Len(Sorted(W)) = Cardinality(W) /\ Cardinality(W) \in Nat
         /\ \A x \in W : Cardinality(Below(W, x)) \in Nat /\ Cardinality(Below(W, x)) < Cardinality(W)
<1> DEFINE s == Sorted(W)
<1>1. /\ s \in Seq(W) /\ Len(s) = Cardinality(W) /\ Cardinality(W) \in Nat
      /\ \A i \in 1..Cardinality(W) : s[i] \in W
      /\ \A x \in W : /\ Cardinality(Below(W, x)) + 1 \in 1..Cardinality(W)
                      /\ s[Cardinality(Below(W, x)) + 1] = x
  BY SortedFacts
<1>2. \A x : x \in ToSet(s) <=> \E i \in DOMAIN s : s[i] = x
  BY DEF ToSet
<1>3. \A x \in W : Cardinality(Below(W, x)) \in Nat /\ Cardinality(Below(W, x)) < Cardinality(W)
  BY BelowFacts
<1> HIDE DEF s
<1>4. DOMAIN s = 1..Cardinality(W)
  BY <1>1
<1>5. ASSUME NEW x \in W PROVE \E i \in DOMAIN s : s[i] = x
  BY <1>1, <1>4
<1>6. ToSet(s) = W
  BY <1>1, <1>2, <1>4, <1>5
<1>7. QED BY <1>1, <1>3, <1>6 DEF s

\* A rank's ghosts are in order, and what it found has a place among its values.
Listed(r) ==
  /\ ToSet(ghosts[r]) \subseteq Nat /\ Sorted(ToSet(ghosts[r])) = ghosts[r]
  /\ \A f \in found[r] : f.place < numPoints[r] + Len(ghosts[r])

LEMMA GhostsTyped ==
  ASSUME Running, Transfer, NEW r \in Ranks, Sized(r)
  PROVE  Listed(r)
<1> DEFINE W == Wanted(r)
<1>1. /\ Layout /\ Finds(r) /\ Num(r) \in 1..16 /\ numPoints[r] \in Nat
  BY NumIsNumber DEF Running, Types, Transfer
<1>2. /\ W \in SUBSET Nat /\ IsFiniteSet(W)
      /\ \A g \in Mine(r) : g \in Nat /\ owned[r][1] <= g /\ g < owned[r][1] + numPoints[r]
      /\ owned[r][1] \in Nat
  BY <1>1, MineFacts, LayoutFacts
<1>3. \A f \in OwnFound(r) : \E k \in Nat : f.place = k /\ k < numPoints[r]
  <2> SUFFICES ASSUME NEW g \in Mine(r) \ Lost(r)
               PROVE  LET f == [point |-> g, place |-> g - owned[r][1]] IN
                      \E k \in Nat : f.place = k /\ k < numPoints[r]
    BY DEF OwnFound
  <2>1. g - owned[r][1] \in Nat /\ g - owned[r][1] < numPoints[r]
    BY <1>1, <1>2
  <2>2. QED BY <2>1
<1>4. CASE Num(r) >= 7
  <2>1. ghosts[r] = Sorted(W) /\ found[r] = OwnFound(r) \cup GhostFound(r)
    BY <1>1, <1>4 DEF Finds
  <2> HIDE DEF W
  <2>2. /\ ToSet(Sorted(W)) = W /\ Len(Sorted(W)) = Cardinality(W) /\ Cardinality(W) \in Nat
        /\ \A x \in W : Cardinality(Below(W, x)) \in Nat /\ Cardinality(Below(W, x)) < Cardinality(W)
    BY <1>2, SortedSet
  <2>3. \A f \in GhostFound(r) : f.place < numPoints[r] + Len(ghosts[r])
    <3> SUFFICES ASSUME NEW g \in W
                 PROVE  LET f == [point |-> g, place |-> numPoints[r] + Cardinality(Below(W, g))] IN
                        f.place < numPoints[r] + Len(ghosts[r])
      BY DEF GhostFound, W
    <3>1. numPoints[r] + Cardinality(Below(W, g)) < numPoints[r] + Cardinality(W)
      BY <1>1, <2>2
    <3>2. QED BY <2>1, <2>2, <3>1
  <2>4. \A f \in OwnFound(r) : f.place < numPoints[r] + Len(ghosts[r])
    BY <1>1, <1>3, <2>1, <2>2
  <2>5. QED BY <1>2, <2>1, <2>2, <2>3, <2>4 DEF Listed
<1>5. CASE Num(r) <= 6
  <2>1. ghosts[r] = <<>> /\ found[r] \subseteq OwnFound(r)
    BY <1>1, <1>5 DEF Finds, Sized
  <2>2. ToSet(<<>>) = {} /\ Sorted({}) = <<>>
    <3>1. ToSet(<<>>) = {}
      BY DEF ToSet
    <3>2. {} \in SUBSET Nat /\ IsFiniteSet({}) /\ Cardinality({}) = 0
      BY FS_EmptySet
    <3>3. Sorted({}) \in Seq({}) /\ Len(Sorted({})) = 0
      BY <3>2, SortedFacts
    <3> DEFINE s == Sorted({})
    <3> HIDE DEF s
    <3>4. s = <<>>
      BY <3>3 DEF s
    <3>5. QED BY <3>1, <3>4 DEF s
  <2>3. \A f \in found[r] : f.place < numPoints[r] + 0
    BY <1>1, <1>3, <2>1
  <2>4. QED BY <2>1, <2>2, <2>3 DEF Listed
<1>6. QED BY <1>1, <1>4, <1>5 DEF Listed

Traced == Running /\ Transfer /\ \A r \in Ranks : Sized(r)
AllListed == \A r \in Ranks : Listed(r)

LEMMA GhostsListed == Traced => AllListed
BY GhostsTyped DEF Traced, AllListed

AllSized == Running /\ threw \subseteq Ranks /\ AllListed /\ \A r \in Ranks : Sized(r)

LEMMA RunningTyped ==
  ASSUME AllSized PROVE TypeOK
<1> USE DEF AllSized
<1> SUFFICES ASSUME NEW r \in Ranks
             PROVE  /\ pc[r] \in DOMAIN Phases
                    /\ ToSet(ghosts[r]) \subseteq Nat /\ Sorted(ToSet(ghosts[r])) = ghosts[r]
                    /\ \A p \in DOMAIN ghostRange[r] :
                         p \in Ranks /\ 0 <= ghostRange[r][p][1]
                           /\ ghostRange[r][p][1] < ghostRange[r][p][2]
                           /\ ghostRange[r][p][2] <= Len(ghosts[r])
                    /\ \A q \in DOMAIN ownedFor[r] :
                         Len(ownedFor[r][q]) = numFor[r][q]
                           /\ ToSet(ownedFor[r][q]) \subseteq 0..(Size(owned[r]) - 1)
                    /\ DOMAIN sendTo[r] \cup DOMAIN heard[r] \subseteq Ranks \ {r}
                    /\ \A f \in found[r] : f.place < numPoints[r] + Len(ghosts[r])
                    /\ calls[r] \in 0..(MaxCalls + 1)
  BY DEF TypeOK
<1>1. Num(r) \in 1..16 /\ Sized(r) /\ pc[r] \in DOMAIN Phases /\ DOMAIN EmptyMap = {}
  BY NumIsNumber DEF Running, Types, EmptyMap
<1>2. \A p \in DOMAIN ghostRange[r] :
        p \in Ranks /\ 0 <= ghostRange[r][p][1] /\ ghostRange[r][p][1] < ghostRange[r][p][2]
          /\ ghostRange[r][p][2] <= Len(ghosts[r])
  <2>1. CASE Num(r) >= 9
    <3>1. Placed(r)
      BY <2>1 DEF Running, GhostSide
    <3>2. QED BY <3>1 DEF Placed
  <2>2. CASE Num(r) <= 8
    BY <1>1, <2>2 DEF Sized
  <2>3. QED BY <1>1, <2>1, <2>2
<1>3. ASSUME NEW q \in DOMAIN ownedFor[r]
      PROVE  Len(ownedFor[r][q]) = numFor[r][q]
               /\ ToSet(ownedFor[r][q]) \subseteq 0..(Size(owned[r]) - 1)
  <2>1. Num(r) >= 12 /\ Num(r) >= 11 /\ Num(r) >= 10
    BY <1>1, <1>3 DEF Sized
  <2>2. /\ ownedFor[r] = [p \in Requesters(r, ghostRange) |-> LocalAt(p, r)]
        /\ DOMAIN numFor[r] = Requesters(r, ghostRange)
    BY <2>1 DEF Running, TargetSide
  <2>3. /\ q \in Ranks /\ r \in DOMAIN ghostRange[q] /\ ownedFor[r][q] = LocalAt(q, r)
        /\ q \in DOMAIN numFor[r] /\ q \in Requesters(r, ghostRange)
    BY <1>3, <2>2 DEF Requesters
  <2>4. Num(q) >= 11 /\ numFor[r][q] = Size(ghostRange[q][r])
    BY <1>1, <2>1, <2>3 DEF Sized
  <2>5. /\ Len(LocalAt(q, r)) = Size(ghostRange[q][r])
        /\ Size(owned[r]) \in Int
        /\ \A i \in DOMAIN LocalAt(q, r) :
              LocalAt(q, r)[i] \in Nat /\ LocalAt(q, r)[i] < Size(owned[r])
    BY <2>3, <2>4, IndicesFit
  <2> DEFINE s == LocalAt(q, r)
             size == Size(owned[r])
  <2> HIDE DEF s, size
  <2>6. ToSet(s) \subseteq 0..(size - 1)
    <3>1. \A i \in DOMAIN s : s[i] \in 0..(size - 1)
      BY <2>5 DEF s, size
    <3>2. QED BY <3>1 DEF ToSet
  <2>7. QED BY <2>3, <2>4, <2>5, <2>6 DEF s, size
<1>4. \A p \in Ranks : DOMAIN sendTo[p] \subseteq Ranks \ {p}
  <2> SUFFICES ASSUME NEW p \in Ranks PROVE DOMAIN sendTo[p] \subseteq Ranks \ {p}
    OBVIOUS
  <2>1. Num(p) \in 1..16
    BY NumIsNumber DEF Running, Types
  <2>2. sendTo[p] = EmptyMap \/ sendTo[p] = Asked(p)
    BY <2>1 DEF Running, Lists
  <2>3. QED BY <1>1, <2>2 DEF Asked
<1>5. DOMAIN heard[r] \subseteq Ranks \ {r}
  <2>1. CASE Num(r) <= 2
    BY <1>1, <2>1 DEF Sized
  <2>2. CASE Num(r) >= 3
    <3>1. DOMAIN heard[r] = Requesters(r, sendTo)
      BY <2>2 DEF Running, Lists
    <3>2. QED BY <1>4, <3>1 DEF Requesters
  <2>3. QED BY <1>1, <2>1, <2>2
<1>6. calls[r] \in 0..(MaxCalls + 1)
  BY <1>1, TransferOK DEF Sized, Running, Types
<1>7. QED BY <1>1, <1>2, <1>3, <1>4, <1>5, <1>6 DEF AllListed, Listed

\* The indices a rank receives for its targets are its own.
LEMMA NoneBeyond ==
  ASSUME Running, NEW r \in Ranks, Sized(r), KeepIndices(r)
  PROVE  UNCHANGED threw
<1> SUFFICES ASSUME ~(UNCHANGED threw) PROVE FALSE
  OBVIOUS
<1>1. /\ Num(r) = 11 /\ Arrived(r, DOMAIN numFor[r], PatternTag)
      /\ \E q \in DOMAIN numFor[r] : \E i \in 1..numFor[r][q] :
           Received(r, q, PatternTag)[i] >= Size(owned[r])
  BY PhaseNumbers DEF KeepIndices, At, Num
<1>2. PICK q \in DOMAIN numFor[r] : \E i \in 1..numFor[r][q] :
        Received(r, q, PatternTag)[i] >= Size(owned[r])
  BY <1>1
<1>3. /\ q \in Ranks /\ Received(r, q, PatternTag) = LocalAt(q, r) /\ Num(q) >= 11
      /\ r \in DOMAIN ghostRange[q]
  BY <1>1, IndicesReceived DEF Requesters
<1>4. numFor[r][q] = Size(ghostRange[q][r])
  BY <1>1 DEF Sized
<1>5. /\ DOMAIN LocalAt(q, r) = 1..Size(ghostRange[q][r])
      /\ Size(owned[r]) \in Int
      /\ \A i \in DOMAIN LocalAt(q, r) :
            LocalAt(q, r)[i] \in Nat /\ LocalAt(q, r)[i] < Size(owned[r])
  BY <1>3, IndicesFit
<1>6. PICK i \in DOMAIN LocalAt(q, r) : LocalAt(q, r)[i] >= Size(owned[r])
  BY <1>2, <1>3, <1>4, <1>5
<1> QED BY <1>5, <1>6

\* A rank that throws leaves no more than is allowed for: KeepIndices throws nothing.
LEMMA ThrowKeepsTypes ==
  ASSUME TypeOK, Running, \A q \in Ranks : Sized(q), NEW r \in Ranks, RankStep(r), threw' # {}
  PROVE  TypeOK'
<1>1. pc' = pc /\ UNCHANGED transferVars /\ UNCHANGED <<owned, ghosts, ghostRange>>
  BY ThrowIsAll
<1>2. ~(UNCHANGED threw)
  BY StepsUntilThrow
<1>3. /\ threw' = threw \cup {r} /\ ownedFor' = ownedFor
      /\ \A q \in Ranks : ownedFor[q] = EmptyMap \/ numFor'[q] = numFor[q]
  <2>1. CASE LeaveGather(r)
    BY <1>2, <2>1 DEF LeaveGather, Throws
  <2>2. CASE SendIndices(r)
    <3>1. /\ Num(r) = 10 /\ threw' = threw \cup {r} /\ ownedFor' = ownedFor
          /\ \E x : numFor' = [numFor EXCEPT ![r] = x]
      BY <1>2, <2>2, PhaseNumbers DEF SendIndices, Throws, At, Num
    <3>2. \A q \in Ranks : q # r => numFor'[q] = numFor[q]
      BY <3>1 DEF Running, Types, OnRanks
    <3>3. ownedFor[r] = EmptyMap
      BY <3>1 DEF Sized
    <3>4. QED BY <3>1, <3>2, <3>3
  <2>3. CASE KeepIndices(r)
    BY <1>2, <2>3, NoneBeyond
  <2>4. CASE Agree(r)
    BY <1>2, <2>4 DEF Agree, Throws, pattern
  <2>5. CASE MapStep(r)
    BY <1>2, <2>5 DEF MapStep, Search, LearnSenders, SendNumbers, SendIds, SendCoordinates,
                      Locate, MakePattern
  <2>6. CASE SendCounts(r)
    BY <1>2, <2>6 DEF SendCounts
  <2>7. CASE Check(r) \/ EndCheck(r) \/ Interpolate(r) \/ EndInterpolate(r)
    BY <1>2, <2>7 DEF Check, EndCheck, Interpolate, EndInterpolate, Computes, Inserts
  <2>8. QED BY <2>1, <2>2, <2>3, <2>4, <2>5, <2>6, <2>7 DEF RankStep, PatternStep, CallStep
<1>4. ASSUME NEW q \in Ranks
      PROVE  \A p \in DOMAIN ownedFor'[q] :
               Len(ownedFor'[q][p]) = numFor'[q][p]
                 /\ ToSet(ownedFor'[q][p]) \subseteq 0..(Size(owned'[q]) - 1)
  <2>1. \A p \in DOMAIN ownedFor[q] :
          Len(ownedFor[q][p]) = numFor[q][p]
            /\ ToSet(ownedFor[q][p]) \subseteq 0..(Size(owned[q]) - 1)
    BY DEF TypeOK
  <2>2. DOMAIN EmptyMap = {}
    BY DEF EmptyMap
  <2>3. QED BY <1>1, <1>3, <2>1, <2>2
<1>5. threw' \subseteq Ranks
  BY <1>3 DEF TypeOK
<1>6. QED BY <1>1, <1>4, <1>5 DEF TypeOK, transferVars, mapping

\* Every rank's lists, ranges, numbers of indices and places have the sizes they
\* should have at every moment of the transfer, a rank's exception included; the
\* indices a rank receives for its targets are always its own, so that the check of
\* MPIPatternP2P against them never fails.
THEOREM TypeCorrect == Spec => []TypeOK
<1>1. Init => TypedInv
  <2> SUFFICES ASSUME Init PROVE TypedInv
    OBVIOUS
  <2>1. ServedInv /\ threw = {} /\ Running /\ Transfer
    <3>1. ServedInv /\ threw = {}
      BY InitRunning, InitTransfer, PhaseNames DEF ServedInv, Init
    <3>2. QED BY <3>1 DEF ServedInv, PatternInv
  <2>2. \A r \in Ranks : Num(r) = 1
    BY PhaseNumbers DEF Init, Num
  <2>3. \A r \in Ranks : Sized(r)
    BY <2>2, TransferOK DEF Sized, Init, NoPattern
  <2>4. AllListed
    BY <2>1, <2>3, GhostsListed DEF Traced
  <2>5. QED BY <2>1, <2>3, <2>4, RunningTyped DEF TypedInv, AllSized
<1>2. TypedInv /\ [Next]_vars => TypedInv'
  <2> SUFFICES ASSUME TypedInv, [Next]_vars PROVE TypedInv'
    OBVIOUS
  <2>1. ServedInv'
    BY ServedKept DEF TypedInv
  <2>2. CASE UNCHANGED vars
    <3>1. TypeOK'
      BY <2>2 DEF TypedInv, TypeOK, vars, patternVars, transferVars, pattern, mapping
    <3>2. \A q \in Ranks : Sized(q)' <=> Sized(q)
      BY <2>2 DEF Sized, Num, vars, patternVars, transferVars, pattern, mapping
    <3>3. threw' = threw
      BY <2>2 DEF vars, patternVars
    <3>4. QED BY <2>1, <3>1, <3>2, <3>3 DEF TypedInv
  <2>3. ASSUME NEW r \in Ranks, RankStep(r) PROVE TypedInv'
    <3>1. Running /\ Transfer /\ (\A q \in Ranks : Sized(q)) /\ TypeOK
      BY <2>3, StepsUntilThrow DEF TypedInv, ServedInv, PatternInv
    <3>2. CASE threw' = {}
      <4>1. \A q \in Ranks : Sized(q)'
        BY <2>3, <3>1, <3>2, MapStepSized, CallStepSized, PatternStepSized DEF RankStep
      <4>2. AllSized'
        <5>1. Traced'
          BY <2>1, <3>2, <4>1 DEF ServedInv, PatternInv, Traced
        <5>2. AllListed'
          BY <5>1, GhostsListed, PTL
        <5> QED BY <2>1, <3>2, <4>1, <5>2 DEF ServedInv, PatternInv, AllSized
      <4>3. TypeOK'
        BY <4>2, RunningTyped, PTL
      <4>4. QED BY <2>1, <4>1, <4>3 DEF TypedInv
    <3>3. CASE threw' # {}
      <4>1. TypeOK'
        BY <2>3, <3>1, <3>3, ThrowKeepsTypes
      <4>2. QED BY <2>1, <3>3, <4>1 DEF TypedInv
    <3>4. QED BY <3>2, <3>3
  <2>4. QED BY <2>2, <2>3 DEF Next
<1>3. TypedInv => TypeOK
  BY DEF TypedInv
<1>4. QED BY <1>1, <1>2, <1>3, PTL DEF Spec
-----------------------------------------------------------------------------
(***************************************************************************)
(* Exceptions of the constructor.                                          *)
(***************************************************************************)
\* What the constructor is given.
Given ==
  /\ owned \in [Ranks -> Nat \X Nat] /\ \A r \in Ranks : owned[r][1] <= owned[r][2]
  /\ \A r \in Ranks : Num(r) >= 8 =>
       \A i, j \in DOMAIN ghosts[r] : i < j => ghosts[r][i] < ghosts[r][j]
OwnedGhosts(r) == \A i \in DOMAIN ghosts[r] : \E q \in Ranks : Owns(owned, q, ghosts[r][i])
\* What a rank past the search for the owners knows.
Ready(r) ==
  /\ Num(r) >= 9 => Disjoint
  /\ Num(r) >= 9 /\ Partition /\ OwnedGhosts(r) =>
       \A o \in DOMAIN ghostRange[r] : ~Foreign(r, o)
AllReady == threw = {} /\ Running /\ Given /\ \A r \in Ranks : Ready(r) /\ Sized(r)
ThrowsInv == ThrowsWhereItSays /\ (threw = {} => AllReady)

LEMMA GivenRanges ==
  ASSUME Given
  PROVE  owned \in [Ranks -> Nat \X Nat] /\ \A r \in Ranks : owned[r][1] <= owned[r][2]
<1>1. owned \in [Ranks -> Nat \X Nat]
  BY DEF Given
<1>2. \A r \in Ranks : owned[r][1] <= owned[r][2]
  BY DEF Given
<1> QED BY <1>1, <1>2

\* No index is in two ranges exactly if of any two ranges one ends before the other.
LEMMA DisjointIsApart ==
  ASSUME owned \in [Ranks -> Nat \X Nat], \A r \in Ranks : owned[r][1] <= owned[r][2]
  PROVE  Disjoint <=> \A p, q \in Ranks :
                        p # q /\ HasIndices(owned, p) /\ HasIndices(owned, q) => Apart(owned, p, q)
<1>1. \A r \in Ranks : owned[r][1] \in Nat /\ owned[r][2] \in Nat
  OBVIOUS
<1>2. ASSUME Disjoint, NEW p \in Ranks, NEW q \in Ranks, p # q,
             HasIndices(owned, p), HasIndices(owned, q)
      PROVE  Apart(owned, p, q)
  <2>1. /\ owned[p][1] < owned[p][2] /\ owned[q][1] < owned[q][2]
    BY <1>2 DEF HasIndices
  <2>2. \A g \in owned[p][1]..owned[p][2] : ~(Owns(owned, p, g) /\ Owns(owned, q, g))
    BY <1>2 DEF Disjoint
  <2>3. CASE owned[p][1] <= owned[q][1]
    <3>1. CASE owned[q][1] < owned[p][2]
      <4>1. owned[q][1] \in owned[p][1]..owned[p][2]
        BY <1>1, <2>3, <3>1
      <4>2. Owns(owned, p, owned[q][1]) /\ Owns(owned, q, owned[q][1])
        BY <1>1, <2>1, <2>3, <3>1 DEF Owns
      <4> QED BY <2>2, <4>1, <4>2
    <3> QED BY <1>1, <3>1 DEF Apart
  <2>4. CASE owned[q][1] < owned[p][1]
    <3>1. CASE owned[p][1] < owned[q][2]
      <4>1. owned[p][1] \in owned[p][1]..owned[p][2]
        BY <1>1, <2>1
      <4>2. Owns(owned, p, owned[p][1]) /\ Owns(owned, q, owned[p][1])
        BY <1>1, <2>1, <2>4, <3>1 DEF Owns
      <4> QED BY <2>2, <4>1, <4>2
    <3> QED BY <1>1, <3>1 DEF Apart
  <2> QED BY <1>1, <2>3, <2>4
<1>3. ASSUME \A p, q \in Ranks :
               p # q /\ HasIndices(owned, p) /\ HasIndices(owned, q) => Apart(owned, p, q),
             NEW p \in Ranks, NEW q \in Ranks, p # q, NEW g \in owned[p][1]..owned[p][2],
             Owns(owned, p, g), Owns(owned, q, g)
      PROVE  FALSE
  <2>1. g \in Nat /\ owned[p][1] <= g /\ g < owned[p][2] /\ owned[q][1] <= g /\ g < owned[q][2]
    BY <1>1, <1>3 DEF Owns
  <2>2. HasIndices(owned, p) /\ HasIndices(owned, q)
    BY <1>1, <2>1 DEF HasIndices
  <2>3. Apart(owned, p, q)
    BY <1>3, <2>2
  <2> QED BY <1>1, <2>1, <2>3 DEF Apart
<1> QED BY <1>2, <1>3 DEF Disjoint

\* In whatever order the ranks come, an overlap is found exactly if there is one.
LEMMA OverlapsAnyOrder ==
  ASSUME owned \in [Ranks -> Nat \X Nat], \A r \in Ranks : owned[r][1] <= owned[r][2],
         NEW rank \in [Ranks -> Ranks], IsInjective(rank)
  PROVE  Disjoint <=> Overlapping(owned, rank) = {}
<1>1. RangesAndOrder(Ranks, owned, rank)
  <2>1. IsFiniteSet(Ranks) /\ Ranks \subseteq Nat
    BY RanksFinite
  <2>2. rank \in [Ranks -> Nat]
    BY <2>1
  <2> QED BY <2>1, <2>2 DEF RangesAndOrder
<1> QED BY <1>1, OverlapsFound, DisjointIsApart

\* There is an order of the ranks for the sort to leave equal marks in.
LEMMA SortOrderExists == SortOrder \in [Ranks -> Ranks] /\ IsInjective(SortOrder)
<1> DEFINE same == [r \in Ranks |-> r]
<1>1. same \in [Ranks -> Ranks] /\ IsInjective(same)
  BY DEF IsInjective
<1> HIDE DEF same
<1>2. \E rank \in [Ranks -> Ranks] : IsInjective(rank)
  BY <1>1
<1> QED BY <1>2 DEF SortOrder

\* The sizes of the ranges add up to a number of indices.
LEMMA NumGlobalTyped ==
  ASSUME owned \in [Ranks -> Nat \X Nat], \A r \in Ranks : owned[r][1] <= owned[r][2]
  PROVE  NumGlobal(owned) \in Nat
<1> DEFINE counts == [r \in Ranks |-> Size(owned[r])]
<1>1. \A r \in Ranks : Size(owned[r]) \in Nat
  <2>1. \A r \in Ranks : owned[r][1] \in Nat /\ owned[r][2] \in Nat
    OBVIOUS
  <2> QED BY <2>1 DEF Size
<1>2. counts \in [Ranks -> Nat] /\ \A r \in Ranks : Size(owned[r]) = counts[r]
  BY <1>1
<1>3. DOMAIN owned = Ranks
  OBVIOUS
<1> HIDE DEF counts
<1>4. NumGlobal(owned) = SumFunction(counts)
  BY <1>2, <1>3, SizesAddUp
<1>5. IsFiniteSet(DOMAIN counts) /\ \A x \in DOMAIN counts : counts[x] \in Nat
  BY <1>2, RanksFinite
<1>6. SumFunction(counts) = SumOf(counts, DOMAIN counts)
  BY SumsAreFolds DEF SumFunction
<1> QED BY <1>4, <1>5, <1>6, SumUnfolds

\* When the ranges partition the indices, the search finds the owner of an index.
LEMMA OwnersAreFinders ==
  ASSUME owned \in [Ranks -> Nat \X Nat], \A r \in Ranks : owned[r][1] <= owned[r][2],
         Partition, NEW o \in Ranks, NEW g \in Nat, Owns(owned, o, g)
  PROVE  Finders(owned, NumGlobal(owned), g) = {o} /\ g < NumGlobal(owned)
<1> DEFINE n == NumGlobal(owned)
<1>1. \A r \in Ranks : owned[r][1] \in Nat /\ owned[r][2] \in Nat
  OBVIOUS
<1>2. n \in Nat
  BY NumGlobalTyped
<1>3. \A r \in Ranks : owned[r][1] < owned[r][2] => owned[r][2] <= n
  <2>1. \A r \in Ranks : Size(owned[r]) > 0 => owned[r][2] <= n
    BY DEF Partition
  <2> HIDE DEF n
  <2> QED BY <1>1, <2>1 DEF Size
<1> HIDE DEF n
<1>4. \A p, q \in Ranks : p = q \/ owned[p][1] = owned[p][2] \/ owned[q][1] = owned[q][2]
                            \/ owned[p][2] <= owned[q][1] \/ owned[q][2] <= owned[p][1]
  <2>1. \A p, q \in Ranks : p # q /\ HasIndices(owned, p) /\ HasIndices(owned, q) => Apart(owned, p, q)
    BY DisjointIsApart DEF Partition
  <2>2. \A p \in Ranks : owned[p][1] = owned[p][2] \/ HasIndices(owned, p)
    BY <1>1 DEF HasIndices
  <2> QED BY <2>1, <2>2 DEF Apart
<1>5. Ranks \in SUBSET Nat
  BY RanksFinite
<1>6. Finders(owned, n, g) = {o}
  BY <1>2, <1>3, <1>4, <1>5, OwnerFound
<1>7. g < n
  BY <1>1, <1>2, <1>3 DEF Owns
<1> QED BY <1>6, <1>7 DEF n

\* The places of one owner's ghosts are one after another: between two indices
\* that a rank owns are its own.
LEMMA OwnersContiguous ==
  ASSUME NEW s, NEW n \in Nat, s \in [1..n -> Nat], \A i, j \in 1..n : i < j => s[i] < s[j],
         owned \in [Ranks -> Nat \X Nat],
         NEW f \in [1..n -> Ranks],
         \A i \in 1..n, p \in Ranks : Owns(owned, p, s[i]) <=> p = f[i],
         NEW p \in ToSet(f)
  PROVE  /\ Contiguous(PlacesOf(f, p)) /\ p \in Ranks
         /\ \A i \in 1..n : RangeOf(PlacesOf(f, p))[1] < i /\ i <= RangeOf(PlacesOf(f, p))[2]
                              => Owns(owned, p, s[i])
<1> DEFINE T == PlacesOf(f, p)
           a == LeastOf(T)
           b == GreatestOf(T)
<1>1. PICK k \in 1..n : f[k] = p
  BY DEF ToSet
<1>2. \A x : x \in T <=> \E i \in 1..n : f[i] = p /\ x = i - 1
  BY DEF PlacesOf
<1>3. p \in Ranks /\ owned[p][1] \in Nat /\ owned[p][2] \in Nat
  BY <1>1
<1> HIDE DEF T
<1>4. T \in SUBSET Nat /\ k - 1 \in T /\ n - 1 \in Nat /\ \A y \in T : y <= n - 1
  BY <1>1, <1>2
<1>5. a \in T /\ \A y \in T : a <= y
  BY <1>4, LeastOfFacts
<1>6. b \in T /\ \A y \in T : y <= b
  BY <1>4, GreatestOfFacts
<1>7. RangeOf(T) = <<a, 1 + b>>
  BY DEF RangeOf, GreatestOf
<1> HIDE DEF a, b
<1>8. a \in Nat /\ b \in Nat /\ a <= b
  BY <1>4, <1>5, <1>6
<1>9. PICK x \in 1..n : f[x] = p /\ a = x - 1
  BY <1>2, <1>5
<1>10. PICK y \in 1..n : f[y] = p /\ b = y - 1
  BY <1>2, <1>6
<1>11. ASSUME NEW i \in 1..n, x <= i, i <= y PROVE f[i] = p /\ Owns(owned, p, s[i])
  <2>1. Owns(owned, p, s[x]) /\ Owns(owned, p, s[y])
    BY <1>3, <1>9, <1>10
  <2>2. s[x] \in Nat /\ s[y] \in Nat /\ s[i] \in Nat
    OBVIOUS
  <2>3. s[x] <= s[i] /\ s[i] <= s[y]
    <3>1. x = i \/ s[x] < s[i]
      BY <1>11
    <3>2. i = y \/ s[i] < s[y]
      BY <1>11
    <3> QED BY <2>2, <3>1, <3>2
  <2>4. Owns(owned, p, s[i])
    BY <1>3, <2>1, <2>2, <2>3 DEF Owns
  <2> QED BY <1>3, <2>4
<1>12. T = a..b
  <2>1. ASSUME NEW z \in a..b PROVE z \in T
    <3>1. z \in Nat /\ z + 1 \in 1..n /\ x <= z + 1 /\ z + 1 <= y /\ z = (z + 1) - 1
      BY <1>8, <1>9, <1>10
    <3> QED BY <1>2, <1>11, <3>1
  <2>2. ASSUME NEW z \in T PROVE z \in a..b
    BY <1>4, <1>5, <1>6, <1>8
  <2> QED BY <2>1, <2>2
<1>13. Cardinality(T) = b - a + 1
  BY <1>8, <1>12, FS_Interval
<1>14. Contiguous(T)
  BY <1>7, <1>8, <1>13 DEF Contiguous, Size
<1>15. ASSUME NEW i \in 1..n, RangeOf(T)[1] < i, i <= RangeOf(T)[2]
       PROVE  Owns(owned, p, s[i])
  <2>1. x <= i /\ i <= y
    BY <1>7, <1>8, <1>9, <1>10, <1>15
  <2> QED BY <1>11, <2>1
<1> QED BY <1>3, <1>14, <1>15 DEF T

\* When the ranges partition the indices and its ghosts are owned, a rank has no
\* reason to throw, and the ghosts in an owner's range are that owner's.
LEMMA PatternAccepted ==
  ASSUME Running, Given, NEW r \in Ranks, Num(r) = 8, Partition, OwnedGhosts(r)
  PROVE  /\ ~Rejected(r)
         /\ \A f \in Attributions(r) : \A p \in ToSet(f) :
              /\ Contiguous(PlacesOf(f, p)) /\ p \in Ranks
              /\ \A i \in DOMAIN ghosts[r] :
                   RangeOf(PlacesOf(f, p))[1] < i /\ i <= RangeOf(PlacesOf(f, p))[2]
                     => Owns(owned, p, ghosts[r][i])
<1> DEFINE s == ghosts[r]
           n == NumGlobal(owned)
<1>1. owned \in [Ranks -> Nat \X Nat] /\ \A q \in Ranks : owned[q][1] <= owned[q][2]
  BY GivenRanges
<1>2. PICK len \in Nat : s \in [1..len -> Nat] /\ DOMAIN s = 1..len
  <2>1. s \in Seq(Nat)
    BY DEF Running, Types
  <2> HIDE DEF s
  <2>2. Len(s) \in Nat /\ s \in [1..Len(s) -> Nat] /\ DOMAIN s = 1..Len(s)
    BY <2>1
  <2> QED BY <2>2
<1>3. \A i, j \in 1..len : i < j => s[i] < s[j]
  BY <1>2 DEF Given
<1>4. \A i \in 1..len : \E q \in Ranks : Owns(owned, q, s[i])
  BY <1>2 DEF OwnedGhosts
<1>5. \A i \in 1..len, q \in Ranks :
        Owns(owned, q, s[i]) => Finders(owned, n, s[i]) = {q} /\ s[i] < n
  <2>1. \A i \in 1..len : s[i] \in Nat
    BY <1>2
  <2> HIDE DEF s, n
  <2> QED BY <1>1, <2>1, OwnersAreFinders DEF n
<1>6. ~Rejected(r)
  <2>1. Overlapping(owned, SortOrder) = {}
    BY <1>1, SortOrderExists, OverlapsAnyOrder DEF Partition
  <2>2. \A i \in 1..len : s[i] \in Nat /\ n \in Nat
    BY <1>1, <1>2, NumGlobalTyped
  <2>3. \A i \in DOMAIN s : s[i] \in Nat /\ s[i] < n /\ n \in Nat /\ Finders(owned, n, s[i]) # {}
    <3> SUFFICES ASSUME NEW i \in 1..len
                 PROVE  s[i] \in Nat /\ s[i] < n /\ n \in Nat /\ Finders(owned, n, s[i]) # {}
      BY <1>2
    <3>1. PICK q \in Ranks : Owns(owned, q, s[i])
      BY <1>4
    <3>2. Finders(owned, n, s[i]) = {q} /\ s[i] < n
      BY <1>5, <3>1
    <3> HIDE DEF n, s
    <3> QED BY <2>2, <3>2
  <2>4. Rejected(r) <=> \/ Overlapping(owned, SortOrder) # {}
                        \/ \E i \in DOMAIN s : s[i] >= n \/ Finders(owned, n, s[i]) = {}
    BY DEF Rejected
  <2> HIDE DEF n, s
  <2> QED BY <2>1, <2>3, <2>4
<1>7. ASSUME NEW f \in Attributions(r)
      PROVE  f \in [1..len -> Ranks] /\ \A i \in 1..len, p \in Ranks : Owns(owned, p, s[i]) <=> p = f[i]
  <2>1. f \in [1..len -> Ranks] /\ \A i \in 1..len : f[i] \in Finders(owned, n, s[i])
    BY <1>2 DEF Attributions
  <2> HIDE DEF s, n
  <2>2. ASSUME NEW i \in 1..len PROVE Owns(owned, f[i], s[i])
    <3>1. PICK q \in Ranks : Owns(owned, q, s[i])
      BY <1>4
    <3>2. f[i] = q
      BY <1>5, <2>1, <3>1
    <3> QED BY <3>1, <3>2
  <2>3. ASSUME NEW i \in 1..len, NEW p \in Ranks, Owns(owned, p, s[i]) PROVE p = f[i]
    BY <1>5, <2>1, <2>3
  <2> QED BY <2>1, <2>2, <2>3
<1>8. ASSUME NEW f \in Attributions(r), NEW p \in ToSet(f)
      PROVE  /\ Contiguous(PlacesOf(f, p)) /\ p \in Ranks
             /\ \A i \in 1..len : RangeOf(PlacesOf(f, p))[1] < i /\ i <= RangeOf(PlacesOf(f, p))[2]
                                    => Owns(owned, p, s[i])
  <2> HIDE DEF s
  <2> QED BY <1>1, <1>2, <1>3, <1>7, OwnersContiguous
<1> QED BY <1>2, <1>6, <1>8

LEMMA SaysWhenRunning ==
  ASSUME AllReady PROVE ThrowsWhereItSays
<1> USE DEF AllReady
<1>1. \A r \in Ranks : Built(r) => Num(r) >= 9
  <2>1. \A r \in Ranks : Num(r) \in 1..16
    BY NumIsNumber DEF Running, Types
  <2> QED BY <2>1, PhaseNumbers DEF Built, Num
<1>2. ~Disjoint => \A r \in Ranks : ~Built(r)
  BY <1>1 DEF Ready
<1>3. ASSUME NEW r \in Ranks, Built(r), NEW i \in DOMAIN ghosts[r]
      PROVE  \E q \in Ranks : Owns(owned, q, ghosts[r][i])
  <2>1. \E o \in DOMAIN ghostRange[r] : Owns(owned, o, ghosts[r][i])
    BY <1>3, RunningPairs DEF PatternsPair
  <2>2. DOMAIN ghostRange[r] \subseteq Ranks
    BY <1>1, <1>3 DEF Running, GhostSide, Placed
  <2> QED BY <2>1, <2>2
<1>4. \A rank \in {f \in [Ranks -> Ranks] : IsInjective(f)} :
        Disjoint <=> Overlapping(owned, rank) = {}
  BY OverlapsAnyOrder DEF Given
<1> QED BY <1>2, <1>3, <1>4 DEF ThrowsWhereItSays

LEMMA GivenFixed ==
  ASSUME UNCHANGED owned
  PROVE  /\ Disjoint' <=> Disjoint
         /\ Partition' <=> Partition
         /\ \A q, g : Owns(owned, q, g)' <=> Owns(owned, q, g)
         /\ \A q \in Ranks : ghosts'[q] = ghosts[q] => (OwnedGhosts(q)' <=> OwnedGhosts(q))
         /\ \A q \in Ranks : ghosts'[q] = ghosts[q] /\ ghostRange'[q] = ghostRange[q] =>
              \A o : Foreign(q, o)' <=> Foreign(q, o)
<1>1. \A q, g : Owns(owned, q, g)' <=> Owns(owned, q, g)
  BY DEF Owns
<1>2. Disjoint' <=> Disjoint
  BY <1>1 DEF Disjoint
<1>3. Partition' <=> Partition
  BY <1>2 DEF Partition
<1>4. \A q \in Ranks : ghosts'[q] = ghosts[q] => (OwnedGhosts(q)' <=> OwnedGhosts(q))
  BY <1>1 DEF OwnedGhosts
<1>5. \A q \in Ranks : ghosts'[q] = ghosts[q] /\ ghostRange'[q] = ghostRange[q] =>
        \A o : Foreign(q, o)' <=> Foreign(q, o)
  BY DEF Foreign, GhostsAt, Owns
<1> QED BY <1>1, <1>2, <1>3, <1>4, <1>5

\* What the ranges partition gives no rank's search, sends or receives a reason to throw.
LEMMA ThrowHasReason ==
  ASSUME Running, Given, \A q \in Ranks : Ready(q) /\ Sized(q), NEW r \in Ranks, RankStep(r),
         threw' # {},
         Partition, GhostsOwned
  PROVE  pc[r] = "agree"
<1>1. ~(UNCHANGED threw) /\ OwnedGhosts(r)
  BY StepsUntilThrow DEF GhostsOwned, OwnedGhosts
<1>2. CASE LeaveGather(r)
  <2>1. Num(r) = 8
    BY <1>2, PhaseNumbers DEF LeaveGather, At, Num
  <2>2. /\ ~Rejected(r)
        /\ \A f \in Attributions(r) : \A p \in ToSet(f) : Contiguous(PlacesOf(f, p))
    BY <1>1, <2>1, PatternAccepted
  <2> QED BY <1>1, <1>2, <2>2 DEF LeaveGather
<1>3. CASE SendIndices(r)
  <2>1. Num(r) = 10 /\ \E p \in DOMAIN ghostRange[r] : Foreign(r, p)
    BY <1>1, <1>3, PhaseNumbers DEF SendIndices, At, Num
  <2>2. Num(r) >= 9
    BY <2>1
  <2> QED BY <1>1, <2>1, <2>2 DEF Ready
<1>4. CASE KeepIndices(r)
  BY <1>1, <1>4, NoneBeyond
<1>5. CASE Agree(r)
  BY <1>5 DEF Agree, At
<1>6. CASE MapStep(r)
  BY <1>1, <1>6 DEF MapStep, Search, LearnSenders, SendNumbers, SendIds, SendCoordinates, Locate,
                    MakePattern
<1>7. CASE SendCounts(r)
  BY <1>1, <1>7 DEF SendCounts
<1>8. CASE Check(r) \/ EndCheck(r) \/ Interpolate(r) \/ EndInterpolate(r)
  BY <1>1, <1>8 DEF Check, EndCheck, Interpolate, EndInterpolate, Computes, Inserts
<1> QED BY <1>2, <1>3, <1>4, <1>5, <1>6, <1>7, <1>8 DEF RankStep, PatternStep, CallStep

\* Nothing else changes while phases, ranges and ghosts are the same.
LEMMA SaysStays ==
  ASSUME ThrowsWhereItSays, UNCHANGED <<pc, owned, ghosts>>,
         Partition /\ GhostsOwned /\ threw' # {} =>
           threw # {} \/ \E r \in Ranks : PhaseNumber(pc[r]) > PhaseNumber("built")
  PROVE  ThrowsWhereItSays'
<1>1. /\ Disjoint' <=> Disjoint
      /\ Partition' <=> Partition
      /\ GhostsOwned' <=> GhostsOwned
  BY GivenFixed DEF GhostsOwned
<1>2. \A q \in Ranks : Built(q)' <=> Built(q)
  BY DEF Built
<1>3. AllIn("gather")' <=> AllIn("gather")
  BY DEF AllIn
<1>4. AllIn("gather")' /\ Partition' /\ GhostsOwned' /\ threw' # {} =>
        \E q \in Ranks : PhaseNumber(pc'[q]) > PhaseNumber("built")
  <2>1. AllIn("gather") /\ Partition /\ GhostsOwned /\ threw # {} =>
          \E q \in Ranks : PhaseNumber(pc[q]) > PhaseNumber("built")
    BY DEF ThrowsWhereItSays
  <2> QED BY <1>1, <1>3, <2>1
<1>5. ~Disjoint' => \A q \in Ranks : ~(Built(q)')
  <2>1. ~Disjoint => \A q \in Ranks : ~Built(q)
    BY DEF ThrowsWhereItSays
  <2> QED BY <1>1, <1>2, <2>1
<1>6. \A q \in Ranks : Built(q)' =>
        \A i \in DOMAIN ghosts'[q] : \E p \in Ranks : Owns(owned, p, ghosts[q][i])'
  <2>1. \A q \in Ranks : Built(q) =>
          \A i \in DOMAIN ghosts[q] : \E p \in Ranks : Owns(owned, p, ghosts[q][i])
    BY DEF ThrowsWhereItSays
  <2> QED BY <1>2, <2>1 DEF Owns
<1>7. (\A q \in Ranks : pc'[q] = "gather" /\ ghosts'[q] = <<>>) =>
        \A rank \in {f \in [Ranks -> Ranks] : IsInjective(f)} :
          Disjoint' <=> Overlapping(owned', rank) = {}
  <2>1. (\A q \in Ranks : pc[q] = "gather" /\ ghosts[q] = <<>>) =>
          \A rank \in {f \in [Ranks -> Ranks] : IsInjective(f)} :
            Disjoint <=> Overlapping(owned, rank) = {}
    BY DEF ThrowsWhereItSays
  <2> QED BY <1>1, <2>1
<1> QED BY <1>4, <1>5, <1>6, <1>7 DEF ThrowsWhereItSays

LEMMA ThrowSays ==
  ASSUME ThrowsWhereItSays, Running, Given, \A q \in Ranks : Ready(q) /\ Sized(q),
         NEW r \in Ranks, RankStep(r), threw' # {}
  PROVE  ThrowsWhereItSays'
<1>1. pc' = pc /\ UNCHANGED <<owned, ghosts>>
  BY ThrowIsAll
<1>2. Partition /\ GhostsOwned => pc[r] = "agree"
  BY ThrowHasReason
<1>3. PhaseNumber("agree") > PhaseNumber("built")
  BY PhaseNumbers
<1> QED BY <1>1, <1>2, <1>3, SaysStays

LEMMA ReadyStays ==
  ASSUME UNCHANGED owned, NEW q \in Ranks, Ready(q), ghosts'[q] = ghosts[q],
         ghostRange'[q] = ghostRange[q], Num(q)' >= 9 => Num(q) >= 9
  PROVE  Ready(q)'
<1>1. Disjoint' <=> Disjoint
  BY GivenFixed
<1>2. Partition' <=> Partition
  BY GivenFixed
<1>3. OwnedGhosts(q)' <=> OwnedGhosts(q)
  BY GivenFixed
<1>4. \A o : Foreign(q, o)' <=> Foreign(q, o)
  BY GivenFixed
<1> QED BY <1>1, <1>2, <1>3, <1>4 DEF Ready

\* A rank that goes on has found no overlap, and the owners of its ghosts.
LEMMA LeaveGatherReady ==
  ASSUME Running, Given, NEW r \in Ranks, LeaveGather(r), threw' = {}
  PROVE  Ready(r)'
<1>1. /\ Num(r) = 8 /\ ~Rejected(r) /\ UNCHANGED <<owned, ghosts>>
      /\ \E f \in Attributions(r) :
           ghostRange' = [ghostRange EXCEPT ![r] = [p \in ToSet(f) |-> RangeOf(PlacesOf(f, p))]]
  <2>1. r \in threw \cup {r}
    OBVIOUS
  <2>2. ~Throws(r)
    BY <2>1 DEF Throws
  <2> QED BY <2>2, PhaseNumbers DEF LeaveGather, At, Num
<1>2. PICK f \in Attributions(r) : ghostRange'[r] = [p \in ToSet(f) |-> RangeOf(PlacesOf(f, p))]
  BY <1>1 DEF Running, Types, OnRanks
<1>3. Disjoint
  BY <1>1, SortOrderExists, OverlapsAnyOrder DEF Rejected, Given
<1>4. ASSUME Partition, OwnedGhosts(r), NEW o \in DOMAIN ghostRange'[r]
      PROVE  ~Foreign(r, o)'
  <2>1. o \in ToSet(f) /\ ghostRange'[r][o] = RangeOf(PlacesOf(f, o))
    BY <1>2, <1>4
  <2>2. \A i \in DOMAIN ghosts[r] :
          RangeOf(PlacesOf(f, o))[1] < i /\ i <= RangeOf(PlacesOf(f, o))[2]
            => Owns(owned, o, ghosts[r][i])
    BY <1>1, <1>4, <2>1, PatternAccepted
  <2>3. PICK n \in Nat : DOMAIN ghosts[r] = 1..n /\ DOMAIN f = 1..n
    <3> DEFINE s == ghosts[r]
    <3>1. s \in Seq(Nat) /\ DOMAIN f = DOMAIN s
      BY DEF Running, Types, Attributions
    <3> HIDE DEF s
    <3>2. Len(s) \in Nat /\ DOMAIN s = 1..Len(s)
      BY <3>1
    <3> QED BY <3>1, <3>2 DEF s
  <2>4. PICK k \in DOMAIN f : f[k] = o
    BY <2>1 DEF ToSet
  <2> DEFINE range == RangeOf(PlacesOf(f, o))
  <2>5. range \in Nat \X Nat /\ range[1] < range[2] /\ range[2] <= n
    BY <2>3, <2>4, RangeOfFacts
  <2> HIDE DEF range
  <2>6. GhostsAt(r, o)' = [i \in 1..Size(range) |-> ghosts[r][range[1] + i]]
    BY <1>1, <2>1 DEF GhostsAt, range
  <2>7. ASSUME NEW i \in 1..Size(range) PROVE Owns(owned, o, ghosts[r][range[1] + i])
    <3>1. range[1] + i \in 1..n /\ range[1] < range[1] + i /\ range[1] + i <= range[2]
      BY <2>5 DEF Size
    <3> QED BY <2>2, <2>3, <3>1 DEF range
  <2>8. \A i \in DOMAIN GhostsAt(r, o)' : Owns(owned, o, GhostsAt(r, o)'[i])
    BY <2>6, <2>7
  <2> QED BY <1>1, <2>8, GivenFixed DEF Foreign
<1>5. /\ Disjoint' <=> Disjoint
      /\ Partition' <=> Partition
      /\ OwnedGhosts(r)' <=> OwnedGhosts(r)
  BY <1>1, GivenFixed
<1> QED BY <1>3, <1>4, <1>5 DEF Ready

LEMMA ReadyKept ==
  ASSUME Running, Given, \A q \in Ranks : Ready(q), NEW r \in Ranks, RankStep(r), threw' = {}
  PROVE  \A q \in Ranks : Ready(q)'
<1> SUFFICES ASSUME NEW q \in Ranks PROVE Ready(q)'
  OBVIOUS
<1> USE PhaseNames, PhaseNumbers
<1>1. CASE LeaveGather(r)
  <2>1. /\ UNCHANGED <<owned, ghosts>> /\ \A x \in Ranks : x # r => ghostRange'[x] = ghostRange[x]
    BY <1>1 DEF LeaveGather, Running, Types, OnRanks
  <2>2. Goes(r, "ask")
    <3>1. r \in threw \cup {r}
      OBVIOUS
    <3> QED BY <1>1, <3>1 DEF LeaveGather, Throws
  <2>3. q # r => Num(q)' = Num(q)
    BY <2>2, MovesTo DEF Running
  <2> QED BY <1>1, <2>1, <2>3, LeaveGatherReady, ReadyStays
<1>2. ASSUME NEW c \in DOMAIN Phases, Goes(r, c), UNCHANGED <<owned, ghostRange>>,
             ghosts'[q] = ghosts[q] \/ (q = r /\ PhaseNumber(c) < 9),
             PhaseNumber(c) >= 9 => Num(r) >= 9
      PROVE  Ready(q)'
  <2>1. Num(q)' = IF q = r THEN PhaseNumber(c) ELSE Num(q)
    BY <1>2, MovesTo DEF Running
  <2>2. CASE q = r /\ PhaseNumber(c) < 9
    <3>1. PhaseNumber(c) \in 1..16
      OBVIOUS
    <3>2. ~(Num(q)' >= 9)
      BY <2>1, <2>2, <3>1
    <3> QED BY <3>2 DEF Ready
  <2>3. CASE ~(q = r /\ PhaseNumber(c) < 9)
    <3>1. Num(q)' >= 9 => Num(q) >= 9
      BY <1>2, <2>1
    <3> QED BY <1>2, <2>3, <3>1, ReadyStays
  <2> QED BY <2>2, <2>3
<1>3. CASE Locate(r)
  <2>1. Goes(r, "found") /\ UNCHANGED <<owned, ghostRange>>
    BY <1>3 DEF Locate, pattern
  <2>2. \A x \in Ranks : x # r => ghosts'[x] = ghosts[x]
    <3>1. \E x : ghosts' = [ghosts EXCEPT ![r] = x]
      BY <1>3 DEF Locate
    <3> QED BY <3>1 DEF Running, Types
  <2> QED BY <1>2, <2>1, <2>2
<1>4. CASE MapStep(r) /\ ~Locate(r)
  <2>1. PICK c \in {"consensus", "reduce", "numbers", "ids", "coords", "gather"} :
          Goes(r, c) /\ UNCHANGED <<owned, ghosts, ghostRange>>
    BY <1>4 DEF MapStep, Search, LearnSenders, SendNumbers, SendIds, SendCoordinates, MakePattern,
                pattern
  <2>2. c \in DOMAIN Phases /\ ~(PhaseNumber(c) >= 9)
    OBVIOUS
  <2> QED BY <1>2, <2>1, <2>2
<1>5. CASE SendCounts(r)
  <2>1. Num(r) = 9 /\ Goes(r, "counts") /\ UNCHANGED <<owned, ghosts, ghostRange>>
    BY <1>5 DEF SendCounts, At, Num
  <2> QED BY <1>2, <2>1
<1>6. CASE SendIndices(r) \/ KeepIndices(r)
  <2>1. r \in threw \cup {r}
    OBVIOUS
  <2>2. PICK c \in {"indices", "built"} :
          Num(r) \in {10, 11} /\ Goes(r, c) /\ UNCHANGED <<owned, ghosts, ghostRange>>
    BY <1>6, <2>1 DEF SendIndices, KeepIndices, At, Num, Throws
  <2> QED BY <1>2, <2>2
<1>7. CASE CallStep(r)
  <2>1. r \in threw \cup {r}
    OBVIOUS
  <2>2. PICK c \in {"checked", "agree", "work", "insert"} :
          /\ Num(r) \in {12, 13, 14, 15, 16} /\ Goes(r, c)
          /\ UNCHANGED <<owned, ghosts, ghostRange>>
    BY <1>7, <2>1 DEF CallStep, Check, EndCheck, Agree, Interpolate, EndInterpolate, Computes,
                      Inserts, At, Num, Throws, pattern
  <2> QED BY <1>2, <2>2
<1> QED BY <1>1, <1>3, <1>4, <1>5, <1>6, <1>7 DEF RankStep, PatternStep

LEMMA ThrowsStep ==
  ASSUME ThrowsInv, NEW r \in Ranks, RankStep(r), threw' = {} => Given'
  PROVE  ThrowsInv'
<1>1. AllReady
  BY StepsUntilThrow DEF ThrowsInv
<1>2. CASE threw' = {}
  <2>1. Running'
    BY <1>1, <1>2, StepRuns DEF AllReady
  <2>2. \A q \in Ranks : Ready(q)'
    BY <1>1, <1>2, ReadyKept DEF AllReady
  <2>3. \A q \in Ranks : Sized(q)'
    BY <1>1, <1>2, MapStepSized, CallStepSized, PatternStepSized DEF RankStep, AllReady
  <2>4. AllReady'
    BY <1>2, <2>1, <2>2, <2>3 DEF AllReady
  <2>5. ThrowsWhereItSays'
    BY <2>4, SaysWhenRunning, PTL
  <2> QED BY <2>4, <2>5 DEF ThrowsInv
<1>3. CASE threw' # {}
  <2>1. ThrowsWhereItSays'
    BY <1>1, <1>3, ThrowSays DEF ThrowsInv, AllReady
  <2> QED BY <1>3, <2>1 DEF ThrowsInv
<1> QED BY <1>2, <1>3

LEMMA ThrowsIdle ==
  ASSUME ThrowsInv, PatternInv, UNCHANGED vars PROVE ThrowsInv'
<1>1. UNCHANGED <<pc, threw, owned, ghosts, ghostRange>>
  BY DEF vars, patternVars, pattern
<1>2. ThrowsWhereItSays'
  BY <1>1, SaysStays DEF ThrowsInv
<1>3. PatternInv'
  BY UnchangedRuns
<1>4. \A q \in Ranks : Num(q)' = Num(q)
  BY <1>1 DEF Num
<1>5. (\A q \in Ranks : Ready(q)) => \A q \in Ranks : Ready(q)'
  BY <1>1, <1>4, ReadyStays
<1>6. (\A q \in Ranks : Sized(q)) => \A q \in Ranks : Sized(q)'
  <2>1. UNCHANGED <<found, heard, ghosts, ghostRange, numFor, ownedFor, calls>>
    BY DEF vars, patternVars, transferVars, pattern, mapping
  <2> SUFFICES ASSUME NEW q \in Ranks, Sized(q) PROVE Sized(q)'
    OBVIOUS
  <2>2. Num(q)' = Num(q)
    BY <1>4
  <2> QED BY <2>1, <2>2, <1>4 DEF Sized, Requesters, EmptyMap
<1>7. Given => Given'
  BY <1>1, <1>4 DEF Given
<1> QED BY <1>1, <1>2, <1>3, <1>5, <1>6, <1>7 DEF ThrowsInv, AllReady, PatternInv

\* The transfer gives the constructor ranges one after the other, and sorted ghosts.
LEMMA TransferGives ==
  ASSUME Running, Transfer PROVE Given
<1>1. Layout /\ owned \in [Ranks -> Nat \X Nat]
  BY LayoutFacts DEF Transfer
<1>2. \A r \in Ranks : owned[r][1] <= owned[r][2]
  <2>1. \A r \in Ranks : owned[r][1] \in Nat /\ owned[r][2] = owned[r][1] + numPoints[r]
                         /\ numPoints[r] \in Nat
    BY <1>1, LayoutFacts DEF Layout
  <2> QED BY <2>1
<1>3. ASSUME NEW r \in Ranks, Num(r) >= 8,
             NEW i \in DOMAIN ghosts[r], NEW j \in DOMAIN ghosts[r], i < j
      PROVE  ghosts[r][i] < ghosts[r][j]
  <2> DEFINE W == Wanted(r)
  <2>1. ghosts[r] = Sorted(W)
    <3>1. Num(r) \in 1..16
      BY NumIsNumber DEF Running, Types
    <3>2. Num(r) >= 7
      BY <1>3, <3>1
    <3> QED BY <3>2 DEF Transfer, Finds
  <2>2. W \in SUBSET Nat /\ IsFiniteSet(W)
    BY <1>1, MineFacts
  <2> DEFINE s == Sorted(W)
  <2>3. /\ s \in Seq(W) /\ Len(s) = Cardinality(W)
        /\ \A x, y \in 1..Cardinality(W) : x < y => s[x] < s[y]
    BY <2>2, SortedFacts
  <2> HIDE DEF s
  <2>4. DOMAIN s = 1..Cardinality(W)
    BY <2>3
  <2> QED BY <1>3, <2>1, <2>3, <2>4 DEF s
<1> QED BY <1>1, <1>2, <1>3 DEF Given

\* In a transfer, whatever cells the points are in and however the ranks' steps
\* interleave: the constructor of MPIPatternP2P throws on no rank, whose ranges
\* partition the points; a rank that gets a pattern has ghosts that ranks own; and
\* getOverlappingRangeIds finds an overlap exactly if there is one, in whatever order
\* its sort leaves equal ends.
THEOREM ThrowsWhereItSaysCorrect == Spec => []ThrowsWhereItSays
<1>1. Init => ThrowsInv
  <2> SUFFICES ASSUME Init PROVE ThrowsInv
    OBVIOUS
  <2>1. threw = {} /\ Running /\ Transfer
    BY InitRunning, InitTransfer DEF Init, PatternInv
  <2>2. \A r \in Ranks : Num(r) = 1
    BY PhaseNumbers DEF Init, Num
  <2>3. \A r \in Ranks : Sized(r)
    BY <2>2, TransferOK DEF Sized, Init, NoPattern
  <2>4. \A r \in Ranks : Ready(r)
    BY <2>2 DEF Ready
  <2>5. AllReady
    BY <2>1, <2>3, <2>4, TransferGives DEF AllReady
  <2> QED BY <2>5, SaysWhenRunning DEF ThrowsInv
<1>2. ThrowsInv /\ ServedInv /\ ServedInv' /\ [Next]_vars => ThrowsInv'
  <2> SUFFICES ASSUME ThrowsInv, ServedInv, ServedInv', [Next]_vars PROVE ThrowsInv'
    OBVIOUS
  <2>1. CASE UNCHANGED vars
    BY <2>1, ThrowsIdle DEF ServedInv
  <2>2. ASSUME NEW r \in Ranks, RankStep(r) PROVE ThrowsInv'
    <3>1. (Running /\ Transfer)' => Given'
      BY TransferGives, PTL
    <3>2. threw' = {} => Given'
      BY <3>1 DEF ServedInv, PatternInv
    <3> QED BY <2>2, <3>2, ThrowsStep
  <2> QED BY <2>1, <2>2 DEF Next
<1>3. ThrowsInv => ThrowsWhereItSays
  BY DEF ThrowsInv
<1> QED BY <1>1, <1>2, <1>3, ServedInvariant, PTL DEF Spec

\* Zeros add up to zero.
LEMMA NothingAddsUp ==
  ASSUME NEW S, IsFiniteSet(S), NEW f, \A x \in S : f[x] = 0
  PROVE  SumOf(f, S) = 0
<1> DEFINE Bad == {n \in Nat : \E T \in SUBSET S : Cardinality(T) = n /\ SumOf(f, T) # 0}
<1>1. ASSUME NEW n \in Bad, \A m \in Bad : n <= m PROVE FALSE
  <2>1. PICK T \in SUBSET S : Cardinality(T) = n /\ SumOf(f, T) # 0
    OBVIOUS
  <2>2. IsFiniteSet(T) /\ \A x \in T : f[x] = 0
    BY <2>1, FS_Subset
  <2> DEFINE x == Chosen(T)
             rest == T \ {x}
  <2>3. T # {} /\ SumOf(f, T) = f[x] + SumOf(f, rest)
    <3>1. \A y \in T : f[y] \in Nat
      BY <2>2
    <3>2. /\ T = {} => SumOf(f, T) = 0
          /\ T # {} => SumOf(f, T) = f[x] + SumOf(f, rest)
      BY <2>2, <3>1, SumUnfolds
    <3> HIDE DEF x, rest
    <3> QED BY <2>1, <3>2
  <2>4. x \in T
    BY <2>3 DEF Chosen
  <2> HIDE DEF x
  <2>5. rest \in SUBSET S /\ Cardinality(rest) = n - 1
    BY <2>1, <2>2, <2>4, FS_RemoveElement
  <2>6. IsFiniteSet(rest)
    BY <2>2, FS_Subset
  <2>7. Cardinality(rest) \in Nat
    BY <2>6, FS_CardinalityType
  <2> HIDE DEF rest
  <2>8. SumOf(f, rest) = 0
    <3>1. n \in Nat
      OBVIOUS
    <3>2. ~(n <= n - 1)
      BY <3>1
    <3>3. n - 1 \notin Bad
      <4> HIDE DEF Bad
      <4> QED BY <1>1, <3>2
    <3> QED BY <2>5, <2>7, <3>3
  <2>9. f[x] = 0
    BY <2>2, <2>4
  <2> QED BY <2>1, <2>3, <2>8, <2>9
<1>2. Bad = {}
  <2> SUFFICES ASSUME Bad # {} PROVE FALSE
    OBVIOUS
  <2>1. Bad \in SUBSET Nat
    OBVIOUS
  <2> HIDE DEF Bad
  <2>2. \E n \in Bad : \A m \in Bad : n <= m
    BY <2>1, LeastNumber
  <2> QED BY <1>1, <2>2
<1>3. Cardinality(S) \in Nat
  BY FS_CardinalityType
<1> QED BY <1>2, <1>3

\* A pattern made alone asks no rank for points.
LEMMA AloneAsksNothing ==
  ASSUME NoTransfer, NEW r \in Ranks
  PROVE  Asked(r) = EmptyMap /\ Points = {}
<1>1. \A x \in Ranks : numPoints[x] = 0
  BY DEF NoTransfer
<1>2. DOMAIN numPoints = Ranks
  BY DEF NoTransfer
<1>3. NumPoints = 0
  <2>1. NumPoints = SumOf(numPoints, Ranks)
    BY <1>2, SumsAreFolds DEF NumPoints, SumFunction
  <2> QED BY <1>1, <2>1, RanksFinite, NothingAddsUp
<1>4. Points = {}
  BY <1>3 DEF Points
<1>5. Lost(r) = {}
  BY <1>4 DEF Lost, Mine
<1>6. \A q : SentTo(r, q) = <<>>
  <2>1. Sorted({}) = <<>>
    <3>1. {} \in SUBSET Nat /\ IsFiniteSet({}) /\ Cardinality({}) = 0
      BY FS_EmptySet
    <3> DEFINE s == Sorted({})
    <3>2. s \in Seq({}) /\ Len(s) = 0
      BY <3>1, SortedFacts
    <3> HIDE DEF s
    <3>3. s = <<>>
      BY <3>2
    <3> QED BY <3>3 DEF s
  <2>2. \A q : {g \in Lost(r) : q \in boxed[g]} = {}
    BY <1>5
  <2> QED BY <2>1, <2>2 DEF SentTo
<1>7. {x \in Ranks \ {r} : SentTo(r, x) # <<>>} = {}
  BY <1>6
<1>8. Asked(r) = [q \in {} |-> SentTo(r, q)]
  BY <1>7 DEF Asked
<1>9. [q \in {} |-> SentTo(r, q)] = EmptyMap
  BY DEF EmptyMap
<1> QED BY <1>4, <1>8, <1>9

\* The ranks that make a pattern for another caller start like ranks of a transfer
\* without points.
LEMMA AloneRunning ==
  ASSUME PatternInit, NoTransfer PROVE Running /\ \A r \in Ranks : Num(r) = 8
<1>1. \A r \in Ranks : pc[r] = "gather" /\ Num(r) = 8
  BY PhaseNumbers DEF PatternInit, Num
<1>2. Types
  <2>1. owned \in [Ranks -> Nat \X Nat] /\ ghosts \in [Ranks -> Seq(Nat)]
    BY DEF PatternInit
  <2>2. pc \in [Ranks -> DOMAIN Phases]
    BY PhaseNames DEF PatternInit
  <2>3. OnRanks(sendTo) /\ OnRanks(heard) /\ OnRanks(found) /\ OnRanks(values)
    BY DEF NoTransfer, OnRanks
  <2>4. OnRanks(ghostRange) /\ OnRanks(numFor) /\ OnRanks(ownedFor)
    BY DEF PatternInit, OnRanks, NoPattern
  <2>5. OnRanks(chan) /\ \A p \in Ranks : OnRanks(chan[p])
    BY DEF PatternInit, OnRanks, NoMessages
  <2>6. \A r \in Ranks : calls[r] = 0 /\ Num(r) <= 12 /\ ~(Num(r) > 12)
    BY <1>1 DEF NoTransfer
  <2>7. calls \in [Ranks -> Nat] /\ numPoints \in [Ranks -> Nat]
    BY DEF NoTransfer
  <2> QED BY <2>1, <2>2, <2>3, <2>4, <2>5, <2>6, <2>7 DEF Types
<1>3. Sync
  BY <1>1 DEF Sync, Gates
<1>4. \A r \in Ranks : sendTo[r] = EmptyMap /\ heard[r] = EmptyMap /\ DOMAIN EmptyMap = {}
  BY DEF NoTransfer, EmptyMap
<1>5. Lists
  <2>1. \A r \in Ranks : Requesters(r, sendTo) = {}
    BY <1>4 DEF Requesters
  <2> SUFFICES ASSUME NEW r \in Ranks
               PROVE  /\ Num(r) = 1 => sendTo[r] = EmptyMap
                      /\ Num(r) > 1 => sendTo[r] = Asked(r)
                      /\ Num(r) >= 3 => DOMAIN heard[r] = Requesters(r, sendTo)
                      /\ Num(r) >= 6 => \A q \in DOMAIN heard[r] : heard[r][q] = sendTo[q][r]
    BY DEF Lists
  <2>2. sendTo[r] = Asked(r)
    BY <1>4, AloneAsksNothing
  <2> QED BY <1>4, <2>1, <2>2
<1>6. Links
  <2>1. Mapping
    <3>1. 0 \in Ranks
      BY ConstantsOK DEF Ranks
    <3> QED BY <1>1, <3>1 DEF Mapping
  <2>2. \A p, q \in Ranks : chan[p][q] = <<>>
    BY DEF PatternInit, NoMessages
  <2> QED BY <1>4, <2>1, <2>2 DEF Links, MapLink
<1>7. GhostSide /\ TargetSide
  BY <1>1 DEF GhostSide, TargetSide
<1> QED BY <1>1, <1>2, <1>3, <1>5, <1>6, <1>7 DEF Running

\* What the ranks that make a pattern are given, and keep: ranges, and ghosts in order.
GivenAlone ==
  /\ owned \in [Ranks -> Nat \X Nat] /\ \A r \in Ranks : owned[r][1] <= owned[r][2]
  /\ ghosts \in [Ranks -> Seq(Nat)] /\ \A r \in Ranks : found[r] = {}
  /\ \A r \in Ranks : \A i, j \in DOMAIN ghosts[r] : i < j => ghosts[r][i] < ghosts[r][j]
AloneInv == PatternInv /\ ThrowsInv /\ GivenAlone /\ TypeOK

\* A sequence in order is the sorted sequence of its own numbers.
LEMMA InOrderIsSorted ==
  ASSUME NEW s \in Seq(Nat), \A i, j \in DOMAIN s : i < j => s[i] < s[j]
  PROVE  /\ ToSet(s) \in SUBSET Nat /\ IsFiniteSet(ToSet(s)) /\ Sorted(ToSet(s)) = s
         /\ \E n \in Nat : \A y \in ToSet(s) : y < n
<1> DEFINE First(m) == {s[i] : i \in 1..m}
           W == ToSet(s)
<1>1. Len(s) \in Nat /\ DOMAIN s = 1..Len(s) /\ \A i \in 1..Len(s) : s[i] \in Nat
  OBVIOUS
<1>2. ASSUME NEW m \in 0..Len(s) PROVE IsFiniteSet(First(m)) /\ Cardinality(First(m)) = m
  <2> DEFINE f == [i \in 1..m |-> s[i]]
  <2>1. m \in Nat /\ \A i \in 1..m : i \in DOMAIN s
    BY <1>1
  <2>2. f \in Surjection(1..m, First(m))
    BY DEF Surjection
  <2>3. f \in Injection(1..m, First(m))
    <3>1. ASSUME NEW i \in 1..m, NEW j \in 1..m, s[i] = s[j] PROVE i = j
      <4>1. i \in DOMAIN s /\ j \in DOMAIN s /\ s[i] \in Nat /\ s[j] \in Nat
        BY <1>1, <2>1
      <4>2. PICK x \in Nat, y \in Nat : x = s[i] /\ y = s[j]
        BY <4>1
      <4>3. (i < j => x < y) /\ (j < i => y < x) /\ x = y
        BY <3>1, <4>1, <4>2
      <4>4. ~(i < j) /\ ~(j < i)
        BY <4>2, <4>3
      <4> QED BY <2>1, <4>4
    <3>2. \A i \in 1..m : f[i] = s[i]
      OBVIOUS
    <3>3. f \in [1..m -> First(m)]
      BY <2>2 DEF Surjection
    <3> HIDE DEF f, First
    <3> QED BY <3>1, <3>2, <3>3 DEF Injection, IsInjective
  <2>4. IsFiniteSet(1..m) /\ Cardinality(1..m) = m
    BY <2>1, FS_Interval
  <2> HIDE DEF f, First
  <2> QED BY <2>2, <2>3, <2>4, FS_Surjection
<1>3. W = First(Len(s))
  BY <1>1 DEF ToSet
<1>4. W \in SUBSET Nat /\ IsFiniteSet(W) /\ Cardinality(W) = Len(s)
  <2>1. Len(s) \in 0..Len(s) /\ First(Len(s)) \in SUBSET Nat
    BY <1>1
  <2> HIDE DEF First, W
  <2> QED BY <1>2, <1>3, <2>1
<1>5. ASSUME NEW k \in 1..Len(s) PROVE s[k] \in W /\ Cardinality(Below(W, s[k])) = k - 1
  <2>1. s[k] \in W
    BY <1>1, <1>3
  <2>2. Below(W, s[k]) = First(k - 1)
    <3>1. ASSUME NEW i \in 1..Len(s) PROVE s[i] < s[k] <=> i \in 1..(k - 1)
      <4>1. CASE i < k
        BY <1>1, <4>1
      <4>2. CASE i = k
        BY <1>1, <4>2
      <4>3. CASE k < i
        <5>1. s[k] < s[i] /\ s[k] \in Nat /\ s[i] \in Nat
          BY <1>1, <4>3
        <5>2. ~(s[i] < s[k]) /\ i \notin 1..(k - 1)
          BY <1>1, <4>3, <5>1
        <5> QED BY <5>2
      <4> QED BY <1>1, <4>1, <4>2, <4>3
    <3>2. \A i \in 1..(k - 1) : i \in 1..Len(s)
      BY <1>1
    <3>3. \A x : x \in First(k - 1) <=> \E i \in 1..(k - 1) : x = s[i]
      OBVIOUS
    <3>4. \A x : x \in W <=> \E i \in 1..Len(s) : x = s[i]
      BY <1>3
    <3>5. \A x : x \in Below(W, s[k]) <=> x \in W /\ x < s[k]
      BY InBelow
    <3> HIDE DEF W, First
    <3>6. ASSUME NEW x \in Below(W, s[k]) PROVE x \in First(k - 1)
      <4>1. PICK i \in 1..Len(s) : x = s[i]
        BY <3>4, <3>5
      <4> QED BY <3>1, <3>3, <3>5, <4>1
    <3>7. ASSUME NEW x \in First(k - 1) PROVE x \in Below(W, s[k])
      <4>1. PICK i \in 1..(k - 1) : x = s[i]
        BY <3>3
      <4> QED BY <3>1, <3>2, <3>4, <3>5, <4>1
    <3> QED BY <3>6, <3>7
  <2>3. k - 1 \in 0..Len(s)
    BY <1>1
  <2> HIDE DEF First, W
  <2> QED BY <1>2, <2>1, <2>2, <2>3
<1>6. Sorted(W) = s
  <2> HIDE DEF W
  <2>1. /\ Sorted(W) \in Seq(W) /\ Len(Sorted(W)) = Cardinality(W)
        /\ \A x \in W : Sorted(W)[Cardinality(Below(W, x)) + 1] = x
    BY <1>4, SortedFacts
  <2> DEFINE t == Sorted(W)
  <2> HIDE DEF t
  <2>2. Len(t) = Len(s) /\ t \in Seq(W)
    BY <1>4, <2>1 DEF t
  <2>3. ASSUME NEW k \in 1..Len(s) PROVE t[k] = s[k]
    <3>1. t[Cardinality(Below(W, s[k])) + 1] = s[k]
      BY <1>5, <2>1 DEF t
    <3>2. k - 1 + 1 = k
      BY <1>1
    <3> QED BY <1>5, <3>1, <3>2
  <2>4. t = s
    BY <1>1, <2>2, <2>3
  <2> QED BY <2>4 DEF t
<1>7. \E n \in Nat : \A y \in W : y < n
  <2>1. CASE Len(s) = 0
    <3>1. W = {}
      BY <1>3, <2>1
    <3> QED BY <3>1
  <2>2. CASE Len(s) > 0
    <3>1. Len(s) \in 1..Len(s) /\ s[Len(s)] + 1 \in Nat
      BY <1>1, <2>2
    <3>2. ASSUME NEW i \in 1..Len(s) PROVE s[i] < s[Len(s)] + 1
      <4>1. CASE i = Len(s)
        BY <1>1, <4>1
      <4>2. CASE i < Len(s)
        <5>1. s[i] < s[Len(s)]
          BY <1>1, <3>1, <4>2
        <5>2. PICK x \in Nat, y \in Nat : x = s[i] /\ y = s[Len(s)]
          BY <1>1, <3>1
        <5>3. x < y
          BY <5>1, <5>2
        <5>4. \A n, m \in Nat : n < m => n < m + 1
          OBVIOUS
        <5>5. x < y + 1
          BY <5>3, <5>4
        <5> QED BY <5>2, <5>5
      <4>3. i = Len(s) \/ i < Len(s)
        <5>1. \A n \in Nat : \A k \in 1..n : k = n \/ k < n
          OBVIOUS
        <5> QED BY <1>1, <5>1, Zenon
      <4> QED BY <4>1, <4>2, <4>3
    <3>3. \A y \in W : y < s[Len(s)] + 1
      BY <1>3, <3>2
    <3> QED BY <3>1, <3>3
  <2> QED BY <1>1, <2>1, <2>2
<1> QED BY <1>4, <1>6, <1>7

\* What a rank is given has the places it should have, and found no points.
LEMMA GivenListed == GivenAlone => AllListed
<1> SUFFICES ASSUME GivenAlone, NEW r \in Ranks PROVE Listed(r)
  BY DEF AllListed
<1>1. ToSet(ghosts[r]) \in SUBSET Nat /\ Sorted(ToSet(ghosts[r])) = ghosts[r]
  BY InOrderIsSorted DEF GivenAlone
<1> QED BY <1>1 DEF Listed, GivenAlone

LEMMA ReadyTyped == AllReady /\ AllListed => TypeOK
<1> SUFFICES ASSUME AllReady, AllListed PROVE TypeOK
  OBVIOUS
<1>1. AllSized
  BY DEF AllReady, AllSized
<1> QED BY <1>1, RunningTyped

LEMMA AloneStart ==
  ASSUME PatternInit, NoTransfer PROVE AloneInv
<1>1. Running /\ threw = {} /\ \A r \in Ranks : Num(r) = 8
  BY AloneRunning DEF PatternInit
<1>2. PatternInv
  <2>1. PatternsPair
    BY <1>1, RunningPairs
  <2> QED BY <1>1, <2>1 DEF PatternInv
<1>3. GivenAlone /\ Given
  BY DEF PatternInit, NoTransfer, GivenAlone, Given
<1>4. \A r \in Ranks : Sized(r) /\ Ready(r)
  <2>1. \A r \in Ranks : calls[r] <= MaxCalls + 1
    BY TransferOK DEF NoTransfer
  <2>2. \A r \in Ranks : ghostRange[r] = EmptyMap /\ ownedFor[r] = EmptyMap
    BY DEF PatternInit, NoPattern
  <2> QED BY <1>1, <2>1, <2>2 DEF Sized, Ready
<1>5. AllReady
  BY <1>1, <1>3, <1>4 DEF AllReady
<1>6. TypeOK
  BY <1>3, <1>5, GivenListed, ReadyTyped
<1> QED BY <1>2, <1>3, <1>5, <1>6, SaysWhenRunning DEF AloneInv, ThrowsInv

LEMMA AloneKept ==
  ASSUME AloneInv, [\E r \in Ranks : PatternAlone(r)]_vars PROVE AloneInv'
<1>1. CASE UNCHANGED vars
  <2>1. ThrowsInv' /\ PatternInv'
    BY <1>1, ThrowsIdle, UnchangedRuns DEF AloneInv
  <2>2. GivenAlone'
    BY <1>1 DEF AloneInv, GivenAlone, vars, patternVars, transferVars, mapping
  <2>3. TypeOK'
    BY <1>1 DEF AloneInv, TypeOK, vars, patternVars, transferVars, pattern, mapping
  <2> QED BY <2>1, <2>2, <2>3 DEF AloneInv
<1>2. ASSUME NEW r \in Ranks, PatternAlone(r) PROVE AloneInv'
  <2>1. RankStep(r) /\ UNCHANGED <<owned, ghosts>>
    BY <1>2 DEF PatternAlone, RankStep, PatternStep, LeaveGather, SendCounts, SendIndices, KeepIndices
  <2>2. GivenAlone'
    BY <1>2, <2>1 DEF AloneInv, GivenAlone, PatternAlone, transferVars, mapping
  <2>3. AllReady
    BY <2>1, StepsUntilThrow DEF AloneInv, ThrowsInv
  <2>4. Given'
    BY <2>1, <2>2, <2>3 DEF AllReady, Given, GivenAlone
  <2>5. ThrowsInv'
    BY <2>1, <2>4, ThrowsStep DEF AloneInv
  <2>6. PatternInv'
    BY <2>1, PatternKept DEF AloneInv, Next
  <2>7. TypeOK'
    <3>1. CASE threw' = {}
      <4>1. AllReady'
        BY <2>5, <3>1 DEF ThrowsInv
      <4>2. AllListed'
        BY <2>2, GivenListed, PTL
      <4> QED BY <4>1, <4>2, ReadyTyped, PTL
    <3>2. CASE threw' # {}
      BY <2>1, <2>3, <3>2, ThrowKeepsTypes DEF AllReady, AloneInv
    <3> QED BY <3>1, <3>2
  <2> QED BY <2>2, <2>5, <2>6, <2>7 DEF AloneInv
<1> QED BY <1>1, <1>2

LEMMA AloneInvariant == PatternSpec => []AloneInv
<1>1. PatternInit /\ NoTransfer => AloneInv
  BY AloneStart
<1>2. AloneInv /\ [\E r \in Ranks : PatternAlone(r)]_vars => AloneInv'
  BY AloneKept
<1> QED BY <1>1, <1>2, PTL DEF PatternSpec

\* The constructor of MPIPatternP2P throws where it says it does for any ranges and any
\* ghosts in order, whoever calls it: overlapping ranges, ghosts nobody owns and ranges
\* that leave indices out included.
THEOREM AnyPatternThrows == PatternSpec => []ThrowsWhereItSays
<1>1. AloneInv => ThrowsWhereItSays
  BY DEF AloneInv, ThrowsInv
<1> QED BY <1>1, AloneInvariant, PTL

\* Whoever calls the constructor of MPIPatternP2P, and with any ranges: the indices a
\* rank keeps for another are that rank's ghosts among its own, in their order.
THEOREM AnyPatternPairs == PatternSpec => []PatternsPair
<1>1. AloneInv => PatternsPair
  BY DEF AloneInv, PatternInv
<1> QED BY <1>1, AloneInvariant, PTL

\* For any ranges and any ghosts in order, localToGlobal and globalToLocal of a rank
\* that has its pattern are each other's inverse.
THEOREM AnyPatternNumbers == PatternSpec => []NumbersInverse
<1>1. AloneInv => NumbersInverse
  <2> SUFFICES ASSUME AloneInv PROVE NumbersInverse
    OBVIOUS
  <2>1. /\ owned \in [Ranks -> Nat \X Nat] /\ \A r \in Ranks : owned[r][1] <= owned[r][2]
        /\ NumGlobal(owned) \in Nat
    BY NumGlobalTyped DEF AloneInv, GivenAlone
  <2>2. ASSUME NEW r \in Ranks
        PROVE  \E W \in SUBSET Nat : /\ IsFiniteSet(W) /\ ghosts[r] = Sorted(W)
                                     /\ \E n \in Nat : \A y \in W : y < n
    <3>1. /\ ToSet(ghosts[r]) \in SUBSET Nat /\ IsFiniteSet(ToSet(ghosts[r]))
          /\ Sorted(ToSet(ghosts[r])) = ghosts[r]
          /\ \E n \in Nat : \A y \in ToSet(ghosts[r]) : y < n
      BY InOrderIsSorted DEF AloneInv, GivenAlone
    <3> QED BY <3>1
  <2> QED BY <2>1, <2>2, NumbersOfRanks
<1> QED BY <1>1, AloneInvariant, PTL

\* For any ranges and any ghosts in order the ranges of places, the numbers and the
\* indices of a pattern keep the sizes they should have, exceptions included.
THEOREM AnyPatternTyped == PatternSpec => []TypeOK
<1>1. AloneInv => TypeOK
  BY DEF AloneInv
<1> QED BY <1>1, AloneInvariant, PTL
=============================================================================
