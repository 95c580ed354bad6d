-------------------------- MODULE BlockFilterProofs --------------------------
(***************************************************************************)
(* Theorems about BlockFilter, for any ranks, adjacency, blocks and order. *)
(***************************************************************************)
EXTENDS BlockFilter, TLAPS

IInv == TypeOK /\ NeighboursClose

LEMMA InitIInv == ASSUME ConstantsOK PROVE Init => IInv
<1> SUFFICES ASSUME Init PROVE IInv
  OBVIOUS
<1> USE DEF ConstantsOK
<1>1. TypeOK
  BY DEF Init, TypeOK
<1>2. ASSUME NEW p \in Ranks, NEW q \in Neighbours[p], NEW b \in Blocks
      PROVE  Close(p, q, b)
  <2>1. q \in Ranks
    OBVIOUS
  <2> QED BY <2>1 DEF Init, Close
<1> QED BY <1>1, <1>2 DEF IInv, NeighboursClose

\* Degrees and calls of a rank are numbers.
LEMMA Numbers ==
  ASSUME ConstantsOK, TypeOK, NEW p \in Ranks, NEW b \in Blocks
  PROVE  /\ turn[p] \in Nat /\ deg[p][b] \in 0..Order /\ Order \in Nat
         /\ deg[p][b] \in Int /\ first \in {0, 1}
BY DEF TypeOK, ConstantsOK

\* A rank that begins a call stays close to its neighbours.
LEMMA NewClose ==
  ASSUME ConstantsOK, IInv, NEW r \in Ranks, New(r) PROVE IInv'
<1> USE DEF IInv
<1>0. Order \in Nat /\ Order >= 2 /\ Neighbours \in [Ranks -> SUBSET Ranks]
  BY DEF ConstantsOK
<1>1. TypeOK'
  <2>1. [b \in Blocks |-> first] \in [Blocks -> 0..Order]
    BY <1>0 DEF TypeOK
  <2> QED BY <2>1 DEF TypeOK, New
<1>2. ASSUME NEW p \in Ranks, NEW q \in Neighbours[p], NEW b \in Blocks
      PROVE  Close(p, q, b)'
  <2>1. q \in Ranks /\ p \in Neighbours[q] /\ q # p
    BY DEF ConstantsOK
  <2>2. Close(p, q, b) /\ Close(q, p, b)
    BY <2>1 DEF NeighboursClose
  <2>3. first' = first /\ deg[r][b] = Order
    BY DEF New
  <2>4. CASE r # p /\ r # q
    <3>1. turn'[p] = turn[p] /\ turn'[q] = turn[q] /\ deg'[p] = deg[p] /\ deg'[q] = deg[q]
      BY <2>1, <2>4 DEF New, TypeOK
    <3> QED BY <3>1, <2>2, <2>3 DEF Close
  <2>5. CASE r = p
    <3>1. turn'[p] = turn[p] + 1 /\ turn'[q] = turn[q] /\ deg'[p][b] = first /\ deg'[q] = deg[q]
      BY <2>1, <2>5 DEF New, TypeOK
    <3> QED BY <3>1, <2>1, <2>2, <2>3, <2>5, <1>0, Numbers DEF Close
  <2>6. CASE r = q
    <3>1. turn'[q] = turn[q] + 1 /\ turn'[p] = turn[p] /\ deg'[q][b] = first /\ deg'[p] = deg[p]
      BY <2>1, <2>6 DEF New, TypeOK
    <3> QED BY <3>1, <2>1, <2>2, <2>3, <2>6, <1>0, Numbers DEF Close
  <2> QED BY <2>4, <2>5, <2>6
<1> QED BY <1>1, <1>2 DEF NeighboursClose

\* A rank that computes the next degree of a block stays close to its neighbours.
LEMMA AdvanceClose ==
  ASSUME ConstantsOK, IInv, NEW r \in Ranks, NEW a \in Blocks, Advance(r, a) PROVE IInv'
<1> USE DEF IInv
<1>0. Order \in Nat /\ Order >= 2 /\ Neighbours \in [Ranks -> SUBSET Ranks]
  BY DEF ConstantsOK
<1>1. TypeOK'
  <2>1. deg[r] \in [Blocks -> 0..Order] /\ deg[r][a] + 1 \in 0..Order
    BY <1>0 DEF TypeOK, Advance
  <2>2. [deg[r] EXCEPT ![a] = deg[r][a] + 1] \in [Blocks -> 0..Order]
    BY <2>1
  <2>3. deg' = [deg EXCEPT ![r] = [deg[r] EXCEPT ![a] = deg[r][a] + 1]]
    BY <2>1 DEF Advance, TypeOK
  <2> QED BY <2>2, <2>3 DEF TypeOK, Advance
<1>2. ASSUME NEW p \in Ranks, NEW q \in Neighbours[p], NEW b \in Blocks
      PROVE  Close(p, q, b)'
  <2>1. q \in Ranks /\ p \in Neighbours[q] /\ q # p
    BY DEF ConstantsOK
  <2>2. Close(p, q, b) /\ Close(q, p, b)
    BY <2>1 DEF NeighboursClose
  <2>3. first' = first /\ turn' = turn
    BY DEF Advance
  <2>4. CASE (r # p /\ r # q) \/ b # a
    <3>1. deg'[p][b] = deg[p][b] /\ deg'[q][b] = deg[q][b]
      BY <2>1, <2>4 DEF Advance, TypeOK
    <3> QED BY <3>1, <2>2, <2>3 DEF Close
  <2>5. CASE r = p /\ b = a
    <3>1. deg'[p][b] = deg[p][b] + 1 /\ deg'[q][b] = deg[q][b]
      BY <2>1, <2>5 DEF Advance, TypeOK
    <3>2. Reached(q, p, b)
      BY <2>5 DEF Advance
    <3> QED BY <3>1, <3>2, <2>1, <2>2, <2>3, <1>0, Numbers DEF Close, Reached
  <2>6. CASE r = q /\ b = a
    <3>1. deg'[q][b] = deg[q][b] + 1 /\ deg'[p][b] = deg[p][b]
      BY <2>1, <2>6 DEF Advance, TypeOK
    <3>2. Reached(p, q, b)
      BY <2>1, <2>6 DEF Advance
    <3> QED BY <3>1, <3>2, <2>1, <2>2, <2>3, <1>0, Numbers DEF Close, Reached
  <2> QED BY <2>4, <2>5, <2>6
<1> QED BY <1>1, <1>2 DEF NeighboursClose

\* Neighbouring ranks stay within one degree of each other, and within one call,
\* in every program whose steps are those of BlockFilter, however it is scheduled.
THEOREM StepsKeepClose ==
  ASSUME ConstantsOK PROVE Init /\ [][Next]_vars => [](TypeOK /\ NeighboursClose)
<1>1. IInv /\ [Next]_vars => IInv'
  <2> SUFFICES ASSUME IInv, [Next]_vars PROVE IInv'
    OBVIOUS
  <2>1. CASE Next
    BY <2>1, NewClose, AdvanceClose DEF Next
  <2>2. CASE UNCHANGED vars
    BY <2>2 DEF vars, IInv, TypeOK, NeighboursClose, Close
  <2> QED BY <2>1, <2>2
<1>2. IInv => TypeOK /\ NeighboursClose
  BY DEF IInv
<1> QED BY InitIInv, <1>1, <1>2, PTL

\* In the filter as BlockFilter states it, neighbouring ranks stay within one degree
\* of each other, and within one call.
THEOREM AlwaysClose ==
  ASSUME ConstantsOK PROVE Spec => [](TypeOK /\ NeighboursClose)
BY StepsKeepClose, PTL DEF Spec
=============================================================================
