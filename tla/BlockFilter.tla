----------------------------- MODULE BlockFilter -----------------------------
(***************************************************************************)
(* What a distributed Chebyshev filter promises: on every rank the blocks  *)
(* of wavefunctions go from degree to degree, independently of each other, *)
(* and a block's next degree is computed only from neighbours that have    *)
(* reached the present one.                                                *)
(***************************************************************************)
EXTENDS Integers

CONSTANTS Ranks, Neighbours, Blocks, Order

\* Adjacency is mutual, and there is something to filter.
ConstantsOK ==
  /\ Neighbours \in [Ranks -> SUBSET Ranks]
  /\ \A p, q \in Ranks : q \in Neighbours[p] => p \in Neighbours[q]
  /\ \A p \in Ranks : p \notin Neighbours[p]
  /\ Blocks # {} /\ Order \in Nat /\ Order >= 2

VARIABLES
  first,   \* the degree a call of the filter starts with, 0 or 1
  turn,    \* calls each rank has begun
  deg      \* deg[p][b]: the degree of block b on rank p

vars == <<first, turn, deg>>

Init ==
  /\ first \in {0, 1}
  /\ turn = [p \in Ranks |-> 0]
  /\ deg = [p \in Ranks |-> [b \in Blocks |-> Order]]

\* A rank that has filtered all its blocks takes up the next ones.
New(p) ==
  /\ \A b \in Blocks : deg[p][b] = Order
  /\ turn' = [turn EXCEPT ![p] = @ + 1]
  /\ deg' = [deg EXCEPT ![p] = [b \in Blocks |-> first]]
  /\ UNCHANGED first

Reached(q, p, b) == turn[q] > turn[p] \/ (turn[q] = turn[p] /\ deg[q][b] >= deg[p][b])

Advance(p, b) ==
  /\ deg[p][b] < Order
  /\ \A q \in Neighbours[p] : Reached(q, p, b)
  /\ deg' = [deg EXCEPT ![p][b] = @ + 1]
  /\ UNCHANGED <<first, turn>>

Next == \E p \in Ranks : New(p) \/ \E b \in Blocks : Advance(p, b)

Spec ==
  /\ Init /\ [][Next]_vars
  /\ \A p \in Ranks, b \in Blocks : WF_vars(Advance(p, b))
-----------------------------------------------------------------------------
TypeOK ==
  /\ first \in {0, 1}
  /\ turn \in [Ranks -> Nat]
  /\ deg \in [Ranks -> [Blocks -> 0..Order]]

\* Neighbours are never more than one degree apart in one call, and one that is a
\* call ahead has computed nothing of it yet while the other is at its last degree.
Close(p, q, b) ==
  /\ turn[p] = turn[q] => deg[p][b] <= deg[q][b] + 1
  /\ turn[p] > turn[q] =>
       turn[p] = turn[q] + 1 /\ deg[p][b] = first /\ deg[q][b] >= Order - 1
NeighboursClose == \A p \in Ranks : \A q \in Neighbours[p], b \in Blocks : Close(p, q, b)
=============================================================================
