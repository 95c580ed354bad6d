------------------------ MODULE AtomPositionsProofs ------------------------
(***************************************************************************)
(* What holds of AtomPositions for every number of atoms, every cell wide  *)
(* enough for the movement thresholds and every set of requested           *)
(* geometries: its types, that an answer is for the requested geometry,    *)
(* and that no update strays further than one wrap can repair.             *)
(***************************************************************************)
EXTENDS AtomPositions, TLAPS

\* The quotient of std::round leaves less than half a lattice vector.
LEMMA ImageBound ==
  ASSUME NEW d \in Int, NEW len \in Nat \ {0}
  PROVE  /\ Image(d, len) \in Int
         /\ 2 * (d - Image(d, len) * len) <= len
         /\ 2 * (d - Image(d, len) * len) >= -len
<1>1. ASSUME NEW n \in Int
      PROVE  /\ (2 * n + len) \div (2 * len) \in Int
             /\ 2 * (n - ((2 * n + len) \div (2 * len)) * len) <= len
             /\ 2 * (n - ((2 * n + len) \div (2 * len)) * len) >= -len
  <2> DEFINE q == (2 * n + len) \div (2 * len)
  <2>1. /\ q \in Int
        /\ (2 * len) * q <= 2 * n + len
        /\ 2 * n + len < (2 * len) * q + 2 * len
    OBVIOUS
  <2>2. (2 * len) * q = 2 * (q * len)
    BY <2>1
  <2>3. q * len \in Int
    BY <2>1
  <2> HIDE DEF q
  <2>4. QED BY <2>1, <2>2, <2>3 DEF q
<1>2. CASE d < 0
  <2> DEFINE q == (2 * (-d) + len) \div (2 * len)
  <2>1. /\ q \in Int
        /\ 2 * (-d - q * len) <= len
        /\ 2 * (-d - q * len) >= -len
    BY <1>1
  <2>2. Image(d, len) = -q
    BY <1>2 DEF Image
  <2>3. (-q) * len = -(q * len) /\ q * len \in Int
    BY <2>1
  <2> HIDE DEF q
  <2>4. QED BY <2>1, <2>2, <2>3
<1>3. CASE ~(d < 0)
  BY <1>1, <1>3 DEF Image
<1>4. QED BY <1>2, <1>3

\* Remainders of the displacements a wrap makes.
LEMMA ModZero ==
  ASSUME NEW len \in Nat \ {0}
  PROVE  0 % len = 0 /\ len % len = 0 /\ (-len) % len = 0
OBVIOUS

\* A component is no longer than the vector.
LEMMA NormBound ==
  ASSUME NEW u \in Int, NEW v \in Int, NEW w \in Int, NEW g \in Nat,
         u * u + v * v + w * w <= g * g
  PROVE  /\ -g <= u /\ u <= g
         /\ -g <= v /\ v <= g
         /\ -g <= w /\ w <= g
OBVIOUS

LEMMA ArithmeticTypes ==
  ASSUME NEW u \in Coords, NEW v \in Coords
  PROVE  Plus(u, v) \in Coords /\ Minus(u, v) \in Coords /\ Zero \in Coords
BY DEF Plus, Minus, Zero, Coords

\* The fold stays a displacement, shorter than half the cell on periodic axes.
LEMMA FoldFacts ==
  ASSUME NEW u \in Coords
  PROVE  /\ Fold(u) \in Coords
         /\ \A a \in Atoms, x \in Periodic :
              2 * Fold(u)[a][x] <= Edge[x] /\ 2 * Fold(u)[a][x] >= -Edge[x]
<1>1. ASSUME NEW a \in Atoms, NEW x \in Periodic
      PROVE  /\ u[a][x] - Image(u[a][x], Edge[x]) * Edge[x] \in Int
             /\ 2 * (u[a][x] - Image(u[a][x], Edge[x]) * Edge[x]) <= Edge[x]
             /\ 2 * (u[a][x] - Image(u[a][x], Edge[x]) * Edge[x]) >= -Edge[x]
  <2>1. u[a][x] \in Int /\ Edge[x] \in Nat \ {0}
    BY ConstantsOK DEF Coords
  <2>2. Image(u[a][x], Edge[x]) \in Int
    BY <2>1, ImageBound
  <2>3. Image(u[a][x], Edge[x]) * Edge[x] \in Int
    BY <2>1, <2>2
  <2>4. u[a][x] - Image(u[a][x], Edge[x]) * Edge[x] \in Int
    BY <2>1, <2>3
  <2>5. /\ 2 * (u[a][x] - Image(u[a][x], Edge[x]) * Edge[x]) <= Edge[x]
        /\ 2 * (u[a][x] - Image(u[a][x], Edge[x]) * Edge[x]) >= -Edge[x]
    BY <2>1, ImageBound
  <2>6. QED BY <2>4, <2>5
<1>2. \A a \in Atoms, x \in Axes : u[a][x] \in Int
  BY DEF Coords
<1>3. QED
  BY <1>1, <1>2, ConstantsOK DEF Fold, Coords

LEMMA WrapFacts ==
  ASSUME NEW u \in Coords
  PROVE  /\ Wrap(u) \in Coords
         /\ \A a \in Atoms, x \in Periodic :
              /\ Wrap(u)[a][x] = WrapOne(u[a][x], Edge[x])
              /\ u[a][x] >= -Edge[x] /\ u[a][x] <= 2 * Edge[x]
                   => Wrap(u)[a][x] >= 0 /\ Wrap(u)[a][x] <= Edge[x]
         /\ \A a \in Atoms, x \in Axes \ Periodic : Wrap(u)[a][x] = u[a][x]
<1>1. \A a \in Atoms, x \in Axes : u[a][x] \in Int
  BY DEF Coords
<1>2. QED
  BY <1>1, ConstantsOK DEF Wrap, WrapOne, Coords
-----------------------------------------------------------------------------
(***************************************************************************)
(* Types.                                                                  *)
(***************************************************************************)
LEMMA HoldsStatus ==
  ASSUME NEW after, NEW pos, Holds(after, pos)
  PROVE  status' \in Statuses /\ cart' = after
BY DEF Holds, Statuses

LEMMA RebuildsStatus ==
  ASSUME NEW after, NEW pos, Rebuilds(after, pos)
  PROVE  status' \in Statuses /\ cart' = after
BY HoldsStatus DEF Rebuilds, Statuses

\* Every variable keeps its type: positions and net displacements stay whole
\* vectors per atom through folding, wrapping and mesh movement.
THEOREM TypeCorrect == Spec => []TypeOK
<1>1. Init => TypeOK
  BY DEF Init, TypeOK, Statuses, Zero, Coords
<1>2. TypeOK /\ [Next]_vars => TypeOK'
  <2> SUFFICES ASSUME TypeOK, [Next]_vars PROVE TypeOK'
    OBVIOUS
  <2>1. CASE UNCHANGED vars
    BY <2>1 DEF TypeOK, vars
  <2>2. ASSUME NEW pos \in Positions, Reinit(pos) \/ Skip(pos) \/ Update(pos)
        PROVE  TypeOK'
    <3> DEFINE disp == Fold(Minus(pos, cart))
    <3>1. pos \in Coords
      BY ConstantsOK DEF Coords
    <3>2. disp \in Coords /\ Zero \in Coords
      BY <3>1, ArithmeticTypes, FoldFacts DEF TypeOK
    <3>3. /\ Plus(cart, disp) \in Coords
          /\ Plus(net, disp) \in Coords
          /\ Plus(netFloat, disp) \in Coords
          /\ Plus(Plus(cart, disp), disp) \in Coords
      BY <3>2, ArithmeticTypes DEF TypeOK
    <3>4. /\ Wrap(pos) \in Coords
          /\ Wrap(Plus(cart, disp)) \in Coords
          /\ FallBackGeometry(disp) \in Coords
      BY <3>1, <3>3, WrapFacts DEF FallBackGeometry
    <3>5. CASE Reinit(pos)
      BY <3>1, <3>2, <3>4, <3>5 DEF Reinit, TypeOK, Statuses
    <3>6. CASE Skip(pos)
      BY <3>1, <3>6 DEF Skip, TypeOK
    <3>7. CASE Remesh(pos)
      <4>1. status' \in Statuses /\ cart' = Wrap(Plus(cart, disp))
        BY <3>7, RebuildsStatus DEF Remesh
      <4>2. QED BY <3>1, <3>2, <3>4, <3>7, <4>1 DEF Remesh, Asks, TypeOK
    <3>8. CASE GaussianMove(pos)
      <4>1. status' \in Statuses /\ cart' = Plus(cart, disp)
        BY <3>8, HoldsStatus DEF GaussianMove
      <4>2. QED BY <3>1, <3>3, <3>8, <4>1 DEF GaussianMove, Asks, TypeOK
    <3>9. CASE GaussianFallBack(pos)
      <4>1. status' \in Statuses /\ cart' = FallBackGeometry(disp)
        BY <3>9, RebuildsStatus DEF GaussianFallBack
      <4>2. QED BY <3>1, <3>2, <3>4, <3>9, <4>1 DEF GaussianFallBack, Asks, TypeOK
    <3>10. CASE FloatingMove(pos)
      <4>1. status' \in Statuses /\ cart' = Plus(cart, disp)
        BY <3>10, HoldsStatus DEF FloatingMove
      <4>2. QED BY <3>1, <3>3, <3>10, <4>1 DEF FloatingMove, Asks, TypeOK
    <3>11. CASE FloatingRebin(pos)
      <4>1. status' \in Statuses /\ cart' = Wrap(Plus(cart, disp))
        BY <3>11, RebuildsStatus DEF FloatingRebin
      <4>2. QED BY <3>1, <3>2, <3>4, <3>11, <4>1 DEF FloatingRebin, Asks, TypeOK
    <3>12. QED
      BY <2>2, <3>5, <3>6, <3>7, <3>8, <3>9, <3>10, <3>11 DEF Update
  <2>3. QED BY <2>1, <2>2 DEF Next
<1>3. QED BY <1>1, <1>2, PTL DEF Spec
-----------------------------------------------------------------------------
(***************************************************************************)
(* An answer is for the requested geometry.                                *)
(***************************************************************************)

\* A wrap moves a coordinate by no lattice vector or by one.
LEMMA WrapCongruent ==
  ASSUME NEW u \in Coords, NEW a \in Atoms, NEW x \in Periodic
  PROVE  Congruent(Wrap(u)[a][x], u[a][x], Edge[x])
<1>1. u[a][x] \in Int /\ Edge[x] \in Nat \ {0}
  BY ConstantsOK DEF Coords
<1>2. Wrap(u)[a][x] - u[a][x] \in {0, Edge[x], -Edge[x]}
  BY <1>1, WrapFacts DEF WrapOne
<1>3. QED BY <1>1, <1>2, ModZero DEF Congruent

\* Agreement with the request makes the engine's geometry the driver's.
LEMMA HoldsAnswers ==
  ASSUME TypeOK, NEW pos \in Coords, NEW after \in Coords,
         Holds(after, pos), driver' = pos
  PROVE  AnswersRequestedGeometry'
<1> SUFFICES ASSUME status' = "ready", NEW a \in Atoms, NEW x \in Axes
             PROVE  SameGeometry(driver'[a][x], cart'[a][x], x)
  BY DEF AnswersRequestedGeometry
<1>1. Agrees(after, cart, Minus(pos, cart)) /\ cart' = after
  BY DEF Holds
<1>2. pos[a][x] \in Int /\ cart[a][x] \in Int /\ after[a][x] \in Int
  BY DEF TypeOK, Coords
<1>3. cart[a][x] + Minus(pos, cart)[a][x] = pos[a][x]
  BY <1>2 DEF Minus
<1>4. IF x \in Periodic THEN Congruent(after[a][x], pos[a][x], Edge[x])
                        ELSE after[a][x] = pos[a][x]
  BY <1>1, <1>3 DEF Agrees
<1>5. 0 \in -SkipTol..SkipTol /\ pos[a][x] + 0 = pos[a][x]
  BY <1>2, ConstantsOK
<1>6. QED BY <1>1, <1>4, <1>5 DEF SameGeometry

LEMMA RebuildsAnswers ==
  ASSUME TypeOK, NEW pos \in Coords, NEW after \in Coords,
         Rebuilds(after, pos), driver' = pos
  PROVE  AnswersRequestedGeometry'
<1>1. CASE Holds(after, pos)
  BY <1>1, HoldsAnswers
<1>2. CASE status' \in {"outside", "open axis"}
  BY <1>2 DEF AnswersRequestedGeometry
<1>3. QED BY <1>1, <1>2 DEF Rebuilds

\* What was skipped is within the tolerance of the driver loop.
LEMMA SkipAnswers ==
  ASSUME TypeOK, NEW pos \in Coords, Skip(pos)
  PROVE  AnswersRequestedGeometry'
<1> SUFFICES ASSUME NEW a \in Atoms, NEW x \in Axes
             PROVE  SameGeometry(pos[a][x], cart[a][x], x)
  BY DEF AnswersRequestedGeometry, Skip
<1> DEFINE e == cart[a][x] - pos[a][x]
<1>1. pos[a][x] \in Int /\ cart[a][x] \in Int /\ SkipTol \in Nat
  BY ConstantsOK DEF TypeOK, Coords
<1>2. Abs(pos[a][x] - cart[a][x]) <= SkipTol
  BY DEF Skip, Small, Minus
<1>3. e \in -SkipTol..SkipTol /\ cart[a][x] = pos[a][x] + e
  BY <1>1, <1>2 DEF Abs
<1>4. x \in Periodic => Congruent(cart[a][x], pos[a][x] + e, Edge[x])
  <2>1. cart[a][x] - (pos[a][x] + e) = 0
    BY <1>1
  <2>2. QED BY <2>1, ModZero, ConstantsOK DEF Congruent
<1> HIDE DEF e
<1>5. QED BY <1>3, <1>4 DEF SameGeometry

\* A first request that is accepted is held as asked, up to a wrap.
LEMMA ReinitAnswers ==
  ASSUME NEW pos \in Coords, Reinit(pos)
  PROVE  AnswersRequestedGeometry'
<1> SUFFICES ASSUME NEW a \in Atoms, NEW x \in Axes
             PROVE  SameGeometry(pos[a][x], Wrap(pos)[a][x], x)
  BY DEF AnswersRequestedGeometry, Reinit
<1>1. pos[a][x] \in Int /\ 0 \in -SkipTol..SkipTol /\ pos[a][x] + 0 = pos[a][x]
  BY ConstantsOK DEF Coords
<1>2. IF x \in Periodic THEN Congruent(Wrap(pos)[a][x], pos[a][x], Edge[x])
                        ELSE Wrap(pos)[a][x] = pos[a][x]
  BY WrapCongruent, WrapFacts
<1>3. QED BY <1>1, <1>2 DEF SameGeometry

\* Whatever branch a move takes, and however often the driver crosses the
\* cell, an engine that answers holds the geometry it was asked for.
THEOREM AnswersCorrect == Spec => []AnswersRequestedGeometry
<1>1. Init => AnswersRequestedGeometry
  BY DEF Init, AnswersRequestedGeometry
<1>2. TypeOK /\ AnswersRequestedGeometry /\ [Next]_vars => AnswersRequestedGeometry'
  <2> SUFFICES ASSUME TypeOK, AnswersRequestedGeometry, [Next]_vars
               PROVE  AnswersRequestedGeometry'
    OBVIOUS
  <2>1. CASE UNCHANGED vars
    BY <2>1 DEF AnswersRequestedGeometry, vars
  <2>2. ASSUME NEW pos \in Positions, Reinit(pos) \/ Skip(pos) \/ Update(pos)
        PROVE  AnswersRequestedGeometry'
    <3> DEFINE disp == Fold(Minus(pos, cart))
    <3>1. pos \in Coords
      BY ConstantsOK DEF Coords
    <3>2. /\ Plus(cart, disp) \in Coords
          /\ Wrap(Plus(cart, disp)) \in Coords
          /\ FallBackGeometry(disp) \in Coords
      BY <3>1, ArithmeticTypes, FoldFacts, WrapFacts DEF TypeOK, FallBackGeometry
    <3>3. CASE Reinit(pos)
      BY <3>1, <3>3, ReinitAnswers
    <3>4. CASE Skip(pos)
      BY <3>1, <3>4, SkipAnswers
    <3>5. CASE Remesh(pos)
      BY <3>1, <3>2, <3>5, RebuildsAnswers DEF Remesh, Asks
    <3>6. CASE GaussianMove(pos)
      BY <3>1, <3>2, <3>6, HoldsAnswers DEF GaussianMove, Asks
    <3>7. CASE GaussianFallBack(pos)
      BY <3>1, <3>2, <3>7, RebuildsAnswers DEF GaussianFallBack, Asks
    <3>8. CASE FloatingMove(pos)
      BY <3>1, <3>2, <3>8, HoldsAnswers DEF FloatingMove, Asks
    <3>9. CASE FloatingRebin(pos)
      BY <3>1, <3>2, <3>9, RebuildsAnswers DEF FloatingRebin, Asks
    <3>10. QED
      BY <2>2, <3>3, <3>4, <3>5, <3>6, <3>7, <3>8, <3>9 DEF Update
  <2>3. QED BY <2>1, <2>2 DEF Next
<1>3. QED BY <1>1, <1>2, TypeCorrect, PTL DEF Spec
-----------------------------------------------------------------------------
(***************************************************************************)
(* No update strays further than one wrap can repair.  UpdateNeverOutside  *)
(* is not inductive: an atom is within reach of the single shift only      *)
(* because the mesh it is attached to was generated inside the cell, which *)
(* is what MeshFollowsAtoms remembers through the net displacements.       *)
(***************************************************************************)
Moved == IF Floating THEN netFloat ELSE net
Limit == IF Floating THEN FloatMax ELSE GaussMax
IInv == TypeOK /\ MeshFollowsAtoms /\ UpdateNeverOutside

\* MeshFollowsAtoms as linear facts about one coordinate.
LEMMA Attached ==
  ASSUME IInv, status = "ready", NEW a \in Atoms, NEW x \in Periodic
  PROVE  /\ cart[a][x] \in Int /\ Moved[a][x] \in Int
         /\ Limit \in Nat /\ Edge[x] \in Nat
         /\ 2 * Limit <= Edge[x]
         /\ -Limit <= Moved[a][x] /\ Moved[a][x] <= Limit
         /\ 0 <= cart[a][x] - Moved[a][x] /\ cart[a][x] - Moved[a][x] <= Edge[x]
<1>1. /\ cart[a][x] \in Int /\ net[a][x] \in Int /\ netFloat[a][x] \in Int
      /\ GaussMax \in Nat /\ FloatMax \in Nat /\ Edge[x] \in Nat
      /\ 2 * GaussMax <= Edge[x] /\ 2 * FloatMax <= Edge[x]
  BY ConstantsOK, WideCell DEF IInv, TypeOK, Coords
<1>2. QED BY <1>1 DEF IInv, MeshFollowsAtoms, Moved, Limit, Abs

\* A new mesh or new bins are generated inside the cell.
LEMMA RebuildsInside ==
  ASSUME NEW after \in Coords, NEW pos, Rebuilds(after, pos),
         InCell(after),
         \A a \in Atoms, x \in Periodic : Moved'[a][x] = 0
  PROVE  MeshFollowsAtoms' /\ UpdateNeverOutside'
<1>1. cart' = after /\ status' # "outside"
  BY DEF Rebuilds, Holds
<1>2. \A a \in Atoms, x \in Periodic :
        /\ after[a][x] \in Int /\ after[a][x] >= 0 /\ after[a][x] <= Edge[x]
  BY ConstantsOK DEF InCell, Coords
<1>3. FloatMax \in Nat /\ GaussMax \in Nat
  BY ConstantsOK
<1>4. QED
  BY <1>1, <1>2, <1>3 DEF MeshFollowsAtoms, UpdateNeverOutside, Moved, Abs

\* The wrap repairs what is at most one lattice vector away.
LEMMA WrapInside ==
  ASSUME NEW u \in Coords,
         \A a \in Atoms, x \in Periodic : u[a][x] >= -Edge[x] /\ u[a][x] <= 2 * Edge[x]
  PROVE  InCell(Wrap(u))
BY WrapFacts DEF InCell

\* The mesh moved with the atoms is still where it was generated.
LEMMA MovesAttached ==
  ASSUME IInv, status = "ready", NEW disp \in Coords, NEW pos,
         Holds(Plus(cart, disp), pos),
         Moved' = Plus(Moved, disp),
         \A a \in Atoms, x \in Periodic :
           -Limit <= Plus(Moved, disp)[a][x] /\ Plus(Moved, disp)[a][x] <= Limit
  PROVE  MeshFollowsAtoms' /\ UpdateNeverOutside'
<1>1. cart' = Plus(cart, disp) /\ status' # "outside"
  BY DEF Holds
<1>2. ASSUME NEW a \in Atoms, NEW x \in Periodic
      PROVE  /\ Abs(Moved'[a][x]) <= Limit
             /\ cart'[a][x] - Moved'[a][x] >= 0
             /\ cart'[a][x] - Moved'[a][x] <= Edge[x]
  <2>1. disp[a][x] \in Int /\ x \in Axes
    BY ConstantsOK DEF Coords
  <2>2. /\ cart'[a][x] = cart[a][x] + disp[a][x]
        /\ Moved'[a][x] = Moved[a][x] + disp[a][x]
        /\ -Limit <= Moved[a][x] + disp[a][x] /\ Moved[a][x] + disp[a][x] <= Limit
    BY <1>1, <2>1 DEF Plus
  <2>3. QED BY <2>1, <2>2, Attached DEF Abs
<1>3. QED BY <1>1, <1>2 DEF MeshFollowsAtoms, UpdateNeverOutside, Moved, Limit

\* A component of a net displacement the Gaussian movement covers.
LEMMA GaussianBound ==
  ASSUME NEW total \in Coords, UseGaussian(total), NEW a \in Atoms, NEW x \in Axes
  PROVE  -GaussMax <= total[a][x] /\ total[a][x] <= GaussMax
<1>1. total[a][1] \in Int /\ total[a][2] \in Int /\ total[a][3] \in Int
  BY DEF Coords, Axes
<1>2. total[a][1] * total[a][1] + total[a][2] * total[a][2]
        + total[a][3] * total[a][3] <= GaussMax * GaussMax
  BY DEF UseGaussian, Norm2
<1>3. GaussMax \in Nat
  BY ConstantsOK
<1>4. x = 1 \/ x = 2 \/ x = 3
  BY DEF Axes
<1>5. QED BY <1>1, <1>2, <1>3, <1>4, NormBound

\* Where a move starts and what it adds, on one periodic coordinate.
LEMMA MoveReach ==
  ASSUME IInv, status = "ready", NEW pos \in Coords, NEW a \in Atoms, NEW x \in Periodic
  PROVE  LET disp == Fold(Minus(pos, cart))
             after == Plus(cart, disp)
         IN /\ after[a][x] >= -Edge[x] /\ after[a][x] <= 2 * Edge[x]
            /\ UseGaussian(Plus(net, disp)) =>
                 /\ Plus(after, disp)[a][x] >= -Edge[x]
                 /\ Plus(after, disp)[a][x] <= 2 * Edge[x]
<1> DEFINE disp == Fold(Minus(pos, cart))
<1>1. disp \in Coords /\ 2 * disp[a][x] <= Edge[x] /\ 2 * disp[a][x] >= -Edge[x]
  BY ArithmeticTypes, FoldFacts DEF IInv, TypeOK
<1>2. x \in Axes
  BY ConstantsOK
<1> HIDE DEF disp
<1>3. disp[a][x] \in Int
  BY <1>1, <1>2 DEF Coords
<1>4. Plus(cart, disp)[a][x] = cart[a][x] + disp[a][x]
  BY <1>2 DEF Plus
<1>5. Plus(cart, disp)[a][x] >= -Edge[x] /\ Plus(cart, disp)[a][x] <= 2 * Edge[x]
  BY <1>1, <1>3, <1>4, Attached
<1>6. ASSUME UseGaussian(Plus(net, disp))
      PROVE  /\ Plus(Plus(cart, disp), disp)[a][x] >= -Edge[x]
             /\ Plus(Plus(cart, disp), disp)[a][x] <= 2 * Edge[x]
  <2>1. Plus(Plus(cart, disp), disp)[a][x] = cart[a][x] + disp[a][x] + disp[a][x]
    BY <1>2, <1>4 DEF Plus
  <2>2. ~Floating /\ Moved = net /\ Limit = GaussMax
    BY <1>6 DEF UseGaussian, Moved, Limit
  <2>3. Plus(net, disp) \in Coords
    BY <1>1, ArithmeticTypes DEF IInv, TypeOK
  <2>4. Plus(net, disp)[a][x] = Moved[a][x] + disp[a][x]
    BY <1>2, <2>2 DEF Plus
  <2>5. -Limit <= Moved[a][x] + disp[a][x] /\ Moved[a][x] + disp[a][x] <= Limit
    BY <1>2, <1>6, <2>2, <2>3, <2>4, GaussianBound
  <2>6. QED BY <1>1, <1>3, <2>1, <2>2, <2>5, Attached
<1>7. QED BY <1>5, <1>6 DEF disp

\* However far the driver's copy drifts, an update never finds an atom more
\* than one lattice vector outside the cell.
THEOREM NeverOutside == Spec => [](MeshFollowsAtoms /\ UpdateNeverOutside)
<1>1. Init => MeshFollowsAtoms /\ UpdateNeverOutside
  BY DEF Init, MeshFollowsAtoms, UpdateNeverOutside
<1>2. IInv /\ [Next]_vars => MeshFollowsAtoms' /\ UpdateNeverOutside'
  <2> SUFFICES ASSUME IInv, [Next]_vars
               PROVE  MeshFollowsAtoms' /\ UpdateNeverOutside'
    OBVIOUS
  <2>1. CASE UNCHANGED vars
    BY <2>1 DEF IInv, MeshFollowsAtoms, UpdateNeverOutside, vars
  <2>2. ASSUME NEW pos \in Positions, Reinit(pos) \/ Skip(pos) \/ Update(pos)
        PROVE  MeshFollowsAtoms' /\ UpdateNeverOutside'
    <3> DEFINE disp == Fold(Minus(pos, cart))
    <3>1. pos \in Coords
      BY ConstantsOK DEF Coords
    <3>2. /\ disp \in Coords
          /\ Plus(cart, disp) \in Coords
          /\ Plus(Plus(cart, disp), disp) \in Coords
          /\ Plus(net, disp) \in Coords
      BY <3>1, ArithmeticTypes, FoldFacts DEF IInv, TypeOK
    <3>3. Zero \in Coords /\ \A a \in Atoms, x \in Periodic : Zero[a][x] = 0
      BY ConstantsOK DEF Zero, Coords
    <3>4. status = "ready" => InCell(Wrap(Plus(cart, disp)))
      BY <3>1, <3>2, MoveReach, WrapInside
    <3>5. status = "ready" /\ UseGaussian(Plus(net, disp)) => InCell(FallBackGeometry(disp))
      <4>1. CASE Periodic = {}
        BY <4>1 DEF InCell
      <4>2. CASE Periodic # {}
        BY <3>1, <3>2, <4>2, MoveReach, WrapInside DEF FallBackGeometry
      <4>3. QED BY <4>1, <4>2
    <3>6. /\ Wrap(Plus(cart, disp)) \in Coords /\ Wrap(pos) \in Coords
          /\ FallBackGeometry(disp) \in Coords
      BY <3>1, <3>2, WrapFacts DEF FallBackGeometry
    <3>7. CASE Reinit(pos)
      <4>1. status' # "outside" /\ cart' = Wrap(pos) /\ (status' = "ready" => InCell(Wrap(pos)))
        BY <3>7 DEF Reinit
      <4>2. \A a \in Atoms, x \in Periodic : Moved'[a][x] = 0
        BY <3>3, <3>7 DEF Reinit, Moved
      <4>3. ASSUME status' = "ready", NEW a \in Atoms, NEW x \in Periodic
            PROVE  /\ cart'[a][x] \in Int /\ cart'[a][x] >= 0 /\ cart'[a][x] <= Edge[x]
                   /\ FloatMax \in Nat /\ GaussMax \in Nat
        BY <3>6, <4>1, <4>3, ConstantsOK DEF InCell, Coords
      <4>4. QED BY <4>1, <4>2, <4>3 DEF MeshFollowsAtoms, UpdateNeverOutside, Moved, Abs
    <3>8. CASE Skip(pos)
      BY <3>8 DEF Skip, IInv, MeshFollowsAtoms, UpdateNeverOutside
    <3>9. CASE Remesh(pos)
      <4>1. \A a \in Atoms, x \in Periodic : Moved'[a][x] = 0
        BY <3>3, <3>9 DEF Remesh, Moved
      <4>2. QED BY <3>4, <3>6, <3>9, <4>1, RebuildsInside DEF Remesh, Asks
    <3>10. CASE GaussianMove(pos)
      <4>1. Moved = net /\ Moved' = Plus(net, disp) /\ Limit = GaussMax
        BY <3>10 DEF GaussianMove, UseGaussian, Moved, Limit
      <4>2. \A a \in Atoms, x \in Periodic :
              -Limit <= Plus(net, disp)[a][x] /\ Plus(net, disp)[a][x] <= Limit
        BY <3>2, <3>10, <4>1, GaussianBound, ConstantsOK DEF GaussianMove
      <4>3. QED BY <3>2, <3>10, <4>1, <4>2, MovesAttached DEF GaussianMove, Asks
    <3>11. CASE GaussianFallBack(pos)
      <4>1. \A a \in Atoms, x \in Periodic : Moved'[a][x] = 0
        BY <3>3, <3>11 DEF GaussianFallBack, Moved
      <4>2. QED BY <3>5, <3>6, <3>11, <4>1, RebuildsInside DEF GaussianFallBack, Asks
    <3>12. CASE FloatingMove(pos)
      <4>1. Moved = netFloat /\ Moved' = Plus(netFloat, disp) /\ Limit = FloatMax
        BY <3>12 DEF FloatingMove, KeepBins, Moved, Limit
      <4>2. \A a \in Atoms, x \in Periodic :
              -Limit <= Plus(netFloat, disp)[a][x] /\ Plus(netFloat, disp)[a][x] <= Limit
        <5>1. Plus(netFloat, disp) \in Coords /\ FloatMax \in Nat
          BY <3>2, ArithmeticTypes, ConstantsOK DEF IInv, TypeOK
        <5>2. QED BY <3>12, <4>1, <5>1, ConstantsOK DEF FloatingMove, KeepBins, Abs, Coords
      <4>3. QED BY <3>2, <3>12, <4>1, <4>2, MovesAttached DEF FloatingMove, Asks
    <3>13. CASE FloatingRebin(pos)
      <4>1. \A a \in Atoms, x \in Periodic : Moved'[a][x] = 0
        BY <3>3, <3>13 DEF FloatingRebin, Moved
      <4>2. QED BY <3>4, <3>6, <3>13, <4>1, RebuildsInside DEF FloatingRebin, Asks
    <3>14. QED
      BY <2>2, <3>7, <3>8, <3>9, <3>10, <3>11, <3>12, <3>13 DEF Update
  <2>3. QED BY <2>1, <2>2 DEF Next
<1>3. QED BY <1>1, <1>2, TypeCorrect, PTL DEF Spec, IInv

\* The mesh and the atoms have been displaced alike since the mesh was built.
THEOREM MeshFollowsCorrect == Spec => []MeshFollowsAtoms
BY NeverOutside, PTL
-----------------------------------------------------------------------------
(***************************************************************************)
(* A small step stays small: by AnswersRequestedGeometry the two copies    *)
(* differ by lattice vectors and a skipped displacement, so the difference *)
(* has one image shorter than half the cell, which is the driver's step.   *)
(***************************************************************************)
\* Congruent numbers differ by a whole number of cells.
LEMMA CongruentWitness ==
  ASSUME NEW p \in Int, NEW q \in Int, NEW len \in Nat \ {0}, Congruent(p, q, len)
  PROVE  \E k \in Int : p = q + k * len
<1> DEFINE k == (p - q) \div len
<1>1. k \in Int /\ p - q = len * k + ((p - q) % len)
  OBVIOUS
<1>2. (p - q) % len = 0
  BY DEF Congruent
<1> HIDE DEF k
<1>3. p - q = len * k
  BY <1>1, <1>2
<1>4. len * k = k * len
  BY <1>1
<1>5. p = q + k * len
  BY <1>1, <1>3, <1>4
<1>6. QED BY <1>1, <1>5

\* No two numbers shorter than half the cell, one of them strictly, are images
\* of each other.
LEMMA ShortestImage ==
  ASSUME NEW d \in Int, NEW s \in Int, NEW m \in Int, NEW len \in Nat \ {0},
         s = d + m * len,
         2 * s <= len, 2 * s >= -len, 2 * d < len, 2 * d > -len
  PROVE  s = d
<1>1. m * len < len /\ m * len > -len
  <2>1. m * len \in Int
    OBVIOUS
  <2>2. m * len = s - d
    BY <2>1
  <2>3. QED BY <2>2
<1>2. CASE m >= 1
  <2>1. m * len >= len
    BY <1>2
  <2>2. QED BY <1>1, <2>1
<1>3. CASE m <= -1
  <2>1. m * len <= -len
    BY <1>3
  <2>2. QED BY <1>1, <2>1
<1>4. CASE m = 0
  BY <1>4
<1>5. QED BY <1>2, <1>3, <1>4

\* One periodic coordinate of a displacement after a short step of the driver.
LEMMA FoldOfShortStep ==
  ASSUME TypeOK, AnswersRequestedGeometry, status = "ready",
         NEW pos \in Coords, NEW a \in Atoms, NEW x \in Periodic,
         2 * (Abs(pos[a][x] - driver[a][x]) + SkipTol) < Edge[x]
  PROVE  Abs(Fold(Minus(pos, cart))[a][x] - (pos[a][x] - driver[a][x])) <= SkipTol
<1> DEFINE u == Minus(pos, cart)
           s == Fold(u)[a][x]
           asked == pos[a][x] - driver[a][x]
<1>1. x \in Axes /\ Edge[x] \in Nat \ {0} /\ SkipTol \in Nat
  BY ConstantsOK
<1>2. /\ pos[a][x] \in Int /\ driver[a][x] \in Int /\ cart[a][x] \in Int
      /\ asked \in Int
  BY <1>1 DEF TypeOK, Coords
<1>3. PICK e \in -SkipTol..SkipTol : Congruent(cart[a][x], driver[a][x] + e, Edge[x])
  BY <1>1 DEF AnswersRequestedGeometry, SameGeometry
<1>4. PICK k \in Int : cart[a][x] = driver[a][x] + e + k * Edge[x]
  <2>1. driver[a][x] + e \in Int
    BY <1>1, <1>2
  <2>2. QED BY <1>1, <1>2, <1>3, <2>1, CongruentWitness
<1>5. u \in Coords /\ u[a][x] = pos[a][x] - cart[a][x]
  BY <1>1, ArithmeticTypes DEF TypeOK, Minus
<1>6. /\ Image(u[a][x], Edge[x]) \in Int
      /\ s = u[a][x] - Image(u[a][x], Edge[x]) * Edge[x]
  <2>1. u[a][x] \in Int
    BY <1>2, <1>5
  <2>2. Image(u[a][x], Edge[x]) \in Int
    BY <1>1, <2>1, ImageBound
  <2> HIDE DEF u
  <2>3. s = u[a][x] - Image(u[a][x], Edge[x]) * Edge[x]
    BY <1>1 DEF Fold
  <2>4. QED BY <2>2, <2>3
<1>7. 2 * s <= Edge[x] /\ 2 * s >= -Edge[x]
  BY <1>5, FoldFacts
<1>8. PICK i \in Int : s = u[a][x] - i * Edge[x]
  BY <1>6
<1> HIDE DEF u, s, asked
<1>9. /\ k * Edge[x] \in Int /\ i * Edge[x] \in Int
      /\ (-k - i) * Edge[x] = -(k * Edge[x]) - i * Edge[x]
  BY <1>1
<1>10. asked = pos[a][x] - driver[a][x]
  BY DEF asked
<1>11. s = (asked - e) + (-k - i) * Edge[x] /\ s \in Int
  BY <1>1, <1>2, <1>3, <1>4, <1>5, <1>8, <1>9, <1>10
<1>12. 2 * (asked - e) < Edge[x] /\ 2 * (asked - e) > -Edge[x]
  BY <1>1, <1>2, <1>3, <1>10 DEF Abs
<1>13. s = asked - e
  <2>1. asked - e \in Int /\ -k - i \in Int
    BY <1>2, <1>3
  <2>2. QED BY <1>1, <1>7, <1>11, <1>12, <2>1, ShortestImage
<1>14. Abs(s - asked) <= SkipTol
  BY <1>1, <1>2, <1>3, <1>13 DEF Abs
<1>15. QED BY <1>10, <1>14 DEF s, u

\* A step of the driver shorter than half the cell reaches the engine as that
\* step, however many lattice vectors the two copies have drifted apart.
THEOREM SmallStepCorrect == Spec => SmallStepStaysSmall
<1>1. TypeOK /\ AnswersRequestedGeometry /\ TypeOK' /\ [Next]_vars =>
        [Update(driver') =>
           \A a \in Atoms, x \in Periodic : StepIsDriversStep(a, x)]_vars
  <2> SUFFICES ASSUME TypeOK, AnswersRequestedGeometry, TypeOK', Update(driver'),
                      NEW a \in Atoms, NEW x \in Periodic
               PROVE  StepIsDriversStep(a, x)
    OBVIOUS
  <2>1. status = "ready"
    BY DEF Update, Remesh, GaussianMove, GaussianFallBack, FloatingMove, FloatingRebin, Asks
  <2>2. driver' \in Coords
    BY DEF TypeOK
  <2>3. QED BY <2>1, <2>2, FoldOfShortStep DEF StepIsDriversStep
<1>2. QED BY <1>1, TypeCorrect, AnswersCorrect, PTL DEF Spec, SmallStepStaysSmall
-----------------------------------------------------------------------------
(***************************************************************************)
(* Who can fail the comparison: a fold changes a displacement by lattice   *)
(* vectors, a wrap a coordinate by at most one, so that every branch which *)
(* adds the displacement once ends where it was asked to.                  *)
(***************************************************************************)
LEMMA Multiple ==
  ASSUME NEW k \in Int, NEW len \in Nat \ {0}
  PROVE  (k * len) % len = 0
<1> DEFINE n == k * len
           q == n \div len
           r == n % len
<1>1. n \in Int /\ q \in Int /\ r \in 0..(len - 1) /\ n = len * q + r
  OBVIOUS
<1>2. len * q = q * len /\ (k - q) * len = k * len - q * len /\ q * len \in Int
  BY <1>1
<1>3. r = 0 + (k - q) * len
  BY <1>1, <1>2
<1>4. k - q \in Int
  BY <1>1
<1> HIDE DEF n, q, r
<1>5. (k - q >= 1 => (k - q) * len >= len) /\ (k - q <= -1 => (k - q) * len <= -len)
  BY <1>4
<1>6. ~(k - q >= 1) /\ ~(k - q <= -1)
  BY <1>1, <1>3, <1>5
<1>7. k - q = 0
  BY <1>4, <1>6
<1>8. (k - q) * len = 0
  BY <1>7
<1>9. r = 0
  BY <1>3, <1>8
<1>10. QED BY <1>9 DEF r, n

\* One coordinate after a folded displacement, wrapped or not.
LEMMA FoldedOnce ==
  ASSUME NEW c \in Int, NEW p \in Int, NEW i \in Int, NEW len \in Nat \ {0},
         NEW w \in {0, len, -len}
  PROVE  Congruent(c + ((p - c) - i * len) + w, c + (p - c), len)
<1>1. PICK j \in {0, 1, -1} : w = j * len
  <2>1. 0 = 0 * len /\ len = 1 * len /\ -len = (-1) * len
    OBVIOUS
  <2>2. QED BY <2>1
<1>2. i * len \in Int /\ j * len \in Int /\ (j - i) * len = j * len - i * len
  BY <1>1
<1>3. (c + ((p - c) - i * len) + w) - (c + (p - c)) = (j - i) * len
  BY <1>1, <1>2
<1>4. ((j - i) * len) % len = 0
  BY <1>1, Multiple
<1>5. QED BY <1>3, <1>4 DEF Congruent

LEMMA MovedOnceAgrees ==
  ASSUME TypeOK, NEW pos \in Coords, NEW after \in Coords,
         LET moved == Plus(cart, Fold(Minus(pos, cart)))
         IN after = moved \/ after = Wrap(moved)
  PROVE  Agrees(after, cart, Minus(pos, cart))
<1> DEFINE u == Minus(pos, cart)
           moved == Plus(cart, Fold(u))
<1>1. u \in Coords /\ Fold(u) \in Coords /\ moved \in Coords /\ cart \in Coords
  BY ArithmeticTypes, FoldFacts DEF TypeOK
<1>2. SUFFICES ASSUME NEW a \in Atoms, NEW x \in Axes
               PROVE  IF x \in Periodic
                        THEN Congruent(after[a][x], cart[a][x] + u[a][x], Edge[x])
                        ELSE after[a][x] = cart[a][x] + u[a][x]
  BY DEF Agrees
<1>3. /\ cart[a][x] \in Int /\ pos[a][x] \in Int /\ Edge[x] \in Nat \ {0}
      /\ u[a][x] = pos[a][x] - cart[a][x]
      /\ moved[a][x] = cart[a][x] + Fold(u)[a][x] /\ moved[a][x] \in Int
  <2>1. cart[a][x] \in Int /\ pos[a][x] \in Int /\ moved[a][x] \in Int
    BY <1>1 DEF Coords
  <2>2. u[a][x] = pos[a][x] - cart[a][x]
    BY DEF Minus
  <2> HIDE DEF u
  <2>3. moved[a][x] = cart[a][x] + Fold(u)[a][x]
    BY DEF Plus
  <2>4. QED BY <2>1, <2>2, <2>3, ConstantsOK
<1>4. CASE x \notin Periodic
  <2>1. Fold(u)[a][x] = u[a][x]
    BY <1>4 DEF Fold
  <2>2. after[a][x] = moved[a][x]
    BY <1>1, <1>4, WrapFacts
  <2> HIDE DEF u, moved
  <2>3. QED BY <1>3, <1>4, <2>1, <2>2
<1>5. CASE x \in Periodic
  <2>1. PICK i \in Int : Fold(u)[a][x] = u[a][x] - i * Edge[x]
    <3>1. u[a][x] \in Int
      BY <1>1 DEF Coords
    <3>2. Image(u[a][x], Edge[x]) \in Int
      BY <1>3, <3>1, ImageBound
    <3> HIDE DEF u
    <3>3. Fold(u)[a][x] = u[a][x] - Image(u[a][x], Edge[x]) * Edge[x]
      BY <1>5 DEF Fold
    <3>4. QED BY <3>2, <3>3
  <2>2. PICK w \in {0, Edge[x], -Edge[x]} : after[a][x] = moved[a][x] + w
    <3>1. CASE after = moved
      BY <1>3, <3>1
    <3>2. CASE after = Wrap(moved)
      <4>1. Wrap(moved)[a][x] = WrapOne(moved[a][x], Edge[x])
        BY <1>1, <1>5, WrapFacts
      <4>2. WrapOne(moved[a][x], Edge[x]) - moved[a][x] \in {0, Edge[x], -Edge[x]}
        BY <1>3 DEF WrapOne
      <4>3. WrapOne(moved[a][x], Edge[x]) \in Int
        BY <1>3 DEF WrapOne
      <4>4. QED BY <1>3, <3>2, <4>1, <4>2, <4>3
    <3>3. QED BY <3>1, <3>2
  <2> HIDE DEF u, moved
  <2>3. after[a][x] = cart[a][x] + ((pos[a][x] - cart[a][x]) - i * Edge[x]) + w
    BY <1>3, <2>1, <2>2
  <2>4. QED BY <1>3, <1>5, <2>3, FoldedOnce
<1>6. QED BY <1>4, <1>5

\* The comparison at the end of updateAtomPositions, which "holds by construction",
\* can fail in one branch only: the remeshing of a rejected mesh in a cell with a
\* periodic axis, which adds the displacement twice.
THEOREM OnlyFallBackMisplaces ==
  Spec => [][status' = "mismatch" =>
               \/ status = "mismatch"
               \/ Periodic # {} /\ \E pos \in Positions : GaussianFallBack(pos)]_vars
<1>1. TypeOK /\ [Next]_vars =>
        [status' = "mismatch" =>
           \/ status = "mismatch"
           \/ Periodic # {} /\ \E pos \in Positions : GaussianFallBack(pos)]_vars
  <2> SUFFICES ASSUME TypeOK, NEW pos \in Positions,
                      Reinit(pos) \/ Skip(pos) \/ Update(pos),
                      status' = "mismatch", status # "mismatch",
                      Periodic = {} \/ ~GaussianFallBack(pos)
               PROVE  FALSE
    BY DEF Next
  <2> DEFINE disp == Fold(Minus(pos, cart))
             moved == Plus(cart, disp)
  <2>1. pos \in Coords
    BY ConstantsOK DEF Coords
  <2>2. moved \in Coords /\ Wrap(moved) \in Coords
    BY <2>1, ArithmeticTypes, FoldFacts, WrapFacts DEF TypeOK
  <2>3. ASSUME NEW after \in {moved, Wrap(moved)} PROVE ~Holds(after, pos) /\ ~Rebuilds(after, pos)
    <3>1. Agrees(after, cart, Minus(pos, cart))
      BY <2>1, <2>2, <2>3, MovedOnceAgrees
    <3>2. QED BY <3>1 DEF Holds, Rebuilds
  <2>4. CASE Reinit(pos) \/ Skip(pos)
    BY <2>4 DEF Reinit, Skip
  <2>5. CASE Remesh(pos) \/ GaussianMove(pos) \/ FloatingMove(pos) \/ FloatingRebin(pos)
    BY <2>3, <2>5 DEF Remesh, GaussianMove, FloatingMove, FloatingRebin
  <2>6. CASE GaussianFallBack(pos)
    BY <2>3, <2>6 DEF GaussianFallBack, FallBackGeometry
  <2>7. QED BY <2>4, <2>5, <2>6 DEF Update
<1>2. QED BY <1>1, TypeCorrect, PTL DEF Spec

\* With floating charges, where no mesh is moved, and with open cells the
\* comparison never fails.
THEOREM HoldsWithoutFallBack ==
  ASSUME Floating \/ Periodic = {} PROVE Spec => []HoldsByConstruction
<1>1. Init => HoldsByConstruction
  BY DEF Init, HoldsByConstruction
<1>2. /\ HoldsByConstruction
      /\ [status' = "mismatch" =>
            \/ status = "mismatch"
            \/ Periodic # {} /\ \E pos \in Positions : GaussianFallBack(pos)]_vars
      => HoldsByConstruction'
  BY DEF HoldsByConstruction, GaussianFallBack, UseGaussian, vars
<1>3. QED BY <1>1, <1>2, OnlyFallBackMisplaces, PTL DEF Spec
=============================================================================
