---------------------------- MODULE AtomPositions ----------------------------
(***************************************************************************)
(* The two copies of the geometry behind an external driver of DFT-FE.     *)
(*                                                                         *)
(* A driver (ASE over the socket) keeps its own positions, unwrapped.      *)
(* DFT-FE keeps atomLocations, which it folds into the cell only when it   *)
(* remeshes.  Every request carries absolute positions; socketDriver::run  *)
(* turns them into a displacement by subtracting DFT-FE's copy,            *)
(* dftfeWrapper::updateAtomPositions folds the displacement to its minimum *)
(* image, moves the atoms and compares the result with the request, and    *)
(* dftClass::updateAtomPositionsAndMoveMesh decides between moving the     *)
(* mesh along with the atoms and generating a new one.                     *)
(*                                                                         *)
(* Positions are measured from the corner of an orthogonal cell, in whole  *)
(* units: Edge[x] units are one lattice vector along axis x.  A tolerance  *)
(* of the code below one unit is no tolerance here.                        *)
(***************************************************************************)
EXTENDS Integers

CONSTANTS
  Atoms,      \* the atoms of the system
  Periodic,   \* the axes with periodic boundary conditions
  Edge,       \* length of the cell along each axis
  SkipTol,    \* largest displacement socketDriver ignores (1e-6 Bohr)
  GaussMax,   \* net displacement a Gaussian mesh movement covers (1 Bohr)
  FloatMax,   \* floating charges: net displacement that forces new bins (0.5 Bohr)
  Floating,   \* FLOATING NUCLEAR CHARGES
  Positions   \* the geometries the driver may ask for

Axes == 1..3

ASSUME ConstantsOK ==
  /\ Atoms # {}
  /\ Periodic \subseteq Axes
  /\ Edge \in [Axes -> Nat \ {0}]
  /\ SkipTol \in Nat
  /\ GaussMax \in Nat
  /\ FloatMax \in Nat
  /\ Floating \in BOOLEAN
  /\ Positions \subseteq [Atoms -> [Axes -> Int]]

\* A lattice vector is longer than the movement thresholds repeated twice (2 and
\* 1 Bohr), as it is in any crystal.
ASSUME WideCell ==
  \A x \in Periodic : 2 * GaussMax <= Edge[x] /\ 2 * FloatMax <= Edge[x]

VARIABLES
  status,     \* the engine: "empty", "ready", or why it aborted
  driver,     \* the geometry last asked for, the driver's own copy
  cart,       \* dftClass::atomLocations
  net,        \* d_gaussianMovementAtomsNetDisplacements
  netFloat    \* d_netFloatingDispSinceLastBinsUpdate

vars == <<status, driver, cart, net, netFloat>>

Coords == [Atoms -> [Axes -> Int]]
\* Mutant of Zero: vectors sized for two components.
ZeroInPlane == [a \in Atoms |-> [x \in {1, 2} |-> 0]]

Zero == [a \in Atoms |-> [x \in Axes |-> 0]]
Plus(u, v) == [a \in Atoms |-> [x \in Axes |-> u[a][x] + v[a][x]]]
Minus(u, v) == [a \in Atoms |-> [x \in Axes |-> u[a][x] - v[a][x]]]

Abs(n) == IF n < 0 THEN -n ELSE n

\* std::round(d / len): the nearest whole number, ties away from zero.
Image(d, len) ==
  IF d < 0 THEN -((2 * (-d) + len) \div (2 * len)) ELSE (2 * d + len) \div (2 * len)

\* Mutant of Fold: the displacement is handed on as it was subtracted.
FoldNothing(disp) == disp

\* Minimum image of a displacement, on the periodic axes only.
Fold(disp) ==
  [a \in Atoms |-> [x \in Axes |->
     IF x \in Periodic THEN disp[a][x] - Image(disp[a][x], Edge[x]) * Edge[x]
                       ELSE disp[a][x]]]

\* One lattice vector at most is added or removed (wrapAtomsAcrossPeriodicBc).
WrapOne(p, len) == IF p < 0 THEN p + len ELSE IF p > len THEN p - len ELSE p
Wrap(pos) ==
  [a \in Atoms |-> [x \in Axes |->
     IF x \in Periodic THEN WrapOne(pos[a][x], Edge[x]) ELSE pos[a][x]]]

\* The assertions on the wrapped coordinates: inside the closed cell along a
\* periodic axis, strictly inside it along an open one.
InCell(pos) == \A a \in Atoms, x \in Periodic : pos[a][x] >= 0 /\ pos[a][x] <= Edge[x]
InsideOpen(pos) ==
  \A a \in Atoms, x \in Axes \ Periodic : pos[a][x] > 0 /\ pos[a][x] < Edge[x]

\* after = before + asked, modulo lattice vectors along periodic axes: the
\* comparison at the end of updateAtomPositions.
Congruent(p, q, len) == (p - q) % len = 0
\* Mutant of Agrees: the comparison is not made.
AgreesAlways(after, before, asked) == TRUE

Agrees(after, before, asked) ==
  \A a \in Atoms, x \in Axes :
    LET goal == before[a][x] + asked[a][x] IN
    IF x \in Periodic THEN Congruent(after[a][x], goal, Edge[x])
                      ELSE after[a][x] = goal

Small(disp) == \A a \in Atoms, x \in Axes : Abs(disp[a][x]) <= SkipTol

Norm2(v) == v[1] * v[1] + v[2] * v[2] + v[3] * v[3]
UseGaussian(total) ==
  /\ ~Floating
  /\ \A a \in Atoms : Norm2(total[a]) <= GaussMax * GaussMax
KeepBins(total) ==
  /\ Floating
  /\ \A a \in Atoms, x \in Axes : Abs(total[a][x]) < FloatMax
-----------------------------------------------------------------------------
Init ==
  /\ status = "empty"
  /\ driver = Zero /\ cart = Zero
  /\ net = Zero /\ netFloat = Zero

\* A new engine, after close() or an abort of the last one, gets its first
\* request: reinit writes the wrapped coordinates, init() builds the first mesh.
Reinit(pos) ==
  /\ driver' = pos
  /\ net' = Zero /\ netFloat' = Zero
  /\ cart' = Wrap(pos)
  /\ status' = IF ~InCell(Wrap(pos)) THEN "reinit far image"
               ELSE IF ~InsideOpen(Wrap(pos)) THEN "open axis" ELSE "ready"

\* The displacement is too small to matter: DFT-FE keeps its geometry.
Skip(pos) ==
  /\ status = "ready"
  /\ Small(Minus(pos, cart))
  /\ driver' = pos
  /\ UNCHANGED <<status, cart, net, netFloat>>

\* What every update starts with.
Asks(pos) ==
  /\ status = "ready"
  /\ ~Small(Minus(pos, cart))
  /\ driver' = pos

\* The engine holds `after'; the comparison in updateAtomPositions ends the move.
Holds(after, pos) ==
  /\ cart' = after
  /\ status' = IF Agrees(after, cart, Minus(pos, cart)) THEN "ready" ELSE "mismatch"

\* The engine generates a mesh, or new bins, for `after': init() and
\* initNoRemesh(true, ..) check the fractional coordinates unless every axis is open.
Rebuilds(after, pos) ==
  \/ /\ InCell(after)
     /\ Periodic = {} \/ InsideOpen(after)
     /\ Holds(after, pos)
  \/ /\ ~InCell(after)
     /\ cart' = after /\ status' = "outside"
  \/ /\ InCell(after)
     /\ Periodic # {} /\ ~InsideOpen(after)
     /\ cart' = after /\ status' = "open axis"

\* Far from where the mesh was generated: wrap and remesh.
Remesh(pos) == \E disp \in {Fold(Minus(pos, cart))} :
  /\ Asks(pos)
  /\ ~Floating /\ ~UseGaussian(Plus(net, disp))
  /\ Rebuilds(Wrap(Plus(cart, disp)), pos)
  /\ net' = Zero /\ netFloat' = Zero

\* Mutant of GaussianMove: the net displacement is not summed up.
GaussianMoveForgets(pos) == \E disp \in {Fold(Minus(pos, cart))} :
  /\ Asks(pos)
  /\ UseGaussian(Plus(net, disp))
  /\ Holds(Plus(cart, disp), pos)
  /\ net' = disp
  /\ UNCHANGED netFloat

\* Close to where the mesh was generated: the mesh follows the atoms, which
\* are not wrapped.
GaussianMove(pos) == \E disp \in {Fold(Minus(pos, cart))} :
  /\ Asks(pos)
  /\ UseGaussian(Plus(net, disp))
  /\ Holds(Plus(cart, disp), pos)
  /\ net' = Plus(net, disp)
  /\ UNCHANGED netFloat

\* The moved mesh is bad (moveMeshTwoStep): remesh after all.  With a periodic
\* axis the code adds the displacement to atomLocations, already advanced by
\* it, a second time.
FallBackGeometry(disp) ==
  IF Periodic = {} THEN Plus(cart, disp) ELSE Wrap(Plus(Plus(cart, disp), disp))
GaussianFallBack(pos) == \E disp \in {Fold(Minus(pos, cart))} :
  /\ Asks(pos)
  /\ UseGaussian(Plus(net, disp))
  /\ Rebuilds(FallBackGeometry(disp), pos)
  /\ net' = Zero /\ netFloat' = Zero

\* Mutant of FloatingMove: the net displacement is not summed up.
FloatingMoveForgets(pos) == \E disp \in {Fold(Minus(pos, cart))} :
  /\ Asks(pos)
  /\ KeepBins(Plus(netFloat, disp))
  /\ Holds(Plus(cart, disp), pos)
  /\ netFloat' = disp
  /\ UNCHANGED net

\* Floating charges: the mesh stays, and small moves keep the vself bins.
FloatingMove(pos) == \E disp \in {Fold(Minus(pos, cart))} :
  /\ Asks(pos)
  /\ KeepBins(Plus(netFloat, disp))
  /\ Holds(Plus(cart, disp), pos)
  /\ netFloat' = Plus(netFloat, disp)
  /\ UNCHANGED net

FloatingRebin(pos) == \E disp \in {Fold(Minus(pos, cart))} :
  /\ Asks(pos)
  /\ Floating /\ ~KeepBins(Plus(netFloat, disp))
  /\ Rebuilds(Wrap(Plus(cart, disp)), pos)
  /\ netFloat' = Zero
  /\ UNCHANGED net

Update(pos) ==
  \/ Remesh(pos) \/ GaussianMove(pos) \/ GaussianFallBack(pos)
  \/ FloatingMove(pos) \/ FloatingRebin(pos)

Next == \E pos \in Positions : Reinit(pos) \/ Skip(pos) \/ Update(pos)

Spec == Init /\ [][Next]_vars
-----------------------------------------------------------------------------
Statuses ==
  {"empty", "ready", "reinit far image", "open axis", "outside", "mismatch"}

TypeOK ==
  /\ status \in Statuses
  /\ driver \in Coords /\ cart \in Coords
  /\ net \in Coords /\ netFloat \in Coords

\* An engine that answers computed the energy of the geometry it was asked
\* for: modulo lattice vectors along periodic axes, exactly along open ones,
\* and up to the displacement the driver loop ignores.
SameGeometry(p, q, x) ==
  \E e \in -SkipTol..SkipTol :
    IF x \in Periodic THEN Congruent(q, p + e, Edge[x]) ELSE q = p + e
AnswersRequestedGeometry ==
  status = "ready" => \A a \in Atoms, x \in Axes : SameGeometry(driver[a][x], cart[a][x], x)

\* The engine's copy is never further from the geometry its mesh was generated
\* for, which lies in the cell, than the movement it allows without remeshing:
\* the bookkeeping of net displacements stays in step with the atoms.
MeshFollowsAtoms ==
  status = "ready" => \A a \in Atoms, x \in Periodic :
    LET moved == IF Floating THEN netFloat[a][x] ELSE net[a][x] IN
    /\ Abs(moved) <= (IF Floating THEN FloatMax ELSE GaussMax)
    /\ cart[a][x] - moved >= 0
    /\ cart[a][x] - moved <= Edge[x]

\* A trajectory is never aborted because an atom is more than one lattice
\* vector away from the cell: the fold and the net-displacement limit keep
\* what wrapAtomsAcrossPeriodicBc receives within reach of its single shift.
UpdateNeverOutside == status # "outside"

\* A driver's step shorter than half the cell reaches DFT-FE as that step
\* (up to what was skipped before), however many cells apart the two copies
\* have drifted.
StepIsDriversStep(a, x) ==
  LET asked == driver'[a][x] - driver[a][x]
      step == Fold(Minus(driver', cart))[a][x]
  IN 2 * (Abs(asked) + SkipTol) < Edge[x] => Abs(step - asked) <= SkipTol
SmallStepStaysSmall ==
  [][Update(driver') =>
       \A a \in Atoms, x \in Periodic : StepIsDriversStep(a, x)]_vars

\* "It holds by construction of moveAtoms.cc": no branch of the move leaves
\* the atoms anywhere but where they were asked to be (dftfeWrapper.cc).
HoldsByConstruction == status # "mismatch"
=============================================================================
