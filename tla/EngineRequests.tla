--------------------------- MODULE EngineRequests ---------------------------
(***************************************************************************)
(* What one calculator and its engine remember between calculations, and   *)
(* what the numbers handed to the user were computed for.                  *)
(*                                                                         *)
(* The calculator (calculator.py) keeps the results of its last atoms and  *)
(* the rigid offset of a cell with an open direction.  The engine          *)
(* (socketDriver::run with dftfeWrapper) is configured by the FIRST        *)
(* request and afterwards adopts new coordinates only.  One action is one  *)
(* call of the user; the messages of a call are the subject of             *)
(* SocketSession, the arithmetic of the coordinates that of AtomPositions. *)
(***************************************************************************)
EXTENDS Naturals, Sequences

CONSTANTS
  Systems,        \* atoms the user computes: [coords, cell, numbers, pbc]
  ComputeForces,  \* constructor argument compute_forces
  ComputeStress,  \* constructor argument compute_stress
  Overrides,      \* pairs <<entry, value>> of prm_overrides
  Missing,        \* no such key in calculator.results
  Empty,          \* an array without elements
  Never,          \* a tensor no calculation has written
  NoAtoms, NoShift, NoEngine, DeadEngine

Properties == {"energy", "forces", "stress"}
Periodicity == {"all", "some", "none"}

\* What an engine may hold: a system with the coordinates of another one.
Held ==
  [coords : {a.coords : a \in Systems}, cell : {a.cell : a \in Systems},
   numbers : {a.numbers : a \in Systems}, pbc : Periodicity]

ASSUME SystemsAssumption ==
  /\ Systems \subseteq Held
  /\ \A a \in Systems : a.pbc \in Periodicity /\ a.numbers \in Seq(STRING)
ASSUME SentinelsAssumption ==
  /\ NoAtoms \notin Systems
  /\ \A a \in Systems : [cell |-> a.cell, natoms |-> Len(a.numbers)] # NoShift
  /\ {Missing, Empty, Never} \cap Held = {}
  /\ Missing # Empty /\ Missing # Never /\ Empty # Never
ASSUME SettingsAssumption ==
  /\ ComputeForces \in BOOLEAN /\ ComputeStress \in BOOLEAN
  /\ Overrides \subseteq {"ION FORCE", "CELL STRESS"} \X BOOLEAN

VARIABLES
  atoms,    \* Calculator.atoms: the copy taken by the last calculate()
  results,  \* Calculator.results: the system each number was computed for
  shift,    \* _open_shift_cell and _open_shift_natoms, once an offset is frozen
  engine    \* the engine's configuration, or none, or an engine that is dead

vars == <<atoms, results, shift, engine>>

NoResults == [p \in Properties |-> Missing]

Init ==
  /\ atoms = NoAtoms
  /\ results = NoResults
  /\ shift = NoShift
  /\ engine = NoEngine

-----------------------------------------------------------------------------
(* The calculator: what it asks for, and whether it refuses.               *)

WantsStress(p) == ComputeStress \/ p = "stress"

\* get_property: results survive only while the atoms are the same.
Known(a) == IF a = atoms THEN results ELSE NoResults

\* Mutant of Refused: only the number of atoms is compared.
RefusedForCount(a) ==
  /\ a.pbc # "all"
  /\ shift # NoShift
  /\ shift.natoms # Len(a.numbers)

\* _placed_coords raises for a frozen offset whose cell or atom count changed.
Refused(a) ==
  /\ a.pbc # "all"
  /\ shift # NoShift
  /\ shift.cell # a.cell \/ shift.natoms # Len(a.numbers)

\* Mutant of Shift: the number of coordinates for the number of atoms.
ShiftCountsCoordinates(a) ==
  IF a.pbc = "all" \/ shift # NoShift THEN shift
  ELSE [cell |-> a.cell, natoms |-> 3 * Len(a.numbers)]

\* The offset is derived once, for the first cell with an open direction.
Shift(a) ==
  IF a.pbc = "all" \/ shift # NoShift THEN shift
  ELSE [cell |-> a.cell, natoms |-> Len(a.numbers)]

-----------------------------------------------------------------------------
(* The engine.                                                             *)

\* applyPrm: the overrides come last and win over the typed entry.
Entry(name, typed) ==
  IF \E b \in BOOLEAN : <<name, b>> \in Overrides
  THEN <<name, TRUE>> \in Overrides ELSE typed

\* reinit writes "CELL STRESS false" for a cell open in every direction, and
\* then the requested value over it.
CellStress(a, wanted) == Entry("CELL STRESS", wanted)
IonForce(a) == Entry("ION FORCE", ComputeForces)

\* reinit: the engine holds the system and the flags of the first request.
Configured(a, p) ==
  [system   |-> a,
   ionForce |-> IonForce(a),
   stress   |-> CellStress(a, WantsStress(p)),
   forcesOf |-> Empty,      \* d_forceVector
   stressOf |-> Never]      \* d_stressTensor

\* Later requests: coordinates only; cell, numbers and pbc are not looked at.
Moved(a) == [engine EXCEPT !.system.coords = a.coords]

\* Mutant of Solved: the force vector is filled when it is empty only.
SolvedOnce(e, wanted) ==
  [e EXCEPT
     !.forcesOf = IF e.ionForce /\ ComputeForces /\ @ = Empty THEN e.system ELSE @,
     !.stressOf = IF e.stress /\ wanted THEN e.system ELSE @]

\* solve: forces and stress are computed if asked for AND configured.
Solved(e, wanted) ==
  [e EXCEPT
     !.forcesOf = IF e.ionForce /\ ComputeForces THEN e.system ELSE @,
     !.stressOf = IF e.stress /\ wanted THEN e.system ELSE @]

\* getForcesAtoms and getCellStress go through d_configForcePtr, which exists
\* only if either was configured.
NullDereference(e, wanted) ==
  ~(e.ionForce \/ e.stress) /\ (ComputeForces \/ wanted)

-----------------------------------------------------------------------------
(* One call of Calculator.get_property(p, a) that has to calculate.        *)

\* What the calculator stores of an answer: the reply always has a "forces"
\* array, without elements when none were fetched.
Stored(old, e, wanted) ==
  [energy |-> e.system,
   forces |-> IF ComputeForces THEN e.forcesOf ELSE Empty,
   stress |-> IF wanted THEN e.stressOf ELSE old.stress]

Answer(a, p, e) ==
  LET s == Solved(e, WantsStress(p)) IN
  /\ ~NullDereference(s, WantsStress(p))
  /\ engine' = s
  /\ results' = Stored(Known(a), s, WantsStress(p))

\* The engine leaves or dies during the call, and the call raises.
EngineLost(a) ==
  /\ engine' = DeadEngine
  /\ results' = Known(a)

\* calculate() gets as far as sending the request.
Sends(a, p) ==
  /\ Known(a)[p] = Missing
  /\ ~Refused(a)
  /\ atoms' = a
  /\ shift' = Shift(a)

FirstRequest(a, p) ==
  /\ engine = NoEngine
  /\ Sends(a, p)
  /\ \/ Answer(a, p, Configured(a, p))
     \/ EngineLost(a)    \* an assertion of reinit or solve, or a null pointer

NextRequest(a, p) ==
  /\ engine \notin {NoEngine, DeadEngine}
  /\ Sends(a, p)
  /\ \/ /\ Len(a.numbers) = Len(engine.system.numbers)
        /\ Answer(a, p, Moved(a))
     \/ EngineLost(a)    \* "Atom count mismatch!", an assertion, a null pointer

\* The driver finds the process exited and raises.
RequestToDead(a, p) ==
  /\ engine = DeadEngine
  /\ Sends(a, p)
  /\ results' = Known(a)
  /\ UNCHANGED engine

\* calculate() raises before anything is sent: a stale offset, or atoms that
\* do not fit between the faces of an open direction (data not modelled).
Refuse(a, p) ==
  /\ Known(a)[p] = Missing
  /\ a.pbc # "all"
  /\ atoms' = a
  /\ results' = Known(a)
  /\ UNCHANGED <<shift, engine>>

\* Calculator.close(): the next calculation starts a new engine; the offset
\* stays frozen.
Close ==
  /\ engine # NoEngine
  /\ engine' = NoEngine
  /\ UNCHANGED <<atoms, results, shift>>

Next ==
  \/ \E a \in Systems, p \in Properties :
       \/ FirstRequest(a, p) \/ NextRequest(a, p)
       \/ RequestToDead(a, p) \/ Refuse(a, p)
  \/ Close

Spec == Init /\ [][Next]_vars

-----------------------------------------------------------------------------
(* Properties.                                                             *)

Numbers(p) == results[p] \notin {Missing, Empty, Never}

EngineStates == [system : Held, ionForce : BOOLEAN, stress : BOOLEAN]

TypeOK ==
  /\ atoms \in Systems \cup {NoAtoms}
  /\ \A p \in Properties : results[p] # Missing => atoms # NoAtoms
  /\ shift = NoShift \/ \E a \in Systems : shift = [cell |-> a.cell, natoms |-> Len(a.numbers)]
  /\ engine \in {NoEngine, DeadEngine} \/
       [system |-> engine.system, ionForce |-> engine.ionForce, stress |-> engine.stress]
         \in EngineStates

\* With an open direction every number the calculator holds was computed for
\* the coordinates, the cell and the number of atoms of its atoms: the engine
\* would keep an old cell silently, so _placed_coords has to refuse.
PlacedAnswersMatch ==
  atoms # NoAtoms /\ atoms.pbc # "all" =>
    \A p \in Properties : Numbers(p) =>
      /\ results[p].coords = atoms.coords
      /\ results[p].cell = atoms.cell
      /\ Len(results[p].numbers) = Len(atoms.numbers)

\* All numbers the calculator holds side by side belong to one and the same
\* engine system: an energy is never paired with older forces or stress.
ResultsBelongTogether ==
  \A p, q \in Properties : Numbers(p) /\ Numbers(q) => results[p] = results[q]

\* socket_interface.cc:841: "Only fetch what was actually computed."
OnlyComputedIsReported == results["stress"] # Never

=============================================================================
