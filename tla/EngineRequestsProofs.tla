------------------------- MODULE EngineRequestsProofs -------------------------
(***************************************************************************)
(* What the numbers handed to the user belong to, for any systems, flags   *)
(* and overrides.                                                          *)
(***************************************************************************)
EXTENDS EngineRequests, TLAPS

Engines ==
  {e \in [system : Held, ionForce : BOOLEAN, stress : BOOLEAN,
          forcesOf : Held \cup {Empty}, stressOf : Held \cup {Never}] :
     /\ ~e.ionForce => e.forcesOf = Empty
     /\ ~e.stress => e.stressOf = Never}

\* The energy is stored first: without it there is nothing else, and with it the
\* forces, if only as an empty array.
OneSystem(r) ==
  /\ r["energy"] \in Held \cup {Missing}
  /\ r["forces"] \in {Empty, r["energy"]} /\ r["stress"] \in {Missing, Never, r["energy"]}
  /\ r["energy"] = Missing => r = NoResults

IInv ==
  /\ atoms \in Systems \cup {NoAtoms}
  /\ results \in [Properties -> Held \cup {Missing, Empty, Never}]
  /\ OneSystem(results)
  /\ results # NoResults => atoms # NoAtoms
  /\ shift = NoShift \/ \E a \in Systems : shift = [cell |-> a.cell, natoms |-> Len(a.numbers)]
  /\ engine \in {NoEngine, DeadEngine} \cup Engines

LEMMA InitIInv == Init => IInv
BY DEF Init, IInv, OneSystem, NoResults, Properties

LEMMA KnownFacts ==
  ASSUME IInv, NEW a \in Systems
  PROVE  /\ Known(a) \in [Properties -> Held \cup {Missing, Empty, Never}]
         /\ OneSystem(Known(a))
BY DEF IInv, Known, OneSystem, NoResults, Properties

LEMMA ShiftFacts ==
  ASSUME IInv, NEW a \in Systems
  PROVE  Shift(a) = NoShift \/ \E b \in Systems : Shift(a) = [cell |-> b.cell, natoms |-> Len(b.numbers)]
BY DEF IInv, Shift

LEMMA ConfiguredFacts ==
  ASSUME NEW a \in Systems, NEW p \in Properties
  PROVE  Configured(a, p) \in Engines
<1>1. a \in Held
  BY SystemsAssumption
<1>2. IonForce(a) \in BOOLEAN /\ CellStress(a, WantsStress(p)) \in BOOLEAN
  <2>1. WantsStress(p) \in BOOLEAN
    BY SettingsAssumption DEF WantsStress
  <2>2. \A name : (<<name, TRUE>> \in Overrides) \in BOOLEAN
    OBVIOUS
  <2>3. \A name, typed : typed \in BOOLEAN => Entry(name, typed) \in BOOLEAN
    BY <2>2, Zenon DEF Entry
  <2>4. QED BY <2>1, <2>3, SettingsAssumption, Zenon DEF IonForce, CellStress
<1>3. QED BY <1>1, <1>2 DEF Configured, Engines

LEMMA MovedFacts ==
  ASSUME NEW a \in Systems, engine \in Engines
  PROVE  /\ Moved(a) \in Engines
         /\ Moved(a).stress = engine.stress
         /\ Moved(a).system = [engine.system EXCEPT !.coords = a.coords]
BY DEF Moved, Engines, Held

LEMMA SolvedFacts ==
  ASSUME NEW e \in Engines, NEW w \in BOOLEAN
  PROVE  /\ Solved(e, w) \in Engines
         /\ Solved(e, w).system = e.system /\ Solved(e, w).stress = e.stress
         /\ ComputeForces => Solved(e, w).forcesOf \in {Empty, e.system}
         /\ w => Solved(e, w).stressOf = IF e.stress THEN e.system ELSE Never
BY SettingsAssumption DEF Solved, Engines

\* What an answer leaves, whichever engine gives it.
LEMMA AnswerFacts ==
  ASSUME IInv, NEW a \in Systems, NEW p \in Properties, NEW e \in Engines,
         Known(a)[p] = Missing, Answer(a, p, e)
  PROVE  /\ engine' \in Engines /\ engine'.system = e.system /\ engine'.stress = e.stress
         /\ results' \in [Properties -> Held \cup {Missing, Empty, Never}]
         /\ results'["energy"] = e.system
         /\ results'["forces"] \in {Empty, e.system}
         /\ results'["stress"] \in {Missing, IF e.stress THEN e.system ELSE Never}
<1> DEFINE w == WantsStress(p)
           s == Solved(e, w)
<1>1. w \in BOOLEAN
  BY SettingsAssumption DEF WantsStress
<1>2. /\ s \in Engines /\ s.system = e.system /\ s.stress = e.stress
      /\ ComputeForces => s.forcesOf \in {Empty, e.system}
      /\ w => s.stressOf = IF e.stress THEN e.system ELSE Never
  BY <1>1, SolvedFacts
<1>3. engine' = s /\ results' = Stored(Known(a), s, w)
  BY DEF Answer
<1>4. ~w => Known(a)["stress"] = Missing
  <2>1. ~w => p \in {"energy", "forces"}
    BY DEF WantsStress, Properties
  <2>2. Known(a)["energy"] = Missing \/ Known(a)["forces"] = Missing => Known(a) = NoResults
    BY KnownFacts, SentinelsAssumption DEF OneSystem
  <2>3. QED BY <2>1, <2>2 DEF NoResults, Properties
<1>5. s.system \in Held /\ e.system \in Held
  BY <1>2 DEF Engines
<1>6. /\ Stored(Known(a), s, w) \in [Properties -> Held \cup {Missing, Empty, Never}]
      /\ Stored(Known(a), s, w)["energy"] = e.system
      /\ Stored(Known(a), s, w)["forces"] \in {Empty, e.system}
      /\ Stored(Known(a), s, w)["stress"] \in {Missing, IF e.stress THEN e.system ELSE Never}
  <2> HIDE DEF s, w
  <2> QED BY <1>2, <1>4, <1>5 DEF Stored, Properties
<1>7. QED BY <1>2, <1>3, <1>6

\* The steps of Next, with what they have in common.
LEMMA StepIInv == IInv /\ [Next]_vars => IInv'
<1> SUFFICES ASSUME IInv, [Next]_vars PROVE IInv'
  OBVIOUS
<1>1. CASE UNCHANGED vars
  BY <1>1 DEF vars, IInv, OneSystem, NoResults
<1>2. ASSUME NEW a \in Systems, NEW p \in Properties, NEW e \in Engines,
             Sends(a, p), Answer(a, p, e)
      PROVE  IInv'
  <2>1. /\ engine' \in Engines
        /\ results' \in [Properties -> Held \cup {Missing, Empty, Never}]
        /\ results'["energy"] = e.system /\ e.system \in Held
        /\ results'["forces"] \in {Empty, e.system}
        /\ results'["stress"] \in {Missing, IF e.stress THEN e.system ELSE Never}
    BY <1>2, AnswerFacts DEF Sends, Engines
  <2>2. OneSystem(results')
    BY <2>1, SentinelsAssumption DEF OneSystem
  <2>3. atoms' = a /\ a # NoAtoms
    BY <1>2, SentinelsAssumption DEF Sends
  <2>4. shift' = Shift(a)
    BY <1>2 DEF Sends
  <2>5. QED BY <2>1, <2>2, <2>3, <2>4, ShiftFacts DEF IInv, OneSystem, NoResults
<1>3. ASSUME NEW a \in Systems, NEW p \in Properties,
             atoms' = a, results' = Known(a), shift' \in {shift, Shift(a)},
             engine' \in {engine, DeadEngine}
      PROVE  IInv'
  <2>1. a # NoAtoms
    BY SentinelsAssumption
  <2>2. QED BY <1>3, <2>1, KnownFacts, ShiftFacts DEF IInv, OneSystem, NoResults
<1>4. CASE Close
  BY <1>4 DEF Close, IInv, OneSystem, NoResults
<1>5. ASSUME NEW a \in Systems, NEW p \in Properties,
             FirstRequest(a, p) \/ NextRequest(a, p) \/ RequestToDead(a, p) \/ Refuse(a, p)
      PROVE  IInv'
  <2>1. CASE FirstRequest(a, p)
    BY <2>1, <1>2, <1>3, ConfiguredFacts DEF FirstRequest, EngineLost, Sends
  <2>2. CASE NextRequest(a, p)
    <3>1. engine \in Engines
      BY <2>2 DEF NextRequest, IInv
    <3>2. QED BY <2>2, <3>1, <1>2, <1>3, MovedFacts DEF NextRequest, EngineLost, Sends
  <2>3. CASE RequestToDead(a, p)
    BY <2>3, <1>3 DEF RequestToDead, Sends
  <2>4. CASE Refuse(a, p)
    BY <2>4, <1>3 DEF Refuse
  <2>5. QED BY <1>5, <2>1, <2>2, <2>3, <2>4
<1>6. QED BY <1>1, <1>4, <1>5 DEF Next

LEMMA Inductive == Spec => []IInv
BY InitIInv, StepIInv, PTL DEF Spec

\* What the calculator and the engine remember keeps its type: the engine's
\* system is always made of parts of systems the user computed.
THEOREM TypeCorrect == Spec => []TypeOK
<1>1. IInv => TypeOK
  <2> SUFFICES ASSUME IInv PROVE TypeOK
    OBVIOUS
  <2>1. \A p \in Properties : results[p] # Missing => atoms # NoAtoms
    BY DEF IInv, NoResults
  <2>2. engine \in Engines =>
          [system |-> engine.system, ionForce |-> engine.ionForce, stress |-> engine.stress]
            \in EngineStates
    BY DEF Engines, EngineStates
  <2>3. QED BY <2>1, <2>2 DEF IInv, TypeOK
<1>2. QED BY <1>1, Inductive, PTL

\* An energy is never paired with forces or stress of another engine system,
\* whatever the flags, the overrides, and the calls that failed in between.
THEOREM TogetherCorrect == Spec => []ResultsBelongTogether
<1>1. IInv => ResultsBelongTogether
  BY DEF IInv, OneSystem, ResultsBelongTogether, Numbers, Properties
<1>2. QED BY <1>1, Inductive, PTL
-----------------------------------------------------------------------------
(***************************************************************************)
(* Cells with an open direction.                                           *)
(***************************************************************************)
AllOpen == \A a \in Systems : a.pbc # "all"

Placed(s, a) ==
  s.coords = a.coords /\ s.cell = a.cell /\ Len(s.numbers) = Len(a.numbers)

\* The frozen offset and the engine agree on the cell and the number of atoms,
\* and so does whatever was computed.
OffsetFits(s) == shift # NoShift /\ s.cell = shift.cell /\ Len(s.numbers) = shift.natoms
ResultsPlaced == \A p \in Properties : results[p] \in Held => Placed(results[p], atoms)
PlacedInv ==
  /\ engine \notin {NoEngine, DeadEngine} => OffsetFits(engine.system)
  /\ atoms # NoAtoms => ResultsPlaced

\* A request leaves with an offset that fits its system.
LEMMA OffsetAfter ==
  ASSUME AllOpen, IInv, NEW a \in Systems, NEW p \in Properties, Sends(a, p)
  PROVE  /\ OffsetFits(a)'
         /\ shift # NoShift => shift.cell = a.cell /\ shift.natoms = Len(a.numbers)
<1>1. shift # NoShift => shift.cell = a.cell /\ shift.natoms = Len(a.numbers)
  BY DEF AllOpen, Sends, Refused
<1>2. CASE shift = NoShift
  BY <1>2, SentinelsAssumption DEF AllOpen, Sends, Shift, OffsetFits
<1>3. CASE shift # NoShift
  BY <1>1, <1>3 DEF Sends, Shift, OffsetFits
<1>4. QED BY <1>1, <1>2, <1>3

LEMMA AnswerPlaced ==
  ASSUME AllOpen, IInv, NEW a \in Systems, NEW p \in Properties, NEW e \in Engines,
         Sends(a, p), Answer(a, p, e), Placed(e.system, a)
  PROVE  PlacedInv'
<1>1. /\ engine'.system = e.system /\ atoms' = a
      /\ results'["energy"] = e.system
      /\ results'["forces"] \in {Empty, e.system}
      /\ results'["stress"] \in {Missing, Never, e.system}
  BY AnswerFacts DEF Sends
<1>2. \A q \in Properties : results'[q] \in Held => results'[q] = e.system
  BY <1>1, SentinelsAssumption DEF Properties
<1>3. ResultsPlaced'
  BY <1>1, <1>2 DEF ResultsPlaced, Placed
<1>4. OffsetFits(engine.system)'
  BY <1>1, OffsetAfter DEF OffsetFits, Placed
<1>5. QED BY <1>3, <1>4 DEF PlacedInv

\* A call that raises keeps results for the same atoms only.
LEMMA KnownPlaced ==
  ASSUME IInv, PlacedInv, NEW a \in Systems, atoms' = a, results' = Known(a)
  PROVE  ResultsPlaced'
BY SentinelsAssumption DEF IInv, PlacedInv, ResultsPlaced, Known, NoResults

LEMMA PlacedStep ==
  ASSUME AllOpen, IInv, PlacedInv, [Next]_vars
  PROVE  PlacedInv'
<1>1. CASE UNCHANGED vars
  BY <1>1 DEF vars, PlacedInv, OffsetFits, ResultsPlaced
<1>2. CASE Close
  BY <1>2 DEF Close, PlacedInv, ResultsPlaced
<1>3. ASSUME NEW a \in Systems, NEW p \in Properties,
             FirstRequest(a, p) \/ NextRequest(a, p) \/ RequestToDead(a, p) \/ Refuse(a, p)
      PROVE  PlacedInv'
  <2>1. CASE Sends(a, p) /\ EngineLost(a)
    BY <2>1, KnownPlaced DEF Sends, EngineLost, PlacedInv
  <2>2. CASE Sends(a, p) /\ Answer(a, p, Configured(a, p))
    <3>1. Placed(Configured(a, p).system, a)
      BY DEF Configured, Placed
    <3>2. QED BY <2>2, <3>1, ConfiguredFacts, AnswerPlaced
  <2>3. CASE Sends(a, p) /\ engine \notin {NoEngine, DeadEngine} /\ Answer(a, p, Moved(a))
    <3>1. engine \in Engines /\ engine.system \in Held
      BY <2>3 DEF IInv, Engines
    <3>2. engine.system.cell = a.cell /\ Len(engine.system.numbers) = Len(a.numbers)
      BY <2>3, OffsetAfter DEF PlacedInv, OffsetFits
    <3>3. Placed(Moved(a).system, a)
      BY <3>1, <3>2, MovedFacts DEF Placed, Held
    <3>4. QED BY <2>3, <3>1, <3>3, MovedFacts, AnswerPlaced
  <2>4. CASE RequestToDead(a, p)
    BY <2>4, KnownPlaced DEF RequestToDead, Sends, PlacedInv
  <2>5. CASE Refuse(a, p)
    BY <2>5, KnownPlaced DEF Refuse, PlacedInv, OffsetFits
  <2>6. QED BY <1>3, <2>1, <2>2, <2>3, <2>4, <2>5 DEF FirstRequest, NextRequest
<1>4. QED BY <1>1, <1>2, <1>3 DEF Next

\* If every system has an open direction, every number was computed for the
\* coordinates, the cell and the number of atoms it is reported with: the check
\* of the frozen offset makes up for an engine that looks at coordinates only,
\* also across restarts and calls that failed.
THEOREM PlacedCorrect == ASSUME AllOpen PROVE Spec => []PlacedAnswersMatch
<1>1. Init => PlacedInv
  BY DEF Init, PlacedInv
<1>2. IInv /\ PlacedInv /\ [Next]_vars => PlacedInv'
  BY PlacedStep
<1>3. IInv /\ PlacedInv => PlacedAnswersMatch
  BY DEF IInv, PlacedInv, ResultsPlaced, PlacedAnswersMatch, Placed, Numbers
<1>4. QED BY <1>1, <1>2, <1>3, Inductive, PTL DEF Spec
-----------------------------------------------------------------------------
(***************************************************************************)
(* Stress.                                                                 *)
(***************************************************************************)
StressOn == <<"CELL STRESS", TRUE>> \in Overrides
StressInv ==
  /\ engine \notin {NoEngine, DeadEngine} => engine.stress = TRUE
  /\ results["stress"] # Never

LEMMA StressAnswer ==
  ASSUME IInv, NEW a \in Systems, NEW p \in Properties, NEW e \in Engines,
         Known(a)[p] = Missing, Answer(a, p, e), e.stress = TRUE
  PROVE  StressInv'
<1>1. engine'.stress = TRUE /\ results'["stress"] \in {Missing, e.system}
  BY AnswerFacts
<1>2. e.system \in Held
  BY DEF Engines
<1>3. QED BY <1>1, <1>2, SentinelsAssumption DEF StressInv

LEMMA StressKept ==
  ASSUME StressInv, NEW a \in Systems, results' = Known(a)
  PROVE  results'["stress"] # Never
BY SentinelsAssumption DEF StressInv, Known, NoResults, Properties

\* socket_interface.cc:841 holds when the overrides configure the stress: the
\* tensor reported was computed by this engine.  (Without them it does not.)
THEOREM ReportedCorrect == ASSUME StressOn PROVE Spec => []OnlyComputedIsReported
<1>1. Init => StressInv
  BY SentinelsAssumption DEF Init, StressInv, NoResults, Properties
<1>2. ASSUME IInv, StressInv, [Next]_vars PROVE StressInv'
  <2>1. CASE UNCHANGED vars \/ Close
    BY <1>2, <2>1 DEF vars, Close, StressInv
  <2>2. ASSUME NEW a \in Systems, NEW p \in Properties,
               FirstRequest(a, p) \/ NextRequest(a, p) \/ RequestToDead(a, p) \/ Refuse(a, p)
        PROVE  StressInv'
    <3>1. CASE Sends(a, p) /\ EngineLost(a)
      BY <1>2, <3>1, StressKept DEF EngineLost, StressInv
    <3>2. CASE Sends(a, p) /\ Answer(a, p, Configured(a, p))
      <4>1. Configured(a, p).stress = TRUE
        BY DEF Configured, CellStress, Entry, StressOn
      <4>2. QED BY <1>2, <3>2, <4>1, ConfiguredFacts, StressAnswer DEF Sends
    <3>3. CASE Sends(a, p) /\ engine \notin {NoEngine, DeadEngine} /\ Answer(a, p, Moved(a))
      <4>1. engine \in Engines /\ engine.stress = TRUE
        BY <1>2, <3>3 DEF IInv, StressInv
      <4>2. QED BY <1>2, <3>3, <4>1, MovedFacts, StressAnswer DEF Sends
    <3>4. CASE RequestToDead(a, p) \/ Refuse(a, p)
      BY <1>2, <3>4, StressKept DEF RequestToDead, Refuse, StressInv
    <3>5. QED BY <2>2, <3>1, <3>2, <3>3, <3>4 DEF FirstRequest, NextRequest
  <2>3. QED BY <1>2, <2>1, <2>2 DEF Next
<1>3. StressInv => OnlyComputedIsReported
  BY DEF StressInv, OnlyComputedIsReported
<1>4. QED BY <1>1, <1>2, <1>3, Inductive, PTL DEF Spec
=============================================================================
