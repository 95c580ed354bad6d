------------------------------- MODULE Launch -------------------------------
(***************************************************************************)
(* The dispatch of main.cc: SOLVER MODE decides which driver the process   *)
(* runs, and with it which files a later process finds.  The mode is part  *)
(* of the parameter file and stays the same from one process to the next.  *)
(***************************************************************************)
EXTENDS Integers

CONSTANTS
    SolverModes,                          \* the values of SOLVER MODE to explore
    MaxRuns,                              \* bound: processes
    MaxTime, NumberOfSteps, Thermostats, Folders,     \* molecular dynamics
    MaxUpdates, NumberOfImages,                       \* nudged elastic band
    Modes, MaxCycle, MaxStep, MaxLaterStep, Verbosities,            \* geometry optimisation
    Solvers

\* A process, an image, and bounds on the updates that make sense.
ASSUME LaunchConstantsOK ==
    /\ MaxRuns \in Nat \ {0} /\ NumberOfImages \in Nat \ {0} /\ MaxUpdates \in Nat
    /\ MaxCycle \in Nat /\ MaxStep \in Nat /\ MaxLaterStep \in 0..MaxStep
    /\ MaxTime \in Nat /\ NumberOfSteps \in Nat

VARIABLES solvermode, disk, todo, phase, run, at, mem

vars == <<solvermode, disk, todo, phase, run, at, mem>>

MD  == INSTANCE MolecularDynamics
NEB == INSTANCE NudgedElasticBand WITH MaxStep <- MaxUpdates
GEO == INSTANCE GeometryOptimization

TypeOK ==
    /\ solvermode = "MD" => MD!TypeOK
    /\ solvermode = "NEB" => NEB!TypeOK
    /\ solvermode = "GEOOPT" => GEO!TypeOK

Init ==
    /\ solvermode \in SolverModes
    /\ \/ solvermode = "MD" /\ MD!Init
       \/ solvermode = "NEB" /\ NEB!Init
       \/ solvermode = "GEOOPT" /\ GEO!Init

Next ==
    /\ \/ solvermode = "MD" /\ MD!Next
       \/ solvermode = "NEB" /\ NEB!Next
       \/ solvermode = "GEOOPT" /\ GEO!Next
    /\ UNCHANGED solvermode

\* Rank 0 goes on with its search until it is killed or finds something.
Search == solvermode = "GEOOPT" /\ GEO!Search /\ UNCHANGED solvermode

Spec == Init /\ [][Next]_vars /\ WF_vars(Search)

(***************************************************************************)
(* Properties.                                                             *)
(***************************************************************************)
\* The step molecular dynamics is resumed from is not behind one that was saved in full.
MDTriesNewest == solvermode = "MD" => MD!TriesNewest

\* A step of molecular dynamics that was saved in full stays so, wherever the
\* processes that follow are killed, and no restart settles on an older one.  It may
\* settle on a newer one that is not complete.
MDKeepsWhatIsSaved ==
    [][(solvermode = "MD" => MD!IntactStepsRemain) /\ MDTriesNewest']_vars

\* Molecular dynamics settles on a complete step or on the one after it.
MDTriedIsNear == solvermode = "MD" => MD!TriedIsNear

\* Molecular dynamics goes back to a complete step when the newest is not: what its
\* message says, and the code does not do.
MDGoesBackToIntact == [][solvermode = "MD" => MD!GoesBackToIntact]_vars

\* The elastic band's two records of the step, written by one process, lead to a
\* complete step.
NEBRecordedStepIsIntact == solvermode = "NEB" => NEB!RecordedStepIsIntact

\* The elastic band's two records, whichever processes wrote them, lead to a step
\* that is there, or after two deaths in one save to the one after it, with one solver.
NEBRecordedIsNear == solvermode = "NEB" => NEB!RecordedIsNear

\* The elastic band's records lead to a complete step, and where two processes wrote
\* them to one that has its files or follows one that has.
NEBRecordsLeadBack == NEBRecordedStepIsIntact /\ NEBRecordedIsNear

\* The elastic band goes back to a complete step when the recorded one is not: what
\* its message says, and the code does not do.
NEBGoesBackToIntact == [][solvermode = "NEB" => NEB!GoesBackToIntact]_vars

\* The elastic band loses at most the step being saved.
NEBLosesOneStep == [][solvermode = "NEB" => NEB!LosesOneStep]_vars

\* The geometry optimisation's record of the step names a complete one.
GEORecordedStepIsIntact == solvermode = "GEOOPT" => GEO!RecordedStepIsIntact

\* The geometry optimisation loses at most the step being saved.
GEOLosesOneStep == [][solvermode = "GEOOPT" => GEO!LosesOneStep]_vars

\* Rank 0's search for a geometry ends, so that the other ranks leave the
\* broadcast they wait in: for an optimisation that alternates between stages.
GEOSearchEnds ==
    (solvermode = "GEOOPT" /\ GEO!SearchesStages) ~> phase # "search"

\* A nonlinear solver never loads what another kind of solver saved: "Solver has
\* changed since last save, the newly set solver will start from scratch."
LoadsOwnCheckpoint ==
    /\ solvermode = "NEB" => NEB!LoadsOwnCheckpoint
    /\ solvermode = "GEOOPT" => GEO!LoadsOwnCheckpoint
=============================================================================
