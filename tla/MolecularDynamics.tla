------------------------- MODULE MolecularDynamics -------------------------
(***************************************************************************)
(* molecularDynamicsClass: Born-Oppenheimer dynamics that writes a         *)
(* directory mdRestart/StepN after every time step and that a later        *)
(* process resumes from.  The physics of a step is one action; every file  *)
(* it writes afterwards is a step of its own, and the process may be       *)
(* killed at any of them.                                                  *)
(***************************************************************************)
EXTENDS RestartFiles

CONSTANTS
    MaxTime,          \* bound: the last time step a run computes
    NumberOfSteps,    \* NUMBER OF STEPS: a run computes one step fewer
    Thermostats,      \* the thermostats to explore
    Folders           \* values of RESTART FOLDER, of which "." is the working directory

\* Files of mdRestart itself; the others are in the directory of their step.
Dat  == <<0, "moleculardynamics.dat">>
Time == <<0, "time.chk">>
NHC  == <<0, "NHCThermostat.chk">>
In(t, name) == <<t, name>>

StepFiles == {"KineticEnergy", "domainBoundingVectors", "atomsCoord", "velocity",
              "StepDisplacement", "UnwrappedFractionalCoordinates", "NHCThermostat",
              "Displacement"}

Files == {Dat, Time, NHC} \cup {In(t, name) : t \in 0..MaxTime, name \in StepFiles}

TypeOK ==
    /\ disk \in [Files -> Contents(MaxTime)]
    /\ phase \in {"off", "running", "done", "crashed", "exited"}
    /\ run \in 0..MaxRuns
    /\ at \in [time : 0..MaxTime, start : 0..MaxTime,
               thermostat : Thermostats, folder : Folders]

Init ==
    /\ disk = [f \in Files |-> Absent]
    /\ todo = <<>> /\ phase = "off" /\ run = 0 /\ mem = {}
    /\ \E th \in Thermostats, fo \in Folders :
          at = [time |-> 0, start |-> 0, thermostat |-> th, folder |-> fo]

NoseHoover == at.thermostat = "NOSE_HOVER_CHAINS"

\* The first process, with RESTART = false.
StartAfresh ==
    /\ phase = "off"
    /\ phase' = "running" /\ run' = run + 1
    /\ at' = [at EXCEPT !.time = 0, !.start = 0]
    /\ mem' = {Whole(0, run')}
    /\ todo' = <<Write(In(0, "Displacement"), Whole(0, run'))>>
    /\ UNCHANGED disk

(***************************************************************************)
(* The files of one time step, in the order of writeRestartFile,           *)
(* writeRestartNHCfile and writeTotalDisplacementFile.  InternalEnergy,    *)
(* TotalEnergy and force are written but never read and are left out.      *)
(***************************************************************************)
Always(t) == <<Write(In(t, "KineticEnergy"), Computed(t))>>
                \o Geometry(In(t, "domainBoundingVectors"), In(t, "atomsCoord"), Computed(t))

\* Mutant of AfterTheFirst: the unwrapped coordinates are not saved.
AfterTheFirstWrapped(t) ==
    IF t > 1 THEN <<Write(In(t, "velocity"), Computed(t)), Write(In(t, "StepDisplacement"), Computed(t)),
                    Write(Time, Whole(t, run))>>
             ELSE <<>>

AfterTheFirst(t) ==
    IF t > 1 THEN <<Write(In(t, "velocity"), Computed(t)), Write(In(t, "StepDisplacement"), Computed(t)),
                    Write(In(t, "UnwrappedFractionalCoordinates"), Computed(t)), Write(Time, Whole(t, run))>>
             ELSE <<>>

\* The thermostat's file goes to ./mdRestart whatever the restart folder is;
\* elsewhere that directory does not exist and nothing is written.
Thermostat(t) == IF NoseHoover /\ at.folder = "."
                    THEN <<Write(NHC, Computed(t)), Copy(NHC, In(t, "NHCThermostat"))>> ELSE <<>>

Displacements(t) == <<Need(In(t - 1, "Displacement")), Write(In(t, "Displacement"), Computed(t))>>

SaveScript(t) ==
    <<Write(Dat, Whole(t, run)), Write(Time, Whole(t, run))>> \o Always(t) \o AfterTheFirst(t)
        \o Thermostat(t) \o Displacements(t)

\* One pass of the loop of mdNVE (and of the thermostats): the step is
\* computed and its files are queued.
TimeStep ==
    /\ phase = "running" /\ todo = <<>>
    /\ at.time + 1 < at.start + NumberOfSteps /\ at.time < MaxTime
    /\ at' = [at EXCEPT !.time = @ + 1]
    /\ mem' = {Computed(at.time + 1)}
    /\ todo' = SaveScript(at.time + 1)
    /\ UNCHANGED <<disk, phase, run>>

\* All steps are done, or the wall time is used up after one of them.
Finish ==
    /\ phase = "running" /\ todo = <<>>
    /\ at.time > at.start
    /\ phase' = "done" /\ mem' = {}
    /\ UNCHANGED <<disk, todo, run, at>>

(***************************************************************************)
(* A process with RESTART = true.                                          *)
(***************************************************************************)
\* checkRestart looks at these files only.
Looked(t) == {In(t, "atomsCoord"), In(t, "velocity")}
             \cup (IF NoseHoover THEN {In(t, "NHCThermostat")} ELSE {})

\* The files the new process then reads.
Resumed(t) == {In(t, "domainBoundingVectors"), In(t, "atomsCoord"), In(t, "velocity"),
               In(t, "StepDisplacement"), In(t, "UnwrappedFractionalCoordinates"),
               In(t, "KineticEnergy")}
              \cup (IF NoseHoover THEN {In(t, "NHCThermostat")} ELSE {})

\* Mutant of checkRestart: the recorded step itself is not looked at.
checkRestartBelow(last) ==
    LET found == {t \in 2..(last - 1) : \A f \in Looked(t) : Exists(f)}
    IN IF found = {} THEN IF last < 1 THEN last ELSE 1
       ELSE CHOOSE t \in found : \A u \in found : u <= t

\* The newest step, from the recorded one down to 2, of which these files can
\* be opened; 1, or the recorded step if that is smaller, when there is none.
checkRestart(last) ==
    LET found == {t \in 2..last : \A f \in Looked(t) : Exists(f)}
    IN IF found = {} THEN IF last < 1 THEN last ELSE 1
       ELSE CHOOSE t \in found : \A u \in found : u <= t

\* A torn time.chk has no first row, a torn checkpoint no row per atom: what
\* the process finds there is undefined, and it may also die of it.
Restart ==
    /\ phase \in {"crashed", "done"} /\ run < MaxRuns
    /\ run' = run + 1
    /\ \/ /\ ~IsWhole(Dat) \/ ~IsWhole(Time)
          /\ Exits
       \/ /\ IsWhole(Dat) /\ IsWhole(Time)
          /\ LET t == checkRestart(disk[Time].step)
             IN \/ /\ t < 2 \/ \E f \in Resumed(t) : disk[f].state # "whole"
                   /\ Exits
                \/ /\ t > 1 /\ \A f \in Resumed(t) : Exists(f)
                   /\ phase' = "running"
                   /\ at' = [at EXCEPT !.time = t, !.start = t]
                   /\ mem' = {disk[f] : f \in Resumed(t)}
                   /\ UNCHANGED <<disk, todo>>

Next == StartAfresh \/ TimeStep \/ FileStep \/ Finish \/ Crash \/ Restart

(***************************************************************************)
(* Properties.                                                             *)
(***************************************************************************)
Intact(t) == \A f \in Resumed(t) : IsWhole(f)

\* The files of mdRestart itself, of which one is moved aside while it is written.
Known == IsWhole(Dat) /\ IsWhole(Time)

\* The step a restart settles on, which it then may or may not be able to resume.
Tried == checkRestart(disk[Time].step)

\* A step that was saved in full stays complete whatever is saved after it, over
\* all processes: none goes back far enough to write it again.
IntactStepsRemain == \A t \in 2..MaxTime : Intact(t) => Intact(t)'

\* No step above the one a restart settles on is complete.
TriesNewest == Known => \A t \in 2..MaxTime : Intact(t) => t <= Tried

\* The step a restart settles on may be incomplete, but then the one before it is
\* complete, unless a process that was resumed from undefined data wrote it.
TriedIsNear ==
    Known /\ Tried > 2 =>
        \/ Intact(Tried) \/ Intact(Tried - 1)
        \/ \E f \in Resumed(Tried) : disk[f].state = "garbage"

\* "----Error opening restart files present in: ... Switching to time: ...": a
\* restart that has a complete step to go back to goes on, and not from a torn file.
\* The code does not do so where the step it settles on is incomplete.
GoesBackToIntact ==
    (/\ phase \in {"crashed", "done"} /\ run' # run /\ Known
     /\ \E t \in 2..disk[Time].step : Intact(t))
    => phase' = "running" /\ Torn \notin mem'
=============================================================================
