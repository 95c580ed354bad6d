------------------------ MODULE GeometryOptimization ------------------------
(***************************************************************************)
(* geometryOptimizationClass with geoOptIon and geoOptCell: ion and cell   *)
(* relaxations in alternating stages, stage 0 the ions and stage 1 the     *)
(* cell, in cycles.  cycle.chk names the cycle, status.chk the stage of a  *)
(* cycle and step.chk the last saved update of a stage; every update has a *)
(* directory of its own.                                                   *)
(***************************************************************************)
EXTENDS RestartFiles

CONSTANTS
    Modes,       \* the values of OPTIMIZATION MODE to explore
    MaxCycle,    \* bound: the loop of runOpt ends after this cycle (100 in the code)
    MaxStep,     \* bound: the last update of a stage of the first cycle
    MaxLaterStep,\* bound: the last update of a stage of a later cycle
    Solvers,     \* the solvers to explore, a restart may choose another
    Verbosities  \* the values of VERBOSITY to explore

Stages == {0, 1}
Dat           == <<<<>>, "geometryOptimization.dat">>
Cycle         == <<<<>>, "cycle.chk">>
Status(c)     == <<<<c>>, "status.chk">>
Opt(c, s)     == <<<<c, s>>, "Opt.dat">>
Step(c, s)    == <<<<c, s>>, "step.chk">>
In(c, s, n, name) == <<<<c, s, n>>, name>>

Checkpoint(s) == {"domainBoundingVectors", "atomsCoord", "Relax"}
                 \cup (IF s = 0 THEN {"maxForce"} ELSE {})

Files == {Dat, Cycle} \cup {Status(c) : c \in 0..MaxCycle}
         \cup {Opt(c, s) : c \in 0..MaxCycle, s \in Stages}
         \cup {Step(c, s) : c \in 0..MaxCycle, s \in Stages}
         \cup UNION {{In(c, s, n, name) : c \in 0..MaxCycle, n \in 0..MaxStep,
                                          name \in Checkpoint(s)} : s \in Stages}

TypeOK ==
    /\ disk \in [Files -> Contents(MaxStep + MaxCycle + 1)]
    /\ phase \in {"off", "running", "search", "done", "crashed", "exited"}
    /\ at.stage \in Stages /\ at.cycle \in -1..MaxCycle + 1
    /\ at.pc \in {"cycle", "ion", "between", "cell", "solve"}
    /\ at.resume \subseteq Stages /\ Len(at.solvers) = run

Init ==
    /\ disk = [f \in Files |-> Absent]
    /\ todo = <<>> /\ phase = "off" /\ run = 0 /\ mem = {}
    /\ \E o \in Modes, v \in Verbosities :
          at = [opt |-> o, verbosity |-> v, cycle |-> 0, stage |-> 0, step |-> 0,
                probe |-> -2, pc |-> "cycle", resume |-> {}, saveFirst |-> FALSE,
                loaded |-> 0, solvers |-> <<>>]

StartAfresh ==
    /\ phase = "off"
    /\ phase' = "running" /\ run' = 1 /\ mem' = {Whole(0, 1)}
    /\ \E s \in Solvers :
          at' = [at EXCEPT !.stage = IF at.opt = "CELL" THEN 1 ELSE 0, !.solvers = <<s>>]
    /\ todo' = <<Write(Dat, Whole(0, 1))>>
    /\ UNCHANGED disk

Idle == phase = "running" /\ todo = <<>>

(***************************************************************************)
(* The loop of runOpt.                                                     *)
(***************************************************************************)
BeginCycle ==
    /\ Idle /\ at.pc = "cycle" /\ at.cycle <= MaxCycle
    /\ at' = [at EXCEPT !.pc = IF at.stage = 0 THEN "ion" ELSE "between"]
    /\ todo' = <<Write(Cycle, Whole(at.cycle, run)),
                 Write(Status(at.cycle), Whole(at.stage, run))>>
    /\ UNCHANGED <<disk, phase, run, mem>>

\* status.chk is written again before the cell relaxation.
BetweenStages ==
    /\ Idle /\ at.pc = "between"
    /\ at' = [at EXCEPT !.pc = "cell"]
    /\ todo' = <<Write(Status(at.cycle), Whole(at.stage, run))>>
    /\ UNCHANGED <<disk, phase, run, mem>>

SavesFirst(solver) == solver # "CGPRP"

\* init of a stage that starts: the counter is reset and Opt.dat names the solver.
StartStage ==
    /\ Idle /\ at.pc \in {"ion", "cell"} /\ at.stage \notin at.resume
    /\ at' = [at EXCEPT !.pc = "solve", !.step = 0, !.loaded = 0,
                        !.saveFirst = SavesFirst(at.solvers[run])]
    /\ todo' = <<Write(Opt(at.cycle, at.stage), Whole(0, run))>>
    /\ UNCHANGED <<disk, phase, run, mem>>

\* init of a stage that is resumed: the checkpoint of the solver is loaded if
\* Opt.dat names this solver.  Opt.dat is left as it is.
ResumeStage ==
    /\ Idle /\ at.pc \in {"ion", "cell"} /\ at.stage \in at.resume
    /\ LET opt   == Opt(at.cycle, at.stage)
           step  == Step(at.cycle, at.stage)
           n     == disk[step].step
           same  == IsWhole(opt) /\ at.solvers[disk[opt].run] = at.solvers[run]
           reads == {In(at.cycle, at.stage, n, name) : name \in
                        (IF at.stage = 0 THEN {"maxForce"} ELSE {})
                        \cup (IF same THEN {"Relax"} ELSE {})}
       IN \/ /\ ~IsWhole(opt) \/ ~IsWhole(step) \/ \E f \in reads : ~IsWhole(f)
             /\ Exits /\ UNCHANGED run
          \/ /\ IsWhole(opt) /\ IsWhole(step) /\ \A f \in reads : Exists(f)
             /\ at' = [at EXCEPT !.pc = "solve", !.step = n, !.resume = {},
                          !.saveFirst = ~same /\ SavesFirst(at.solvers[run]),
                          !.loaded = IF same THEN disk[In(at.cycle, at.stage, n, "Relax")].run
                                     ELSE 0]
             /\ mem' = mem \cup {disk[f] : f \in reads}
             /\ UNCHANGED <<disk, todo, phase, run>>

(***************************************************************************)
(* save of geoOptIon and geoOptCell: the directory of the step, then       *)
(* step.chk.                                                               *)
(***************************************************************************)
\* Mutant of SaveScript: step.chk is written before the files it stands for.
SaveScriptStepFirst(c, s, n) ==
    <<Write(Step(c, s), Whole(n, run))>>
    \o (IF s = 0 THEN <<Write(In(c, s, n, "maxForce"), Computed(n))>> ELSE <<>>)
    \o Geometry(In(c, s, n, "domainBoundingVectors"), In(c, s, n, "atomsCoord"), Computed(n))
    \o <<Write(In(c, s, n, "Relax"), Computed(n))>>

SaveScript(c, s, n) ==
    (IF s = 0 THEN <<Write(In(c, s, n, "maxForce"), Computed(n))>> ELSE <<>>)
    \o Geometry(In(c, s, n, "domainBoundingVectors"), In(c, s, n, "atomsCoord"), Computed(n))
    \o <<Write(In(c, s, n, "Relax"), Computed(n)), Write(Step(c, s), Whole(n, run))>>

SaveFirst ==
    /\ Idle /\ at.pc = "solve" /\ at.saveFirst
    /\ at' = [at EXCEPT !.saveFirst = FALSE]
    /\ todo' = SaveScript(at.cycle, at.stage, at.step)
    /\ UNCHANGED <<disk, phase, run, mem>>

Update ==
    /\ Idle /\ at.pc = "solve" /\ ~at.saveFirst
    /\ at.step < IF at.cycle = 0 THEN MaxStep ELSE MaxLaterStep
    /\ at' = [at EXCEPT !.step = @ + 1]
    /\ mem' = {Computed(at.step + 1)}
    /\ todo' = SaveScript(at.cycle, at.stage, at.step + 1)
    /\ UNCHANGED <<disk, phase, run>>

\* run returns the number of updates, -1 after a failure and -2 after too many
\* iterations; no update at all ends the alternation, for the ions only after
\* the first cycle.
StageEnds ==
    /\ Idle /\ at.pc = "solve" /\ ~at.saveFirst
    /\ \E status \in {at.step, -1, -2} :
          LET last == \/ at.opt # "IONCELL"
                      \/ status = 0 /\ (at.stage = 1 \/ at.cycle # 0)
          IN /\ phase' = IF last THEN "done" ELSE "running"
             /\ at' = IF last THEN at
                      ELSE IF at.stage = 0 THEN [at EXCEPT !.stage = 1, !.pc = "between"]
                      ELSE [at EXCEPT !.stage = 0, !.cycle = @ + 1, !.pc = "cycle"]
             /\ mem' = IF last THEN {} ELSE mem
    /\ UNCHANGED <<disk, todo, run>>

\* The loop of runOpt has no cycle left.
OutOfCycles ==
    /\ Idle /\ at.pc = "cycle" /\ at.cycle > MaxCycle
    /\ phase' = "done" /\ mem' = {}
    /\ UNCHANGED <<disk, todo, run, at>>

(***************************************************************************)
(* A process with RESTART = true: rank 0 searches for the newest geometry, *)
(* the others wait for what it broadcasts.                                 *)
(***************************************************************************)
Restart ==
    /\ phase \in {"crashed", "done"} /\ run < MaxRuns
    /\ run' = run + 1
    /\ \E s \in Solvers :
       LET c      == disk[Cycle].step
           starts == [at EXCEPT !.solvers = Append(@, s), !.probe = -2, !.resume = {}, !.loaded = 0]
       IN \/ /\ ~(IsWhole(Dat) /\ IsWhole(Cycle) /\ IsWhole(Status(c)))
             /\ phase' = "exited" /\ at' = starts
          \/ /\ IsWhole(Dat) /\ IsWhole(Cycle) /\ IsWhole(Status(c))
             /\ phase' = "search"
             /\ at' = [starts EXCEPT !.cycle = c, !.stage = disk[Status(c)].step]
    /\ mem' = {}
    /\ UNCHANGED <<disk, todo>>

\* Mutant of SearchStage: the search starts below the recorded step.
SearchStageBelow ==
    /\ phase = "search" /\ at.probe = -2 /\ at.cycle >= 0
    /\ IsWhole(Step(at.cycle, at.stage))
    /\ at' = [at EXCEPT !.probe = disk[Step(at.cycle, at.stage)].step - 1]
    /\ UNCHANGED <<disk, todo, phase, mem, run>>

\* step.chk of the stage says where to look first.
SearchStage ==
    /\ phase = "search" /\ at.probe = -2 /\ at.cycle >= 0
    /\ \/ /\ ~IsWhole(Step(at.cycle, at.stage))
          /\ Exits
       \/ /\ IsWhole(Step(at.cycle, at.stage))
          /\ at' = [at EXCEPT !.probe = disk[Step(at.cycle, at.stage)].step]
          /\ UNCHANGED <<disk, todo, phase, mem>>
    /\ UNCHANGED run

Looked(c, s, n) == {In(c, s, n, "atomsCoord"), In(c, s, n, "domainBoundingVectors")}

\* The geometry is there: step.chk is made to name it.  Coordinates that were
\* cut are undefined data, or do not match NATOMS and end the process.
SearchFinds ==
    /\ phase = "search" /\ at.probe >= 0
    /\ \A f \in Looked(at.cycle, at.stage, at.probe) : Exists(f)
    /\ \/ /\ phase' = "running"
          /\ at' = [at EXCEPT !.pc = "cycle", !.resume = {at.stage}]
          /\ mem' = {disk[f] : f \in Looked(at.cycle, at.stage, at.probe)}
          /\ todo' = <<Write(Step(at.cycle, at.stage), Whole(at.probe, run))>>
          /\ UNCHANGED disk
       \/ /\ \E f \in Looked(at.cycle, at.stage, at.probe) : disk[f] = Torn
          /\ Exits
    /\ UNCHANGED run

\* Mutant of SearchEarlierStep: the message needs a VERBOSITY above 1.
SearchEarlierStepSilent ==
    /\ phase = "search" /\ at.probe >= 0
    /\ \E f \in Looked(at.cycle, at.stage, at.probe) : ~Exists(f)
    /\ at' = IF at.verbosity > 1 THEN [at EXCEPT !.probe = @ - 1] ELSE at
    /\ UNCHANGED <<disk, todo, phase, run, mem>>

\* The step is decremented inside the message about it, which is not evaluated
\* when VERBOSITY is 0 or less.
SearchEarlierStep ==
    /\ phase = "search" /\ at.probe >= 0
    /\ \E f \in Looked(at.cycle, at.stage, at.probe) : ~Exists(f)
    /\ at' = IF at.verbosity > 0 THEN [at EXCEPT !.probe = @ - 1] ELSE at
    /\ UNCHANGED <<disk, todo, phase, run, mem>>

\* Mutant of SearchEarlierStage: the stage is counted up, not switched.
SearchEarlierStageCounts ==
    /\ phase = "search" /\ at.probe = -1
    /\ at' = IF at.opt = "IONCELL" THEN [at EXCEPT !.probe = -2, !.stage = @ + 1]
             ELSE [at EXCEPT !.probe = -2]
    /\ UNCHANGED <<disk, todo, phase, run, mem>>

\* No step of the stage is left.  Only an alternating optimisation has an earlier
\* stage to go to; the others start over with the same stage.
SearchEarlierStage ==
    /\ phase = "search" /\ at.probe = -1
    /\ at' = IF at.opt = "IONCELL"
             THEN [at EXCEPT !.probe = -2, !.stage = 1 - at.stage,
                             !.cycle = IF at.stage = 0 THEN @ - 1 ELSE @]
             ELSE [at EXCEPT !.probe = -2]
    /\ UNCHANGED <<disk, todo, phase, run, mem>>

\* "Unable to find restart files."
SearchFails ==
    /\ phase = "search" /\ at.cycle < 0
    /\ Exits /\ UNCHANGED run

Search == SearchStage \/ SearchFinds \/ SearchEarlierStep \/ SearchEarlierStage \/ SearchFails

Next == \/ StartAfresh \/ BeginCycle \/ StartStage \/ ResumeStage \/ BetweenStages
        \/ SaveFirst \/ Update \/ StageEnds \/ OutOfCycles
        \/ FileStep \/ Crash \/ Restart \/ Search

(***************************************************************************)
(* Properties.                                                             *)
(***************************************************************************)
Intact(c, s, n) == \A name \in Checkpoint(s) : IsComplete(In(c, s, n, name))

SameSolver == \A r \in 1..run : at.solvers[r] = at.solvers[1]

\* With one solver throughout: wherever the process dies, the step that a step.chk
\* names is complete.
RecordedStepIsIntact ==
    SameSolver => \A c \in 0..MaxCycle, s \in Stages :
        IsWhole(Step(c, s)) => Intact(c, s, disk[Step(c, s)].step)

\* With one solver throughout: a search that ends in a geometry loses at most the
\* step that was being saved, and no later stage or cycle has a complete step.
LosesOneStep ==
    (SameSolver /\ phase = "search" /\ phase' = "running")
    => \A c \in 0..MaxCycle, s \in Stages, n \in 0..MaxStep : Intact(c, s, n) =>
            \/ 2 * c + s < 2 * at.cycle + at.stage
            \/ c = at.cycle /\ s = at.stage /\ n <= at.probe + 1

\* A search that has earlier stages to go to.
SearchesStages == phase = "search" /\ at.opt = "IONCELL"

\* The solver is only given a checkpoint that a solver of its own kind wrote.
LoadsOwnCheckpoint ==
    (phase = "running" /\ at.loaded # 0) => at.solvers[at.loaded] = at.solvers[run]
=============================================================================
