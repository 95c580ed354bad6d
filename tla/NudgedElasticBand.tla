------------------------- MODULE NudgedElasticBand --------------------------
(***************************************************************************)
(* nudgedElasticBandClass: a chain of images relaxed together by one       *)
(* nonlinear solver.  Every update of the chain is saved in StepN, between *)
(* two writes of Step.chk, so that Step.chk.old tells whether the save was *)
(* finished.  The endpoint images and the inner ones are saved alike.      *)
(***************************************************************************)
EXTENDS RestartFiles

CONSTANTS
    MaxStep,     \* bound: the last update of the chain
    NumberOfImages,
    Solvers      \* the values of OPTIMIZATION SOLVER to explore

Dat      == <<<<>>, "nudgedElasticBand.dat">>
StepChk  == <<<<>>, "Step.chk">>
In(n, name)    == <<<<n>>, name>>
Coords(n, i)   == <<<<n, i>>, "atomsCoordCurrent">>
Domain(n, i)   == <<<<n, i>>, "domainBoundingVectorsCurrent">>

Images == 1..NumberOfImages

Files == {Dat, StepChk, Old(StepChk)}
         \cup {In(n, name) : n \in 0..MaxStep, name \in {"maxForce", "ionRelax"}}
         \cup {Coords(n, i) : n \in 0..MaxStep, i \in Images}
         \cup {Domain(n, i) : n \in 0..MaxStep, i \in Images}

TypeOK ==
    /\ disk \in [Files -> Contents(MaxStep)]
    /\ phase \in {"off", "running", "done", "crashed", "exited"}
    /\ at.step \in 0..MaxStep /\ at.loaded \in 0..MaxRuns /\ Len(at.solvers) = run

Init ==
    /\ disk = [f \in Files |-> Absent]
    /\ todo = <<>> /\ phase = "off" /\ run = 0 /\ mem = {}
    /\ at = [step |-> 0, saveFirst |-> FALSE, loaded |-> 0, solvers |-> <<>>]

\* BFGS and LBFGS save before their first step, the conjugate gradients do not.
SavesFirst(solver) == solver # "CGPRP"

\* The two files of every image, one image after the other.
ImageFiles(n) ==
    [k \in 1..2 * NumberOfImages |->
        LET i == (k + 1) \div 2
        IN Geometry(Domain(n, i), Coords(n, i), Computed(n))[2 - (k % 2)]]

\* Mutant of SaveScript: the second write of Step.chk comes before the images.
SaveScriptEarly(n) ==
    <<Write(StepChk, Whole(n, run)), Write(StepChk, Whole(n, run)),
      Write(In(n, "maxForce"), Computed(n))>>
    \o ImageFiles(n) \o <<Write(In(n, "ionRelax"), Computed(n))>>

SaveScript(n) ==
    <<Write(StepChk, Whole(n, run)), Write(In(n, "maxForce"), Computed(n))>>
    \o ImageFiles(n)
    \o <<Write(In(n, "ionRelax"), Computed(n)), Write(StepChk, Whole(n, run))>>

\* The first process: the chain is read from the input, and init writes
\* nudgedElasticBand.dat.
StartAfresh ==
    /\ phase = "off"
    /\ phase' = "running" /\ run' = 1
    /\ \E s \in Solvers :
          at' = [step |-> 0, saveFirst |-> SavesFirst(s), loaded |-> 0, solvers |-> <<s>>]
    /\ mem' = {Whole(0, 1)}
    /\ todo' = <<Write(Dat, Whole(0, 1))>>
    /\ UNCHANGED disk

\* A solver that starts from scratch saves the chain it starts from.
SaveFirst ==
    /\ phase = "running" /\ todo = <<>> /\ at.saveFirst
    /\ at' = [at EXCEPT !.saveFirst = FALSE]
    /\ todo' = SaveScript(at.step)
    /\ UNCHANGED <<disk, phase, run, mem>>

\* update moves every image and solves it, save writes the chain.
Update ==
    /\ phase = "running" /\ todo = <<>> /\ ~at.saveFirst /\ at.step < MaxStep
    /\ at' = [at EXCEPT !.step = @ + 1]
    /\ mem' = {Computed(at.step + 1)}
    /\ todo' = SaveScript(at.step + 1)
    /\ UNCHANGED <<disk, phase, run>>

\* Converged, failed, or out of iterations or of wall time.
Finish ==
    /\ phase = "running" /\ todo = <<>> /\ ~at.saveFirst
    /\ phase' = "done" /\ mem' = {}
    /\ UNCHANGED <<disk, todo, run, at>>

(***************************************************************************)
(* A process with RESTART = true.                                          *)
(***************************************************************************)
Looked(n) == {Coords(n, i) : i \in Images} \cup {Domain(n, i) : i \in Images}

\* Where Step.chk and Step.chk.old differ the save was cut: the old one counts.
recorded == IF disk[Old(StepChk)].step # disk[StepChk].step
            THEN disk[Old(StepChk)].step ELSE disk[StepChk].step

\* Mutant of checkRestart: the recorded step itself is not looked at.
checkRestartBelow(n) ==
    LET found == {s \in 2..(n - 1) : \A f \in Looked(s) : Exists(f)}
    IN IF found = {} THEN IF n < 1 THEN n ELSE 1
       ELSE CHOOSE s \in found : \A u \in found : u <= s

\* The newest step not above n with all files of all images; 1 is not looked at.
checkRestart(n) ==
    LET found == {s \in 2..n : \A f \in Looked(s) : Exists(f)}
    IN IF found = {} THEN IF n < 1 THEN n ELSE 1
       ELSE CHOOSE s \in found : \A u \in found : u <= s

\* The checkpoint of the solver is loaded only if nudgedElasticBand.dat names
\* the solver of this process; the file is written anew in either case.
Restart ==
    /\ phase \in {"crashed", "done"} /\ run < MaxRuns
    /\ run' = run + 1
    /\ \E s \in Solvers :
       LET n      == checkRestart(recorded)
           same   == IsWhole(Dat) /\ at.solvers[disk[Dat].run] = s
           reads  == Looked(n) \cup {In(n, "maxForce")}
                     \cup (IF same THEN {In(n, "ionRelax")} ELSE {})
           known  == \A f \in {Dat, StepChk, Old(StepChk)} : IsWhole(f)
           starts == [at EXCEPT !.solvers = Append(@, s)]
       IN \/ /\ ~known \/ ~Exists(In(recorded, "maxForce")) \/ \E f \in reads : ~IsWhole(f)
             /\ phase' = "exited" /\ mem' = {} /\ at' = starts
             /\ UNCHANGED <<disk, todo>>
          \/ /\ known /\ Exists(In(recorded, "maxForce")) /\ \A f \in reads : Exists(f)
             /\ phase' = "running"
             /\ at' = [starts EXCEPT !.step = n, !.saveFirst = ~same /\ SavesFirst(s),
                                     !.loaded = IF same /\ IsWhole(In(n, "ionRelax"))
                                                THEN disk[In(n, "ionRelax")].run ELSE 0]
             /\ mem' = {disk[f] : f \in reads}
             /\ todo' = <<Write(Dat, Whole(n, run'))>>
             /\ UNCHANGED disk

Next == StartAfresh \/ SaveFirst \/ Update \/ FileStep \/ Finish \/ Crash \/ Restart

(***************************************************************************)
(* Properties.                                                             *)
(***************************************************************************)
Intact(n) == \A f \in Looked(n) \cup {In(n, "maxForce"), In(n, "ionRelax")} : IsComplete(f)

SameSolver == \A r \in 1..run : at.solvers[r] = at.solvers[1]

\* When Step.chk and Step.chk.old were written by the same process, the step a
\* restart takes from them is complete, whatever the solvers of the processes.  Two
\* processes that died in the save of one step can leave both naming that step.
RecordedStepIsIntact ==
    (IsWhole(StepChk) /\ IsWhole(Old(StepChk))
     /\ disk[StepChk].run = disk[Old(StepChk)].run) => Intact(recorded)

HasFiles(n) == \A f \in Looked(n) \cup {In(n, "maxForce"), In(n, "ionRelax")} : Exists(f)

\* Two processes died in the save of one step: each has left its first Step.chk.
TwiceCut ==
    /\ disk[StepChk].step = disk[Old(StepChk)].step
    /\ disk[StepChk].run # disk[Old(StepChk)].run

\* With one solver, whichever processes wrote the two records: the step they lead to
\* has its files, or two processes died in its save, and the step before it has.
RecordedIsNear ==
    (SameSolver /\ IsWhole(StepChk) /\ IsWhole(Old(StepChk)))
    => \/ HasFiles(recorded)
       \/ TwiceCut /\ recorded > 0 /\ HasFiles(recorded - 1)

\* "----Error opening restart files present in: ... Switching to Step No: ...": a
\* restart that has a complete step to go back to goes on, and not from a torn file.
\* After two deaths in one save the code does not do so.
GoesBackToIntact ==
    (/\ phase \in {"crashed", "done"} /\ run' # run
     /\ \A f \in {Dat, StepChk, Old(StepChk)} : IsWhole(f)
     /\ \E n \in 1..recorded : Intact(n))
    => phase' = "running" /\ Torn \notin mem'

\* With one solver throughout, a restart loses at most the step being saved.
LosesOneStep ==
    (SameSolver /\ phase \in {"crashed", "done"} /\ phase' = "running")
    => \A n \in 2..MaxStep : Intact(n) => n <= at'.step + 1

\* The solver is only given a checkpoint that a solver of its own kind wrote.
LoadsOwnCheckpoint ==
    (phase = "running" /\ at.loaded # 0) => at.solvers[at.loaded] = at.solvers[run]
=============================================================================
