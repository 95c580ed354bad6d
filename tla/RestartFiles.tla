---------------------------- MODULE RestartFiles ----------------------------
(***************************************************************************)
(* The checkpoint files of a long run and the process that writes them.    *)
(* Every driver of the program (molecular dynamics, nudged elastic band,   *)
(* geometry optimisation) saves its state by dftUtils::writeDataIntoFile,  *)
(* one file after the other, and a later process reads them back.  A file  *)
(* is a name in one flat directory tree; its content is the step and the   *)
(* process (the run) that computed it.                                     *)
(***************************************************************************)
EXTENDS Integers, Sequences

CONSTANT MaxRuns    \* bound: the number of processes started one after the other

VARIABLES
    disk,     \* what each file holds; it outlives the process
    todo,     \* the file operations the process is still to make, in order
    phase,    \* "off", "running", "search", "done", "crashed" or "exited"
    run,      \* the number of the process, 0 before the first
    at,       \* the driver's own counters
    mem       \* the contents of which the state in memory is made

fileVars == <<disk, todo, phase, run, at, mem>>

Absent        == [state |-> "absent", step |-> 0, run |-> 0]
\* Opened for writing by a process that died before it closed the file.
Torn          == [state |-> "torn", step |-> 0, run |-> 0]
\* Written in full by a process that had read a torn file: undefined data.
Garbage       == [state |-> "garbage", step |-> 0, run |-> 0]
Whole(s, r)   == [state |-> "whole", step |-> s, run |-> r]

\* The contents with numbers up to n.
Contents(n)   == [state : {"absent", "torn", "garbage", "whole"}, step : 0..n, run : 0..MaxRuns]

Exists(f)     == disk[f] # Absent
IsWhole(f)    == disk[f].state = "whole"
IsComplete(f) == disk[f].state \in {"whole", "garbage"}

(***************************************************************************)
(* File operations.  A "write" is writeDataIntoFile, a "need" a readFile   *)
(* whose data is used at once, a "copy" the cp of copyFile.                *)
(***************************************************************************)
Write(f, v)   == [do |-> "write", file |-> f, from |-> f, value |-> v]
Need(f)       == [do |-> "need",  file |-> f, from |-> f, value |-> Absent]
Copy(g, f)    == [do |-> "copy",  file |-> f, from |-> g, value |-> Absent]

\* writeDomainAndAtomCoordinates: the cell first, then the atoms.
Geometry(domain, coords, v) == <<Write(domain, v), Write(coords, v)>>

\* The name an existing file is moved to before it is written again; the
\* drivers read one such file only, so only that one is kept.
Old(f) == <<f[1], f[2], "old">>

\* An existing file is moved to its .old name first; then the new one is
\* created, filled and closed.
WriteFile(o) ==
    /\ IF Exists(o.file)
       THEN /\ disk' = [f \in DOMAIN disk |-> CASE f = o.file -> Absent
                                                [] f = Old(o.file) -> disk[o.file]
                                                [] OTHER -> disk[f]]
            /\ UNCHANGED todo
       ELSE /\ disk' = [disk EXCEPT ![o.file] = o.value]
            /\ todo' = Tail(todo)
    /\ UNCHANGED phase

\* A file that cannot be opened ends the process.
ReadFile(o) ==
    /\ IF Exists(o.file)
       THEN todo' = Tail(todo) /\ UNCHANGED phase
       ELSE todo' = <<>> /\ phase' = "exited"
    /\ UNCHANGED disk

\* A copy that fails is reported and ignored.
CopyFile(o) ==
    /\ disk' = IF Exists(o.from) THEN [disk EXCEPT ![o.file] = disk[o.from]] ELSE disk
    /\ todo' = Tail(todo)
    /\ UNCHANGED phase

FileStep ==
    /\ phase = "running" /\ todo # <<>>
    /\ LET o == Head(todo)
       IN \/ o.do = "write" /\ WriteFile(o)
          \/ o.do = "need"  /\ ReadFile(o)
          \/ o.do = "copy"  /\ CopyFile(o)
    /\ UNCHANGED <<run, at, mem>>

\* What the process computes from the data it has in memory.
Computed(s) == IF mem \cap {Torn, Garbage} # {} THEN Garbage ELSE Whole(s, run)

\* The new process cannot go on: a file is missing or its data is unusable.
Exits ==
    /\ phase' = "exited" /\ mem' = {}
    /\ UNCHANGED <<disk, todo, at>>

\* The process is killed, between two file operations or inside a write.
Crash ==
    /\ phase \in {"running", "search"}
    /\ \/ UNCHANGED disk
       \/ /\ todo # <<>>
          /\ \/ Head(todo).do = "write" /\ ~Exists(Head(todo).file)
             \/ Head(todo).do = "copy" /\ Exists(Head(todo).from)
          /\ disk' = [disk EXCEPT ![Head(todo).file] = Torn]
    /\ phase' = "crashed" /\ todo' = <<>> /\ mem' = {}
    /\ UNCHANGED <<run, at>>
=============================================================================
