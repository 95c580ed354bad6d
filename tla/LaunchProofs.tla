----------------------------- MODULE LaunchProofs -----------------------------
(***************************************************************************)
(* What holds of the geometry optimisation, of the elastic band and of the *)
(* dynamics, their files and their restarts for every number of cycles,    *)
(* steps, images and processes, wherever they are killed.                  *)
(*                                                                         *)
(* GeoInv follows step.chk, status.chk and cycle.chk through a save, a     *)
(* change of stage or of cycle, and a search.  Its types, its records and  *)
(* its queue hold of any solvers; that a recorded step is intact, that no  *)
(* later stage was begun, and where the process stands relative to its     *)
(* records (GeoSafe) while the processes use one solver.  NebInv follows   *)
(* Step.chk and its old file through the two writes of a save; MdInv rests *)
(* on the file that completes a time step, the last that is written of     *)
(* those a restart reads.                                                  *)
(***************************************************************************)
EXTENDS Launch, Sequences, SequenceTheorems, NaturalsInduction, WellFoundedInduction, TLAPS
-----------------------------------------------------------------------------
(***************************************************************************)
(* Geometry optimisation: the invariant.                                   *)
(***************************************************************************)
GeoContents == GEO!Contents(MaxStep + MaxCycle + 1)
GeoOps == [do : {"write"}, file : GEO!Files, from : GEO!Files, value : GeoContents]

GeoAt == [opt : Modes, verbosity : Verbosities, cycle : -1..MaxCycle + 1, stage : {0, 1},
          step : 0..MaxStep, probe : -2..MaxStep, pc : {"cycle", "ion", "between", "cell", "solve"},
          resume : SUBSET {0, 1}, saveFirst : BOOLEAN, loaded : 0..MaxRuns, solvers : Seq(Solvers)]

GeoTypes ==
  /\ disk \in [GEO!Files -> GeoContents]
  /\ phase \in {"off", "running", "search", "done", "crashed", "exited"}
  /\ run \in 0..MaxRuns /\ (run = 0 => phase = "off")
  /\ at \in GeoAt /\ Len(at.solvers) = run
  /\ todo \in Seq(GeoOps) /\ (phase # "running" => todo = <<>>)
  /\ phase = "running" => at.cycle >= 0 /\ (at.pc # "cycle" => at.cycle <= MaxCycle)
  /\ phase = "search" => at.cycle <= MaxCycle /\ (at.probe # -2 => at.cycle >= 0)

\* What the records on disk may name.
GeoRecords ==
  /\ GEO!IsWhole(GEO!Cycle) => disk[GEO!Cycle].step \in 0..MaxCycle
  /\ \A c \in 0..MaxCycle : GEO!IsWhole(GEO!Status(c)) => disk[GEO!Status(c)].step \in {0, 1}
  /\ \A c \in 0..MaxCycle, s \in {0, 1} :
       /\ GEO!IsWhole(GEO!Step(c, s)) => disk[GEO!Step(c, s)].step \in 0..MaxStep
       /\ GEO!IsWhole(GEO!Opt(c, s)) => disk[GEO!Opt(c, s)].run \in 1..run

\* The files of a step.
GeoFile(name) == GEO!In(at.cycle, at.stage, at.step, name)
\* step.chk of the present stage.
GeoStep == GEO!Step(at.cycle, at.stage)

\* Each write the process still has to make, at its place in runOpt, init or save.
GeoWrites(i) ==
  LET o == todo[i] IN
  \/ o.file = GEO!Dat
  \/ o.file = GEO!Cycle /\ o.value = GEO!Whole(at.cycle, run) /\ at.pc \in {"ion", "between"}
  \/ /\ o.file = GEO!Status(at.cycle) /\ o.value = GEO!Whole(at.stage, run)
     /\ at.pc \in {"ion", "between", "cell"}
  \/ o.file = GEO!Opt(at.cycle, at.stage) /\ o.value.run = run /\ at.pc = "solve"
  \/ /\ o.file = GeoStep /\ i = Len(todo) /\ ~at.saveFirst
     /\ at.pc = "solve" /\ o.value = GEO!Whole(at.step, run)
  \/ /\ o.file = GeoStep /\ i = Len(todo)
     /\ at.pc = "cycle" /\ at.resume = {at.stage} /\ at.probe >= 0
     /\ at.cycle <= MaxCycle /\ o.value = GEO!Whole(at.probe, run)
  \/ /\ \E name \in GEO!Checkpoint(at.stage) : o.file = GeoFile(name)
     /\ o.value.state \in {"whole", "garbage"} /\ at.pc = "solve" /\ ~at.saveFirst
GeoQueue == \A i \in DOMAIN todo : GeoWrites(i)

\* A stage that has a step.chk, or a file of some step.
GeoBegun(c, s) ==
  \/ GEO!IsWhole(GEO!Step(c, s))
  \/ \E n \in 0..MaxStep, name \in GEO!Checkpoint(s) : GEO!Exists(GEO!In(c, s, n, name))

\* No stage later than stage s of cycle c was begun.
GeoLater(c, s) ==
  \A d \in 0..MaxCycle, t \in {0, 1} : 2 * d + t > 2 * c + s => ~GeoBegun(d, t)

\* Stage s of cycle c has no files of a step above n.
GeoUpTo(c, s, n) ==
  \A m \in 0..MaxStep, name \in GEO!Checkpoint(s) : GEO!Exists(GEO!In(c, s, m, name)) => m <= n

\* The step that a step.chk names is complete, and nothing above the next one is
\* there.
GeoIntact ==
  \A c \in 0..MaxCycle, s \in {0, 1} :
    GEO!IsWhole(GEO!Step(c, s)) =>
      /\ GEO!Intact(c, s, disk[GEO!Step(c, s)].step)
      /\ GeoUpTo(c, s, disk[GEO!Step(c, s)].step + 1)

\* cycle.chk and status.chk name the last stage that has a step.chk.
GeoNewest ==
  LET c == disk[GEO!Cycle].step IN
  GEO!IsWhole(GEO!Cycle) /\ GEO!IsWhole(GEO!Status(c)) => GeoLater(c, disk[GEO!Status(c)].step)

\* A file is among those still to be written before the i-th.
GeoPending(f, i) == \E j \in 1..(i - 1) : todo[j].file = f

\* The step.chk that is to be written names a step that is complete by then.
GeoReady ==
  \A i \in DOMAIN todo : todo[i].file = GeoStep =>
    /\ GeoUpTo(at.cycle, at.stage, todo[i].value.step + 1)
    /\ \A name \in GEO!Checkpoint(at.stage) :
      LET f == GEO!In(at.cycle, at.stage, todo[i].value.step, name) IN
      GEO!IsComplete(f) \/ GeoPending(f, i)

CycleKnown ==
  \/ \E i \in DOMAIN todo : todo[i].file = GEO!Cycle
  \/ GEO!IsWhole(GEO!Cycle) => disk[GEO!Cycle].step = at.cycle
StatusKnown ==
  \/ \E i \in DOMAIN todo : todo[i].file = GEO!Status(at.cycle)
  \/ GEO!IsWhole(GEO!Status(at.cycle)) => disk[GEO!Status(at.cycle)].step = at.stage

\* No stage later than the present one was begun, and none later than the one
\* status.chk would name if cycle.chk named this cycle.
GeoLatest ==
  phase \in {"running", "search"} =>
    /\ GeoLater(at.cycle, at.stage)
    /\ at.cycle \in 0..MaxCycle /\ GEO!IsWhole(GEO!Status(at.cycle))
       /\ disk[GEO!Status(at.cycle)].step = 0 => ~GeoBegun(at.cycle, 1)

\* The search is at the stage the records name, and at its recorded step.
GeoFound ==
  phase = "search" =>
    /\ at.cycle >= 0 /\ CycleKnown /\ StatusKnown
    /\ at.probe # -2 => GEO!IsWhole(GeoStep) /\ at.probe = disk[GeoStep].step

\* The records of the cycle and the stage are written before the stage begins.
GeoStarting ==
  phase = "running" =>
    /\ at.resume \subseteq {at.stage}
    /\ at.resume # {} => at.cycle <= MaxCycle
    /\ at.pc # "cycle" \/ at.resume # {} => CycleKnown
    /\ at.pc \in {"ion", "cell", "solve"} \/ (at.pc = "cycle" /\ at.resume # {}) => StatusKnown
    /\ at.pc # "solve" /\ at.stage \notin at.resume /\ at.cycle <= MaxCycle =>
         ~GeoBegun(at.cycle, at.stage)

\* step.chk is at most one step behind the solver, while that step is saved.
GeoSolving ==
  phase = "running" /\ at.pc = "solve" =>
    /\ at.resume = {}
    /\ GeoUpTo(at.cycle, at.stage, at.step + 1)
    /\ GEO!IsWhole(GeoStep) =>
         \/ disk[GeoStep].step = at.step
         \/ disk[GeoStep].step + 1 = at.step /\ \E i \in DOMAIN todo : todo[i].file = GeoStep
    /\ at.saveFirst => ~GeoBegun(at.cycle, at.stage)
    /\ (\E i \in DOMAIN todo, name \in GEO!Checkpoint(at.stage) : todo[i].file = GeoFile(name))
         /\ GEO!IsWhole(GeoStep) => disk[GeoStep].step # at.step

\* The process that was not started yet.
GeoFresh ==
  phase = "off" => /\ \A f \in GEO!Files : disk[f] = GEO!Absent
                   /\ run = 0 /\ at.cycle = 0 /\ at.pc = "cycle" /\ at.resume = {}

GeoPlace == GeoLatest /\ GeoFound /\ GeoStarting /\ GeoSolving

GeoSafe == GEO!SameSolver => GeoIntact /\ GeoNewest /\ GeoReady /\ GeoPlace

GeoInv == GeoTypes /\ GeoFresh /\ GeoRecords /\ GeoQueue /\ GeoSafe

LEMMA FiveOf ==
  ASSUME NEW S, NEW a \in S, NEW b \in S, NEW c \in S, NEW d \in S, NEW e \in S
  PROVE  (<<a>> \o <<b, c>>) \o <<d, e>> = <<a, b, c, d, e>>
<1>1. <<a>> \o <<b, c>> = <<a, b, c>>
  <2> DEFINE x == <<a>>  y == <<b, c>>  z == <<a, b, c>>
  <2>1. x \in Seq(S) /\ y \in Seq(S) /\ z \in Seq(S) /\ Len(x) = 1 /\ Len(y) = 2 /\ Len(z) = 3
    OBVIOUS
  <2>2. x \o y \in Seq(S) /\ Len(x \o y) = 3
    BY <2>1
  <2>3. \A i \in 1..3 : (x \o y)[i] = z[i]
    OBVIOUS
  <2>4. QED BY <2>1, <2>2, <2>3, SeqEqual
<1>2. <<a, b, c>> \o <<d, e>> = <<a, b, c, d, e>>
  <2> DEFINE x == <<a, b, c>>  y == <<d, e>>  z == <<a, b, c, d, e>>
  <2>1. x \in Seq(S) /\ y \in Seq(S) /\ z \in Seq(S) /\ Len(x) = 3 /\ Len(y) = 2 /\ Len(z) = 5
    OBVIOUS
  <2>2. x \o y \in Seq(S) /\ Len(x \o y) = 5
    BY <2>1
  <2>3. \A i \in 1..5 : (x \o y)[i] = z[i]
    OBVIOUS
  <2>4. QED BY <2>1, <2>2, <2>3, SeqEqual
<1>3. QED BY <1>1, <1>2

LEMMA FourOf ==
  ASSUME NEW S, NEW b \in S, NEW c \in S, NEW d \in S, NEW e \in S
  PROVE  (<<>> \o <<b, c>>) \o <<d, e>> = <<b, c, d, e>>
<1>1. <<>> \o <<b, c>> = <<b, c>>
  OBVIOUS
<1>2. <<b, c>> \o <<d, e>> = <<b, c, d, e>>
  <2> DEFINE x == <<b, c>>  y == <<d, e>>  z == <<b, c, d, e>>
  <2>1. x \in Seq(S) /\ y \in Seq(S) /\ z \in Seq(S) /\ Len(x) = 2 /\ Len(y) = 2 /\ Len(z) = 4
    OBVIOUS
  <2>2. x \o y \in Seq(S) /\ Len(x \o y) = 4
    BY <2>1
  <2>3. \A i \in 1..4 : (x \o y)[i] = z[i]
    OBVIOUS
  <2>4. QED BY <2>1, <2>2, <2>3, SeqEqual
<1>3. QED BY <1>1, <1>2

LEMMA GeoSaveScript ==
  ASSUME NEW c, NEW n
  PROVE  /\ GEO!SaveScript(c, 0, n) =
              <<GEO!Write(GEO!In(c, 0, n, "maxForce"), GEO!Computed(n)),
                GEO!Write(GEO!In(c, 0, n, "domainBoundingVectors"), GEO!Computed(n)),
                GEO!Write(GEO!In(c, 0, n, "atomsCoord"), GEO!Computed(n)),
                GEO!Write(GEO!In(c, 0, n, "Relax"), GEO!Computed(n)),
                GEO!Write(GEO!Step(c, 0), GEO!Whole(n, run))>>
         /\ GEO!SaveScript(c, 1, n) =
              <<GEO!Write(GEO!In(c, 1, n, "domainBoundingVectors"), GEO!Computed(n)),
                GEO!Write(GEO!In(c, 1, n, "atomsCoord"), GEO!Computed(n)),
                GEO!Write(GEO!In(c, 1, n, "Relax"), GEO!Computed(n)),
                GEO!Write(GEO!Step(c, 1), GEO!Whole(n, run))>>
<1> DEFINE a == GEO!Write(GEO!In(c, 0, n, "maxForce"), GEO!Computed(n))
           b(s) == GEO!Write(GEO!In(c, s, n, "domainBoundingVectors"), GEO!Computed(n))
           x(s) == GEO!Write(GEO!In(c, s, n, "atomsCoord"), GEO!Computed(n))
           r(s) == GEO!Write(GEO!In(c, s, n, "Relax"), GEO!Computed(n))
           w(s) == GEO!Write(GEO!Step(c, s), GEO!Whole(n, run))
<1>1. GEO!SaveScript(c, 0, n) = (<<a>> \o <<b(0), x(0)>>) \o <<r(0), w(0)>>
  BY DEF GEO!SaveScript, GEO!Geometry
<1>2. GEO!SaveScript(c, 1, n) = (<<>> \o <<b(1), x(1)>>) \o <<r(1), w(1)>>
  BY DEF GEO!SaveScript, GEO!Geometry
<1> DEFINE S == {a, b(0), x(0), r(0), w(0), b(1), x(1), r(1), w(1)}
<1>3. /\ a \in S /\ b(0) \in S /\ x(0) \in S /\ r(0) \in S /\ w(0) \in S
      /\ b(1) \in S /\ x(1) \in S /\ r(1) \in S /\ w(1) \in S
  OBVIOUS
<1> HIDE DEF a, b, x, r, w, S
<1>4. (<<a>> \o <<b(0), x(0)>>) \o <<r(0), w(0)>> = <<a, b(0), x(0), r(0), w(0)>>
  BY <1>3, FiveOf
<1>5. (<<>> \o <<b(1), x(1)>>) \o <<r(1), w(1)>> = <<b(1), x(1), r(1), w(1)>>
  BY <1>3, FourOf
<1>6. QED BY <1>1, <1>2, <1>4, <1>5 DEF a, b, x, r, w

\* The files of an optimisation.
LEMMA GeoFileNames ==
  /\ GEO!Dat \in GEO!Files /\ GEO!Cycle \in GEO!Files
  /\ \A c \in 0..MaxCycle : GEO!Status(c) \in GEO!Files
  /\ \A c \in 0..MaxCycle, s \in {0, 1} : GEO!Step(c, s) \in GEO!Files /\ GEO!Opt(c, s) \in GEO!Files
  /\ \A c \in 0..MaxCycle, s \in {0, 1}, n \in 0..MaxStep : \A name \in GEO!Checkpoint(s) :
       GEO!In(c, s, n, name) \in GEO!Files
<1>1. GEO!Dat \in GEO!Files /\ GEO!Cycle \in GEO!Files
  BY DEF GEO!Files
<1>2. ASSUME NEW c \in 0..MaxCycle PROVE GEO!Status(c) \in GEO!Files
  BY DEF GEO!Files
<1>3. ASSUME NEW c \in 0..MaxCycle, NEW s \in {0, 1}
      PROVE  GEO!Step(c, s) \in GEO!Files /\ GEO!Opt(c, s) \in GEO!Files
  BY DEF GEO!Files, GEO!Stages
<1>4. ASSUME NEW c \in 0..MaxCycle, NEW s \in {0, 1}, NEW n \in 0..MaxStep, NEW name \in GEO!Checkpoint(s)
      PROVE  GEO!In(c, s, n, name) \in GEO!Files
  <2>1. GEO!In(c, s, n, name) \in {GEO!In(d, s, m, x) : d \in 0..MaxCycle, m \in 0..MaxStep, x \in GEO!Checkpoint(s)}
    OBVIOUS
  <2>2. QED BY <2>1 DEF GEO!Files, GEO!Stages
<1>5. QED BY <1>1, <1>2, <1>3, <1>4

\* Different records are different files.
LEMMA GeoFilesDiffer ==
  /\ GEO!Dat # GEO!Cycle
  /\ \A c : GEO!Status(c) # GEO!Dat /\ GEO!Status(c) # GEO!Cycle
  /\ \A c, d : GEO!Status(c) = GEO!Status(d) => c = d
  /\ \A c, s : /\ GEO!Step(c, s) # GEO!Dat /\ GEO!Step(c, s) # GEO!Cycle
               /\ GEO!Opt(c, s) # GEO!Dat /\ GEO!Opt(c, s) # GEO!Cycle
  /\ \A c, d, s : GEO!Step(c, s) # GEO!Status(d) /\ GEO!Opt(c, s) # GEO!Status(d)
  /\ \A c, s, d, t : /\ GEO!Step(c, s) # GEO!Opt(d, t)
                     /\ GEO!Step(c, s) = GEO!Step(d, t) => c = d /\ s = t
                     /\ GEO!Opt(c, s) = GEO!Opt(d, t) => c = d /\ s = t
BY DEF GEO!Dat, GEO!Cycle, GEO!Status, GEO!Opt, GEO!Step

LEMMA GeoStepFilesDiffer ==
  ASSUME NEW c, NEW s, NEW n, NEW r, NEW name \in GEO!Checkpoint(r)
  PROVE  /\ GEO!In(c, s, n, name) # GEO!Dat /\ GEO!In(c, s, n, name) # GEO!Cycle
         /\ \A d : GEO!In(c, s, n, name) # GEO!Status(d)
         /\ \A d, t : GEO!In(c, s, n, name) # GEO!Step(d, t) /\ GEO!In(c, s, n, name) # GEO!Opt(d, t)
         /\ \A d, t, m, x : GEO!In(c, s, n, name) = GEO!In(d, t, m, x) => c = d /\ s = t /\ n = m /\ name = x
BY DEF GEO!Dat, GEO!Cycle, GEO!Status, GEO!Opt, GEO!Step, GEO!In, GEO!Checkpoint

LEMMA GeoNoOldFiles ==
  ASSUME NEW f \in GEO!Files
  PROVE  GEO!Old(f) \notin GEO!Files
<1>1. ASSUME NEW g \in GEO!Files PROVE Len(g) = 2
  BY DEF GEO!Files, GEO!Dat, GEO!Cycle, GEO!Status, GEO!Opt, GEO!Step, GEO!In
<1>2. Len(GEO!Old(f)) = 3
  BY DEF GEO!Old
<1>3. QED BY <1>1, <1>2

\* The head of the queue and what is left without it.
LEMMA GeoHead ==
  ASSUME GeoTypes, todo # <<>>
  PROVE  /\ DOMAIN todo = 1..Len(todo) /\ Len(todo) \in Nat /\ 1 \in DOMAIN todo
         /\ Head(todo) = todo[1] /\ \A i \in DOMAIN todo : todo[i] \in GeoOps
         /\ Tail(todo) \in Seq(GeoOps) /\ Len(Tail(todo)) = Len(todo) - 1
         /\ DOMAIN Tail(todo) = 1..(Len(todo) - 1)
         /\ \A i \in 1..(Len(todo) - 1) : Tail(todo)[i] = todo[i + 1]
BY DEF GeoTypes

\* A file operation moves the existing file away, or writes the new one.
LEMMA GeoFileStep ==
  ASSUME GeoTypes, GEO!FileStep
  PROVE  /\ phase = "running" /\ todo # <<>>
         /\ phase' = phase /\ run' = run /\ at' = at
         /\ \/ /\ GEO!Exists(todo[1].file) /\ todo' = todo
               /\ disk' = [disk EXCEPT ![todo[1].file] = GEO!Absent]
            \/ /\ ~GEO!Exists(todo[1].file) /\ todo' = Tail(todo)
               /\ disk' = [disk EXCEPT ![todo[1].file] = todo[1].value]
<1>1. phase = "running" /\ todo # <<>> /\ run' = run /\ at' = at
  BY DEF GEO!FileStep
<1>2. todo[1] \in GeoOps /\ Head(todo) = todo[1] /\ disk \in [GEO!Files -> GeoContents]
  BY <1>1, GeoHead DEF GeoTypes
<1>3. todo[1].do = "write" /\ todo[1].file \in GEO!Files
  BY <1>2 DEF GeoOps
<1>4. GEO!WriteFile(todo[1])
  BY <1>2, <1>3 DEF GEO!FileStep
<1>5. phase' = phase
  BY <1>4 DEF GEO!WriteFile
<1>6. CASE GEO!Exists(todo[1].file)
  <2>1. /\ todo' = todo
        /\ disk' = [f \in DOMAIN disk |-> CASE f = todo[1].file -> GEO!Absent
                                            [] f = GEO!Old(todo[1].file) -> disk[todo[1].file]
                                            [] OTHER -> disk[f]]
    BY <1>4, <1>6 DEF GEO!WriteFile
  <2>2. \A f \in GEO!Files : f # GEO!Old(todo[1].file)
    BY <1>3, GeoNoOldFiles
  <2>3. disk' = [disk EXCEPT ![todo[1].file] = GEO!Absent]
    BY <1>2, <1>3, <2>1, <2>2
  <2>4. QED BY <1>1, <1>5, <1>6, <2>1, <2>3
<1>7. CASE ~GEO!Exists(todo[1].file)
  <2>1. todo' = Tail(todo) /\ disk' = [disk EXCEPT ![todo[1].file] = todo[1].value]
    BY <1>4, <1>7 DEF GEO!WriteFile
  <2>2. QED BY <1>1, <1>5, <1>7, <2>1
<1>8. QED BY <1>6, <1>7

\* What holds of the disk still holds when files disappear.
LEMMA GeoShrinks ==
  ASSUME \A f \in GEO!Files : disk'[f] = disk[f] \/ disk'[f] = GEO!Absent
  PROVE  /\ \A c \in 0..MaxCycle, s \in {0, 1} : GeoBegun(c, s)' => GeoBegun(c, s)
         /\ \A c, s : GeoLater(c, s) => GeoLater(c, s)'
         /\ \A c \in 0..MaxCycle, s \in {0, 1} : \A n : GeoUpTo(c, s, n) => GeoUpTo(c, s, n)'
<1>1. ASSUME NEW f \in GEO!Files
      PROVE  /\ GEO!IsWhole(f)' => GEO!IsWhole(f) /\ disk'[f] = disk[f]
             /\ GEO!Exists(f)' => GEO!Exists(f)
  BY DEF GEO!IsWhole, GEO!Exists, GEO!Absent
<1>2. ASSUME NEW c \in 0..MaxCycle, NEW s \in {0, 1}, GeoBegun(c, s)'
      PROVE  GeoBegun(c, s)
  <2>1. CASE GEO!IsWhole(GEO!Step(c, s))'
    BY <1>1, <2>1, GeoFileNames DEF GeoBegun
  <2>2. CASE \E n \in 0..MaxStep, name \in GEO!Checkpoint(s) : GEO!Exists(GEO!In(c, s, n, name))'
    <3>1. PICK n \in 0..MaxStep, name \in GEO!Checkpoint(s) : GEO!Exists(GEO!In(c, s, n, name))'
      BY <2>2
    <3>2. GEO!In(c, s, n, name) \in GEO!Files
      BY GeoFileNames
    <3>3. GEO!Exists(GEO!In(c, s, n, name))
      BY <1>1, <3>1, <3>2
    <3>4. QED BY <3>3 DEF GeoBegun
  <2>3. QED BY <1>2, <2>1, <2>2 DEF GeoBegun
<1>3. ASSUME NEW c, NEW s, GeoLater(c, s)
      PROVE  GeoLater(c, s)'
  BY <1>2, <1>3 DEF GeoLater
<1>4. ASSUME NEW c \in 0..MaxCycle, NEW s \in {0, 1}, NEW n, GeoUpTo(c, s, n)
      PROVE  GeoUpTo(c, s, n)'
  <2>1. ASSUME NEW m \in 0..MaxStep, NEW name \in GEO!Checkpoint(s), GEO!Exists(GEO!In(c, s, m, name))'
        PROVE  m <= n
    <3>1. GEO!In(c, s, m, name) \in GEO!Files
      BY GeoFileNames
    <3>2. GEO!Exists(GEO!In(c, s, m, name))
      BY <1>1, <2>1, <3>1
    <3>3. QED BY <1>4, <3>2 DEF GeoUpTo
  <2>2. QED BY <2>1 DEF GeoUpTo
<1>5. QED BY <1>2, <1>3, <1>4

\* What holds of the disk alone holds as long as it is left as it is.
LEMMA GeoSameDisk ==
  ASSUME disk' = disk
  PROVE  /\ \A f : /\ GEO!IsWhole(f)' <=> GEO!IsWhole(f)
                   /\ GEO!IsComplete(f)' <=> GEO!IsComplete(f)
                   /\ GEO!Exists(f)' <=> GEO!Exists(f)
         /\ \A c, s : GeoBegun(c, s)' <=> GeoBegun(c, s)
         /\ \A c, s : GeoLater(c, s)' <=> GeoLater(c, s)
         /\ \A c, s, n : GeoUpTo(c, s, n)' <=> GeoUpTo(c, s, n)
         /\ \A c, s, n : GEO!Intact(c, s, n)' <=> GEO!Intact(c, s, n)
         /\ GeoIntact' <=> GeoIntact
         /\ GeoNewest' <=> GeoNewest
<1>1. \A f : /\ GEO!IsWhole(f)' <=> GEO!IsWhole(f)
             /\ GEO!IsComplete(f)' <=> GEO!IsComplete(f)
             /\ GEO!Exists(f)' <=> GEO!Exists(f)
  BY DEF GEO!IsWhole, GEO!IsComplete, GEO!Exists
<1>2. \A c, s : GeoBegun(c, s)' <=> GeoBegun(c, s)
  BY <1>1 DEF GeoBegun
<1>3. \A c, s : GeoLater(c, s)' <=> GeoLater(c, s)
  BY <1>2 DEF GeoLater
<1>4. \A c, s, n : GeoUpTo(c, s, n)' <=> GeoUpTo(c, s, n)
  BY <1>1 DEF GeoUpTo
<1>5. \A c, s, n : GEO!Intact(c, s, n)' <=> GEO!Intact(c, s, n)
  BY <1>1 DEF GEO!Intact
<1>6. GeoIntact' <=> GeoIntact
  BY <1>1, <1>4, <1>5 DEF GeoIntact
<1>7. GeoNewest' <=> GeoNewest
  BY <1>1, <1>3 DEF GeoNewest
<1>8. QED BY <1>1, <1>2, <1>3, <1>4, <1>5, <1>6, <1>7

(***************************************************************************)
(* A file operation of a geometry optimisation.                            *)
(***************************************************************************)
\* What a write of the queue is for, by the name of its file.
LEMMA GeoKinds ==
  ASSUME NEW i, GeoWrites(i)
  PROVE  /\ todo[i].file = GEO!Cycle =>
              todo[i].value = GEO!Whole(at.cycle, run) /\ at.pc \in {"ion", "between"}
         /\ \A c : todo[i].file = GEO!Status(c) =>
              /\ c = at.cycle /\ todo[i].value = GEO!Whole(at.stage, run)
              /\ at.pc \in {"ion", "between", "cell"}
         /\ \A c, s : todo[i].file = GEO!Opt(c, s) =>
              c = at.cycle /\ s = at.stage /\ todo[i].value.run = run /\ at.pc = "solve"
         /\ \A c, s : todo[i].file = GEO!Step(c, s) =>
              /\ c = at.cycle /\ s = at.stage /\ i = Len(todo)
              /\ \/ ~at.saveFirst /\ at.pc = "solve" /\ todo[i].value = GEO!Whole(at.step, run)
                 \/ /\ at.pc = "cycle" /\ at.resume = {at.stage} /\ at.probe >= 0
                    /\ at.cycle <= MaxCycle /\ todo[i].value = GEO!Whole(at.probe, run)
         /\ \A c, s, n : \A name \in GEO!Checkpoint(s) : todo[i].file = GEO!In(c, s, n, name) =>
              /\ c = at.cycle /\ s = at.stage /\ n = at.step
              /\ todo[i].value.state \in {"whole", "garbage"} /\ at.pc = "solve" /\ ~at.saveFirst
<1> USE DEF GeoStep, GeoFile
<1>1. ASSUME todo[i].file = GEO!Cycle
      PROVE  todo[i].value = GEO!Whole(at.cycle, run) /\ at.pc \in {"ion", "between"}
  BY <1>1, GeoFilesDiffer, GeoStepFilesDiffer DEF GeoWrites
<1>2. ASSUME NEW c, todo[i].file = GEO!Status(c)
      PROVE  /\ c = at.cycle /\ todo[i].value = GEO!Whole(at.stage, run)
             /\ at.pc \in {"ion", "between", "cell"}
  BY <1>2, GeoFilesDiffer, GeoStepFilesDiffer DEF GeoWrites
<1>3. ASSUME NEW c, NEW s, todo[i].file = GEO!Opt(c, s)
      PROVE  c = at.cycle /\ s = at.stage /\ todo[i].value.run = run /\ at.pc = "solve"
  BY <1>3, GeoFilesDiffer, GeoStepFilesDiffer DEF GeoWrites
<1>4. ASSUME NEW c, NEW s, todo[i].file = GEO!Step(c, s)
      PROVE  /\ c = at.cycle /\ s = at.stage /\ i = Len(todo)
             /\ \/ ~at.saveFirst /\ at.pc = "solve" /\ todo[i].value = GEO!Whole(at.step, run)
                \/ /\ at.pc = "cycle" /\ at.resume = {at.stage} /\ at.probe >= 0
                   /\ at.cycle <= MaxCycle /\ todo[i].value = GEO!Whole(at.probe, run)
  <2>1. /\ todo[i].file # GEO!Dat /\ todo[i].file # GEO!Cycle
        /\ todo[i].file # GEO!Status(at.cycle) /\ todo[i].file # GEO!Opt(at.cycle, at.stage)
        /\ \A name \in GEO!Checkpoint(at.stage) : todo[i].file # GEO!In(at.cycle, at.stage, at.step, name)
    BY <1>4, GeoFilesDiffer, GeoStepFilesDiffer
  <2>2. todo[i].file = GEO!Step(at.cycle, at.stage) => c = at.cycle /\ s = at.stage
    BY <1>4 DEF GEO!Step
  <2>3. \/ /\ todo[i].file = GEO!Step(at.cycle, at.stage) /\ i = Len(todo) /\ ~at.saveFirst
           /\ at.pc = "solve" /\ todo[i].value = GEO!Whole(at.step, run)
        \/ /\ todo[i].file = GEO!Step(at.cycle, at.stage) /\ i = Len(todo)
           /\ at.pc = "cycle" /\ at.resume = {at.stage} /\ at.probe >= 0
           /\ at.cycle <= MaxCycle /\ todo[i].value = GEO!Whole(at.probe, run)
    BY <2>1, GeoWrites(i) DEF GeoWrites
  <2>4. QED BY <2>2, <2>3
<1>5. ASSUME NEW c, NEW s, NEW n, NEW name \in GEO!Checkpoint(s), todo[i].file = GEO!In(c, s, n, name)
      PROVE  /\ c = at.cycle /\ s = at.stage /\ n = at.step
             /\ todo[i].value.state \in {"whole", "garbage"} /\ at.pc = "solve" /\ ~at.saveFirst
  <2>1. /\ todo[i].file # GEO!Dat /\ todo[i].file # GEO!Cycle
        /\ todo[i].file # GEO!Status(at.cycle) /\ todo[i].file # GEO!Opt(at.cycle, at.stage)
        /\ todo[i].file # GEO!Step(at.cycle, at.stage)
    BY <1>5, GeoStepFilesDiffer
  <2>2. PICK x \in GEO!Checkpoint(at.stage) : todo[i].file = GEO!In(at.cycle, at.stage, at.step, x)
    BY <2>1 DEF GeoWrites
  <2>3. c = at.cycle /\ s = at.stage /\ n = at.step
    BY <1>5, <2>2 DEF GEO!In
  <2>4. todo[i].value.state \in {"whole", "garbage"} /\ at.pc = "solve" /\ ~at.saveFirst
    BY <2>1, GeoWrites(i) DEF GeoWrites
  <2>5. QED BY <2>3, <2>4
<1>6. QED BY <1>1, <1>2, <1>3, <1>4, <1>5

LEMMA GeoFileStepTypes ==
  ASSUME GeoInv, GEO!FileStep
  PROVE  GeoTypes' /\ GeoFresh' /\ GeoRecords' /\ GeoQueue'
<1> USE DEF GeoInv
<1>1. /\ phase = "running" /\ todo # <<>> /\ phase' = phase /\ run' = run /\ at' = at
      /\ \/ /\ GEO!Exists(todo[1].file) /\ todo' = todo
            /\ disk' = [disk EXCEPT ![todo[1].file] = GEO!Absent]
         \/ /\ ~GEO!Exists(todo[1].file) /\ todo' = Tail(todo)
            /\ disk' = [disk EXCEPT ![todo[1].file] = todo[1].value]
  BY GeoFileStep
<1> DEFINE o == todo[1]
<1>2. /\ o \in GeoOps /\ o.file \in GEO!Files /\ o.value \in GeoContents /\ 1 \in DOMAIN todo
      /\ DOMAIN todo = 1..Len(todo) /\ Len(todo) \in Nat
      /\ Tail(todo) \in Seq(GeoOps) /\ Len(Tail(todo)) = Len(todo) - 1
      /\ DOMAIN Tail(todo) = 1..(Len(todo) - 1)
      /\ \A i \in 1..(Len(todo) - 1) : Tail(todo)[i] = todo[i + 1]
  BY <1>1, GeoHead DEF GeoOps
<1>3. GEO!Absent \in GeoContents
  BY LaunchConstantsOK DEF GeoContents, GEO!Contents, GEO!Absent
<1>4. disk \in [GEO!Files -> GeoContents] /\ todo \in Seq(GeoOps)
  BY DEF GeoTypes
<1>5. disk' \in [GEO!Files -> GeoContents] /\ todo' \in Seq(GeoOps)
  BY <1>1, <1>2, <1>3, <1>4
<1>6. GeoTypes'
  BY <1>1, <1>5 DEF GeoTypes
<1>7. GeoFresh'
  BY <1>1 DEF GeoFresh
<1>8. GeoWrites(1)
  BY <1>2 DEF GeoQueue
<1>9. \A f \in GEO!Files : \/ disk'[f] = disk[f]
                           \/ f = o.file /\ disk'[f] = GEO!Absent
                           \/ f = o.file /\ disk'[f] = o.value
  BY <1>1, <1>2, <1>4
<1>10. /\ at.cycle \in -1..MaxCycle + 1 /\ at.cycle >= 0 /\ (at.pc # "cycle" => at.cycle <= MaxCycle)
       /\ at.stage \in {0, 1} /\ at.step \in 0..MaxStep /\ at.probe \in -2..MaxStep
       /\ run \in 1..MaxRuns
  BY <1>1, LaunchConstantsOK DEF GeoTypes, GeoAt
<1>11. GeoRecords'
  <2>1. GEO!IsWhole(GEO!Cycle)' => disk'[GEO!Cycle].step \in 0..MaxCycle
    <3>1. CASE disk'[GEO!Cycle] = disk[GEO!Cycle]
      BY <3>1 DEF GeoRecords, GEO!IsWhole
    <3>2. CASE disk'[GEO!Cycle] = GEO!Absent
      BY <3>2 DEF GEO!IsWhole, GEO!Absent
    <3>3. CASE GEO!Cycle = o.file /\ disk'[GEO!Cycle] = o.value
      <4>1. o.value = GEO!Whole(at.cycle, run) /\ at.pc \in {"ion", "between"}
        BY <1>8, <3>3, GeoKinds
      <4>2. QED BY <1>10, <3>3, <4>1, LaunchConstantsOK DEF GEO!Whole
    <3>4. QED BY <1>9, <3>1, <3>2, <3>3, GeoFileNames
  <2>2. ASSUME NEW c \in 0..MaxCycle, GEO!IsWhole(GEO!Status(c))'
        PROVE  disk'[GEO!Status(c)].step \in {0, 1}
    <3> DEFINE f == GEO!Status(c)
    <3>1. CASE disk'[f] = disk[f]
      BY <2>2, <3>1 DEF GeoRecords, GEO!IsWhole
    <3>2. CASE disk'[f] = GEO!Absent
      BY <2>2, <3>2 DEF GEO!IsWhole, GEO!Absent
    <3>3. CASE f = o.file /\ disk'[f] = o.value
      <4>1. o.value = GEO!Whole(at.stage, run)
        BY <1>8, <3>3, GeoKinds
      <4>2. QED BY <1>10, <3>3, <4>1 DEF GEO!Whole
    <3>4. QED BY <1>9, <3>1, <3>2, <3>3, GeoFileNames
  <2>3. ASSUME NEW c \in 0..MaxCycle, NEW s \in {0, 1}, GEO!IsWhole(GEO!Step(c, s))'
        PROVE  disk'[GEO!Step(c, s)].step \in 0..MaxStep
    <3> DEFINE f == GEO!Step(c, s)
    <3>1. CASE disk'[f] = disk[f]
      BY <2>3, <3>1 DEF GeoRecords, GEO!IsWhole
    <3>2. CASE disk'[f] = GEO!Absent
      BY <2>3, <3>2 DEF GEO!IsWhole, GEO!Absent
    <3>3. CASE f = o.file /\ disk'[f] = o.value
      <4>1. o.value = GEO!Whole(at.step, run) \/ (o.value = GEO!Whole(at.probe, run) /\ at.probe >= 0)
        <5>1. todo[1].file = GEO!Step(c, s)
          BY <3>3
        <5>2. QED BY ONLY <1>8, <5>1, GeoKinds
      <4>2. QED BY <1>10, <3>3, <4>1, LaunchConstantsOK DEF GEO!Whole
    <3>4. QED BY <1>9, <3>1, <3>2, <3>3, GeoFileNames
  <2>4. ASSUME NEW c \in 0..MaxCycle, NEW s \in {0, 1}, GEO!IsWhole(GEO!Opt(c, s))'
        PROVE  disk'[GEO!Opt(c, s)].run \in 1..run
    <3> DEFINE f == GEO!Opt(c, s)
    <3>1. CASE disk'[f] = disk[f]
      BY <2>4, <3>1 DEF GeoRecords, GEO!IsWhole
    <3>2. CASE disk'[f] = GEO!Absent
      BY <2>4, <3>2 DEF GEO!IsWhole, GEO!Absent
    <3>3. CASE f = o.file /\ disk'[f] = o.value
      <4>1. o.value.run = run
        BY <1>8, <3>3, GeoKinds
      <4>2. QED BY <1>10, <3>3, <4>1
    <3>4. QED BY <1>9, <3>1, <3>2, <3>3, GeoFileNames
  <2>5. QED BY <1>1, <2>1, <2>2, <2>3, <2>4 DEF GeoRecords
<1>12. GeoQueue'
  <2>1. CASE todo' = todo
    BY <1>1, <2>1 DEF GeoQueue, GeoWrites, GeoStep, GeoFile
  <2>2. CASE todo' = Tail(todo)
    <3>1. ASSUME NEW i \in DOMAIN todo' PROVE GeoWrites(i)'
      <4>1. i \in 1..(Len(todo) - 1) /\ i + 1 \in DOMAIN todo /\ todo'[i] = todo[i + 1]
        BY <1>2, <2>2, <3>1
      <4>2. GeoWrites(i + 1)
        BY <4>1 DEF GeoQueue
      <4>3. i + 1 = Len(todo) => i = Len(todo')
        BY <1>2, <2>2, <4>1
      <4>4. QED BY <1>1, <4>1, <4>2, <4>3 DEF GeoWrites, GeoStep, GeoFile
    <3>2. QED BY <3>1 DEF GeoQueue
  <2>3. QED BY <1>1, <2>1, <2>2
<1>13. QED BY <1>6, <1>7, <1>11, <1>12

\* A write while no record of the stage is to come: they name the stage.
LEMMA GeoRecordsAhead ==
  ASSUME GeoInv, GEO!SameSolver, phase = "running", todo # <<>>,
         \/ todo[1].file = GeoStep
         \/ \E name \in GEO!Checkpoint(at.stage) : todo[1].file = GeoFile(name)
  PROVE  /\ GEO!IsWhole(GEO!Cycle) => disk[GEO!Cycle].step = at.cycle
         /\ GEO!IsWhole(GEO!Status(at.cycle)) => disk[GEO!Status(at.cycle)].step = at.stage
<1> USE DEF GeoInv
<1>1. DOMAIN todo = 1..Len(todo) /\ Len(todo) \in Nat /\ 1 \in DOMAIN todo /\ GeoWrites(1)
  BY GeoHead DEF GeoQueue
<1>2. \/ at.pc = "solve"
      \/ at.pc = "cycle" /\ at.resume = {at.stage} /\ Len(todo) = 1
  <2>1. CASE todo[1].file = GEO!Step(at.cycle, at.stage)
    BY <1>1, <2>1, GeoKinds
  <2>2. CASE \E name \in GEO!Checkpoint(at.stage) : todo[1].file = GeoFile(name)
    BY <1>1, <2>2, GeoKinds DEF GeoFile
  <2>3. QED BY <2>1, <2>2 DEF GeoStep
<1>3. ASSUME NEW i \in DOMAIN todo
      PROVE  todo[i].file # GEO!Cycle /\ todo[i].file # GEO!Status(at.cycle)
  <2>1. GeoWrites(i)
    BY <1>3 DEF GeoQueue
  <2>2. CASE at.pc = "solve"
    BY <2>1, <2>2, GeoKinds
  <2>3. CASE at.pc = "cycle"
    BY <2>1, <2>3, GeoKinds
  <2>4. QED BY <1>2, <2>2, <2>3
<1>4. CycleKnown /\ StatusKnown
  <2>1. GeoStarting
    BY DEF GeoSafe, GeoPlace
  <2>2. CASE at.pc = "solve"
    BY <2>1, <2>2 DEF GeoStarting
  <2>3. CASE at.pc = "cycle" /\ at.resume = {at.stage}
    BY <2>1, <2>3 DEF GeoStarting
  <2>4. QED BY <1>2, <2>2, <2>3
<1>5. QED BY <1>3, <1>4 DEF CycleKnown, StatusKnown

\* The file at the head of the queue is written, in full or not.
LEMMA GeoWritten ==
  ASSUME GeoInv, GEO!SameSolver, phase = "running", todo # <<>>, ~GEO!Exists(todo[1].file),
         NEW v, v = todo[1].value \/ v = GEO!Torn, disk' = [disk EXCEPT ![todo[1].file] = v]
  PROVE  /\ disk'[todo[1].file] = v
         /\ \A f \in GEO!Files \ {todo[1].file} : disk'[f] = disk[f]
         /\ \A f \in GEO!Files : GEO!IsComplete(f) => GEO!IsComplete(f)'
         /\ \A c \in 0..MaxCycle, s \in {0, 1} : GeoBegun(c, s)' =>
              \/ GeoBegun(c, s)
              \/ /\ c = at.cycle /\ s = at.stage
                 /\ \/ todo[1].file = GeoStep
                    \/ \E name \in GEO!Checkpoint(at.stage) : todo[1].file = GeoFile(name)
         /\ \A c \in 0..MaxCycle, s \in {0, 1} : \A n :
              /\ GeoUpTo(c, s, n)
              /\ \/ c # at.cycle \/ s # at.stage \/ at.step <= n
                 \/ \A name \in GEO!Checkpoint(at.stage) : todo[1].file # GeoFile(name)
              => GeoUpTo(c, s, n)'
<1> USE DEF GeoInv
<1> DEFINE o == todo[1]
<1>1. /\ GeoWrites(1) /\ o \in GeoOps /\ disk \in [GEO!Files -> GeoContents] /\ disk[o.file] = GEO!Absent
  BY GeoHead DEF GeoQueue, GeoTypes, GEO!Exists
<1>2. o.file \in GEO!Files /\ o.value \in GeoContents
  BY <1>1 DEF GeoOps
<1>3. disk'[o.file] = v /\ \A f \in GEO!Files \ {o.file} : disk'[f] = disk[f]
  BY <1>1, <1>2
<1>4. ASSUME NEW f \in GEO!Files, GEO!IsComplete(f) PROVE GEO!IsComplete(f)'
  BY <1>1, <1>3, <1>4 DEF GEO!IsComplete, GEO!Absent
<1>5. ASSUME NEW c \in 0..MaxCycle, NEW s \in {0, 1}, GeoBegun(c, s)', ~GeoBegun(c, s)
      PROVE  /\ c = at.cycle /\ s = at.stage
             /\ \/ o.file = GeoStep
                \/ \E name \in GEO!Checkpoint(at.stage) : o.file = GeoFile(name)
  <2>1. CASE GEO!IsWhole(GEO!Step(c, s))'
    <3>1. ~GEO!IsWhole(GEO!Step(c, s))
      BY <1>5 DEF GeoBegun
    <3>2. o.file = GEO!Step(c, s)
      BY <1>3, <2>1, <3>1, GeoFileNames DEF GEO!IsWhole
    <3>3. QED BY <1>1, <3>2, GeoKinds DEF GeoStep
  <2>2. CASE \E n \in 0..MaxStep, name \in GEO!Checkpoint(s) : GEO!Exists(GEO!In(c, s, n, name))'
    <3>1. PICK n \in 0..MaxStep, name \in GEO!Checkpoint(s) : GEO!Exists(GEO!In(c, s, n, name))'
      BY <2>2
    <3>2. ~GEO!Exists(GEO!In(c, s, n, name))
      BY <1>5 DEF GeoBegun
    <3>3. o.file = GEO!In(c, s, n, name)
      BY <1>3, <3>1, <3>2, GeoFileNames DEF GEO!Exists
    <3>4. c = at.cycle /\ s = at.stage /\ n = at.step
      BY <1>1, <3>3, GeoKinds
    <3>5. QED BY <3>3, <3>4 DEF GeoFile
  <2>3. QED BY <1>5, <2>1, <2>2 DEF GeoBegun
<1>6. ASSUME NEW c \in 0..MaxCycle, NEW s \in {0, 1}, NEW n, GeoUpTo(c, s, n),
             \/ c # at.cycle \/ s # at.stage \/ at.step <= n
             \/ \A name \in GEO!Checkpoint(at.stage) : o.file # GeoFile(name)
      PROVE  GeoUpTo(c, s, n)'
  <2>1. ASSUME NEW m \in 0..MaxStep, NEW name \in GEO!Checkpoint(s), GEO!Exists(GEO!In(c, s, m, name))'
        PROVE  m <= n
    <3>1. CASE GEO!Exists(GEO!In(c, s, m, name))
      BY <1>6, <3>1 DEF GeoUpTo
    <3>2. CASE ~GEO!Exists(GEO!In(c, s, m, name))
      <4>1. o.file = GEO!In(c, s, m, name)
        BY <1>3, <2>1, <3>2, GeoFileNames DEF GEO!Exists
      <4>2. c = at.cycle /\ s = at.stage /\ m = at.step
        BY <1>1, <4>1, GeoKinds
      <4>3. o.file = GeoFile(name) /\ name \in GEO!Checkpoint(at.stage)
        BY <4>1, <4>2 DEF GeoFile
      <4>4. QED BY <1>6, <4>2, <4>3
    <3>3. QED BY <3>1, <3>2
  <2>2. QED BY <2>1 DEF GeoUpTo
<1>7. QED BY <1>3, <1>4, <1>5, <1>6

LEMMA GeoWrittenIntact ==
  ASSUME GeoInv, GEO!SameSolver, phase = "running", todo # <<>>, ~GEO!Exists(todo[1].file),
         NEW v, v = todo[1].value \/ v = GEO!Torn, disk' = [disk EXCEPT ![todo[1].file] = v]
  PROVE  GeoIntact'
<1> USE DEF GeoInv
<1> DEFINE o == todo[1]
<1>1. /\ disk'[o.file] = v /\ \A f \in GEO!Files \ {o.file} : disk'[f] = disk[f]
      /\ \A f \in GEO!Files : GEO!IsComplete(f) => GEO!IsComplete(f)'
      /\ \A c \in 0..MaxCycle, s \in {0, 1} : \A n :
           /\ GeoUpTo(c, s, n)
           /\ \/ c # at.cycle \/ s # at.stage \/ at.step <= n
              \/ \A name \in GEO!Checkpoint(at.stage) : o.file # GeoFile(name)
           => GeoUpTo(c, s, n)'
  BY GeoWritten
<1>2. GeoWrites(1) /\ 1 \in DOMAIN todo /\ at.step \in 0..MaxStep /\ at.stage \in {0, 1}
  BY GeoHead DEF GeoQueue, GeoTypes, GeoAt
<1>3. GeoIntact /\ GeoReady /\ GeoSolving
  BY DEF GeoSafe, GeoPlace
<1>4. ASSUME NEW c \in 0..MaxCycle, NEW s \in {0, 1}, NEW n \in 0..MaxStep, GEO!Intact(c, s, n)
      PROVE  GEO!Intact(c, s, n)'
  BY <1>1, <1>4, GeoFileNames DEF GEO!Intact
<1>5. ASSUME NEW c \in 0..MaxCycle, NEW s \in {0, 1}, GEO!IsWhole(GEO!Step(c, s))'
      PROVE  \E n \in 0..MaxStep : /\ n = disk'[GEO!Step(c, s)].step
                                   /\ GEO!Intact(c, s, n)' /\ GeoUpTo(c, s, n + 1)'
  <2> DEFINE f == GEO!Step(c, s)
  <2>1. f \in GEO!Files
    BY GeoFileNames
  <2>2. CASE o.file = f
    <3>1. v = o.value
      BY <1>1, <1>5, <2>2 DEF GEO!IsWhole, GEO!Torn
    <3>2. /\ c = at.cycle /\ s = at.stage
          /\ o.value = GEO!Whole(at.step, run) \/ (o.value = GEO!Whole(at.probe, run) /\ at.probe >= 0)
      BY <1>2, <2>2, GeoKinds
    <3>3. PICK n \in 0..MaxStep : n = o.value.step
      BY <3>2, LaunchConstantsOK DEF GEO!Whole, GeoTypes, GeoAt
    <3>4. GeoUpTo(c, s, n + 1)
      BY <1>2, <1>3, <2>2, <3>2, <3>3 DEF GeoReady, GeoStep
    <3>5. \A name \in GEO!Checkpoint(at.stage) : o.file # GeoFile(name)
      BY <2>2, GeoStepFilesDiffer DEF GeoFile
    <3>6. GeoUpTo(c, s, n + 1)'
      BY <1>1, <3>4, <3>5
    <3>7. ASSUME NEW name \in GEO!Checkpoint(s) PROVE GEO!IsComplete(GEO!In(c, s, n, name))
      BY <1>2, <1>3, <2>2, <3>2, <3>3, <3>7 DEF GeoReady, GeoStep, GeoPending
    <3>8. GEO!Intact(c, s, n)'
      BY <1>4, <3>7 DEF GEO!Intact
    <3>9. QED BY <1>1, <2>2, <3>1, <3>3, <3>6, <3>8
  <2>3. CASE o.file # f
    <3>1. disk'[f] = disk[f] /\ GEO!IsWhole(f)
      BY <1>1, <1>5, <2>1, <2>3 DEF GEO!IsWhole
    <3>2. PICK n \in 0..MaxStep : n = disk[f].step
      BY <3>1 DEF GeoRecords
    <3>3. GEO!Intact(c, s, n) /\ GeoUpTo(c, s, n + 1)
      BY <1>3, <3>1, <3>2 DEF GeoIntact
    <3>4. \/ c # at.cycle \/ s # at.stage \/ at.step <= n + 1
          \/ \A name \in GEO!Checkpoint(at.stage) : o.file # GeoFile(name)
      <4>1. SUFFICES ASSUME c = at.cycle, s = at.stage,
                            NEW name \in GEO!Checkpoint(at.stage), o.file = GeoFile(name)
                     PROVE  at.step <= n + 1
        OBVIOUS
      <4>2. at.pc = "solve"
        BY <1>2, <4>1, GeoKinds DEF GeoFile
      <4>3. n = at.step \/ n + 1 = at.step
        BY <1>3, <3>1, <3>2, <4>1, <4>2 DEF GeoSolving, GeoStep
      <4>4. QED BY <1>2, <3>2, <4>3
    <3>5. GeoUpTo(c, s, n + 1)'
      BY <1>1, <3>3, <3>4
    <3>6. QED BY <1>4, <3>1, <3>2, <3>3, <3>5
  <2>4. QED BY <2>2, <2>3
<1>6. QED BY <1>5 DEF GeoIntact, GEO!Intact, GeoUpTo

\* Stages are ordered by their cycle first.
LEMMA StageOrder ==
  ASSUME NEW c \in Int, NEW s \in {0, 1}, NEW d \in Int, NEW t \in {0, 1}
  PROVE  2 * c + s > 2 * d + t <=> c > d \/ (c = d /\ s = 1 /\ t = 0)
OBVIOUS

LEMMA GeoWrittenNewest ==
  ASSUME GeoInv, GEO!SameSolver, phase = "running", todo # <<>>, ~GEO!Exists(todo[1].file),
         NEW v, v = todo[1].value \/ v = GEO!Torn, disk' = [disk EXCEPT ![todo[1].file] = v]
  PROVE  /\ GeoNewest'
         /\ \A c \in 0..MaxCycle, s \in {0, 1} : 2 * c + s > 2 * at.cycle + at.stage => ~GeoBegun(c, s)'
<1> USE DEF GeoInv
<1> DEFINE o == todo[1]
           ofStage == \/ o.file = GeoStep
                      \/ \E name \in GEO!Checkpoint(at.stage) : o.file = GeoFile(name)
<1>1. /\ disk'[o.file] = v /\ \A f \in GEO!Files \ {o.file} : disk'[f] = disk[f]
      /\ \A c \in 0..MaxCycle, s \in {0, 1} : GeoBegun(c, s)' =>
           GeoBegun(c, s) \/ (c = at.cycle /\ s = at.stage /\ ofStage)
  BY GeoWritten
<1>2. /\ GeoWrites(1) /\ 1 \in DOMAIN todo /\ at.step \in 0..MaxStep /\ at.stage \in {0, 1}
      /\ at.cycle \in 0..MaxCycle + 1 /\ (at.pc # "cycle" => at.cycle <= MaxCycle)
  BY GeoHead, LaunchConstantsOK DEF GeoQueue, GeoTypes, GeoAt
<1>3. GeoNewest /\ GeoLatest
  BY DEF GeoSafe, GeoPlace
<1>4. \A c \in 0..MaxCycle, s \in {0, 1} : 2 * c + s > 2 * at.cycle + at.stage => ~GeoBegun(c, s)
  BY <1>3 DEF GeoLatest, GeoLater
<1>5. \A c \in 0..MaxCycle, s \in {0, 1} : 2 * c + s > 2 * at.cycle + at.stage => ~GeoBegun(c, s)'
  BY <1>1, <1>4
<1>6. ASSUME NEW k \in Int, NEW t \in Int,
             GEO!IsWhole(GEO!Cycle)', k = disk'[GEO!Cycle].step,
             GEO!IsWhole(GEO!Status(k))', t = disk'[GEO!Status(k)].step
      PROVE  \A c \in 0..MaxCycle, s \in {0, 1} : 2 * c + s > 2 * k + t => ~GeoBegun(c, s)'
  <2>1. CASE o.file = GEO!Cycle
    <3>1. v = o.value
      BY <1>1, <1>6, <2>1 DEF GEO!IsWhole, GEO!Torn
    <3>2. k = at.cycle /\ at.cycle \in 0..MaxCycle
      BY <1>1, <1>2, <1>6, <2>1, <3>1, GeoKinds DEF GEO!Whole
    <3>3. disk'[GEO!Status(k)] = disk[GEO!Status(k)]
      BY <1>1, <2>1, <3>2, GeoFileNames, GeoFilesDiffer
    <3>4. GEO!IsWhole(GEO!Status(at.cycle)) /\ t = disk[GEO!Status(at.cycle)].step /\ t \in {0, 1}
      BY <1>6, <3>2, <3>3 DEF GEO!IsWhole, GeoRecords
    <3>5. t = 0 => ~GeoBegun(at.cycle, 1)
      BY <1>3, <3>2, <3>4 DEF GeoLatest
    <3>6. ~ofStage
      BY <2>1, GeoFilesDiffer, GeoStepFilesDiffer DEF GeoStep, GeoFile
    <3>7. ASSUME NEW c \in 0..MaxCycle, NEW s \in {0, 1}, 2 * c + s > 2 * k + t
          PROVE  ~GeoBegun(c, s)
      <4>1. CASE c = at.cycle
        BY <3>2, <3>4, <3>5, <3>7, <4>1
      <4>2. CASE c # at.cycle
        <5>1. c > at.cycle
          BY <3>2, <3>4, <3>7, <4>2, StageOrder
        <5>2. 2 * c + s > 2 * at.cycle + at.stage
          BY <1>2, <3>2, <5>1, StageOrder
        <5>3. QED BY <1>4, <5>2
      <4>3. QED BY <4>1, <4>2
    <3>8. QED BY <1>1, <3>6, <3>7
  <2>2. CASE o.file # GEO!Cycle
    <3>1. disk'[GEO!Cycle] = disk[GEO!Cycle]
      BY <1>1, <2>2, GeoFileNames
    <3>2. GEO!IsWhole(GEO!Cycle) /\ k = disk[GEO!Cycle].step /\ k \in 0..MaxCycle
      BY <1>6, <3>1 DEF GEO!IsWhole, GeoRecords
    <3>3. CASE o.file = GEO!Status(k)
      <4>1. v = o.value
        BY <1>1, <1>6, <3>3 DEF GEO!IsWhole, GEO!Torn
      <4>2. k = at.cycle /\ o.value = GEO!Whole(at.stage, run)
        <5>1. todo[1].file = GEO!Status(k)
          BY <3>3
        <5>2. QED BY <1>2, <5>1, GeoKinds
      <4>3. t = at.stage
        BY <1>1, <1>6, <3>3, <4>1, <4>2 DEF GEO!Whole
      <4>4. QED BY <1>5, <4>2, <4>3
    <3>4. CASE o.file # GEO!Status(k)
      <4>1. disk'[GEO!Status(k)] = disk[GEO!Status(k)]
        BY <1>1, <3>2, <3>4, GeoFileNames
      <4>2. GEO!IsWhole(GEO!Status(k)) /\ t = disk[GEO!Status(k)].step
        BY <1>6, <4>1 DEF GEO!IsWhole
      <4>3. \A c \in 0..MaxCycle, s \in {0, 1} : 2 * c + s > 2 * k + t => ~GeoBegun(c, s)
        BY <1>3, <3>2, <4>2 DEF GeoNewest, GeoLater
      <4>4. ofStage => k = at.cycle /\ t = at.stage
        BY <3>2, <4>2, GeoRecordsAhead
      <4>5. QED BY <1>1, <1>5, <4>3, <4>4
    <3>5. QED BY <3>3, <3>4
  <2>3. QED BY <2>1, <2>2
<1>7. disk' \in [GEO!Files -> GeoContents]
  <2>1. todo[1].value \in GeoContents /\ disk \in [GEO!Files -> GeoContents]
    BY GeoHead DEF GeoTypes, GeoOps
  <2>2. GEO!Torn \in GeoContents
    BY LaunchConstantsOK DEF GeoContents, GEO!Contents, GEO!Torn
  <2>3. QED BY <2>1, <2>2
<1>8. GeoNewest'
  <2>1. SUFFICES ASSUME GEO!IsWhole(GEO!Cycle)', GEO!IsWhole(GEO!Status(disk[GEO!Cycle].step))'
                 PROVE  GeoLater(disk[GEO!Cycle].step, disk[GEO!Status(disk[GEO!Cycle].step)].step)'
    BY DEF GeoNewest
  <2>2. PICK k \in Int : k = disk'[GEO!Cycle].step
    BY <1>7, GeoFileNames DEF GeoContents, GEO!Contents
  <2>3. k \in 0..MaxCycle
    <3>1. CASE o.file = GEO!Cycle
      <4>1. v = o.value
        BY <1>1, <2>1, <3>1 DEF GEO!IsWhole, GEO!Torn
      <4>2. QED BY <1>1, <1>2, <2>2, <3>1, <4>1, GeoKinds DEF GEO!Whole
    <3>2. CASE o.file # GEO!Cycle
      BY <1>1, <2>1, <2>2, <3>2, GeoFileNames DEF GEO!IsWhole, GeoRecords
    <3>3. QED BY <3>1, <3>2
  <2>4. PICK t \in Int : t = disk'[GEO!Status(k)].step
    BY <1>7, <2>3, GeoFileNames DEF GeoContents, GEO!Contents
  <2>5. GEO!IsWhole(GEO!Status(k))'
    BY <2>1, <2>2 DEF GEO!IsWhole
  <2>6. \A c \in 0..MaxCycle, s \in {0, 1} : 2 * c + s > 2 * k + t => ~GeoBegun(c, s)'
    BY <1>6, <2>1, <2>2, <2>4, <2>5
  <2>7. QED BY <2>2, <2>4, <2>6 DEF GeoLater
<1>9. QED BY <1>5, <1>8

\* The existing file is moved away before it is written again.
LEMMA GeoMoved ==
  ASSUME GeoInv, GEO!SameSolver, phase = "running", todo # <<>>, GEO!Exists(todo[1].file),
         disk' = [disk EXCEPT ![todo[1].file] = GEO!Absent],
         todo' = todo, phase' = phase, run' = run, at' = at
  PROVE  GeoIntact' /\ GeoNewest' /\ GeoReady' /\ GeoPlace'
<1> USE DEF GeoInv
<1> DEFINE o == todo[1]
<1>1. /\ GeoWrites(1) /\ 1 \in DOMAIN todo /\ DOMAIN todo = 1..Len(todo) /\ Len(todo) \in Nat
      /\ \A i \in DOMAIN todo : GeoWrites(i)
      /\ disk \in [GEO!Files -> GeoContents] /\ o.file \in GEO!Files
  BY GeoHead DEF GeoQueue, GeoTypes, GeoOps
<1>2. disk'[o.file] = GEO!Absent /\ \A f \in GEO!Files \ {o.file} : disk'[f] = disk[f]
  BY <1>1
<1>3. /\ \A c \in 0..MaxCycle, s \in {0, 1} : GeoBegun(c, s)' => GeoBegun(c, s)
      /\ \A c, s : GeoLater(c, s) => GeoLater(c, s)'
      /\ \A c \in 0..MaxCycle, s \in {0, 1} : \A n : GeoUpTo(c, s, n) => GeoUpTo(c, s, n)'
  BY <1>2, GeoShrinks
<1>4. \A f \in GEO!Files : GEO!IsWhole(f)' => f # o.file /\ GEO!IsWhole(f) /\ disk'[f] = disk[f]
  BY <1>2 DEF GEO!IsWhole, GEO!Absent
<1>5. \A f \in GEO!Files : GEO!IsComplete(f) /\ f # o.file => GEO!IsComplete(f)'
  BY <1>2 DEF GEO!IsComplete
<1>6. GeoIntact /\ GeoNewest /\ GeoReady /\ GeoLatest /\ GeoFound /\ GeoStarting /\ GeoSolving
  BY DEF GeoSafe, GeoPlace
<1>7. at.stage \in {0, 1} /\ at.cycle \in 0..MaxCycle + 1 /\ at.step \in 0..MaxStep
      /\ (at.pc # "cycle" => at.cycle <= MaxCycle)
  BY LaunchConstantsOK DEF GeoTypes, GeoAt
<1>8. GeoIntact'
  <2>1. ASSUME NEW c \in 0..MaxCycle, NEW s \in {0, 1}, GEO!IsWhole(GEO!Step(c, s))'
        PROVE  \E n \in 0..MaxStep : /\ n = disk'[GEO!Step(c, s)].step
                                     /\ GEO!Intact(c, s, n)' /\ GeoUpTo(c, s, n + 1)'
    <3>1. GEO!IsWhole(GEO!Step(c, s)) /\ disk'[GEO!Step(c, s)] = disk[GEO!Step(c, s)]
      BY <1>4, <2>1, GeoFileNames
    <3>2. PICK n \in 0..MaxStep : n = disk[GEO!Step(c, s)].step
      BY <3>1 DEF GeoRecords
    <3>3. GEO!Intact(c, s, n) /\ GeoUpTo(c, s, n + 1)
      BY <1>6, <3>1, <3>2 DEF GeoIntact
    <3>4. ASSUME NEW name \in GEO!Checkpoint(s) PROVE o.file # GEO!In(c, s, n, name)
      <4>1. SUFFICES ASSUME o.file = GEO!In(c, s, n, name) PROVE FALSE
        OBVIOUS
      <4>2. c = at.cycle /\ s = at.stage /\ n = at.step /\ at.pc = "solve"
        BY <1>1, <4>1, GeoKinds
      <4>3. o.file = GeoFile(name) /\ name \in GEO!Checkpoint(at.stage)
        BY <4>1, <4>2 DEF GeoFile
      <4>4. disk[GeoStep].step # at.step
        BY <1>1, <1>6, <3>1, <4>2, <4>3 DEF GeoSolving, GeoStep
      <4>5. QED BY <3>2, <4>2, <4>4 DEF GeoStep
    <3>5. GEO!Intact(c, s, n)'
      BY <1>5, <3>3, <3>4, GeoFileNames DEF GEO!Intact
    <3>6. QED BY <1>3, <3>1, <3>2, <3>3, <3>5
  <2>2. QED BY <2>1 DEF GeoIntact, GEO!Intact, GeoUpTo
<1>9. GeoNewest'
  <2>1. SUFFICES ASSUME GEO!IsWhole(GEO!Cycle)', GEO!IsWhole(GEO!Status(disk[GEO!Cycle].step))'
                 PROVE  GeoLater(disk[GEO!Cycle].step, disk[GEO!Status(disk[GEO!Cycle].step)].step)'
    BY DEF GeoNewest
  <2>2. GEO!IsWhole(GEO!Cycle) /\ disk'[GEO!Cycle] = disk[GEO!Cycle]
    BY <1>4, <2>1, GeoFileNames
  <2>3. PICK k \in 0..MaxCycle : k = disk[GEO!Cycle].step
    BY <2>2 DEF GeoRecords
  <2>4. GEO!IsWhole(GEO!Status(k))'
    BY <2>1, <2>2, <2>3 DEF GEO!IsWhole
  <2>5. GEO!IsWhole(GEO!Status(k)) /\ disk'[GEO!Status(k)] = disk[GEO!Status(k)]
    BY <1>4, <2>4, GeoFileNames
  <2>6. PICK t \in {0, 1} : t = disk[GEO!Status(k)].step
    BY <2>5 DEF GeoRecords
  <2>7. GeoLater(k, t)'
    BY <1>3, <1>6, <2>2, <2>3, <2>5, <2>6 DEF GeoNewest
  <2>8. QED BY <2>2, <2>3, <2>5, <2>6, <2>7 DEF GeoLater
<1>10. GeoReady'
  <2>1. ASSUME NEW i \in DOMAIN todo, todo[i].file = GeoStep
        PROVE  \E n \in 0..MaxStep :
                 /\ n = todo[i].value.step /\ GeoUpTo(at.cycle, at.stage, n + 1)'
                 /\ \A name \in GEO!Checkpoint(at.stage) :
                      LET f == GEO!In(at.cycle, at.stage, n, name)
                      IN  GEO!IsComplete(f)' \/ GeoPending(f, i)
    <3>1. /\ at.cycle <= MaxCycle
          /\ todo[i].value = GEO!Whole(at.step, run) \/ (todo[i].value = GEO!Whole(at.probe, run) /\ at.probe >= 0)
      BY <1>1, <1>7, <2>1, GeoKinds DEF GeoStep
    <3>2. PICK n \in 0..MaxStep : n = todo[i].value.step
      BY <3>1, LaunchConstantsOK DEF GEO!Whole, GeoTypes, GeoAt
    <3>3. GeoUpTo(at.cycle, at.stage, n + 1)'
      BY <1>3, <1>6, <1>7, <2>1, <3>1, <3>2 DEF GeoReady
    <3>4. ASSUME NEW name \in GEO!Checkpoint(at.stage)
          PROVE  \/ GEO!IsComplete(GEO!In(at.cycle, at.stage, n, name))'
                 \/ GeoPending(GEO!In(at.cycle, at.stage, n, name), i)
      <4> DEFINE f == GEO!In(at.cycle, at.stage, n, name)
      <4>1. GEO!IsComplete(f) \/ GeoPending(f, i)
        BY <1>6, <2>1, <3>2 DEF GeoReady
      <4>2. CASE o.file = f
        <5>1. i # 1
          BY <2>1, <4>2, GeoStepFilesDiffer DEF GeoStep
        <5>2. 1 \in 1..(i - 1)
          BY <1>1, <5>1
        <5>3. QED BY <4>2, <5>2 DEF GeoPending
      <4>3. CASE o.file # f
        <5>1. f \in GEO!Files
          BY <1>7, <3>1, GeoFileNames
        <5>2. QED BY <1>5, <4>1, <4>3, <5>1
      <4>4. QED BY <4>2, <4>3
    <3>5. QED BY <3>2, <3>3, <3>4
  <2>2. QED BY <2>1 DEF GeoReady, GeoStep, GeoPending, GeoUpTo, GEO!IsComplete
<1>11. CycleKnown => CycleKnown'
  BY <1>4, GeoFileNames DEF CycleKnown
<1>12. StatusKnown /\ at.cycle <= MaxCycle => StatusKnown'
  BY <1>4, <1>7, GeoFileNames DEF StatusKnown
<1>13. GeoLatest'
  <2>1. GeoLater(at.cycle, at.stage)
    BY <1>6 DEF GeoLatest
  <2>2. GeoLater(at.cycle, at.stage)'
    BY <1>3, <2>1 DEF GeoLater
  <2>3. ASSUME at.cycle \in 0..MaxCycle, GEO!IsWhole(GEO!Status(at.cycle))',
               disk'[GEO!Status(at.cycle)].step = 0
        PROVE  ~GeoBegun(at.cycle, 1)'
    <3>1. GEO!IsWhole(GEO!Status(at.cycle)) /\ disk[GEO!Status(at.cycle)].step = 0
      BY <1>4, <2>3, GeoFileNames
    <3>2. ~GeoBegun(at.cycle, 1)
      BY <1>6, <2>3, <3>1 DEF GeoLatest
    <3>3. QED BY <1>3, <2>3, <3>2
  <2>4. QED BY <2>2, <2>3 DEF GeoLatest, GEO!IsWhole, GeoBegun, GeoLater
<1>14. GeoFound'
  BY DEF GeoFound
<1>15. GeoStarting'
  <2>1. ~GeoBegun(at.cycle, at.stage) /\ at.cycle <= MaxCycle => ~GeoBegun(at.cycle, at.stage)'
    BY <1>3, <1>7
  <2>2. QED BY <1>6, <1>7, <1>11, <1>12, <2>1 DEF GeoStarting, GeoBegun
<1>16. GeoSolving'
  <2>1. SUFFICES ASSUME at.pc = "solve"
                 PROVE  GeoSolving'
    BY DEF GeoSolving
  <2>2. at.cycle \in 0..MaxCycle
    BY <1>7, <2>1
  <2>3. GeoUpTo(at.cycle, at.stage, at.step + 1)'
    BY <1>3, <1>6, <1>7, <2>1, <2>2 DEF GeoSolving
  <2>4. GEO!IsWhole(GeoStep)' => GEO!IsWhole(GeoStep) /\ disk'[GeoStep] = disk[GeoStep]
    BY <1>4, <1>7, <2>2, GeoFileNames DEF GeoStep
  <2>5. at.saveFirst => ~GeoBegun(at.cycle, at.stage)'
    BY <1>3, <1>6, <1>7, <2>1, <2>2 DEF GeoSolving
  <2>6. QED BY <1>6, <2>1, <2>3, <2>4, <2>5 DEF GeoSolving, GeoStep, GeoFile, GeoUpTo, GeoBegun
<1>17. QED BY <1>8, <1>9, <1>10, <1>13, <1>14, <1>15, <1>16 DEF GeoPlace

\* The file is written and leaves the queue.
LEMMA GeoWrote ==
  ASSUME GeoInv, GEO!SameSolver, phase = "running", todo # <<>>, ~GEO!Exists(todo[1].file),
         disk' = [disk EXCEPT ![todo[1].file] = todo[1].value],
         todo' = Tail(todo), phase' = phase, run' = run, at' = at
  PROVE  GeoIntact' /\ GeoNewest' /\ GeoReady' /\ GeoPlace'
<1> USE DEF GeoInv
<1> DEFINE o == todo[1]
           ofStage == \/ o.file = GeoStep
                      \/ \E name \in GEO!Checkpoint(at.stage) : o.file = GeoFile(name)
<1>1. GeoIntact' /\ GeoNewest'
  BY GeoWrittenIntact, GeoWrittenNewest
<1>2. /\ disk'[o.file] = o.value /\ \A f \in GEO!Files \ {o.file} : disk'[f] = disk[f]
      /\ \A f \in GEO!Files : GEO!IsComplete(f) => GEO!IsComplete(f)'
      /\ \A c \in 0..MaxCycle, s \in {0, 1} : GeoBegun(c, s)' =>
           GeoBegun(c, s) \/ (c = at.cycle /\ s = at.stage /\ ofStage)
      /\ \A c \in 0..MaxCycle, s \in {0, 1} : \A n :
           /\ GeoUpTo(c, s, n)
           /\ \/ c # at.cycle \/ s # at.stage \/ at.step <= n
              \/ \A name \in GEO!Checkpoint(at.stage) : o.file # GeoFile(name)
           => GeoUpTo(c, s, n)'
  BY GeoWritten
<1>3. \A c \in 0..MaxCycle, s \in {0, 1} : 2 * c + s > 2 * at.cycle + at.stage => ~GeoBegun(c, s)'
  BY GeoWrittenNewest
<1>4. /\ GeoWrites(1) /\ 1 \in DOMAIN todo /\ DOMAIN todo = 1..Len(todo) /\ Len(todo) \in Nat
      /\ \A i \in DOMAIN todo : GeoWrites(i)
      /\ DOMAIN todo' = 1..(Len(todo) - 1)
      /\ \A i \in DOMAIN todo' : i + 1 \in DOMAIN todo /\ todo'[i] = todo[i + 1]
  BY GeoHead DEF GeoQueue
<1>5. GeoReady /\ GeoLatest /\ GeoFound /\ GeoStarting /\ GeoSolving
  BY DEF GeoSafe, GeoPlace
<1>6. /\ at.stage \in {0, 1} /\ at.cycle \in 0..MaxCycle + 1 /\ at.step \in 0..MaxStep
      /\ (at.pc # "cycle" => at.cycle <= MaxCycle)
  BY LaunchConstantsOK DEF GeoTypes, GeoAt
<1>7. ofStage => /\ GEO!IsWhole(GEO!Cycle) => disk[GEO!Cycle].step = at.cycle
                 /\ GEO!IsWhole(GEO!Status(at.cycle)) => disk[GEO!Status(at.cycle)].step = at.stage
  BY GeoRecordsAhead
\* Where the queue still holds a file, it did before, and the file is another one.
<1>8. ASSUME NEW i \in DOMAIN todo \ {1} PROVE i - 1 \in DOMAIN todo' /\ todo'[i - 1] = todo[i]
  <2>1. i - 1 \in 1..(Len(todo) - 1) /\ (i - 1) + 1 = i
    BY <1>4, <1>8
  <2>2. QED BY <1>4, <2>1
<1>9. GeoReady'
  <2>1. ASSUME NEW i \in DOMAIN todo', todo'[i].file = GeoStep
        PROVE  \E n \in 0..MaxStep :
                 /\ n = todo'[i].value.step /\ GeoUpTo(at.cycle, at.stage, n + 1)'
                 /\ \A name \in GEO!Checkpoint(at.stage) :
                      LET f == GEO!In(at.cycle, at.stage, n, name)
                      IN  GEO!IsComplete(f)' \/ (\E j \in 1..(i - 1) : todo'[j].file = f)
    <3>1. i + 1 \in DOMAIN todo /\ todo[i + 1].file = GeoStep /\ todo'[i] = todo[i + 1]
      BY <1>4, <2>1
    <3>2. /\ at.cycle <= MaxCycle
          /\ \/ todo[i + 1].value = GEO!Whole(at.step, run)
             \/ todo[i + 1].value = GEO!Whole(at.probe, run) /\ at.probe >= 0 /\ at.pc = "cycle"
      BY <1>4, <1>6, <3>1, GeoKinds DEF GeoStep
    <3>3. PICK n \in 0..MaxStep : n = todo[i + 1].value.step
      BY <3>2, LaunchConstantsOK DEF GEO!Whole, GeoTypes, GeoAt
    <3>4. GeoUpTo(at.cycle, at.stage, n + 1)'
      <4>1. GeoUpTo(at.cycle, at.stage, n + 1)
        BY <1>5, <3>1, <3>3 DEF GeoReady
      <4>2. \/ at.step <= n + 1
            \/ \A name \in GEO!Checkpoint(at.stage) : o.file # GeoFile(name)
        <5>1. CASE at.pc = "solve"
          BY <1>6, <3>2, <3>3, <5>1 DEF GEO!Whole
        <5>2. CASE at.pc # "solve"
          BY <1>4, <5>2, GeoKinds DEF GeoFile
        <5>3. QED BY <5>1, <5>2
      <4>3. QED BY <1>2, <1>6, <3>2, <4>1, <4>2
    <3>5. ASSUME NEW name \in GEO!Checkpoint(at.stage)
          PROVE  \/ GEO!IsComplete(GEO!In(at.cycle, at.stage, n, name))'
                 \/ \E j \in 1..(i - 1) : todo'[j].file = GEO!In(at.cycle, at.stage, n, name)
      <4> DEFINE f == GEO!In(at.cycle, at.stage, n, name)
      <4>1. f \in GEO!Files
        BY <1>6, <3>2, GeoFileNames
      <4>2. GEO!IsComplete(f) \/ GeoPending(f, i + 1)
        BY <1>5, <3>1, <3>3 DEF GeoReady
      <4>3. CASE GEO!IsComplete(f)
        BY <1>2, <4>1, <4>3
      <4>4. CASE GeoPending(f, i + 1)
        <5>1. PICK j \in 1..i : todo[j].file = f
          BY <2>1, <4>4 DEF GeoPending
        <5>2. CASE j = 1
          <6>1. o.file = f
            BY <5>1, <5>2
          <6>2. o.value.state \in {"whole", "garbage"}
            BY <1>4, <6>1, GeoKinds
          <6>3. QED BY <1>2, <6>1, <6>2 DEF GEO!IsComplete
        <5>3. CASE j # 1
          <6>1. j - 1 \in 1..(i - 1) /\ j \in DOMAIN todo \ {1}
            BY <1>4, <2>1, <5>1, <5>3
          <6>2. QED BY <1>8, <5>1, <6>1
        <5>4. QED BY <5>2, <5>3
      <4>5. QED BY <4>2, <4>3, <4>4
    <3>6. QED BY <3>1, <3>3, <3>4, <3>5
  <2>2. QED BY <2>1 DEF GeoReady, GeoStep, GeoPending, GeoUpTo, GEO!IsComplete
<1>10. CycleKnown => CycleKnown'
  <2>1. CASE o.file = GEO!Cycle
    <3>1. o.value = GEO!Whole(at.cycle, run)
      BY <1>4, <2>1, GeoKinds
    <3>2. disk'[GEO!Cycle].step = at.cycle
      BY <1>2, <2>1, <3>1 DEF GEO!Whole
    <3>3. QED BY <3>2 DEF CycleKnown
  <2>2. CASE o.file # GEO!Cycle
    <3>1. disk'[GEO!Cycle] = disk[GEO!Cycle]
      BY <1>2, <2>2, GeoFileNames
    <3>2. ASSUME NEW i \in DOMAIN todo, todo[i].file = GEO!Cycle
          PROVE  \E j \in DOMAIN todo' : todo'[j].file = GEO!Cycle
      BY <1>8, <2>2, <3>2
    <3>3. QED BY <3>1, <3>2 DEF CycleKnown, GEO!IsWhole
  <2>3. QED BY <2>1, <2>2
<1>11. StatusKnown /\ at.cycle <= MaxCycle => StatusKnown'
  <2>1. CASE o.file = GEO!Status(at.cycle)
    <3>1. o.value = GEO!Whole(at.stage, run)
      BY <1>4, <2>1, GeoKinds
    <3>2. disk'[GEO!Status(at.cycle)].step = at.stage
      BY <1>2, <2>1, <3>1 DEF GEO!Whole
    <3>3. QED BY <3>2 DEF StatusKnown
  <2>2. CASE o.file # GEO!Status(at.cycle)
    <3>1. at.cycle <= MaxCycle => disk'[GEO!Status(at.cycle)] = disk[GEO!Status(at.cycle)]
      BY <1>2, <1>6, <2>2, GeoFileNames
    <3>2. ASSUME NEW i \in DOMAIN todo, todo[i].file = GEO!Status(at.cycle)
          PROVE  \E j \in DOMAIN todo' : todo'[j].file = GEO!Status(at.cycle)
      BY <1>8, <2>2, <3>2
    <3>3. QED BY <3>1, <3>2 DEF StatusKnown, GEO!IsWhole
  <2>3. QED BY <2>1, <2>2
<1>12. GeoLatest'
  <2>1. ASSUME at.cycle \in 0..MaxCycle, GEO!IsWhole(GEO!Status(at.cycle))',
               disk'[GEO!Status(at.cycle)].step = 0
        PROVE  ~GeoBegun(at.cycle, 1)'
    <3>1. CASE o.file = GEO!Status(at.cycle)
      <4>1. o.value = GEO!Whole(at.stage, run)
        BY <1>4, <3>1, GeoKinds
      <4>2. at.stage = 0
        BY <1>2, <2>1, <3>1, <4>1 DEF GEO!Whole
      <4>3. QED BY <1>3, <2>1, <4>2, StageOrder
    <3>2. CASE o.file # GEO!Status(at.cycle)
      <4>1. disk'[GEO!Status(at.cycle)] = disk[GEO!Status(at.cycle)]
        BY <1>2, <2>1, <3>2, GeoFileNames
      <4>2. GEO!IsWhole(GEO!Status(at.cycle)) /\ disk[GEO!Status(at.cycle)].step = 0
        BY <2>1, <4>1 DEF GEO!IsWhole
      <4>3. ~GeoBegun(at.cycle, 1)
        BY <1>5, <2>1, <4>2 DEF GeoLatest
      <4>4. ofStage => at.stage = 0
        BY <1>7, <4>2
      <4>5. QED BY <1>2, <2>1, <4>3, <4>4
    <3>3. QED BY <3>1, <3>2
  <2>2. QED BY <1>3, <2>1 DEF GeoLatest, GeoLater, GEO!IsWhole, GeoBegun
<1>13. GeoFound'
  BY DEF GeoFound
<1>14. GeoStarting'
  <2>1. ASSUME at.pc # "solve", at.stage \notin at.resume, at.cycle <= MaxCycle
        PROVE  ~GeoBegun(at.cycle, at.stage)'
    <3>1. ~GeoBegun(at.cycle, at.stage)
      BY <1>5, <2>1 DEF GeoStarting
    <3>2. ~ofStage
      <4>1. o.file # GeoStep
        BY <1>4, <2>1, GeoKinds DEF GeoStep
      <4>2. \A name \in GEO!Checkpoint(at.stage) : o.file # GeoFile(name)
        BY <1>4, <2>1, GeoKinds DEF GeoFile
      <4>3. QED BY <4>1, <4>2
    <3>3. QED BY <1>2, <1>6, <2>1, <3>1, <3>2
  <2>2. QED BY <1>5, <1>6, <1>10, <1>11, <2>1 DEF GeoStarting, GeoBegun
<1>15. GeoSolving'
  <2>1. SUFFICES ASSUME at.pc = "solve"
                 PROVE  GeoSolving'
    BY DEF GeoSolving
  <2>2. at.cycle \in 0..MaxCycle
    BY <1>6, <2>1
  <2>3. GeoUpTo(at.cycle, at.stage, at.step + 1)'
    <3>1. GeoUpTo(at.cycle, at.stage, at.step + 1)
      BY <1>5, <2>1 DEF GeoSolving
    <3>2. at.step <= at.step + 1
      BY <1>6
    <3>3. QED BY <1>2, <1>6, <2>2, <3>1, <3>2
  <2>4. ASSUME GEO!IsWhole(GeoStep)'
        PROVE  \/ disk'[GeoStep].step = at.step
               \/ disk'[GeoStep].step + 1 = at.step /\ \E i \in DOMAIN todo' : todo'[i].file = GeoStep
    <3>1. CASE o.file = GeoStep
      <4>1. o.value = GEO!Whole(at.step, run)
        BY <1>4, <2>1, <3>1, GeoKinds DEF GeoStep
      <4>2. QED BY <1>2, <3>1, <4>1 DEF GEO!Whole
    <3>2. CASE o.file # GeoStep
      <4>1. disk'[GeoStep] = disk[GeoStep]
        BY <1>2, <1>6, <2>2, <3>2, GeoFileNames DEF GeoStep
      <4>2. GEO!IsWhole(GeoStep)
        BY <2>4, <4>1 DEF GEO!IsWhole, GeoStep
      <4>3. \/ disk[GeoStep].step = at.step
            \/ disk[GeoStep].step + 1 = at.step /\ \E i \in DOMAIN todo : todo[i].file = GeoStep
        BY <1>5, <2>1, <4>2 DEF GeoSolving
      <4>4. ASSUME NEW i \in DOMAIN todo, todo[i].file = GeoStep
            PROVE  \E j \in DOMAIN todo' : todo'[j].file = GeoStep
        BY <1>8, <3>2, <4>4
      <4>5. QED BY <4>1, <4>3, <4>4
    <3>3. QED BY <3>1, <3>2
  <2>5. ASSUME at.saveFirst PROVE ~GeoBegun(at.cycle, at.stage)'
    <3>1. ~GeoBegun(at.cycle, at.stage)
      BY <1>5, <2>1, <2>5 DEF GeoSolving
    <3>2. o.file # GeoStep
      BY <1>4, <2>1, <2>5, GeoKinds DEF GeoStep
    <3>3. \A name \in GEO!Checkpoint(at.stage) : o.file # GeoFile(name)
      BY <1>4, <2>1, <2>5, GeoKinds DEF GeoFile
    <3>4. QED BY <1>2, <1>6, <2>2, <3>1, <3>2, <3>3
  <2>6. ASSUME NEW i \in DOMAIN todo', NEW name \in GEO!Checkpoint(at.stage), todo'[i].file = GeoFile(name),
               GEO!IsWhole(GeoStep)'
        PROVE  disk'[GeoStep].step # at.step
    <3>1. i + 1 \in DOMAIN todo /\ todo[i + 1].file = GeoFile(name) /\ Len(todo) # 1
      BY <1>4, <2>6
    <3>2. o.file # GeoStep
      BY <1>4, <3>1, GeoKinds DEF GeoStep
    <3>3. disk'[GeoStep] = disk[GeoStep]
      BY <1>2, <1>6, <2>2, <3>2, GeoFileNames DEF GeoStep
    <3>4. GEO!IsWhole(GeoStep)
      BY <2>6, <3>3 DEF GEO!IsWhole, GeoStep
    <3>5. QED BY <1>5, <2>1, <3>1, <3>3, <3>4 DEF GeoSolving
  <2>7. at.resume = {}
    BY <1>5, <2>1 DEF GeoSolving
  <2>8. QED BY <2>1, <2>3, <2>4, <2>5, <2>6, <2>7
        DEF GeoSolving, GeoStep, GeoFile, GeoUpTo, GeoBegun, GEO!IsWhole
<1>16. QED BY <1>1, <1>9, <1>12, <1>13, <1>14, <1>15 DEF GeoPlace

LEMMA GeoFileStepKeeps ==
  ASSUME GeoInv, GEO!FileStep
  PROVE  GeoInv'
<1>1. GeoTypes' /\ GeoFresh' /\ GeoRecords' /\ GeoQueue'
  BY GeoFileStepTypes
<1>2. /\ phase = "running" /\ todo # <<>> /\ phase' = phase /\ run' = run /\ at' = at
      /\ \/ /\ GEO!Exists(todo[1].file) /\ todo' = todo
            /\ disk' = [disk EXCEPT ![todo[1].file] = GEO!Absent]
         \/ /\ ~GEO!Exists(todo[1].file) /\ todo' = Tail(todo)
            /\ disk' = [disk EXCEPT ![todo[1].file] = todo[1].value]
  BY GeoFileStep DEF GeoInv
<1>3. GEO!SameSolver' <=> GEO!SameSolver
  BY <1>2 DEF GEO!SameSolver
<1>4. GEO!SameSolver => GeoIntact' /\ GeoNewest' /\ GeoReady' /\ GeoPlace'
  BY <1>2, GeoMoved, GeoWrote
<1>5. GeoSafe'
  BY <1>3, <1>4 DEF GeoSafe
<1>6. QED BY <1>1, <1>5 DEF GeoInv

\* The process is killed.
LEMMA GeoCrashKeeps ==
  ASSUME GeoInv, GEO!Crash
  PROVE  GeoInv'
<1> USE DEF GeoInv
<1>1. /\ phase \in {"running", "search"} /\ phase' = "crashed" /\ todo' = <<>>
      /\ run' = run /\ at' = at
  BY DEF GEO!Crash
<1>2. \/ disk' = disk
      \/ /\ phase = "running" /\ todo # <<>> /\ ~GEO!Exists(todo[1].file)
         /\ disk' = [disk EXCEPT ![todo[1].file] = GEO!Torn]
  <2>1. SUFFICES ASSUME disk' # disk
                 PROVE  /\ phase = "running" /\ todo # <<>> /\ ~GEO!Exists(todo[1].file)
                        /\ disk' = [disk EXCEPT ![todo[1].file] = GEO!Torn]
    OBVIOUS
  <2>2. todo # <<>> /\ phase = "running"
    BY <1>1, <2>1 DEF GEO!Crash, GeoTypes
  <2>3. Head(todo) = todo[1] /\ todo[1].do = "write"
    BY <2>2, GeoHead DEF GeoOps
  <2>4. QED BY <2>1, <2>2, <2>3 DEF GEO!Crash
<1>3. disk \in [GEO!Files -> GeoContents] /\ GEO!Torn \in GeoContents
  BY LaunchConstantsOK DEF GeoTypes, GeoContents, GEO!Contents, GEO!Torn
<1>4. GeoTypes'
  <2>1. disk' \in [GEO!Files -> GeoContents] /\ todo' \in Seq(GeoOps)
    BY <1>1, <1>2, <1>3
  <2>2. QED BY <1>1, <2>1 DEF GeoTypes
<1>5. GeoFresh'
  BY <1>1 DEF GeoFresh
<1>6. ASSUME NEW f \in GEO!Files, GEO!IsWhole(f)'
      PROVE  GEO!IsWhole(f) /\ disk'[f] = disk[f]
  <2>1. disk'[f] = disk[f] \/ disk'[f] = GEO!Torn
    BY <1>2, <1>3
  <2>2. disk'[f] # GEO!Torn
    BY <1>6 DEF GEO!IsWhole, GEO!Torn
  <2>3. QED BY <1>6, <2>1, <2>2 DEF GEO!IsWhole
<1>7. GeoRecords'
  <2>1. GEO!IsWhole(GEO!Cycle)' => disk'[GEO!Cycle].step \in 0..MaxCycle
    BY <1>6, GeoFileNames DEF GeoRecords
  <2>2. \A c \in 0..MaxCycle : GEO!IsWhole(GEO!Status(c))' => disk'[GEO!Status(c)].step \in {0, 1}
    BY <1>6, GeoFileNames DEF GeoRecords
  <2>3. \A c \in 0..MaxCycle, s \in {0, 1} :
          GEO!IsWhole(GEO!Step(c, s))' => disk'[GEO!Step(c, s)].step \in 0..MaxStep
    BY <1>6, GeoFileNames DEF GeoRecords
  <2>4. \A c \in 0..MaxCycle, s \in {0, 1} :
          GEO!IsWhole(GEO!Opt(c, s))' => disk'[GEO!Opt(c, s)].run \in 1..run
    BY <1>6, GeoFileNames DEF GeoRecords
  <2>5. QED BY <1>1, <2>1, <2>2, <2>3, <2>4 DEF GeoRecords
<1>8. GeoQueue' /\ GeoReady'
  BY <1>1 DEF GeoQueue, GeoReady
<1>9. GeoPlace'
  BY <1>1 DEF GeoPlace, GeoLatest, GeoFound, GeoStarting, GeoSolving
<1>10. GEO!SameSolver => GeoIntact' /\ GeoNewest'
  <2>1. CASE disk' = disk
    BY <2>1, GeoSameDisk DEF GeoSafe
  <2>2. CASE disk' # disk
    BY <1>2, <2>2, GeoWrittenIntact, GeoWrittenNewest
  <2>3. QED BY <2>1, <2>2
<1>11. GEO!SameSolver' <=> GEO!SameSolver
  BY <1>1 DEF GEO!SameSolver
<1>12. QED BY <1>4, <1>5, <1>7, <1>8, <1>9, <1>10, <1>11 DEF GeoSafe

\* A step that leaves the files as they are: what is left to show.
LEMMA GeoQuiet ==
  ASSUME GeoInv, disk' = disk, run' = run, at'.solvers = at.solvers, GeoTypes', GeoFresh', GeoQueue',
         GEO!SameSolver => GeoReady' /\ GeoPlace'
  PROVE  GeoInv'
<1> USE DEF GeoInv
<1>1. GeoRecords'
  BY GeoSameDisk DEF GeoRecords
<1>2. GEO!SameSolver' <=> GEO!SameSolver
  BY DEF GEO!SameSolver
<1>3. GEO!SameSolver => GeoIntact' /\ GeoNewest'
  BY GeoSameDisk DEF GeoSafe
<1>4. QED BY <1>1, <1>2, <1>3 DEF GeoSafe

\* A process that ends, or was ended, leaves nothing to show but types.
LEMMA GeoStops ==
  ASSUME GeoInv, disk' = disk, run' = run, at'.solvers = at.solvers, todo' = <<>>,
         phase' \in {"exited", "done"}, GeoTypes'
  PROVE  GeoInv'
<1>1. GeoFresh' /\ GeoQueue' /\ GeoReady'
  BY DEF GeoFresh, GeoQueue, GeoReady
<1>2. GeoPlace'
  BY DEF GeoPlace, GeoLatest, GeoFound, GeoStarting, GeoSolving
<1>3. QED BY <1>1, <1>2, GeoQuiet

(***************************************************************************)
(* The steps of runOpt and of the stages.                                  *)
(***************************************************************************)
LEMMA GeoValues ==
  ASSUME NEW n \in 0..MaxStep + MaxCycle + 1, NEW r \in 0..MaxRuns, run \in 0..MaxRuns
  PROVE  /\ GEO!Whole(n, r) \in GeoContents
         /\ GEO!Computed(n) \in GeoContents /\ GEO!Computed(n).state \in {"whole", "garbage"}
         /\ \A f \in GEO!Files : \A v \in GeoContents : GEO!Write(f, v) \in GeoOps
<1>1. GEO!Whole(n, r) \in GeoContents
  BY LaunchConstantsOK DEF GeoContents, GEO!Contents, GEO!Whole
<1>2. GEO!Whole(n, run) \in GeoContents
  BY LaunchConstantsOK DEF GeoContents, GEO!Contents, GEO!Whole
<1>3. GEO!Garbage \in GeoContents
  BY LaunchConstantsOK DEF GeoContents, GEO!Contents, GEO!Garbage
<1>4. GEO!Computed(n) \in GeoContents
  BY <1>2, <1>3 DEF GEO!Computed
<1>5. GEO!Computed(n).state \in {"whole", "garbage"}
  BY DEF GEO!Computed, GEO!Whole, GEO!Garbage
<1>6. \A f \in GEO!Files : \A v \in GeoContents : GEO!Write(f, v) \in GeoOps
  BY DEF GeoOps, GEO!Write
<1>7. QED BY <1>1, <1>4, <1>5, <1>6

LEMMA GeoBeginCycle ==
  ASSUME GeoInv, GEO!BeginCycle
  PROVE  GeoInv'
<1> USE DEF GeoInv
<1> DEFINE a == GEO!Write(GEO!Cycle, GEO!Whole(at.cycle, run))
           b == GEO!Write(GEO!Status(at.cycle), GEO!Whole(at.stage, run))
<1>1. /\ phase = "running" /\ todo = <<>> /\ at.pc = "cycle" /\ at.cycle \in 0..MaxCycle
      /\ disk' = disk /\ phase' = phase /\ run' = run /\ todo' = <<a, b>>
      /\ at' = [at EXCEPT !.pc = IF at.stage = 0 THEN "ion" ELSE "between"]
  BY LaunchConstantsOK DEF GEO!BeginCycle, GEO!Idle, GeoTypes, GeoAt
<1>2. /\ at' \in GeoAt /\ at'.pc \in {"ion", "between"} /\ at'.cycle = at.cycle /\ at'.stage = at.stage
      /\ at'.solvers = at.solvers /\ at'.resume = at.resume
  BY <1>1 DEF GeoTypes, GeoAt
<1>3. at.stage \in {0, 1} /\ run \in 1..MaxRuns
  BY <1>1 DEF GeoTypes, GeoAt
<1>4. GeoTypes'
  <2>1. a \in GeoOps /\ b \in GeoOps
    <3>1. at.cycle \in 0..MaxStep + MaxCycle + 1 /\ at.stage \in 0..MaxStep + MaxCycle + 1 /\ run \in 0..MaxRuns
      BY <1>1, <1>3, LaunchConstantsOK
    <3>2. GEO!Whole(at.cycle, run) \in GeoContents /\ GEO!Whole(at.stage, run) \in GeoContents
      BY <3>1, GeoValues
    <3>3. QED BY <1>1, <1>3, <3>2, GeoFileNames, LaunchConstantsOK DEF GeoOps, GEO!Write
  <2>2. todo' \in Seq(GeoOps)
    BY <1>1, <2>1
  <2>3. QED BY <1>1, <1>2, <2>2 DEF GeoTypes
<1>5. GeoFresh'
  BY <1>1 DEF GeoFresh
<1>6. /\ DOMAIN todo' = {1, 2} /\ todo'[1] = a /\ todo'[2] = b
      /\ a.file = GEO!Cycle /\ a.value = GEO!Whole(at.cycle, run)
      /\ b.file = GEO!Status(at.cycle) /\ b.value = GEO!Whole(at.stage, run)
  BY <1>1 DEF GEO!Write
<1>7. GeoQueue'
  <2>1. GeoWrites(1)' /\ GeoWrites(2)'
    BY <1>1, <1>2, <1>6 DEF GeoWrites
  <2>2. QED BY <1>6, <2>1 DEF GeoQueue
<1>8. ASSUME GEO!SameSolver PROVE GeoReady' /\ GeoPlace'
  <2>1. GeoLatest /\ GeoStarting
    BY <1>8 DEF GeoSafe, GeoPlace
  <2>2. GeoReady'
    BY <1>2, <1>6, GeoFilesDiffer DEF GeoReady, GeoStep
  <2>3. GeoLatest'
    BY <1>1, <1>2, <2>1, GeoSameDisk DEF GeoLatest
  <2>4. GeoFound'
    BY <1>1 DEF GeoFound
  <2>5. CycleKnown' /\ StatusKnown'
    BY <1>2, <1>6 DEF CycleKnown, StatusKnown
  <2>6. GeoStarting'
    BY <1>1, <1>2, <2>1, <2>5, GeoSameDisk DEF GeoStarting
  <2>7. GeoSolving'
    BY <1>2 DEF GeoSolving
  <2>8. QED BY <2>2, <2>3, <2>4, <2>6, <2>7 DEF GeoPlace
<1>9. QED BY <1>1, <1>2, <1>4, <1>5, <1>7, <1>8, GeoQuiet

LEMMA GeoBetweenStages ==
  ASSUME GeoInv, GEO!BetweenStages
  PROVE  GeoInv'
<1> USE DEF GeoInv
<1> DEFINE b == GEO!Write(GEO!Status(at.cycle), GEO!Whole(at.stage, run))
<1>1. /\ phase = "running" /\ todo = <<>> /\ at.pc = "between" /\ at.cycle \in 0..MaxCycle
      /\ disk' = disk /\ phase' = phase /\ run' = run /\ todo' = <<b>>
      /\ at' = [at EXCEPT !.pc = "cell"]
  BY LaunchConstantsOK DEF GEO!BetweenStages, GEO!Idle, GeoTypes, GeoAt
<1>2. /\ at' \in GeoAt /\ at'.pc = "cell" /\ at'.cycle = at.cycle /\ at'.stage = at.stage
      /\ at'.solvers = at.solvers /\ at'.resume = at.resume
  BY <1>1 DEF GeoTypes, GeoAt
<1>3. at.stage \in {0, 1} /\ run \in 1..MaxRuns
  BY <1>1 DEF GeoTypes, GeoAt
<1>4. GeoTypes'
  <2>1. b \in GeoOps
    <3>1. at.stage \in 0..MaxStep + MaxCycle + 1 /\ run \in 0..MaxRuns
      BY <1>1, <1>3, LaunchConstantsOK
    <3>2. GEO!Whole(at.stage, run) \in GeoContents
      BY <3>1, GeoValues
    <3>3. QED BY <1>1, <1>3, <3>2, GeoFileNames, LaunchConstantsOK DEF GeoOps, GEO!Write
  <2>2. todo' \in Seq(GeoOps)
    BY <1>1, <2>1
  <2>3. QED BY <1>1, <1>2, <2>2 DEF GeoTypes
<1>5. GeoFresh'
  BY <1>1 DEF GeoFresh
<1>6. /\ DOMAIN todo' = {1} /\ todo'[1] = b
      /\ b.file = GEO!Status(at.cycle) /\ b.value = GEO!Whole(at.stage, run)
  BY <1>1 DEF GEO!Write
<1>7. GeoQueue'
  <2>1. GeoWrites(1)'
    BY <1>1, <1>2, <1>6 DEF GeoWrites
  <2>2. QED BY <1>6, <2>1 DEF GeoQueue
<1>8. ASSUME GEO!SameSolver PROVE GeoReady' /\ GeoPlace'
  <2>1. GeoLatest /\ GeoStarting
    BY <1>8 DEF GeoSafe, GeoPlace
  <2>2. GeoReady'
    BY <1>2, <1>6, GeoFilesDiffer DEF GeoReady, GeoStep
  <2>3. GeoLatest'
    BY <1>1, <1>2, <2>1, GeoSameDisk DEF GeoLatest
  <2>4. GeoFound'
    BY <1>1 DEF GeoFound
  <2>5. CycleKnown'
    <3>1. CycleKnown
      BY <1>1, <2>1 DEF GeoStarting
    <3>2. QED BY <1>1, <1>2, <3>1, GeoSameDisk DEF CycleKnown
  <2>6. StatusKnown'
    BY <1>2, <1>6 DEF StatusKnown
  <2>7. GeoStarting'
    BY <1>1, <1>2, <2>1, <2>5, <2>6, GeoSameDisk DEF GeoStarting
  <2>8. GeoSolving'
    BY <1>2 DEF GeoSolving
  <2>9. QED BY <2>2, <2>3, <2>4, <2>7, <2>8 DEF GeoPlace
<1>9. QED BY <1>1, <1>2, <1>4, <1>5, <1>7, <1>8, GeoQuiet

LEMMA GeoStartStage ==
  ASSUME GeoInv, GEO!StartStage
  PROVE  GeoInv'
<1> USE DEF GeoInv
<1> DEFINE b == GEO!Write(GEO!Opt(at.cycle, at.stage), GEO!Whole(0, run))
<1>1. /\ phase = "running" /\ todo = <<>> /\ at.pc \in {"ion", "cell"} /\ at.stage \notin at.resume
      /\ at.cycle \in 0..MaxCycle /\ disk' = disk /\ phase' = phase /\ run' = run /\ todo' = <<b>>
      /\ at' = [at EXCEPT !.pc = "solve", !.step = 0, !.loaded = 0,
                          !.saveFirst = GEO!SavesFirst(at.solvers[run])]
  BY LaunchConstantsOK DEF GEO!StartStage, GEO!Idle, GeoTypes, GeoAt
<1>2. /\ at' \in GeoAt /\ at'.pc = "solve" /\ at'.cycle = at.cycle /\ at'.stage = at.stage
      /\ at'.solvers = at.solvers /\ at'.resume = at.resume /\ at'.step = 0
  <2>1. GEO!SavesFirst(at.solvers[run]) \in BOOLEAN
    BY DEF GEO!SavesFirst
  <2>2. PICK first \in BOOLEAN :
          at' = [at EXCEPT !.pc = "solve", !.step = 0, !.loaded = 0, !.saveFirst = first]
    BY <1>1, <2>1
  <2>3. at \in GeoAt /\ 0 \in 0..MaxStep /\ 0 \in 0..MaxRuns
    BY LaunchConstantsOK DEF GeoTypes
  <2>4. QED BY <2>2, <2>3 DEF GeoAt
<1>3. at.stage \in {0, 1} /\ run \in 1..MaxRuns
  BY <1>1 DEF GeoTypes, GeoAt
<1>4. GeoTypes'
  <2>1. b \in GeoOps
    <3>1. 0 \in 0..MaxStep + MaxCycle + 1 /\ run \in 0..MaxRuns
      BY <1>1, <1>3, LaunchConstantsOK
    <3>2. GEO!Whole(0, run) \in GeoContents
      BY <3>1, GeoValues
    <3>3. QED BY <1>1, <1>3, <3>2, GeoFileNames, LaunchConstantsOK DEF GeoOps, GEO!Write
  <2>2. todo' \in Seq(GeoOps)
    BY <1>1, <2>1
  <2>3. QED BY <1>1, <1>2, <2>2 DEF GeoTypes
<1>5. GeoFresh'
  BY <1>1 DEF GeoFresh
<1>6. /\ DOMAIN todo' = {1} /\ todo'[1] = b
      /\ b.file = GEO!Opt(at.cycle, at.stage) /\ b.value = GEO!Whole(0, run)
  BY <1>1 DEF GEO!Write
<1>7. GeoQueue'
  <2>1. GeoWrites(1)'
    BY <1>1, <1>2, <1>6 DEF GeoWrites, GEO!Whole
  <2>2. QED BY <1>6, <2>1 DEF GeoQueue
<1>8. ASSUME GEO!SameSolver PROVE GeoReady' /\ GeoPlace'
  <2>1. GeoLatest /\ GeoStarting
    BY <1>8 DEF GeoSafe, GeoPlace
  <2>2. GeoReady'
    BY <1>2, <1>6, GeoFilesDiffer DEF GeoReady, GeoStep
  <2>3. GeoLatest'
    BY <1>1, <1>2, <2>1, GeoSameDisk DEF GeoLatest
  <2>4. GeoFound'
    BY <1>1 DEF GeoFound
  <2>5. CycleKnown' /\ StatusKnown'
    <3>1. CycleKnown /\ StatusKnown
      BY <1>1, <2>1 DEF GeoStarting
    <3>2. QED BY <1>1, <1>2, <3>1, GeoSameDisk DEF CycleKnown, StatusKnown
  <2>6. GeoStarting'
    BY <1>1, <1>2, <2>1, <2>5, GeoSameDisk DEF GeoStarting
  <2>7. ~GeoBegun(at.cycle, at.stage) /\ at.resume = {}
    BY <1>1, <2>1 DEF GeoStarting
  <2>8. GeoUpTo(at.cycle, at.stage, 1) /\ ~GEO!IsWhole(GeoStep)
    BY <2>7 DEF GeoUpTo, GeoBegun, GeoStep
  <2>9. GeoSolving'
    <3>1. GeoUpTo(at.cycle, at.stage, 1)' /\ ~GEO!IsWhole(GeoStep)' /\ ~GeoBegun(at.cycle, at.stage)'
      BY <1>1, <1>2, <2>7, <2>8, GeoSameDisk DEF GeoStep, GEO!IsWhole, GeoUpTo, GeoBegun, GEO!Exists
    <3>2. QED BY <1>2, <2>7, <3>1 DEF GeoSolving, GeoStep, GeoUpTo, GeoBegun
  <2>10. QED BY <2>2, <2>3, <2>4, <2>6, <2>9 DEF GeoPlace
<1>9. QED BY <1>1, <1>2, <1>4, <1>5, <1>7, <1>8, GeoQuiet

LEMMA FiveTuple ==
  ASSUME NEW S, NEW a \in S, NEW b \in S, NEW c \in S, NEW d \in S, NEW e \in S,
         NEW q, q = <<a, b, c, d, e>>
  PROVE  /\ q \in Seq(S) /\ Len(q) = 5 /\ DOMAIN q = 1..5
         /\ q[1] = a /\ q[2] = b /\ q[3] = c /\ q[4] = d /\ q[5] = e
OBVIOUS

LEMMA FourTuple ==
  ASSUME NEW S, NEW b \in S, NEW c \in S, NEW d \in S, NEW e \in S,
         NEW q, q = <<b, c, d, e>>
  PROVE  /\ q \in Seq(S) /\ Len(q) = 4 /\ DOMAIN q = 1..4
         /\ q[1] = b /\ q[2] = c /\ q[3] = d /\ q[4] = e
OBVIOUS

\* The queue of a save: every file of the step, then step.chk.
GeoSaved(q, c, s, n) ==
  /\ q \in Seq(GeoOps) /\ Len(q) \in 1..5 /\ DOMAIN q = 1..Len(q)
  /\ q[Len(q)] = GEO!Write(GEO!Step(c, s), GEO!Whole(n, run))
  /\ \A i \in 1..(Len(q) - 1) : \E name \in GEO!Checkpoint(s) :
       q[i] = GEO!Write(GEO!In(c, s, n, name), GEO!Computed(n))
  /\ \A name \in GEO!Checkpoint(s) : \E i \in 1..(Len(q) - 1) :
       q[i] = GEO!Write(GEO!In(c, s, n, name), GEO!Computed(n))

LEMMA GeoSaves ==
  ASSUME GeoTypes, run \in 1..MaxRuns, NEW c \in 0..MaxCycle, NEW s \in {0, 1}, NEW n \in 0..MaxStep,
         NEW q, q = GEO!SaveScript(c, s, n)
  PROVE  GeoSaved(q, c, s, n)
<1> DEFINE m == GEO!Write(GEO!In(c, s, n, "maxForce"), GEO!Computed(n))
           b == GEO!Write(GEO!In(c, s, n, "domainBoundingVectors"), GEO!Computed(n))
           x == GEO!Write(GEO!In(c, s, n, "atomsCoord"), GEO!Computed(n))
           r == GEO!Write(GEO!In(c, s, n, "Relax"), GEO!Computed(n))
           w == GEO!Write(GEO!Step(c, s), GEO!Whole(n, run))
<1>1. {"domainBoundingVectors", "atomsCoord", "Relax"} \subseteq GEO!Checkpoint(s)
  BY DEF GEO!Checkpoint
<1>2. b \in GeoOps /\ x \in GeoOps /\ r \in GeoOps /\ w \in GeoOps /\ (s = 0 => m \in GeoOps)
  <2>1. n \in 0..MaxStep + MaxCycle + 1 /\ run \in 0..MaxRuns
    BY LaunchConstantsOK
  <2>2. GEO!Whole(n, run) \in GeoContents /\ GEO!Computed(n) \in GeoContents
    BY <2>1, GeoValues
  <2>3. \A f \in GEO!Files : \A v \in GeoContents : GEO!Write(f, v) \in GeoOps
    BY <2>1, GeoValues
  <2>4. \A name \in GEO!Checkpoint(s) : GEO!In(c, s, n, name) \in GEO!Files
    BY GeoFileNames
  <2>5. GEO!Step(c, s) \in GEO!Files
    BY GeoFileNames
  <2>6. s = 0 => "maxForce" \in GEO!Checkpoint(s)
    BY DEF GEO!Checkpoint
  <2>7. b \in GeoOps /\ x \in GeoOps /\ r \in GeoOps
    BY <1>1, <2>2, <2>3, <2>4
  <2>8. w \in GeoOps
    BY <2>2, <2>3, <2>5
  <2>9. s = 0 => m \in GeoOps
    BY <2>2, <2>3, <2>4, <2>6
  <2>10. QED BY <2>7, <2>8, <2>9
<1>3. CASE s = 0
  <2>1. q = <<m, b, x, r, w>>
    BY <1>3, GeoSaveScript
  <2>2. GEO!Checkpoint(s) = {"maxForce", "domainBoundingVectors", "atomsCoord", "Relax"}
    BY <1>3 DEF GEO!Checkpoint
  <2> HIDE DEF m, b, x, r, w
  <2>3. /\ q \in Seq(GeoOps) /\ Len(q) = 5 /\ DOMAIN q = 1..5
        /\ q[1] = m /\ q[2] = b /\ q[3] = x /\ q[4] = r /\ q[5] = w
    BY <1>2, <1>3, <2>1, FiveTuple
  <2>4. \A i \in 1..4 : i = 1 \/ i = 2 \/ i = 3 \/ i = 4
    OBVIOUS
  <2>5. ASSUME NEW i \in 1..4
        PROVE  \E name \in GEO!Checkpoint(s) : q[i] = GEO!Write(GEO!In(c, s, n, name), GEO!Computed(n))
    BY <2>2, <2>3, <2>4 DEF m, b, x, r
  <2>6. ASSUME NEW name \in GEO!Checkpoint(s)
        PROVE  \E i \in 1..4 : q[i] = GEO!Write(GEO!In(c, s, n, name), GEO!Computed(n))
    <3>1. 1 \in 1..4 /\ 2 \in 1..4 /\ 3 \in 1..4 /\ 4 \in 1..4
      OBVIOUS
    <3>2. QED BY <2>2, <2>3, <3>1 DEF m, b, x, r
  <2>7. QED BY <2>3, <2>5, <2>6 DEF w, GeoSaved
<1>4. CASE s = 1
  <2>1. q = <<b, x, r, w>>
    BY <1>4, GeoSaveScript
  <2>2. GEO!Checkpoint(s) = {"domainBoundingVectors", "atomsCoord", "Relax"}
    BY <1>4 DEF GEO!Checkpoint
  <2> HIDE DEF m, b, x, r, w
  <2>3. /\ q \in Seq(GeoOps) /\ Len(q) = 4 /\ DOMAIN q = 1..4
        /\ q[1] = b /\ q[2] = x /\ q[3] = r /\ q[4] = w
    BY <1>2, <1>4, <2>1, FourTuple
  <2>4. \A i \in 1..3 : i = 1 \/ i = 2 \/ i = 3
    OBVIOUS
  <2>5. ASSUME NEW i \in 1..3
        PROVE  \E name \in GEO!Checkpoint(s) : q[i] = GEO!Write(GEO!In(c, s, n, name), GEO!Computed(n))
    BY <2>2, <2>3, <2>4 DEF b, x, r
  <2>6. ASSUME NEW name \in GEO!Checkpoint(s)
        PROVE  \E i \in 1..3 : q[i] = GEO!Write(GEO!In(c, s, n, name), GEO!Computed(n))
    <3>1. 1 \in 1..3 /\ 2 \in 1..3 /\ 3 \in 1..3
      OBVIOUS
    <3>2. QED BY <2>2, <2>3, <3>1 DEF b, x, r
  <2>7. QED BY <2>3, <2>5, <2>6 DEF w, GeoSaved
<1>5. QED BY <1>3, <1>4

\* A save is queued: it is ready, and at its place, when the step above step.chk is the
\* solver's and nothing is on disk above the next.
LEMMA GeoQueuesSave ==
  ASSUME GeoInv, disk' = disk, run' = run, phase = "running", phase' = phase, todo = <<>>,
         at.pc = "solve", at' \in GeoAt, at'.pc = at.pc, at'.cycle = at.cycle, at'.stage = at.stage,
         at'.solvers = at.solvers, at'.resume = at.resume, ~at'.saveFirst,
         todo' = GEO!SaveScript(at.cycle, at.stage, at'.step),
         GEO!SameSolver =>
           /\ GeoUpTo(at.cycle, at.stage, at'.step + 1)
           /\ GEO!IsWhole(GeoStep) => disk[GeoStep].step + 1 = at'.step
  PROVE  GeoInv'
<1> USE DEF GeoInv
<1>0. PICK n \in 0..MaxStep : n = at'.step
  BY DEF GeoAt
<1> DEFINE w == GEO!Write(GeoStep, GEO!Whole(n, run))
<1>1. /\ at.cycle \in 0..MaxCycle /\ at.stage \in {0, 1} /\ n \in 0..MaxStep /\ run \in 1..MaxRuns
      /\ run \in 0..MaxRuns /\ n \in 0..MaxStep + MaxCycle + 1
  BY LaunchConstantsOK DEF GeoTypes, GeoAt
<1>2. /\ todo' \in Seq(GeoOps) /\ Len(todo') \in 1..5 /\ DOMAIN todo' = 1..Len(todo')
      /\ todo'[Len(todo')] = w
      /\ \A i \in 1..(Len(todo') - 1) : \E name \in GEO!Checkpoint(at.stage) :
           todo'[i] = GEO!Write(GEO!In(at.cycle, at.stage, n, name), GEO!Computed(n))
      /\ \A name \in GEO!Checkpoint(at.stage) : \E i \in 1..(Len(todo') - 1) :
           todo'[i] = GEO!Write(GEO!In(at.cycle, at.stage, n, name), GEO!Computed(n))
  <2>1. GeoSaved(todo', at.cycle, at.stage, n)
    BY <1>0, <1>1, GeoSaves
  <2>2. QED BY <2>1 DEF GeoSaved, GeoStep
<1>3. w.file = GeoStep /\ w.value = GEO!Whole(n, run) /\ w.value.step = n
  BY DEF GEO!Write, GEO!Whole
<1>4. GEO!Computed(n).state \in {"whole", "garbage"}
  BY <1>1, GeoValues
<1>5. GeoTypes' /\ GeoFresh'
  BY <1>2 DEF GeoTypes, GeoFresh
<1>6. ASSUME NEW i \in DOMAIN todo'
      PROVE  \/ i = Len(todo') /\ todo'[i] = w
             \/ /\ i \in 1..(Len(todo') - 1)
                /\ \E name \in GEO!Checkpoint(at.stage) :
                     /\ todo'[i].file = GEO!In(at.cycle, at.stage, n, name)
                     /\ todo'[i].value.state \in {"whole", "garbage"}
  <2>1. CASE i = Len(todo')
    BY <1>2, <2>1
  <2>2. CASE i # Len(todo')
    <3>1. i \in 1..(Len(todo') - 1)
      BY <1>2, <2>2
    <3>2. PICK name \in GEO!Checkpoint(at.stage) :
            todo'[i] = GEO!Write(GEO!In(at.cycle, at.stage, n, name), GEO!Computed(n))
      BY <1>2, <3>1
    <3>3. QED BY <1>4, <3>1, <3>2 DEF GEO!Write
  <2>3. QED BY <2>1, <2>2
<1>7. GeoQueue'
  <2>1. ASSUME NEW i \in DOMAIN todo' PROVE GeoWrites(i)'
    <3>1. CASE i = Len(todo') /\ todo'[i] = w
      BY <1>0, <1>3, <3>1 DEF GeoWrites, GeoStep
    <3>2. CASE \E name \in GEO!Checkpoint(at.stage) :
                     /\ todo'[i].file = GEO!In(at.cycle, at.stage, n, name)
                     /\ todo'[i].value.state \in {"whole", "garbage"}
      BY <1>0, <3>2 DEF GeoWrites, GeoFile
    <3>3. QED BY <1>6, <3>1, <3>2
  <2>2. QED BY <2>1 DEF GeoQueue
<1>8. ASSUME GEO!SameSolver PROVE GeoReady' /\ GeoPlace'
  <2>1. GeoLatest /\ GeoStarting /\ GeoSolving
    BY <1>8 DEF GeoSafe, GeoPlace
  <2>2. GeoUpTo(at.cycle, at.stage, n + 1)'
    <3>1. GeoUpTo(at.cycle, at.stage, n + 1)
      BY <1>0, <1>8
    <3>2. QED BY <3>1, GeoSameDisk DEF GeoUpTo
  <2>3. GeoReady'
    <3>1. ASSUME NEW i \in DOMAIN todo', todo'[i].file = GeoStep
          PROVE  i = Len(todo') /\ todo'[i] = w
      BY <1>6, <3>1, GeoStepFilesDiffer DEF GeoStep
    <3>2. ASSUME NEW name \in GEO!Checkpoint(at.stage)
          PROVE  \E j \in 1..(Len(todo') - 1) : todo'[j].file = GEO!In(at.cycle, at.stage, n, name)
      <4>1. PICK j \in 1..(Len(todo') - 1) :
              todo'[j] = GEO!Write(GEO!In(at.cycle, at.stage, n, name), GEO!Computed(n))
        BY <1>2
      <4>2. QED BY <4>1 DEF GEO!Write
    <3>3. QED BY <1>3, <2>2, <3>1, <3>2 DEF GeoReady, GeoStep, GeoPending, GeoUpTo
  <2>4. GeoLatest'
    BY <2>1, GeoSameDisk DEF GeoLatest
  <2>5. GeoFound'
    BY DEF GeoFound
  <2>6. CycleKnown' /\ StatusKnown'
    <3>1. CycleKnown /\ StatusKnown
      BY <2>1 DEF GeoStarting
    <3>2. QED BY <3>1, GeoSameDisk DEF CycleKnown, StatusKnown
  <2>7. GeoStarting'
    <3>1. at'.resume = {} /\ at'.pc = "solve"
      BY <2>1 DEF GeoSolving
    <3>2. QED BY <2>6, <3>1 DEF GeoStarting
  <2>8. GeoSolving'
    <3>1. \E i \in DOMAIN todo' : todo'[i].file = GeoStep
      <4>1. Len(todo') \in DOMAIN todo'
        <5>1. PICK l \in 1..5 : l = Len(todo')
          BY <1>2
        <5>2. DOMAIN todo' = 1..l
          BY <1>2, <5>1
        <5>3. l \in 1..l
          OBVIOUS
        <5>4. QED BY <5>1, <5>2, <5>3
      <4>2. todo'[Len(todo')].file = GeoStep
        <5>1. todo'[Len(todo')] = w
          BY <1>2
        <5>2. QED BY ONLY <1>3, <5>1
      <4>3. QED BY <4>1, <4>2
    <3>2. GEO!IsWhole(GeoStep)' => GEO!IsWhole(GeoStep) /\ disk'[GeoStep] = disk[GeoStep]
      BY GeoSameDisk DEF GeoStep
    <3>3. GEO!IsWhole(GeoStep) => disk[GeoStep].step \in 0..MaxStep /\ disk[GeoStep].step + 1 = n
      BY <1>0, <1>1, <1>8 DEF GeoRecords, GeoStep
    <3>4. GEO!IsWhole(GeoStep)' => disk'[GeoStep].step + 1 = n /\ disk'[GeoStep].step # n
      BY <1>1, <3>2, <3>3
    <3>5. at.resume = {}
      BY <2>1 DEF GeoSolving
    <3>6. QED BY <1>0, <2>2, <3>1, <3>4, <3>5 DEF GeoSolving, GeoStep, GeoUpTo
  <2>9. QED BY <2>3, <2>4, <2>5, <2>7, <2>8 DEF GeoPlace
<1>9. QED BY <1>5, <1>7, <1>8, GeoQuiet

LEMMA GeoSaveFirst ==
  ASSUME GeoInv, GEO!SaveFirst
  PROVE  GeoInv'
<1> USE DEF GeoInv
<1>1. /\ phase = "running" /\ todo = <<>> /\ at.pc = "solve" /\ at.saveFirst
      /\ disk' = disk /\ phase' = phase /\ run' = run
      /\ todo' = GEO!SaveScript(at.cycle, at.stage, at.step)
      /\ at' = [at EXCEPT !.saveFirst = FALSE]
  BY DEF GEO!SaveFirst, GEO!Idle
<1>2. /\ at' \in GeoAt /\ at'.pc = at.pc /\ at'.cycle = at.cycle /\ at'.stage = at.stage
      /\ at'.solvers = at.solvers /\ at'.resume = at.resume /\ at'.step = at.step /\ ~at'.saveFirst
  BY <1>1 DEF GeoTypes, GeoAt
<1>3. ASSUME GEO!SameSolver
      PROVE  GeoUpTo(at.cycle, at.stage, at.step + 1) /\ ~GEO!IsWhole(GeoStep)
  <2>1. GeoSolving
    BY <1>3 DEF GeoSafe, GeoPlace
  <2>2. QED BY <1>1, <2>1 DEF GeoSolving, GeoBegun, GeoStep
<1>4. QED BY <1>1, <1>2, <1>3, GeoQueuesSave

LEMMA GeoUpdate ==
  ASSUME GeoInv, GEO!Update
  PROVE  GeoInv'
<1> USE DEF GeoInv
<1>1. /\ phase = "running" /\ todo = <<>> /\ at.pc = "solve" /\ ~at.saveFirst
      /\ disk' = disk /\ phase' = phase /\ run' = run
      /\ todo' = GEO!SaveScript(at.cycle, at.stage, at.step + 1)
      /\ at' = [at EXCEPT !.step = @ + 1] /\ at.step < MaxStep
  <2>1. at.step < IF at.cycle = 0 THEN MaxStep ELSE MaxLaterStep
    BY DEF GEO!Update
  <2>2. at.step < MaxStep
    BY <2>1, LaunchConstantsOK DEF GeoTypes, GeoAt
  <2>3. QED BY <2>2 DEF GEO!Update, GEO!Idle
<1>2. at.step \in 0..MaxStep /\ at.step + 1 \in 0..MaxStep
  BY <1>1, LaunchConstantsOK DEF GeoTypes, GeoAt
<1>3. /\ at' \in GeoAt /\ at'.pc = at.pc /\ at'.cycle = at.cycle /\ at'.stage = at.stage
      /\ at'.solvers = at.solvers /\ at'.resume = at.resume /\ at'.step = at.step + 1
      /\ ~at'.saveFirst
  BY <1>1, <1>2 DEF GeoTypes, GeoAt
<1>4. ASSUME GEO!SameSolver
      PROVE  /\ GeoUpTo(at.cycle, at.stage, at'.step + 1)
             /\ GEO!IsWhole(GeoStep) => disk[GeoStep].step + 1 = at'.step
  <2>1. GeoSolving
    BY <1>4 DEF GeoSafe, GeoPlace
  <2>2. GeoUpTo(at.cycle, at.stage, at.step + 1)
    BY <1>1, <2>1 DEF GeoSolving
  <2>3. GeoUpTo(at.cycle, at.stage, at'.step + 1)
    BY <1>2, <1>3, <2>2 DEF GeoUpTo
  <2>4. GEO!IsWhole(GeoStep) => disk[GeoStep].step = at.step
    BY <1>1, <2>1 DEF GeoSolving
  <2>5. QED BY <1>3, <2>3, <2>4
<1>5. QED BY <1>1, <1>3, <1>4, GeoQueuesSave

\* A stage is resumed with what was saved, or the process ends.
LEMMA GeoResumeStage ==
  ASSUME GeoInv, GEO!ResumeStage
  PROVE  GeoInv'
<1> USE DEF GeoInv
<1> DEFINE opt  == GEO!Opt(at.cycle, at.stage)
           same == GEO!IsWhole(opt) /\ at.solvers[disk[opt].run] = at.solvers[run]
<1>1. /\ phase = "running" /\ todo = <<>> /\ at.pc \in {"ion", "cell"} /\ at.stage \in at.resume
      /\ at.cycle \in 0..MaxCycle /\ at.stage \in {0, 1} /\ run \in 1..MaxRuns
  BY LaunchConstantsOK DEF GEO!ResumeStage, GEO!Idle, GeoTypes, GeoAt
<1>2. CASE GEO!Exits /\ UNCHANGED run
  <2>1. GeoTypes'
    BY <1>1, <1>2 DEF GEO!Exits, GeoTypes
  <2>2. QED BY <1>1, <1>2, <2>1, GeoStops DEF GEO!Exits
<1>3. CASE /\ GEO!IsWhole(opt) /\ GEO!IsWhole(GeoStep)
           /\ UNCHANGED <<disk, todo, phase, run>>
           /\ at' = [at EXCEPT !.pc = "solve", !.step = disk[GeoStep].step, !.resume = {},
                     !.saveFirst = ~same /\ GEO!SavesFirst(at.solvers[run]),
                     !.loaded = IF same THEN disk[GEO!In(at.cycle, at.stage, disk[GeoStep].step, "Relax")].run
                                ELSE 0]
  <2>1. PICK n \in 0..MaxStep : n = disk[GeoStep].step
    BY <1>1, <1>3 DEF GeoRecords, GeoStep
  <2>2. PICK l \in 0..MaxRuns :
          l = IF same THEN disk[GEO!In(at.cycle, at.stage, disk[GeoStep].step, "Relax")].run ELSE 0
    <3>1. "Relax" \in GEO!Checkpoint(at.stage)
      BY DEF GEO!Checkpoint
    <3>2. GEO!In(at.cycle, at.stage, n, "Relax") \in GEO!Files
      BY <1>1, <3>1, GeoFileNames
    <3>3. disk[GEO!In(at.cycle, at.stage, n, "Relax")] \in GeoContents
      BY <3>2 DEF GeoTypes
    <3>4. disk[GEO!In(at.cycle, at.stage, n, "Relax")].run \in 0..MaxRuns
      BY <3>3 DEF GeoContents, GEO!Contents
    <3>5. QED BY <2>1, <3>4, LaunchConstantsOK
  <2>3. PICK b \in BOOLEAN : b <=> ~same /\ GEO!SavesFirst(at.solvers[run])
    BY DEF GEO!SavesFirst
  <2>4. at' = [at EXCEPT !.pc = "solve", !.step = n, !.resume = {}, !.saveFirst = b, !.loaded = l]
    <3>1. b = (~same /\ GEO!SavesFirst(at.solvers[run]))
      BY <2>3 DEF GEO!SavesFirst
    <3>2. QED BY <1>3, <2>1, <2>2, <3>1
  <2>5. /\ at' \in GeoAt /\ at'.pc = "solve" /\ at'.cycle = at.cycle /\ at'.stage = at.stage
        /\ at'.solvers = at.solvers /\ at'.resume = {} /\ at'.step = n /\ (at'.saveFirst <=> b)
    <3>1. at \in GeoAt
      BY DEF GeoTypes
    <3>2. QED BY <2>4, <3>1 DEF GeoAt
  <2>6. GeoTypes' /\ GeoFresh' /\ GeoQueue'
    BY <1>1, <1>3, <2>5 DEF GeoTypes, GeoFresh, GeoQueue
  <2>7. ASSUME GEO!SameSolver PROVE GeoReady' /\ GeoPlace'
    <3>1. GeoLatest /\ GeoStarting /\ GeoIntact
      BY <2>7 DEF GeoSafe, GeoPlace
    <3>2. ~at'.saveFirst
      <4>1. disk[opt].run \in 1..run
        BY <1>1, <1>3 DEF GeoRecords
      <4>2. at.solvers[disk[opt].run] = at.solvers[run]
        BY <1>1, <2>7, <4>1 DEF GEO!SameSolver
      <4>3. QED BY <1>3, <2>3, <2>5, <4>2
    <3>3. GeoReady'
      BY <1>1, <1>3 DEF GeoReady
    <3>4. GeoLatest'
      BY <1>3, <2>5, <3>1, GeoSameDisk DEF GeoLatest
    <3>5. GeoFound'
      BY <1>1, <1>3 DEF GeoFound
    <3>6. CycleKnown' /\ StatusKnown'
      <4>1. CycleKnown /\ StatusKnown
        BY <1>1, <3>1 DEF GeoStarting
      <4>2. QED BY <1>3, <2>5, <4>1, GeoSameDisk DEF CycleKnown, StatusKnown
    <3>7. GeoStarting'
      BY <2>5, <3>6 DEF GeoStarting
    <3>8. GeoUpTo(at.cycle, at.stage, n + 1)
      BY <1>1, <1>3, <2>1, <3>1 DEF GeoIntact, GeoStep
    <3>9. GeoUpTo(at.cycle, at.stage, n + 1)' /\ disk'[GeoStep].step = n
      BY <1>3, <2>1, <3>8, GeoSameDisk DEF GeoUpTo
    <3>10. DOMAIN todo' = {}
      BY <1>1, <1>3
    <3>11. GeoSolving'
      BY <2>5, <3>2, <3>9, <3>10 DEF GeoSolving, GeoStep, GeoUpTo
    <3>12. QED BY <3>3, <3>4, <3>5, <3>7, <3>11 DEF GeoPlace
  <2>8. QED BY <1>3, <2>5, <2>6, <2>7, GeoQuiet
<1>4. QED BY <1>2, <1>3 DEF GEO!ResumeStage, GeoStep

\* The stage is over: the next one has not begun.
LEMMA GeoStageEnds ==
  ASSUME GeoInv, GEO!StageEnds
  PROVE  GeoInv'
<1> USE DEF GeoInv
<1>1. /\ phase = "running" /\ todo = <<>> /\ at.pc = "solve"
      /\ at.cycle \in 0..MaxCycle /\ at.stage \in {0, 1} /\ run \in 1..MaxRuns
      /\ disk' = disk /\ todo' = todo /\ run' = run
  BY LaunchConstantsOK DEF GEO!StageEnds, GEO!Idle, GeoTypes, GeoAt
<1>2. \/ phase' = "done" /\ at' = at
      \/ /\ phase' = "running" /\ at.stage = 0 /\ at' = [at EXCEPT !.stage = 1, !.pc = "between"]
      \/ /\ phase' = "running" /\ at.stage = 1
         /\ at' = [at EXCEPT !.stage = 0, !.cycle = @ + 1, !.pc = "cycle"]
  BY <1>1 DEF GEO!StageEnds
<1>3. CASE phase' = "done" /\ at' = at
  <2>1. GeoTypes'
    BY <1>1, <1>3 DEF GeoTypes
  <2>2. QED BY <1>1, <1>3, <2>1, GeoStops
<1>4. CASE /\ phase' = "running" /\ at.stage = 0
           /\ at' = [at EXCEPT !.stage = 1, !.pc = "between"]
  <2>1. /\ at' \in GeoAt /\ at'.pc = "between" /\ at'.cycle = at.cycle /\ at'.stage = 1
        /\ at'.solvers = at.solvers /\ at'.resume = at.resume
    BY <1>4 DEF GeoTypes, GeoAt
  <2>2. GeoTypes' /\ GeoFresh' /\ GeoQueue'
    BY <1>1, <1>4, <2>1 DEF GeoTypes, GeoFresh, GeoQueue
  <2>3. ASSUME GEO!SameSolver PROVE GeoReady' /\ GeoPlace'
    <3>1. GeoLatest /\ GeoStarting /\ GeoSolving
      BY <2>3 DEF GeoSafe, GeoPlace
    <3>2. \A d \in 0..MaxCycle, t \in {0, 1} : 2 * d + t > 2 * at.cycle + 0 => ~GeoBegun(d, t)'
      BY <1>1, <1>4, <3>1, GeoSameDisk DEF GeoLatest, GeoLater
    <3>3. ~GeoBegun(at.cycle, 1)'
      BY <1>1, <2>1, <3>2, StageOrder
    <3>4. \A d \in 0..MaxCycle, t \in {0, 1} : 2 * d + t > 2 * at.cycle + 1 => ~GeoBegun(d, t)'
      BY <1>1, <3>2, StageOrder
    <3>5. GeoReady'
      BY <1>1 DEF GeoReady
    <3>6. GeoLatest'
      BY <2>1, <3>3, <3>4 DEF GeoLatest, GeoLater, GeoBegun
    <3>7. GeoFound'
      BY <1>4 DEF GeoFound
    <3>8. CycleKnown'
      <4>1. CycleKnown
        BY <1>1, <3>1 DEF GeoStarting
      <4>2. QED BY <1>1, <2>1, <4>1, GeoSameDisk DEF CycleKnown
    <3>9. at.resume = {}
      BY <1>1, <3>1 DEF GeoSolving
    <3>10. GeoStarting'
      BY <2>1, <3>3, <3>8, <3>9 DEF GeoStarting, GeoBegun
    <3>11. GeoSolving'
      BY <2>1 DEF GeoSolving
    <3>12. QED BY <3>5, <3>6, <3>7, <3>10, <3>11 DEF GeoPlace
  <2>4. QED BY <1>1, <2>1, <2>2, <2>3, GeoQuiet
<1>5. CASE /\ phase' = "running" /\ at.stage = 1
           /\ at' = [at EXCEPT !.stage = 0, !.cycle = @ + 1, !.pc = "cycle"]
  <2>1. /\ at' \in GeoAt /\ at'.pc = "cycle" /\ at'.cycle = at.cycle + 1 /\ at'.stage = 0
        /\ at'.solvers = at.solvers /\ at'.resume = at.resume
    <3>1. PICK k \in -1..MaxCycle + 1 : k = at.cycle + 1
      BY <1>1, LaunchConstantsOK
    <3>2. at' = [at EXCEPT !.stage = 0, !.cycle = k, !.pc = "cycle"] /\ at \in GeoAt
      BY <1>5, <3>1 DEF GeoTypes
    <3>3. QED BY <3>1, <3>2 DEF GeoAt
  <2>2. GeoTypes' /\ GeoFresh' /\ GeoQueue'
    BY <1>1, <1>5, <2>1 DEF GeoTypes, GeoFresh, GeoQueue
  <2>3. ASSUME GEO!SameSolver PROVE GeoReady' /\ GeoPlace'
    <3>1. GeoLatest /\ GeoStarting /\ GeoSolving
      BY <2>3 DEF GeoSafe, GeoPlace
    <3>2. \A d \in 0..MaxCycle, t \in {0, 1} : 2 * d + t > 2 * at.cycle + 1 => ~GeoBegun(d, t)'
      BY <1>1, <1>5, <3>1, GeoSameDisk DEF GeoLatest, GeoLater
    <3>3. PICK k \in Int : k = at.cycle + 1
      BY <1>1
    <3>4. k \in 0..MaxCycle => ~GeoBegun(k, 0)' /\ ~GeoBegun(k, 1)'
      BY <1>1, <3>2, <3>3, StageOrder
    <3>5. \A d \in 0..MaxCycle, t \in {0, 1} : 2 * d + t > 2 * k + 0 => ~GeoBegun(d, t)'
      <4>1. ASSUME NEW d \in 0..MaxCycle, NEW t \in {0, 1}, 2 * d + t > 2 * k + 0
            PROVE  2 * d + t > 2 * at.cycle + 1
        BY <1>1, <3>3, <4>1
      <4>2. QED BY <3>2, <4>1
    <3>6. GeoReady'
      BY <1>1 DEF GeoReady
    <3>7. at'.cycle = k /\ k >= 0
      BY <1>1, <2>1, <3>3
    <3>8. GeoLatest'
      BY <2>1, <3>4, <3>5, <3>7 DEF GeoLatest, GeoLater, GeoBegun
    <3>9. GeoFound'
      BY <1>5 DEF GeoFound
    <3>10. at.resume = {}
      BY <1>1, <3>1 DEF GeoSolving
    <3>11. GeoStarting'
      BY <2>1, <3>3, <3>4, <3>7, <3>10 DEF GeoStarting, GeoBegun
    <3>12. GeoSolving'
      BY <2>1 DEF GeoSolving
    <3>13. QED BY <3>6, <3>8, <3>9, <3>11, <3>12 DEF GeoPlace
  <2>4. QED BY <1>1, <2>1, <2>2, <2>3, GeoQuiet
<1>6. QED BY <1>2, <1>3, <1>4, <1>5

LEMMA GeoOutOfCycles ==
  ASSUME GeoInv, GEO!OutOfCycles
  PROVE  GeoInv'
<1>1. /\ phase' = "done" /\ disk' = disk /\ todo' = <<>> /\ run' = run /\ at' = at
      /\ phase = "running" /\ todo = <<>>
  BY DEF GEO!OutOfCycles, GEO!Idle
<1>2. GeoTypes'
  BY <1>1 DEF GeoInv, GeoTypes
<1>3. QED BY <1>1, <1>2, GeoStops

(***************************************************************************)
(* The processes and the search for a geometry.                            *)
(***************************************************************************)
LEMMA GeoStartAfresh ==
  ASSUME GeoInv, GEO!StartAfresh
  PROVE  GeoInv'
<1> USE DEF GeoInv
<1> DEFINE a == GEO!Write(GEO!Dat, GEO!Whole(0, 1))
<1>1. /\ phase = "off" /\ phase' = "running" /\ run' = 1 /\ disk' = disk /\ todo' = <<a>>
      /\ \A f \in GEO!Files : disk[f] = GEO!Absent
      /\ run = 0 /\ at.cycle = 0 /\ at.pc = "cycle" /\ at.resume = {}
  BY DEF GEO!StartAfresh, GeoFresh
<1>2. PICK s \in Solvers :
        at' = [at EXCEPT !.stage = IF at.opt = "CELL" THEN 1 ELSE 0, !.solvers = <<s>>]
  BY DEF GEO!StartAfresh
<1>3. /\ at' \in GeoAt /\ at'.solvers = <<s>> /\ at'.pc = "cycle" /\ at'.cycle = 0 /\ at'.resume = {}
  <2>1. PICK t \in {0, 1} : t = IF at.opt = "CELL" THEN 1 ELSE 0
    OBVIOUS
  <2>2. PICK l \in Seq(Solvers) : l = <<s>>
    <3>1. <<s>> \in Seq(Solvers)
      OBVIOUS
    <3>2. QED BY <3>1, Zenon
  <2>3. at' = [at EXCEPT !.stage = t, !.solvers = l] /\ at \in GeoAt
    BY <1>2, <2>1, <2>2 DEF GeoTypes
  <2>4. QED BY <1>1, <2>2, <2>3 DEF GeoAt
<1>4. GeoTypes'
  <2>1. 0 \in 0..MaxStep + MaxCycle + 1 /\ 1 \in 0..MaxRuns /\ 0 \in 0..MaxRuns
    BY LaunchConstantsOK
  <2>2. GEO!Whole(0, 1) \in GeoContents
    BY <1>1, <2>1, GeoValues
  <2>3. a \in GeoOps
    BY <2>2, GeoFileNames DEF GeoOps, GEO!Write
  <2>4. todo' \in Seq(GeoOps)
    BY <1>1, <2>3
  <2>5. disk' \in [GEO!Files -> GeoContents]
    BY <1>1 DEF GeoTypes
  <2>6. Len(at'.solvers) = 1
    BY <1>3
  <2>7. QED BY <1>1, <1>3, <2>1, <2>4, <2>5, <2>6 DEF GeoTypes
<1>5. GeoFresh'
  BY <1>1 DEF GeoFresh
<1>6. \A f \in GEO!Files : ~GEO!IsWhole(f) /\ ~GEO!Exists(f)
  BY <1>1 DEF GEO!IsWhole, GEO!Exists, GEO!Absent
<1>7. ASSUME NEW c \in 0..MaxCycle, NEW t \in {0, 1} PROVE ~GeoBegun(c, t)'
  <2>1. ~GeoBegun(c, t)
    <3>1. ~GEO!IsWhole(GEO!Step(c, t))
      BY <1>6, GeoFileNames
    <3>2. \A n \in 0..MaxStep : \A name \in GEO!Checkpoint(t) : ~GEO!Exists(GEO!In(c, t, n, name))
      BY <1>6, GeoFileNames
    <3>3. QED BY <3>1, <3>2 DEF GeoBegun
  <2>2. QED BY <1>1, <2>1, GeoSameDisk
<1>8. \A f \in GEO!Files : ~GEO!IsWhole(f)'
  BY <1>1, <1>6, GeoSameDisk
<1>9. GeoRecords'
  BY <1>8, GeoFileNames DEF GeoRecords
<1>10. DOMAIN todo' = {1} /\ todo'[1].file = GEO!Dat
  BY <1>1 DEF GEO!Write
<1>11. GeoQueue'
  <2>1. GeoWrites(1)'
    BY <1>10 DEF GeoWrites
  <2>2. QED BY <1>10, <2>1 DEF GeoQueue
<1>12. GeoIntact' /\ GeoNewest'
  BY <1>8, GeoFileNames DEF GeoIntact, GeoNewest
<1>13. GeoReady'
  BY <1>10, GeoFilesDiffer DEF GeoReady, GeoStep
<1>14. GeoPlace'
  <2>1. at'.stage \in {0, 1} /\ 0 \in 0..MaxCycle
    BY <1>3, LaunchConstantsOK DEF GeoAt
  <2>2. GeoLatest'
    <3>1. \A c, t : GeoLater(c, t)'
      BY <1>7 DEF GeoLater
    <3>2. ~GeoBegun(0, 1)'
      BY <1>7, <2>1
    <3>3. QED BY <1>3, <3>1, <3>2 DEF GeoLatest, GeoLater, GeoBegun
  <2>3. GeoFound' /\ GeoSolving'
    BY <1>1, <1>3 DEF GeoFound, GeoSolving
  <2>4. GeoStarting'
    <3>1. PICK t \in {0, 1} : t = at'.stage
      BY <2>1
    <3>2. ~GeoBegun(0, t)'
      BY <1>7, <2>1
    <3>3. QED BY <1>1, <1>3, <3>1, <3>2 DEF GeoStarting, GeoBegun
  <2>5. QED BY <2>2, <2>3, <2>4 DEF GeoPlace
<1>15. QED BY <1>4, <1>5, <1>9, <1>11, <1>12, <1>13, <1>14 DEF GeoSafe

LEMMA GeoRestart ==
  ASSUME GeoInv, GEO!Restart
  PROVE  GeoInv'
<1> USE DEF GeoInv
<1>1. /\ phase \in {"crashed", "done"} /\ run \in 1..MaxRuns /\ run + 1 \in 1..MaxRuns /\ run' = run + 1
      /\ disk' = disk /\ todo = <<>> /\ todo' = todo
  BY LaunchConstantsOK DEF GEO!Restart, GeoTypes
<1>2. PICK s \in Solvers :
        LET c      == disk[GEO!Cycle].step
            starts == [at EXCEPT !.solvers = Append(@, s), !.probe = -2, !.resume = {}, !.loaded = 0]
        IN \/ phase' = "exited" /\ at' = starts
           \/ /\ GEO!IsWhole(GEO!Cycle) /\ GEO!IsWhole(GEO!Status(c))
              /\ phase' = "search"
              /\ at' = [starts EXCEPT !.cycle = c, !.stage = disk[GEO!Status(c)].step]
  BY DEF GEO!Restart
<1> DEFINE l == Append(at.solvers, s)
           starts == [at EXCEPT !.solvers = l, !.probe = -2, !.resume = {}, !.loaded = 0]
<1>3. /\ l \in Seq(Solvers) /\ Len(l) = run + 1 /\ at.solvers \in Seq(Solvers) /\ Len(at.solvers) = run
      /\ \A i \in 1..run : l[i] = at.solvers[i]
  BY <1>1 DEF GeoTypes, GeoAt
<1>4. /\ starts \in GeoAt /\ starts.solvers = l /\ starts.probe = -2 /\ starts.resume = {}
  <2>1. at \in GeoAt /\ l \in Seq(Solvers) /\ -2 \in -2..MaxStep /\ 0 \in 0..MaxRuns
    BY <1>3, LaunchConstantsOK DEF GeoTypes
  <2> HIDE DEF l
  <2>2. QED BY <2>1 DEF GeoAt
<1>5. \/ phase' = "exited" /\ at' = starts
      \/ \E c \in 0..MaxCycle, t \in {0, 1} :
           /\ GEO!IsWhole(GEO!Cycle) /\ c = disk[GEO!Cycle].step
           /\ GEO!IsWhole(GEO!Status(c)) /\ t = disk[GEO!Status(c)].step
           /\ phase' = "search" /\ at' = [starts EXCEPT !.cycle = c, !.stage = t]
  <2>1. CASE phase' = "exited" /\ at' = starts
    BY <2>1
  <2>2. CASE /\ GEO!IsWhole(GEO!Cycle) /\ GEO!IsWhole(GEO!Status(disk[GEO!Cycle].step)) /\ phase' = "search"
             /\ at' = [starts EXCEPT !.cycle = disk[GEO!Cycle].step,
                                     !.stage = disk[GEO!Status(disk[GEO!Cycle].step)].step]
    <3>1. PICK c \in 0..MaxCycle : c = disk[GEO!Cycle].step
      BY <2>2 DEF GeoRecords
    <3>2. PICK t \in {0, 1} : t = disk[GEO!Status(c)].step
      BY <2>2, <3>1 DEF GeoRecords
    <3>3. at' = [starts EXCEPT !.cycle = c, !.stage = t]
      BY <2>2, <3>1, <3>2
    <3>4. QED BY <2>2, <3>1, <3>2, <3>3
  <2>3. QED BY <1>2, <2>1, <2>2
<1>6. GeoRecords'
  <2>1. \A i \in 1..run : i \in 1..run'
    BY <1>1
  <2>2. QED BY <1>1, <2>1, GeoSameDisk DEF GeoRecords
<1>7. GeoQueue' /\ GeoReady'
  BY <1>1 DEF GeoQueue, GeoReady
<1>8. at'.solvers = l /\ at' \in GeoAt /\ at'.probe = -2
  <2>1. CASE at' = starts
    BY <1>4, <2>1
  <2>2. CASE \E c \in 0..MaxCycle, t \in {0, 1} : at' = [starts EXCEPT !.cycle = c, !.stage = t]
    <3>1. PICK c \in 0..MaxCycle, t \in {0, 1} : at' = [starts EXCEPT !.cycle = c, !.stage = t]
      BY <2>2
    <3>2. c \in -1..MaxCycle + 1
      BY LaunchConstantsOK
    <3> HIDE DEF starts
    <3>3. QED BY <1>4, <3>1, <3>2 DEF GeoAt
  <2>3. QED BY <1>5, <2>1, <2>2
<1>9. GEO!SameSolver' => GEO!SameSolver
  <2>1. SUFFICES ASSUME GEO!SameSolver', NEW r \in 1..run PROVE at.solvers[r] = at.solvers[1]
    BY DEF GEO!SameSolver
  <2>2. r \in 1..run' /\ 1 \in 1..run
    BY <1>1
  <2>3. l[r] = l[1]
    BY <1>8, <2>1, <2>2 DEF GEO!SameSolver
  <2>4. QED BY <1>3, <2>2, <2>3
<1>10. GEO!SameSolver => GeoIntact' /\ GeoNewest' /\ GeoNewest
  BY <1>1, GeoSameDisk DEF GeoSafe
<1>11. GeoFresh'
  BY <1>5 DEF GeoFresh
<1>12. CASE phase' = "exited" /\ at' = starts
  <2>1. GeoTypes'
    BY <1>1, <1>3, <1>4, <1>12 DEF GeoTypes
  <2>2. GeoPlace'
    BY <1>12 DEF GeoPlace, GeoLatest, GeoFound, GeoStarting, GeoSolving
  <2>3. QED BY <1>6, <1>7, <1>9, <1>10, <1>11, <2>1, <2>2 DEF GeoSafe
<1>13. CASE \E c \in 0..MaxCycle, t \in {0, 1} :
              /\ GEO!IsWhole(GEO!Cycle) /\ c = disk[GEO!Cycle].step
              /\ GEO!IsWhole(GEO!Status(c)) /\ t = disk[GEO!Status(c)].step
              /\ phase' = "search" /\ at' = [starts EXCEPT !.cycle = c, !.stage = t]
  <2>1. PICK c \in 0..MaxCycle, t \in {0, 1} :
              /\ GEO!IsWhole(GEO!Cycle) /\ c = disk[GEO!Cycle].step
              /\ GEO!IsWhole(GEO!Status(c)) /\ t = disk[GEO!Status(c)].step
              /\ phase' = "search" /\ at' = [starts EXCEPT !.cycle = c, !.stage = t]
    BY <1>13
  <2>2. at'.cycle = c /\ at'.stage = t
    <3> HIDE DEF starts
    <3>1. QED BY <1>4, <2>1 DEF GeoAt
  <2>3. GeoTypes'
    BY <1>1, <1>3, <1>8, <2>1, <2>2, LaunchConstantsOK DEF GeoTypes
  <2>4. ASSUME GEO!SameSolver PROVE GeoPlace'
    <3>1. GeoLater(c, t)'
      BY <1>1, <1>10, <2>1, <2>4, GeoSameDisk DEF GeoNewest
    <3>2. t = 0 => ~GeoBegun(c, 1)'
      BY <3>1, StageOrder DEF GeoLater
    <3>3. disk'[GEO!Cycle].step = c /\ disk'[GEO!Status(c)].step = t
      BY <1>1, <2>1
    <3>4. GeoLatest'
      BY <2>2, <3>1, <3>2, <3>3 DEF GeoLatest, GeoLater, GeoBegun
    <3>5. CycleKnown' /\ StatusKnown'
      BY <2>2, <3>3 DEF CycleKnown, StatusKnown
    <3>6. GeoFound'
      BY <1>8, <2>2, <3>5 DEF GeoFound
    <3>7. GeoStarting' /\ GeoSolving'
      BY <2>1 DEF GeoStarting, GeoSolving
    <3>8. QED BY <3>4, <3>6, <3>7 DEF GeoPlace
  <2>5. QED BY <1>6, <1>7, <1>9, <1>10, <1>11, <2>3, <2>4 DEF GeoSafe
<1>14. QED BY <1>5, <1>12, <1>13

\* With one solver throughout, what the records name is there.
LEMMA GeoProbed ==
  ASSUME GeoInv, GEO!SameSolver, phase = "search", at.probe # -2
  PROVE  /\ at.cycle \in 0..MaxCycle /\ at.stage \in {0, 1} /\ at.probe \in 0..MaxStep
         /\ GEO!IsWhole(GeoStep) /\ at.probe = disk[GeoStep].step
         /\ GEO!Intact(at.cycle, at.stage, at.probe)
         /\ GeoUpTo(at.cycle, at.stage, at.probe + 1)
<1> USE DEF GeoInv
<1>1. at.cycle \in 0..MaxCycle /\ at.stage \in {0, 1}
  BY LaunchConstantsOK DEF GeoTypes, GeoAt
<1>2. GEO!IsWhole(GeoStep) /\ at.probe = disk[GeoStep].step
  BY DEF GeoSafe, GeoPlace, GeoFound
<1>3. at.probe \in 0..MaxStep
  BY <1>1, <1>2 DEF GeoRecords, GeoStep
<1>4. GEO!Intact(at.cycle, at.stage, at.probe) /\ GeoUpTo(at.cycle, at.stage, at.probe + 1)
  BY <1>1, <1>2 DEF GeoSafe, GeoIntact, GeoStep
<1>5. QED BY <1>1, <1>2, <1>3, <1>4

LEMMA GeoSearchStops ==
  ASSUME GeoInv, phase = "search", GEO!Exits, UNCHANGED run
  PROVE  GeoInv'
<1>1. /\ phase' = "exited" /\ disk' = disk /\ todo' = <<>> /\ run' = run /\ at' = at /\ run # 0
      /\ todo = <<>>
  BY DEF GEO!Exits, GeoInv, GeoTypes
<1>2. GeoTypes'
  BY <1>1 DEF GeoInv, GeoTypes
<1>3. QED BY <1>1, <1>2, GeoStops

\* The search goes on, at the stage it is at.
LEMMA GeoSearchStage ==
  ASSUME GeoInv, GEO!SearchStage
  PROVE  GeoInv'
<1> USE DEF GeoInv
<1>1. /\ phase = "search" /\ at.probe = -2 /\ at.cycle \in 0..MaxCycle /\ at.stage \in {0, 1}
      /\ todo = <<>>
  BY LaunchConstantsOK DEF GEO!SearchStage, GeoTypes, GeoAt
<1>2. CASE GEO!Exits /\ UNCHANGED run
  BY <1>1, <1>2, GeoSearchStops
<1>3. CASE /\ GEO!IsWhole(GeoStep) /\ at' = [at EXCEPT !.probe = disk[GeoStep].step]
           /\ UNCHANGED <<disk, todo, phase, run>>
  <2>1. PICK n \in 0..MaxStep : n = disk[GeoStep].step
    BY <1>1, <1>3 DEF GeoRecords, GeoStep
  <2>2. n \in -2..MaxStep /\ at' = [at EXCEPT !.probe = n] /\ at \in GeoAt
    BY <1>3, <2>1, LaunchConstantsOK DEF GeoTypes
  <2>3. /\ at' \in GeoAt /\ at'.probe = n /\ at'.cycle = at.cycle /\ at'.stage = at.stage
        /\ at'.solvers = at.solvers
    BY <2>2 DEF GeoAt
  <2>4. GeoTypes' /\ GeoFresh' /\ GeoQueue'
    BY <1>1, <1>3, <2>3 DEF GeoTypes, GeoFresh, GeoQueue
  <2>5. ASSUME GEO!SameSolver PROVE GeoReady' /\ GeoPlace'
    <3>1. GeoLatest /\ GeoFound
      BY <2>5 DEF GeoSafe, GeoPlace
    <3>2. GeoReady'
      BY <1>1, <1>3 DEF GeoReady
    <3>3. GeoLatest'
      BY <1>3, <2>3, <3>1, GeoSameDisk DEF GeoLatest
    <3>4. CycleKnown' /\ StatusKnown'
      <4>1. CycleKnown /\ StatusKnown
        BY <1>1, <3>1 DEF GeoFound
      <4>2. QED BY <1>3, <2>3, <4>1, GeoSameDisk DEF CycleKnown, StatusKnown
    <3>5. GEO!IsWhole(GeoStep)' /\ at'.probe = disk'[GeoStep].step
      BY <1>3, <2>1, <2>3 DEF GeoStep, GEO!IsWhole
    <3>6. GeoFound'
      BY <1>1, <2>1, <2>3, <3>4, <3>5 DEF GeoFound, GeoStep
    <3>7. GeoStarting' /\ GeoSolving'
      BY <1>1, <1>3 DEF GeoStarting, GeoSolving
    <3>8. QED BY <3>2, <3>3, <3>6, <3>7 DEF GeoPlace
  <2>6. QED BY <1>3, <2>3, <2>4, <2>5, GeoQuiet
<1>4. QED BY <1>1, <1>2, <1>3 DEF GEO!SearchStage, GeoStep

\* The geometry is found, and the process goes on from it.
LEMMA GeoSearchFinds ==
  ASSUME GeoInv, GEO!SearchFinds
  PROVE  GeoInv'
<1> USE DEF GeoInv
<1> DEFINE w == GEO!Write(GeoStep, GEO!Whole(at.probe, run))
<1>1. /\ phase = "search" /\ at.probe \in 0..MaxStep /\ at.cycle \in 0..MaxCycle /\ at.stage \in {0, 1}
      /\ todo = <<>> /\ run \in 1..MaxRuns
  BY LaunchConstantsOK DEF GEO!SearchFinds, GeoTypes, GeoAt
<1>2. CASE GEO!Exits /\ UNCHANGED run
  BY <1>1, <1>2, GeoSearchStops
<1>3. CASE /\ phase' = "running" /\ at' = [at EXCEPT !.pc = "cycle", !.resume = {at.stage}]
           /\ todo' = <<w>> /\ UNCHANGED <<disk, run>>
  <2>1. at \in GeoAt /\ {at.stage} \in SUBSET {0, 1}
    BY <1>1 DEF GeoTypes
  <2>2. /\ at' \in GeoAt /\ at'.pc = "cycle" /\ at'.resume = {at.stage} /\ at'.cycle = at.cycle
        /\ at'.stage = at.stage /\ at'.probe = at.probe /\ at'.solvers = at.solvers
    BY <1>3, <2>1 DEF GeoAt
  <2>3. GeoTypes'
    <3>1. at.probe \in 0..MaxStep + MaxCycle + 1 /\ run \in 0..MaxRuns
      BY <1>1, LaunchConstantsOK
    <3>2. GEO!Whole(at.probe, run) \in GeoContents
      BY <3>1, GeoValues
    <3>3. w \in GeoOps
      BY <1>1, <3>2, GeoFileNames DEF GeoOps, GEO!Write, GeoStep
    <3>4. todo' \in Seq(GeoOps)
      BY <1>3, <3>3
    <3>5. QED BY <1>1, <1>3, <2>2, <3>4 DEF GeoTypes
  <2>4. DOMAIN todo' = {1} /\ Len(todo') = 1 /\ todo'[1] = w /\ w.file = GeoStep
        /\ w.value = GEO!Whole(at.probe, run) /\ w.value.step = at.probe
    BY <1>3 DEF GEO!Write, GEO!Whole
  <2>5. GeoFresh'
    BY <1>3 DEF GeoFresh
  <2>6. GeoQueue'
    <3>1. GeoWrites(1)'
      BY <1>1, <1>3, <2>2, <2>4 DEF GeoWrites, GeoStep
    <3>2. QED BY <2>4, <3>1 DEF GeoQueue
  <2>7. ASSUME GEO!SameSolver PROVE GeoReady' /\ GeoPlace'
    <3>1. GeoLatest /\ GeoFound
      BY <2>7 DEF GeoSafe, GeoPlace
    <3>2. PICK n \in 0..MaxStep : n = at.probe
      BY <1>1
    <3>3. GEO!Intact(at.cycle, at.stage, n) /\ GeoUpTo(at.cycle, at.stage, n + 1)
      BY <1>1, <2>7, <3>2, GeoProbed
    <3>4. GEO!Intact(at.cycle, at.stage, n)' /\ GeoUpTo(at.cycle, at.stage, n + 1)'
      BY <1>3, <2>2, <3>3, GeoSameDisk DEF GEO!Intact, GeoUpTo
    <3>5. GeoReady'
      BY <2>2, <2>4, <3>2, <3>4 DEF GeoReady, GEO!Intact, GeoUpTo, GeoStep
    <3>6. GeoLatest'
      BY <1>1, <1>3, <2>2, <3>1, GeoSameDisk DEF GeoLatest
    <3>7. CycleKnown' /\ StatusKnown'
      <4>1. CycleKnown /\ StatusKnown
        BY <1>1, <3>1 DEF GeoFound
      <4>2. DOMAIN todo = {}
        BY <1>1
      <4>3. /\ GEO!IsWhole(GEO!Cycle) => disk[GEO!Cycle].step = at.cycle
            /\ GEO!IsWhole(GEO!Status(at.cycle)) => disk[GEO!Status(at.cycle)].step = at.stage
        BY <4>1, <4>2 DEF CycleKnown, StatusKnown
      <4>4. QED BY <1>3, <2>2, <4>3, GeoSameDisk DEF CycleKnown, StatusKnown, GEO!IsWhole
    <3>8. GeoStarting'
      BY <1>1, <2>2, <3>7 DEF GeoStarting
    <3>9. GeoFound' /\ GeoSolving'
      BY <1>3, <2>2 DEF GeoFound, GeoSolving
    <3>10. QED BY <3>5, <3>6, <3>8, <3>9 DEF GeoPlace
  <2>8. QED BY <1>3, <2>2, <2>3, <2>5, <2>6, <2>7, GeoQuiet
<1>4. QED BY <1>1, <1>2, <1>3 DEF GEO!SearchFinds, GeoStep

\* The step before is looked for when a file is missing: with one solver none is.
LEMMA GeoSearchEarlier ==
  ASSUME GeoInv, GEO!SearchEarlierStep \/ GEO!SearchEarlierStage
  PROVE  GeoInv'
<1> USE DEF GeoInv
<1>1. /\ phase = "search" /\ at.probe \in -1..MaxStep /\ at.cycle \in 0..MaxCycle /\ at.stage \in {0, 1}
      /\ todo = <<>> /\ run \in 1..MaxRuns /\ disk' = disk /\ todo' = todo /\ phase' = phase /\ run' = run
  <2>1. /\ phase = "search" /\ (at.probe >= 0 \/ at.probe = -1)
        /\ disk' = disk /\ todo' = todo /\ phase' = phase /\ run' = run
    BY DEF GEO!SearchEarlierStep, GEO!SearchEarlierStage
  <2>2. /\ todo = <<>> /\ run \in 1..MaxRuns /\ at.probe \in -2..MaxStep /\ at.stage \in {0, 1}
        /\ at.cycle \in -1..MaxCycle + 1 /\ at.cycle <= MaxCycle /\ (at.probe # -2 => at.cycle >= 0)
    BY <2>1, LaunchConstantsOK DEF GeoTypes, GeoAt
  <2>3. QED BY <2>1, <2>2, LaunchConstantsOK
<1>2. at' \in GeoAt /\ at'.solvers = at.solvers /\ at'.cycle <= MaxCycle /\ (at'.probe # -2 => at'.cycle >= 0)
  <2>1. at \in GeoAt
    BY DEF GeoTypes
  <2>2. CASE GEO!SearchEarlierStep
    <3>1. at.probe >= 0
      BY <2>2 DEF GEO!SearchEarlierStep
    <3>2. PICK p \in -2..MaxStep : p = at.probe - 1
      <4>1. at.probe - 1 \in -2..MaxStep
        BY <1>1, <3>1, LaunchConstantsOK
      <4>2. QED BY <4>1, Zenon
    <3>3. at' = at \/ at' = [at EXCEPT !.probe = p]
      BY <2>2, <3>2 DEF GEO!SearchEarlierStep
    <3>4. CASE at' = at
      BY <1>1, <2>1, <3>4
    <3>5. CASE at' = [at EXCEPT !.probe = p]
      <4>1. at' \in GeoAt /\ at'.solvers = at.solvers /\ at'.cycle = at.cycle
        BY <2>1, <3>5 DEF GeoAt
      <4>2. QED BY <1>1, <4>1
    <3>6. QED BY <3>3, <3>4, <3>5
  <2>3. CASE GEO!SearchEarlierStage
    <3>1. PICK c \in -1..MaxCycle + 1 : c = (IF at.stage = 0 THEN at.cycle - 1 ELSE at.cycle) /\ c <= MaxCycle
      BY <1>1, LaunchConstantsOK
    <3>2. PICK t \in {0, 1} : t = 1 - at.stage
      BY <1>1
    <3>3. \/ at' = [at EXCEPT !.probe = -2, !.stage = t, !.cycle = c]
          \/ at' = [at EXCEPT !.probe = -2]
      BY <2>3, <3>1, <3>2 DEF GEO!SearchEarlierStage
    <3>4. -2 \in -2..MaxStep
      BY LaunchConstantsOK
    <3>5. CASE at' = [at EXCEPT !.probe = -2, !.stage = t, !.cycle = c]
      BY <2>1, <3>1, <3>4, <3>5 DEF GeoAt
    <3>6. CASE at' = [at EXCEPT !.probe = -2]
      <4>1. at' \in GeoAt /\ at'.solvers = at.solvers /\ at'.cycle = at.cycle /\ at'.probe = -2
        BY <2>1, <3>4, <3>6 DEF GeoAt
      <4>2. QED BY <1>1, <4>1
    <3>7. QED BY <3>3, <3>5, <3>6
  <2>4. QED BY <2>2, <2>3
<1>3. GeoTypes' /\ GeoFresh' /\ GeoQueue'
  BY <1>1, <1>2 DEF GeoTypes, GeoFresh, GeoQueue
<1>4. ~GEO!SameSolver
  <2>1. SUFFICES ASSUME GEO!SameSolver PROVE FALSE
    OBVIOUS
  <2>2. at.probe \in 0..MaxStep /\ GEO!Intact(at.cycle, at.stage, at.probe)
    BY <1>1, <2>1, GeoProbed
  <2>3. {"atomsCoord", "domainBoundingVectors"} \subseteq GEO!Checkpoint(at.stage)
    BY DEF GEO!Checkpoint
  <2>4. \A f \in GEO!Looked(at.cycle, at.stage, at.probe) : GEO!IsComplete(f)
    BY <2>2, <2>3 DEF GEO!Looked, GEO!Intact
  <2>5. \A f \in GEO!Looked(at.cycle, at.stage, at.probe) : GEO!Exists(f)
    BY <2>4 DEF GEO!IsComplete, GEO!Exists, GEO!Absent
  <2>6. QED BY <2>2, <2>5 DEF GEO!SearchEarlierStep, GEO!SearchEarlierStage
<1>5. QED BY <1>1, <1>2, <1>3, <1>4, GeoQuiet

LEMMA GeoSearchFails ==
  ASSUME GeoInv, GEO!SearchFails
  PROVE  GeoInv'
BY GeoSearchStops DEF GEO!SearchFails

LEMMA GeoNext ==
  ASSUME GeoInv, GEO!Next
  PROVE  GeoInv'
<1>1. CASE GEO!StartAfresh
  BY <1>1, GeoStartAfresh
<1>2. CASE GEO!BeginCycle
  BY <1>2, GeoBeginCycle
<1>3. CASE GEO!StartStage
  BY <1>3, GeoStartStage
<1>4. CASE GEO!ResumeStage
  BY <1>4, GeoResumeStage
<1>5. CASE GEO!BetweenStages
  BY <1>5, GeoBetweenStages
<1>6. CASE GEO!SaveFirst
  BY <1>6, GeoSaveFirst
<1>7. CASE GEO!Update
  BY <1>7, GeoUpdate
<1>8. CASE GEO!StageEnds
  BY <1>8, GeoStageEnds
<1>9. CASE GEO!OutOfCycles
  BY <1>9, GeoOutOfCycles
<1>10. CASE GEO!FileStep
  BY <1>10, GeoFileStepKeeps
<1>11. CASE GEO!Crash
  BY <1>11, GeoCrashKeeps
<1>12. CASE GEO!Restart
  BY <1>12, GeoRestart
<1>13. CASE GEO!Search
  BY <1>13, GeoSearchStage, GeoSearchFinds, GeoSearchEarlier, GeoSearchFails DEF GEO!Search
<1>14. QED
  BY <1>1, <1>2, <1>3, <1>4, <1>5, <1>6, <1>7, <1>8, <1>9, <1>10, <1>11, <1>12, <1>13 DEF GEO!Next

LEMMA GeoStutter ==
  ASSUME GeoInv, disk' = disk, todo' = todo, phase' = phase, run' = run, at' = at
  PROVE  GeoInv'
<1> USE DEF GeoInv
<1>1. GeoTypes' /\ GeoFresh'
  BY DEF GeoTypes, GeoFresh
<1>2. GeoQueue'
  BY DEF GeoQueue, GeoWrites, GeoStep, GeoFile
<1>3. GeoReady' <=> GeoReady
  BY GeoSameDisk DEF GeoReady, GeoPending, GeoStep
<1>4. GeoLatest' <=> GeoLatest
  BY GeoSameDisk DEF GeoLatest
<1>5. (CycleKnown' <=> CycleKnown) /\ (StatusKnown' <=> StatusKnown)
  BY GeoSameDisk DEF CycleKnown, StatusKnown
<1>6. GEO!IsWhole(GeoStep)' <=> GEO!IsWhole(GeoStep)
  BY GeoSameDisk DEF GeoStep
<1>7. GeoFound' <=> GeoFound
  BY <1>5, <1>6 DEF GeoFound, GeoStep
<1>8. GeoStarting' <=> GeoStarting
  BY <1>5, GeoSameDisk DEF GeoStarting
<1>9. GeoSolving' <=> GeoSolving
  BY <1>6, GeoSameDisk DEF GeoSolving, GeoStep, GeoFile
<1>10. GEO!SameSolver => GeoReady' /\ GeoPlace'
  BY <1>3, <1>4, <1>7, <1>8, <1>9 DEF GeoSafe, GeoPlace
<1>11. QED BY <1>1, <1>2, <1>10, GeoQuiet

LEMMA GeoStarts ==
  ASSUME GEO!Init
  PROVE  GeoInv
<1>1. PICK o \in Modes, v \in Verbosities :
        at = [opt |-> o, verbosity |-> v, cycle |-> 0, stage |-> 0, step |-> 0,
              probe |-> -2, pc |-> "cycle", resume |-> {}, saveFirst |-> FALSE,
              loaded |-> 0, solvers |-> <<>>]
  BY DEF GEO!Init
<1>2. disk = [f \in GEO!Files |-> GEO!Absent] /\ todo = <<>> /\ phase = "off" /\ run = 0
  BY DEF GEO!Init
<1>3. GEO!Absent \in GeoContents /\ 0 \in 0..MaxRuns
  BY LaunchConstantsOK DEF GeoContents, GEO!Contents, GEO!Absent
<1>4. GeoTypes
  <2>1. at \in GeoAt /\ Len(at.solvers) = 0
    <3>1. /\ 0 \in -1..MaxCycle + 1 /\ 0 \in 0..MaxStep /\ -2 \in -2..MaxStep /\ 0 \in {0, 1}
          /\ {} \in SUBSET {0, 1} /\ FALSE \in BOOLEAN /\ <<>> \in Seq(Solvers)
      BY LaunchConstantsOK
    <3>2. QED BY <1>1, <1>3, <3>1 DEF GeoAt
  <2>2. disk \in [GEO!Files -> GeoContents] /\ todo \in Seq(GeoOps)
    BY <1>2, <1>3
  <2>3. QED BY <1>2, <1>3, <2>1, <2>2 DEF GeoTypes
<1>5. \A f \in GEO!Files : disk[f] = GEO!Absent /\ ~GEO!IsWhole(f)
  BY <1>2 DEF GEO!IsWhole, GEO!Absent
<1>6. GeoFresh
  BY <1>1, <1>2, <1>5 DEF GeoFresh
<1>7. GeoRecords /\ GeoIntact /\ GeoNewest
  BY <1>5, GeoFileNames DEF GeoRecords, GeoIntact, GeoNewest
<1>8. GeoQueue /\ GeoReady
  BY <1>2 DEF GeoQueue, GeoReady
<1>9. GeoPlace
  BY <1>2 DEF GeoPlace, GeoLatest, GeoFound, GeoStarting, GeoSolving
<1>10. QED BY <1>4, <1>6, <1>7, <1>8, <1>9 DEF GeoInv, GeoSafe

\* GeoInv holds throughout: its types, its records and its queue whatever the solvers,
\* the rest with one solver.
THEOREM GeoInvariance == Spec => [](solvermode = "GEOOPT" => GeoInv)
<1> DEFINE I == solvermode = "GEOOPT" => GeoInv
<1>1. Init => I
  BY GeoStarts DEF Init
<1>2. I /\ [Next]_vars => I'
  <2>1. SUFFICES ASSUME I, [Next]_vars PROVE I'
    OBVIOUS
  <2>2. SUFFICES ASSUME solvermode' = "GEOOPT" PROVE GeoInv'
    OBVIOUS
  <2>3. CASE UNCHANGED vars
    BY <2>1, <2>2, <2>3, GeoStutter DEF vars
  <2>4. CASE Next
    <3>1. GeoInv /\ GEO!Next
      BY <2>1, <2>2, <2>4 DEF Next
    <3>2. QED BY <3>1, GeoNext
  <2>5. QED BY <2>1, <2>3, <2>4
<1>3. QED BY <1>1, <1>2, PTL DEF Spec

\* GEORecordedStepIsIntact: whenever the process dies, the step that a step.chk names
\* has all its files (geoOptIon::save, geoOptCell::save and the search of
\* geometryOptimizationClass::init), with one solver throughout.
THEOREM GEORecordedStep == Spec => []GEORecordedStepIsIntact
<1>1. (solvermode = "GEOOPT" => GeoInv) => GEORecordedStepIsIntact
  BY DEF GeoInv, GeoSafe, GeoIntact, GEORecordedStepIsIntact, GEO!RecordedStepIsIntact, GEO!Stages
<1>2. QED BY <1>1, GeoInvariance, PTL

\* A search that ends in a geometry loses at most the step being saved.
LEMMA GeoLosesOneStep ==
  ASSUME GeoInv, [GEO!Next]_<<disk, todo, phase, run, at, mem>>
  PROVE  GEO!LosesOneStep
<1> USE DEF GeoInv
<1>1. SUFFICES ASSUME GEO!SameSolver, phase = "search", phase' = "running"
               PROVE  \A c \in 0..MaxCycle, s \in {0, 1}, n \in 0..MaxStep : GEO!Intact(c, s, n) =>
                        \/ 2 * c + s < 2 * at.cycle + at.stage
                        \/ c = at.cycle /\ s = at.stage /\ n <= at.probe + 1
  BY DEF GEO!LosesOneStep, GEO!Stages
<1>2. GEO!SearchFinds
  BY <1>1 DEF GEO!Next, GEO!Search, GEO!StartAfresh, GEO!BeginCycle, GEO!StartStage, GEO!ResumeStage,
     GEO!BetweenStages, GEO!SaveFirst, GEO!Update, GEO!StageEnds, GEO!OutOfCycles, GEO!FileStep,
     GEO!Crash, GEO!Restart, GEO!SearchStage, GEO!SearchEarlierStep, GEO!SearchEarlierStage,
     GEO!SearchFails, GEO!Exits, GEO!Idle
<1>3. at.probe # -2
  BY <1>2 DEF GEO!SearchFinds
<1>4. /\ at.cycle \in 0..MaxCycle /\ at.stage \in {0, 1} /\ at.probe \in 0..MaxStep
      /\ GeoUpTo(at.cycle, at.stage, at.probe + 1)
  BY <1>1, <1>3, GeoProbed
<1>5. \A c \in 0..MaxCycle, s \in {0, 1} : 2 * c + s > 2 * at.cycle + at.stage => ~GeoBegun(c, s)
  BY <1>1 DEF GeoSafe, GeoPlace, GeoLatest, GeoLater
<1>6. SUFFICES ASSUME NEW c \in 0..MaxCycle, NEW s \in {0, 1}, NEW n \in 0..MaxStep, GEO!Intact(c, s, n)
               PROVE  \/ 2 * c + s < 2 * at.cycle + at.stage
                      \/ c = at.cycle /\ s = at.stage /\ n <= at.probe + 1
  OBVIOUS
<1>7. GEO!Exists(GEO!In(c, s, n, "Relax")) /\ "Relax" \in GEO!Checkpoint(s)
  BY <1>6 DEF GEO!Intact, GEO!Checkpoint, GEO!IsComplete, GEO!Exists, GEO!Absent
<1>8. GeoBegun(c, s)
  BY <1>7 DEF GeoBegun
<1>9. ~(2 * c + s > 2 * at.cycle + at.stage)
  BY <1>5, <1>8
<1>10. CASE c = at.cycle /\ s = at.stage
  BY <1>4, <1>7, <1>10 DEF GeoUpTo
<1>11. CASE ~(c = at.cycle /\ s = at.stage)
  BY <1>4, <1>9, <1>11
<1>12. QED BY <1>10, <1>11

\* GEOLosesOneStep: no later stage or cycle has a complete step, and none above the one
\* after the step that the search ends with (geometryOptimizationClass::init).
THEOREM GEOLosesAtMostOneStep == Spec => GEOLosesOneStep
<1>1. /\ solvermode = "GEOOPT" => GeoInv
      /\ [Next]_vars
      => [solvermode = "GEOOPT" => GEO!LosesOneStep]_vars
  <2>1. SUFFICES ASSUME solvermode = "GEOOPT", GeoInv, Next
                 PROVE  GEO!LosesOneStep
    OBVIOUS
  <2>2. GEO!Next
    BY <2>1 DEF Next
  <2>3. QED BY <2>1, <2>2, GeoLosesOneStep
<1>2. QED BY <1>1, GeoInvariance, PTL DEF Spec, GEOLosesOneStep
-----------------------------------------------------------------------------
(***************************************************************************)
(* The elastic band: the invariant.                                        *)
(***************************************************************************)
NebContents == NEB!Contents(MaxUpdates)
NebOps == [do : {"write"}, file : NEB!Files, from : NEB!Files, value : NebContents]
NebAt == [step : 0..MaxUpdates, saveFirst : BOOLEAN, loaded : 0..MaxRuns, solvers : Seq(Solvers)]

\* The file before Step.chk was written last.
OldChk == NEB!Old(NEB!StepChk)

NebTypes ==
  /\ disk \in [NEB!Files -> NebContents]
  /\ phase \in {"off", "running", "done", "crashed", "exited"}
  /\ run \in 0..MaxRuns /\ (run = 0 => phase = "off")
  /\ at \in NebAt /\ Len(at.solvers) = run
  /\ todo \in Seq(NebOps) /\ (phase # "running" => todo = <<>>)

\* The process that was not started yet.
NebFresh ==
  phase = "off" => \A f \in NEB!Files : disk[f] = NEB!Absent

\* A file that was written in full was written by a process there was.
NebRecords ==
  \A f \in {NEB!Dat, NEB!StepChk, OldChk} : NEB!IsWhole(f) => disk[f].run \in 1..run

\* The files of a step, all of which the save of the step writes.
NebFiles(n) == NEB!Looked(n) \cup {NEB!In(n, "maxForce"), NEB!In(n, "ionRelax")}

\* Each write the process still has to make: init's, or one of save's, of which the
\* last is Step.chk.
NebWrites(i) ==
  LET o == todo[i] IN
  \/ o.file = NEB!Dat /\ o.value.run = run /\ Len(todo) = 1
  \/ /\ o.file = NEB!StepChk /\ i \in {1, Len(todo)}
     /\ o.value = NEB!Whole(at.step, run) /\ ~at.saveFirst
  \/ /\ o.file \in NebFiles(at.step) /\ i < Len(todo)
     /\ o.value.state \in {"whole", "garbage"} /\ ~at.saveFirst
NebQueue == \A i \in DOMAIN todo : NebWrites(i)

\* The process saves a step, and the two writes of Step.chk it makes for it.
Saving == todo # <<>> /\ todo[Len(todo)].file = NEB!StepChk
SaveBegins == Saving /\ Len(todo) > 1 /\ todo[1].file = NEB!StepChk
SaveEnds == Saving /\ Len(todo) = 1

\* The file of the step is complete, or among those still to be written.
NebReady ==
  Saving => \A f \in NebFiles(at.step) :
    NEB!IsComplete(f) \/ \E i \in DOMAIN todo : todo[i].file = f

\* Where the two records are of one process the save of that step was finished.
NebIntact ==
  NEB!IsWhole(NEB!StepChk) /\ NEB!IsWhole(OldChk) /\ disk[NEB!StepChk].run = disk[OldChk].run
    => NEB!Intact(disk[OldChk].step)

\* The last record is in Step.chk, or, while that is written anew, in its old file.
Last == IF NEB!Exists(NEB!StepChk) THEN NEB!StepChk ELSE OldChk

\* Before a save what this process recorded last is the step before, or the step
\* itself when none is to be saved; and it is complete.
NebBetween ==
  /\ phase = "running" /\ (~Saving \/ SaveBegins)
  /\ NEB!IsWhole(Last) /\ disk[Last].run = run
  =>
      /\ NEB!Intact(disk[Last].step)
      /\ disk[Last].step = IF Saving THEN at.step - 1 ELSE at.step
      /\ ~at.saveFirst

\* Within a save Step.chk names the step, and its old file the step before.
NebWithin ==
  Saving /\ ~SaveBegins =>
    \/ /\ disk[NEB!StepChk] = NEB!Whole(at.step, run)
       /\ NEB!IsWhole(OldChk) /\ disk[OldChk].run = run => disk[OldChk].step + 1 = at.step
    \/ SaveEnds /\ disk[NEB!StepChk] = NEB!Absent /\ disk[OldChk] = NEB!Whole(at.step, run)

\* A step that a restart comes back to at least: its images are all there, nothing is
\* above the step after it, and the records are of these two steps.
NebBase(b) ==
  /\ b >= 2 => \A f \in NEB!Looked(b) : NEB!Exists(f)
  /\ \A m \in 0..MaxUpdates : NEB!Exists(NEB!In(m, "maxForce")) => m <= b + 1
  /\ \A f \in {NEB!StepChk, OldChk} : NEB!IsWhole(f) => disk[f].step \in {b, b + 1}
  /\ NEB!IsWhole(NEB!StepChk) /\ NEB!IsWhole(OldChk) => disk[OldChk].step <= disk[NEB!StepChk].step

NebPlace ==
  /\ phase = "running" => NebBase(IF Saving THEN at.step - 1 ELSE at.step)
  /\ phase = "running" /\ at.saveFirst =>
       at.step = 0 /\ \A f \in NEB!Files \ {NEB!Dat} : ~NEB!Exists(f)
  /\ phase # "running" => \E b \in -1..MaxUpdates : NebBase(b)

NebInv ==
  /\ NebTypes /\ NebFresh /\ NebRecords /\ NebQueue /\ NebReady
  /\ NebIntact /\ NebBetween /\ NebWithin
  /\ NEB!SameSolver => NebPlace

\* The files of an elastic band, and that different records are different files.
LEMMA NebFileNames ==
  /\ NEB!Dat \in NEB!Files /\ NEB!StepChk \in NEB!Files /\ OldChk \in NEB!Files
  /\ \A n \in 0..MaxUpdates : NebFiles(n) \subseteq NEB!Files
<1>1. NEB!Dat \in NEB!Files /\ NEB!StepChk \in NEB!Files /\ OldChk \in NEB!Files
  BY DEF NEB!Files, OldChk
<1>2. ASSUME NEW n \in 0..MaxUpdates, NEW f \in NebFiles(n)
      PROVE  f \in NEB!Files
  <2>1. CASE f \in NEB!Looked(n)
    BY <2>1 DEF NEB!Looked, NEB!Files
  <2>2. CASE f \in {NEB!In(n, "maxForce"), NEB!In(n, "ionRelax")}
    BY <2>2 DEF NEB!Files
  <2>3. QED BY <1>2, <2>1, <2>2 DEF NebFiles
<1>3. QED BY <1>1, <1>2

LEMMA NebRecordsDiffer ==
  NEB!Dat # NEB!StepChk /\ NEB!Dat # OldChk /\ NEB!StepChk # OldChk
<1>1. NEB!Dat # NEB!StepChk
  BY DEF NEB!Dat, NEB!StepChk
<1>2. NEB!Dat # OldChk /\ NEB!StepChk # OldChk
  <2>1. Len(NEB!Dat) = 2 /\ Len(NEB!StepChk) = 2 /\ Len(OldChk) = 3
    BY DEF NEB!Dat, NEB!StepChk, OldChk, NEB!Old
  <2>2. QED BY <2>1
<1>3. QED BY <1>1, <1>2

\* A step's file is neither of those nor another step's.
LEMMA NebStepFilesDiffer ==
  ASSUME NEW n, NEW f \in NebFiles(n)
  PROVE  /\ f # NEB!Dat /\ f # NEB!StepChk /\ f # OldChk
         /\ \A m : f \in NebFiles(m) => m = n
         /\ \A m, name : f = NEB!In(m, name) => m = n
<1> DEFINE Place(m, x) == x[1][1] = m /\ x[2] \in {"atomsCoordCurrent", "domainBoundingVectorsCurrent", "maxForce", "ionRelax"}
<1>1. ASSUME NEW m, NEW x \in NebFiles(m) PROVE Place(m, x) /\ Len(x) = 2
  <2>1. CASE \E i \in NEB!Images : x = NEB!Coords(m, i) \/ x = NEB!Domain(m, i)
    BY <2>1 DEF NEB!Coords, NEB!Domain
  <2>2. CASE x \in {NEB!In(m, "maxForce"), NEB!In(m, "ionRelax")}
    BY <2>2 DEF NEB!In
  <2>3. QED BY <1>1, <2>1, <2>2 DEF NebFiles, NEB!Looked
<1>2. f # NEB!Dat /\ f # NEB!StepChk
  BY <1>1 DEF NEB!Dat, NEB!StepChk
<1>3. f # OldChk
  <2>1. Len(f) = 2 /\ Len(OldChk) = 3
    BY <1>1 DEF OldChk, NEB!Old
  <2>2. QED BY <2>1
<1>4. ASSUME NEW m, f \in NebFiles(m) PROVE m = n
  BY <1>1, <1>4
<1>5. ASSUME NEW m, NEW name, f = NEB!In(m, name) PROVE m = n
  BY <1>1, <1>5 DEF NEB!In
<1>6. QED BY <1>2, <1>3, <1>4, <1>5

\* Only Step.chk has an old file that a restart reads.
LEMMA NebOldFiles ==
  ASSUME NEW f \in NEB!Files \ {OldChk}, f # NEB!StepChk
  PROVE  NEB!Old(f) \notin NEB!Files
<1>1. ASSUME NEW g \in NEB!Files \ {OldChk} PROVE Len(g) = 2
  BY DEF NEB!Files, OldChk, NEB!Dat, NEB!StepChk, NEB!In, NEB!Coords, NEB!Domain
<1>2. Len(NEB!Old(f)) = 3
  BY DEF NEB!Old
<1>3. NEB!Old(f) # OldChk
  <2>1. f[1] # NEB!StepChk[1] \/ f[2] # NEB!StepChk[2]
    BY DEF NEB!Files, OldChk, NEB!Dat, NEB!StepChk, NEB!In, NEB!Coords, NEB!Domain
  <2>2. QED BY <2>1 DEF NEB!Old, OldChk
<1>4. QED BY <1>1, <1>2, <1>3

\* The head of the queue and what is left without it.
LEMMA NebHead ==
  ASSUME NebTypes, todo # <<>>
  PROVE  /\ DOMAIN todo = 1..Len(todo) /\ Len(todo) \in Nat /\ 1 \in DOMAIN todo
         /\ Head(todo) = todo[1] /\ \A i \in DOMAIN todo : todo[i] \in NebOps
         /\ Tail(todo) \in Seq(NebOps) /\ Len(Tail(todo)) = Len(todo) - 1
         /\ DOMAIN Tail(todo) = 1..(Len(todo) - 1)
         /\ \A i \in 1..(Len(todo) - 1) : Tail(todo)[i] = todo[i + 1]
BY DEF NebTypes

\* The kinds of writes, by the name of the file.
LEMMA NebKinds ==
  ASSUME NebTypes, NebQueue, NEW i \in DOMAIN todo
  PROVE  /\ todo[i].file # OldChk
         /\ todo[i].file = NEB!Dat => todo[i].value.run = run /\ Len(todo) = 1
         /\ todo[i].file = NEB!StepChk =>
              i \in {1, Len(todo)} /\ todo[i].value = NEB!Whole(at.step, run) /\ ~at.saveFirst
         /\ todo[i].file \notin {NEB!Dat, NEB!StepChk} =>
              /\ todo[i].file \in NebFiles(at.step) /\ i < Len(todo)
              /\ todo[i].value.state \in {"whole", "garbage"} /\ ~at.saveFirst
<1>1. NebWrites(i)
  BY DEF NebQueue
<1>2. todo[i].file = NEB!StepChk => todo[i].file # NEB!Dat /\ todo[i].file \notin NebFiles(at.step)
  BY NebRecordsDiffer, NebStepFilesDiffer
<1>3. todo[i].file = NEB!Dat => todo[i].file # NEB!StepChk /\ todo[i].file \notin NebFiles(at.step)
  BY NebRecordsDiffer, NebStepFilesDiffer
<1>4. todo[i].file # OldChk
  BY <1>1, NebRecordsDiffer, NebStepFilesDiffer DEF NebWrites
<1>5. QED BY <1>1, <1>2, <1>3, <1>4 DEF NebWrites

\* A file operation moves the existing file away, Step.chk to its old name, or writes
\* the new one.
LEMMA NebFileStep ==
  ASSUME NebTypes, NebQueue, NEB!FileStep
  PROVE  /\ phase = "running" /\ todo # <<>>
         /\ phase' = phase /\ run' = run /\ at' = at
         /\ \/ /\ NEB!Exists(todo[1].file) /\ todo' = todo
               /\ todo[1].file = NEB!StepChk
               /\ disk' = [disk EXCEPT ![NEB!StepChk] = NEB!Absent, ![OldChk] = disk[NEB!StepChk]]
            \/ /\ NEB!Exists(todo[1].file) /\ todo' = todo
               /\ todo[1].file # NEB!StepChk
               /\ disk' = [disk EXCEPT ![todo[1].file] = NEB!Absent]
            \/ /\ ~NEB!Exists(todo[1].file) /\ todo' = Tail(todo)
               /\ disk' = [disk EXCEPT ![todo[1].file] = todo[1].value]
<1>1. phase = "running" /\ todo # <<>> /\ run' = run /\ at' = at
  BY DEF NEB!FileStep
<1>2. todo[1] \in NebOps /\ Head(todo) = todo[1] /\ disk \in [NEB!Files -> NebContents] /\ 1 \in DOMAIN todo
  BY <1>1, NebHead DEF NebTypes
<1>3. todo[1].do = "write" /\ todo[1].file \in NEB!Files \ {OldChk}
  BY <1>2, NebKinds DEF NebOps
<1>4. NEB!WriteFile(todo[1])
  BY <1>2, <1>3 DEF NEB!FileStep
<1>5. phase' = phase
  BY <1>4 DEF NEB!WriteFile
<1>6. CASE NEB!Exists(todo[1].file)
  <2>1. /\ todo' = todo
        /\ disk' = [f \in DOMAIN disk |-> CASE f = todo[1].file -> NEB!Absent
                                            [] f = NEB!Old(todo[1].file) -> disk[todo[1].file]
                                            [] OTHER -> disk[f]]
    BY <1>4, <1>6 DEF NEB!WriteFile
  <2>2. CASE todo[1].file = NEB!StepChk
    <3>1. disk' = [disk EXCEPT ![NEB!StepChk] = NEB!Absent, ![OldChk] = disk[NEB!StepChk]]
      BY <1>2, <2>1, <2>2, NebRecordsDiffer, NebFileNames DEF OldChk
    <3>2. QED BY <1>1, <1>5, <1>6, <2>1, <2>2, <3>1
  <2>3. CASE todo[1].file # NEB!StepChk
    <3>1. \A f \in NEB!Files : f # NEB!Old(todo[1].file)
      BY <1>3, <2>3, NebOldFiles
    <3>2. disk' = [disk EXCEPT ![todo[1].file] = NEB!Absent]
      BY <1>2, <1>3, <2>1, <3>1
    <3>3. QED BY <1>1, <1>5, <1>6, <2>1, <2>3, <3>2
  <2>4. QED BY <2>2, <2>3
<1>7. CASE ~NEB!Exists(todo[1].file)
  <2>1. todo' = Tail(todo) /\ disk' = [disk EXCEPT ![todo[1].file] = todo[1].value]
    BY <1>4, <1>7 DEF NEB!WriteFile
  <2>2. QED BY <1>1, <1>5, <1>7, <2>1
<1>8. QED BY <1>6, <1>7

LEMMA NebValues ==
  ASSUME NEW n \in 0..MaxUpdates, NEW r \in 0..MaxRuns, run \in 0..MaxRuns
  PROVE  /\ NEB!Whole(n, r) \in NebContents
         /\ NEB!Computed(n) \in NebContents /\ NEB!Computed(n).state \in {"whole", "garbage"}
         /\ NEB!Torn \in NebContents /\ NEB!Absent \in NebContents
         /\ \A f \in NEB!Files : \A v \in NebContents : NEB!Write(f, v) \in NebOps
<1>1. NEB!Whole(n, r) \in NebContents /\ NEB!Whole(n, run) \in NebContents
  BY LaunchConstantsOK DEF NebContents, NEB!Contents, NEB!Whole
<1>2. NEB!Garbage \in NebContents
  BY LaunchConstantsOK DEF NebContents, NEB!Contents, NEB!Garbage
<1>3. NEB!Torn \in NebContents
  BY LaunchConstantsOK DEF NebContents, NEB!Contents, NEB!Torn
<1>4. NEB!Absent \in NebContents
  BY LaunchConstantsOK DEF NebContents, NEB!Contents, NEB!Absent
<1>5. NEB!Computed(n) \in NebContents
  BY <1>1, <1>2 DEF NEB!Computed
<1>6. NEB!Computed(n).state \in {"whole", "garbage"}
  BY DEF NEB!Computed, NEB!Whole, NEB!Garbage
<1>7. \A f \in NEB!Files : \A v \in NebContents : NEB!Write(f, v) \in NebOps
  BY DEF NebOps, NEB!Write
<1>8. QED BY <1>1, <1>3, <1>4, <1>5, <1>6, <1>7

\* ImageFiles writes the cell and the atoms of every image.
LEMMA NebImageFiles ==
  ASSUME NEW n, NEW S, \A f \in NEB!Looked(n) : NEB!Write(f, NEB!Computed(n)) \in S
  PROVE  /\ NEB!ImageFiles(n) \in Seq(S) /\ Len(NEB!ImageFiles(n)) = 2 * NumberOfImages
         /\ \A k \in 1..2 * NumberOfImages : \E f \in NEB!Looked(n) :
              NEB!ImageFiles(n)[k] = NEB!Write(f, NEB!Computed(n))
         /\ \A f \in NEB!Looked(n) : \E k \in 1..2 * NumberOfImages :
              NEB!ImageFiles(n)[k] = NEB!Write(f, NEB!Computed(n))
<1> DEFINE v == NEB!Computed(n)
           d(i) == NEB!Write(NEB!Domain(n, i), v)
           c(i) == NEB!Write(NEB!Coords(n, i), v)
<1>1. NEB!ImageFiles(n) = [k \in 1..2 * NumberOfImages |-> <<d((k + 1) \div 2), c((k + 1) \div 2)>>[2 - (k % 2)]]
  BY DEF NEB!ImageFiles, NEB!Geometry
<1>2. ASSUME NEW k \in 1..2 * NumberOfImages
      PROVE  (k + 1) \div 2 \in NEB!Images
  BY LaunchConstantsOK DEF NEB!Images
<1>3. ASSUME NEW k \in 1..2 * NumberOfImages
      PROVE  \E f \in NEB!Looked(n) : NEB!ImageFiles(n)[k] = NEB!Write(f, v)
  <2>1. PICK i \in NEB!Images : i = (k + 1) \div 2
    BY <1>2, <1>3
  <2>2. NEB!Domain(n, i) \in NEB!Looked(n) /\ NEB!Coords(n, i) \in NEB!Looked(n)
    BY DEF NEB!Looked
  <2>3. NEB!ImageFiles(n)[k] = <<d(i), c(i)>>[2 - (k % 2)]
    BY <1>1, <2>1
  <2>4. 2 - (k % 2) \in {1, 2}
    BY LaunchConstantsOK
  <2>5. NEB!ImageFiles(n)[k] \in {d(i), c(i)}
    BY <2>3, <2>4
  <2>6. QED BY <2>2, <2>5
<1>4. ASSUME NEW f \in NEB!Looked(n)
      PROVE  \E k \in 1..2 * NumberOfImages : NEB!ImageFiles(n)[k] = NEB!Write(f, v)
  <2>1. PICK i \in NEB!Images : f = NEB!Domain(n, i) \/ f = NEB!Coords(n, i)
    BY DEF NEB!Looked
  <2>2. CASE f = NEB!Domain(n, i)
    <3>1. PICK k \in 1..2 * NumberOfImages : k = 2 * i - 1
      BY LaunchConstantsOK DEF NEB!Images
    <3>2. (k + 1) \div 2 = i /\ 2 - (k % 2) = 1
      BY <3>1, LaunchConstantsOK DEF NEB!Images
    <3>3. NEB!ImageFiles(n)[k] = d(i)
      BY <1>1, <3>2
    <3>4. QED BY <2>2, <3>3
  <2>3. CASE f = NEB!Coords(n, i)
    <3>1. PICK k \in 1..2 * NumberOfImages : k = 2 * i
      BY LaunchConstantsOK DEF NEB!Images
    <3>2. (k + 1) \div 2 = i /\ 2 - (k % 2) = 2
      BY <3>1, LaunchConstantsOK DEF NEB!Images
    <3>3. NEB!ImageFiles(n)[k] = c(i)
      BY <1>1, <3>2
    <3>4. QED BY <2>3, <3>3
  <2>4. QED BY <2>1, <2>2, <2>3
<1>5. NEB!ImageFiles(n) \in Seq(S) /\ Len(NEB!ImageFiles(n)) = 2 * NumberOfImages
  <2>1. \A k \in 1..2 * NumberOfImages : NEB!ImageFiles(n)[k] \in S
    BY <1>3
  <2>2. DOMAIN NEB!ImageFiles(n) = 1..2 * NumberOfImages /\ 2 * NumberOfImages \in Nat
    BY <1>1, LaunchConstantsOK
  <2>3. NEB!ImageFiles(n) \in [1..2 * NumberOfImages -> S]
    BY <1>1, <2>1
  <2>4. QED BY <2>2, <2>3
<1>6. QED BY <1>3, <1>4, <1>5

\* save: Step.chk, the files of the step, Step.chk again.
LEMMA NebSaveScript ==
  ASSUME NEW n \in 0..MaxUpdates, run \in 0..MaxRuns
  PROVE  LET q == NEB!SaveScript(n)  v == NEB!Computed(n)  w == NEB!Write(NEB!StepChk, NEB!Whole(n, run))
         IN /\ q \in Seq(NebOps) /\ Len(q) > 2
            /\ q[1] = w /\ q[Len(q)] = w
            /\ \A i \in 2..(Len(q) - 1) : \E f \in NebFiles(n) : q[i] = NEB!Write(f, v)
            /\ \A f \in NebFiles(n) : \E i \in 1..Len(q) : q[i].file = f
<1> DEFINE v == NEB!Computed(n)
           w == NEB!Write(NEB!StepChk, NEB!Whole(n, run))
           x == NEB!Write(NEB!In(n, "maxForce"), v)
           y == NEB!Write(NEB!In(n, "ionRelax"), v)
           m == NEB!ImageFiles(n)
           q == NEB!SaveScript(n)
           N == 2 * NumberOfImages
<1>1. q = (<<w, x>> \o m) \o <<y, w>>
  BY DEF NEB!SaveScript
<1>2. NEB!StepChk \in NEB!Files /\ NebFiles(n) \subseteq NEB!Files
  BY NebFileNames
<1>3. \A f \in NebFiles(n) : NEB!Write(f, v) \in NebOps
  BY <1>2, NebValues
<1>4. w \in NebOps
  BY <1>2, NebValues
<1>5. NEB!In(n, "maxForce") \in NebFiles(n) /\ NEB!In(n, "ionRelax") \in NebFiles(n) /\ NEB!Looked(n) \subseteq NebFiles(n)
  BY DEF NebFiles
<1>6. x \in NebOps /\ y \in NebOps /\ N \in Nat /\ N > 0
  BY <1>3, <1>5, LaunchConstantsOK
<1>7. /\ m \in Seq(NebOps) /\ Len(m) = N
      /\ \A k \in 1..N : \E f \in NEB!Looked(n) : m[k] = NEB!Write(f, v)
      /\ \A f \in NEB!Looked(n) : \E k \in 1..N : m[k] = NEB!Write(f, v)
  <2>1. \A f \in NEB!Looked(n) : NEB!Write(f, v) \in NebOps
    BY <1>3, <1>5
  <2>2. QED BY <2>1, NebImageFiles
<1> HIDE DEF v, w, x, y, m, q, N
<1> DEFINE a == <<w, x>>  b == <<y, w>>  am == a \o m
<1>8. /\ a \in Seq(NebOps) /\ Len(a) = 2 /\ a[1] = w /\ a[2] = x
      /\ b \in Seq(NebOps) /\ Len(b) = 2 /\ b[1] = y /\ b[2] = w
  BY <1>4, <1>6
<1> HIDE DEF a, b
<1>9. /\ am \in Seq(NebOps) /\ Len(am) = N + 2
      /\ am[1] = w /\ am[2] = x /\ \A k \in 1..N : am[k + 2] = m[k]
  <2>1. am \in Seq(NebOps) /\ Len(am) = Len(a) + Len(m)
    BY <1>7, <1>8, ConcatProperties
  <2>2. \A k \in 1..(Len(a) + Len(m)) : am[k] = IF k <= Len(a) THEN a[k] ELSE m[k - Len(a)]
    BY <1>7, <1>8, ConcatProperties
  <2> HIDE DEF am
  <2>3. \A k \in 1..N : am[k + 2] = m[k]
    BY <1>6, <1>7, <1>8, <2>2
  <2>4. am[1] = w /\ am[2] = x
    BY <1>6, <1>7, <1>8, <2>2
  <2>5. QED BY <1>7, <1>8, <2>1, <2>3, <2>4
<1>10. q = am \o b
  BY <1>1 DEF a, b
<1> HIDE DEF am
<1>11. /\ q \in Seq(NebOps) /\ Len(q) = N + 4
       /\ \A k \in 1..(N + 2) : q[k] = am[k]
       /\ q[N + 3] = y /\ q[N + 4] = w
  <2>1. q \in Seq(NebOps) /\ Len(q) = Len(am) + Len(b)
    BY <1>8, <1>9, <1>10, ConcatProperties
  <2>2. \A k \in 1..(Len(am) + Len(b)) : q[k] = IF k <= Len(am) THEN am[k] ELSE b[k - Len(am)]
    BY <1>8, <1>9, <1>10, ConcatProperties
  <2>3. \A k \in 1..(N + 2) : q[k] = am[k]
    BY <1>6, <1>8, <1>9, <2>2
  <2>4. q[N + 3] = y /\ q[N + 4] = w
    BY <1>6, <1>8, <1>9, <2>2
  <2>5. QED BY <1>6, <1>8, <1>9, <2>1, <2>3, <2>4
<1>12. q[1] = w /\ q[2] = x /\ \A k \in 1..N : q[k + 2] = m[k]
  BY <1>6, <1>9, <1>11
<1>13. ASSUME NEW i \in 2..(Len(q) - 1)
       PROVE  \E f \in NebFiles(n) : q[i] = NEB!Write(f, v)
  <2>1. CASE i = 2
    BY <1>5, <1>12, <2>1 DEF x
  <2>2. CASE i = N + 3
    BY <1>5, <1>11, <2>2 DEF y
  <2>3. CASE i # 2 /\ i # N + 3
    <3>1. PICK k \in 1..N : i = k + 2
      BY <1>6, <1>11, <1>13, <2>3
    <3>2. QED BY <1>5, <1>7, <1>12, <3>1
  <2>4. QED BY <2>1, <2>2, <2>3
<1>14. ASSUME NEW f \in NebFiles(n)
       PROVE  \E i \in 1..Len(q) : q[i].file = f
  <2>1. CASE f \in NEB!Looked(n)
    <3>1. PICK k \in 1..N : m[k] = NEB!Write(f, v)
      BY <1>7, <2>1
    <3>2. k + 2 \in 1..Len(q) /\ q[k + 2] = NEB!Write(f, v)
      BY <1>6, <1>11, <1>12, <3>1
    <3>3. q[k + 2].file = f
      BY <3>2 DEF NEB!Write
    <3>4. QED BY <3>2, <3>3
  <2>2. CASE f = NEB!In(n, "maxForce")
    <3>1. 2 \in 1..Len(q) /\ q[2].file = f
      BY <1>6, <1>11, <1>12, <2>2 DEF x, NEB!Write
    <3>2. QED BY <3>1
  <2>3. CASE f = NEB!In(n, "ionRelax")
    <3>1. N + 3 \in 1..Len(q) /\ q[N + 3].file = f
      BY <1>6, <1>11, <2>3 DEF y, NEB!Write
    <3>2. QED BY <3>1
  <2>4. QED BY <1>14, <2>1, <2>2, <2>3 DEF NebFiles
<1>15. q \in Seq(NebOps) /\ Len(q) > 2 /\ q[1] = w /\ q[Len(q)] = w
  BY <1>6, <1>11, <1>12
<1>16. QED BY <1>13, <1>14, <1>15 DEF q, v, w

\* What holds of the disk alone holds as long as it is left as it is.
LEMMA NebSameDisk ==
  ASSUME disk' = disk
  PROVE  /\ \A f : /\ NEB!IsWhole(f)' <=> NEB!IsWhole(f)
                   /\ NEB!IsComplete(f)' <=> NEB!IsComplete(f)
                   /\ NEB!Exists(f)' <=> NEB!Exists(f)
         /\ \A n : NEB!Intact(n)' <=> NEB!Intact(n)
         /\ \A b : NebBase(b)' <=> NebBase(b)
         /\ NebIntact' <=> NebIntact
         /\ Last' = Last
<1>1. \A f : /\ NEB!IsWhole(f)' <=> NEB!IsWhole(f)
             /\ NEB!IsComplete(f)' <=> NEB!IsComplete(f)
             /\ NEB!Exists(f)' <=> NEB!Exists(f)
  BY DEF NEB!IsWhole, NEB!IsComplete, NEB!Exists
<1>2. \A n : NEB!Intact(n)' <=> NEB!Intact(n)
  BY <1>1 DEF NEB!Intact
<1>3. \A b : NebBase(b)' <=> NebBase(b)
  BY <1>1 DEF NebBase
<1>4. NebIntact' <=> NebIntact
  BY <1>1, <1>2 DEF NebIntact
<1>5. Last' = Last
  BY <1>1 DEF Last
<1>6. QED BY <1>1, <1>2, <1>3, <1>4, <1>5

(***************************************************************************)
(* The steps of the band.                                                  *)
(***************************************************************************)
LEMMA NebStartAfresh ==
  ASSUME NebInv, NEB!StartAfresh
  PROVE  NebInv'
<1> USE DEF NebInv
<1>1. /\ phase = "off" /\ disk' = disk /\ phase' = "running" /\ run' = 1
      /\ todo' = <<NEB!Write(NEB!Dat, NEB!Whole(0, 1))>>
  BY DEF NEB!StartAfresh
<1>2. PICK s \in Solvers :
        at' = [step |-> 0, saveFirst |-> NEB!SavesFirst(s), loaded |-> 0, solvers |-> <<s>>]
  BY DEF NEB!StartAfresh
<1>3. \A f \in NEB!Files : disk[f] = NEB!Absent
  BY <1>1 DEF NebFresh
<1>4. \A f \in NEB!Files : ~NEB!Exists(f)' /\ ~NEB!IsWhole(f)'
  BY <1>1, <1>3 DEF NEB!Exists, NEB!IsWhole, NEB!Absent
<1>5. NebTypes'
  <2>1. at' \in NebAt /\ Len(at'.solvers) = 1
    <3>1. NEB!SavesFirst(s) \in BOOLEAN
      BY DEF NEB!SavesFirst
    <3>2. 0 \in 0..MaxUpdates /\ 0 \in 0..MaxRuns /\ <<s>> \in Seq(Solvers) /\ Len(<<s>>) = 1
      BY LaunchConstantsOK
    <3>3. QED BY <1>2, <3>1, <3>2 DEF NebAt
  <2>2. NEB!Write(NEB!Dat, NEB!Whole(0, 1)) \in NebOps
    <3>1. 0 \in 0..MaxUpdates /\ 1 \in 0..MaxRuns
      BY LaunchConstantsOK
    <3>2. NEB!Whole(0, 1) \in NebContents
      BY LaunchConstantsOK DEF NebContents, NEB!Contents, NEB!Whole
    <3>3. QED BY <3>2, NebFileNames DEF NebOps, NEB!Write
  <2>3. todo' \in Seq(NebOps)
    BY <1>1, <2>2
  <2>4. 1 \in 0..MaxRuns
    BY LaunchConstantsOK
  <2>5. QED BY <1>1, <2>1, <2>3, <2>4 DEF NebTypes
<1>6. NebFresh'
  BY <1>1 DEF NebFresh
<1>7. NebRecords' /\ NebIntact'
  BY <1>4, NebFileNames DEF NebRecords, NebIntact
<1>8. DOMAIN todo' = {1} /\ Len(todo') = 1 /\ todo'[1].file = NEB!Dat /\ todo'[1].value.run = 1
  BY <1>1 DEF NEB!Write, NEB!Whole
<1>9. NebQueue'
  <2>1. NebWrites(1)'
    BY <1>1, <1>8 DEF NebWrites
  <2>2. QED BY <1>8, <2>1 DEF NebQueue
<1>10. ~Saving'
  BY <1>8, NebRecordsDiffer DEF Saving
<1>11. NebReady' /\ NebWithin'
  BY <1>10 DEF NebReady, NebWithin
<1>12. NebBetween'
  <2>1. ~NEB!IsWhole(Last)'
    BY <1>4, NebFileNames DEF Last
  <2>2. QED BY <2>1 DEF NebBetween
<1>13. NebPlace'
  <2>1. at'.step = 0
    BY <1>2
  <2>2. \A m \in 0..MaxUpdates : ~NEB!Exists(NEB!In(m, "maxForce"))'
    BY <1>4, NebFileNames DEF NebFiles
  <2>3. NebBase(0)'
    BY <1>4, <2>2, NebFileNames DEF NebBase
  <2>4. QED BY <1>1, <1>4, <1>10, <2>1, <2>3 DEF NebPlace
<1>14. QED BY <1>5, <1>6, <1>7, <1>9, <1>11, <1>12, <1>13

\* A save begins.
LEMMA NebSaveBegins ==
  ASSUME NebInv, NEW n \in 0..MaxUpdates, phase = "running", todo = <<>>,
         todo' = NEB!SaveScript(n), disk' = disk, phase' = phase, run' = run,
         at' \in NebAt, at'.step = n, ~at'.saveFirst, at'.solvers = at.solvers
  PROVE  /\ Saving' /\ SaveBegins'
         /\ NebTypes' /\ NebFresh' /\ NebRecords' /\ NebQueue' /\ NebReady'
         /\ NebIntact' /\ NebWithin'
         /\ NEB!SameSolver' <=> NEB!SameSolver
<1> USE DEF NebInv
<1> DEFINE v == NEB!Computed(n)
           w == NEB!Write(NEB!StepChk, NEB!Whole(n, run))
           q == NEB!SaveScript(n)
<1>1. run \in 0..MaxRuns
  BY DEF NebTypes
<1>2. /\ q \in Seq(NebOps) /\ Len(q) > 2 /\ q[1] = w /\ q[Len(q)] = w
      /\ \A i \in 2..(Len(q) - 1) : \E f \in NebFiles(n) : q[i] = NEB!Write(f, v)
      /\ \A f \in NebFiles(n) : \E i \in 1..Len(q) : q[i].file = f
  BY <1>1, NebSaveScript
<1> HIDE DEF q
<1>3. /\ todo' = q /\ DOMAIN q = 1..Len(q) /\ Len(q) \in Nat
      /\ w.file = NEB!StepChk /\ w.value = NEB!Whole(n, run)
  BY <1>2 DEF q, NEB!Write
<1>4. Saving' /\ SaveBegins'
  <2>1. todo' # <<>> /\ todo'[Len(todo')].file = NEB!StepChk /\ Len(todo') > 1 /\ todo'[1].file = NEB!StepChk
    BY <1>2, <1>3
  <2>2. QED BY <2>1 DEF Saving, SaveBegins
<1>5. NebTypes'
  BY <1>2, <1>3 DEF NebTypes
<1>6. NebFresh' /\ NebRecords' /\ NebIntact'
  BY NebSameDisk DEF NebFresh, NebRecords
<1>7. NebQueue'
  <2>1. ASSUME NEW i \in 1..Len(q) PROVE NebWrites(i)'
    <3>1. CASE i \in {1, Len(q)}
      BY <1>2, <1>3, <3>1 DEF NebWrites
    <3>2. CASE i \notin {1, Len(q)}
      <4>1. i \in 2..(Len(q) - 1)
        BY <1>3, <2>1, <3>2
      <4>2. PICK f \in NebFiles(n) : q[i] = NEB!Write(f, v)
        BY <1>2, <4>1
      <4>3. v.state \in {"whole", "garbage"}
        BY <1>1, NebValues
      <4>4. q[i].file \in NebFiles(n) /\ q[i].value = v /\ i < Len(q)
        BY <4>1, <4>2 DEF NEB!Write
      <4>5. QED BY <1>3, <4>3, <4>4 DEF NebWrites
    <3>3. QED BY <3>1, <3>2
  <2>2. QED BY <1>3, <2>1 DEF NebQueue
<1>8. NebReady'
  BY <1>2, <1>3 DEF NebReady
<1>9. NebWithin'
  BY <1>4 DEF NebWithin
<1>10. NEB!SameSolver' <=> NEB!SameSolver
  BY DEF NEB!SameSolver
<1>11. QED BY <1>4, <1>5, <1>6, <1>7, <1>8, <1>9, <1>10

LEMMA NebSaveFirst ==
  ASSUME NebInv, NEB!SaveFirst
  PROVE  NebInv'
<1> USE DEF NebInv
<1>1. /\ phase = "running" /\ todo = <<>> /\ at.saveFirst
      /\ disk' = disk /\ phase' = phase /\ run' = run /\ todo' = NEB!SaveScript(at.step)
      /\ at' = [at EXCEPT !.saveFirst = FALSE]
  BY DEF NEB!SaveFirst
<1>2. at' \in NebAt /\ at'.step = at.step /\ ~at'.saveFirst /\ at'.solvers = at.solvers /\ at.step \in 0..MaxUpdates
  BY <1>1 DEF NebTypes, NebAt
<1>3. /\ Saving' /\ SaveBegins'
      /\ NebTypes' /\ NebFresh' /\ NebRecords' /\ NebQueue' /\ NebReady' /\ NebIntact' /\ NebWithin'
      /\ NEB!SameSolver' <=> NEB!SameSolver
  BY <1>1, <1>2, NebSaveBegins
<1>4. ~Saving
  BY <1>1 DEF Saving
<1>5. NebBetween'
  <2>1. ~(NEB!IsWhole(Last) /\ disk[Last].run = run)
    BY <1>1, <1>4 DEF NebBetween
  <2>2. ~(NEB!IsWhole(Last)' /\ disk'[Last'].run = run')
    BY <1>1, <2>1 DEF NEB!IsWhole, NEB!Exists, Last
  <2>3. QED BY <2>2 DEF NebBetween
<1>6. ASSUME NEB!SameSolver PROVE NebPlace'
  <2>1. at.step = 0 /\ \A f \in NEB!Files \ {NEB!Dat} : ~NEB!Exists(f)
    BY <1>1, <1>6 DEF NebPlace
  <2>2. /\ \A f \in {NEB!StepChk, OldChk} : f \in NEB!Files \ {NEB!Dat}
        /\ \A m \in 0..MaxUpdates : NEB!In(m, "maxForce") \in NEB!Files \ {NEB!Dat}
    <3>1. \A m \in 0..MaxUpdates : NEB!In(m, "maxForce") \in NebFiles(m)
      BY DEF NebFiles
    <3>2. QED BY <3>1, NebFileNames, NebRecordsDiffer, NebStepFilesDiffer
  <2>3. NebBase(-1)
    <3>1. \A f \in {NEB!StepChk, OldChk} : ~NEB!IsWhole(f)
      BY <2>1, <2>2 DEF NEB!Exists, NEB!IsWhole, NEB!Absent
    <3>2. \A m \in 0..MaxUpdates : ~NEB!Exists(NEB!In(m, "maxForce"))
      BY <2>1, <2>2
    <3>3. QED BY <3>1, <3>2 DEF NebBase
  <2>4. NebBase(-1)'
    BY <1>1, <2>3, NebSameDisk
  <2>5. at'.step - 1 = -1
    BY <1>2, <2>1
  <2>6. QED BY <1>1, <1>2, <1>3, <2>4, <2>5 DEF NebPlace
<1>7. QED BY <1>3, <1>5, <1>6

LEMMA NebUpdate ==
  ASSUME NebInv, NEB!Update
  PROVE  NebInv'
<1> USE DEF NebInv
<1>1. /\ phase = "running" /\ todo = <<>> /\ ~at.saveFirst /\ at.step < MaxUpdates
      /\ disk' = disk /\ phase' = phase /\ run' = run /\ todo' = NEB!SaveScript(at.step + 1)
      /\ at' = [at EXCEPT !.step = @ + 1]
  BY DEF NEB!Update
<1>2. /\ at' \in NebAt /\ at'.step = at.step + 1 /\ at.step \in 0..MaxUpdates
      /\ at'.saveFirst = at.saveFirst /\ at'.solvers = at.solvers /\ at.step + 1 \in 0..MaxUpdates
  <2>1. at \in NebAt /\ at.step \in 0..MaxUpdates
    BY DEF NebTypes, NebAt
  <2>2. PICK k \in 0..MaxUpdates : k = at.step + 1
    BY <1>1, <2>1, LaunchConstantsOK
  <2>3. at' = [at EXCEPT !.step = k]
    BY <1>1, <2>2
  <2>4. QED BY <2>1, <2>2, <2>3 DEF NebAt
<1>3. /\ Saving' /\ SaveBegins'
      /\ NebTypes' /\ NebFresh' /\ NebRecords' /\ NebQueue' /\ NebReady' /\ NebIntact' /\ NebWithin'
      /\ NEB!SameSolver' <=> NEB!SameSolver
  BY <1>1, <1>2, NebSaveBegins
<1>4. ~Saving
  BY <1>1 DEF Saving
<1>5. NebBetween'
  <2>1. NEB!IsWhole(Last) /\ disk[Last].run = run =>
          NEB!Intact(disk[Last].step) /\ disk[Last].step = at.step
    BY <1>1, <1>4 DEF NebBetween
  <2>2. Last' = Last
    BY <1>1, NebSameDisk
  <2>3. PICK x : x = Last
    OBVIOUS
  <2>4. PICK m : m = disk[x].step
    OBVIOUS
  <2>5. NEB!IsWhole(Last)' /\ disk'[Last'].run = run' =>
          NEB!Intact(m)' /\ disk'[Last'].step = at'.step - 1 /\ disk'[Last'].step = m
    BY <1>1, <1>2, <2>1, <2>2, <2>3, <2>4, NebSameDisk DEF NEB!IsWhole
  <2>6. QED BY <1>1, <1>2, <1>3, <2>5 DEF NebBetween
<1>6. ASSUME NEB!SameSolver PROVE NebPlace'
  <2>1. PICK b : b = at.step
    OBVIOUS
  <2>2. NebBase(b)
    BY <1>1, <1>4, <1>6, <2>1 DEF NebPlace
  <2>3. NebBase(b)'
    BY <1>1, <2>2, NebSameDisk
  <2>4. at'.step - 1 = b
    BY <1>2, <2>1
  <2>5. QED BY <1>1, <1>2, <1>3, <2>3, <2>4 DEF NebPlace
<1>7. QED BY <1>3, <1>5, <1>6

LEMMA NebFinish ==
  ASSUME NebInv, NEB!Finish
  PROVE  NebInv'
<1> USE DEF NebInv
<1>1. /\ phase = "running" /\ todo = <<>> /\ phase' = "done"
      /\ disk' = disk /\ todo' = todo /\ run' = run /\ at' = at
  BY DEF NEB!Finish
<1>2. NebTypes' /\ NebFresh' /\ NebQueue'
  BY <1>1 DEF NebTypes, NebFresh, NebQueue
<1>3. NebRecords' /\ NebIntact'
  BY <1>1, NebSameDisk DEF NebRecords
<1>4. ~Saving /\ ~Saving'
  BY <1>1 DEF Saving
<1>5. NebReady' /\ NebWithin' /\ NebBetween'
  BY <1>1, <1>4 DEF NebReady, NebWithin, NebBetween
<1>6. ASSUME NEB!SameSolver PROVE NebPlace'
  <2>1. PICK b \in -1..MaxUpdates : b = at.step
    BY LaunchConstantsOK DEF NebTypes, NebAt
  <2>2. NebBase(b)
    BY <1>1, <1>4, <1>6, <2>1 DEF NebPlace
  <2>3. NebBase(b)'
    BY <1>1, <2>2, NebSameDisk
  <2>4. QED BY <1>1, <2>3 DEF NebPlace
<1>7. NEB!SameSolver' <=> NEB!SameSolver
  BY <1>1 DEF NEB!SameSolver
<1>8. QED BY <1>2, <1>3, <1>5, <1>6, <1>7

\* A write within a save: Step.chk names the step, its old file at most the one before.
LEMMA NebInner ==
  ASSUME NebTypes, NebQueue, NebWithin, todo # <<>>, todo[1].file \notin {NEB!Dat, NEB!StepChk}
  PROVE  /\ Saving /\ ~SaveBegins /\ Len(todo) > 1 /\ todo[Len(todo)].file = NEB!StepChk
         /\ todo[1].file \in NebFiles(at.step)
         /\ disk[NEB!StepChk] = NEB!Whole(at.step, run)
         /\ NEB!IsWhole(OldChk) /\ disk[OldChk].run = run => disk[OldChk].step + 1 = at.step
<1>1. 1 \in DOMAIN todo /\ Len(todo) \in DOMAIN todo
  BY NebHead
<1>2. todo[1].file \in NebFiles(at.step) /\ 1 < Len(todo)
  BY <1>1, NebKinds
<1>3. todo[Len(todo)].file = NEB!StepChk
  <2>1. todo[Len(todo)].file # NEB!Dat
    BY <1>1, <1>2, NebKinds
  <2>2. ~(Len(todo) < Len(todo))
    BY NebHead
  <2>3. QED BY <1>1, <2>1, <2>2, NebKinds
<1>4. Saving /\ ~SaveBegins /\ ~SaveEnds
  BY <1>2, <1>3 DEF Saving, SaveBegins, SaveEnds
<1>5. QED BY <1>2, <1>3, <1>4 DEF NebWithin

\* A step whose files are as they were.
LEMMA NebStepKept ==
  ASSUME NEW m \in 0..MaxUpdates, \A f \in NebFiles(m) : disk'[f] = disk[f]
  PROVE  /\ NEB!Intact(m)' <=> NEB!Intact(m)
         /\ \A f \in NebFiles(m) : NEB!Exists(f)' <=> NEB!Exists(f)
<1>1. NEB!Intact(m) <=> \A f \in NebFiles(m) : NEB!IsComplete(f)
  BY DEF NEB!Intact, NebFiles
<1>2. NEB!Intact(m)' <=> \A f \in NebFiles(m) : NEB!IsComplete(f)'
  BY DEF NEB!Intact, NebFiles
<1>3. QED BY <1>1, <1>2 DEF NEB!IsComplete, NEB!Exists

\* A base stays one while the files of the step after it are written.
LEMMA NebBaseKept ==
  ASSUME NEW b \in -1..MaxUpdates, NebBase(b),
         \A m \in 0..MaxUpdates : m # b + 1 => \A f \in NebFiles(m) : disk'[f] = disk[f],
         \A f \in {NEB!StepChk, OldChk} : NEB!IsWhole(f)' => disk'[f].step \in {b, b + 1},
         NEB!IsWhole(NEB!StepChk)' /\ NEB!IsWhole(OldChk)' => disk'[OldChk].step <= disk'[NEB!StepChk].step
  PROVE  NebBase(b)'
<1>1. ASSUME b >= 2, NEW f \in NEB!Looked(b) PROVE NEB!Exists(f)'
  <2>1. b \in 0..MaxUpdates /\ b # b + 1 /\ f \in NebFiles(b)
    BY <1>1, LaunchConstantsOK DEF NebFiles
  <2>2. NEB!Exists(f)
    BY <1>1 DEF NebBase
  <2>3. QED BY <2>1, <2>2, NebStepKept
<1>2. ASSUME NEW m \in 0..MaxUpdates, NEB!Exists(NEB!In(m, "maxForce"))' PROVE m <= b + 1
  <2>1. CASE m = b + 1
    BY <2>1
  <2>2. CASE m # b + 1
    <3>1. NEB!In(m, "maxForce") \in NebFiles(m)
      BY DEF NebFiles
    <3>2. NEB!Exists(NEB!In(m, "maxForce"))
      BY <1>2, <2>2, <3>1, NebStepKept
    <3>3. QED BY <3>2 DEF NebBase
  <2>3. QED BY <2>1, <2>2
<1>3. QED BY <1>1, <1>2 DEF NebBase

\* A step's file matters to no other step.
LEMMA NebOneFile ==
  ASSUME NEW n \in 0..MaxUpdates, NEW h \in NebFiles(n),
         \A f \in NEB!Files \ {h} : disk'[f] = disk[f]
  PROVE  /\ \A f \in {NEB!Dat, NEB!StepChk, OldChk} : disk'[f] = disk[f]
         /\ \A m \in 0..MaxUpdates : m # n => (NEB!Intact(m)' <=> NEB!Intact(m))
         /\ \A b \in -1..MaxUpdates : b + 1 = n => (NebBase(b) => NebBase(b)')
<1>1. \A f \in {NEB!Dat, NEB!StepChk, OldChk} : disk'[f] = disk[f]
  BY NebFileNames, NebStepFilesDiffer
<1>2. ASSUME NEW m \in 0..MaxUpdates, m # n
      PROVE  \A f \in NebFiles(m) : disk'[f] = disk[f]
  BY <1>2, NebFileNames, NebStepFilesDiffer
<1>3. ASSUME NEW b \in -1..MaxUpdates, b + 1 = n, NebBase(b)
      PROVE  NebBase(b)'
  <2>1. \A f \in {NEB!StepChk, OldChk} : disk'[f] = disk[f] /\ (NEB!IsWhole(f)' <=> NEB!IsWhole(f))
    BY <1>1 DEF NEB!IsWhole
  <2>2. /\ \A f \in {NEB!StepChk, OldChk} : NEB!IsWhole(f)' => disk'[f].step \in {b, b + 1}
        /\ NEB!IsWhole(NEB!StepChk)' /\ NEB!IsWhole(OldChk)' => disk'[OldChk].step <= disk'[NEB!StepChk].step
    BY <1>3, <2>1 DEF NebBase
  <2>3. \A m \in 0..MaxUpdates : m # b + 1 => \A f \in NebFiles(m) : disk'[f] = disk[f]
    BY <1>2, <1>3
  <2>4. QED BY <1>3, <2>2, <2>3, NebBaseKept
<1>4. QED BY <1>1, <1>2, <1>3, NebStepKept

\* nudgedElasticBand.dat matters to none.
LEMMA NebDatOnly ==
  ASSUME \A f \in NEB!Files \ {NEB!Dat} : disk'[f] = disk[f]
  PROVE  /\ \A f \in {NEB!StepChk, OldChk} : disk'[f] = disk[f]
         /\ \A n \in 0..MaxUpdates : NEB!Intact(n)' <=> NEB!Intact(n)
         /\ \A b \in -1..MaxUpdates : NebBase(b) => NebBase(b)'
<1>1. \A f \in {NEB!StepChk, OldChk} : disk'[f] = disk[f]
  BY NebFileNames, NebRecordsDiffer
<1>2. \A m \in 0..MaxUpdates : \A f \in NebFiles(m) : disk'[f] = disk[f]
  BY NebFileNames, NebStepFilesDiffer
<1>3. ASSUME NEW b \in -1..MaxUpdates, NebBase(b)
      PROVE  NebBase(b)'
  <2>1. \A f \in {NEB!StepChk, OldChk} : disk'[f] = disk[f] /\ (NEB!IsWhole(f)' <=> NEB!IsWhole(f))
    BY <1>1 DEF NEB!IsWhole
  <2>2. /\ \A f \in {NEB!StepChk, OldChk} : NEB!IsWhole(f)' => disk'[f].step \in {b, b + 1}
        /\ NEB!IsWhole(NEB!StepChk)' /\ NEB!IsWhole(OldChk)' => disk'[OldChk].step <= disk'[NEB!StepChk].step
    BY <1>3, <2>1 DEF NebBase
  <2>3. QED BY <1>2, <1>3, <2>2, NebBaseKept
<1>4. QED BY <1>1, <1>2, <1>3, NebStepKept

\* Step.chk and its old file matter to no step.
LEMMA NebChkOnly ==
  ASSUME \A f \in NEB!Files \ {NEB!StepChk, OldChk} : disk'[f] = disk[f]
  PROVE  \A m \in 0..MaxUpdates :
           /\ \A f \in NebFiles(m) : disk'[f] = disk[f]
           /\ NEB!Intact(m)' <=> NEB!Intact(m)
<1>1. \A m \in 0..MaxUpdates : \A f \in NebFiles(m) : disk'[f] = disk[f]
  BY NebFileNames, NebStepFilesDiffer
<1>2. QED BY <1>1, NebStepKept

(***************************************************************************)
(* A file operation of the band, or its death.                             *)
(***************************************************************************)
\* The rest of the queue.
LEMMA NebTail ==
  ASSUME NebTypes, NebQueue, todo # <<>>, todo' = Tail(todo), at' = at, run' = run
  PROVE  /\ NebQueue'
         /\ Len(todo) = 1 => todo' = <<>>
         /\ Len(todo) > 1 => /\ todo' # <<>> /\ todo'[Len(todo')] = todo[Len(todo)] /\ ~SaveBegins'
         /\ \A i \in DOMAIN todo \ {1} : \E j \in DOMAIN todo' : todo'[j] = todo[i]
<1>1. /\ DOMAIN todo = 1..Len(todo) /\ Len(todo) \in Nat \ {0}
      /\ todo' \in Seq(NebOps) /\ Len(todo') = Len(todo) - 1 /\ DOMAIN todo' = 1..(Len(todo) - 1)
      /\ \A i \in 1..(Len(todo) - 1) : todo'[i] = todo[i + 1]
  BY NebHead
<1>2. ASSUME NEW i \in DOMAIN todo' PROVE NebWrites(i)'
  <2>1. i + 1 \in DOMAIN todo /\ todo'[i] = todo[i + 1] /\ Len(todo) # 1 /\ i + 1 # 1
    BY <1>1, <1>2
  <2>2. PICK k \in DOMAIN todo : k = i + 1
    BY <2>1
  <2>3. CASE todo[k].file = NEB!Dat
    BY <2>1, <2>2, <2>3, NebKinds
  <2>4. CASE todo[k].file = NEB!StepChk
    <3>1. k = Len(todo) /\ todo[k].value = NEB!Whole(at.step, run) /\ ~at.saveFirst
      BY <2>1, <2>2, <2>4, NebKinds
    <3>2. i = Len(todo')
      BY <1>1, <2>2, <3>1
    <3>3. QED BY <2>1, <2>2, <2>4, <3>1, <3>2 DEF NebWrites
  <2>5. CASE todo[k].file \notin {NEB!Dat, NEB!StepChk}
    <3>1. /\ todo[k].file \in NebFiles(at.step) /\ k < Len(todo)
          /\ todo[k].value.state \in {"whole", "garbage"} /\ ~at.saveFirst
      BY <2>5, NebKinds
    <3>2. i < Len(todo')
      BY <1>1, <2>2, <3>1
    <3>3. QED BY <2>1, <2>2, <3>1, <3>2 DEF NebWrites
  <2>6. QED BY <2>3, <2>4, <2>5
<1>3. Len(todo) = 1 => todo' = <<>>
  BY <1>1
<1>4. ASSUME Len(todo) > 1
      PROVE  todo' # <<>> /\ todo'[Len(todo')] = todo[Len(todo)] /\ ~SaveBegins'
  <2>1. PICK k \in DOMAIN todo : k = 2
    BY <1>1, <1>4
  <2>2. Len(todo') \in 1..(Len(todo) - 1) /\ Len(todo') + 1 = Len(todo) /\ 1 \in 1..(Len(todo) - 1)
    BY <1>1, <1>4
  <2>3. todo'[Len(todo')] = todo[Len(todo)] /\ todo'[1] = todo[k]
    BY <1>1, <2>1, <2>2
  <2>4. todo[k].file = NEB!StepChk => k \in {1, Len(todo)}
    BY NebKinds
  <2>5. todo' # <<>>
    <3>1. Len(todo') # 0
      BY <1>1, <1>4
    <3>2. QED BY <3>1
  <2>6. ~SaveBegins'
    <3>1. Len(todo') > 1 => k \notin {1, Len(todo)}
      BY <1>1, <2>1
    <3>2. QED BY <2>3, <2>4, <3>1 DEF SaveBegins
  <2>7. QED BY <2>3, <2>5, <2>6
<1>5. ASSUME NEW i \in DOMAIN todo \ {1}
      PROVE  \E j \in DOMAIN todo' : todo'[j] = todo[i]
  <2>1. PICK j \in DOMAIN todo' : j = i - 1
    BY <1>1, <1>5
  <2>2. todo'[j] = todo[i]
    BY <1>1, <2>1
  <2>3. QED BY <2>2
<1>6. QED BY <1>2, <1>3, <1>4, <1>5 DEF NebQueue

\* The first of the two writes of Step.chk, or the last.
LEMMA NebChk ==
  ASSUME NebTypes, NebQueue, todo # <<>>, todo[1].file = NEB!StepChk
  PROVE  /\ Saving /\ (SaveBegins <=> Len(todo) > 1) /\ (SaveEnds <=> Len(todo) = 1)
         /\ Len(todo) > 1 \/ Len(todo) = 1
         /\ todo[Len(todo)].file = NEB!StepChk
         /\ todo[1].value = NEB!Whole(at.step, run) /\ ~at.saveFirst
<1>1. 1 \in DOMAIN todo /\ Len(todo) \in DOMAIN todo /\ Len(todo) \in Nat \ {0} /\ ~(Len(todo) < Len(todo))
  BY NebHead
<1>2. todo[Len(todo)].file = NEB!StepChk
  <2>1. CASE Len(todo) = 1
    BY <2>1
  <2>2. CASE Len(todo) # 1
    BY <1>1, <2>2, NebKinds
  <2>3. QED BY <2>1, <2>2
<1>3. todo[1].value = NEB!Whole(at.step, run) /\ ~at.saveFirst
  BY <1>1, NebKinds
<1>4. Len(todo) > 1 \/ Len(todo) = 1
  <2>1. PICK n \in Nat : n = Len(todo) /\ n # 0
    BY <1>1
  <2>2. QED BY <2>1
<1>5. Saving
  BY <1>2 DEF Saving
<1>6. (SaveBegins <=> Len(todo) > 1) /\ (SaveEnds <=> Len(todo) = 1)
  BY <1>5 DEF SaveBegins, SaveEnds
<1>7. QED BY <1>2, <1>3, <1>4, <1>5, <1>6

\* What a file operation leaves as it is.
LEMMA NebFileTypes ==
  ASSUME NebInv, NEB!FileStep
  PROVE  /\ NebTypes' /\ NebFresh' /\ NebQueue'
         /\ NEB!SameSolver' <=> NEB!SameSolver
<1> USE DEF NebInv
<1>1. /\ phase = "running" /\ todo # <<>> /\ phase' = phase /\ run' = run /\ at' = at
      /\ todo' = todo \/ todo' = Tail(todo)
  BY NebFileStep
<1>2. /\ todo[1] \in NebOps /\ Tail(todo) \in Seq(NebOps)
      /\ todo[1].file \in NEB!Files /\ todo[1].value \in NebContents
  BY <1>1, NebHead DEF NebOps
<1>3. disk' \in [NEB!Files -> NebContents]
  <2>1. NEB!Absent \in NebContents
    BY LaunchConstantsOK DEF NebContents, NEB!Contents, NEB!Absent
  <2>2. disk[NEB!StepChk] \in NebContents /\ disk \in [NEB!Files -> NebContents]
    BY NebFileNames DEF NebTypes
  <2>3. QED BY <1>2, <2>1, <2>2, NebFileStep
<1>4. NebTypes'
  BY <1>1, <1>2, <1>3 DEF NebTypes
<1>5. NebQueue'
  <2>1. CASE todo' = todo
    BY <1>1, <2>1 DEF NebQueue, NebWrites
  <2>2. CASE todo' = Tail(todo)
    BY <1>1, <2>2, NebTail
  <2>3. QED BY <1>1, <2>1, <2>2
<1>6. NebFresh' /\ (NEB!SameSolver' <=> NEB!SameSolver)
  BY <1>1 DEF NebFresh, NEB!SameSolver
<1>7. QED BY <1>4, <1>5, <1>6

\* init's write of nudgedElasticBand.dat.
LEMMA NebWritesDat ==
  ASSUME NebInv, NEB!FileStep, todo[1].file = NEB!Dat
  PROVE  NebInv'
<1> USE DEF NebInv
<1>1. /\ phase = "running" /\ todo # <<>> /\ phase' = phase /\ run' = run /\ at' = at
      /\ todo' = todo \/ todo' = Tail(todo)
      /\ \A f \in NEB!Files \ {NEB!Dat} : disk'[f] = disk[f]
      /\ disk'[NEB!Dat] \in {NEB!Absent, todo[1].value}
  <2>1. disk \in [NEB!Files -> NebContents] /\ todo[1].file # NEB!StepChk
    BY NebRecordsDiffer DEF NebTypes
  <2>2. /\ phase = "running" /\ todo # <<>> /\ phase' = phase /\ run' = run /\ at' = at
        /\ \/ todo' = todo /\ disk' = [disk EXCEPT ![NEB!Dat] = NEB!Absent]
           \/ todo' = Tail(todo) /\ disk' = [disk EXCEPT ![NEB!Dat] = todo[1].value]
    BY <2>1, NebFileStep
  <2>3. NEB!Dat \in NEB!Files
    BY NebFileNames
  <2>4. QED BY <2>1, <2>2, <2>3
<1>2. Len(todo) = 1 /\ todo[1].value.run = run /\ 1 \in DOMAIN todo
  BY <1>1, NebHead, NebKinds
<1>3. ~Saving /\ ~Saving'
  <2>1. todo' = todo \/ todo' = <<>>
    BY <1>1, <1>2, NebTail
  <2>2. QED BY <1>2, <2>1, NebRecordsDiffer DEF Saving
<1>4. NebTypes' /\ NebFresh' /\ NebQueue' /\ (NEB!SameSolver' <=> NEB!SameSolver)
  BY NebFileTypes
<1>5. /\ \A f \in {NEB!StepChk, OldChk} : disk'[f] = disk[f]
      /\ \A n \in 0..MaxUpdates : NEB!Intact(n)' <=> NEB!Intact(n)
      /\ \A b \in -1..MaxUpdates : NebBase(b) => NebBase(b)'
  BY <1>1, NebDatOnly
<1>6. NebRecords'
  <2>1. NEB!IsWhole(NEB!Dat)' => disk'[NEB!Dat].run \in 1..run
    <3>1. run \in 1..MaxRuns
      BY <1>1 DEF NebTypes
    <3>2. QED BY <1>1, <1>2, <3>1 DEF NEB!IsWhole, NEB!Absent
  <2>2. QED BY <1>1, <1>5, <2>1 DEF NebRecords, NEB!IsWhole
<1>7. disk[NEB!StepChk].step \in 0..MaxUpdates /\ disk[OldChk].step \in 0..MaxUpdates
  BY NebFileNames DEF NebTypes, NebContents, NEB!Contents
<1>8. NebIntact'
  <2>1. PICK n \in 0..MaxUpdates : n = disk[OldChk].step
    BY <1>7
  <2>2. NEB!IsWhole(NEB!StepChk)' /\ NEB!IsWhole(OldChk)' /\ disk'[NEB!StepChk].run = disk'[OldChk].run
          => NEB!Intact(n)
    BY <1>5, <2>1 DEF NebIntact, NEB!IsWhole
  <2>3. disk'[OldChk].step = n
    BY <1>5, <2>1
  <2>4. QED BY <1>5, <2>2, <2>3 DEF NebIntact
<1>9. NebReady' /\ NebWithin'
  BY <1>3 DEF NebReady, NebWithin
<1>10. NebBetween'
  <2>1. Last' = Last
    BY <1>5 DEF Last, NEB!Exists
  <2>2. PICK x \in {NEB!StepChk, OldChk} : x = Last
    BY DEF Last
  <2>3. PICK n \in 0..MaxUpdates : n = disk[x].step
    BY <1>7
  <2>4. disk'[x] = disk[x]
    BY <1>5
  <2>5. NEB!IsWhole(x) /\ disk[x].run = run => NEB!Intact(n) /\ n = at.step /\ ~at.saveFirst
    BY <1>1, <1>3, <2>2, <2>3 DEF NebBetween
  <2>6. NEB!IsWhole(x)' /\ disk'[x].run = run' => NEB!Intact(n)' /\ n = at'.step /\ ~at'.saveFirst
    BY <1>1, <1>5, <2>4, <2>5 DEF NEB!IsWhole
  <2>7. Last' = x /\ disk'[x].step = n
    BY <2>1, <2>2, <2>3, <2>4
  <2>8. QED BY <1>3, <2>6, <2>7 DEF NebBetween, NEB!IsWhole
<1>11. ASSUME NEB!SameSolver PROVE NebPlace'
  <2>1. PICK b \in -1..MaxUpdates : b = at.step
    BY LaunchConstantsOK DEF NebTypes, NebAt
  <2>2. NebBase(b)
    BY <1>1, <1>3, <1>11, <2>1 DEF NebPlace
  <2>3. NebBase(b)'
    BY <1>5, <2>2
  <2>4. at.saveFirst => at.step = 0 /\ \A f \in NEB!Files \ {NEB!Dat} : ~NEB!Exists(f)
    BY <1>1, <1>11 DEF NebPlace
  <2>5. at'.saveFirst => at'.step = 0 /\ \A f \in NEB!Files \ {NEB!Dat} : ~NEB!Exists(f)'
    BY <1>1, <2>4 DEF NEB!Exists
  <2>6. QED BY <1>1, <1>3, <2>1, <2>3, <2>5 DEF NebPlace
<1>12. QED BY <1>4, <1>6, <1>8, <1>9, <1>10, <1>11

\* The steps that the records name, and the present one.
LEMMA NebSteps ==
  ASSUME NebTypes
  PROVE  /\ at.step \in 0..MaxUpdates /\ MaxUpdates \in Nat
         /\ \A f \in NEB!Files : disk[f].step \in 0..MaxUpdates
         /\ phase = "running" => run \in 1..MaxRuns
BY LaunchConstantsOK DEF NebTypes, NebAt, NebContents, NEB!Contents

\* An existing Step.chk gets its old name.
LEMMA NebMovesChk ==
  ASSUME NebInv, NEB!FileStep, todo[1].file = NEB!StepChk, NEB!Exists(NEB!StepChk)
  PROVE  NebInv'
<1> USE DEF NebInv
<1>1. /\ phase = "running" /\ todo # <<>> /\ phase' = phase /\ run' = run /\ at' = at /\ todo' = todo
      /\ disk' = [disk EXCEPT ![NEB!StepChk] = NEB!Absent, ![OldChk] = disk[NEB!StepChk]]
  BY NebFileStep
<1>2. /\ disk'[NEB!StepChk] = NEB!Absent /\ disk'[OldChk] = disk[NEB!StepChk]
      /\ \A f \in NEB!Files \ {NEB!StepChk, OldChk} : disk'[f] = disk[f]
  <2>1. disk \in [NEB!Files -> NebContents]
    BY DEF NebTypes
  <2>2. QED BY <1>1, <2>1, NebFileNames, NebRecordsDiffer
<1>3. NebTypes' /\ NebFresh' /\ NebQueue' /\ (NEB!SameSolver' <=> NEB!SameSolver)
  BY NebFileTypes
<1>4. \A m \in 0..MaxUpdates :
        /\ \A f \in NebFiles(m) : disk'[f] = disk[f]
        /\ NEB!Intact(m)' <=> NEB!Intact(m)
  BY <1>2, NebChkOnly
<1>5. ~NEB!IsWhole(NEB!StepChk)' /\ (NEB!IsWhole(OldChk)' <=> NEB!IsWhole(NEB!StepChk))
  BY <1>2 DEF NEB!IsWhole, NEB!Absent
<1>6. /\ Saving /\ (SaveBegins <=> Len(todo) > 1) /\ (SaveEnds <=> Len(todo) = 1)
      /\ Len(todo) > 1 \/ Len(todo) = 1
  BY <1>1, NebChk
<1>7. (Saving' <=> Saving) /\ (SaveBegins' <=> SaveBegins) /\ (SaveEnds' <=> SaveEnds)
  BY <1>1 DEF Saving, SaveBegins, SaveEnds
<1>8. NebRecords'
  <2>1. disk'[NEB!Dat] = disk[NEB!Dat]
    BY <1>2, NebFileNames, NebRecordsDiffer
  <2>2. QED BY <1>1, <1>2, <1>5, <2>1 DEF NebRecords, NEB!IsWhole
<1>9. NebIntact'
  BY <1>5 DEF NebIntact
<1>10. NebReady'
  <2>1. \A f \in NebFiles(at.step) : NEB!IsComplete(f)' <=> NEB!IsComplete(f)
    BY <1>4, NebSteps DEF NEB!IsComplete
  <2>2. QED BY <1>1, <1>7, <2>1 DEF NebReady
<1>11. NebBetween'
  <2>1. SUFFICES ASSUME SaveBegins, NEB!IsWhole(NEB!StepChk), disk[NEB!StepChk].run = run
                 PROVE  NebBetween'
    <3>1. Last' = OldChk
      BY <1>2 DEF Last, NEB!Exists
    <3>2. QED BY <1>1, <1>2, <1>5, <1>6, <1>7, <3>1 DEF NebBetween
  <2>2. Last = NEB!StepChk /\ Last' = OldChk
    BY <1>2 DEF Last, NEB!Exists
  <2>3. PICK n \in 0..MaxUpdates : n = disk[NEB!StepChk].step
    BY NebSteps, NebFileNames
  <2>4. NEB!Intact(n) /\ n = at.step - 1 /\ ~at.saveFirst
    BY <1>1, <1>6, <2>1, <2>2, <2>3 DEF NebBetween
  <2>5. NEB!Intact(n)' /\ disk'[Last'].step = n
    BY <1>2, <1>4, <2>2, <2>3, <2>4
  <2>6. QED BY <1>1, <1>6, <1>7, <2>4, <2>5 DEF NebBetween
<1>12. NebWithin'
  <2>1. SUFFICES ASSUME ~SaveBegins PROVE NebWithin'
    BY <1>7 DEF NebWithin
  <2>2. disk[NEB!StepChk] = NEB!Whole(at.step, run) /\ SaveEnds
    BY <1>6, <2>1 DEF NebWithin, NEB!Exists
  <2>3. QED BY <1>1, <1>2, <1>7, <2>2 DEF NebWithin
<1>13. ASSUME NEB!SameSolver PROVE NebPlace'
  <2>1. PICK b \in -1..MaxUpdates : b = at.step - 1
    BY NebSteps
  <2>2. NebBase(b)
    BY <1>1, <1>6, <1>13, <2>1 DEF NebPlace
  <2>3. /\ \A f \in {NEB!StepChk, OldChk} : NEB!IsWhole(f)' => disk'[f].step \in {b, b + 1}
        /\ NEB!IsWhole(NEB!StepChk)' /\ NEB!IsWhole(OldChk)' => disk'[OldChk].step <= disk'[NEB!StepChk].step
    BY <1>2, <1>5, <2>2 DEF NebBase
  <2>4. NebBase(b)'
    BY <1>4, <2>2, <2>3, NebBaseKept
  <2>5. ~at.saveFirst
    BY <1>1, NebChk
  <2>6. QED BY <1>1, <1>6, <1>7, <2>1, <2>4, <2>5 DEF NebPlace
<1>14. QED BY <1>3, <1>8, <1>9, <1>10, <1>11, <1>12, <1>13

\* The first write of Step.chk in a save.
LEMMA NebWritesChkFirst ==
  ASSUME NebInv, NEB!FileStep, todo[1].file = NEB!StepChk, ~NEB!Exists(NEB!StepChk), Len(todo) > 1
  PROVE  NebInv'
<1> USE DEF NebInv
<1>1. /\ phase = "running" /\ todo # <<>> /\ phase' = phase /\ run' = run /\ at' = at
      /\ todo' = Tail(todo) /\ disk' = [disk EXCEPT ![NEB!StepChk] = todo[1].value]
  BY NebFileStep
<1>2. todo[1].value = NEB!Whole(at.step, run) /\ Saving /\ SaveBegins /\ ~at.saveFirst
      /\ todo[Len(todo)].file = NEB!StepChk
  BY <1>1, NebChk
<1>3. /\ disk'[NEB!StepChk] = NEB!Whole(at.step, run)
      /\ \A f \in NEB!Files \ {NEB!StepChk} : disk'[f] = disk[f]
      /\ disk'[OldChk] = disk[OldChk] /\ disk'[NEB!Dat] = disk[NEB!Dat]
  <2>1. disk \in [NEB!Files -> NebContents]
    BY DEF NebTypes
  <2>2. QED BY <1>1, <1>2, <2>1, NebFileNames, NebRecordsDiffer
<1>4. NebTypes' /\ NebFresh' /\ NebQueue' /\ (NEB!SameSolver' <=> NEB!SameSolver)
  BY NebFileTypes
<1>5. \A m \in 0..MaxUpdates :
        /\ \A f \in NebFiles(m) : disk'[f] = disk[f]
        /\ NEB!Intact(m)' <=> NEB!Intact(m)
  BY <1>3, NebChkOnly
<1>6. Saving' /\ ~SaveBegins'
  BY <1>1, <1>2, NebTail DEF Saving
<1>7. NEB!IsWhole(OldChk)' <=> NEB!IsWhole(OldChk)
  BY <1>3 DEF NEB!IsWhole
<1>8. at.step \in 0..MaxUpdates /\ run \in 1..MaxRuns /\ disk[OldChk].step \in 0..MaxUpdates
      /\ disk'[NEB!StepChk].step = at.step /\ disk'[NEB!StepChk].run = run
  BY <1>1, <1>3, NebSteps, NebFileNames DEF NEB!Whole
<1>9. NebRecords'
  BY <1>1, <1>3, <1>7, <1>8 DEF NebRecords, NEB!IsWhole
<1>10. NEB!IsWhole(OldChk) /\ disk[OldChk].run = run =>
         NEB!Intact(disk[OldChk].step) /\ disk[OldChk].step = at.step - 1
  <2>1. Last = OldChk
    BY DEF Last
  <2>2. QED BY <1>1, <1>2, <2>1 DEF NebBetween
<1>11. NebIntact'
  <2>1. PICK n \in 0..MaxUpdates : n = disk[OldChk].step
    BY <1>8
  <2>2. NEB!IsWhole(OldChk) /\ disk[OldChk].run = run => NEB!Intact(n)'
    BY <1>5, <1>10, <2>1
  <2>3. QED BY <1>3, <1>7, <1>8, <2>1, <2>2 DEF NebIntact
<1>12. NebReady'
  <2>1. \A f \in NebFiles(at.step) : NEB!IsComplete(f)' <=> NEB!IsComplete(f)
    BY <1>5, <1>8 DEF NEB!IsComplete
  <2>2. ASSUME NEW f \in NebFiles(at.step), NEW i \in DOMAIN todo, todo[i].file = f
        PROVE  \E j \in DOMAIN todo' : todo'[j].file = f
    <3>1. i # 1
      BY <2>2, NebStepFilesDiffer
    <3>2. PICK j \in DOMAIN todo' : todo'[j] = todo[i]
      BY <1>1, <3>1, NebTail
    <3>3. QED BY <2>2, <3>2
  <2>3. QED BY <1>1, <1>2, <2>1, <2>2 DEF NebReady
<1>13. NebBetween'
  BY <1>6 DEF NebBetween
<1>14. NebWithin'
  <2>1. NEB!IsWhole(OldChk)' /\ disk'[OldChk].run = run => disk'[OldChk].step + 1 = at.step
    BY <1>3, <1>7, <1>8, <1>10
  <2>2. QED BY <1>1, <1>3, <2>1 DEF NebWithin
<1>15. ASSUME NEB!SameSolver PROVE NebPlace'
  <2>1. PICK b \in -1..MaxUpdates : b = at.step - 1
    BY NebSteps
  <2>2. NebBase(b)
    BY <1>1, <1>2, <1>15, <2>1 DEF NebPlace
  <2>3. NEB!IsWhole(OldChk)' => disk'[OldChk].step \in {b, b + 1}
    BY <1>3, <1>7, <2>2 DEF NebBase
  <2>4. disk'[NEB!StepChk].step = b + 1
    BY <1>8, <2>1
  <2>5. /\ \A f \in {NEB!StepChk, OldChk} : NEB!IsWhole(f)' => disk'[f].step \in {b, b + 1}
        /\ NEB!IsWhole(NEB!StepChk)' /\ NEB!IsWhole(OldChk)' => disk'[OldChk].step <= disk'[NEB!StepChk].step
    BY <2>3, <2>4
  <2>6. NebBase(b)'
    BY <1>5, <2>2, <2>5, NebBaseKept
  <2>7. QED BY <1>1, <1>2, <1>6, <2>1, <2>6 DEF NebPlace
<1>16. QED BY <1>4, <1>9, <1>11, <1>12, <1>13, <1>14, <1>15

\* The last write of Step.chk: the save is finished.
LEMMA NebWritesChkLast ==
  ASSUME NebInv, NEB!FileStep, todo[1].file = NEB!StepChk, ~NEB!Exists(NEB!StepChk), Len(todo) = 1
  PROVE  NebInv'
<1> USE DEF NebInv
<1>1. /\ phase = "running" /\ todo # <<>> /\ phase' = phase /\ run' = run /\ at' = at
      /\ todo' = Tail(todo) /\ disk' = [disk EXCEPT ![NEB!StepChk] = todo[1].value]
  BY NebFileStep
<1>2. todo[1].value = NEB!Whole(at.step, run) /\ Saving /\ SaveEnds /\ ~SaveBegins /\ ~at.saveFirst
  BY <1>1, NebChk
<1>3. /\ disk'[NEB!StepChk] = NEB!Whole(at.step, run)
      /\ \A f \in NEB!Files \ {NEB!StepChk} : disk'[f] = disk[f]
      /\ disk'[OldChk] = disk[OldChk] /\ disk'[NEB!Dat] = disk[NEB!Dat]
  <2>1. disk \in [NEB!Files -> NebContents]
    BY DEF NebTypes
  <2>2. QED BY <1>1, <1>2, <2>1, NebFileNames, NebRecordsDiffer
<1>4. NebTypes' /\ NebFresh' /\ NebQueue' /\ (NEB!SameSolver' <=> NEB!SameSolver)
  BY NebFileTypes
<1>5. \A m \in 0..MaxUpdates :
        /\ \A f \in NebFiles(m) : disk'[f] = disk[f]
        /\ NEB!Intact(m)' <=> NEB!Intact(m)
  BY <1>3, NebChkOnly
<1>6. ~Saving'
  BY <1>1, NebTail DEF Saving
<1>7. disk[OldChk] = NEB!Whole(at.step, run)
  <2>1. disk[NEB!StepChk] # NEB!Whole(at.step, run)
    BY DEF NEB!Exists, NEB!Absent, NEB!Whole
  <2>2. QED BY <1>2, <2>1 DEF NebWithin
<1>8. /\ at.step \in 0..MaxUpdates /\ run \in 1..MaxRuns
      /\ \A f \in {NEB!StepChk, OldChk} : disk'[f].step = at.step /\ disk'[f].run = run
  BY <1>1, <1>3, <1>7, NebSteps DEF NEB!Whole
<1>9. NEB!Intact(at.step) /\ \A f \in NebFiles(at.step) : NEB!Exists(f)
  <2>1. ASSUME NEW f \in NebFiles(at.step) PROVE NEB!IsComplete(f)
    <3>1. DOMAIN todo = {1}
      BY <1>1, <1>2, NebHead DEF SaveEnds
    <3>2. f # NEB!StepChk
      BY NebStepFilesDiffer
    <3>3. QED BY <1>2, <3>1, <3>2 DEF NebReady
  <2>2. QED BY <2>1 DEF NEB!Intact, NebFiles, NEB!IsComplete, NEB!Exists, NEB!Absent
<1>10. NebRecords'
  BY <1>1, <1>3, <1>8 DEF NebRecords, NEB!IsWhole
<1>11. PICK n \in 0..MaxUpdates : n = at.step
  BY <1>8
<1>12. NEB!Intact(n)'
  BY <1>5, <1>9, <1>11
<1>13. NebIntact'
  BY <1>8, <1>11, <1>12 DEF NebIntact
<1>14. NebReady' /\ NebWithin'
  BY <1>6 DEF NebReady, NebWithin
<1>15. NebBetween'
  <2>1. Last' \in {NEB!StepChk, OldChk}
    BY DEF Last
  <2>2. disk'[Last'].step = n /\ at'.step = n /\ ~at'.saveFirst
    BY <1>1, <1>2, <1>8, <1>11, <2>1
  <2>3. QED BY <1>6, <1>12, <2>2 DEF NebBetween
<1>16. ASSUME NEB!SameSolver PROVE NebPlace'
  <2>1. NebBase(at.step - 1)
    BY <1>1, <1>2, <1>16 DEF NebPlace
  <2>2. \A f \in NEB!Looked(n) : NEB!Exists(f)'
    <3>1. \A f \in NebFiles(n) : NEB!Exists(f)'
      BY <1>5, <1>9, <1>11 DEF NEB!Exists
    <3>2. QED BY <3>1 DEF NebFiles
  <2>3. ASSUME NEW m \in 0..MaxUpdates, NEB!Exists(NEB!In(m, "maxForce"))' PROVE m <= n + 1
    <3>1. NEB!In(m, "maxForce") \in NebFiles(m)
      BY DEF NebFiles
    <3>2. NEB!Exists(NEB!In(m, "maxForce"))
      BY <1>5, <2>3, <3>1 DEF NEB!Exists
    <3>3. QED BY <1>8, <1>11, <2>1, <3>2 DEF NebBase
  <2>4. /\ \A f \in {NEB!StepChk, OldChk} : disk'[f].step \in {n, n + 1}
        /\ disk'[OldChk].step <= disk'[NEB!StepChk].step
    BY <1>8, <1>11
  <2>5. NebBase(n)'
    BY <2>2, <2>3, <2>4 DEF NebBase
  <2>6. QED BY <1>1, <1>2, <1>6, <1>11, <2>5 DEF NebPlace
<1>17. QED BY <1>4, <1>10, <1>13, <1>14, <1>15, <1>16

\* The write of a step's file.
LEMMA NebWritesFile ==
  ASSUME NebInv, NEB!FileStep, todo[1].file \notin {NEB!Dat, NEB!StepChk}
  PROVE  NebInv'
<1> USE DEF NebInv
<1>1. /\ phase = "running" /\ todo # <<>> /\ phase' = phase /\ run' = run /\ at' = at
      /\ \A f \in NEB!Files \ {todo[1].file} : disk'[f] = disk[f]
      /\ \/ todo' = todo
         \/ todo' = Tail(todo) /\ disk'[todo[1].file] = todo[1].value
  <2>1. disk \in [NEB!Files -> NebContents] /\ todo[1].file # NEB!StepChk
    BY DEF NebTypes
  <2>2. /\ phase = "running" /\ todo # <<>> /\ phase' = phase /\ run' = run /\ at' = at
        /\ \/ todo' = todo /\ disk' = [disk EXCEPT ![todo[1].file] = NEB!Absent]
           \/ todo' = Tail(todo) /\ disk' = [disk EXCEPT ![todo[1].file] = todo[1].value]
    BY <2>1, NebFileStep
  <2>3. todo[1].file \in NEB!Files
    BY <2>2, NebHead DEF NebOps
  <2>4. QED BY <2>1, <2>2, <2>3
<1>2. /\ Saving /\ ~SaveBegins /\ Len(todo) > 1 /\ todo[Len(todo)].file = NEB!StepChk
      /\ todo[1].file \in NebFiles(at.step)
      /\ disk[NEB!StepChk] = NEB!Whole(at.step, run)
      /\ NEB!IsWhole(OldChk) /\ disk[OldChk].run = run => disk[OldChk].step + 1 = at.step
  BY <1>1, NebInner
<1>3. 1 \in DOMAIN todo /\ todo[1].value.state \in {"whole", "garbage"} /\ ~at.saveFirst
  BY <1>1, NebHead, NebKinds
<1>4. NebTypes' /\ NebFresh' /\ NebQueue' /\ (NEB!SameSolver' <=> NEB!SameSolver)
  BY NebFileTypes
<1>5. PICK n \in 0..MaxUpdates : n = at.step
  BY NebSteps
<1>6. PICK h \in NebFiles(n) : h = todo[1].file
  BY <1>2, <1>5
<1>7. /\ \A f \in {NEB!Dat, NEB!StepChk, OldChk} : disk'[f] = disk[f]
      /\ \A m \in 0..MaxUpdates : m # n => (NEB!Intact(m)' <=> NEB!Intact(m))
      /\ \A b \in -1..MaxUpdates : b + 1 = n => (NebBase(b) => NebBase(b)')
  BY <1>1, <1>6, NebOneFile
<1>8. \A f \in {NEB!Dat, NEB!StepChk, OldChk} : NEB!IsWhole(f)' <=> NEB!IsWhole(f)
  BY <1>7 DEF NEB!IsWhole
<1>9. Saving' /\ ~SaveBegins'
  <2>1. CASE todo' = todo
    BY <1>2, <2>1 DEF Saving, SaveBegins
  <2>2. CASE todo' = Tail(todo)
    BY <1>1, <1>2, <2>2, NebTail DEF Saving
  <2>3. QED BY <1>1, <2>1, <2>2
<1>10. NebRecords'
  BY <1>1, <1>7, <1>8 DEF NebRecords
<1>11. NebIntact'
  <2>1. SUFFICES ASSUME NEB!IsWhole(NEB!StepChk)', NEB!IsWhole(OldChk)',
                        disk'[NEB!StepChk].run = disk'[OldChk].run
                 PROVE  NEB!Intact(disk[OldChk].step)'
    BY DEF NebIntact
  <2>2. PICK k \in 0..MaxUpdates : k = disk[OldChk].step
    BY NebSteps, NebFileNames
  <2>3. disk[OldChk].run = run
    BY <1>2, <1>7, <2>1 DEF NEB!Whole
  <2>4. k # n
    BY <1>2, <1>5, <1>8, <2>1, <2>2, <2>3
  <2>5. NEB!Intact(k)
    BY <1>7, <1>8, <2>1, <2>2 DEF NebIntact
  <2>6. QED BY <1>7, <2>2, <2>4, <2>5
<1>12. NebReady'
  <2>1. ASSUME NEW f \in NebFiles(n)
        PROVE  NEB!IsComplete(f)' \/ \E j \in DOMAIN todo' : todo'[j].file = f
    <3>1. NEB!IsComplete(f) \/ \E i \in DOMAIN todo : todo[i].file = f
      BY <1>2, <1>5 DEF NebReady
    <3>2. CASE f = h
      <4>1. CASE todo' = todo
        BY <1>3, <1>6, <3>2, <4>1
      <4>2. CASE todo' = Tail(todo) /\ disk'[todo[1].file] = todo[1].value
        BY <1>3, <1>6, <3>2, <4>2 DEF NEB!IsComplete
      <4>3. QED BY <1>1, <4>1, <4>2
    <3>3. CASE f # h
      <4>1. NEB!IsComplete(f)' <=> NEB!IsComplete(f)
        BY <1>1, <1>6, <3>3, NebFileNames DEF NEB!IsComplete
      <4>2. ASSUME NEW i \in DOMAIN todo, todo[i].file = f
            PROVE  \E j \in DOMAIN todo' : todo'[j].file = f
        <5>1. CASE todo' = todo
          BY <4>2, <5>1
        <5>2. CASE todo' = Tail(todo)
          <6>1. i # 1
            BY <1>6, <3>3, <4>2
          <6>2. PICK j \in DOMAIN todo' : todo'[j] = todo[i]
            BY <1>1, <5>2, <6>1, NebTail
          <6>3. QED BY <4>2, <6>2
        <5>3. QED BY <1>1, <5>1, <5>2
      <4>3. QED BY <3>1, <4>1, <4>2
    <3>4. QED BY <3>2, <3>3
  <2>2. QED BY <1>1, <1>5, <2>1 DEF NebReady
<1>13. NebBetween'
  BY <1>9 DEF NebBetween
<1>14. NebWithin'
  BY <1>1, <1>2, <1>7, <1>8 DEF NebWithin
<1>15. ASSUME NEB!SameSolver PROVE NebPlace'
  <2>1. PICK b \in -1..MaxUpdates : b = at.step - 1
    BY NebSteps
  <2>2. NebBase(b)
    BY <1>1, <1>2, <1>15, <2>1 DEF NebPlace
  <2>3. NebBase(b)'
    BY <1>5, <1>7, <2>1, <2>2
  <2>4. QED BY <1>1, <1>3, <1>9, <2>1, <2>3 DEF NebPlace
<1>16. QED BY <1>4, <1>10, <1>11, <1>12, <1>13, <1>14, <1>15

LEMMA NebFileStepKeeps ==
  ASSUME NebInv, NEB!FileStep
  PROVE  NebInv'
<1>1. todo # <<>>
  BY NebFileStep DEF NebInv
<1>2. CASE todo[1].file = NEB!Dat
  BY <1>2, NebWritesDat
<1>3. CASE todo[1].file = NEB!StepChk
  BY <1>1, <1>3, NebMovesChk, NebWritesChkFirst, NebWritesChkLast, NebChk DEF NebInv
<1>4. CASE todo[1].file \notin {NEB!Dat, NEB!StepChk}
  BY <1>4, NebWritesFile
<1>5. QED BY <1>2, <1>3, <1>4

\* The process is killed, and may leave the file it writes torn.
LEMMA NebCrash ==
  ASSUME NebInv, NEB!Crash
  PROVE  NebInv'
<1> USE DEF NebInv
<1>1. /\ phase = "running" /\ phase' = "crashed" /\ todo' = <<>> /\ run' = run /\ at' = at
      /\ \/ disk' = disk
         \/ /\ todo # <<>> /\ ~NEB!Exists(todo[1].file)
            /\ disk' = [disk EXCEPT ![todo[1].file] = NEB!Torn]
  <2>1. phase = "running" /\ phase' = "crashed" /\ todo' = <<>> /\ run' = run /\ at' = at
    BY DEF NEB!Crash, NebTypes
  <2>2. CASE disk' = disk
    BY <2>1, <2>2
  <2>3. CASE disk' # disk
    <3>1. todo # <<>>
      BY <2>3 DEF NEB!Crash
    <3>2. Head(todo) = todo[1] /\ todo[1].do = "write"
      BY <3>1, NebHead DEF NebOps
    <3>3. QED BY <2>1, <2>3, <3>1, <3>2 DEF NEB!Crash
  <2>4. QED BY <2>2, <2>3
<1>2. disk \in [NEB!Files -> NebContents]
  BY DEF NebTypes
<1>3. NebTypes' /\ NebFresh' /\ NebQueue' /\ (NEB!SameSolver' <=> NEB!SameSolver)
  <2>1. disk' \in [NEB!Files -> NebContents]
    <3>1. NEB!Torn \in NebContents
      BY LaunchConstantsOK DEF NebContents, NEB!Contents, NEB!Torn
    <3>2. QED BY <1>1, <1>2, <3>1
  <2>2. NebTypes'
    BY <1>1, <2>1 DEF NebTypes
  <2>3. NebFresh' /\ NebQueue' /\ (NEB!SameSolver' <=> NEB!SameSolver)
    BY <1>1 DEF NebFresh, NebQueue, NEB!SameSolver
  <2>4. QED BY <2>2, <2>3
<1>4. ~Saving'
  BY <1>1 DEF Saving
<1>5. NebReady' /\ NebWithin' /\ NebBetween'
  BY <1>1, <1>4 DEF NebReady, NebWithin, NebBetween
<1>6. PICK b \in -1..MaxUpdates : b = IF Saving THEN at.step - 1 ELSE at.step
  BY NebSteps
<1>7. NEB!SameSolver => NebBase(b)
  BY <1>1, <1>6 DEF NebPlace
<1>8. \A f \in NEB!Files : NEB!IsWhole(f)' => NEB!IsWhole(f) /\ disk'[f] = disk[f]
  <2>1. CASE disk' = disk
    BY <2>1 DEF NEB!IsWhole
  <2>2. CASE todo # <<>> /\ disk' = [disk EXCEPT ![todo[1].file] = NEB!Torn]
    <3>1. todo[1].file \in NEB!Files
      BY <2>2, NebHead DEF NebOps
    <3>2. QED BY <1>2, <2>2, <3>1 DEF NEB!IsWhole, NEB!Torn
  <2>3. QED BY <1>1, <2>1, <2>2
<1>9. NebRecords'
  BY <1>1, <1>8, NebFileNames DEF NebRecords
<1>10. NebIntact' /\ (NEB!SameSolver => NebBase(b)')
  <2>1. CASE disk' = disk
    BY <1>7, <2>1, NebSameDisk
  <2>2. CASE todo # <<>> /\ disk' = [disk EXCEPT ![todo[1].file] = NEB!Torn]
    <3>1. todo[1].file \in NEB!Files /\ \A f \in NEB!Files \ {todo[1].file} : disk'[f] = disk[f]
      BY <1>2, <2>2, NebHead DEF NebOps
    <3>2. PICK k \in 0..MaxUpdates : k = disk[OldChk].step
      BY NebSteps, NebFileNames
    <3>3. SUFFICES /\ NEB!IsWhole(NEB!StepChk)' /\ NEB!IsWhole(OldChk)'
                      /\ disk'[NEB!StepChk].run = disk'[OldChk].run => NEB!Intact(k)'
                   /\ NEB!SameSolver => NebBase(b)'
      BY <1>8, <3>2, NebFileNames DEF NebIntact
    <3>4. NEB!IsWhole(NEB!StepChk)' /\ NEB!IsWhole(OldChk)'
            /\ disk'[NEB!StepChk].run = disk'[OldChk].run => NEB!Intact(k)
      BY <1>8, <3>2, NebFileNames DEF NebIntact
    <3>5. CASE todo[1].file = NEB!Dat
      BY <1>7, <3>1, <3>4, <3>5, NebDatOnly
    <3>6. CASE todo[1].file = NEB!StepChk
      <4>1. ~NEB!IsWhole(NEB!StepChk)'
        BY <1>2, <2>2, <3>1, <3>6 DEF NEB!IsWhole, NEB!Torn
      <4>2. \A m \in 0..MaxUpdates : \A f \in NebFiles(m) : disk'[f] = disk[f]
        BY <3>1, <3>6, NebChkOnly
      <4>3. NEB!SameSolver => \A f \in {NEB!StepChk, OldChk} : NEB!IsWhole(f)' => disk'[f].step \in {b, b + 1}
        BY <1>7, <1>8, NebFileNames DEF NebBase
      <4>4. QED BY <1>7, <4>1, <4>2, <4>3, NebBaseKept
    <3>7. CASE todo[1].file \notin {NEB!Dat, NEB!StepChk}
      <4>1. /\ Saving /\ todo[1].file \in NebFiles(at.step)
            /\ disk[NEB!StepChk] = NEB!Whole(at.step, run)
            /\ NEB!IsWhole(OldChk) /\ disk[OldChk].run = run => disk[OldChk].step + 1 = at.step
        BY <2>2, <3>7, NebInner
      <4>2. PICK n \in 0..MaxUpdates : n = at.step
        BY NebSteps
      <4>3. PICK h \in NebFiles(n) : h = todo[1].file
        BY <4>1, <4>2
      <4>4. /\ \A m \in 0..MaxUpdates : m # n => (NEB!Intact(m)' <=> NEB!Intact(m))
            /\ b + 1 = n => (NebBase(b) => NebBase(b)')
        BY <3>1, <4>3, NebOneFile
      <4>5. NEB!SameSolver => NebBase(b)'
        BY <1>6, <1>7, <4>1, <4>2, <4>4
      <4>6. ASSUME NEB!IsWhole(NEB!StepChk)', NEB!IsWhole(OldChk)',
                   disk'[NEB!StepChk].run = disk'[OldChk].run
            PROVE  NEB!Intact(k)'
        <5>1. NEB!IsWhole(OldChk) /\ disk[OldChk].run = disk[NEB!StepChk].run
          BY <1>8, <4>6, NebFileNames
        <5>2. disk[OldChk].run = run
          BY <4>1, <5>1 DEF NEB!Whole
        <5>3. k # n
          BY <3>2, <4>1, <4>2, <5>1, <5>2
        <5>4. QED BY <3>4, <4>4, <4>6, <5>3
      <4>7. QED BY <4>5, <4>6
    <3>8. QED BY <3>5, <3>6, <3>7
  <2>3. QED BY <1>1, <2>1, <2>2
<1>11. ASSUME NEB!SameSolver PROVE NebPlace'
  BY <1>1, <1>10, <1>11 DEF NebPlace
<1>12. QED BY <1>3, <1>5, <1>9, <1>10, <1>11

(***************************************************************************)
(* A restart of the band.                                                  *)
(***************************************************************************)
LEMMA GreatestOf ==
  ASSUME NEW r \in Nat, NEW S \in SUBSET (0..r), S # {}
  PROVE  \E s \in S : \A u \in S : u <= s
<1> DEFINE T == {i \in Nat : \E s \in S : i = r - s}
<1>0. \A s \in S : s \in 0..r /\ r - s \in Nat
  OBVIOUS
<1>1. T \subseteq Nat /\ T # {}
  <2>1. PICK s \in S : TRUE
    OBVIOUS
  <2>2. r - s \in T
    BY <1>0
  <2>3. QED BY <2>2
<1>2. PICK x \in T : \A y \in T : ~(<<y, x>> \in OpToRel(<, Nat))
  <2> HIDE DEF T
  <2>1. QED BY <1>1, WFMin, NatLessThanWellFounded
<1>3. PICK s \in S : x = r - s
  BY <1>2
<1>4. ASSUME NEW u \in S PROVE u <= s
  <2>1. PICK y \in T : y = r - u
    BY <1>0
  <2>2. x \in Nat /\ y \in Nat
    BY <1>1
  <2>3. ~(y < x)
    BY <1>2, <2>2 DEF OpToRel
  <2>4. QED BY <1>0, <1>3, <2>1, <2>2, <2>3
<1>5. QED BY <1>4

\* checkRestart goes back to a step of which the images are there, and to none below
\* another such one.
LEMMA NebCheckRestart ==
  ASSUME NEW r \in 0..MaxUpdates
  PROVE  /\ NEB!checkRestart(r) \in 0..r
         /\ NEB!checkRestart(r) >= 2 => \A f \in NEB!Looked(NEB!checkRestart(r)) : NEB!Exists(f)
         /\ \A b \in 2..r : (\A f \in NEB!Looked(b) : NEB!Exists(f)) => b <= NEB!checkRestart(r)
         /\ r >= 1 => NEB!checkRestart(r) >= 1
<1> DEFINE found == {s \in 2..r : \A f \in NEB!Looked(s) : NEB!Exists(f)}
<1>0. r \in Nat
  BY LaunchConstantsOK
<1>1. CASE found = {}
  <2>1. NEB!checkRestart(r) = IF r < 1 THEN r ELSE 1
    BY <1>1 DEF NEB!checkRestart
  <2>2. QED BY <1>0, <1>1, <2>1
<1>2. CASE found # {}
  <2>1. NEB!checkRestart(r) = CHOOSE s \in found : \A u \in found : u <= s
    BY <1>2 DEF NEB!checkRestart
  <2>2. \E s \in found : \A u \in found : u <= s
    <3>1. found \in SUBSET (0..r)
      BY <1>0
    <3>2. QED BY <1>0, <1>2, <3>1, GreatestOf
  <2>3. NEB!checkRestart(r) \in found /\ \A u \in found : u <= NEB!checkRestart(r)
    BY <2>1, <2>2
  <2>4. QED BY <1>0, <2>3
<1>3. QED BY <1>1, <1>2

\* A restart takes up a base, or the step after it.
LEMMA NebResumes ==
  ASSUME NebTypes, NEB!IsWhole(NEB!StepChk), NEB!IsWhole(OldChk), NEW b \in -1..MaxUpdates, NebBase(b)
  PROVE  LET n == NEB!checkRestart(NEB!recorded)
         IN n \in 0..MaxUpdates /\ b <= n /\ NebBase(n)
<1>1. PICK r \in 0..MaxUpdates : r = disk[OldChk].step
  BY NebSteps, NebFileNames
<1>2. NEB!recorded = r
  BY <1>1 DEF NEB!recorded, OldChk
<1>3. PICK c \in 0..MaxUpdates : c = disk[NEB!StepChk].step
  BY NebSteps, NebFileNames
<1>4. r \in {b, b + 1} /\ c \in {b, b + 1} /\ r <= c
  BY <1>1, <1>3 DEF NebBase
<1>5. PICK n : n = NEB!checkRestart(r)
  OBVIOUS
<1>6. /\ n \in 0..r /\ (n >= 2 => \A f \in NEB!Looked(n) : NEB!Exists(f))
      /\ \A s \in 2..r : (\A f \in NEB!Looked(s) : NEB!Exists(f)) => s <= n
      /\ r >= 1 => n >= 1
  BY <1>5, NebCheckRestart
<1>7. b <= n
  <2>1. CASE b >= 2
    <3>1. b \in 2..r /\ \A f \in NEB!Looked(b) : NEB!Exists(f)
      BY <1>4, <2>1 DEF NebBase
    <3>2. QED BY <1>6, <3>1
  <2>2. CASE ~(b >= 2)
    BY <1>4, <1>6, <2>2, LaunchConstantsOK
  <2>3. QED BY <2>1, <2>2
<1>8. n = b \/ (n = b + 1 /\ r = n /\ c = n)
  <2>1. n \in Nat /\ b \in Int /\ n <= r
    BY <1>6, LaunchConstantsOK
  <2>2. CASE r = b
    BY <1>7, <2>1, <2>2
  <2>3. CASE r = b + 1
    <3>1. c = b + 1
      BY <1>4, <2>1, <2>3
    <3>2. n = b \/ n = b + 1
      BY <1>7, <2>1, <2>3
    <3>3. QED BY <2>3, <3>1, <3>2
  <2>4. QED BY <1>4, <2>2, <2>3
<1>9. NebBase(n)
  <2>1. CASE n = b
    BY <2>1
  <2>2. CASE n = b + 1 /\ r = n /\ c = n
    <3>1. ASSUME NEW m \in 0..MaxUpdates, NEB!Exists(NEB!In(m, "maxForce"))
          PROVE  m <= n + 1
      <4>1. m <= b + 1
        BY <3>1 DEF NebBase
      <4>2. QED BY <2>2, <4>1, LaunchConstantsOK
    <3>2. QED BY <1>1, <1>3, <1>6, <2>2, <3>1 DEF NebBase
  <2>3. QED BY <1>8, <2>1, <2>2
<1>10. n \in 0..MaxUpdates
  BY <1>6, LaunchConstantsOK
<1>11. QED BY <1>2, <1>5, <1>7, <1>9, <1>10

LEMMA NebRestart ==
  ASSUME NebInv, NEB!Restart
  PROVE  NebInv'
<1> USE DEF NebInv
<1> DEFINE n == NEB!checkRestart(NEB!recorded)
<1>1. /\ phase \in {"crashed", "done"} /\ run' = run + 1 /\ run < MaxRuns /\ disk' = disk
      /\ todo = <<>> /\ run \in 1..MaxRuns /\ run' \in 1..MaxRuns
  <2>1. phase \in {"crashed", "done"} /\ run' = run + 1 /\ run < MaxRuns /\ disk' = disk
    BY DEF NEB!Restart
  <2>2. todo = <<>> /\ run \in 0..MaxRuns /\ run # 0
    BY <2>1 DEF NebTypes
  <2>3. QED BY <2>1, <2>2, LaunchConstantsOK
<1>2. PICK s \in Solvers, first \in BOOLEAN, from \in 0..MaxRuns :
        \/ /\ phase' = "exited" /\ todo' = todo
           /\ at' = [at EXCEPT !.solvers = Append(at.solvers, s)]
        \/ /\ phase' = "running" /\ todo' = <<NEB!Write(NEB!Dat, NEB!Whole(n, run'))>>
           /\ \A f \in {NEB!Dat, NEB!StepChk, OldChk} : NEB!IsWhole(f)
           /\ at' = [at EXCEPT !.solvers = Append(at.solvers, s), !.step = n,
                               !.saveFirst = first, !.loaded = from]
           /\ first => ~(at.solvers[disk[NEB!Dat].run] = s)
  <2>1. PICK s \in Solvers :
          LET same   == NEB!IsWhole(NEB!Dat) /\ at.solvers[disk[NEB!Dat].run] = s
              starts == [at EXCEPT !.solvers = Append(@, s)]
          IN \/ phase' = "exited" /\ at' = starts /\ todo' = todo
             \/ /\ phase' = "running" /\ todo' = <<NEB!Write(NEB!Dat, NEB!Whole(n, run'))>>
                /\ \A f \in {NEB!Dat, NEB!StepChk, NEB!Old(NEB!StepChk)} : NEB!IsWhole(f)
                /\ \A f \in NEB!Looked(n) \cup {NEB!In(n, "maxForce")}
                            \cup (IF same THEN {NEB!In(n, "ionRelax")} ELSE {}) : NEB!Exists(f)
                /\ at' = [starts EXCEPT !.step = n, !.saveFirst = ~same /\ NEB!SavesFirst(s),
                                        !.loaded = IF same /\ NEB!IsWhole(NEB!In(n, "ionRelax"))
                                                   THEN disk[NEB!In(n, "ionRelax")].run ELSE 0]
    BY DEF NEB!Restart
  <2> DEFINE same == NEB!IsWhole(NEB!Dat) /\ at.solvers[disk[NEB!Dat].run] = s
  <2>2. CASE phase' = "exited" /\ at' = [at EXCEPT !.solvers = Append(@, s)] /\ todo' = todo
    <3>1. 0 \in 0..MaxRuns
      BY LaunchConstantsOK
    <3>2. QED BY <2>2, <3>1
  <2>3. CASE /\ phase' = "running" /\ todo' = <<NEB!Write(NEB!Dat, NEB!Whole(n, run'))>>
             /\ \A f \in {NEB!Dat, NEB!StepChk, NEB!Old(NEB!StepChk)} : NEB!IsWhole(f)
             /\ at' = [[at EXCEPT !.solvers = Append(@, s)]
                         EXCEPT !.step = n, !.saveFirst = ~same /\ NEB!SavesFirst(s),
                                !.loaded = IF same /\ NEB!IsWhole(NEB!In(n, "ionRelax"))
                                           THEN disk[NEB!In(n, "ionRelax")].run ELSE 0]
    <3>1. PICK first \in BOOLEAN : first = (~same /\ NEB!SavesFirst(s))
      BY DEF NEB!SavesFirst
    <3>2. \A f \in NEB!Files : disk[f].run \in 0..MaxRuns
      BY DEF NebTypes, NebContents, NEB!Contents
    <3>3. n \in 0..MaxUpdates
      <4>1. PICK r \in 0..MaxUpdates : r = disk[OldChk].step
        BY NebSteps, NebFileNames
      <4>2. NEB!recorded = r
        BY <4>1 DEF NEB!recorded, OldChk
      <4>3. NEB!checkRestart(r) \in 0..r
        BY NebCheckRestart
      <4>4. QED BY <4>2, <4>3, LaunchConstantsOK
    <3>4. NEB!In(n, "ionRelax") \in NEB!Files
      BY <3>3, NebFileNames DEF NebFiles
    <3>5. PICK from \in 0..MaxRuns :
            from = IF same /\ NEB!IsWhole(NEB!In(n, "ionRelax")) THEN disk[NEB!In(n, "ionRelax")].run ELSE 0
      BY <3>2, <3>4, LaunchConstantsOK
    <3>6. first => ~(at.solvers[disk[NEB!Dat].run] = s)
      BY <2>3, <3>1
    <3>7. at' = [at EXCEPT !.solvers = Append(at.solvers, s), !.step = n,
                           !.saveFirst = first, !.loaded = from]
      BY <2>3, <3>1, <3>5 DEF NebTypes, NebAt
    <3>8. QED BY <2>3, <3>6, <3>7 DEF OldChk
  <2>4. QED BY <2>1, <2>2, <2>3
<1> HIDE DEF n
<1>3. PICK r \in 0..MaxUpdates : r = disk[OldChk].step
  BY NebSteps, NebFileNames
<1>4. n \in 0..r /\ n \in 0..MaxUpdates
  <2>1. NEB!recorded = r
    BY <1>3 DEF NEB!recorded, OldChk
  <2>2. NEB!checkRestart(r) \in 0..r
    BY NebCheckRestart
  <2>3. QED BY <2>1, <2>2, LaunchConstantsOK DEF n
<1>5. /\ at' \in NebAt /\ at'.solvers = Append(at.solvers, s) /\ Len(at'.solvers) = run'
      /\ phase' = "running" => at'.step = n /\ at'.saveFirst = first
  <2>1. at \in NebAt /\ Append(at.solvers, s) \in Seq(Solvers) /\ Len(at.solvers) = run
        /\ Len(Append(at.solvers, s)) = run + 1
    BY DEF NebTypes, NebAt
  <2>2. QED BY <1>1, <1>2, <1>4, <2>1 DEF NebAt
<1>6. ASSUME phase' = "running"
      PROVE  /\ Len(todo') = 1 /\ DOMAIN todo' = {1} /\ todo' \in Seq(NebOps)
             /\ todo'[1].file = NEB!Dat /\ todo'[1].value.run = run'
  <2>1. todo' = <<NEB!Write(NEB!Dat, NEB!Whole(n, run'))>>
    BY <1>2, <1>6
  <2>2. NEB!Whole(n, run') \in NebContents
    BY <1>1, <1>4, LaunchConstantsOK DEF NebContents, NEB!Contents, NEB!Whole
  <2>3. NEB!Write(NEB!Dat, NEB!Whole(n, run')) \in NebOps
    BY <2>2, NebFileNames DEF NebOps, NEB!Write
  <2>4. QED BY <2>1, <2>3 DEF NEB!Write, NEB!Whole
<1>7. phase' # "running" => phase' = "exited" /\ todo' = <<>>
  BY <1>1, <1>2
<1>8. NebTypes' /\ NebFresh'
  <2>1. phase' \in {"running", "exited"} /\ todo' \in Seq(NebOps)
    <3>1. <<>> \in Seq(NebOps)
      OBVIOUS
    <3>2. CASE phase' = "running"
      BY <1>6, <3>2
    <3>3. CASE phase' # "running"
      BY <1>7, <3>1, <3>3
    <3>4. QED BY <3>2, <3>3
  <2>2. QED BY <1>1, <1>5, <1>7, <2>1 DEF NebTypes, NebFresh
<1>9. NebQueue' /\ ~Saving'
  <2>1. CASE phase' = "running"
    <3>1. NebWrites(1)'
      BY <1>6, <2>1 DEF NebWrites
    <3>2. QED BY <1>6, <2>1, <3>1, NebRecordsDiffer DEF NebQueue, Saving
  <2>2. CASE phase' # "running"
    BY <1>7, <2>2 DEF NebQueue, Saving
  <2>3. QED BY <2>1, <2>2
<1>10. NebIntact'
  BY <1>1, NebSameDisk
<1>11. \A f \in {NEB!Dat, NEB!StepChk, OldChk} : NEB!IsWhole(f)' => disk'[f].run \in 1..run
  BY <1>1 DEF NebRecords, NEB!IsWhole
<1>12. NebRecords'
  BY <1>1, <1>11 DEF NebRecords
<1>13. NebReady' /\ NebWithin'
  BY <1>9 DEF NebReady, NebWithin
<1>14. NebBetween'
  <2>1. Last' \in {NEB!StepChk, OldChk}
    BY DEF Last
  <2>2. ~(NEB!IsWhole(Last)' /\ disk'[Last'].run = run')
    BY <1>1, <1>11, <2>1 DEF NEB!IsWhole
  <2>3. QED BY <2>2 DEF NebBetween
<1>15. ASSUME NEB!SameSolver' PROVE NebPlace'
  <2>1. \A q \in 1..run : Append(at.solvers, s)[q] = at.solvers[q]
    BY DEF NebTypes, NebAt
  <2>2. Append(at.solvers, s)[run + 1] = s
    BY DEF NebTypes, NebAt
  <2>3. \A q \in 1..run + 1 : Append(at.solvers, s)[q] = Append(at.solvers, s)[1]
    BY <1>1, <1>5, <1>15 DEF NEB!SameSolver
  <2>4. \A q \in 1..run : at.solvers[q] = at.solvers[1] /\ at.solvers[q] = s
    <3>1. run + 1 \in 1..run + 1 /\ 1 \in 1..run /\ \A q \in 1..run : q \in 1..run + 1
      BY <1>1
    <3>2. Append(at.solvers, s)[1] = s /\ at.solvers[1] = s
      BY <2>1, <2>2, <2>3, <3>1
    <3>3. QED BY <2>1, <2>3, <3>1, <3>2
  <2>5. NEB!SameSolver
    BY <2>4 DEF NEB!SameSolver
  <2>6. PICK b \in -1..MaxUpdates : NebBase(b)
    BY <1>1, <2>5 DEF NebPlace
  <2>7. NebBase(b)'
    BY <1>1, <2>6, NebSameDisk
  <2>8. CASE phase' # "running"
    BY <2>7, <2>8 DEF NebPlace
  <2>9. CASE phase' = "running"
    <3>1. \A f \in {NEB!Dat, NEB!StepChk, OldChk} : NEB!IsWhole(f)
      BY <1>2, <2>9
    <3>2. NebBase(n)
      BY <2>6, <3>1, NebResumes DEF n
    <3>3. PICK m : m = n
      OBVIOUS
    <3>4. NebBase(m)' /\ at'.step = m
      BY <1>1, <1>5, <2>9, <3>2, <3>3, NebSameDisk
    <3>5. ~at'.saveFirst
      <4>1. disk[NEB!Dat].run \in 1..run
        BY <3>1 DEF NebRecords
      <4>2. at.solvers[disk[NEB!Dat].run] = s
        BY <2>4, <4>1
      <4>3. QED BY <1>2, <1>5, <2>9, <4>2
    <3>6. QED BY <1>9, <2>9, <3>4, <3>5 DEF NebPlace
  <2>10. QED BY <2>8, <2>9
<1>16. QED BY <1>8, <1>9, <1>10, <1>12, <1>13, <1>14, <1>15

LEMMA NebNext ==
  ASSUME NebInv, NEB!Next
  PROVE  NebInv'
BY NebStartAfresh, NebSaveFirst, NebUpdate, NebFileStepKeeps, NebFinish, NebCrash, NebRestart DEF NEB!Next

LEMMA NebStutter ==
  ASSUME NebInv, disk' = disk, todo' = todo, phase' = phase, run' = run, at' = at
  PROVE  NebInv'
<1> USE DEF NebInv
<1>1. NebTypes' /\ NebFresh'
  BY DEF NebTypes, NebFresh
<1>2. NebQueue'
  BY DEF NebQueue, NebWrites
<1>3. NebRecords' /\ NebIntact'
  BY NebSameDisk DEF NebRecords
<1>4. (Saving' <=> Saving) /\ (SaveBegins' <=> SaveBegins) /\ (SaveEnds' <=> SaveEnds)
  BY DEF Saving, SaveBegins, SaveEnds
<1>5. NebReady'
  BY <1>4, NebSameDisk DEF NebReady
<1>6. NebWithin'
  BY <1>4, NebSameDisk DEF NebWithin
<1>7. NebBetween'
  <2>1. PICK x : x = Last
    OBVIOUS
  <2>2. PICK n : n = disk[x].step
    OBVIOUS
  <2>3. Last' = x /\ disk'[Last'].step = n /\ disk'[Last'].run = disk[x].run
    BY <2>1, <2>2, NebSameDisk
  <2>4. (NEB!Intact(n)' <=> NEB!Intact(n)) /\ (NEB!IsWhole(Last)' <=> NEB!IsWhole(x))
    BY <2>3, NebSameDisk DEF NEB!IsWhole
  <2>5. QED BY <1>4, <2>1, <2>2, <2>3, <2>4 DEF NebBetween
<1>8. ASSUME NEB!SameSolver PROVE NebPlace'
  <2>1. phase # "running" => \E b \in -1..MaxUpdates : NebBase(b)'
    BY <1>8, NebSameDisk DEF NebPlace
  <2>2. PICK b : b = IF Saving THEN at.step - 1 ELSE at.step
    OBVIOUS
  <2>3. phase = "running" => NebBase(b)'
    BY <1>8, <2>2, NebSameDisk DEF NebPlace
  <2>4. phase = "running" /\ at.saveFirst =>
          at.step = 0 /\ \A f \in NEB!Files \ {NEB!Dat} : ~NEB!Exists(f)'
    BY <1>8, NebSameDisk DEF NebPlace
  <2>5. QED BY <1>4, <2>1, <2>2, <2>3, <2>4 DEF NebPlace
<1>9. NEB!SameSolver' <=> NEB!SameSolver
  BY DEF NEB!SameSolver
<1>10. QED BY <1>1, <1>2, <1>3, <1>5, <1>6, <1>7, <1>8, <1>9

LEMMA NebStarts ==
  ASSUME NEB!Init
  PROVE  NebInv
<1>1. /\ disk = [f \in NEB!Files |-> NEB!Absent] /\ todo = <<>> /\ phase = "off" /\ run = 0
      /\ at = [step |-> 0, saveFirst |-> FALSE, loaded |-> 0, solvers |-> <<>>]
  BY DEF NEB!Init
<1>2. NebTypes
  <2>1. NEB!Absent \in NebContents
    BY LaunchConstantsOK DEF NebContents, NEB!Contents, NEB!Absent
  <2>2. 0 \in 0..MaxUpdates /\ 0 \in 0..MaxRuns /\ <<>> \in Seq(Solvers) /\ <<>> \in Seq(NebOps)
    BY LaunchConstantsOK
  <2>3. at \in NebAt /\ Len(at.solvers) = 0
    BY <1>1, <2>2 DEF NebAt
  <2>4. QED BY <1>1, <2>1, <2>2, <2>3 DEF NebTypes
<1>3. \A f \in NEB!Files : disk[f] = NEB!Absent /\ ~NEB!Exists(f) /\ ~NEB!IsWhole(f)
  BY <1>1 DEF NEB!Exists, NEB!IsWhole, NEB!Absent
<1>4. NebFresh /\ NebRecords /\ NebIntact
  BY <1>3, NebFileNames DEF NebFresh, NebRecords, NebIntact
<1>5. NebQueue /\ ~Saving
  BY <1>1 DEF NebQueue, Saving
<1>6. NebReady /\ NebBetween /\ NebWithin
  BY <1>1, <1>5 DEF NebReady, NebBetween, NebWithin
<1>7. NebPlace
  <2>1. \A m \in 0..MaxUpdates : NEB!In(m, "maxForce") \in NEB!Files
    BY NebFileNames DEF NebFiles
  <2>2. NebBase(-1)
    BY <1>3, <2>1, NebFileNames DEF NebBase
  <2>3. -1 \in -1..MaxUpdates
    BY LaunchConstantsOK
  <2>4. QED BY <1>1, <2>2, <2>3 DEF NebPlace
<1>8. QED BY <1>2, <1>4, <1>5, <1>6, <1>7 DEF NebInv

\* NebInv holds throughout: all but the steps a restart comes back to whatever the
\* solvers, those with one solver.
THEOREM NebInvariance == Spec => [](solvermode = "NEB" => NebInv)
<1> DEFINE I == solvermode = "NEB" => NebInv
<1>1. Init => I
  BY NebStarts DEF Init
<1>2. I /\ [Next]_vars => I'
  <2>1. SUFFICES ASSUME I, [Next]_vars PROVE I'
    OBVIOUS
  <2>2. SUFFICES ASSUME solvermode' = "NEB" PROVE NebInv'
    OBVIOUS
  <2>3. CASE UNCHANGED vars
    BY <2>1, <2>2, <2>3, NebStutter DEF vars
  <2>4. CASE Next
    <3>1. NebInv /\ NEB!Next
      BY <2>1, <2>2, <2>4 DEF Next
    <3>2. QED BY <3>1, NebNext
  <2>5. QED BY <2>1, <2>3, <2>4
<1>3. QED BY <1>1, <1>2, PTL DEF Spec

\* NEBRecordedStepIsIntact: whenever the process dies, the step that a restart takes
\* from Step.chk and its old file has all its files, if one process wrote the two
\* (nudgedElasticBandClass::save and checkRestart).  It needs no assumption on the
\* solvers of the processes.
THEOREM NEBRecordedStep == Spec => []NEBRecordedStepIsIntact
<1>1. (solvermode = "NEB" => NebInv) => NEBRecordedStepIsIntact
  <2>1. NEB!recorded = disk[OldChk].step
    BY DEF NEB!recorded, OldChk
  <2>2. QED
    BY <2>1 DEF NebInv, NebIntact, OldChk, NEBRecordedStepIsIntact, NEB!RecordedStepIsIntact
<1>2. QED BY <1>1, NebInvariance, PTL

\* A restart goes back at most one step.
LEMMA NebLosesOneStep ==
  ASSUME NebInv, [NEB!Next]_<<disk, todo, phase, run, at, mem>>
  PROVE  NEB!LosesOneStep
<1> USE DEF NebInv
<1>1. SUFFICES ASSUME NEB!SameSolver, phase \in {"crashed", "done"}, phase' = "running",
                      NEW n \in 2..MaxUpdates, NEB!Intact(n)
               PROVE  n <= at'.step + 1
  BY DEF NEB!LosesOneStep
<1>2. NEB!Restart
  BY <1>1 DEF NEB!Next, NEB!StartAfresh, NEB!SaveFirst, NEB!Update, NEB!FileStep, NEB!Finish, NEB!Crash
<1>3. PICK k : k = NEB!checkRestart(NEB!recorded)
  OBVIOUS
<1>4. NEB!IsWhole(NEB!StepChk) /\ NEB!IsWhole(OldChk) /\ at'.step = k
  <2>1. at \in NebAt
    BY DEF NebTypes
  <2>2. QED BY <1>1, <1>2, <1>3, <2>1 DEF NEB!Restart, OldChk, NebAt
<1>5. PICK b \in -1..MaxUpdates : NebBase(b)
  BY <1>1 DEF NebPlace
<1>6. b <= k /\ k \in 0..MaxUpdates
  BY <1>3, <1>4, <1>5, NebResumes
<1>7. n <= b + 1
  <2>1. NEB!Exists(NEB!In(n, "maxForce"))
    BY <1>1 DEF NEB!Intact, NEB!IsComplete, NEB!Exists, NEB!Absent
  <2>2. n \in 0..MaxUpdates
    BY <1>1, LaunchConstantsOK
  <2>3. QED BY <1>5, <2>1, <2>2 DEF NebBase
<1>8. QED BY <1>4, <1>6, <1>7, LaunchConstantsOK

\* NEBLosesOneStep: with one solver, a restart takes up the last complete step or the
\* one before (nudgedElasticBandClass::checkRestart).
THEOREM NEBLosesAtMostOneStep == Spec => NEBLosesOneStep
<1>1. /\ solvermode = "NEB" => NebInv
      /\ [Next]_vars
      => [solvermode = "NEB" => NEB!LosesOneStep]_vars
  <2>1. SUFFICES ASSUME solvermode = "NEB", NebInv, Next
                 PROVE  NEB!LosesOneStep
    OBVIOUS
  <2>2. NEB!Next
    BY <2>1 DEF Next
  <2>3. QED BY <2>1, <2>2, NebLosesOneStep
<1>2. QED BY <1>1, NebInvariance, PTL DEF Spec, NEBLosesOneStep

-----------------------------------------------------------------------------
(***************************************************************************)
(* The elastic band whose records are of two processes.                    *)
(***************************************************************************)
\* The step a process that was resumed can be resumed from in its turn.
Base == IF Saving THEN at.step - 1 ELSE at.step

\* Such a step has all its files.
NebThere(b) == b \in 0..MaxUpdates /\ NEB!HasFiles(b)

\* The records name that step or the one after it.
NebNamed(b) ==
  /\ \A f \in {NEB!StepChk, OldChk} : NEB!IsWhole(f) => disk[f].step \in {b, b + 1}
  /\ NEB!IsWhole(NEB!StepChk) /\ NEB!IsWhole(OldChk) => disk[OldChk].step <= disk[NEB!StepChk].step

\* Of a process that has ended the records are the first process's, or of such a step.
NebLeft ==
  \/ \A f \in {NEB!StepChk, OldChk} : NEB!IsWhole(f) => disk[f].run = 1
  \/ \E b \in 0..MaxUpdates : NebThere(b) /\ NebNamed(b)

NebKept ==
  NEB!SameSolver =>
    /\ phase = "running" /\ run > 1 => NebThere(Base)
    /\ phase # "running" => NebLeft

LEMMA NebHasFiles ==
  \A b : /\ NEB!HasFiles(b) <=> \A f \in NebFiles(b) : NEB!Exists(f)
         /\ NEB!HasFiles(b)' <=> \A f \in NebFiles(b) : NEB!Exists(f)'
BY DEF NEB!HasFiles, NebFiles

LEMMA NebThereSame ==
  ASSUME disk' = disk
  PROVE  \A b : NebThere(b) <=> NebThere(b)'
BY NebSameDisk DEF NebThere, NEB!HasFiles

LEMMA NebLeftSame ==
  ASSUME NebLeft, disk' = disk
  PROVE  NebLeft'
<1>1. CASE \A f \in {NEB!StepChk, OldChk} : NEB!IsWhole(f) => disk[f].run = 1
  BY <1>1, NebSameDisk DEF NebLeft
<1>2. CASE \E b \in 0..MaxUpdates : NebThere(b) /\ NebNamed(b)
  <2>1. PICK b \in 0..MaxUpdates : NebThere(b) /\ NebNamed(b)
    BY <1>2
  <2>2. NebThere(b)' /\ NebNamed(b)'
    BY <2>1, NebThereSame, NebSameDisk DEF NebNamed
  <2>3. QED BY <2>2 DEF NebLeft
<1>3. QED BY <1>1, <1>2 DEF NebLeft

LEMMA NebThereKept ==
  ASSUME NEW b, NebThere(b), \A f \in NebFiles(b) : disk'[f] = disk[f]
  PROVE  NebThere(b)'
<1>1. b \in 0..MaxUpdates /\ \A f \in NebFiles(b) : NEB!Exists(f)
  BY NebHasFiles DEF NebThere
<1>2. \A f \in NebFiles(b) : NEB!Exists(f)'
  BY <1>1, NebStepKept
<1>3. QED BY <1>1, <1>2, NebHasFiles DEF NebThere

\* A process starts to save a step above the one it would come back to.
LEMMA NebKeptSaves ==
  ASSUME NebInv, NebKept, NEB!SaveFirst \/ NEB!Update
  PROVE  NebKept'
<1> USE DEF NebInv
<1>1. /\ phase = "running" /\ todo = <<>> /\ disk' = disk /\ phase' = phase /\ run' = run
      /\ at'.solvers = at.solvers /\ at.step \in 0..MaxUpdates
  BY DEF NEB!SaveFirst, NEB!Update, NebTypes, NebAt
<1>2. ~Saving /\ (NEB!SameSolver' <=> NEB!SameSolver)
  BY <1>1 DEF Saving, NEB!SameSolver
<1>3. SUFFICES ASSUME NEB!SameSolver, run > 1 PROVE NebThere(Base)'
  BY <1>1, <1>2 DEF NebKept
<1>4. NebThere(at.step)
  BY <1>1, <1>2, <1>3 DEF NebKept, Base
<1>5. CASE NEB!SaveFirst
  <2>1. \A f \in NEB!Files \ {NEB!Dat} : ~NEB!Exists(f)
    BY <1>1, <1>3, <1>5 DEF NebPlace, NEB!SaveFirst
  <2>2. NEB!In(at.step, "maxForce") \in NebFiles(at.step)
    BY DEF NebFiles
  <2>3. NEB!In(at.step, "maxForce") \in NEB!Files \ {NEB!Dat}
    BY <1>1, <2>2, NebFileNames, NebStepFilesDiffer
  <2>4. QED BY <1>4, <2>1, <2>2, <2>3, NebHasFiles DEF NebThere
<1>6. CASE NEB!Update
  <2>1. PICK n \in 0..MaxUpdates : n = at.step + 1 /\ at'.step = n /\ todo' = NEB!SaveScript(n)
    <3>1. PICK n \in 0..MaxUpdates : n = at.step + 1
      BY <1>1, <1>6, LaunchConstantsOK DEF NEB!Update
    <3>2. at' = [at EXCEPT !.step = n] /\ todo' = NEB!SaveScript(n)
      BY <1>6, <3>1 DEF NEB!Update
    <3>3. QED BY <3>1, <3>2 DEF NebTypes, NebAt
  <2>2. Saving'
    <3>1. at' \in NebAt /\ ~at'.saveFirst
      <4>1. at' = [at EXCEPT !.step = n]
        BY <1>6, <2>1 DEF NEB!Update
      <4>2. QED BY <1>6, <4>1 DEF NEB!Update, NebTypes, NebAt
    <3>2. QED BY <1>1, <2>1, <3>1, NebSaveBegins
  <2>3. Base' = at.step
    BY <1>1, <2>1, <2>2 DEF Base
  <2>4. QED BY <1>1, <1>4, <2>3, NebThereSame
<1>7. QED BY <1>5, <1>6

\* A file operation leaves that step alone; the last one of a save completes the next.
LEMMA NebKeptFileStep ==
  ASSUME NebInv, NebKept, NEB!FileStep
  PROVE  NebKept'
<1> USE DEF NebInv
<1>1. /\ phase = "running" /\ todo # <<>> /\ phase' = phase /\ run' = run /\ at' = at
      /\ disk \in [NEB!Files -> NebContents] /\ 1 \in DOMAIN todo /\ todo[1].file \in NEB!Files
      /\ at.step \in 0..MaxUpdates /\ MaxUpdates \in Nat
      /\ todo' = todo \/ todo' = Tail(todo)
      /\ NEB!SameSolver' <=> NEB!SameSolver
  <2>1. /\ phase = "running" /\ todo # <<>> /\ phase' = phase /\ run' = run /\ at' = at
        /\ todo' = todo \/ todo' = Tail(todo)
    BY NebFileStep
  <2>2. 1 \in DOMAIN todo /\ todo[1].file \in NEB!Files
    BY <2>1, NebHead DEF NebOps
  <2>3. QED BY <2>1, <2>2, NebSteps, NebFileTypes DEF NebTypes
<1>2. SUFFICES ASSUME NEB!SameSolver, run > 1 PROVE NebThere(Base)'
  BY <1>1 DEF NebKept
<1>3. PICK b : b = Base
  OBVIOUS
<1>4. b \in 0..MaxUpdates /\ NebThere(b)
  BY <1>1, <1>2, <1>3 DEF NebKept, NebThere
<1>5. CASE todo[1].file = NEB!Dat
  <2>1. Len(todo) = 1
    BY <1>1, <1>5, NebKinds
  <2>2. ~Saving /\ ~Saving'
    <3>1. todo' = todo \/ todo' = <<>>
      BY <1>1, <2>1, NebTail
    <3>2. QED BY <1>5, <2>1, <3>1, NebRecordsDiffer DEF Saving
  <2>3. \A f \in NEB!Files \ {NEB!Dat} : disk'[f] = disk[f]
    <3>1. \/ disk' = [disk EXCEPT ![NEB!Dat] = NEB!Absent]
          \/ disk' = [disk EXCEPT ![NEB!Dat] = todo[1].value]
      BY <1>5, NebFileStep, NebRecordsDiffer
    <3>2. QED BY <1>1, <3>1
  <2>4. \A f \in NebFiles(b) : disk'[f] = disk[f]
    BY <1>4, <2>3, NebFileNames, NebStepFilesDiffer
  <2>5. Base' = b
    BY <1>1, <1>3, <2>2 DEF Base
  <2>6. QED BY <1>4, <2>4, <2>5, NebThereKept
<1>6. CASE todo[1].file = NEB!StepChk
  <2>1. \A f \in NEB!Files \ {NEB!StepChk, OldChk} : disk'[f] = disk[f]
    BY <1>1, <1>6, NebFileStep
  <2>2. \A m \in 0..MaxUpdates : \A f \in NebFiles(m) : disk'[f] = disk[f]
    BY <2>1, NebChkOnly
  <2>3. Saving /\ (SaveEnds <=> Len(todo) = 1) /\ (Len(todo) > 1 \/ Len(todo) = 1)
        /\ todo[Len(todo)].file = NEB!StepChk
    BY <1>1, <1>6, NebChk
  <2>4. CASE Saving'
    <3>1. Base' = b
      BY <1>1, <1>3, <2>3, <2>4 DEF Base
    <3>2. QED BY <1>4, <2>2, <3>1, NebThereKept
  <2>5. CASE ~Saving'
    <3>1. Base' = at.step
      BY <1>1, <2>5 DEF Base
    <3>2. DOMAIN todo = {1}
      <4>1. todo' = Tail(todo)
        BY <1>1, <2>3, <2>5 DEF Saving
      <4>2. ~(Len(todo) > 1)
        BY <1>1, <2>3, <2>5, <4>1, NebTail DEF Saving
      <4>3. QED BY <1>1, <2>3, <4>2, NebHead
    <3>3. ASSUME NEW f \in NebFiles(at.step) PROVE NEB!Exists(f)
      <4>1. f # NEB!StepChk
        BY NebStepFilesDiffer
      <4>2. NEB!IsComplete(f)
        BY <1>6, <2>3, <3>2, <4>1 DEF NebReady
      <4>3. QED BY <4>2 DEF NEB!IsComplete, NEB!Exists, NEB!Absent
    <3>4. NebThere(at.step)
      BY <1>1, <3>3, NebHasFiles DEF NebThere
    <3>5. QED BY <1>1, <2>2, <3>1, <3>4, NebThereKept
  <2>6. QED BY <2>4, <2>5
<1>7. CASE todo[1].file \notin {NEB!Dat, NEB!StepChk}
  <2>1. /\ Saving /\ Len(todo) > 1 /\ todo[Len(todo)].file = NEB!StepChk
        /\ todo[1].file \in NebFiles(at.step)
    BY <1>1, <1>7, NebInner
  <2>2. Saving'
    <3>1. CASE todo' = todo
      BY <2>1, <3>1 DEF Saving
    <3>2. CASE todo' = Tail(todo)
      BY <1>1, <2>1, <3>2, NebTail DEF Saving
    <3>3. QED BY <1>1, <3>1, <3>2
  <2>3. \A f \in NEB!Files \ {todo[1].file} : disk'[f] = disk[f]
    <3>1. \/ disk' = [disk EXCEPT ![todo[1].file] = NEB!Absent]
          \/ disk' = [disk EXCEPT ![todo[1].file] = todo[1].value]
      BY <1>7, NebFileStep
    <3>2. QED BY <1>1, <3>1
  <2>4. b # at.step
    BY <1>1, <1>3, <2>1 DEF Base
  <2>5. \A f \in NebFiles(b) : disk'[f] = disk[f]
    BY <1>1, <1>4, <2>1, <2>3, <2>4, NebFileNames, NebStepFilesDiffer
  <2>6. Base' = b
    BY <1>1, <1>3, <2>1, <2>2 DEF Base
  <2>7. QED BY <1>4, <2>5, <2>6, NebThereKept
<1>8. QED BY <1>5, <1>6, <1>7

\* The process ends, killed or not: its step is the one that is there.
LEMMA NebKeptEnds ==
  ASSUME NebInv, NebKept, NEB!Crash \/ NEB!Finish
  PROVE  NebKept'
<1> USE DEF NebInv
<1>1. NebInv'
  BY NebCrash, NebFinish
<1>2. /\ phase = "running" /\ phase' # "running" /\ run' = run /\ at' = at
      /\ \/ disk' = disk
         \/ /\ todo # <<>> /\ disk' = [disk EXCEPT ![todo[1].file] = NEB!Torn]
  <2>1. CASE NEB!Finish
    BY <2>1 DEF NEB!Finish
  <2>2. CASE NEB!Crash
    <3>1. phase = "running" /\ phase' = "crashed" /\ run' = run /\ at' = at
      BY <2>2 DEF NEB!Crash, NebTypes
    <3>2. Head(todo) = todo[1] \/ todo = <<>>
      BY NebHead
    <3>3. QED BY <2>2, <3>1, <3>2 DEF NEB!Crash
  <2>3. QED BY <2>1, <2>2
<1>3. SUFFICES ASSUME NEB!SameSolver PROVE NebLeft'
  BY <1>2 DEF NebKept, NEB!SameSolver
<1>4. run \in 1..MaxRuns
  BY <1>2, NebSteps
<1>5. CASE run = 1
  <2>1. \A f \in {NEB!StepChk, OldChk} : NEB!IsWhole(f)' => disk'[f].run \in 1..run
    BY <1>1, <1>2 DEF NebRecords
  <2>2. QED BY <1>5, <2>1 DEF NebLeft
<1>6. CASE run > 1
  <2>1. PICK b : b = Base
    OBVIOUS
  <2>2. b \in 0..MaxUpdates /\ NebThere(b) /\ NebNamed(b)
    BY <1>2, <1>3, <1>6, <2>1 DEF NebKept, NebThere, NebPlace, NebBase, NebNamed, Base
  <2>3. /\ \A f \in NEB!Files : NEB!Exists(f) => NEB!Exists(f)'
        /\ \A f \in NEB!Files : NEB!IsWhole(f)' => NEB!IsWhole(f) /\ disk'[f] = disk[f]
    <3>1. CASE disk' = disk
      BY <3>1 DEF NEB!Exists, NEB!IsWhole
    <3>2. CASE todo # <<>> /\ disk' = [disk EXCEPT ![todo[1].file] = NEB!Torn]
      <4>1. todo[1].file # OldChk /\ disk \in [NEB!Files -> NebContents]
        BY <3>2, NebHead, NebKinds DEF NebTypes
      <4>2. QED BY <3>2, <4>1, NebFileNames DEF NEB!Exists, NEB!IsWhole, NEB!Torn, NEB!Absent
    <3>3. QED BY <1>2, <3>1, <3>2
  <2>4. NebThere(b)'
    <3>1. \A f \in NebFiles(b) : f \in NEB!Files /\ NEB!Exists(f)
      BY <2>2, NebFileNames, NebHasFiles DEF NebThere
    <3>2. QED BY <2>2, <2>3, <3>1, NebHasFiles DEF NebThere
  <2>5. NebNamed(b)'
    BY <2>2, <2>3, NebFileNames DEF NebNamed
  <2>6. QED BY <2>2, <2>4, <2>5 DEF NebLeft
<1>7. QED BY <1>4, <1>5, <1>6

\* A restart that goes on has read every file of its step; one that does not leaves
\* the disk as it was.
LEMMA NebKeptRestart ==
  ASSUME NebInv, NebKept, NEB!Restart
  PROVE  NebKept'
<1> USE DEF NebInv
<1> DEFINE n == NEB!checkRestart(NEB!recorded)
<1>1. phase \in {"crashed", "done"} /\ run' = run + 1 /\ disk' = disk /\ run \in 1..MaxRuns
  <2>1. phase \in {"crashed", "done"} /\ run' = run + 1 /\ disk' = disk
    BY DEF NEB!Restart
  <2>2. run \in 0..MaxRuns /\ run # 0
    BY <2>1 DEF NebTypes
  <2>3. QED BY <2>1, <2>2, LaunchConstantsOK
<1>2. PICK s \in Solvers :
        /\ at'.solvers = Append(at.solvers, s)
        /\ \/ phase' = "exited"
           \/ /\ phase' = "running" /\ at'.step = n /\ todo' = <<NEB!Write(NEB!Dat, NEB!Whole(n, run'))>>
              /\ NEB!IsWhole(NEB!Dat)
              /\ \A f \in NEB!Looked(n) \cup {NEB!In(n, "maxForce")} : NEB!Exists(f)
              /\ at.solvers[disk[NEB!Dat].run] = s => NEB!Exists(NEB!In(n, "ionRelax"))
  <2>1. at = [step |-> at.step, saveFirst |-> at.saveFirst, loaded |-> at.loaded, solvers |-> at.solvers]
    BY DEF NebTypes, NebAt
  <2>2. QED BY <2>1 DEF NEB!Restart
<1> HIDE DEF n
<1>3. SUFFICES ASSUME NEB!SameSolver'
               PROVE  /\ phase' = "running" => NebThere(Base)'
                      /\ phase' # "running" => NebLeft'
  BY DEF NebKept
<1>4. \A q \in 1..run : at.solvers[q] = at.solvers[1] /\ at.solvers[q] = s
  <2>1. \A q \in 1..run : Append(at.solvers, s)[q] = at.solvers[q]
    BY DEF NebTypes, NebAt
  <2>2. Append(at.solvers, s)[run + 1] = s
    BY DEF NebTypes, NebAt
  <2>3. \A q \in 1..run + 1 : Append(at.solvers, s)[q] = Append(at.solvers, s)[1]
    BY <1>1, <1>2, <1>3 DEF NEB!SameSolver
  <2>4. run + 1 \in 1..run + 1 /\ 1 \in 1..run /\ \A q \in 1..run : q \in 1..run + 1
    BY <1>1
  <2>5. Append(at.solvers, s)[1] = s /\ at.solvers[1] = s
    BY <2>1, <2>2, <2>3, <2>4
  <2>6. QED BY <2>1, <2>3, <2>4, <2>5
<1>5. NEB!SameSolver
  BY <1>4 DEF NEB!SameSolver
<1>6. CASE phase' = "exited"
  <2>1. NebLeft
    BY <1>1, <1>5 DEF NebKept
  <2>2. NebLeft'
    BY <1>1, <2>1, NebLeftSame
  <2>3. QED BY <1>6, <2>2
<1>7. CASE phase' # "exited"
  <2>1. PICK k : k = n
    OBVIOUS
  <2>2. k \in 0..MaxUpdates
    <3>1. PICK r \in 0..MaxUpdates : r = disk[OldChk].step
      BY NebSteps, NebFileNames
    <3>2. NEB!recorded = r
      BY <3>1 DEF NEB!recorded, OldChk
    <3>3. NEB!checkRestart(r) \in 0..r
      BY NebCheckRestart
    <3>4. QED BY <2>1, <3>2, <3>3, LaunchConstantsOK DEF n
  <2>3. NEB!Exists(NEB!In(k, "ionRelax"))
    <3>1. disk[NEB!Dat].run \in 1..run
      BY <1>2, <1>7 DEF NebRecords
    <3>2. QED BY <1>2, <1>4, <1>7, <2>1, <3>1
  <2>4. NEB!HasFiles(k)
    BY <1>2, <1>7, <2>1, <2>3 DEF NEB!HasFiles
  <2>5. Base' = k
    <3>1. todo' # <<>> => todo'[Len(todo')].file = NEB!Dat
      BY <1>2, <1>7 DEF NEB!Write
    <3>2. ~Saving'
      BY <3>1, NebRecordsDiffer DEF Saving
    <3>3. QED BY <1>2, <1>7, <2>1, <3>2 DEF Base
  <2>6. NebThere(k)'
    BY <1>1, <2>2, <2>4, NebThereSame DEF NebThere
  <2>7. QED BY <1>2, <1>7, <2>5, <2>6
<1>8. QED BY <1>6, <1>7

\* NEBRecordedIsNear: with one solver, whichever processes wrote the two records, the
\* step they lead to has its files, or two processes died in its save and the step
\* before it has (nudgedElasticBandClass::save and checkRestart).
THEOREM NEBRecordedNear == Spec => []NEBRecordedIsNear
<1> DEFINE J == solvermode = "NEB" => NebKept
           I == solvermode = "NEB" => NebInv
<1>1. Init => J
  <2>1. SUFFICES ASSUME Init, solvermode = "NEB" PROVE NebKept
    OBVIOUS
  <2>2. /\ phase = "off"
        /\ \A f \in NEB!Files : ~NEB!IsWhole(f)
    BY <2>1 DEF Init, NEB!Init, NEB!IsWhole, NEB!Absent
  <2>3. QED BY <2>2, NebFileNames DEF NebKept, NebLeft
<1>2. I /\ J /\ [Next]_vars => J'
  <2>1. SUFFICES ASSUME I, J, [Next]_vars, solvermode' = "NEB" PROVE NebKept'
    OBVIOUS
  <2>2. CASE UNCHANGED vars
    <3>1. NebKept /\ disk' = disk /\ todo' = todo /\ phase' = phase /\ run' = run /\ at' = at
      BY <2>1, <2>2 DEF vars
    <3>2. Base' = Base /\ (NEB!SameSolver' <=> NEB!SameSolver)
      BY <3>1 DEF Base, Saving, NEB!SameSolver
    <3>3. NebLeft => NebLeft'
      BY <3>1, NebLeftSame
    <3>4. QED BY <3>1, <3>2, <3>3, NebThereSame DEF NebKept
  <2>3. CASE Next
    <3>1. NebInv /\ NebKept /\ NEB!Next
      BY <2>1, <2>3 DEF Next
    <3>2. CASE NEB!StartAfresh
      BY <3>2 DEF NebKept, NEB!StartAfresh
    <3>3. QED BY <3>1, <3>2, NebKeptSaves, NebKeptFileStep, NebKeptEnds, NebKeptRestart DEF NEB!Next
  <2>4. QED BY <2>1, <2>2, <2>3
<1>3. I /\ J => NEBRecordedIsNear
  <2>1. SUFFICES ASSUME NebInv, NebKept, NEB!SameSolver, NEB!IsWhole(NEB!StepChk), NEB!IsWhole(OldChk)
                 PROVE  \/ NEB!HasFiles(NEB!recorded)
                        \/ NEB!TwiceCut /\ NEB!recorded > 0 /\ NEB!HasFiles(NEB!recorded - 1)
    BY DEF NEBRecordedIsNear, NEB!RecordedIsNear, OldChk
  <2>2. PICK r \in 0..MaxUpdates : r = disk[OldChk].step
    BY <2>1, NebSteps, NebFileNames DEF NebInv
  <2>3. NEB!recorded = r
    BY <2>2 DEF NEB!recorded, OldChk
  <2>4. SUFFICES \/ NEB!HasFiles(r)
                 \/ NEB!TwiceCut /\ r > 0 /\ NEB!HasFiles(r - 1)
    BY <2>3
  <2>5. CASE disk[NEB!StepChk].run = disk[OldChk].run
    <3>1. NEB!Intact(r)
      BY <2>1, <2>2, <2>5 DEF NebInv, NebIntact
    <3>2. QED BY <3>1 DEF NEB!Intact, NEB!HasFiles, NEB!IsComplete, NEB!Exists, NEB!Absent
  <2>6. CASE \E b \in 0..MaxUpdates : NebThere(b) /\ NebNamed(b)
    <3>1. PICK b \in 0..MaxUpdates : NebThere(b) /\ NebNamed(b)
      BY <2>6
    <3>2. PICK c \in 0..MaxUpdates : c = disk[NEB!StepChk].step
      BY <2>1, NebSteps, NebFileNames DEF NebInv
    <3>3. r \in {b, b + 1} /\ c \in {b, b + 1} /\ r <= c /\ b \in Nat
      BY <2>1, <2>2, <3>1, <3>2, LaunchConstantsOK DEF NebNamed
    <3>4. CASE r = b
      BY <3>1, <3>4 DEF NebThere
    <3>5. CASE r = b + 1
      <4>1. c = r /\ r > 0 /\ b = r - 1
        BY <3>3, <3>5
      <4>2. NEB!TwiceCut \/ disk[NEB!StepChk].run = disk[OldChk].run
        BY <2>2, <3>2, <4>1 DEF NEB!TwiceCut, OldChk
      <4>3. QED BY <2>5, <3>1, <4>1, <4>2 DEF NebThere
    <3>6. QED BY <3>3, <3>4, <3>5
  <2>7. CASE phase # "running"
    BY <2>1, <2>5, <2>6, <2>7 DEF NebKept, NebLeft
  <2>8. CASE phase = "running" /\ run > 1
    <3>1. PICK b : b = Base
      OBVIOUS
    <3>2. b \in 0..MaxUpdates /\ NebThere(b) /\ NebNamed(b)
      BY <2>1, <2>8, <3>1 DEF NebInv, NebKept, NebThere, NebPlace, NebBase, NebNamed, Base
    <3>3. QED BY <2>6, <3>2
  <2>9. CASE phase = "running" /\ ~(run > 1)
    <3>1. run = 1
      BY <2>1, <2>9, NebSteps DEF NebInv
    <3>2. disk[NEB!StepChk].run \in 1..run /\ disk[OldChk].run \in 1..run
      BY <2>1 DEF NebInv, NebRecords
    <3>3. QED BY <2>5, <3>1, <3>2
  <2>10. QED BY <2>7, <2>8, <2>9
<1>4. QED BY <1>1, <1>2, <1>3, NebInvariance, PTL DEF Spec

\* NEBRecordsLeadBack: wherever the processes are killed, the step Step.chk and its old
\* file lead to has its files if one process wrote the two; and whichever wrote them, with
\* one solver, it or, after two deaths in its save, the one before has
\* (nudgedElasticBandClass::save and checkRestart).
THEOREM NEBLeadsBack == Spec => []NEBRecordsLeadBack
BY NEBRecordedStep, NEBRecordedNear, PTL DEF NEBRecordsLeadBack

-----------------------------------------------------------------------------
(***************************************************************************)
(* Molecular dynamics: the invariant.                                      *)
(***************************************************************************)
MdContents == MD!Contents(MaxTime)
MdOps == [do : {"write", "need", "copy"}, file : MD!Files, from : MD!Files, value : MdContents]

MdTypes ==
  /\ MD!TypeOK
  /\ phase = "off" => run = 0 /\ \A f \in MD!Files : disk[f] = MD!Absent
  /\ todo \in Seq(MdOps) /\ (phase # "running" => todo = <<>>)

\* The file that completes a step.
Completes(t) ==
  MD!In(t, IF MD!NoseHoover THEN "NHCThermostat" ELSE "UnwrappedFractionalCoordinates")

\* What the process still has to write is something, and of its present step or of none.
MdQueue ==
  \A i \in DOMAIN todo :
    /\ todo[i].do = "write" => todo[i].value.state # "absent"
    /\ \A t \in 2..MaxTime : todo[i].file \in MD!Resumed(t) => t = at.time

\* A write of time.chk is of the present step.
MdTime ==
  \A i \in DOMAIN todo : todo[i].file = MD!Time => todo[i].do = "write" /\ todo[i].value.step = at.time

\* Until the last file of the step is there, and nothing of the step is written after it.
MdOrder ==
  \A n \in 2..MaxTime : n = at.time =>
    /\ \A i \in DOMAIN todo : todo[i].file \in MD!Resumed(n) => ~MD!Exists(Completes(n))
    /\ \A i, j \in DOMAIN todo :
         todo[i].file = Completes(n) /\ todo[j].file \in MD!Resumed(n) => j <= i

\* The files a restart looks for, and time.chk, are there before the last one.
MdReady ==
  \A n \in 2..MaxTime : n = at.time =>
    \A i \in DOMAIN todo : todo[i].file = Completes(n) =>
      /\ \A f \in MD!Looked(n) \ {Completes(n)} :
           MD!Exists(f) \/ \E j \in 1..(i - 1) : todo[j].do = "write" /\ todo[j].file = f
      /\ \/ MD!IsWhole(MD!Time) => disk[MD!Time].step = n
         \/ \E j \in 1..(i - 1) : todo[j].file = MD!Time

\* A step that is complete is one that a restart finds.
MdFound ==
  \A t \in 2..MaxTime : MD!Exists(Completes(t)) =>
    /\ \A f \in MD!Looked(t) : MD!Exists(f)
    /\ MD!IsWhole(MD!Time) => t <= disk[MD!Time].step
    /\ phase = "running" => t <= at.time

MdInv == MdTypes /\ MdQueue /\ MdTime /\ MdOrder /\ MdReady /\ MdFound

\* The files of a step that a restart reads.
LEMMA MdNames ==
  ASSUME NEW t \in 2..MaxTime, NEW f \in MD!Resumed(t)
  PROVE  /\ f \in MD!Files /\ f # MD!Dat /\ f # MD!Time /\ f # MD!NHC
         /\ \A s : f # MD!In(s, "Displacement")
         /\ \A s, name : f = MD!In(s, name) => s = t
         /\ \A s \in 2..MaxTime : f \in MD!Resumed(s) => s = t
<1>1. ASSUME NEW s, NEW g \in MD!Resumed(s)
      PROVE  \E name \in MD!StepFiles : name # "Displacement" /\ g = MD!In(s, name)
  BY <1>1 DEF MD!Resumed, MD!StepFiles
<1>2. PICK name \in MD!StepFiles : name # "Displacement" /\ f = MD!In(t, name)
  BY <1>1
<1>3. t \in 0..MaxTime /\ t # 0
  BY LaunchConstantsOK
<1>4. f \in MD!Files
  BY <1>2, <1>3 DEF MD!Files
<1>5. f # MD!Dat /\ f # MD!Time /\ f # MD!NHC
  BY <1>2, <1>3 DEF MD!In, MD!Dat, MD!Time, MD!NHC
<1>6. \A s : f # MD!In(s, "Displacement")
  BY <1>2 DEF MD!In
<1>7. \A s, x : f = MD!In(s, x) => s = t
  BY <1>2 DEF MD!In
<1>8. \A s \in 2..MaxTime : f \in MD!Resumed(s) => s = t
  BY <1>1, <1>7
<1>9. QED BY <1>4, <1>5, <1>6, <1>7, <1>8

LEMMA MdCompletes ==
  \A t : Completes(t) \in MD!Resumed(t) /\ MD!Looked(t) \subseteq MD!Resumed(t)
BY DEF Completes, MD!Looked, MD!Resumed

LEMMA MdFileNames ==
  /\ MD!Dat \in MD!Files /\ MD!Time \in MD!Files /\ MD!NHC \in MD!Files
  /\ \A t \in 0..MaxTime, name \in MD!StepFiles : MD!In(t, name) \in MD!Files
  /\ \A f \in MD!Files : MD!Old(f) \notin MD!Files
<1>1. MD!Dat \in MD!Files /\ MD!Time \in MD!Files /\ MD!NHC \in MD!Files
  BY DEF MD!Files
<1>2. \A t \in 0..MaxTime, name \in MD!StepFiles : MD!In(t, name) \in MD!Files
  BY DEF MD!Files
<1>3. ASSUME NEW f \in MD!Files PROVE MD!Old(f) \notin MD!Files
  <2>1. ASSUME NEW g \in MD!Files PROVE Len(g) = 2
    BY DEF MD!Files, MD!Dat, MD!Time, MD!NHC, MD!In
  <2>2. Len(MD!Old(f)) = 3
    BY DEF MD!Old
  <2>3. QED BY <2>1, <2>2
<1>4. QED BY <1>1, <1>2, <1>3

LEMMA MdValues ==
  ASSUME NEW n \in 0..MaxTime, run \in 0..MaxRuns
  PROVE  /\ MD!Whole(n, run) \in MdContents /\ MD!Whole(n, run).state # "absent" /\ MD!Whole(n, run).step = n
         /\ MD!Computed(n) \in MdContents /\ MD!Computed(n).state # "absent"
         /\ MD!Torn \in MdContents /\ MD!Absent \in MdContents
<1>1. MD!Whole(n, run) \in MdContents
  BY LaunchConstantsOK DEF MdContents, MD!Contents, MD!Whole
<1>2. MD!Garbage \in MdContents
  BY LaunchConstantsOK DEF MdContents, MD!Contents, MD!Garbage
<1>3. MD!Torn \in MdContents
  BY LaunchConstantsOK DEF MdContents, MD!Contents, MD!Torn
<1>4. MD!Absent \in MdContents
  BY LaunchConstantsOK DEF MdContents, MD!Contents, MD!Absent
<1>5. MD!Computed(n) \in MdContents
  BY <1>1, <1>2 DEF MD!Computed
<1>6. MD!Computed(n).state # "absent"
  BY DEF MD!Computed, MD!Whole, MD!Garbage
<1>7. MD!Whole(n, run).state # "absent" /\ MD!Whole(n, run).step = n
  BY DEF MD!Whole
<1>8. QED BY <1>1, <1>3, <1>4, <1>5, <1>6, <1>7

\* The elements of one sequence after another.
LEMMA Joined ==
  ASSUME NEW S, NEW s \in Seq(S), NEW t \in Seq(S)
  PROVE  /\ s \o t \in Seq(S) /\ Len(s \o t) = Len(s) + Len(t)
         /\ \A i \in 1..Len(s) : (s \o t)[i] = s[i]
         /\ \A i \in 1..Len(t) : (s \o t)[Len(s) + i] = t[i]
<1>1. /\ s \o t \in Seq(S) /\ Len(s \o t) = Len(s) + Len(t)
      /\ \A i \in 1..(Len(s) + Len(t)) : (s \o t)[i] = IF i <= Len(s) THEN s[i] ELSE t[i - Len(s)]
  BY ConcatProperties
<1>2. Len(s) \in Nat /\ Len(t) \in Nat
  OBVIOUS
<1>3. \A i \in 1..Len(s) : (s \o t)[i] = s[i]
  BY <1>1, <1>2
<1>4. ASSUME NEW i \in 1..Len(t) PROVE (s \o t)[Len(s) + i] = t[i]
  <2>1. PICK k \in 1..(Len(s) + Len(t)) : k = Len(s) + i
    BY <1>2
  <2>2. ~(k <= Len(s)) /\ k - Len(s) = i
    BY <1>2, <2>1
  <2>3. QED BY <1>1, <2>1, <2>2
<1>5. QED BY <1>1, <1>3, <1>4

LEMMA JoinedOf ==
  ASSUME NEW S, NEW s \in Seq(S), NEW t \in Seq(S), NEW u, u = s \o t
  PROVE  /\ u \in Seq(S) /\ Len(u) = Len(s) + Len(t)
         /\ \A i \in 1..Len(s) : u[i] = s[i]
         /\ \A i \in 1..Len(t) : u[Len(s) + i] = t[i]
<1>1. /\ s \o t \in Seq(S) /\ Len(s \o t) = Len(s) + Len(t)
      /\ \A i \in 1..Len(s) : (s \o t)[i] = s[i]
      /\ \A i \in 1..Len(t) : (s \o t)[Len(s) + i] = t[i]
  BY Joined
<1>2. QED BY <1>1

\* What a save queues: operations of the step, of which the last file that a restart
\* reads completes it, after the files that a restart looks for and time.chk.
LEMMA MdSaveScript ==
  ASSUME NEW n \in 1..MaxTime, run \in 0..MaxRuns
  PROVE  LET q == MD!SaveScript(n) IN
         /\ q \in Seq(MdOps)
         /\ \A i \in 1..Len(q) :
              /\ q[i].do = "write" => q[i].value.state # "absent"
              /\ \A t \in 2..MaxTime : q[i].file \in MD!Resumed(t) => t = n
              /\ q[i].file = MD!Time => q[i].do = "write" /\ q[i].value.step = n
         /\ n >= 2 => \A i \in 1..Len(q) : q[i].file = Completes(n) =>
              /\ \A j \in 1..Len(q) : q[j].file \in MD!Resumed(n) => j <= i
              /\ \A f \in MD!Looked(n) \ {Completes(n)} :
                   \E j \in 1..(i - 1) : q[j].do = "write" /\ q[j].file = f
              /\ \E j \in 1..(i - 1) : q[j].file = MD!Time
<1> DEFINE Good == {o \in MdOps : /\ o.do = "write" => o.value.state # "absent"
                                  /\ \A t \in 2..MaxTime : o.file \in MD!Resumed(t) => t = n
                                  /\ o.file = MD!Time => o.do = "write" /\ o.value.step = n}
           dat  == MD!Write(MD!Dat, MD!Whole(n, run))
           time == MD!Write(MD!Time, MD!Whole(n, run))
           Of(name) == MD!Write(MD!In(n, name), MD!Computed(n))
           need == MD!Need(MD!In(n - 1, "Displacement"))
           thermo == MD!Write(MD!NHC, MD!Computed(n))
           copy == MD!Copy(MD!NHC, MD!In(n, "NHCThermostat"))
<1>1. /\ n \in 0..MaxTime /\ n - 1 \in 0..MaxTime /\ n \in Nat
      /\ MD!Dat \in MD!Files /\ MD!Time \in MD!Files /\ MD!NHC \in MD!Files
      /\ \A name \in MD!StepFiles : MD!In(n, name) \in MD!Files
      /\ MD!In(n - 1, "Displacement") \in MD!Files
  <2>1. n \in 0..MaxTime /\ n - 1 \in 0..MaxTime /\ n \in Nat /\ "Displacement" \in MD!StepFiles
    BY LaunchConstantsOK DEF MD!StepFiles
  <2>2. QED BY <2>1, MdFileNames
<1>2. /\ MD!Whole(n, run) \in MdContents /\ MD!Whole(n, run).state # "absent" /\ MD!Whole(n, run).step = n
      /\ MD!Computed(n) \in MdContents /\ MD!Computed(n).state # "absent" /\ MD!Absent \in MdContents
  BY <1>1, MdValues
<1>3. /\ \A f \in MD!Files, v \in MdContents : MD!Write(f, v) \in MdOps
      /\ \A f \in MD!Files : MD!Need(f) \in MdOps
      /\ \A f, g \in MD!Files : MD!Copy(g, f) \in MdOps
  BY <1>2 DEF MD!Write, MD!Need, MD!Copy, MdOps
<1>4. dat \in Good /\ time \in Good /\ thermo \in Good
  <2>1. /\ dat.file = MD!Dat /\ time.file = MD!Time /\ thermo.file = MD!NHC
        /\ dat.value = MD!Whole(n, run) /\ time.value = MD!Whole(n, run) /\ thermo.value = MD!Computed(n)
        /\ time.do = "write"
    BY DEF MD!Write
  <2>2. MD!Dat # MD!Time /\ MD!NHC # MD!Time
    BY DEF MD!Dat, MD!Time, MD!NHC
  <2>3. QED BY <1>1, <1>2, <1>3, <2>1, <2>2, MdNames
<1>5. \A name \in MD!StepFiles : MD!In(n, name) # MD!Time
  BY <1>1 DEF MD!In, MD!Time
<1>6. \A t \in 2..MaxTime : \A name : MD!In(n, name) \in MD!Resumed(t) => t = n
  <2>1. ASSUME NEW t \in 2..MaxTime, NEW name, NEW f \in MD!Resumed(t), f = MD!In(n, name)
        PROVE  t = n
    BY <2>1, MdNames
  <2>2. QED BY <2>1
<1>7. \A name \in MD!StepFiles : Of(name) \in Good
  <2>1. \A name : Of(name).file = MD!In(n, name) /\ Of(name).value = MD!Computed(n)
    BY DEF MD!Write
  <2>2. QED BY <1>1, <1>2, <1>3, <1>5, <1>6, <2>1
<1>8. copy \in Good /\ copy.file = MD!In(n, "NHCThermostat")
  <2>1. copy.do = "copy" /\ copy.file = MD!In(n, "NHCThermostat")
    BY DEF MD!Copy
  <2>2. "NHCThermostat" \in MD!StepFiles
    BY DEF MD!StepFiles
  <2>3. QED BY <1>1, <1>3, <1>5, <1>6, <2>1, <2>2
<1>9. need \in Good
  <2>1. need.do = "need" /\ need.file = MD!In(n - 1, "Displacement")
    BY DEF MD!Need
  <2>2. MD!In(n - 1, "Displacement") # MD!Time
    BY DEF MD!In, MD!Time
  <2>3. \A t \in 2..MaxTime : MD!In(n - 1, "Displacement") \notin MD!Resumed(t)
    BY MdNames
  <2>4. QED BY <1>1, <1>3, <2>1, <2>2, <2>3
<1> DEFINE p1 == <<dat, time>>
           p2 == <<Of("KineticEnergy")>>
           p3 == <<Of("domainBoundingVectors"), Of("atomsCoord")>>
           p4 == <<Of("velocity"), Of("StepDisplacement"), Of("UnwrappedFractionalCoordinates"), time>>
           p5 == <<thermo, copy>>
           p6 == <<need, Of("Displacement")>>
           a == MD!Always(n)
           b == MD!AfterTheFirst(n)
           c == MD!Thermostat(n)
           d == MD!Displacements(n)
           qa == p1 \o a
           qb == qa \o b
           qc == qb \o c
           q == qc \o d
<1>10. /\ p1 \in Seq(Good) /\ p2 \in Seq(Good) /\ p3 \in Seq(Good)
       /\ p4 \in Seq(Good) /\ p5 \in Seq(Good) /\ p6 \in Seq(Good) /\ <<>> \in Seq(Good)
  <2> HIDE DEF Good, dat, time, Of, need, thermo, copy
  <2>1. \A name \in {"KineticEnergy", "domainBoundingVectors", "atomsCoord", "velocity",
                     "StepDisplacement", "UnwrappedFractionalCoordinates", "Displacement"} : Of(name) \in Good
    BY <1>7 DEF MD!StepFiles
  <2>2. QED BY <1>4, <1>8, <1>9, <2>1
<1>11. /\ a = p2 \o p3 /\ b = (IF n > 1 THEN p4 ELSE <<>>) /\ d = p6
       /\ c = (IF MD!NoseHoover /\ at.folder = "." THEN p5 ELSE <<>>)
       /\ MD!SaveScript(n) = q
  BY DEF MD!Always, MD!AfterTheFirst, MD!Displacements, MD!Thermostat, MD!Geometry, MD!SaveScript
<1>12. /\ p1[1] = dat /\ p1[2] = time /\ Len(p1) = 2
       /\ p2[1] = Of("KineticEnergy") /\ Len(p2) = 1
       /\ p3[1] = Of("domainBoundingVectors") /\ p3[2] = Of("atomsCoord") /\ Len(p3) = 2
       /\ p4[1] = Of("velocity") /\ p4[2] = Of("StepDisplacement")
       /\ p4[3] = Of("UnwrappedFractionalCoordinates") /\ p4[4] = time /\ Len(p4) = 4
       /\ p5[1] = thermo /\ p5[2] = copy /\ Len(p5) = 2
       /\ p6[1] = need /\ p6[2] = Of("Displacement") /\ Len(p6) = 2
  OBVIOUS
<1>13. qa = p1 \o a /\ qb = qa \o b /\ qc = qb \o c /\ q = qc \o d
  OBVIOUS
<1>14. d = p6
  BY <1>11
<1> HIDE DEF p1, p2, p3, p4, p5, p6, a, b, c, d, qa, qb, qc, q
<1>15. a \in Seq(Good) /\ b \in Seq(Good) /\ c \in Seq(Good) /\ d \in Seq(Good)
  <2> HIDE DEF Good
  <2>1. a \in Seq(Good)
    BY <1>10, <1>11, Joined
  <2>2. QED BY <1>10, <1>11, <2>1
<1>16. q \in Seq(Good)
  <2> HIDE DEF Good
  <2>1. qa \in Seq(Good)
    BY <1>10, <1>15, Joined DEF qa
  <2>2. qb \in Seq(Good)
    BY <1>15, <2>1, Joined DEF qb
  <2>3. qc \in Seq(Good)
    BY <1>15, <2>2, Joined DEF qc
  <2>4. QED BY <1>15, <2>3, Joined DEF q
<1>17. /\ q \in Seq(MdOps)
       /\ \A i \in 1..Len(q) :
              /\ q[i].do = "write" => q[i].value.state # "absent"
              /\ \A t \in 2..MaxTime : q[i].file \in MD!Resumed(t) => t = n
              /\ q[i].file = MD!Time => q[i].do = "write" /\ q[i].value.step = n
  <2>1. \A i \in 1..Len(q) : q[i] \in Good
    BY <1>16
  <2>2. q \in Seq(MdOps)
    <3>1. Good \subseteq MdOps
      OBVIOUS
    <3> HIDE DEF Good
    <3>2. QED BY <1>16, <3>1
  <2>3. QED BY <2>1, <2>2
<1>18. ASSUME n >= 2
       PROVE  /\ qb \in Seq(Good) /\ Len(qb) = 9
              /\ qb[1] = dat /\ qb[2] = time /\ qb[3] = Of("KineticEnergy")
              /\ qb[4] = Of("domainBoundingVectors") /\ qb[5] = Of("atomsCoord") /\ qb[6] = Of("velocity")
              /\ qb[7] = Of("StepDisplacement") /\ qb[8] = Of("UnwrappedFractionalCoordinates") /\ qb[9] = time
  <2> HIDE DEF Good, dat, time, Of
  <2>1. b = p4
    BY <1>1, <1>11, <1>18
  <2>2. Len(a) = 3 /\ a[1] = Of("KineticEnergy") /\ a[2] = Of("domainBoundingVectors") /\ a[3] = Of("atomsCoord")
    <3>1. /\ Len(a) = 1 + 2 /\ \A i \in 1..1 : a[i] = p2[i] /\ \A j \in 1..2 : a[1 + j] = p3[j]
      BY <1>10, <1>11, <1>12, Joined
    <3>2. a[1] = p2[1] /\ a[1 + 1] = p3[1] /\ a[1 + 2] = p3[2]
      BY <3>1
    <3>3. QED BY <1>12, <3>1, <3>2
  <2>3. /\ qa \in Seq(Good) /\ Len(qa) = 5 /\ qa[1] = dat /\ qa[2] = time
        /\ qa[3] = Of("KineticEnergy") /\ qa[4] = Of("domainBoundingVectors") /\ qa[5] = Of("atomsCoord")
    <3>1. /\ qa \in Seq(Good) /\ Len(qa) = 2 + 3 /\ \A i \in 1..2 : qa[i] = p1[i]
          /\ \A j \in 1..3 : qa[2 + j] = a[j]
      <4>1. p1 \in Seq(Good) /\ a \in Seq(Good) /\ qa = p1 \o a
        BY <1>13, <1>10, <1>15
      <4>2. /\ qa \in Seq(Good) /\ Len(qa) = Len(p1) + Len(a)
            /\ \A i \in 1..Len(p1) : qa[i] = p1[i]
            /\ \A j \in 1..Len(a) : qa[Len(p1) + j] = a[j]
        BY <4>1, JoinedOf
      <4>3. Len(p1) = 2 /\ Len(a) = 3
        BY <1>12, <2>2
      <4>4. QED BY <4>2, <4>3
    <3>2. qa[1] = p1[1] /\ qa[2] = p1[2] /\ qa[2 + 1] = a[1] /\ qa[2 + 2] = a[2] /\ qa[2 + 3] = a[3]
      BY <3>1
    <3>3. QED BY <1>12, <2>2, <3>1, <3>2
  <2>4. /\ qb \in Seq(Good) /\ Len(qb) = 5 + 4 /\ \A i \in 1..5 : qb[i] = qa[i]
        /\ \A j \in 1..4 : qb[5 + j] = p4[j]
    <3>1. qa \in Seq(Good) /\ p4 \in Seq(Good) /\ qb = qa \o p4
      BY <1>13, <1>10, <2>1, <2>3
    <3>2. /\ qb \in Seq(Good) /\ Len(qb) = Len(qa) + Len(p4)
          /\ \A i \in 1..Len(qa) : qb[i] = qa[i]
          /\ \A j \in 1..Len(p4) : qb[Len(qa) + j] = p4[j]
      BY <3>1, JoinedOf
    <3>3. Len(qa) = 5 /\ Len(p4) = 4
      BY <1>12, <2>3
    <3>4. QED BY <3>2, <3>3
  <2>5. /\ qb[1] = qa[1] /\ qb[2] = qa[2] /\ qb[3] = qa[3] /\ qb[4] = qa[4] /\ qb[5] = qa[5]
        /\ qb[5 + 1] = p4[1] /\ qb[5 + 2] = p4[2] /\ qb[5 + 3] = p4[3] /\ qb[5 + 4] = p4[4]
    BY <2>4
  <2>6. QED BY <1>12, <2>3, <2>4, <2>5
<1>19. ASSUME n >= 2
       PROVE  /\ \A i \in 1..9 : q[i] = qb[i]
              /\ \A i \in 1..Len(q) : i > 9 =>
                   \/ q[i] = need \/ q[i] = Of("Displacement")
                   \/ MD!NoseHoover /\ (q[i] = thermo \/ (i = 11 /\ q[i] = copy))
  <2> HIDE DEF Good, dat, time, Of, need, thermo, copy
  <2>1. CASE MD!NoseHoover /\ at.folder = "."
    <3>1. c = p5
      BY <1>11, <2>1
    <3>2. /\ qc \in Seq(Good) /\ Len(qc) = 9 + 2 /\ \A i \in 1..9 : qc[i] = qb[i]
          /\ \A j \in 1..2 : qc[9 + j] = p5[j]
      <4>1. qb \in Seq(Good) /\ p5 \in Seq(Good) /\ qc = qb \o p5
        BY <1>13, <1>10, <1>18, <1>19, <3>1
      <4>2. /\ qc \in Seq(Good) /\ Len(qc) = Len(qb) + Len(p5)
            /\ \A i \in 1..Len(qb) : qc[i] = qb[i]
            /\ \A j \in 1..Len(p5) : qc[Len(qb) + j] = p5[j]
        BY <4>1, JoinedOf
      <4>3. Len(qb) = 9 /\ Len(p5) = 2
        BY <1>12, <1>18, <1>19
      <4>4. QED BY <4>2, <4>3
    <3>3. /\ Len(q) = 11 + 2 /\ \A i \in 1..11 : q[i] = qc[i] /\ \A j \in 1..2 : q[11 + j] = p6[j]
      <4>1. qc \in Seq(Good) /\ p6 \in Seq(Good) /\ q = qc \o p6
        BY <1>13, <1>14, <1>10, <3>2
      <4>2. /\ q \in Seq(Good) /\ Len(q) = Len(qc) + Len(p6)
            /\ \A i \in 1..Len(qc) : q[i] = qc[i]
            /\ \A j \in 1..Len(p6) : q[Len(qc) + j] = p6[j]
        BY <4>1, JoinedOf
      <4>3. Len(qc) = 11 /\ Len(p6) = 2
        BY <1>12, <3>2
      <4>4. QED BY <4>2, <4>3
    <3>4. q[10] = thermo /\ q[11] = copy /\ q[12] = need /\ q[13] = Of("Displacement")
      <4>1. qc[9 + 1] = p5[1] /\ qc[9 + 2] = p5[2] /\ q[11 + 1] = p6[1] /\ q[11 + 2] = p6[2]
            /\ q[10] = qc[10] /\ q[11] = qc[11]
        BY <3>2, <3>3
      <4>2. QED BY <1>12, <4>1
    <3>5. \A i \in 1..9 : q[i] = qb[i]
      BY <3>2, <3>3
    <3>6. \A i \in 1..Len(q) : i > 9 => i = 10 \/ i = 11 \/ i = 12 \/ i = 13
      BY <3>3
    <3>7. ASSUME NEW i \in 1..Len(q), i > 9
          PROVE  \/ q[i] = need \/ q[i] = Of("Displacement")
                 \/ MD!NoseHoover /\ (q[i] = thermo \/ (i = 11 /\ q[i] = copy))
      <4>1. i = 10 \/ i = 11 \/ i = 12 \/ i = 13
        BY <3>6, <3>7
      <4>2. CASE i = 10
        BY <2>1, <3>4, <4>2
      <4>3. CASE i = 11
        BY <2>1, <3>4, <4>3
      <4>4. CASE i = 12 \/ i = 13
        BY <3>4, <4>4
      <4>5. QED BY <4>1, <4>2, <4>3, <4>4
    <3>8. QED BY <3>5, <3>7
  <2>2. CASE ~(MD!NoseHoover /\ at.folder = ".")
    <3>1. c = <<>> /\ Len(<<>>) = 0
      BY <1>11, <2>2
    <3>2. /\ qc \in Seq(Good) /\ Len(qc) = 9 + 0 /\ \A i \in 1..9 : qc[i] = qb[i]
      <4>1. qb \in Seq(Good) /\ c \in Seq(Good) /\ qc = qb \o c
        BY <1>13, <1>15, <1>18, <1>19
      <4>2. /\ qc \in Seq(Good) /\ Len(qc) = Len(qb) + Len(c)
            /\ \A i \in 1..Len(qb) : qc[i] = qb[i]
            /\ \A j \in 1..Len(c) : qc[Len(qb) + j] = c[j]
        BY <4>1, JoinedOf
      <4>3. Len(qb) = 9 /\ Len(c) = 0
        BY <1>18, <1>19, <3>1
      <4>4. QED BY <4>2, <4>3
    <3>3. /\ Len(q) = 9 + 2 /\ \A i \in 1..9 : q[i] = qc[i] /\ \A j \in 1..2 : q[9 + j] = p6[j]
      <4>1. qc \in Seq(Good) /\ p6 \in Seq(Good) /\ q = qc \o p6
        BY <1>13, <1>14, <1>10, <3>2
      <4>2. /\ q \in Seq(Good) /\ Len(q) = Len(qc) + Len(p6)
            /\ \A i \in 1..Len(qc) : q[i] = qc[i]
            /\ \A j \in 1..Len(p6) : q[Len(qc) + j] = p6[j]
        BY <4>1, JoinedOf
      <4>3. Len(qc) = 9 /\ Len(p6) = 2
        BY <1>12, <3>2
      <4>4. QED BY <4>2, <4>3
    <3>4. q[10] = need /\ q[11] = Of("Displacement")
      <4>1. q[9 + 1] = p6[1] /\ q[9 + 2] = p6[2]
        BY <3>3
      <4>2. QED BY <1>12, <4>1
    <3>5. \A i \in 1..9 : q[i] = qb[i]
      BY <3>2, <3>3
    <3>6. \A i \in 1..Len(q) : i > 9 => i \in {10, 11}
      BY <3>3
    <3>7. QED BY <3>4, <3>5, <3>6
  <2>3. QED BY <2>1, <2>2
<1>20. ASSUME n >= 2, NEW i \in 1..Len(q), q[i].file = Completes(n)
       PROVE  /\ \A j \in 1..Len(q) : q[j].file \in MD!Resumed(n) => j <= i
              /\ \A f \in MD!Looked(n) \ {Completes(n)} :
                   \E j \in 1..(i - 1) : q[j].do = "write" /\ q[j].file = f
              /\ \E j \in 1..(i - 1) : q[j].file = MD!Time
  <2>1. /\ \A name : Of(name).do = "write" /\ Of(name).file = MD!In(n, name)
        /\ dat.file = MD!Dat /\ time.file = MD!Time /\ thermo.file = MD!NHC
        /\ need.file = MD!In(n - 1, "Displacement") /\ copy.file = MD!In(n, "NHCThermostat")
    BY DEF MD!Write, MD!Need, MD!Copy
  <2> HIDE DEF dat, time, Of, need, thermo, copy
  <2>2. /\ n \in 2..MaxTime
        /\ \A f \in MD!Resumed(n) : f \notin {MD!Dat, MD!Time, MD!NHC, MD!In(n - 1, "Displacement"), MD!In(n, "Displacement")}
    BY <1>20, MdNames
  <2>3. Completes(n) \in MD!Resumed(n)
    BY MdCompletes
  <2>4. \A x, y : MD!In(n, x) = MD!In(n, y) => x = y
    BY DEF MD!In
  <2>5. \A j \in 1..Len(q) : q[j].file \in MD!Resumed(n) => j \in 1..8 \/ (MD!NoseHoover /\ j = 11)
    <3>1. SUFFICES ASSUME NEW j \in 1..Len(q), q[j].file \in MD!Resumed(n), j \notin 1..8
                   PROVE  MD!NoseHoover /\ j = 11
      OBVIOUS
    <3>2. Len(q) \in Nat /\ (j = 9 \/ j > 9)
      BY <1>16, <3>1
    <3>3. j # 9
      BY <1>18, <1>19, <1>20, <2>1, <2>2, <3>1
    <3>4. q[j] = need \/ q[j] = Of("Displacement") \/ (MD!NoseHoover /\ (q[j] = thermo \/ (j = 11 /\ q[j] = copy)))
      BY <1>19, <1>20, <3>1, <3>2, <3>3
    <3>5. QED BY <2>1, <2>2, <3>1, <3>4
  <2>6. /\ q[2].file = MD!Time /\ q[5].file = MD!In(n, "atomsCoord") /\ q[5].do = "write"
        /\ q[6].file = MD!In(n, "velocity") /\ q[6].do = "write"
    BY <1>18, <1>19, <1>20, <2>1
  <2>7. i = IF MD!NoseHoover THEN 11 ELSE 8
    <3>1. CASE MD!NoseHoover
      <4>1. Completes(n) = MD!In(n, "NHCThermostat")
        BY <3>1 DEF Completes
      <4>2. i \notin 1..8
        <5>1. SUFFICES ASSUME i \in 1..8 PROVE FALSE
          OBVIOUS
        <5>2. i \in {1, 2, 3, 4, 5, 6, 7, 8} /\ q[i] = qb[i]
          BY <1>19, <1>20, <5>1
        <5>3. QED BY <1>18, <1>20, <2>1, <2>2, <2>3, <2>4, <4>1, <5>2
      <4>3. QED BY <1>20, <2>3, <2>5, <3>1, <4>2
    <3>2. CASE ~MD!NoseHoover
      <4>1. Completes(n) = MD!In(n, "UnwrappedFractionalCoordinates")
        BY <3>2 DEF Completes
      <4>2. i \in 1..8
        BY <1>20, <2>3, <2>5, <3>2
      <4>3. i \in {1, 2, 3, 4, 5, 6, 7, 8} /\ q[i] = qb[i]
        BY <1>19, <1>20, <4>2
      <4>4. QED BY <1>18, <1>20, <2>1, <2>2, <2>3, <2>4, <3>2, <4>1, <4>3
    <3>3. QED BY <3>1, <3>2
  <2>8. \A j \in 1..Len(q) : q[j].file \in MD!Resumed(n) => j <= i
    BY <2>5, <2>7
  <2>9. \A f \in MD!Looked(n) \ {Completes(n)} : f = MD!In(n, "atomsCoord") \/ f = MD!In(n, "velocity")
    BY DEF MD!Looked, Completes
  <2>10. 2 \in 1..(i - 1) /\ 5 \in 1..(i - 1) /\ 6 \in 1..(i - 1)
    BY <2>7
  <2>11. QED BY <2>6, <2>8, <2>9, <2>10
<1>21. QED
  <2> HIDE DEF Good
  <2>1. QED BY <1>11, <1>17, <1>20

(***************************************************************************)
(* The steps of the dynamics.                                              *)
(***************************************************************************)
\* What the thermostat alone decides.
LEMMA MdSameThermostat ==
  ASSUME at'.thermostat = at.thermostat
  PROVE  \A t : Completes(t)' = Completes(t) /\ MD!Looked(t)' = MD!Looked(t) /\ MD!Resumed(t)' = MD!Resumed(t)
BY DEF Completes, MD!Looked, MD!Resumed, MD!NoseHoover

LEMMA MdQueued ==
  ASSUME todo \in Seq(MdOps), todo # <<>>
  PROVE  /\ DOMAIN todo = 1..Len(todo) /\ Len(todo) \in Nat \ {0} /\ 1 \in DOMAIN todo
         /\ Head(todo) = todo[1] /\ todo[1] \in MdOps
         /\ Tail(todo) \in Seq(MdOps) /\ DOMAIN Tail(todo) = 1..(Len(todo) - 1)
         /\ \A i \in DOMAIN Tail(todo) : i + 1 \in DOMAIN todo /\ Tail(todo)[i] = todo[i + 1]
         /\ \A i \in DOMAIN todo : i # 1 => i - 1 \in DOMAIN Tail(todo) /\ Tail(todo)[i - 1] = todo[i]
<1>1. /\ DOMAIN todo = 1..Len(todo) /\ Len(todo) \in Nat \ {0} /\ Head(todo) = todo[1]
      /\ Tail(todo) \in Seq(MdOps) /\ Len(Tail(todo)) = Len(todo) - 1
      /\ \A i \in 1..(Len(todo) - 1) : Tail(todo)[i] = todo[i + 1]
  OBVIOUS
<1>2. DOMAIN Tail(todo) = 1..(Len(todo) - 1)
  BY <1>1
<1>3. 1 \in DOMAIN todo /\ todo[1] \in MdOps
  BY <1>1
<1>4. ASSUME NEW i \in DOMAIN todo, i # 1
      PROVE  i - 1 \in DOMAIN Tail(todo) /\ Tail(todo)[i - 1] = todo[i]
  <2>1. PICK k \in 1..(Len(todo) - 1) : k = i - 1
    BY <1>1, <1>4
  <2>2. k + 1 = i
    BY <1>1, <2>1
  <2>3. QED BY <1>1, <1>2, <2>1, <2>2
<1>5. ASSUME NEW i \in DOMAIN Tail(todo)
      PROVE  i + 1 \in DOMAIN todo /\ Tail(todo)[i] = todo[i + 1]
  BY <1>1, <1>2, <1>5
<1>6. QED BY <1>1, <1>2, <1>3, <1>4, <1>5

\* A file operation leaves the disk alone, moves the old file away, or fills the file.
LEMMA MdFileStep ==
  ASSUME MdTypes, MD!FileStep
  PROVE  /\ phase = "running" /\ todo # <<>> /\ run' = run /\ at' = at /\ todo[1].file \in MD!Files
         /\ \/ disk' = disk /\ todo' = Tail(todo) /\ phase' = phase /\ todo[1].do # "write"
            \/ disk' = disk /\ todo' = <<>> /\ phase' = "exited"
            \/ /\ todo' = todo /\ phase' = phase /\ todo[1].do = "write"
               /\ disk' = [disk EXCEPT ![todo[1].file] = MD!Absent]
            \/ /\ todo' = Tail(todo) /\ phase' = phase
               /\ \E v \in MdContents : /\ disk' = [disk EXCEPT ![todo[1].file] = v]
                                        /\ todo[1].do = "write" => v = todo[1].value
                                        /\ todo[1].do # "write" => v # MD!Absent
<1>1. phase = "running" /\ todo # <<>> /\ run' = run /\ at' = at
  BY DEF MD!FileStep
<1>2. PICK o : o = Head(todo)
  OBVIOUS
<1>3. o = todo[1] /\ o \in MdOps
  BY <1>1, <1>2, MdQueued DEF MdTypes
<1>4. o.file \in MD!Files /\ o.from \in MD!Files /\ o.value \in MdContents
  BY <1>3 DEF MdOps
<1>5. disk \in [MD!Files -> MdContents]
  BY DEF MdTypes, MD!TypeOK, MdContents
<1>6. \/ o.do = "write" /\ MD!WriteFile(o)
      \/ o.do = "need" /\ MD!ReadFile(o)
      \/ o.do = "copy" /\ MD!CopyFile(o)
  BY <1>2 DEF MD!FileStep
<1>7. CASE o.do = "write" /\ MD!WriteFile(o)
  <2>1. CASE MD!Exists(o.file)
    <3>1. /\ todo' = todo /\ phase' = phase
          /\ disk' = [f \in DOMAIN disk |-> CASE f = o.file -> MD!Absent
                                              [] f = MD!Old(o.file) -> disk[o.file]
                                              [] OTHER -> disk[f]]
      BY <1>7, <2>1 DEF MD!WriteFile
    <3>2. MD!Old(o.file) \notin MD!Files
      BY <1>4, MdFileNames
    <3>3. disk' = [disk EXCEPT ![o.file] = MD!Absent]
      BY <1>4, <1>5, <3>1, <3>2
    <3>4. QED BY <1>1, <1>3, <1>4, <1>7, <3>1, <3>3
  <2>2. CASE ~MD!Exists(o.file)
    <3>1. todo' = Tail(todo) /\ phase' = phase /\ disk' = [disk EXCEPT ![o.file] = o.value]
      BY <1>7, <2>2 DEF MD!WriteFile
    <3>2. QED BY <1>1, <1>3, <1>4, <1>7, <3>1
  <2>3. QED BY <2>1, <2>2
<1>8. CASE o.do = "need" /\ MD!ReadFile(o)
  <2>1. disk' = disk /\ ((todo' = Tail(todo) /\ phase' = phase) \/ (todo' = <<>> /\ phase' = "exited"))
    BY <1>8 DEF MD!ReadFile
  <2>2. QED BY <1>1, <1>3, <1>4, <1>8, <2>1
<1>9. CASE o.do = "copy" /\ MD!CopyFile(o)
  <2>1. /\ todo' = Tail(todo) /\ phase' = phase
        /\ disk' = IF MD!Exists(o.from) THEN [disk EXCEPT ![o.file] = disk[o.from]] ELSE disk
    BY <1>9 DEF MD!CopyFile
  <2>2. CASE MD!Exists(o.from)
    <3>1. disk[o.from] \in MdContents /\ disk[o.from] # MD!Absent
      BY <1>4, <1>5, <2>2 DEF MD!Exists
    <3>2. QED BY <1>1, <1>3, <1>4, <1>9, <2>1, <2>2, <3>1
  <2>3. CASE ~MD!Exists(o.from)
    BY <1>1, <1>3, <1>4, <1>9, <2>1, <2>3
  <2>4. QED BY <2>2, <2>3
<1>10. QED BY <1>6, <1>7, <1>8, <1>9

\* What the files say of the steps stays true when the pending file is filled, or torn.
LEMMA MdPuts ==
  ASSUME MdInv, phase = "running", todo # <<>>, at' = at, NEW v \in MdContents, v # MD!Absent,
         disk' = [disk EXCEPT ![todo[1].file] = v],
         todo[1].file = MD!Time => v.state # "whole" \/ v.step = at.time
  PROVE  MdFound'
<1> USE DEF MdInv
<1>1. PICK h : h = todo[1].file
  OBVIOUS
<1>2. /\ disk \in [MD!Files -> MdContents] /\ at.time \in Nat
      /\ 1 \in DOMAIN todo /\ h \in MD!Files
  BY <1>1, MdQueued DEF MdTypes, MD!TypeOK, MdContents, MdOps
<1>3. /\ MD!Exists(h)' /\ disk'[h] = v
      /\ \A f \in MD!Files \ {h} : disk'[f] = disk[f] /\ (MD!Exists(f)' <=> MD!Exists(f))
      /\ \A f \in MD!Files : MD!Exists(f) => MD!Exists(f)'
  BY <1>1, <1>2 DEF MD!Exists
<1>4. ASSUME NEW t \in 2..MaxTime, MD!Exists(Completes(t))'
      PROVE  /\ \A f \in MD!Looked(t) : MD!Exists(f)'
             /\ MD!IsWhole(MD!Time)' => t <= disk'[MD!Time].step
             /\ t <= at.time
  <2>1. /\ Completes(t) \in MD!Files /\ Completes(t) # MD!Time /\ Completes(t) \in MD!Resumed(t)
        /\ \A f \in MD!Looked(t) : f \in MD!Files
    BY MdNames, MdCompletes
  <2>2. MD!Time \in MD!Files
    BY MdFileNames
  <2>3. CASE h = Completes(t)
    <3>1. t = at.time
      BY <1>1, <1>2, <2>1, <2>3 DEF MdQueue
    <3>2. /\ \A f \in MD!Looked(t) \ {Completes(t)} :
               MD!Exists(f) \/ \E j \in 1..(1 - 1) : todo[j].do = "write" /\ todo[j].file = f
          /\ \/ MD!IsWhole(MD!Time) => disk[MD!Time].step = t
             \/ \E j \in 1..(1 - 1) : todo[j].file = MD!Time
      <4>1. PICK i \in DOMAIN todo : i = 1
        BY <1>2
      <4>2. todo[i].file = Completes(t)
        BY <1>1, <2>3, <4>1
      <4>3. /\ \A f \in MD!Looked(t) \ {Completes(t)} :
                 MD!Exists(f) \/ \E j \in 1..(i - 1) : todo[j].do = "write" /\ todo[j].file = f
            /\ \/ MD!IsWhole(MD!Time) => disk[MD!Time].step = t
               \/ \E j \in 1..(i - 1) : todo[j].file = MD!Time
        BY <3>1, <4>2 DEF MdReady
      <4>4. QED BY <4>1, <4>3
    <3>3. \A f \in MD!Looked(t) \ {h} : MD!Exists(f)
      BY <2>3, <3>2
    <3>4. MD!IsWhole(MD!Time) => disk[MD!Time].step = t
      BY <3>2
    <3>5. disk'[MD!Time] = disk[MD!Time]
      BY <1>3, <2>1, <2>2, <2>3
    <3>6. MD!IsWhole(MD!Time)' => disk'[MD!Time].step = t
      BY <3>4, <3>5 DEF MD!IsWhole
    <3>7. QED BY <1>3, <2>1, <3>1, <3>3, <3>6
  <2>4. CASE h # Completes(t)
    <3>1. /\ \A f \in MD!Looked(t) : MD!Exists(f)
          /\ MD!IsWhole(MD!Time) => t <= disk[MD!Time].step
          /\ t <= at.time
      <4>1. Completes(t)' = Completes(t)
        BY MdSameThermostat
      <4>2. MD!Exists(Completes(t))
        BY <1>3, <1>4, <2>1, <2>4, <4>1 DEF MD!Exists
      <4>3. QED BY <4>2 DEF MdFound
    <3>2. MD!IsWhole(MD!Time)' => t <= disk'[MD!Time].step
      <4>1. CASE h = MD!Time
        <5>1. MD!IsWhole(MD!Time)' => v.step = at.time
          BY <1>1, <1>3, <4>1 DEF MD!IsWhole
        <5>2. QED BY <1>3, <3>1, <4>1, <5>1
      <4>2. CASE h # MD!Time
        <5>1. disk'[MD!Time] = disk[MD!Time]
          BY <1>3, <2>2, <4>2
        <5>2. QED BY <3>1, <5>1 DEF MD!IsWhole
      <4>3. QED BY <4>1, <4>2
    <3>3. QED BY <1>3, <2>1, <3>1, <3>2
  <2>5. QED BY <2>3, <2>4
<1>5. \A t : Completes(t)' = Completes(t) /\ MD!Looked(t)' = MD!Looked(t)
  BY MdSameThermostat
<1>6. QED BY <1>4, <1>5 DEF MdFound, MD!Exists

\* The disk as it is.
LEMMA MdSameDisk ==
  ASSUME MdFound, disk' = disk, at'.thermostat = at.thermostat,
         phase' = "running" => \A t \in 2..MaxTime : MD!Exists(Completes(t)) => t <= at'.time
  PROVE  MdFound'
<1>1. \A t : Completes(t)' = Completes(t) /\ MD!Looked(t)' = MD!Looked(t)
  BY MdSameThermostat
<1>2. \A t \in 2..MaxTime : MD!Exists(Completes(t)) =>
        /\ \A f \in MD!Looked(t) : MD!Exists(f)
        /\ MD!IsWhole(MD!Time) => t <= disk'[MD!Time].step
  BY DEF MdFound
<1>3. QED BY <1>1, <1>2 DEF MdFound, MD!Exists, MD!IsWhole

\* A process that has nothing to write.
LEMMA MdIdle ==
  ASSUME MdTypes, todo' = <<>>, run' = run, disk' \in [MD!Files -> MdContents],
         phase' \in {"running", "done", "crashed", "exited"},
         at' = at
  PROVE  MdTypes' /\ MdQueue' /\ MdTime' /\ MdOrder' /\ MdReady'
<1>1. MdTypes'
  BY DEF MdTypes, MD!TypeOK, MdContents
<1>2. QED BY <1>1 DEF MdQueue, MdTime, MdOrder, MdReady

\* The first file operation is done: the others are as before.
LEMMA MdPops ==
  ASSUME MdInv, phase = "running", todo # <<>>, todo' = Tail(todo), phase' = phase, run' = run, at' = at,
         disk' \in [MD!Files -> MdContents],
         \A f \in MD!Files \ {todo[1].file} : disk'[f] = disk[f],
         todo[1].do # "write" => (MD!Exists(todo[1].file) => disk'[todo[1].file] # MD!Absent),
         todo[1].do = "write" => disk'[todo[1].file] = todo[1].value
  PROVE  MdTypes' /\ MdQueue' /\ MdTime' /\ MdOrder' /\ MdReady'
<1> USE DEF MdInv
<1>1. PICK h : h = todo[1].file
  OBVIOUS
<1>2. /\ disk \in [MD!Files -> MdContents] /\ at.time \in Nat /\ todo \in Seq(MdOps)
      /\ 1 \in DOMAIN todo /\ h \in MD!Files
      /\ \A i \in DOMAIN todo' : i + 1 \in DOMAIN todo /\ todo'[i] = todo[i + 1]
      /\ \A i \in DOMAIN todo : i # 1 => i - 1 \in DOMAIN todo' /\ todo'[i - 1] = todo[i]
      /\ DOMAIN todo = 1..Len(todo) /\ DOMAIN todo' = 1..(Len(todo) - 1) /\ Len(todo) \in Nat
      /\ todo' \in Seq(MdOps)
  BY <1>1, MdQueued DEF MdTypes, MD!TypeOK, MdContents, MdOps
<1>3. MdTypes'
  BY <1>2 DEF MdTypes, MD!TypeOK, MdContents
<1>4. MdQueue' /\ MdTime'
  <2>1. \A t : MD!Resumed(t)' = MD!Resumed(t)
    BY MdSameThermostat
  <2>2. MdQueue'
    BY <1>2, <2>1 DEF MdQueue
  <2>3. MdTime'
    BY <1>2 DEF MdTime
  <2>4. QED BY <2>2, <2>3
<1>5. MD!Exists(h) => MD!Exists(h)'
  <2>1. todo[1].do = "write" => disk'[h] # MD!Absent
    BY <1>1, <1>2 DEF MdQueue, MD!Absent
  <2>2. QED BY <1>1, <2>1 DEF MD!Exists
<1>6. \A f \in MD!Files \ {h} : MD!Exists(f)' <=> MD!Exists(f)
  BY <1>1 DEF MD!Exists
<1>7. ASSUME NEW n \in 2..MaxTime, n = at.time
      PROVE  /\ \A i \in DOMAIN todo' : todo'[i].file \in MD!Resumed(n) => ~MD!Exists(Completes(n))'
             /\ \A i, j \in DOMAIN todo' :
                  todo'[i].file = Completes(n) /\ todo'[j].file \in MD!Resumed(n) => j <= i
  <2>1. Completes(n) \in MD!Files /\ Completes(n)' = Completes(n)
    BY MdNames, MdCompletes, MdSameThermostat
  <2>2. ASSUME NEW i \in DOMAIN todo', todo'[i].file \in MD!Resumed(n)
        PROVE  ~MD!Exists(Completes(n))'
    <3>1. i + 1 \in DOMAIN todo /\ todo[i + 1].file \in MD!Resumed(n)
      BY <1>2, <2>2
    <3>2. ~MD!Exists(Completes(n))
      BY <1>7, <3>1 DEF MdOrder
    <3>3. h # Completes(n)
      <4>1. h = Completes(n) => i + 1 <= 1
        BY <1>1, <1>2, <1>7, <3>1 DEF MdOrder
      <4>2. ~(i + 1 <= 1)
        BY <1>2
      <4>3. QED BY <4>1, <4>2
    <3>4. disk'[Completes(n)] = disk[Completes(n)]
      BY <1>1, <2>1, <3>3
    <3>5. QED BY <2>1, <3>2, <3>4 DEF MD!Exists
  <2>3. ASSUME NEW i \in DOMAIN todo', NEW j \in DOMAIN todo',
               todo'[i].file = Completes(n), todo'[j].file \in MD!Resumed(n)
        PROVE  j <= i
    <3>1. j + 1 <= i + 1
      BY <1>2, <1>7, <2>3 DEF MdOrder
    <3>2. QED BY <1>2, <3>1
  <2>4. QED BY <2>2, <2>3
<1>8. MdOrder'
  BY <1>7, MdSameThermostat DEF MdOrder
<1>9. ASSUME NEW n \in 2..MaxTime, n = at.time, NEW i \in DOMAIN todo', todo'[i].file = Completes(n)
      PROVE  /\ \A f \in MD!Looked(n) \ {Completes(n)} :
                  MD!Exists(f)' \/ \E j \in 1..(i - 1) : todo'[j].do = "write" /\ todo'[j].file = f
             /\ \/ MD!IsWhole(MD!Time)' => disk'[MD!Time].step = n
                \/ \E j \in 1..(i - 1) : todo'[j].file = MD!Time
  <2>1. i + 1 \in DOMAIN todo /\ todo[i + 1].file = Completes(n) /\ i \in Nat /\ (i + 1) - 1 = i
    BY <1>2, <1>9
  <2>2. \A j \in 1..i : j # 1 => j - 1 \in 1..(i - 1) /\ todo'[j - 1] = todo[j]
    <3>1. ASSUME NEW j \in 1..i, j # 1 PROVE j - 1 \in 1..(i - 1) /\ todo'[j - 1] = todo[j]
      <4>1. j \in DOMAIN todo
        BY <1>2, <2>1, <3>1
      <4>2. QED BY <1>2, <2>1, <3>1, <4>1
    <3>2. QED BY <3>1
  <2>3. ASSUME NEW f \in MD!Looked(n) \ {Completes(n)}
        PROVE  MD!Exists(f)' \/ \E j \in 1..(i - 1) : todo'[j].do = "write" /\ todo'[j].file = f
    <3>1. f \in MD!Files
      BY <1>9, <2>3, MdNames, MdCompletes
    <3>2. MD!Exists(f) \/ \E j \in 1..i : todo[j].do = "write" /\ todo[j].file = f
      BY <1>9, <2>1 DEF MdReady
    <3>3. CASE MD!Exists(f)
      BY <1>5, <1>6, <3>1, <3>3
    <3>4. CASE \E j \in 1..i : todo[j].do = "write" /\ todo[j].file = f
      <4>1. PICK j \in 1..i : todo[j].do = "write" /\ todo[j].file = f
        BY <3>4
      <4>2. CASE j = 1
        <5>1. disk'[f] = todo[1].value
          BY <4>1, <4>2
        <5>2. QED BY <1>2, <4>1, <4>2, <5>1 DEF MdQueue, MD!Exists, MD!Absent
      <4>3. CASE j # 1
        BY <2>2, <4>1, <4>3
      <4>4. QED BY <4>2, <4>3
    <3>5. QED BY <3>2, <3>3, <3>4
  <2>4. \/ MD!IsWhole(MD!Time)' => disk'[MD!Time].step = n
        \/ \E j \in 1..(i - 1) : todo'[j].file = MD!Time
    <3>1. (MD!IsWhole(MD!Time) => disk[MD!Time].step = n) \/ \E j \in 1..i : todo[j].file = MD!Time
      BY <1>9, <2>1 DEF MdReady
    <3>2. CASE h = MD!Time
      <4>1. todo[1].do = "write" /\ todo[1].value.step = n
        BY <1>1, <1>2, <1>9, <3>2 DEF MdTime
      <4>2. QED BY <1>1, <3>2, <4>1
    <3>3. CASE h # MD!Time
      <4>1. disk'[MD!Time] = disk[MD!Time]
        BY <1>1, <3>3, MdFileNames
      <4>2. CASE MD!IsWhole(MD!Time) => disk[MD!Time].step = n
        BY <4>1, <4>2 DEF MD!IsWhole
      <4>3. CASE \E j \in 1..i : todo[j].file = MD!Time
        <5>1. PICK j \in 1..i : todo[j].file = MD!Time
          BY <4>3
        <5>2. j # 1
          BY <1>1, <3>3, <5>1
        <5>3. QED BY <2>2, <5>1, <5>2
      <4>4. QED BY <3>1, <4>2, <4>3
    <3>4. QED BY <3>2, <3>3
  <2>5. QED BY <2>3, <2>4
<1>10. MdReady'
  BY <1>9, MdSameThermostat DEF MdReady
<1>11. QED BY <1>3, <1>4, <1>8, <1>10

LEMMA MdMoves ==
  ASSUME MdInv, phase = "running", todo # <<>>, todo[1].do = "write",
         disk' = [disk EXCEPT ![todo[1].file] = MD!Absent],
         todo' = todo, phase' = phase, run' = run, at' = at
  PROVE  MdInv'
<1> USE DEF MdInv
<1>1. PICK h : h = todo[1].file
  OBVIOUS
<1>2. /\ disk \in [MD!Files -> MdContents] /\ at.time \in Nat /\ MD!Absent \in MdContents
      /\ 1 \in DOMAIN todo /\ h \in MD!Files /\ DOMAIN todo = 1..Len(todo) /\ Len(todo) \in Nat
  <2>1. MD!Absent \in MdContents
    BY LaunchConstantsOK DEF MdContents, MD!Contents, MD!Absent
  <2>2. QED BY <1>1, <2>1, MdQueued DEF MdTypes, MD!TypeOK, MdContents, MdOps
<1>3. /\ ~MD!Exists(h)' /\ ~MD!IsWhole(h)'
      /\ \A f \in MD!Files \ {h} : /\ disk'[f] = disk[f]
                                   /\ MD!Exists(f)' <=> MD!Exists(f)
                                   /\ MD!IsWhole(f)' <=> MD!IsWhole(f)
  BY <1>1, <1>2 DEF MD!Exists, MD!IsWhole, MD!Absent
<1>4. MdTypes' /\ MdQueue' /\ MdTime'
  <2>1. \A t : MD!Resumed(t)' = MD!Resumed(t)
    BY MdSameThermostat
  <2>2. MdTypes'
    BY <1>1, <1>2 DEF MdTypes, MD!TypeOK, MdContents
  <2>3. QED BY <2>1, <2>2 DEF MdQueue, MdTime
<1>5. MdOrder'
  <2>1. ASSUME NEW n \in 2..MaxTime, ~MD!Exists(Completes(n)) PROVE ~MD!Exists(Completes(n))'
    <3>1. Completes(n)' = Completes(n) /\ Completes(n) \in MD!Files
      BY MdSameThermostat, MdNames, MdCompletes
    <3>2. QED BY <1>3, <2>1, <3>1 DEF MD!Exists
  <2>2. QED BY <2>1, MdSameThermostat DEF MdOrder
<1>6. ASSUME NEW n \in 2..MaxTime, n = at.time, NEW i \in DOMAIN todo, todo[i].file = Completes(n)
      PROVE  /\ \A f \in MD!Looked(n) \ {Completes(n)} :
                  MD!Exists(f)' \/ \E j \in 1..(i - 1) : todo[j].do = "write" /\ todo[j].file = f
             /\ \/ MD!IsWhole(MD!Time)' => disk'[MD!Time].step = n
                \/ \E j \in 1..(i - 1) : todo[j].file = MD!Time
  <2>1. ASSUME NEW f \in MD!Looked(n) \ {Completes(n)}
        PROVE  MD!Exists(f)' \/ \E j \in 1..(i - 1) : todo[j].do = "write" /\ todo[j].file = f
    <3>1. f \in MD!Files
      BY <1>6, <2>1, MdNames, MdCompletes
    <3>2. MD!Exists(f) \/ \E j \in 1..(i - 1) : todo[j].do = "write" /\ todo[j].file = f
      BY <1>6 DEF MdReady
    <3>3. CASE f = h
      <4>1. i # 1
        BY <1>1, <1>6, <2>1, <3>3
      <4>2. 1 \in 1..(i - 1)
        BY <1>2, <4>1
      <4>3. QED BY <1>1, <3>3, <4>2
    <3>4. CASE f # h
      BY <1>3, <3>1, <3>2, <3>4
    <3>5. QED BY <3>3, <3>4
  <2>2. \/ MD!IsWhole(MD!Time)' => disk'[MD!Time].step = n
        \/ \E j \in 1..(i - 1) : todo[j].file = MD!Time
    <3>1. (MD!IsWhole(MD!Time) => disk[MD!Time].step = n) \/ \E j \in 1..(i - 1) : todo[j].file = MD!Time
      BY <1>6 DEF MdReady
    <3>2. CASE h = MD!Time
      BY <1>3, <3>2
    <3>3. CASE h # MD!Time
      BY <1>3, <3>1, <3>3, MdFileNames
    <3>4. QED BY <3>2, <3>3
  <2>3. QED BY <2>1, <2>2
<1>7. MdReady'
  BY <1>6, MdSameThermostat DEF MdReady
<1>8. ASSUME NEW t \in 2..MaxTime, MD!Exists(Completes(t))'
      PROVE  /\ \A f \in MD!Looked(t) : MD!Exists(f)'
             /\ MD!IsWhole(MD!Time)' => t <= disk'[MD!Time].step
             /\ phase = "running" => t <= at.time
  <2>1. /\ Completes(t) \in MD!Files /\ Completes(t)' = Completes(t)
        /\ \A f \in MD!Looked(t) : f \in MD!Files /\ f \in MD!Resumed(t)
    BY MdNames, MdCompletes, MdSameThermostat
  <2>2. MD!Exists(Completes(t))
    BY <1>3, <1>8, <2>1 DEF MD!Exists
  <2>3. /\ \A f \in MD!Looked(t) : MD!Exists(f)
        /\ MD!IsWhole(MD!Time) => t <= disk[MD!Time].step
        /\ phase = "running" => t <= at.time
    BY <2>2 DEF MdFound
  <2>4. h \notin MD!Resumed(t)
    <3>1. SUFFICES ASSUME h \in MD!Resumed(t) PROVE FALSE
      OBVIOUS
    <3>2. t = at.time
      BY <1>1, <1>2, <3>1 DEF MdQueue
    <3>3. QED BY <1>1, <1>2, <2>2, <3>1, <3>2 DEF MdOrder
  <2>5. MD!IsWhole(MD!Time)' => t <= disk'[MD!Time].step
    BY <1>3, <2>3, MdFileNames
  <2>6. QED BY <1>3, <2>1, <2>3, <2>4, <2>5
<1>9. MdFound'
  BY <1>8, MdSameThermostat DEF MdFound
<1>10. QED BY <1>4, <1>5, <1>7, <1>9

LEMMA MdFileStepKeeps ==
  ASSUME MdInv, MD!FileStep
  PROVE  MdInv'
<1> USE DEF MdInv
<1>1. /\ phase = "running" /\ todo # <<>> /\ run' = run /\ at' = at /\ todo[1].file \in MD!Files
      /\ \/ disk' = disk /\ todo' = Tail(todo) /\ phase' = phase /\ todo[1].do # "write"
         \/ disk' = disk /\ todo' = <<>> /\ phase' = "exited"
         \/ /\ todo' = todo /\ phase' = phase /\ todo[1].do = "write"
            /\ disk' = [disk EXCEPT ![todo[1].file] = MD!Absent]
         \/ /\ todo' = Tail(todo) /\ phase' = phase
            /\ \E v \in MdContents : /\ disk' = [disk EXCEPT ![todo[1].file] = v]
                                     /\ todo[1].do = "write" => v = todo[1].value
                                     /\ todo[1].do # "write" => v # MD!Absent
  BY MdFileStep
<1>2. /\ disk \in [MD!Files -> MdContents] /\ 1 \in DOMAIN todo
      /\ \A t \in 2..MaxTime : MD!Exists(Completes(t)) => t <= at.time
  <2>1. disk \in [MD!Files -> MdContents] /\ 1 \in DOMAIN todo
    BY <1>1, MdQueued DEF MdTypes, MD!TypeOK, MdContents
  <2>2. QED BY <1>1, <2>1 DEF MdFound
<1>3. CASE disk' = disk /\ todo' = Tail(todo) /\ phase' = phase /\ todo[1].do # "write"
  <2>1. MdFound'
    BY <1>1, <1>2, <1>3, MdSameDisk
  <2>2. MdTypes' /\ MdQueue' /\ MdTime' /\ MdOrder' /\ MdReady'
    BY <1>1, <1>2, <1>3, MdPops DEF MD!Exists
  <2>3. QED BY <2>1, <2>2
<1>4. CASE disk' = disk /\ todo' = <<>> /\ phase' = "exited"
  <2>1. MdFound'
    BY <1>1, <1>2, <1>4, MdSameDisk
  <2>2. MdTypes' /\ MdQueue' /\ MdTime' /\ MdOrder' /\ MdReady'
    BY <1>1, <1>2, <1>4, MdIdle
  <2>3. QED BY <2>1, <2>2
<1>5. CASE /\ todo' = todo /\ phase' = phase /\ todo[1].do = "write"
           /\ disk' = [disk EXCEPT ![todo[1].file] = MD!Absent]
  BY <1>1, <1>5, MdMoves
<1>6. CASE /\ todo' = Tail(todo) /\ phase' = phase
           /\ \E v \in MdContents : /\ disk' = [disk EXCEPT ![todo[1].file] = v]
                                    /\ todo[1].do = "write" => v = todo[1].value
                                    /\ todo[1].do # "write" => v # MD!Absent
  <2>1. PICK v \in MdContents : /\ disk' = [disk EXCEPT ![todo[1].file] = v]
                                /\ todo[1].do = "write" => v = todo[1].value
                                /\ todo[1].do # "write" => v # MD!Absent
    BY <1>6
  <2>2. v # MD!Absent
    BY <1>2, <2>1 DEF MdQueue, MD!Absent
  <2>3. todo[1].file = MD!Time => v.state # "whole" \/ v.step = at.time
    BY <1>2, <2>1 DEF MdTime
  <2>4. MdFound'
    BY <1>1, <2>1, <2>2, <2>3, MdPuts
  <2>5. /\ disk' \in [MD!Files -> MdContents] /\ disk'[todo[1].file] = v
        /\ \A f \in MD!Files \ {todo[1].file} : disk'[f] = disk[f]
    BY <1>1, <1>2, <2>1
  <2>6. MdTypes' /\ MdQueue' /\ MdTime' /\ MdOrder' /\ MdReady'
    BY <1>1, <1>6, <2>1, <2>2, <2>5, MdPops
  <2>7. QED BY <2>4, <2>6
<1>7. QED BY <1>1, <1>3, <1>4, <1>5, <1>6

\* The process is killed, and may leave the file it writes torn.
LEMMA MdCrash ==
  ASSUME MdInv, MD!Crash
  PROVE  MdInv'
<1> USE DEF MdInv
<1>1. /\ phase = "running" /\ phase' = "crashed" /\ todo' = <<>> /\ run' = run /\ at' = at
      /\ \/ disk' = disk
         \/ todo # <<>> /\ disk' = [disk EXCEPT ![Head(todo).file] = MD!Torn]
  BY DEF MD!Crash, MdTypes, MD!TypeOK
<1>2. /\ disk \in [MD!Files -> MdContents] /\ MD!Torn \in MdContents
  <2>1. MD!Torn \in MdContents
    BY LaunchConstantsOK DEF MdContents, MD!Contents, MD!Torn
  <2>2. disk \in [MD!Files -> MdContents]
    BY DEF MdTypes, MD!TypeOK, MdContents
  <2>3. QED BY <2>1, <2>2
<1>3. CASE disk' = disk
  <2>1. MdFound'
    BY <1>1, <1>3, MdSameDisk
  <2>2. MdTypes' /\ MdQueue' /\ MdTime' /\ MdOrder' /\ MdReady'
    BY <1>1, <1>2, <1>3, MdIdle
  <2>3. QED BY <2>1, <2>2
<1>4. CASE todo # <<>> /\ disk' = [disk EXCEPT ![Head(todo).file] = MD!Torn]
  <2>1. Head(todo) = todo[1] /\ todo[1].file \in MD!Files
    BY <1>4, MdQueued DEF MdTypes, MdOps
  <2>2. disk' = [disk EXCEPT ![todo[1].file] = MD!Torn] /\ disk' \in [MD!Files -> MdContents]
    BY <1>2, <1>4, <2>1
  <2>3. MD!Torn # MD!Absent /\ MD!Torn.state # "whole"
    BY DEF MD!Torn, MD!Absent
  <2>4. MdFound'
    BY <1>1, <1>2, <1>4, <2>2, <2>3, MdPuts
  <2>5. MdTypes' /\ MdQueue' /\ MdTime' /\ MdOrder' /\ MdReady'
    BY <1>1, <1>2, <2>2, MdIdle
  <2>6. QED BY <2>4, <2>5
<1>5. QED BY <1>1, <1>3, <1>4

LEMMA MdFinish ==
  ASSUME MdInv, MD!Finish
  PROVE  MdInv'
<1> USE DEF MdInv
<1>1. /\ phase = "running" /\ todo = <<>> /\ phase' = "done"
      /\ disk' = disk /\ todo' = todo /\ run' = run /\ at' = at
  BY DEF MD!Finish
<1>2. disk \in [MD!Files -> MdContents]
  BY DEF MdTypes, MD!TypeOK, MdContents
<1>3. MdFound'
  BY <1>1, MdSameDisk
<1>4. MdTypes' /\ MdQueue' /\ MdTime' /\ MdOrder' /\ MdReady'
  BY <1>1, <1>2, MdIdle
<1>5. QED BY <1>3, <1>4

LEMMA MdStartAfresh ==
  ASSUME MdInv, MD!StartAfresh
  PROVE  MdInv'
<1> USE DEF MdInv
<1> DEFINE w == MD!Write(MD!In(0, "Displacement"), MD!Whole(0, 1))
<1>1. /\ phase = "off" /\ run = 0 /\ \A f \in MD!Files : disk[f] = MD!Absent
      /\ disk' = disk /\ phase' = "running" /\ run' = 1
      /\ at' = [at EXCEPT !.time = 0, !.start = 0] /\ todo' = <<w>>
  BY DEF MD!StartAfresh, MdTypes
<1>2. 0 \in 0..MaxTime /\ 1 \in 0..MaxRuns
  BY LaunchConstantsOK
<1>3. at' \in [time : 0..MaxTime, start : 0..MaxTime, thermostat : Thermostats, folder : Folders]
      /\ at'.time = 0 /\ at'.thermostat = at.thermostat
  BY <1>1, <1>2 DEF MdTypes, MD!TypeOK
<1>4. /\ w \in MdOps /\ w.file = MD!In(0, "Displacement") /\ w.do = "write" /\ w.value.state # "absent"
      /\ w.file # MD!Time /\ \A t \in 2..MaxTime : w.file \notin MD!Resumed(t)
  <2>1. MD!Whole(0, 1) \in MdContents /\ MD!Whole(0, 1).state # "absent"
    BY <1>2, LaunchConstantsOK DEF MdContents, MD!Contents, MD!Whole
  <2>2. "Displacement" \in MD!StepFiles
    BY DEF MD!StepFiles
  <2>3. MD!In(0, "Displacement") \in MD!Files
    BY <1>2, <2>2, MdFileNames
  <2>4. w \in MdOps /\ w.file = MD!In(0, "Displacement") /\ w.do = "write" /\ w.value = MD!Whole(0, 1)
    BY <2>1, <2>3 DEF MdOps, MD!Write
  <2>5. MD!In(0, "Displacement") # MD!Time
    BY DEF MD!In, MD!Time
  <2>6. \A t \in 2..MaxTime : MD!In(0, "Displacement") \notin MD!Resumed(t)
    BY MdNames
  <2>7. QED BY <2>1, <2>4, <2>5, <2>6
<1> HIDE DEF w
<1>5. DOMAIN todo' = {1} /\ todo'[1] = w /\ todo' \in Seq(MdOps)
  BY <1>1, <1>4
<1>6. MdTypes'
  BY <1>1, <1>2, <1>3, <1>5 DEF MdTypes, MD!TypeOK
<1>7. MdQueue' /\ MdTime'
  <2>1. \A t : MD!Resumed(t)' = MD!Resumed(t)
    BY <1>3, MdSameThermostat
  <2>2. QED BY <1>4, <1>5, <2>1 DEF MdQueue, MdTime
<1>8. MdOrder' /\ MdReady'
  BY <1>3 DEF MdOrder, MdReady
<1>9. MdFound'
  <2>1. \A t \in 2..MaxTime : ~MD!Exists(Completes(t))
    BY <1>1, MdNames, MdCompletes DEF MD!Exists
  <2>2. QED BY <1>1, <1>3, <2>1, MdSameDisk
<1>10. QED BY <1>6, <1>7, <1>8, <1>9

LEMMA MdTimeStep ==
  ASSUME MdInv, MD!TimeStep
  PROVE  MdInv'
<1> USE DEF MdInv
<1>1. /\ phase = "running" /\ at.time < MaxTime /\ disk' = disk /\ phase' = phase /\ run' = run
      /\ at' = [at EXCEPT !.time = @ + 1] /\ todo' = MD!SaveScript(at.time + 1)
  BY DEF MD!TimeStep
<1>2. /\ at \in [time : 0..MaxTime, start : 0..MaxTime, thermostat : Thermostats, folder : Folders]
      /\ run \in 0..MaxRuns
  BY DEF MdTypes, MD!TypeOK
<1>3. PICK n \in 1..MaxTime : n = at.time + 1
  BY <1>1, <1>2, LaunchConstantsOK
<1>4. at' = [at EXCEPT !.time = n]
  BY <1>1, <1>3
<1>5. /\ at' \in [time : 0..MaxTime, start : 0..MaxTime, thermostat : Thermostats, folder : Folders]
      /\ at'.time = n /\ at'.thermostat = at.thermostat
  <2>1. n \in 0..MaxTime
    OBVIOUS
  <2>2. QED BY <1>2, <1>4, <2>1
<1>6. /\ \A t : /\ Completes(t)' = Completes(t)
                /\ MD!Looked(t)' = MD!Looked(t)
                /\ MD!Resumed(t)' = MD!Resumed(t)
  BY <1>5, MdSameThermostat
<1> DEFINE q == MD!SaveScript(n)
<1>7. /\ q \in Seq(MdOps)
      /\ \A i \in 1..Len(q) :
           /\ q[i].do = "write" => q[i].value.state # "absent"
           /\ \A t \in 2..MaxTime : q[i].file \in MD!Resumed(t) => t = n
           /\ q[i].file = MD!Time => q[i].do = "write" /\ q[i].value.step = n
      /\ n >= 2 => \A i \in 1..Len(q) : q[i].file = Completes(n) =>
           /\ \A j \in 1..Len(q) : q[j].file \in MD!Resumed(n) => j <= i
           /\ \A f \in MD!Looked(n) \ {Completes(n)} :
                \E j \in 1..(i - 1) : q[j].do = "write" /\ q[j].file = f
           /\ \E j \in 1..(i - 1) : q[j].file = MD!Time
  BY <1>2, MdSaveScript
<1>8. todo' = q
  BY <1>1, <1>3
<1> HIDE DEF q
<1>9. DOMAIN q = 1..Len(q)
  BY <1>7
<1>10. MdTypes'
  BY <1>1, <1>5, <1>7, <1>8 DEF MdTypes, MD!TypeOK
<1>11. MdQueue' /\ MdTime'
  <2>1. MdQueue'
    BY <1>5, <1>6, <1>7, <1>8, <1>9 DEF MdQueue
  <2>2. MdTime'
    BY <1>5, <1>7, <1>8, <1>9 DEF MdTime
  <2>3. QED BY <2>1, <2>2
<1>12. \A t \in 2..MaxTime : MD!Exists(Completes(t)) => t <= at.time
  BY <1>1 DEF MdFound
<1>13. MdOrder'
  <2>1. n \in 2..MaxTime => ~MD!Exists(Completes(n))'
    BY <1>1, <1>2, <1>3, <1>6, <1>12 DEF MD!Exists
  <2>2. QED BY <1>5, <1>6, <1>7, <1>8, <1>9, <2>1 DEF MdOrder
<1>14. MdReady'
  BY <1>5, <1>6, <1>7, <1>8, <1>9 DEF MdReady
<1>15. MdFound'
  <2>1. \A t \in 2..MaxTime : MD!Exists(Completes(t)) => t <= at'.time
    BY <1>2, <1>3, <1>5, <1>12
  <2>2. QED BY <1>1, <1>5, <2>1, MdSameDisk
<1>16. QED BY <1>10, <1>11, <1>13, <1>14, <1>15

(***************************************************************************)
(* A restart of the dynamics.                                              *)
(***************************************************************************)
\* checkRestart goes back to a step that has the files it looks for, and to none below
\* another such one.
LEMMA MdCheckRestart ==
  ASSUME NEW r \in 0..MaxTime
  PROVE  /\ MD!checkRestart(r) \in 0..MaxTime
         /\ \A t \in 2..r : (\A f \in MD!Looked(t) : MD!Exists(f)) => t <= MD!checkRestart(r)
<1> DEFINE found == {t \in 2..r : \A f \in MD!Looked(t) : MD!Exists(f)}
<1>0. r \in Nat /\ MaxTime \in Nat
  BY LaunchConstantsOK
<1>1. CASE found = {}
  <2>1. MD!checkRestart(r) = IF r < 1 THEN r ELSE 1
    BY <1>1 DEF MD!checkRestart
  <2>2. QED BY <1>0, <1>1, <2>1
<1>2. CASE found # {}
  <2>1. MD!checkRestart(r) = CHOOSE t \in found : \A u \in found : u <= t
    BY <1>2 DEF MD!checkRestart
  <2>2. \E t \in found : \A u \in found : u <= t
    <3>1. found \in SUBSET (0..r)
      BY <1>0
    <3>2. QED BY <1>0, <1>2, <3>1, GreatestOf
  <2>3. MD!checkRestart(r) \in found /\ \A u \in found : u <= MD!checkRestart(r)
    BY <2>1, <2>2
  <2>4. QED BY <1>0, <2>3
<1>3. QED BY <1>1, <1>2

\* A restart goes on with the newest step that is complete, or with a later one.
LEMMA MdResumes ==
  ASSUME MdTypes, MdFound, MD!Restart
  PROVE  \/ /\ phase' = "exited" /\ disk' = disk /\ todo' = todo /\ at' = at
         \/ /\ phase' = "running" /\ disk' = disk /\ todo' = todo
            /\ \E n \in 0..MaxTime : /\ at' = [at EXCEPT !.time = n, !.start = n]
                                     /\ \A t \in 2..MaxTime : MD!Exists(Completes(t)) => t <= n
<1>1. PICK r : r = disk[MD!Time].step
  OBVIOUS
<1>2. PICK n : n = MD!checkRestart(r)
  OBVIOUS
<1>3. \/ MD!Exits
      \/ /\ MD!IsWhole(MD!Time) /\ phase' = "running"
         /\ at' = [at EXCEPT !.time = n, !.start = n] /\ disk' = disk /\ todo' = todo
  BY <1>1, <1>2 DEF MD!Restart
<1>4. CASE MD!Exits
  BY <1>4 DEF MD!Exits
<1>5. CASE /\ MD!IsWhole(MD!Time) /\ phase' = "running"
           /\ at' = [at EXCEPT !.time = n, !.start = n] /\ disk' = disk /\ todo' = todo
  <2>1. r \in 0..MaxTime
    BY <1>1, MdFileNames DEF MdTypes, MD!TypeOK, MD!Contents
  <2>2. n \in 0..MaxTime
    BY <1>2, <2>1, MdCheckRestart
  <2>3. ASSUME NEW t \in 2..MaxTime, MD!Exists(Completes(t)) PROVE t <= n
    <3>1. t <= r /\ \A f \in MD!Looked(t) : MD!Exists(f)
      BY <1>1, <1>5, <2>3 DEF MdFound
    <3>2. t \in 2..r
      BY <2>1, <3>1
    <3>3. QED BY <1>2, <2>1, <3>1, <3>2, MdCheckRestart
  <2>4. QED BY <1>5, <2>2, <2>3
<1>6. QED BY <1>3, <1>4, <1>5

LEMMA MdRestart ==
  ASSUME MdInv, MD!Restart
  PROVE  MdInv'
<1> USE DEF MdInv
<1>1. /\ phase \in {"crashed", "done"} /\ todo = <<>> /\ run' = run + 1 /\ run < MaxRuns
      /\ run \in 0..MaxRuns
      /\ at \in [time : 0..MaxTime, start : 0..MaxTime, thermostat : Thermostats, folder : Folders]
  <2>1. phase \in {"crashed", "done"} /\ run' = run + 1 /\ run < MaxRuns
    BY DEF MD!Restart
  <2>2. QED BY <2>1 DEF MdTypes, MD!TypeOK
<1>2. run' \in 0..MaxRuns
  BY <1>1, LaunchConstantsOK
<1>3. /\ phase' \in {"running", "exited"} /\ disk' = disk /\ todo' = todo
      /\ at' \in [time : 0..MaxTime, start : 0..MaxTime, thermostat : Thermostats, folder : Folders]
      /\ at'.thermostat = at.thermostat
      /\ phase' = "running" => \A t \in 2..MaxTime : MD!Exists(Completes(t)) => t <= at'.time
  BY <1>1, MdResumes
<1>4. MdTypes'
  BY <1>1, <1>2, <1>3 DEF MdTypes, MD!TypeOK
<1>5. MdQueue' /\ MdTime' /\ MdOrder' /\ MdReady'
  BY <1>1, <1>3 DEF MdQueue, MdTime, MdOrder, MdReady
<1>6. MdFound'
  BY <1>3, MdSameDisk
<1>7. QED BY <1>4, <1>5, <1>6

LEMMA MdNext ==
  ASSUME MdInv, MD!Next
  PROVE  MdInv'
BY MdStartAfresh, MdTimeStep, MdFileStepKeeps, MdFinish, MdCrash, MdRestart DEF MD!Next

LEMMA MdStutter ==
  ASSUME MdInv, disk' = disk, todo' = todo, phase' = phase, run' = run, at' = at
  PROVE  MdInv'
<1> USE DEF MdInv
<1>1. /\ \A t : Completes(t)' = Completes(t) /\ MD!Looked(t)' = MD!Looked(t)
      /\ \A t : MD!Resumed(t)' = MD!Resumed(t)
  BY MdSameThermostat
<1>2. MdTypes'
  BY DEF MdTypes, MD!TypeOK
<1>3. MdQueue' /\ MdTime'
  BY <1>1 DEF MdQueue, MdTime
<1>4. MdOrder'
  BY <1>1 DEF MdOrder, MD!Exists
<1>5. MdReady'
  BY <1>1 DEF MdReady, MD!Exists, MD!IsWhole
<1>6. MdFound'
  <2>1. phase' = "running" => \A t \in 2..MaxTime : MD!Exists(Completes(t)) => t <= at'.time
    BY DEF MdFound
  <2>2. QED BY <2>1, MdSameDisk
<1>7. QED BY <1>2, <1>3, <1>4, <1>5, <1>6

LEMMA MdStarts ==
  ASSUME MD!Init
  PROVE  MdInv
<1>1. disk = [f \in MD!Files |-> MD!Absent] /\ todo = <<>> /\ phase = "off" /\ run = 0
  BY DEF MD!Init
<1>2. MdTypes
  <2>1. MD!Absent \in MD!Contents(MaxTime)
    BY LaunchConstantsOK DEF MD!Contents, MD!Absent
  <2>2. 0 \in 0..MaxTime /\ 0 \in 0..MaxRuns
    BY LaunchConstantsOK
  <2>3. at \in [time : 0..MaxTime, start : 0..MaxTime, thermostat : Thermostats, folder : Folders]
    BY <2>2 DEF MD!Init
  <2>4. <<>> \in Seq(MdOps)
    OBVIOUS
  <2>5. QED BY <1>1, <2>1, <2>2, <2>3, <2>4 DEF MdTypes, MD!TypeOK
<1>3. MdQueue /\ MdTime /\ MdOrder /\ MdReady
  BY <1>1 DEF MdQueue, MdTime, MdOrder, MdReady
<1>4. MdFound
  BY <1>1, MdNames, MdCompletes DEF MdFound, MD!Exists
<1>5. QED BY <1>2, <1>3, <1>4 DEF MdInv

\* MdInv holds throughout.
THEOREM MdInvariance == Spec => [](solvermode = "MD" => MdInv)
<1> DEFINE I == solvermode = "MD" => MdInv
<1>1. Init => I
  BY MdStarts DEF Init
<1>2. I /\ [Next]_vars => I'
  <2>1. SUFFICES ASSUME I, [Next]_vars PROVE I'
    OBVIOUS
  <2>2. SUFFICES ASSUME solvermode' = "MD" PROVE MdInv'
    OBVIOUS
  <2>3. CASE UNCHANGED vars
    BY <2>1, <2>2, <2>3, MdStutter DEF vars
  <2>4. CASE Next
    <3>1. MdInv /\ MD!Next
      BY <2>1, <2>2, <2>4 DEF Next
    <3>2. QED BY <3>1, MdNext
  <2>5. QED BY <2>1, <2>3, <2>4
<1>3. QED BY <1>1, <1>2, PTL DEF Spec

\* What a complete step has.
LEMMA MdIntact ==
  ASSUME NEW t \in 2..MaxTime, MD!Intact(t)
  PROVE  MD!Exists(Completes(t))
<1>1. MD!IsWhole(Completes(t))
  BY MdCompletes DEF MD!Intact
<1>2. QED BY <1>1 DEF MD!IsWhole, MD!Exists, MD!Absent

\* No pending file is one of a complete step.
LEMMA MdLeavesAlone ==
  ASSUME MdInv, todo # <<>>, NEW t \in 2..MaxTime, MD!Intact(t)
  PROVE  todo[1].file \notin MD!Resumed(t)
<1> USE DEF MdInv
<1>1. SUFFICES ASSUME todo[1].file \in MD!Resumed(t) PROVE FALSE
  OBVIOUS
<1>2. 1 \in DOMAIN todo
  BY MdQueued DEF MdTypes
<1>3. t = at.time
  BY <1>1, <1>2 DEF MdQueue
<1>4. ~MD!Exists(Completes(t))
  BY <1>1, <1>2, <1>3 DEF MdOrder
<1>5. QED BY <1>4, MdIntact

\* A step leaves every complete time step complete.
LEMMA MdIntactStays ==
  ASSUME MdInv, MD!Next, NEW t \in 2..MaxTime, MD!Intact(t)
  PROVE  MD!Intact(t)'
<1> USE DEF MdInv
<1>1. /\ disk \in [MD!Files -> MdContents] /\ \A f \in MD!Resumed(t) : f \in MD!Files
      /\ at \in [time : 0..MaxTime, start : 0..MaxTime, thermostat : Thermostats, folder : Folders]
  BY MdNames DEF MdTypes, MD!TypeOK, MdContents
<1>2. at'.thermostat = at.thermostat
  <2>1. CASE MD!StartAfresh \/ MD!TimeStep
    BY <1>1, <2>1 DEF MD!StartAfresh, MD!TimeStep
  <2>2. CASE MD!FileStep \/ MD!Finish \/ MD!Crash
    BY <2>2 DEF MD!FileStep, MD!Finish, MD!Crash
  <2>3. CASE MD!Restart
    BY <1>1, <2>3, MdResumes
  <2>4. QED BY <2>1, <2>2, <2>3 DEF MD!Next
<1>3. \A f \in MD!Resumed(t) : disk'[f] = disk[f]
  <2>1. CASE MD!StartAfresh \/ MD!TimeStep \/ MD!Finish
    BY <2>1 DEF MD!StartAfresh, MD!TimeStep, MD!Finish
  <2>2. CASE MD!Restart
    BY <2>2, MdResumes
  <2>3. CASE MD!FileStep
    <3>1. todo # <<>> /\ todo[1].file \in MD!Files
      BY <2>3, MdFileStep
    <3>2. \A f \in MD!Files \ {todo[1].file} : disk'[f] = disk[f]
      BY <1>1, <2>3, <3>1, MdFileStep
    <3>3. QED BY <1>1, <3>1, <3>2, MdLeavesAlone
  <2>4. CASE MD!Crash
    <3>1. disk' = disk \/ (todo # <<>> /\ disk' = [disk EXCEPT ![Head(todo).file] = MD!Torn])
      BY <2>4 DEF MD!Crash
    <3>2. CASE todo # <<>> /\ disk' = [disk EXCEPT ![Head(todo).file] = MD!Torn]
      <4>1. Head(todo) = todo[1] /\ todo[1].file \in MD!Files
        BY <3>2, MdQueued DEF MdTypes, MdOps
      <4>2. \A f \in MD!Files \ {todo[1].file} : disk'[f] = disk[f]
        BY <1>1, <3>2, <4>1
      <4>3. QED BY <1>1, <3>2, <4>2, MdLeavesAlone
    <3>3. QED BY <3>1, <3>2
  <2>5. QED BY <2>1, <2>2, <2>3, <2>4 DEF MD!Next
<1>4. MD!Resumed(t)' = MD!Resumed(t)
  BY <1>2, MdSameThermostat
<1>5. QED BY <1>3, <1>4 DEF MD!Intact, MD!IsWhole

\* A complete time step stays complete whatever is saved after it and wherever the
\* processes are killed (molecularDynamicsClass::writeRestartFile).
THEOREM MDStepsRemain == Spec => [][solvermode = "MD" => MD!IntactStepsRemain]_vars
<1>1. /\ solvermode = "MD" => MdInv
      /\ [Next]_vars
      => [solvermode = "MD" => MD!IntactStepsRemain]_vars
  <2>1. SUFFICES ASSUME solvermode = "MD", MdInv, Next
                 PROVE  MD!IntactStepsRemain
    OBVIOUS
  <2>2. MD!Next
    BY <2>1 DEF Next
  <2>3. ASSUME NEW t \in 2..MaxTime, MD!Intact(t) PROVE MD!Intact(t)'
    BY <2>1, <2>2, <2>3, MdIntactStays
  <2>4. QED BY <2>3 DEF MD!IntactStepsRemain
<1>2. QED BY <1>1, MdInvariance, PTL DEF Spec

\* MDTriesNewest: the step a restart settles on is never older than a complete one
\* (molecularDynamicsClass::checkRestart).  Whether it is complete is another matter.
THEOREM MDNeverBehind == Spec => []MDTriesNewest
<1>1. ASSUME MdInv PROVE MD!TriesNewest
  <2>1. SUFFICES ASSUME MD!Known, NEW t \in 2..MaxTime, MD!Intact(t)
                 PROVE  t <= MD!Tried
    BY DEF MD!TriesNewest
  <2>2. PICK r : r = disk[MD!Time].step
    OBVIOUS
  <2>3. r \in 0..MaxTime
    BY <1>1, <2>2, MdFileNames DEF MdInv, MdTypes, MD!TypeOK, MD!Contents
  <2>4. MD!Exists(Completes(t))
    BY <2>1, MdIntact
  <2>5. t <= r /\ \A f \in MD!Looked(t) : MD!Exists(f)
    BY <1>1, <2>1, <2>2, <2>4 DEF MdInv, MdFound, MD!Known
  <2>6. t \in 2..r
    BY <2>3, <2>5
  <2>7. QED BY <2>2, <2>3, <2>5, <2>6, MdCheckRestart DEF MD!Tried
<1>2. (solvermode = "MD" => MdInv) => MDTriesNewest
  BY <1>1 DEF MDTriesNewest
<1>3. QED BY <1>2, MdInvariance, PTL

\* MDKeepsWhatIsSaved: a step saved in full stays so, and no restart settles on an
\* older one (molecularDynamicsClass::writeRestartFile and checkRestart).
THEOREM MDKeepsSteps == Spec => MDKeepsWhatIsSaved
<1>1. [solvermode = "MD" => MD!IntactStepsRemain]_vars /\ MDTriesNewest'
      => [(solvermode = "MD" => MD!IntactStepsRemain) /\ MDTriesNewest']_vars
  OBVIOUS
<1>2. QED BY <1>1, MDStepsRemain, MDNeverBehind, PTL DEF MDKeepsWhatIsSaved

-----------------------------------------------------------------------------
\* TypeOK: the files' contents and the drivers' counters stay within their types.
THEOREM TypeCorrect == Spec => []TypeOK
<1>1. GeoInv => GEO!TypeOK
  BY DEF GeoInv, GeoTypes, GeoAt, GeoContents, GEO!TypeOK, GEO!Stages
<1>2. NebInv => NEB!TypeOK
  BY DEF NebInv, NebTypes, NebAt, NebContents, NEB!TypeOK
<1>3. MdInv => MD!TypeOK
  BY DEF MdInv, MdTypes
<1>4. /\ solvermode = "GEOOPT" => GeoInv
      /\ solvermode = "NEB" => NebInv
      /\ solvermode = "MD" => MdInv
      => TypeOK
  BY <1>1, <1>2, <1>3 DEF TypeOK
<1>5. QED BY <1>4, GeoInvariance, NebInvariance, MdInvariance, PTL
=============================================================================
