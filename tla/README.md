# DFT-FE and its ASE socket interface: TLA+ models, checks and proofs

DFT-FE is a finite-element density functional theory program. This repository
adds a Python package, `dftfe_ase`, that drives it over a TCP socket: an ASE
calculator sends geometries, DFT-FE answers with energies, forces and stresses.
The numerics are out of a model checker's reach. What is in reach, and where the
code has its hard-to-test behaviour, is the coordination around them: two
programs that keep two copies of one geometry, a session that is started,
interrupted and restarted, an engine that is configured once and asked many
times, MPI ranks that exchange ghosts and points without barriers, a filter that
hides the communication of one block behind the computation of another, and long
runs that are killed and resumed from their files.

Paths are relative to the repository's root, lines are those of the commit the
models were translated from. `PROJECT.json` prefixes each path with `src/`.

## Inventory

### Components that are modelled

| component | sources | state it keeps | operations |
| --- | --- | --- | --- |
| Engine's copy of the atoms | `src/dft/moveAtoms.cc`, `src/dftfeWrapper.cc`, `src/dft/moveMeshToAtoms.cc`, `src/dft/pRefinedDoFHandler.cc` | `atomLocations`, `d_gaussianMovementAtomsNetDisplacements`, `d_netFloatingDispSinceLastBinsUpdate` | `reinit`, `updateAtomPositions`, `updateAtomPositionsAndMoveMesh`, `wrapAtomsAcrossPeriodicBc` |
| Socket backend | `interfaces/ase-dftfe/src/dftfe_ase/backends/socket.py`, `backends/base.py` | `_server`, `_conn`, `_chan`, `_proc`, `_started` | `compute`, `start`, `close` |
| Wire protocol | `interfaces/ase-dftfe/src/dftfe_ase/protocol.py` | `MessageChannel._buf` | `send`, `recv`, `recv_handshake` |
| Engine loop | `src/socket_interface.cc` | `sockfd`, `initialized`, the line being read | `connect_socket`, `receive_data`, `send_data`, `run`, `close_socket` |
| ASE calculator | `interfaces/ase-dftfe/src/dftfe_ase/calculator.py` | `atoms`, `results`, `_open_shift*` | `calculate`, `_placed_coords`, `close` |
| Engine configuration and results | `src/dftfeWrapper.cc`, `src/dft/dft.cc`, `src/force/configurationalForce.cc` | ION FORCE, CELL STRESS, force vector, stress tensor | `reinit`, `solve`, `getForcesAtoms`, `getCellStress` |
| NBX exchange | `utils/MPIRequestersNBX.cc` | `d_targetIDs`, `d_requestingProcesses`, send, receive and barrier requests | `getRequestingRankIds` and its steps |
| Index maps | `include/dftfe/MPIPatternP2P.t.cc`, `OptimizedIndexSet.t.cc` | owned ranges, ghosts, `d_ghostProcIds`, `d_targetProcIds`, local target indices | the parallel constructor, `localToGlobal`, `globalToLocal` |
| Ghost communication | `utils/MPICommunicatorP2P.cc`, `include/dftfe/MultiVector.t.cc` | `d_sendRecvBuffer`, `d_tempDoubleRealArrayForAtomics`, requests | begin and end of update, accumulate-add, accumulate-insert |
| Overlapped Chebyshev filter | `src/linAlg/linearAlgebraOperationsDevice.cc`, `src/dftOperator/KohnShamDFTStandardEigenOperator.cc` | X and Y of two blocks, cell buffers, projections | the two overlapped filter functions, `HXCheby` |
| Point mapping | `include/dftfe/MapPointsToCells.t.cc` | ids and coordinates received, found points, ghosts | `init` |
| Interpolation to points | `src/TransferBetweenMeshes/InterpolateCellWiseDataToPoints.cpp` | the map, its pattern, output values | constructor, `interpolateSrcDataToTargetPoints` |
| Checkpoint files | `utils/fileReaders.cc`, `src/dft/restart.cc` | files and their `.old` names | `writeDataIntoFile`, `readFile`, `copyFile`, `moveFile`, `writeDomainAndAtomCoordinates` |
| Molecular dynamics | `src/md/molecularDynamicsClass.cc` | time step, step directories, `time.chk` | the time loops, `checkRestart`, the `write...` and `Initialise...` functions |
| Nudged elastic band | `src/neb/nudgedElasticBandClass.cc` | update count, images, `Step.chk` and `.old` | `update`, `save`, `checkRestart`, constructor |
| Geometry optimisation | `src/geoOpt/*.cc` | cycle, stage, step, and a `.chk` for each | `init`, `runOpt`, `update`, `save` of both relaxations |
| Launch | `src/main.cc` | SOLVER MODE | dispatch |

### How they interact

    ASE  ->  calculator.py  ->  SocketBackend  == TCP ==  socketDriver::run  ->  dftfeWrapper  ->  dftClass
             results, offset    process, sockets            rank 0, broadcast    prm, displacement   mesh, atoms

    main (SOLVER MODE)  ->  MD | NEB | geometry optimisation  ->  dftfeWrapper, nonlinear solver
                            files of a step, search, restart

    MapPointsToCells -> MPIRequestersNBX -> MPIPatternP2P -> MPICommunicatorP2P <- MultiVector <- Chebyshev filter

The calculator calls `backend.compute(request)` once per calculation. The first
`compute` binds a socket, launches DFT-FE with `--socket host:port`, accepts its
connection and reads the `READY` line. Rank 0 of the engine reads a line,
broadcasts it, and every rank runs the same loop. The first request configures
the engine (`reinit`); later ones carry absolute coordinates, which the loop
turns into a displacement against the engine's copy. MDI (`src/mdi`) and the
program's own optimisers and MD call the same `updateAtomPositions...`.

Distributed vectors are laid out by `MPIPatternP2P`, every rank at once, each
time running an NBX exchange on the same communicator with the same tag. Its
lists of ghosts and targets are what `MPICommunicatorP2P` later sends and
receives by, without any further agreement between the ranks.

The program's own drivers write a directory per step and leave it to the next
process to find out which one to go on from. None of them marks a directory as
complete; each looks at some of its files or at the records of the step.

### What is hard

* The two copies of the geometry drift apart by lattice vectors; the engine
  wraps only when it remeshes, and its wrap shifts once and asserts.
* Five branches of the mesh update keep, reset or extend a net displacement.
* A call can be left at any blocking point: by a lost connection, a timeout,
  or an interrupt in a notebook. The engine can die at any point.
* Byte streams deliver lines in parts or together.
* The engine's flags are those of the first request, the fetches those of the
  present one.
* NBX consists of nonblocking steps whose messages may overtake the ranks'
  progress through consecutive exchanges; its probes take any source.
* Messages of three kinds, two directions and two blocks share communicators and
  tags; a tag that is a rank number coincides with a fixed one in a large job.
* Ghost entries, cell buffers and receive buffers are reused before and after
  each exchange.
* A step is saved as up to a dozen files, and a process may be killed inside any
  of them; three drivers have three different ways to find the last good step.

`PROJECT.json` lists the hazards line by line, with the properties that cover
each one.

### Components that are not modelled

* The SCF loop and mixing: every branch of its control depends on residuals of
  floating-point fields. What it computes for a request is in `EngineRequests`.
* Line searches, trust radii and step rejection of the nonlinear solvers. When
  they save and which checkpoint they load is in `GeometryOptimization` and
  `NudgedElasticBand`.
* The density checkpoint: every rank writes a chunk of its own without waiting,
  and a reader cannot tell of which SCF iteration a chunk is. The density is an
  initial guess; nothing in the repository says what a mixture may not do.
* The MDI engine: commands of an external library that read and write vectors. Its
  geometry update is the call that `AtomPositions` models.
* Parameter tables, the file backend, launchers and dataset tools: no lasting
  state.
* Kernels, meshing, symmetry, dispersion, functionals, pseudopotentials: these are
  most of the repository's lines, floating-point numerics and external libraries
  whose correctness is not a question of states and steps. The map therefore
  covers a small part of all lines, and most of the lines that coordinate.

## Modules

`MC` modules give constants their values and say which instances a run explores;
`Proofs` modules hold theorems. A definition whose comment begins "Mutant of" is
not part of the model: it is a plausible mistake in the definition named there,
with the same parameters, and substituting it makes TLC report the property that
is meant to catch it. `PROJECT.json` names the pairs.

    AtomPositions  <- MCAtomPositions <- MCAtomSystems       AtomPositionsProofs
    RequestResponse <- SocketSession <- MCSocketSession      SocketSessionProofs
    EngineRequests <- MCEngineRequests                       EngineRequestsProofs
    RequestersNBX  <- MCRequestersNBX                        RequestersNBXProofs
    IndexMaps <- PatternP2P <- PointTransfer <- MCPointTransfer   PointTransferProofs
    BlockFilter <- OverlappedFilter <- MCOverlappedFilter
                                     BlockFilterProofs <- OverlappedFilterProofs
    RestartFiles <- MolecularDynamics, NudgedElasticBand, GeometryOptimization <- Launch
                                                             LaunchProofs

### AtomPositions

One axis of one atom is a whole number of units from the corner of an
orthogonal cell of `Edge[x]` units. `driver` is what ASE asked for last, `cart`
is `atomLocations`, `net` and `netFloat` the two net displacements; `status`
names the assertion that ended the engine, if one did.

| definition | code |
| --- | --- |
| `Reinit` | first request of an engine: `dftfeWrapper.cc:627-747`, wrap, then the assertions of `dft.cc:1088-1112` |
| `Skip` | displacement below the tolerance, `socket_interface.cc:796-823` |
| `Fold` | minimum image of the displacement, `dftfeWrapper.cc:1389-1515` |
| `Remesh`, `GaussianMove`, `GaussianFallBack` | wrapped branch, mesh movement and its fall-back, `moveAtoms.cc:269-716` |
| `FloatingMove`, `FloatingRebin` | floating nuclear charges, `moveAtoms.cc:719-753`, `pRefinedDoFHandler.cc:298-315` |
| `Holds` | comparison with the request, `dftfeWrapper.cc:1582-1703` |

Whether a moved mesh is good is numerics: both outcomes are allowed. The cell is
orthogonal and does not deform. `Reinit` is possible at any time because
`close()` and a new calculation start a new engine. `WideCell` assumes that a
lattice vector is at least twice as long as the movement thresholds (1 Bohr and
0.5 Bohr in the code). Every crystal satisfies it; for shorter vectors
`UpdateNeverOutside` is not claimed. `MCAtomSystems` has a crystal, a slab and a
system with floating charges in one run; a behaviour follows one of them.

### SocketSession and RequestResponse

`call` is the line of `socket.py` the driver's program is in; the other driver
variables carry the names of the attributes. Each launched process has its own
connection and two streams. A message is two pieces, the second of which ends
with the newline, and any number of pieces arrive in one read: enough for a line
in parts, several lines at once, and a line and a half. `Interrupts` adds one
action: a blocking call is left by an exception the code does not catch.
`Die` covers assertions, job limits, a `SIGPIPE` and a connection reset; it
closes the connection before the process can be seen as exited (`Gone`).

`MCSocketSession` runs two kinds of program: a script, which nothing interrupts
(an interrupt ends it), and a notebook, whose user interrupts a cell and goes on.
`RequestResponse` is what `Backend.compute` promises: a request is executed at
most once, an answer is for the request of that call, and every call returns.
`IsScriptsRemoteCall` says that a script's session implements it, with `open`
mapped to the places inside `compute()`. Liveness is part of it.

### EngineRequests

One action is one `get_property` that has to calculate. A number in `results` is
represented by the system it was computed for, so that a stale or wrong number
can be seen; `Empty` is an array without elements, `Never` a tensor no
calculation has written. `Configured` keeps the first request's flags,
`Moved` replaces coordinates only, `Solved` computes what is asked for and
configured. Whether atoms fit between the open faces of a cell is data:
`Refuse` may always happen with an open direction, and must when `Refused`.

### RequestersNBX

`pending` holds synchronous sends that no receive has matched; `receiving` the
receives whose data is under way; the three counters stand for the Allgatherv,
the nonblocking barrier and, in a debug build, the trailing barrier: rank `p` may
leave its n-th call when every rank has entered its n-th. `ProbeAndReceive`
contains the exception for a second message of one source (`"threw"`).

### IndexMaps, PatternP2P, PointTransfer

`IndexMaps` holds the pure functions: the owner of an index by `upper_bound` in
the sorted ends of the ranges (`Finders`), the overlap check as one pass over
the ends in any order that a sort with `compareRangeMetaData` may leave
(`Overlapping`, whose comparison is no strict weak order), `OptimizedIndexSet`
(`Boundaries`, `EntriesBefore`, `Position`) and the two number maps.

`PatternP2P` is the parallel constructor of `MPIPatternP2P`, one action per
stretch between two blocking operations: the ranges are gathered and checked,
requesters are learnt (by the result of `RequestersNBX`), counts and then
indices are exchanged. `chan` holds messages with their tags; a receive takes the
first of its tag from its source. A throw ends the job. `PatternInit` is the state
in which the constructor is entered: any ranges, and ghosts that are in order and not
the rank's own, as `FEBasisOperations::initializeMPIPattern` passes those of a
partitioner.

`PointTransfer` puts it between its caller's phases. A point's coordinates are its
number, carried by a message of their own; a value is the point it was computed
for, the rank that computed it, and the number of that rank's call.
`Search` .. `Locate` are `MapPointsToCells::init`, `MakePattern` builds the
pattern from the ghosts, `Check` .. `Agree` is the first call with the field 1
and the common decision to abort, `Interpolate` and `EndInterpolate` are the later
calls. Where two ranks compute the same point, the insert of the later target
wins, as in the kernel. The constructor builds the pattern twice, once for each
memory space, with equal results; the model builds one. The tags are constants:
1, 2 and 3 stand for 101, 102 and 303, so that three ranks already have the rank
number that coincides with `MPI_REQUESTERS_NBX_TAG`. `PatternSpec` is the constructor
alone, for a caller that is no transfer.

### BlockFilter and OverlappedFilter

`OverlappedFilter` executes the calls of
`chebyshevFilterOverlapComputeCommunication`, or of its reformulated form, as a
program on every rank: what comes before the loop over the degrees, one pass of
the loop, and what follows it. `pc` is the position in it, `degree` the loop
variable, whose condition is evaluated before the first pass and after every one
(`AtCondition`, `MoreDegrees`). `HXCheby` is split as the code splits it by
its skip flags: gather cells, project (an accumulation and an update of the
projections inside), multiply and add. Every vector has one owned entry and a
ghost per neighbour, a value being the degree it belongs to and the ranks whose
contributions it has; adding what does not belong together gives `Garbage`.
`Received` and `Copied` are MPI: a message may be read out of the send buffer at
any time between post and wait. NCCL, single precision buffers, the hybrid
functional's extra update and `memOptMode` are left out.

`BlockFilter` is the abstract filter: blocks go from degree to degree, each one
when its neighbours have reached the present degree. `IsBlockFilter` states the
refinement, a rank's degree being read off its Y vector.

### RestartFiles and the drivers

A file's content is the step and process that computed it, or torn (killed inside
a write), or garbage (computed from a torn file). `todo` is the list of file
operations of the save under way; a process can be killed before, after and
inside each. Writing moves an existing file to `.old` first. Each driver's
`SaveScript` is the order of its `save` function, and its restart the order of
its checks. `Launch` dispatches on SOLVER MODE and composes the three drivers on
the same variables.

Step numbers that no statement tells apart are bounded small. Files that are
written and never read are left out (energies, force, and all `.old` files but
`Step.chk.old`).

## What is checked

Every run ends; violations are the disagreements described below.

| run | question | bounds | distinct states |
| --- | --- | --- | --- |
| `AtomPositions_systems` | does the engine hold what was asked for, in three systems? | two atoms in a cell of 5, up to 2 outside, thresholds 2; slab: one atom, cell of 4, up to 7 outside, tolerance 1 | 8044 |
| `AtomPositions_fallback` | violation: `HoldsByConstruction` | one atom, cell of 9 | |
| `SocketSession_sessions` | is a script's backend a remote procedure call, and what is left of that in a notebook? | 2 launches, 3 calls | 181061 |
| `SocketSession_stale` | violation: `AnswerIsToThisCall` | 1 launch, 3 calls | |
| `EngineRequests_calls` | do the numbers fit the atoms? | 24 systems: two geometries, two cells, three lists of atoms, partly or not periodic | 2505 |
| `EngineRequests_stress` | violation: `OnlyComputedIsReported` | 6 crystals | |
| `RequestersNBX_rounds` | are consecutive exchanges kept apart, and does each end? | 3 ranks, 2 exchanges, at most one target each, both builds | 594813 |
| `RequestersNBX_buffers` | violation: `NoReceiveIntoFreedBuffer` | 3 ranks, 1 exchange | |
| `PointTransfer_maps` | do the maps pair, and does every point get its own value? | 3 ranks; any ranges over 3 indices with empty ones at two places; 3 points in any cells, 2 calls | 361823 |
| `OverlappedFilter_calls` | is the overlapped filter the filter? | 3 ranks on a line, order 3, 2 calls, both forms | 33228 |
| `Launch_restarts` | what does a killed run find again? | 3 processes; MD to step 4, band to update 3 of 2 images, 2 cycles of 2 stages of 2 updates | 847627 |
| `Launch_solverchange` | violation: `LoadsOwnCheckpoint` | 3 processes, 2 updates | |

The properties:

* `AnswersRequestedGeometry`: an engine that answers holds the geometry asked
  for, modulo lattice vectors along periodic axes, up to the skipped
  displacement. `OtherSystemsFollow` states this and the next two for the slab
  and for floating charges, where also the final comparison never fails.
* `MeshFollowsAtoms`, `UpdateNeverOutside`: net displacements stay in step
  with the atoms, and so the single-shift wrap always suffices after an update.
* `SmallStepStaysSmall`: a step of the driver that is short against the cell
  reaches the engine as that step, whichever images the two copies hold.
* `HoldsByConstruction`: the comparison never fails. It does with the fall-back.
* `AnswerIsToThisCallOnceClosed`: unless a call was interrupted and the backend not
  closed since, an answer is the one to this call's request.
  `ScriptsReleaseAll`: no process runs that a script's backend does not hold, and
  `close()` leaves none. `IsScriptsRemoteCall`: the refinement.
* `AnswersAdvance`, `CallsReturn`, `EnginesEnd`: what survives interrupts. No
  response is returned twice, no call hangs, and every engine ends once the
  sockets are closed for good.
* `PlacedAnswersMatch`, `ResultsBelongTogether`: with an open direction the numbers
  held are those of the atoms held (species and periodicity are not compared), and all
  of one system. `OnlyComputedIsReported`: and computed, which they are not always; with
  CELL STRESS overridden on they are, as is proved.
* `RequestersExact`, `NoSecondMessage`, `ExchangesEnd`: each exchange returns
  exactly the requesters, is never confused with the next, and ends.
* `PatternsPair`: the k-th index a rank sends to another is the other's k-th ghost
  of that rank, and every ghost is received. `ThrowsWhereItSays`: the
  constructor throws if ranges overlap or a ghost is nobody's, and not otherwise;
  the overlap check gives one answer for every order of the sort.
  `NumbersInverse`: local and global numbers are each other's inverse.
* `PointsServed`: each value is that point's, of this call, from a rank with a cell
  around it. `JobEnds`: every call ends on every rank; if a point is in no cell,
  and only then, the job throws and nobody goes on. `NoStrayProbe`: no probe with
  `MPI_ANY_SOURCE` is under way while messages of the transfer are.
* `FilterExact`: after each call every entry has the full degree and exactly the
  contributions it should have, and ghosts are zero. `BuffersLeftAlone`: no buffer
  is touched between the posting and the completion of a request.
  `IsBlockFilter`, `FiltersReturn`: the refinement, and termination.
* `MDKeepsWhatIsSaved`: a time step that was saved in full stays so, over all later
  processes, and the step a restart settles on is not older than any such step
  (`MDTriesNewest`). It may be newer and incomplete, and then the restart fails (below);
  `MDTriedIsNear` says how far off it can be: from step 3 on, the step tried or the one
  before it is complete, unless a process that read a torn file wrote it.
* `NEBRecordsLeadBack`: where one process wrote both `Step.chk` and its `.old`, the
  step they lead to is complete, wherever that process died
  (`NEBRecordedStepIsIntact`). Where two processes
  wrote them it need not be (below); `NEBRecordedIsNear` then says that, with one
  solver, it has all its files or two processes died in its save, and that then the
  step before it has.
* `GEORecordedStepIsIntact`: the step a `step.chk` names is complete wherever the process
  died, with one solver throughout, since the files of a step depend on it.
* `NEBLosesOneStep`, `GEOLosesOneStep`: with one solver, a restart that goes on has lost
  at most the step being saved. A restart that stops at a missing file has not gone on,
  and is not counted.
* `GEOSearchEnds`: rank 0's search, for which the other ranks wait in a broadcast,
  ends in an optimisation that alternates between stages.

### Why the bounds are enough

*AtomPositions.* The atoms interact only through the maximum over atoms that
chooses the branch; two atoms contain both roles. A request depends on the
previous ones through `cart` and `net` only, and TLC explores all of their
reachable values. In the slab the driver is further than one lattice
vector away, so that several images are folded at once and `Reinit` can refuse.
Symmetry exchanges the two atoms; no liveness is checked in this run.

*SocketSession.* Two launches contain a process that is replaced, three calls a
call before, during and after a failure. Deadlock is not excused: the driver's
program can always call `close()`.

*RequestersNBX.* A message can be confused with the next exchange by one rank
that is ahead of another while a third keeps the barrier from completing: three
ranks and two exchanges. The theorems remove the bound.

*EngineRequests.* A second request differs from the first in coordinates, cell,
species or count, alone and together. `CELL STRESS` is overridden on in
`EngineRequests_calls`, which is the condition under which a later stress is
computed; `EngineRequests_stress` is the same question without it.

*PointTransfer.* With three indices ranges can be empty, adjacent, nested, equal,
out of rank order and incomplete. Ghosts are explored in full for partitions; for
other ranges one ghost decides whether the constructor throws. Rank 1 asks for no
point, a point can be in no, one or several ranks' cells, and boxes are either
exact or hold everything. Two calls overlap on different ranks. The job may end
or throw, so deadlock is not an error; `JobEnds` says where it may end.

*OverlappedFilter.* On a line of three, one rank has ghosts only, one targets only
and one both, and the outer two are not neighbours. Order 3 runs the loop's body
more than once; two calls contain what one leaves behind for the next. All
calls return at the end, so deadlock is not an error.

*Launch.* Two crashes and a third process contain a crash while a resumption
repeats a save. Time steps 2 to 4 contain the first one that can be resumed and
one after; a band loses steps by two crashes in the same window. Later cycles are
shorter since they only need to exist. A finished run stops, so deadlock is not an
error.

### Fairness

`SocketSession`: weak fairness of each step of a call that can go on (timeouts
of `accept` and `wait` do expire; after `connect_timeout`, Python's
`accept` raises), and of each engine's reading, responding, connecting or
giving up (ten retries), and of a process that has left its loop being gone.
`Respond` is fair because the SCF loop has an iteration limit. Nothing
obliges the program to call, or an engine to die; interrupts are never fair.

`RequestersNBX`: each rank keeps running its loops, `MPI_Iprobe` eventually
shows a matching message (the MPI progress rule), and matched data arrives.
`PointTransfer`: each rank goes on when its collective or receive can complete.
`OverlappedFilter`: each rank goes on when what it waits for is complete, and MPI
delivers what is posted. `Launch`: only rank 0's search, a loop of file look-ups,
is fair; it may still be killed.

## What the code does otherwise than it says

With a run and a counterexample:

* **The fall-back displaces atoms twice** (`AtomPositions_fallback`). The
  branch for a rejected mesh, `moveAtoms.cc:649`, adds the displacement to
  `atomLocations`, which lines 308-310 have already advanced. With a periodic axis
  the comparison in `updateAtomPositions` then aborts the run; callers that do
  not compare (the program's own optimisers) would continue with wrong atoms.
* **An interrupted call shifts all later answers** (`SocketSession_stale`).
  `compute()` catches `ProtocolError` and `OSError` only; after a
  `KeyboardInterrupt` the response under way is the next call's answer.
* **A stress nobody computed** (`EngineRequests_stress`). A calculator created
  without `compute_stress` and later asked for a stress gets the tensor's initial
  value, because CELL STRESS is fixed by the first request.
* **`finish()` waits for one receive** (`RequestersNBX_buffers`). Each
  iteration waits for `d_recvRequests.back()`.
* **A solver loads another solver's checkpoint** (`Launch_solverchange`).
  `ionOpt.dat` records the solver of the relaxation's first process only
  (`geoOptIon.cc:163`, in the branch without restart). Relax with BFGS, restart with
  LBFGS, restart with BFGS: the last one finds BFGS recorded and loads LBFGS's file,
  instead of starting "from scratch" as line 135 says it would.

Two restarts do not go back to the complete step they could go back to. `Launch` defines what
the messages promise as `MDGoesBackToIntact` and `NEBGoesBackToIntact`, which the code does
not keep; no run of the project is about them, and with one of the two as the PROPERTY in
`Launch_restarts.cfg` TLC prints a counterexample of this kind. The run's passing
properties bound the damage: `MDKeepsWhatIsSaved` and `MDTriedIsNear`, `NEBRecordsLeadBack`.

* **A restart of molecular dynamics settles on an incomplete step**.
  `checkRestart` takes the newest step whose coordinates and `velocity.chk`, and with a
  Nose-Hoover chain its file, can be opened (`molecularDynamicsClass.cc:1912-1930`).
  `StepDisplacement.chk` and `UnwrappedFractionalCoordinates.chk` are written after
  `velocity.chk` and not looked at. Say step 2 is complete and the
  process is killed in step 3 once `velocity.chk` exists: the restart settles on step 3
  and stops at the missing file, and so does every later one. A file that exists
  but is torn passes the same test, and its data may be used. Nothing goes back to step
  2, as the message of line 1938 ("Switching to time") would have it; the user has
  to remove the directory of step 3. The comment at line 1644 describes a test for
  a finished save (`time.chk` equal to its `.old`) that no restart makes, and the
  message "restart files ... successfully created" (lines 1632-1633) is printed before
  the last of them is written. With the Nose-Hoover chain the window is smaller, since
  its file is the last one, but not empty: it is looked for, not into.
* **Two deaths in one save end a band**. A difference between `Step.chk`
  and `Step.chk.old` tells that a save was cut (`nudgedElasticBandClass.cc:1769`). Say
  step 1 is complete and the first process is killed after the
  first `Step.chk` of step 2, whose `.old` names 1; the second resumes from 1, computes
  step 2 again, and is killed at the same place: its write has moved the first one's
  `Step.chk`, which names 2, to `.old`. Now the two agree on step 2, and
  the third process stops at line 1773, which reads `maxForce.chk` of step 2 before the
  search that would have gone back to step 1. So does every later one, until
  the user corrects the records. With one solver this is the only way (TLC finds it with
  a single member in `Solvers`). With another solver there is a second, the one TLC
  prints: the second process first saves step 1 again (in `solve`, line 720), and is killed after its first
  `Step.chk`, which names 1 while the `.old` of the first process names 2. The two
  differ, and `.old` is taken.

Read from the code while modelling, and stated here without a run:

* An interrupted `start()` leaves `_proc` set and `_started` false; the next start
  overwrites `_proc` (`socket.py:125`), so a notebook's `close()` leaves the first
  engine. `ScriptsReleaseAll` is about scripts only.
* `receive_data` drops what follows the first newline
  (`socket_interface.cc:143`). Nothing follows it unless a call was interrupted.
* A first request that names an atom two cells away is refused by the wrap's
  assertion (status `"reinit far image"`), while `dftfeWrapper.cc:688` calls any
  image legitimate.
* `CELL STRESS false` for an open cell (`dftfeWrapper.cc:834`) is overwritten at
  line 920.
* A calculator that computed a crystal first has frozen no offset, so a later slab
  in another cell is not refused; `PlacedAnswersMatch` is about calculators used
  for open cells only.
* The search of a geometry optimisation's restart (`geometryOptimizationClass.cc:79`)
  has two ways not to end, with every other rank in `MPI_Bcast`: with one stage
  only and no geometry to be found the same step list is searched again (line 128
  is for alternating optimisations), and with `VERBOSITY` 0 the decrement inside
  the `pcout` expression of line 125 is not evaluated. `SearchEarlierStage` and
  `SearchEarlierStep` contain both; `GEOSearchEnds` is about the others.
* Molecular dynamics writes the thermostat chain to `./mdRestart` whatever the
  restart folder is (`molecularDynamicsClass.cc:1793`), so such a run cannot be
  resumed from another folder; it says so and exits.
* A process killed while it rewrites `moleculardynamics.dat` or `time.chk`, or
  `nudgedElasticBand.dat` or `Step.chk`, leaves that file moved aside. The restart reads
  it without looking for the `.old` one and stops. `MDGoesBackToIntact` and
  `NEBGoesBackToIntact` are about restarts that find these files.
* A resumed run takes its internal and total energy from `KineticEnergy.chk`
  (lines 1707-1713), and `time.chk.old`, which the comment at line 1644 suggests, is
  never read.
* The restart of a band without periodic directions names the file of fractional
  coordinates in both branches (`nudgedElasticBandClass.cc:186`).
* `compareRangeMetaData` is true of two range ends with equal index in both
  orders, which `std::sort` does not allow; `ThrowsWhereItSays` shows that any
  permutation of equal ends gives the same answer.
* A rank without cells writes `d_cumulativeDofs[0]` of an empty vector
  (`InterpolateCellWiseDataToPoints.cpp:129`).

## What is proved

`AtomPositionsProofs`, for every set of atoms, cell, tolerance and set of
geometries that satisfy `ConstantsOK` and `WideCell`:

* `TypeCorrect`: `Spec => []TypeOK`.
* `AnswersCorrect`: `Spec => []AnswersRequestedGeometry`. Inductive with the types;
  the lemmas `FoldFacts` and `WrapCongruent` say that folding and wrapping change
  a coordinate by lattice vectors only, and `Holds` passes nothing else.
* `NeverOutside`: `Spec => [](MeshFollowsAtoms /\ UpdateNeverOutside)`, and
  `MeshFollowsCorrect` for its first part.
  `UpdateNeverOutside` alone is not inductive: that an atom is within reach of one
  shift follows from where its mesh was generated. `MeshFollowsAtoms` supplies it:
  the position minus the net displacement lies in the cell and the net
  displacement is within the threshold. `ImageBound` gives half a lattice
  vector for the fold, `NormBound` turns the threshold on a norm into one per
  component, and `MoveReach` adds them up: at most one lattice vector outside.
  The fall-back adds the displacement twice; the inductive step covers it because
  both copies still stay within one shift.
* `SmallStepCorrect`: `Spec => SmallStepStaysSmall`. By
  `AnswersRequestedGeometry` the two copies differ by lattice vectors and a
  skipped displacement (`CongruentWitness`); the fold has at most half a lattice
  vector, the driver's step is strictly shorter than that, and no two such
  numbers are images of each other (`ShortestImage`).
* `OnlyFallBackMisplaces`: the comparison at the end of an update, which the code
  says holds by construction, can fail in one branch only, the fall-back after a
  rejected mesh with a periodic axis. The fold changes a displacement by lattice
  vectors and a wrap by one more at most, which `Holds` allows (`MovedOnceAgrees`).
  `HoldsWithoutFallBack`: with floating charges and with open cells,
  `Spec => []HoldsByConstruction`. The run `AtomPositions_fallback` shows that the
  assumption is needed.

`SocketSessionProofs`, for every number of launches and calls, of scripts and of
notebooks: `TypeCorrect`, `AnswersAreToThisCall`
(`MCSpec => []AnswerIsToThisCallOnceClosed`), `ScriptsRelease`
(`MCSpec => []ScriptsReleaseAll`), `EveryAnswerIsLater` (`MCSpec => AnswersAdvance`)
and `ScriptsCallIsRemote`, the safety part of the refinement
`IsScriptsRemoteCall`: initial states map to initial states and steps to steps or
stutters. One invariant, `IInv`, is behind all of them:

* `Phase` and `Links` tie the driver's attributes to its place in the code, and the
  engines to the connections they hold.
* `Order`: the responses on their way to the driver, the request its engine is
  working on, and the requests not yet read are numbered in ascending order, all
  of them above the last answer. This survives interrupts and says that an answer
  is never an old one, though it may be a stale one.
* `Clean`: until a call is interrupted the connection carries the present call's
  request or its response and nothing else. This makes an answer the answer to
  the call; an interrupt breaks it, `close()` and a new connection restore it.
* `OneEngine`: a script's only engine is the one its backend holds; one whose
  connection was closed has nothing but the exit command left to read.
* `Progress`: where a script's present request is still to be read the engine has not
  executed it; where it is being worked on or its response is under way, it has, once.

A stream is a sequence of pieces. The lemmas on `FirstLine` and what is behind it say
that pieces of a message appended to a stream leave its first line alone and add
one number at the end.

`RequestersNBXProofs`, for every set of ranks, target lists, number of exchanges
and both builds: `TypeCorrect`, `RequestersCorrect` (`Spec => []RequestersExact`),
`NoSecondMessageCorrect` (`Spec => []NoSecondMessage`), all from one inductive
invariant `IInv`: nobody is more than one Allgatherv ahead (`InStep`); a rank has
called the barrier exactly when its sends were matched (`Signalled`); who leaves
the loop knows that all have signalled (`Consensus`); only senders have messages
pending (`PendingFromSenders`); what a rank knows is what was sent in this
exchange and is not pending (`KnowsReceived`); and what is sent to a rank still
in its Allgatherv waits there (`EarlyWaits`). The last three separate
consecutive exchanges: without the Allgatherv between them they fail, as the
mutant `StartAlone` shows.

`EngineRequestsProofs`, for every set of systems and overrides:

* `TypeCorrect`, and `TogetherCorrect`: `Spec => []ResultsBelongTogether`. `IInv`
  adds that results are of one system whose energy is always among them
  (`OneSystem`), and none without atoms.
* `PlacedCorrect`: if no system is fully periodic, `Spec => []PlacedAnswersMatch`.
  `PlacedInv` says that the frozen offset fits the engine's cell and number of
  atoms and so every number held. The property compares coordinates, cell and
  number of atoms, not species.
* `ReportedCorrect`: with CELL STRESS overridden on,
  `Spec => []OnlyComputedIsReported`. `StressInv`: every engine computes stresses.

`PointTransferProofs`, for every number of ranks, points and calls, every placement of
the points in cells and boxes, and every value of the tags:

* `OwnerFound`: if no two ranges overlap and none goes beyond the indices,
  `upper_bound` finds an index's owner and no other rank, wherever empty ranges
  are and in whatever order the ranks have theirs.
* `NoStrayProbeCorrect`: `Spec => []NoStrayProbe`. `IInv`: while a rank is still in its
  search or its exchange, no rank is past the reductions and no message is under
  way. The reductions of statistics are what the proof rests on.
* `PatternsPairCorrect`: `Spec => []PatternsPair`. Nothing a rank receives says what it
  is for: counts, ids, coordinates and indices share one tag, and the values of
  consecutive calls another. `PatternInv` therefore follows every message. `Sync`
  says that no rank is past a collective operation another has not entered;
  `Links`, that a link carries exactly the messages its sender has sent and its
  receiver has not received, in the order of the code, while the ranks are still
  mapping points (`MapMessages`) and after (`PatternMessages`), the number of each
  following from the phase and the calls of a rank. So a receive takes the message
  that is due (`Pop`), and `TargetSide` says that a rank's lists are what it was
  due. `GhostSide` has the ghosts of a rank in the ranges of their owners. After a
  throw the job stops and only the property itself is kept.
* `PositionFound`: `OptimizedIndexSet::getPosition` keeps a set as contiguous ranges and
  searches their boundaries only. `Counted` says, for a number, how many boundaries
  are not above it (an odd number inside a range, an even one outside: what the code
  reads as being found or not) and that the ranges before it have as many entries
  as the set has smaller numbers; it goes from each number to the next
  (`EdgesCounted`).
* `PointsServedCorrect`: `Spec => []PointsServed`. To `PatternInv`, `ServedInv` adds what
  the messages are for (`Transfer`): a rank finds its own points and exactly the
  others' that are lost to their owners and in its cells (`Finds`, with `Wanted`); its
  ghosts are these in ascending order, each with its owner (`Attributed`), at the
  place `getPosition` gives it; so what it computes for a ghost stands where the
  ghost is (`ComputedFacts`), what an owner receives with an index was computed for
  that index in the call of the same number (`ValueReceived`), and a point no rank
  has as a ghost keeps the value computed at home or none (`PointsInserted`).
* `NumbersInverseCorrect`: `Spec => []NumbersInverse`, from `Finds` and `PositionFound`;
  `NumbersOfRank` has it for any range and any finite set of ghosts.
* `TypeCorrect`: `Spec => []TypeOK`. `Sized` adds what a rank has not yet got in a phase,
  and that a rank with a pattern has it from ranks that sent it. It follows that an
  index received is one of the receiver's, so that the exception `KeepIndices` may
  throw is not thrown (`NoneBeyond`).
* `OverlapsFound`: for any ranges and any order a sort with `compareRangeMetaData` may
  leave equal ends in, `getOverlappingRangeIds` returns nothing exactly if no two
  ranges with indices overlap. The pass remembers one open range only. While ranges are
  apart, the open range is the one whose start alone has been passed
  (`ApartUnfound`); where nothing was found, a range is open from its start to its
  end, so that the start of one that overlaps it would have been noticed
  (`OverlapFound`, `UnfoundApart`).
* `ThrowsWhereItSaysCorrect`: `Spec => []ThrowsWhereItSays`. `ThrowsInv` adds, for a rank
  past the search for the owners (`Ready`): that the ranges are disjoint, by
  `OverlapsFound`, and, where they partition the indices and the rank's ghosts are
  owned, that no ghost is attributed to a rank that does not own it, by `OwnerFound`.
  From this follows that `LeaveGather` and `SendIndices` have no reason to throw
  (`ThrowHasReason`); `KeepIndices` has none whatever the ranges are.
* `AnyPatternThrows`, `AnyPatternPairs`, `AnyPatternNumbers`, `AnyPatternTyped`: the
  invariants of the pattern hold of `PatternSpec` too, where ranges may overlap, leave
  indices out, come in any order or be empty, and ghosts may be nobody's. A pattern
  made alone starts as a transfer of no points that has come to the constructor
  (`AloneRunning`), so that `PatternInv` and `ThrowsInv` carry over; `AloneInv` adds
  what the constructor was given. A sequence in order is the sorted sequence of its
  numbers (`InOrderIsSorted`), which gives the places of the ghosts.

`BlockFilterProofs`, for every adjacency of ranks, blocks and order: `AlwaysClose`,
neighbours are never more than one degree apart, and one that is a call ahead has
computed nothing of it while the other is at its last degree. The abstract
filter needs no barrier between calls. `StepsKeepClose` has the same of any
behaviour of its steps, fair or not.

`OverlappedFilterProofs`, for any ranks, any ghosts (no rank its own), every order of
the polynomial from 2 on, any number of calls, and both forms of the program
(`ConstantsOK`).

* In every degree a block goes through the same nine stages, from the update of its
  Y vector to the accumulation of its X vector; only where the other block stands
  at that time differs between the forms and between start, loop and end. The proof
  reads `pc` and `degree` as a stage and a degree per block (`Stage`, `Deg`), and
  a step of the program as `Working`: one block goes on by one stage, the data of the
  other block and of the other ranks stay (`PlainSpotsExact`, `Goes`,
  `AllElseHolds`). `Together` lists where the two blocks can be at a time:
  never with two exchanges open at once on a rank, and never both with the cell
  values, which they share.
* A message does not say which exchange it belongs to, and a rank may be ahead of its
  neighbour. `Exchange` therefore numbers the exchanges of a kind, the same
  way on every rank, and `Begun` counts those a rank has begun. `Flows` says that on
  a link the exchanges which the sender has begun and the receiver has not got are
  under way in their order, that only the last may still be read from the sender's
  buffer, and what each carries. So what is received is of the exchange its receiver
  is in (`Brought`, `BroughtExact`).
* `VectorY`, `VectorX` and `Shared` say what the vectors of a block and the cell
  values hold in each stage. With `Places`, the types and the links they make `IInv`,
  which is inductive (`Inductive`: `Spec => []IInv`).
* `FilterExactCorrect` (`Spec => []FilterExact`), `TypeCorrect` (`Spec => []TypeOK`) and
  `BuffersCorrect` (`Spec => BuffersLeftAlone`) follow from it and its steps.
* `IsBlockFilterSteps`: the safety part of `IsBlockFilter`. A block reaches the next
  degree at the end of stage 8; by then every neighbour's contribution to that degree
  has been received, so the neighbour has got to the present one. Hence
  `BlocksStayClose` (`Spec => []Filter!NeighboursClose`), the theorem on `BlockFilter`
  under the refinement mapping.

`LaunchProofs`, for every number of steps, cycles,
images and processes, which may be killed anywhere. They assume
`LaunchConstantsOK`: the bounds are numbers, and there is a process and an image.

* `GEORecordedStep` (`Spec => []GEORecordedStepIsIntact`) and `GEOLosesAtMostOneStep`
  (`Spec => GEOLosesOneStep`). `GeoInv` holds of any solvers as far as types, records
  and the queue of file operations go (`GeoTypes`, `GeoFresh`, `GeoRecords`,
  `GeoQueue`). With one solver it adds `GeoSafe`: a recorded step is complete and
  nothing above the next one is there (`GeoIntact`); no stage later than the one
  `cycle.chk` and `status.chk` name was begun (`GeoNewest`); the `step.chk` about to be
  written names a step that is complete by then (`GeoReady`); and where the process
  is, relative to its records (`GeoPlace`). That none of a later stage's files exist
  before the records name it is what the search of a restart relies on.
* `NEBLeadsBack` (`Spec => []NEBRecordsLeadBack`) joins two. `NEBRecordedStep`
  (`Spec => []NEBRecordedStepIsIntact`) needs no assumption on the
  solvers; `NEBLosesAtMostOneStep` (`Spec => NEBLosesOneStep`) is about one solver.
  `save` writes `Step.chk` before the files of a step and again after them, so that
  between the two its `.old` is the one to trust. `NebBetween` and `NebWithin` say
  which steps the two name outside and inside a save, `NebIntact` that the one
  `checkRestart` takes is complete, if one process wrote both; `NebPlace` relates it to
  the process.
* `NEBRecordedNear` (`Spec => []NEBRecordedIsNear`) drops the condition on the processes,
  for one solver. `NebKept`, inductive on top of `NebInv`, follows a step that has all
  its files: the one a resumed process has read (`NebKeptRestart`), then each whose
  save it finishes (`NebKeptFileStep`). A save writes files of the step above only, and
  the records name one of the two.
* `MDKeepsSteps` (`Spec => MDKeepsWhatIsSaved`), from `MDStepsRemain` and `MDNeverBehind`
  (`Spec => []MDTriesNewest`). In `MdInv` one file stands for a step: of those a restart
  reads, the last that is written (`Completes`). Nothing of the step is written after
  it (`MdOrder`), the others and `time.chk` are there before it (`MdReady`), and so a
  restart that starts at `time.chk` and counts down stops at the newest complete step
  or above it (`MdFound`), and no process writes a complete step again.
* `TypeCorrect`: `Spec => []TypeOK` of `Launch`, from the three.

Only model-checked: `MDTriedIsNear`; the liveness properties and `ENABLED`, which are out of TLAPS's
reach, the liveness part of `IsScriptsRemoteCall` and `GEOSearchEnds` among them, the
fairness of `IsBlockFilter` too.
`OtherSystemsFollow` states the theorems of `AtomPositions` for two further systems.
The library's induction theorems take an operator and cannot be used. Where an
induction on numbers is needed (`PlacesTaken`, `SumsExist`) the proof takes the least
counterexample, by `WFMin` and `NatLessThanWellFounded`.

## What is left out of the modelled components

Units, JSON text, parameter values other than the two flags, log files and
timing; broadcasts between the ranks of one engine; MPI and `bind` errors; cell
deformation, non-orthogonal cells, image charges and the mesh; tolerances below
one unit of length, with the exception of the skipped displacement; the serial
constructor of `MPIPatternP2P`; precision conversions of
communication buffers, NCCL and device copies; files that are never read back;
disks that fail or reorder writes (a file is torn only where a process is
killed inside its write).

## What could follow

The invariants the runs check are proved but for `MDTriedIsNear`, those of `OtherSystemsFollow` for each
system on its own. Of what is only model-checked, termination of a call
(`JobEnds`, `FiltersReturn`, `ExchangesEnd`) would say most if it could be proved for
any number of ranks. Of what is not modelled, the MDI engine's commands are closest
to what the modules describe.
