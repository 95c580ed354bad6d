---------------------------- MODULE MCAtomSystems ----------------------------
(***************************************************************************)
(* Three systems, one of which every behaviour follows: the one MCAtom-    *)
(* Positions describes, a slab that is open along axis 3, and the atoms of *)
(* the first with floating nuclear charges.  The other two share variables *)
(* of their own, so that the properties of AtomPositions itself go on      *)
(* speaking of the first.                                                  *)
(***************************************************************************)
EXTENDS MCAtomPositions

CONSTANTS SlabAtoms, SlabEdge, SlabReach

VARIABLES system, status2, driver2, cart2, net2, netFloat2

Systems == {"bulk", "slab", "floating"}

\* The slab's atoms move along axis 1 and along the open axis 3.
SlabSites ==
  {p \in [Axes -> -SlabReach..(SlabEdge + SlabReach)] :
     p[2] = SlabEdge \div 2 /\ p[3] \in 0..SlabEdge}

SlabPositions == [SlabAtoms -> SlabSites]
SlabPeriodic == {1, 2}
SlabEdges == [x \in Axes |-> SlabEdge]

Slab == INSTANCE AtomPositions WITH
  Atoms <- SlabAtoms, Periodic <- SlabPeriodic, Edge <- SlabEdges,
  SkipTol <- 1, Positions <- SlabPositions,
  status <- status2, driver <- driver2, cart <- cart2, net <- net2, netFloat <- netFloat2

Floats == INSTANCE AtomPositions WITH
  Floating <- TRUE,
  status <- status2, driver <- driver2, cart <- cart2, net <- net2, netFloat <- netFloat2

other == <<status2, driver2, cart2, net2, netFloat2>>

MCInit ==
  /\ Init
  /\ \/ system \in {"bulk", "floating"} /\ Floats!Init
     \/ system = "slab" /\ Slab!Init

MCNext ==
  /\ \/ system = "bulk" /\ Next /\ UNCHANGED other
     \/ system = "slab" /\ Slab!Next /\ UNCHANGED vars
     \/ system = "floating" /\ Floats!Next /\ UNCHANGED vars
  /\ UNCHANGED system

MCSpec == MCInit /\ [][MCNext]_<<vars, other, system>>

\* The slab, whose driver drifts lattice vectors away from the cell with
\* displacements small enough to be skipped, is answered for its geometry, and
\* its mesh and its single-shift wrap follow it.  With floating charges the atoms
\* also stay within reach of the bins made for them, and no move leaves them
\* anywhere but where they were asked to be: there is no mesh to reject.
OtherSystemsFollow ==
  /\ system = "slab" =>
       Slab!AnswersRequestedGeometry /\ Slab!UpdateNeverOutside /\ Slab!MeshFollowsAtoms
  /\ system = "floating" =>
       /\ Floats!AnswersRequestedGeometry /\ Floats!UpdateNeverOutside
       /\ Floats!MeshFollowsAtoms /\ Floats!HoldsByConstruction
=============================================================================
