--------------------------- MODULE MCAtomPositions ---------------------------
(***************************************************************************)
(* Small instances of AtomPositions: atoms move along the axes in Mobile,  *)
(* anywhere between Reach units below the cell and Reach units above it    *)
(* (one unit if the axis is open), and sit in the middle of the cell along *)
(* the others.                                                             *)
(***************************************************************************)
EXTENDS AtomPositions, TLC

CONSTANTS Mobile, Reach, EdgeLength

MCEdge == [x \in Axes |-> EdgeLength]
MCRange(x) ==
  LET far == IF x \in Periodic THEN Reach ELSE 1 IN
  IF x \in Mobile THEN -far..(EdgeLength + far) ELSE {EdgeLength \div 2}
MCSites == {p \in [Axes -> -Reach..(EdgeLength + Reach)] : \A x \in Axes : p[x] \in MCRange(x)}
MCPositions == [Atoms -> MCSites]
MCSymmetry == Permutations(Atoms)
=============================================================================
