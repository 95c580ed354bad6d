--------------------------- MODULE MCPointTransfer ---------------------------
(***************************************************************************)
(* PointTransfer on three ranks.  An instance is either a pattern alone,   *)
(* of any ranges and ghosts a caller may pass, or a transfer of points     *)
(* from the search to MaxCalls interpolations.                             *)
(***************************************************************************)
EXTENDS PointTransfer

CONSTANTS
  NumIndices,    \* bound: indices of a pattern alone
  EmptyStarts    \* bound: where its empty ranges may be

VARIABLE purpose  \* "pattern" or "transfer"

mcVars == <<vars, purpose>>

Ranges ==
  {p \in (0..NumIndices) \X (0..NumIndices) :
     p[1] < p[2] \/ (p[1] = p[2] /\ p[1] \in EmptyStarts)}
NotOwned(r) == {g \in 0..(NumIndices - 1) : ~Owns(owned, r, g)}
\* All ghosts for ranges that partition the indices, and no more than one, on
\* rank 0, for others.
GhostSets ==
  {S \in [Ranks -> SUBSET (0..(NumIndices - 1))] :
     /\ \A r \in Ranks : S[r] \subseteq NotOwned(r)
     /\ \/ Partition /\ NumGlobal(owned) = NumIndices
        \/ Cardinality(S[0]) <= 1 /\ \A r \in Ranks \ {0} : S[r] = {}}
MCPatternInit ==
  /\ owned \in [Ranks -> Ranges]
  /\ \E S \in GhostSets : ghosts = [r \in Ranks |-> Sorted(S[r])]
  /\ PatternInit /\ NoTransfer

\* Rank 1 asks for no point.  Either every bounding box holds no more points than
\* the cells of its rank do, or all boxes hold all points and no two ranks' cells
\* the same one.
TransferInit ==
  /\ numPoints = [r \in Ranks |-> IF r = 0 THEN 2 ELSE IF r = 1 THEN 0 ELSE 1]
  /\ inside \in [Points -> SUBSET Ranks]
  /\ \/ boxed = inside
     \/ /\ boxed = [g \in Points |-> Ranks]
        /\ \A g \in Points : Cardinality(inside[g]) <= 1
  /\ Init

MCInit ==
  \/ purpose = "pattern" /\ MCPatternInit
  \/ purpose = "transfer" /\ TransferInit
MCRankStep(r) ==
  /\ \/ purpose = "pattern" /\ PatternAlone(r)
     \/ purpose = "transfer" /\ RankStep(r)
  /\ UNCHANGED purpose
MCNext == \E r \in Ranks : MCRankStep(r)
MCSpec == MCInit /\ [][MCNext]_mcVars /\ \A r \in Ranks : WF_mcVars(MCRankStep(r))

\* The job ends.  Every rank has its pattern, or one throws.  A transfer ends with
\* the values of every call on every rank; but if a point is in no cell of any
\* rank ("Some points were not found while interpolating"), and only then, some
\* rank throws and none goes on alone.
SomeLost == \E g \in Points : inside[g] = {}
Ended ==
  \/ purpose = "pattern" /\ (threw # {} \/ \A r \in Ranks : pc[r] = "built")
  \/ purpose = "transfer" /\ SomeLost /\ threw # {}
       /\ \A r \in Ranks : pc[r] \notin {"work", "insert"}
  \/ purpose = "transfer" /\ ~SomeLost /\ threw = {}
       /\ \A r \in Ranks : pc[r] = "work" /\ calls[r] = MaxCalls + 1
JobEnds == <>[]Ended
==============================================================================
