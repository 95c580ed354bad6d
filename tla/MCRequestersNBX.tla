--------------------------- MODULE MCRequestersNBX ---------------------------
(***************************************************************************)
(* Small instances of RequestersNBX: the target lists of at most Degree    *)
(* ranks, the rank itself among them.  MCSpec explores both builds, the    *)
(* release build of the module's own DebugBuild = FALSE and a debug build. *)
(***************************************************************************)
EXTENDS RequestersNBX, FiniteSets

CONSTANT Degree

VARIABLE build

MCTargetSets == {T \in SUBSET Ranks : Cardinality(T) <= Degree}

Debug == INSTANCE RequestersNBX WITH DebugBuild <- TRUE

MCInit == Init /\ build \in {"release", "debug"}

MCRank(p) ==
  /\ \/ build = "release" /\ Rank(p)
     \/ build = "debug" /\ Debug!Rank(p)
  /\ UNCHANGED build

MCArrives(p) == DataArrives(p) /\ UNCHANGED build

MCNext == (\E p \in Ranks : MCRank(p) \/ MCArrives(p)) \/ (Finished /\ UNCHANGED build)

MCSpec ==
  /\ MCInit /\ [][MCNext]_<<vars, build>>
  /\ \A p \in Ranks :
       WF_<<vars, build>>(MCRank(p)) /\ WF_<<vars, build>>(MCArrives(p))
=============================================================================
