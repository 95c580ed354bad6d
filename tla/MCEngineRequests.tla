-------------------------- MODULE MCEngineRequests --------------------------
(***************************************************************************)
(* Systems for EngineRequests: two coordinate sets, two cells, and three   *)
(* lists of atoms, two of which have the same length.                      *)
(***************************************************************************)
EXTENDS EngineRequests

Atoms(pbcs) ==
  [coords : {1, 2}, cell : {"box", "larger"}, pbc : pbcs,
   numbers : {<<"O", "O">>, <<"N", "N">>, <<"O", "N", "O">>}]

MCOpenSystems == Atoms({"some", "none"})
MCCrystals == {a \in Atoms({"all"}) : a.cell = "box"}
MCNoOverrides == {}
MCStressOn == {<<"CELL STRESS", TRUE>>}

=============================================================================
