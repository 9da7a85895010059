----------------------------- MODULE MCSolochain -----------------------------
(* Small instances of Solochain for TLC.                                   *)
EXTENDS SolochainRefinement

CONSTANT t1

MCVoters == {"Alice", "Bob"}
MCNodes  == {"Alice", "Bob", "Full"}

=============================================================================
