--------------------------- MODULE MCCollections ---------------------------
(***************************************************************************)
(* Collections for TLC.  Three stations for two places in the history; two *)
(* tabs; four openings let a station fall out and come back.  What is      *)
(* known of a station is one fact or nothing.                              *)
(***************************************************************************)
EXTENDS Collections, TLC

Symmetry == Permutations(Stations) \cup Permutations(Tabs)
=============================================================================
