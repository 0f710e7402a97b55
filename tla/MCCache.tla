------------------------------ MODULE MCCache ------------------------------
(***************************************************************************)
(* Cache for TLC: three keys contend for two places.  One value is enough: *)
(* an overwrite shows in the deadline, and in the order of use.            *)
(***************************************************************************)
EXTENDS Cache
=============================================================================
