------------------------- MODULE MCUpstreamClients -------------------------
(***************************************************************************)
(* Model values for UpstreamClients: points of one cell, up to two radii,  *)
(* a station, and a place asked for in Italian and in a language that the  *)
(* geocoder does not tell from none.                                       *)
(***************************************************************************)
EXTENDS UpstreamClients, TLC

CONSTANTS p1, p2, near

Rounding == [p \in Points |-> near]

Prefixes == [l \in Languages |-> IF l = "it-IT" THEN "it" ELSE l]

Symmetry == Permutations(Requests)
=============================================================================
