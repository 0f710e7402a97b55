----------------------------- MODULE MCOverlays -----------------------------
(***************************************************************************)
(* Overlays for TLC.  Two removals per fade and two requests to go back    *)
(* are what a double click leaves behind; the third entry of the history   *)
(* is a tutorial replayed before the entry of the last one is gone.  Two   *)
(* texts: one whose answer is late.                                        *)
(***************************************************************************)
EXTENDS Overlays, TLC

Symmetry == Permutations(Queries)
=============================================================================
