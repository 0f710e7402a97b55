---------------------------- MODULE MCLifecycle ----------------------------
(***************************************************************************)
(* Lifecycle for TLC, in ticks of 5 seconds: 5 s to read, 15 s upstream,   *)
(* 20 s to write and to shut down.  Of three connections one can be in     *)
(* flight, one new and one idle when the signal comes.                     *)
(***************************************************************************)
EXTENDS Lifecycle
=============================================================================
