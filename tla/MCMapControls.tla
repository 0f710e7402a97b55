--------------------------- MODULE MCMapControls ---------------------------
(***************************************************************************)
(* MapControls for TLC: two of everything that can be chosen, one brand in *)
(* the top.  The zones: none of the named brands; brand 2 in the top, alone *)
(* with the bucket or before brand 1; a draw, which brand 1 wins by its    *)
(* name.                                                                   *)
(***************************************************************************)
EXTENDS MapControls

Of(bucket, first, second) ==
    [b \in Named |-> IF b = BUCKET THEN bucket ELSE IF b = 1 THEN first ELSE second]

ZonesDef == {Of(1, 0, 0), Of(0, 1, 2), Of(1, 0, 2), Of(0, 2, 2)}
=============================================================================
