--------------------------- MODULE MCStationView ---------------------------
(***************************************************************************)
(* Model values for StationView: with petrol selected, the zone around the *)
(* first station returns it alone and the one around the second both.      *)
(* With diesel both stations are in one zone, but the second has no price. *)
(* The first has no coordinates but those its entry stored.  The second is *)
(* told its coordinates by the server, after its entry was stored.         *)
(***************************************************************************)
EXTENDS StationView, TLC

CONSTANTS s1, s2, home1, home2, both

Returned == [z \in Zones |-> IF z = home1 THEN {s1} ELSE {s1, s2}]
WithPrice == [z \in Zones |-> IF z = home2 THEN {s1, s2} ELSE {s1}]
Fuels == [z \in Zones |-> IF z = both THEN "diesel" ELSE "petrol"]
Homes == [s \in Stations |->
            [fuel \in {Fuels[z] : z \in Zones} |->
                CASE fuel = "diesel" -> both
                  [] s = s1 -> home1
                  [] OTHER -> home2]]
Entries == {<<s1, TRUE>>, <<s2, FALSE>>}
=============================================================================
