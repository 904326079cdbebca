------------------------------ MODULE MCKtoSync -------------------------------
(* Three spots, one to a page; the order of spots of one instant is a, b, c.   *)
EXTENDS KtoSync, TLC

CONSTANTS a, b, c

MCSpots == {a, b, c}
MCEarly == {b, c}
MCOrder == a :> 1 @@ b :> 2 @@ c :> 3
==============================================================================
