---------------------------- MODULE MCSchedules ----------------------------
(***************************************************************************)
(* Instances of Schedules for TLC: an expression for every other instant   *)
(* and one for every third.                                                *)
(***************************************************************************)
EXTENDS Schedules

CONSTANTS s1, s2, p1, p2, ann, second, third

McSlotsOf == [e \in Expression |->
                IF e = second THEN {t \in 0 .. Horizon : t % 2 = 0}
                              ELSE {t \in 0 .. Horizon : t % 3 = 0}]
=============================================================================
