---------------------------- MODULE MCActiveCooler ----------------------------
(***************************************************************************)
(* Model checking values for ActiveCooler.                                 *)
(***************************************************************************)
EXTENDS ActiveCooler

\* One reading on either side of some trip and release points of the built-in
\* curve: 44.65, 49.6, 50.15, 59.5, 62.25, 70.5 and 75.45 C.
MCRawReadings == {737, 728, 727, 710, 705, 690, 681}

Trips(a, b, c, d) == [l \in 1 .. 4 |-> IF l = 1 THEN a ELSE IF l = 2 THEN b ELSE IF l = 3 THEN c ELSE d]

\* A custom curve with trips closer than the hysteresis, one out of order
\* (unusable), and a fixed level that does not exist.
MCPolicyVars ==
  {[Mode |-> CUSTOM, FixedLevel |-> 0, TripC |-> Trips(45, 48, 70, 72)],
   [Mode |-> CUSTOM, FixedLevel |-> 0, TripC |-> Trips(60, 50, 70, 80)],
   [Mode |-> FIXED, FixedLevel |-> 9, TripC |-> Trips(0, 0, 0, 0)]}
MCBmcLevels == {-1, 0, 4, 5, 256}
=============================================================================
