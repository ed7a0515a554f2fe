---------------------------- MODULE MCStatPacing ----------------------------
(* A small instance of StatPacing for TLC: a millisecond has four ticks.   *)
EXTENDS StatPacing

(* The shortest period, one that is a multiple of five, and a longer one.  *)
MCPeriod == {101, 110, 600}

(* Samples of no time, of a part of a millisecond, of just under, exactly  *)
(* and just over a fifth of 110 ms, of more than each of the periods.      *)
MCCost == {0, 3, 87, 88, 91, 92, 120 * 4 + 1, 700 * 4}

(* Samples of more than a fifth of 110 ms, and of no other period's fifth. *)
MCCostOver == {93, 121 * 4 + 1}

(* Locks that are free, and one that a reader holds for some milliseconds. *)
MCRest == {0, 1, 9}
=============================================================================
