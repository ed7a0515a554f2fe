--------------------------- MODULE MCXstatPacing ----------------------------
(* A small instance of XstatPacing for TLC: a millisecond has three ticks, *)
(* an int six bits, and a time eleven.                                     *)
EXTENDS XstatPacing

(* The shortest period, where there is never time to sleep, and some more. *)
MCPeriod == {1, 2, 3, 6}

(* Samples that take from nothing to more than the longest period.         *)
MCCost == 0 .. 20

(* Times that are off by a tick or by two milliseconds, or right.          *)
MCSkew == {-6, -1, 0, 1, 6}

(* schedule() returns at once, or after a while.                           *)
MCDelay == {0, 1, 5}
=============================================================================
