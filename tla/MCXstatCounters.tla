-------------------------- MODULE MCXstatCounters --------------------------
(* A small instance of XstatCounters for TLC.                              *)
EXTENDS XstatCounters

CONSTANTS n1, n2, c1, c2, r1, r2

MCNode == {n1, n2}
MCCpu == {c1, c2}
MCReason == {r1, r2}

(* The second node has a time and an energy only.                          *)
MCMask == [n \in MCNode |-> IF n = n1 THEN {c1, c2} ELSE {}]

(* Time, energy, events and reasons do not meet: each goes far in          *)
(* behaviours of its own, two threads in turn or at once. A second begins  *)
(* while the threads take the time, energy goes three times round the      *)
(* register, an event that is scaled up by four gets over the threshold,   *)
(* and a reason comes again before and after it was cleared.               *)
MCLimits ==
  { [clock |-> 3, energy |-> 0, enabled |-> 0, logged |-> 0, starts |-> 2],
    [clock |-> 0, energy |-> 6, enabled |-> 0, logged |-> 0, starts |-> 2],
    [clock |-> 0, energy |-> 0, enabled |-> 2, logged |-> 0, starts |-> 2],
    [clock |-> 0, energy |-> 0, enabled |-> 4, logged |-> 0, starts |-> 1],
    [clock |-> 0, energy |-> 0, enabled |-> 0, logged |-> 4, starts |-> 2] }
=============================================================================
