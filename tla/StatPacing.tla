----------------------------- MODULE StatPacing -----------------------------
(***************************************************************************)
(* How long the sampling thread of haswellstat, sbstat and micstat sleeps  *)
(* between two samples: kthread_function takes the overhead of the sample  *)
(* it has just made off the period, and sleeps longer where that would     *)
(* leave too large a share of the time to sampling.  It reads period twice *)
(* without a lock, while a process may write it.                           *)
(*                                                                         *)
(* The clock counts ticks (the code's nanoseconds); period, oh and tosleep *)
(* are in milliseconds.  What the same thread samples is in StatCounters;  *)
(* the two modules have no name in common. That the overhead measured is   *)
(* the time the sample took, and nothing that wrapped round, is the        *)
(* OverheadIsReal of that module, with its exception.                      *)
(***************************************************************************)
EXTENDS Integers

CONSTANTS
  MS,        \* ticks to a millisecond (1000000)
  UINT,      \* an unsigned int is a number modulo UINT (2^32)
  Period,    \* values micstat_store_period accepts (101 .. 9999)
  Cost,      \* ticks from ts_restart to oh_restart of one sample
  Rest       \* ticks a sample may wait for locks and the processor, and to
             \* publish it

ASSUME PacingAssumption ==
  /\ MS \in Nat \ {0}
  /\ UINT \in Nat \ {0}
  /\ Period \subseteq 1 .. UINT - 1
  (* st_oh is read after st_current, and a sample takes less than the ten   *)
  (* days after which oh * 5 would not fit.                                 *)
  /\ \A c \in Cost : c \in Nat /\ 5 * (c \div MS) < UINT
  /\ Rest \subseteq Nat

VARIABLES
  period,
  kpc,       \* where kthread_function is
  cost,      \* st_oh - st_current
  oh, tosleep,
  (* History.                                                              *)
  asked,     \* what the first read of period returned
  raced,     \* the second read returned something else
  rest,      \* ticks to the next sample but for cost and sleep
  gap        \* ticks to the next sample

pacing == <<period, kpc, cost, oh, tosleep, asked, raced, rest, gap>>

PacingInit ==
  /\ period \in Period
  /\ kpc = "roll"
  /\ cost = 0
  /\ oh = 0
  /\ tosleep = 0
  /\ asked = period
  /\ raced = FALSE
  /\ rest = 0 /\ gap = 0

(* What a number of ticks is in milliseconds.                              *)
Millis(ticks) == ticks \div MS

(* roll_buffer, and the overhead of it.                                    *)
Roll ==
  /\ kpc = "roll"
  /\ \E c \in Cost : cost' = c /\ oh' = Millis(c)
  /\ kpc' = "subtract"
  /\ UNCHANGED <<period, tosleep, asked, raced, rest, gap>>

(* tosleep = period - oh, which wraps.                                     *)
Subtract ==
  /\ kpc = "subtract"
  /\ tosleep' = (period - oh) % UINT
  /\ asked' = period
  /\ kpc' = "force"
  /\ UNCHANGED <<period, cost, oh, raced, rest, gap>>

(* Is a sample every period too much?  One mutant asks only whether it     *)
(* takes the whole period, the other never forces anything.                *)
TooMuchWhole == period < oh
TooMuchNever == FALSE
TooMuch == period < oh * 5

(* The second read of period.                                              *)
Lengthen ==
  /\ kpc = "force"
  /\ \/ TooMuch  /\ tosleep' = oh * 4
     \/ ~TooMuch /\ UNCHANGED tosleep
  /\ raced' = (period # asked)
  /\ kpc' = "sleep"
  /\ UNCHANGED <<period, cost, oh, asked, rest, gap>>

(* msleep sleeps to the end of the jiffy after the last it was asked for;  *)
(* a jiffy is a millisecond. What the thread waited for buffer_lock and    *)
(* took to publish, which is not in the overhead, and what it waits for    *)
(* ctrl_lock, where there is one, and for a processor is between the two   *)
(* samples as well.                                                        *)
SleepOver ==
  /\ kpc = "sleep"
  /\ \E d \in 1 .. MS : \E r \in Rest :
       /\ rest' = r
       /\ gap' = cost + r + tosleep * MS + d
  /\ kpc' = "awake"
  /\ UNCHANGED <<period, cost, oh, tosleep, asked, raced>>

(* On to the next sample, which sets all of these anew.                    *)
Again ==
  /\ kpc = "awake"
  /\ kpc' = "roll"
  /\ cost' = 0 /\ oh' = 0 /\ tosleep' = 0
  /\ asked' = period /\ raced' = FALSE
  /\ rest' = 0 /\ gap' = 0
  /\ UNCHANGED period

(* micstat_store_period, which takes no lock.                              *)
StorePeriod ==
  /\ period' \in Period
  /\ UNCHANGED <<kpc, cost, oh, tosleep, asked, raced, rest, gap>>

PacingNext == Roll \/ Subtract \/ Lengthen \/ SleepOver \/ Again \/ StorePeriod

PacingSpec == PacingInit /\ [][PacingNext]_pacing

-----------------------------------------------------------------------------
(* Properties.                                                             *)

PacingTypeOK ==
  /\ period \in Period
  /\ kpc \in {"roll", "subtract", "force", "sleep", "awake"}
  /\ cost \in Nat
  /\ oh \in Nat
  /\ tosleep \in 0 .. UINT - 1
  /\ asked \in Period
  /\ raced \in BOOLEAN
  /\ rest \in Nat
  /\ gap \in Nat

(* "force overhead / period < 20%" (stat.c:322): of the milliseconds that  *)
(* the code reckons with from one sample to the next, sampling takes less  *)
(* than a fifth.                                                           *)
OverheadBelow20 == kpc = "sleep" => oh * 5 < oh + tosleep

(* What the code achieves instead, if nobody writes a new period between   *)
(* its two reads: what it measures as overhead takes at most a fifth of the*)
(* time from one sample to the next and, because it is cut down to whole   *)
(* milliseconds first, less than a millisecond more (four fifths of one).  *)
OverheadAtMost20 == kpc = "awake" /\ ~raced => 5 * cost < gap + 4 * MS

(* If nobody writes it between the two reads, a period that leaves enough  *)
(* time is kept: but for what it had to wait for locks and took to publish *)
(* the sample, the next one starts after the period and less than two      *)
(* milliseconds late, though the overhead is cut down to whole milliseconds*)
(* before it is taken off and the sleep rounded up. And no sleep is longer *)
(* than the period or what the overhead forces, though the subtraction     *)
(* wraps round whenever a sample took longer than the period.              *)
PeriodKept ==
  kpc = "awake" /\ ~raced =>
    /\ oh * 5 <= asked => asked * MS < gap - rest /\ gap - rest < (asked + 2) * MS
    /\ tosleep <= asked \/ tosleep <= oh * 4

(* What makes these inductive.                                             *)
Accounted ==
  /\ oh = Millis(cost)
  /\ oh * 5 < UINT
  /\ kpc = "force" => tosleep = (asked - oh) % UINT
  /\ kpc \in {"sleep", "awake"} /\ ~raced =>
       IF asked < oh * 5 THEN tosleep = oh * 4 ELSE tosleep = asked - oh
  /\ kpc = "awake" => \E d \in 1 .. MS : gap = cost + rest + tosleep * MS + d

PacingIInv == PacingTypeOK /\ Accounted
=============================================================================
