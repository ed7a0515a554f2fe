---------------------------- MODULE XstatPacing -----------------------------
(***************************************************************************)
(* How long the thread of an xstat node sleeps between two samples: the    *)
(* part of kthread_function around roll_buffer (xstat.c).  The sample's    *)
(* time stamp is taken when roll_buffer begins (ts_restart); what roll_    *)
(* buffer took since is taken off ctrl_period, which is read three times   *)
(* without a lock, while a process may write it. Both times come from      *)
(* get_time, whose static variable the threads of all nodes share: by      *)
(* XstatCounters' StampIsCurrent each may be off by less than a second,    *)
(* either way, so that the second can even be before the first.            *)
(*                                                                         *)
(* The clock counts ticks (the code's nanoseconds); ctrl_period and        *)
(* tosleep are in milliseconds.  When the thread ends is the concern of    *)
(* XstatCtl: it is a loop here. What the same thread samples is in         *)
(* XstatCounters; the two modules have no name in common.                  *)
(***************************************************************************)
EXTENDS Integers

CONSTANTS
  MS,        \* ticks to a millisecond (1000000)
  U64,      \* values of a uint64_t that holds a time (2^64)
  INT,       \* half the values of an int (2^31)
  Period,    \* values store_period_attr accepts (1 .. 9999)
  Cost,      \* ticks from ts_restart to the get_time after roll_buffer
  Skew,      \* by how many ticks what get_time returns may be off
  Delay      \* ticks schedule() may give to others

(* The ticks that the thread believes to have passed.                      *)
Seen == {c + second - first : c \in Cost, first \in Skew, second \in Skew}

(* What a number of ticks is in milliseconds.                              *)
Millis(ticks) == ticks \div MS

(* An unsigned int that is used as an int.                                 *)
Signed(u) == IF u < INT THEN u ELSE u - 2 * INT

(* What is left of a period of p ms when the difference of the two times   *)
(* is e: unsigned ints, of which the last becomes an int.                  *)
LeftOf(p, e) == Signed((p - Millis(e) - 1) % (2 * INT))

ASSUME PacingAssumption ==
  /\ MS \in Nat \ {0} /\ U64 \in Nat \ {0} /\ INT \in Nat \ {0}
  /\ Period \subseteq 1 .. INT - 1
  /\ Cost \subseteq Nat /\ Skew \subseteq Int /\ Delay \subseteq Nat
  (* A sample takes less than 24 days.                                      *)
  /\ \A t \in Seen : -U64 <= t /\ t < U64 /\ Millis(t) < INT
  (* The difference of a second time that is before the first wraps round, *)
  (* and leaves more than any period: in the code some 140 million, as long*)
  (* as it was less than a day.                                            *)
  /\ \A t \in Seen : t < 0 => \A p, q \in Period : LeftOf(p, t + U64) > q

VARIABLES
  ctrl_period,
  kpc,       \* where kthread_function is
  elapsed,   \* after_roll - ctxs[1]
  tosleep,
  (* History.                                                              *)
  cost,      \* ticks from one to the other, by the clock
  skew,      \* by how many the difference is wrong
  gap,       \* ticks to the next sample, by the clock
  asked,     \* what the first read of ctrl_period returned
  most,      \* what the last returned
  raced      \* one of the others returned something else than the first

history == <<cost, skew, gap, asked, most, raced>>
pacing  == <<ctrl_period, kpc, elapsed, tosleep, history>>

PacingInit ==
  /\ ctrl_period \in Period
  /\ kpc = "roll"
  /\ elapsed = 0
  /\ tosleep = 0
  /\ cost = 0 /\ skew = 0 /\ gap = 0
  /\ asked = ctrl_period
  /\ most = ctrl_period
  /\ raced = FALSE

(* roll_buffer, and get_time after it.                                     *)
Roll ==
  /\ kpc = "roll"
  /\ \E c \in Cost : \E first, second \in Skew :
       /\ cost' = c
       /\ skew' = second - first
       /\ elapsed' = (c + second - first) % U64
  /\ kpc' = "subtract"
  /\ UNCHANGED <<ctrl_period, tosleep, gap, asked, most, raced>>

(* What is left of a period of p ms. The mutant is late by one.            *)
LeftLate(p) == LeftOf(p + 1, elapsed)
Left(p) == LeftOf(p, elapsed)

(* tosleep = ctrl_period - tosleep - 1, and not less than 0.  The mutant   *)
(* lacks the second line.                                                  *)
SubtractOnly ==
  /\ kpc = "subtract"
  /\ tosleep' = Left(ctrl_period)
  /\ asked' = ctrl_period
  /\ kpc' = "compare"
  /\ UNCHANGED <<ctrl_period, elapsed, cost, skew, gap, most, raced>>

Subtract ==
  /\ kpc = "subtract"
  /\ tosleep' = IF Left(ctrl_period) <= 0 THEN 0 ELSE Left(ctrl_period)
  /\ asked' = ctrl_period
  /\ kpc' = "compare"
  /\ UNCHANGED <<ctrl_period, elapsed, cost, skew, gap, most, raced>>

(* if (tosleep > ctrl_period) compares as unsigned: a negative tosleep is  *)
(* larger than any period.                                                 *)
Exceeds(t, p) == t < 0 \/ t > p

Compare ==
  /\ kpc = "compare"
  /\ kpc' = IF Exceeds(tosleep, ctrl_period) THEN "limit" ELSE "sleep"
  /\ most' = ctrl_period
  /\ raced' = (ctrl_period # asked)
  /\ UNCHANGED <<ctrl_period, elapsed, tosleep, cost, skew, gap, asked>>

(* ... tosleep = ctrl_period, which is read once more.                     *)
Limit ==
  /\ kpc = "limit"
  /\ tosleep' = ctrl_period
  /\ most' = ctrl_period
  /\ raced' = (raced \/ ctrl_period # asked)
  /\ kpc' = "sleep"
  /\ UNCHANGED <<ctrl_period, elapsed, cost, skew, gap, asked>>

(* msleep sleeps to the end of the jiffy after the last it was asked for;  *)
(* a jiffy is a millisecond, and the thread runs as soon as it can.        *)
Slept(t) == t * MS + 1 .. t * MS + MS

Sleep ==
  /\ kpc = "sleep"
  /\ \/ tosleep # 0 /\ \E d \in Slept(tosleep) : gap' = cost + d
     \/ tosleep = 0 /\ \E d \in Delay : gap' = cost + d
  /\ kpc' = "awake"
  /\ UNCHANGED <<ctrl_period, elapsed, tosleep, cost, skew, asked, most, raced>>

(* On to the next sample, which sets all of these anew.                    *)
Again ==
  /\ kpc = "awake"
  /\ kpc' = "roll"
  /\ elapsed' = 0 /\ tosleep' = 0
  /\ cost' = 0 /\ skew' = 0 /\ gap' = 0
  /\ asked' = ctrl_period /\ most' = ctrl_period /\ raced' = FALSE
  /\ UNCHANGED ctrl_period

(* store_period_attr.  Its ctrl_lock keeps out nobody who reads.           *)
StorePeriod ==
  /\ ctrl_period' \in Period
  /\ UNCHANGED <<kpc, elapsed, tosleep, history>>

PacingNext == Roll \/ Subtract \/ Compare \/ Limit \/ Sleep \/ Again \/ StorePeriod

PacingSpec == PacingInit /\ [][PacingNext]_pacing

-----------------------------------------------------------------------------
(* Properties.                                                             *)

PacingTypeOK ==
  /\ ctrl_period \in Period
  /\ kpc \in {"roll", "subtract", "compare", "limit", "sleep", "awake"}
  /\ elapsed \in 0 .. U64 - 1
  /\ tosleep \in Nat
  /\ cost \in Nat
  /\ skew \in Int
  /\ gap \in Nat
  /\ asked \in Period
  /\ most \in Period
  /\ raced \in BOOLEAN

(* If nobody writes it between its reads, a period that leaves time to     *)
(* sleep is kept to within one millisecond, though roll_buffer's time is   *)
(* cut down and msleep's is rounded up, but for what the two times of      *)
(* get_time were wrong by, which puts off the next sample or brings it     *)
(* forward by just that. Where the second time was before the first the    *)
(* thread sleeps a whole period, as if the sample had taken no time.       *)
PeriodKept ==
  kpc = "awake" /\ ~raced =>
    /\ cost + skew >= 0 /\ tosleep # 0 =>
         (asked - 1) * MS < gap + skew /\ gap + skew < (asked + 1) * MS
    /\ cost + skew < 0 => asked * MS < gap - cost /\ gap - cost <= (asked + 1) * MS

(* A thread that is late, because roll_buffer took as long as the period,  *)
(* takes the next sample without a sleep, though what is left is negative; *)
(* and whatever the times of get_time are worth, and whatever is written   *)
(* between the reads of ctrl_period, the thread never sleeps longer than   *)
(* the last period it saw.                                                 *)
NeverTooLong ==
  kpc \in {"sleep", "awake"} =>
    /\ cost + skew >= asked * MS => tosleep = 0
    /\ tosleep <= most

(* What makes these inductive.                                             *)
Clamped(left) == IF left <= 0 THEN 0 ELSE left

Accounted ==
  /\ kpc # "roll" => cost + skew \in Seen /\ elapsed = (cost + skew) % U64
  /\ kpc = "compare" => tosleep = Clamped(Left(asked))
  /\ kpc = "limit" =>
       /\ tosleep = Clamped(Left(asked))
       /\ tosleep > most
       /\ raced <=> most # asked
  /\ kpc \in {"sleep", "awake"} =>
       /\ tosleep <= most
       /\ Clamped(Left(asked)) = 0 => tosleep = 0
       /\ ~raced =>
            /\ most = asked
            /\ tosleep = IF Clamped(Left(asked)) > asked THEN asked ELSE Clamped(Left(asked))
  /\ kpc = "awake" /\ tosleep # 0 => \E d \in Slept(tosleep) : gap = cost + d

PacingIInv == PacingTypeOK /\ Accounted
=============================================================================
