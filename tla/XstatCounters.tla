--------------------------- MODULE XstatCounters ---------------------------
(***************************************************************************)
(* What the counters of xstat add up to: the time stamp, which all threads *)
(* take through one static variable, the interval since the node's last    *)
(* sample, a perf event on each CPU of the node, the energy counter, whose *)
(* register wraps round, and the reasons for which the processor was slowed*)
(* down, whose register keeps them until they are cleared. The thread of a *)
(* node goes through them in this order, again and again, between an on and*)
(* an off. Temperature and energy unit are read from a register and leave  *)
(* nothing behind.                                                         *)
(*                                                                         *)
(* The clock, the CPUs and the registers are external. A double is exact.  *)
(***************************************************************************)
EXTENDS Integers, FiniteSetsExt

CONSTANTS
  Node,       \* the nodes, one thread each
  Cpu,        \* the CPUs
  Mask,       \* Mask[n]: the CPUs of the node n
  NSEC,       \* units of time in a second (1000000000)
  TIME,       \* values of a uint64_t that holds a time (2^64)
  ERANGE,     \* values of the energy register (2^32)
  Threshold,  \* perf_overflow_threshold
  Reason,     \* log bits of MSR_CORE_PERF_LIMIT_REASONS
  Limits      \* bounds: how far clock, energy, events and reasons go in one behaviour

ASSUME CountersAssumption ==
  /\ Mask \in [Node -> SUBSET Cpu]
  /\ \A n, m \in Node : n # m => Mask[n] \cap Mask[m] = {}
  /\ {NSEC, TIME, ERANGE} \subseteq Nat \ {0}
  /\ Threshold \in Nat
  /\ Limits \subseteq [clock : Nat, energy : Nat, enabled : Nat, logged : Nat, starts : Nat]
  (* A uint64_t has room for 584 years.                                    *)
  /\ \A l \in Limits : l.clock + NSEC <= TIME

VARIABLES
  limit,      \* the bounds of this behaviour
  clock,      \* the monotonic clock
  consumed,   \* consumed[n]: the energy, which MSR_PKG_ENERGY_STATUS shows modulo ERANGE
  event,      \* event[c]: what the perf event of the CPU shows, if it was made
  made,       \* the CPUs that have their perf event
  starts,     \* how often a thread was started
  sec, nsec,  \* get_time's static ts
  pc,         \* pc[n]: where the thread is
  call,       \* call[n]: what get_time is called for
  now,        \* now[n]: the clock as get_time's callee has read it
  rsec,       \* rsec[n]: the seconds timespec_to_ns has read
  ts,         \* ts[n]: working_buf[0], which the next ts_restart gets as last
  prev, this, \* ctxs[0] and ctxs[1] of the node
  saved,      \* saved[c]: the event as it was read last
  laste,      \* laste[n]: the context of energy
  log,        \* log[n]: the log bits that are set
  logged,     \* how often one was set
  (* History: what the samples of a node add up to, and what it should be.  *)
  since,      \* the earliest clock that a get_time can come by
  intervals, energies, seen, lapped,
  counts,     \* counts[c]: what the samples of its node had from the CPU since on
  ignored,    \* the CPUs of which a reading was too large
  unreported, \* unreported[n]: reasons that were logged since a sample had them
  missed      \* missed[n]: those that were logged between reading and clearing

world   == <<limit, clock, consumed, event, made, starts>>
time    == <<sec, nsec, call, now, rsec, ts, prev, this, since, intervals>>
energy  == <<laste, energies, seen, lapped>>
perf    == <<saved, counts, ignored>>
perflmt == <<log, logged, unreported, missed>>
vars    == <<world, time, energy, perf, perflmt, pc>>

Zero == [total |-> 0, enabled |-> 0, running |-> 0]

Init ==
  /\ limit \in Limits
  /\ clock = 0
  /\ consumed \in [Node -> 0 .. ERANGE - 1]
  /\ \A n \in Node : limit.energy = 0 => consumed[n] = 0
  /\ event = [c \in Cpu |-> Zero]
  /\ made = {}
  /\ starts = 0
  /\ sec = 0 /\ nsec = 0
  /\ pc = [n \in Node |-> "off"]
  /\ call = [n \in Node |-> "none"]
  /\ now = [n \in Node |-> 0]
  /\ rsec = [n \in Node |-> 0]
  /\ ts = [n \in Node |-> 0]
  /\ prev = [n \in Node |-> 0]
  /\ this = [n \in Node |-> 0]
  /\ saved = [c \in Cpu |-> Zero]
  /\ laste = [n \in Node |-> 0]
  /\ since = [n \in Node |-> 0]
  /\ intervals = [n \in Node |-> 0]
  /\ energies = [n \in Node |-> 0]
  /\ seen = [n \in Node |-> 0]
  /\ counts = [c \in Cpu |-> 0]
  /\ lapped = {}
  /\ ignored = {}
  /\ log = [n \in Node |-> {}]
  /\ logged = 0
  /\ unreported = [n \in Node |-> {}]
  /\ missed = [n \in Node |-> {}]

-----------------------------------------------------------------------------
(* The world.                                                              *)

Tick ==
  /\ clock < limit.clock
  /\ clock' = clock + 1
  /\ UNCHANGED <<limit, consumed, event, made, starts, time, energy, perf, perflmt, pc>>

Consume(n) ==
  /\ consumed[n] < limit.energy
  /\ consumed' = [consumed EXCEPT ![n] = @ + 1]
  /\ UNCHANGED <<limit, clock, event, made, starts, time, energy, perf, perflmt, pc>>

(* An event counts only while it has one of the CPU's registers; the events*)
(* take turns at them.                                                     *)
Count(c) ==
  /\ c \in made
  /\ event[c].enabled < limit.enabled
  /\ \/ event' = [event EXCEPT ![c].enabled = @ + 1]
     \/ \E k \in 0 .. 1 :
          event' = [event EXCEPT ![c] = [total   |-> @.total + k,
                                         enabled |-> @.enabled + 1,
                                         running |-> @.running + 1]]
  /\ UNCHANGED <<limit, clock, consumed, made, starts, time, energy, perf, perflmt, pc>>

(* The processor is slowed down, or still is.                              *)
Limited(n, r) ==
  /\ logged < limit.logged
  /\ logged' = logged + 1
  /\ log' = [log EXCEPT ![n] = @ \cup {r}]
  /\ unreported' = [unreported EXCEPT ![n] = @ \cup {r}]
  /\ missed' = IF pc[n] = "perflmt_clear" THEN [missed EXCEPT ![n] = @ \cup {r}] ELSE missed
  /\ UNCHANGED <<world, time, energy, perf, pc>>

-----------------------------------------------------------------------------
(* get_time, which the thread calls twice in a turn of its loop: in        *)
(* ts_restart, and when it has rolled the buffer.                          *)

Goto(n, p) == pc' = [pc EXCEPT ![n] = p]

(* do_posix_clock_monotonic_gettime(&ts) sets the seconds ...              *)
SetSec(n) ==
  /\ pc[n] \in {"ts", "after"}
  /\ call' = [call EXCEPT ![n] = pc[n]]
  /\ now' = [now EXCEPT ![n] = clock]
  /\ sec' = clock \div NSEC
  /\ since' = [since EXCEPT ![n] =
                 Min({clock} \cup {now[m] : m \in {x \in Node : pc[x] = "set_nsec"}})]
  /\ Goto(n, "set_nsec")
  /\ UNCHANGED <<world, nsec, rsec, ts, prev, this, intervals, energy, perf, perflmt>>

(* ... and the rest. The mutant leaves it as it is.                        *)
SetNsecNot(n) ==
  /\ pc[n] = "set_nsec"
  /\ Goto(n, "read_sec")
  /\ UNCHANGED <<world, time, energy, perf, perflmt>>

SetNsec(n) ==
  /\ pc[n] = "set_nsec"
  /\ nsec' = now[n] % NSEC
  /\ Goto(n, "read_sec")
  /\ UNCHANGED <<world, sec, call, now, rsec, ts, prev, this, since, intervals, energy, perf, perflmt>>

(* timespec_to_ns(&ts) reads them one after the other.                     *)
ReadSec(n) ==
  /\ pc[n] = "read_sec"
  /\ rsec' = [rsec EXCEPT ![n] = sec]
  /\ Goto(n, "read_nsec")
  /\ UNCHANGED <<world, sec, nsec, call, now, ts, prev, this, since, intervals, energy, perf, perflmt>>

(* The call's own variables are gone with it.                              *)
Return(n) ==
  /\ call' = [call EXCEPT ![n] = "none"]
  /\ now' = [now EXCEPT ![n] = 0]
  /\ rsec' = [rsec EXCEPT ![n] = 0]

Time(n) == (rsec[n] * NSEC + nsec) % TIME

(* The rest of ts_restart: the sample's time stamp, and for intv the last  *)
(* one and this one. The mutant has these two the wrong way round.         *)
TsRestartSwapped(n) ==
  /\ pc[n] = "read_nsec" /\ call[n] = "ts"
  /\ prev' = [prev EXCEPT ![n] = Time(n)]
  /\ this' = [this EXCEPT ![n] = ts[n]]
  /\ ts' = [ts EXCEPT ![n] = Time(n)]
  /\ Return(n)
  /\ Goto(n, "intv")
  /\ UNCHANGED <<world, sec, nsec, since, intervals, energy, perf, perflmt>>

TsRestart(n) ==
  /\ pc[n] = "read_nsec" /\ call[n] = "ts"
  /\ prev' = [prev EXCEPT ![n] = ts[n]]
  /\ this' = [this EXCEPT ![n] = Time(n)]
  /\ ts' = [ts EXCEPT ![n] = Time(n)]
  /\ Return(n)
  /\ Goto(n, "intv")
  /\ UNCHANGED <<world, sec, nsec, since, intervals, energy, perf, perflmt>>

(* The second time only decides on the sleep (see XstatPacing).            *)
AfterRoll(n) ==
  /\ pc[n] = "read_nsec" /\ call[n] = "after"
  /\ Return(n)
  /\ since' = [since EXCEPT ![n] = 0]
  /\ Goto(n, "sleep")
  /\ UNCHANGED <<world, sec, nsec, ts, prev, this, intervals, energy, perf, perflmt>>

-----------------------------------------------------------------------------
(* The other counters.                                                     *)

IntvRestart(n) ==
  /\ pc[n] = "intv"
  /\ intervals' = [intervals EXCEPT ![n] = (@ + this[n] - prev[n]) % TIME]
  /\ since' = [since EXCEPT ![n] = 0]
  /\ Goto(n, "perf")
  /\ UNCHANGED <<world, sec, nsec, call, now, rsec, ts, prev, this, energy, perf, perflmt>>

(* perf_restart adds up over the CPUs what each has counted since the last *)
(* sample, scaled up by the time for which its event did not count. A      *)
(* reading that did not run on is dropped, and so is a scaled one that is  *)
(* too large.                                                              *)
Stale(c) ==
  \/ event[c].total < saved[c].total
  \/ event[c].enabled < saved[c].enabled
  \/ event[c].running <= saved[c].running

(* Rounded to the nearest: a quotient plus a half, cut off. The mutant     *)
(* scales down.                                                            *)
Rounded(a, b) == (2 * a + b) \div (2 * b)

ScaledDown(c) ==
  Rounded((event[c].total - saved[c].total) * (event[c].running - saved[c].running),
          event[c].enabled - saved[c].enabled)

Scaled(c) ==
  Rounded((event[c].total - saved[c].total) * (event[c].enabled - saved[c].enabled),
          event[c].running - saved[c].running)

TooLarge(c) == ~Stale(c) /\ Scaled(c) > Threshold
Delta(c) == IF Stale(c) \/ TooLarge(c) THEN 0 ELSE Scaled(c)

Read(n) == Mask[n] \cap made

PerfRestart(n) ==
  /\ pc[n] = "perf"
  /\ counts' = [c \in Cpu |-> IF c \in Read(n) THEN counts[c] + Delta(c) ELSE counts[c]]
  /\ ignored' = ignored \cup {c \in Read(n) : TooLarge(c)}
  /\ saved' = [c \in Cpu |-> IF c \in Read(n) THEN event[c] ELSE saved[c]]
  /\ Goto(n, "energy")
  /\ UNCHANGED <<world, time, energy, perflmt>>

(* energy_restart. If the register is lower than it was it has wrapped     *)
(* round, once. The mutant does not expect that.                           *)
UnwrappedToZero(n) ==
  LET eread == consumed[n] % ERANGE
  IN  IF eread < laste[n] THEN eread ELSE eread - laste[n]

Unwrapped(n) ==
  LET eread == consumed[n] % ERANGE
  IN  IF eread < laste[n] THEN eread + ERANGE - laste[n] ELSE eread - laste[n]

EnergyRestart(n) ==
  /\ pc[n] = "energy"
  /\ laste' = [laste EXCEPT ![n] = consumed[n] % ERANGE]
  /\ energies' = [energies EXCEPT ![n] = @ + Unwrapped(n)]
  /\ seen' = [seen EXCEPT ![n] = consumed[n]]
  /\ lapped' = IF consumed[n] - seen[n] >= ERANGE THEN lapped \cup {n} ELSE lapped
  /\ Goto(n, "perflmt")
  /\ UNCHANGED <<world, time, perf, perflmt>>

(* perflmt_restart reads the log bits for the sample ...                   *)
PerflmtRead(n) ==
  /\ pc[n] = "perflmt"
  /\ unreported' = [unreported EXCEPT ![n] = @ \ log[n]]
  /\ missed' = [missed EXCEPT ![n] = @ \ log[n]]
  /\ Goto(n, "perflmt_clear")
  /\ UNCHANGED <<world, time, energy, perf, log, logged>>

(* ... and clears them. The mutant has the bits of the mask the other way  *)
(* round.                                                                  *)
PerflmtKeep(n) ==
  /\ pc[n] = "perflmt_clear"
  /\ Goto(n, "after")
  /\ UNCHANGED <<world, time, energy, perf, perflmt>>

PerflmtClear(n) ==
  /\ pc[n] = "perflmt_clear"
  /\ log' = [log EXCEPT ![n] = {}]
  /\ Goto(n, "after")
  /\ UNCHANGED <<world, time, energy, perf, logged, unreported, missed>>

-----------------------------------------------------------------------------
(* The thread.                                                             *)

(* on: perf_init gives the thread a context that is zeroed, and an event   *)
(* for each CPU for which one can be made. The other contexts are those of *)
(* the last thread.                                                        *)
Start(n) ==
  /\ pc[n] = "off"
  /\ starts < limit.starts
  /\ starts' = starts + 1
  /\ \E ok \in SUBSET Mask[n] : made' = made \cup ok
  /\ saved' = [c \in Cpu |-> IF c \in Mask[n] THEN Zero ELSE saved[c]]
  /\ counts' = [c \in Cpu |-> IF c \in Mask[n] THEN 0 ELSE counts[c]]
  /\ ignored' = ignored \ Mask[n]
  /\ Goto(n, "ts")
  /\ UNCHANGED <<limit, clock, consumed, event, time, energy, perflmt>>

(* The sleep is over.                                                      *)
NextSample(n) ==
  /\ pc[n] = "sleep"
  /\ Goto(n, "ts")
  /\ UNCHANGED <<world, time, energy, perf, perflmt>>

(* off: perf_exit releases the events.                                     *)
Exit(n) ==
  /\ pc[n] = "sleep"
  /\ made' = made \ Mask[n]
  /\ event' = [c \in Cpu |-> IF c \in Mask[n] THEN Zero ELSE event[c]]
  /\ Goto(n, "off")
  /\ UNCHANGED <<limit, clock, consumed, starts, time, energy, perf, perflmt>>

-----------------------------------------------------------------------------
World == Tick \/ (\E n \in Node : Consume(n) \/ \E r \in Reason : Limited(n, r))
              \/ (\E c \in Cpu : Count(c))
GetTime(n) == SetSec(n) \/ SetNsec(n) \/ ReadSec(n)
RollBuffer(n) == TsRestart(n) \/ IntvRestart(n) \/ PerfRestart(n) \/ EnergyRestart(n)
                 \/ PerflmtRead(n) \/ PerflmtClear(n)
Thread(n) == GetTime(n) \/ RollBuffer(n) \/ AfterRoll(n) \/ Start(n) \/ NextSample(n) \/ Exit(n)

Next == World \/ \E n \in Node : Thread(n)

Spec == Init /\ [][Next]_vars

-----------------------------------------------------------------------------
(* Properties.                                                             *)

(* A time stamp lies between the clock at the beginning of its get_time, or*)
(* of one that was still writing the static variable then, and the present *)
(* clock. If a second began meanwhile it may have been put together from   *)
(* two times, and then is off by less than a second.                       *)
StampIsCurrent ==
  \A n \in Node : pc[n] = "intv" =>
    /\ since[n] \div NSEC = clock \div NSEC => ts[n] \in since[n] .. clock
    /\ since[n] - NSEC < ts[n]
    /\ ts[n] < clock + NSEC

(* The intervals of a node add up to its time stamp, also if that ran      *)
(* backwards, and over every off and on: no time is counted twice or lost. *)
IntervalsAddUp ==
  \A n \in Node : pc[n] = "perf" => intervals[n] = ts[n]

(* The energies of a node add up to what the register has counted since it *)
(* was zero, however often it wrapped round, if between two samples, or    *)
(* between an off and an on, it does not come round to where it was.       *)
EnergyAddsUp ==
  \A n \in Node : pc[n] = "perflmt" =>
    /\ energies[n] % ERANGE = seen[n] % ERANGE
    /\ n \notin lapped => energies[n] = seen[n]

(* What the samples of a node had from a CPU since on is at least what its *)
(* event had counted at the last reading, and exactly that if it counted   *)
(* all the time, unless a reading was ignored because it was too large.    *)
CountsAddUp ==
  \A c \in made \ ignored :
    /\ counts[c] >= saved[c].total
    /\ saved[c].running = saved[c].enabled => counts[c] = saved[c].total

(* Every reason that was logged is in a sample once: one that no sample has*)
(* is still in the register, over every off and on, and what is in the     *)
(* register no sample has, unless the reason came between a reading of the *)
(* register and its clearing - and that sample did not have it.            *)
LimitsReported ==
  \A n \in Node :
    /\ unreported[n] \subseteq log[n] \cup missed[n]
    /\ pc[n] # "perflmt_clear" => log[n] \subseteq unreported[n]
=============================================================================
