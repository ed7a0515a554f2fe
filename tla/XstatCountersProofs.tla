------------------------ MODULE XstatCountersProofs ------------------------
(***************************************************************************)
(* Proofs about XstatCounters, for any nodes, CPUs and registers, and about*)
(* XstatPacing, for any periods, costs and delays.                         *)
(***************************************************************************)
EXTENDS XstatCounters, XstatPacing, WellFoundedInduction, TLAPS

-----------------------------------------------------------------------------
(* Arithmetic.                                                             *)

(* A product is as ordered as its factor.                                  *)
LEMMA Multiple ==
  ASSUME NEW a \in Int, NEW b \in Int, NEW d \in Nat
  PROVE  a <= b => a * d <= b * d
<1>1. (b - a) * d = b * d - a * d
  OBVIOUS
<1>2. a <= b => (b - a) * d \in Nat
  OBVIOUS
<1> QED
  BY <1>1, <1>2

(* The beginning of a second, and that of the next.                        *)
LEMMA Seconds ==
  ASSUME NEW a \in Nat, NEW d \in Nat \ {0}
  PROVE  a * d \in Nat /\ (a + 1) * d \in Nat /\ (a + 1) * d = a * d + d
  OBVIOUS

LEMMA Division ==
  ASSUME NEW a \in Int, NEW d \in Nat \ {0}
  PROVE  /\ a = (a \div d) * d + (a % d)
         /\ a % d \in 0 .. d - 1
         /\ a \div d \in Int
         /\ a >= 0 => a \div d >= 0
  OBVIOUS

(* What is small enough does not wrap round.                               *)
LEMMA Remains ==
  ASSUME NEW d \in Nat \ {0}, NEW a \in 0 .. d - 1
  PROVE  a % d = a
  OBVIOUS

(* Only one quotient and remainder.                                        *)
LEMMA DivisionUnique ==
  ASSUME NEW d \in Nat \ {0}, NEW q \in Int, NEW r \in 0 .. d - 1
  PROVE  /\ (q * d + r) \div d = q
         /\ (q * d + r) % d = r
<1> DEFINE a == q * d + r
           p == a \div d
           s == a % d
<1>1. a \in Int /\ p \in Int /\ s \in 0 .. d - 1 /\ a = p * d + s
  BY Division
<1>2. a = q * d + r
  OBVIOUS
<1> HIDE DEF a, p, s
<1>3. q * d \in Int /\ p * d \in Int /\ (q + 1) * d = q * d + d /\ (p + 1) * d = p * d + d
  BY <1>1
<1>4. ~ (p + 1 <= q)
  BY <1>1, <1>2, <1>3, Multiple
<1>5. ~ (q + 1 <= p)
  BY <1>1, <1>2, <1>3, Multiple
<1>6. p = q
  BY <1>1, <1>4, <1>5
<1> QED
  BY <1>1, <1>2, <1>3, <1>6 DEF a, p, s

(* A quotient is the last multiple of d that is not larger.                *)
LEMMA Quotient ==
  ASSUME NEW d \in Nat \ {0}, NEW a \in Int, NEW q \in Int
  PROVE  /\ q * d <= a <=> q <= a \div d
         /\ a < (a \div d + 1) * d
<1> DEFINE p == a \div d
           s == a % d
<1>1. p \in Int /\ s \in 0 .. d - 1 /\ a = p * d + s
  BY Division
<1> HIDE DEF p, s
<1>2. q * d \in Int /\ p * d \in Int /\ (p + 1) * d = p * d + d
  BY <1>1
<1>3. q <= p => q * d <= p * d
  BY <1>1, Multiple
<1>4. p + 1 <= q => (p + 1) * d <= q * d
  BY <1>1, Multiple
<1> QED
  BY <1>1, <1>2, <1>3, <1>4 DEF p

(* The smallest of a set of times.                                         *)
LEMMA Smallest ==
  ASSUME NEW S \in SUBSET Nat, S # {}
  PROVE  Min(S) \in S /\ \A x \in S : Min(S) <= x
<1> DEFINE Less == {p \in Nat \X Nat : p[1] < p[2]}
<1>1. IsWellFoundedOn(Less, Nat)
  BY NatLessThanWellFounded DEF OpToRel
<1>2. PICK x \in S : \A y \in S : ~ (<<y, x>> \in Less)
  BY <1>1, WFMin
<1>3. \A y \in S : y < x => <<y, x>> \in Less
  OBVIOUS
<1> HIDE DEF Less
<1>4. \A y \in S : ~ (y < x)
  BY <1>2, <1>3, Zenon
<1>5. \A y \in S : x <= y
  BY <1>4
<1> QED
  BY <1>5 DEF Min

(* A product scaled up by what is not less than one is not less, and the   *)
(* same if it is one.                                                      *)
LEMMA RoundedUp ==
  ASSUME NEW t \in Nat, NEW e \in Nat, NEW r \in Nat \ {0}, r <= e
  PROVE  /\ Rounded(t * e, r) \in Nat
         /\ Rounded(t * e, r) >= t
         /\ r = e => Rounded(t * e, r) = t
<1> DEFINE a == 2 * (t * e) + r
           d == 2 * r
<1>1. t * e \in Nat /\ t * r \in Nat /\ t * d = 2 * (t * r)
  OBVIOUS
<1>2. e * t >= r * t /\ e * t = t * e /\ r * t = t * r
  BY Multiple
<1>3. a \in Nat /\ d \in Nat \ {0} /\ t * d <= a
  BY <1>1, <1>2
<1>4. Rounded(t * e, r) = a \div d
  BY DEF Rounded
<1>5. r = e => a = t * d + r /\ r \in 0 .. d - 1
  BY <1>1
<1> HIDE DEF a, d
<1>6. t <= a \div d /\ a \div d \in Int
  BY <1>3, Quotient, Division
<1>7. r = e => a \div d = t
  BY <1>3, <1>5, DivisionUnique
<1> QED
  BY <1>4, <1>6, <1>7

-----------------------------------------------------------------------------
(* The inductive invariant of the counters.                                *)

Place   == {"off", "ts", "after", "set_nsec", "read_sec", "read_nsec", "intv", "perf", "energy",
            "perflmt", "perflmt_clear", "sleep"}
Reading == [total : Nat, enabled : Nat, running : Nat]
Stamp   == 0 .. TIME - 1

WorldType ==
  /\ limit \in Limits
  /\ clock \in 0 .. limit.clock
  /\ consumed \in [Node -> Nat]
  /\ event \in [Cpu -> Reading]
  /\ made \subseteq Cpu
  /\ pc \in [Node -> Place]

TimeType ==
  /\ sec \in Nat /\ nsec \in 0 .. NSEC - 1
  /\ now \in [Node -> Nat] /\ rsec \in [Node -> Nat] /\ since \in [Node -> Nat]
  /\ ts \in [Node -> Stamp] /\ prev \in [Node -> Stamp] /\ this \in [Node -> Stamp]
  /\ intervals \in [Node -> Stamp]

CounterType ==
  /\ saved \in [Cpu -> Reading]
  /\ counts \in [Cpu -> Nat]
  /\ laste \in [Node -> 0 .. ERANGE - 1]
  /\ energies \in [Node -> Nat] /\ seen \in [Node -> Nat]
  /\ log \in [Node -> SUBSET Reason]
  /\ unreported \in [Node -> SUBSET Reason] /\ missed \in [Node -> SUBSET Reason]

TypeOK == WorldType /\ TimeType /\ CounterType

(* Wherever a thread is in get_time, the second in the static variable, and*)
(* all that is still to be written there, are not older than since.        *)
Taking(n) == pc[n] \in {"set_nsec", "read_sec", "read_nsec"}

OneTaking(n) ==
  /\ since[n] <= clock
  /\ Taking(n) =>
       /\ since[n] < (sec + 1) * NSEC
       /\ \A m \in Node : pc[m] = "set_nsec" => since[n] <= now[m]
  /\ pc[n] \in {"read_sec", "read_nsec"} => \E t \in since[n] .. clock : nsec = t % NSEC
  /\ pc[n] = "read_nsec" => since[n] < (rsec[n] + 1) * NSEC /\ rsec[n] * NSEC <= clock

(* Where it has the time, that is as it should be.                         *)
OneStamp(n) ==
  pc[n] = "intv" =>
    /\ since[n] \div NSEC = clock \div NSEC => ts[n] \in since[n] .. clock
    /\ since[n] - NSEC < ts[n]
    /\ ts[n] < clock + NSEC

StampInv ==
  /\ sec * NSEC <= clock
  /\ \A m \in Node : now[m] <= clock
  /\ \A n \in Node : OneTaking(n) /\ OneStamp(n)

(* The interval of a new time stamp is the one thing that is still to be   *)
(* added.                                                                  *)
OneInterval(n) ==
  IF pc[n] = "intv" THEN this[n] = ts[n] /\ intervals[n] = prev[n] ELSE intervals[n] = ts[n]

IntervalInv == \A n \in Node : OneInterval(n)

(* The context of energy is what the register showed last.                 *)
OneEnergy(n) ==
  /\ seen[n] <= consumed[n]
  /\ laste[n] = seen[n] % ERANGE
  /\ energies[n] % ERANGE = laste[n]
  /\ n \notin lapped => energies[n] = seen[n]

EnergyInv == \A n \in Node : OneEnergy(n)

(* An event has not counted while it did not run, and has not run while it *)
(* was not enabled, neither up to its last reading nor since then.         *)
RunsOn(v, w) ==
  /\ v.total <= w.total
  /\ w.total - v.total <= w.running - v.running
  /\ w.running - v.running <= w.enabled - v.enabled

OneCount(c) ==
  c \notin ignored =>
    /\ counts[c] >= saved[c].total
    /\ saved[c].running = saved[c].enabled => counts[c] = saved[c].total

OneEvent(c) ==
  IF c \in made THEN RunsOn(Zero, saved[c]) /\ RunsOn(saved[c], event[c]) /\ OneCount(c)
                ELSE event[c] = Zero

EventInv ==
  /\ \A n \in Node : pc[n] = "off" => made \cap Mask[n] = {}
  /\ \A c \in Cpu : OneEvent(c)

(* Between reading and clearing, no sample is to have what is in the       *)
(* register and what it has not yet.                                       *)
LimitsInv ==
  /\ LimitsReported
  /\ \A n \in Node : pc[n] = "perflmt_clear" => unreported[n] \subseteq missed[n]

IInv == TypeOK /\ StampInv /\ IntervalInv /\ EnergyInv /\ EventInv /\ LimitsInv

LEMMA Parameters ==
  /\ NSEC \in Nat \ {0} /\ TIME \in Nat \ {0} /\ ERANGE \in Nat \ {0} /\ Threshold \in Nat
  /\ \A l \in Limits : l.clock \in Nat /\ l.energy \in Nat /\ l.clock + NSEC <= TIME
  /\ \A n \in Node : Mask[n] \subseteq Cpu
  /\ \A n, m \in Node : n # m => Mask[n] \cap Mask[m] = {}
  BY CountersAssumption

LEMMA InitIInv == Init => IInv
<1> SUFFICES ASSUME Init PROVE IInv
  OBVIOUS
<1> USE Parameters DEF Init
<1>1. WorldType
  BY DEF WorldType, Place, Reading, Zero
<1>2. TimeType
  BY DEF TimeType, Stamp
<1>3. CounterType
  BY DEF CounterType, Reading, Zero
<1>4. StampInv
  BY DEF StampInv, OneTaking, OneStamp, Taking
<1>5. IntervalInv
  BY DEF IntervalInv, OneInterval
<1>6. EnergyInv
  BY Remains DEF EnergyInv, OneEnergy
<1>7. EventInv
  BY DEF EventInv, OneEvent
<1>8. LimitsInv
  BY DEF LimitsInv, LimitsReported
<1> QED
  BY <1>1, <1>2, <1>3, <1>4, <1>5, <1>6, <1>7, <1>8 DEF IInv, TypeOK

-----------------------------------------------------------------------------
(* Types.                                                                  *)

LEMMA WorldTypeStep == WorldType /\ [Next]_vars => WorldType'
<1> SUFFICES ASSUME WorldType, [Next]_vars PROVE WorldType'
  OBVIOUS
<1> USE Parameters DEF WorldType
<1>1. CASE Tick
  BY <1>1 DEF Tick
<1>2. ASSUME NEW n \in Node, Consume(n) PROVE WorldType'
  BY <1>2 DEF Consume
<1>3. ASSUME NEW n \in Node, NEW r \in Reason, Limited(n, r) PROVE WorldType'
  BY <1>3 DEF Limited, world
<1>4. ASSUME NEW c \in Cpu, Count(c) PROVE WorldType'
  <2>1. event' \in [Cpu -> Reading]
    BY <1>4 DEF Count, Reading
  <2> QED BY <1>4, <2>1 DEF Count
<1>5. ASSUME NEW n \in Node, GetTime(n) \/ RollBuffer(n) \/ AfterRoll(n) \/ NextSample(n)
      PROVE  WorldType'
  <2>1. UNCHANGED world /\ \E p \in Place : pc' = [pc EXCEPT ![n] = p]
    BY <1>5 DEF GetTime, RollBuffer, SetSec, SetNsec, ReadSec, TsRestart, IntvRestart, PerfRestart,
                EnergyRestart, PerflmtRead, PerflmtClear, AfterRoll, NextSample, Goto, Place
  <2> QED BY <2>1 DEF world
<1>6. ASSUME NEW n \in Node, Start(n) PROVE WorldType'
  BY <1>6 DEF Start, Goto, Place
<1>7. ASSUME NEW n \in Node, Exit(n) PROVE WorldType'
  BY <1>7 DEF Exit, Goto, Place, Reading, Zero
<1>8. CASE UNCHANGED vars
  BY <1>8 DEF vars, world
<1> QED
  BY <1>1, <1>2, <1>3, <1>4, <1>5, <1>6, <1>7, <1>8 DEF Next, World, Thread

(* A stamp has room for the clock, and a second more.                      *)
LEMMA ClockFits ==
  ASSUME WorldType
  PROVE  clock \in Nat /\ clock + NSEC <= TIME /\ clock \div NSEC \in Nat
<1>1. clock \in Nat /\ clock + NSEC <= TIME
  BY Parameters DEF WorldType
<1> QED
  BY <1>1, Parameters, Division

(* What get_time returns.                                                  *)
LEMMA TimeIsStamp ==
  ASSUME TimeType, NEW n \in Node
  PROVE  Time(n) \in Stamp
<1>1. rsec[n] * NSEC + nsec \in Int
  BY Parameters DEF TimeType
<1> QED
  BY <1>1, Parameters DEF Time, Stamp

(* since is one of the clocks it is taken from.                            *)
LEMMA SinceIsSmallest ==
  ASSUME WorldType, TimeType, NEW n \in Node, SetSec(n)
  PROVE  /\ since' = [since EXCEPT ![n] = since'[n]]
         /\ since'[n] \in Nat /\ since'[n] <= clock
         /\ \A m \in Node : pc[m] = "set_nsec" => since'[n] <= now[m]
<1> DEFINE S == {clock} \cup {now[m] : m \in {x \in Node : pc[x] = "set_nsec"}}
<1>1. since' = [since EXCEPT ![n] = Min(S)] /\ since'[n] = Min(S)
  BY DEF SetSec, TimeType
<1>2. S \in SUBSET Nat /\ clock \in S /\ \A m \in Node : pc[m] = "set_nsec" => now[m] \in S
  BY Parameters DEF WorldType, TimeType
<1> HIDE DEF S
<1>3. Min(S) \in S /\ \A x \in S : Min(S) <= x
  BY <1>2, Smallest
<1> QED
  BY <1>1, <1>2, <1>3

LEMMA TimeTypeStep == TypeOK /\ [Next]_vars => TimeType'
<1> SUFFICES ASSUME TypeOK, [Next]_vars PROVE TimeType'
  OBVIOUS
<1> USE Parameters DEF TypeOK
<1>1. CASE UNCHANGED time
  BY <1>1 DEF time, TimeType
<1>2. ASSUME NEW n \in Node, SetSec(n) PROVE TimeType'
  <2>1. since' \in [Node -> Nat]
    BY <1>2, SinceIsSmallest DEF TimeType
  <2> QED BY <1>2, <2>1, ClockFits DEF SetSec, TimeType
<1>3. ASSUME NEW n \in Node, SetNsec(n) PROVE TimeType'
  BY <1>3 DEF SetNsec, TimeType
<1>4. ASSUME NEW n \in Node, ReadSec(n) PROVE TimeType'
  BY <1>4 DEF ReadSec, TimeType
<1>5. ASSUME NEW n \in Node, TsRestart(n) PROVE TimeType'
  BY <1>5, TimeIsStamp DEF TsRestart, Return, TimeType
<1>6. ASSUME NEW n \in Node, AfterRoll(n) PROVE TimeType'
  BY <1>6 DEF AfterRoll, Return, TimeType
<1>7. ASSUME NEW n \in Node, IntvRestart(n) PROVE TimeType'
  <2>1. (intervals[n] + this[n] - prev[n]) % TIME \in Stamp
    BY DEF TimeType, Stamp
  <2> QED BY <1>7, <2>1 DEF IntvRestart, TimeType
<1>8. ASSUME NEW n \in Node,
             PerfRestart(n) \/ EnergyRestart(n) \/ PerflmtRead(n) \/ PerflmtClear(n) \/ Start(n)
               \/ NextSample(n) \/ Exit(n)
      PROVE  UNCHANGED time
  BY <1>8 DEF PerfRestart, EnergyRestart, PerflmtRead, PerflmtClear, Start, NextSample, Exit
<1>9. World \/ UNCHANGED vars => UNCHANGED time
  BY DEF World, Tick, Consume, Limited, Count, vars
<1> QED
  BY <1>1, <1>2, <1>3, <1>4, <1>5, <1>6, <1>7, <1>8, <1>9 DEF Next, Thread, GetTime, RollBuffer

(* A reading of an event that ran on has a difference to be scaled.        *)
LEMMA DeltaType ==
  ASSUME WorldType, CounterType, NEW c \in Cpu
  PROVE  Delta(c) \in Nat
<1> DEFINE t == event[c].total - saved[c].total
           e == event[c].enabled - saved[c].enabled
           r == event[c].running - saved[c].running
<1>1. CASE Stale(c)
  BY <1>1 DEF Delta
<1>2. CASE ~Stale(c)
  <2>1. t \in Nat /\ e \in Nat /\ r \in Nat \ {0}
    BY <1>2 DEF Stale, WorldType, CounterType, Reading
  <2>2. Delta(c) = 0 \/ Delta(c) = Rounded(t * e, r)
    BY DEF Delta, Scaled
  <2> HIDE DEF t, e, r
  <2> DEFINE a == 2 * (t * e) + r
             d == 2 * r
  <2>3. t * e \in Nat
    BY <2>1
  <2>4. a \in Nat /\ d \in Nat \ {0} /\ Rounded(t * e, r) = a \div d
    BY <2>1, <2>3 DEF Rounded
  <2> HIDE DEF a, d
  <2> QED BY <2>2, <2>4, Division
<1> QED
  BY <1>1, <1>2

(* What the register has counted since it was read last, modulo ERANGE.    *)
LEMMA UnwrappedType ==
  ASSUME WorldType, CounterType, NEW n \in Node
  PROVE  /\ consumed[n] % ERANGE \in 0 .. ERANGE - 1
         /\ Unwrapped(n) \in 0 .. ERANGE - 1
<1>1. consumed[n] % ERANGE \in 0 .. ERANGE - 1
  <2> DEFINE joules == consumed[n]
  <2>1. joules \in Nat
    BY DEF WorldType
  <2>2. ERANGE \in Nat \ {0}
    BY Parameters
  <2> HIDE DEF joules
  <2>3. joules % ERANGE \in 0 .. ERANGE - 1
    BY <2>1, <2>2, Division
  <2> QED BY <2>3 DEF joules
<1>2. laste[n] \in 0 .. ERANGE - 1
  BY DEF CounterType
<1> QED
  BY <1>1, <1>2, Parameters DEF Unwrapped

LEMMA CounterTypeStep == TypeOK /\ [Next]_vars => CounterType'
<1> SUFFICES ASSUME TypeOK, [Next]_vars PROVE CounterType'
  OBVIOUS
<1> USE Parameters DEF TypeOK
<1>1. CASE UNCHANGED <<energy, perf, perflmt>>
  BY <1>1 DEF energy, perf, perflmt, CounterType
<1>2. ASSUME NEW n \in Node, NEW r \in Reason, Limited(n, r) PROVE CounterType'
  BY <1>2 DEF Limited, CounterType, energy, perf
<1>3. ASSUME NEW n \in Node, PerfRestart(n) PROVE CounterType'
  <2>1. \A c \in Cpu : Delta(c) \in Nat
    BY DeltaType
  <2>2. counts' \in [Cpu -> Nat]
    BY <1>3, <2>1 DEF PerfRestart, CounterType
  <2> QED BY <1>3, <2>2 DEF PerfRestart, CounterType, WorldType, energy, perflmt
<1>4. ASSUME NEW n \in Node, EnergyRestart(n) PROVE CounterType'
  <2>1. consumed[n] \in Nat /\ consumed[n] % ERANGE \in 0 .. ERANGE - 1 /\ Unwrapped(n) \in Nat
    BY UnwrappedType DEF WorldType
  <2> QED BY <1>4, <2>1 DEF EnergyRestart, CounterType, perf, perflmt
<1>5. ASSUME NEW n \in Node, PerflmtRead(n) \/ PerflmtClear(n) PROVE CounterType'
  BY <1>5 DEF PerflmtRead, PerflmtClear, CounterType, energy, perf
<1>6. ASSUME NEW n \in Node, Start(n) PROVE CounterType'
  BY <1>6 DEF Start, CounterType, Reading, Zero, energy, perflmt
<1>7. ASSUME NEW n \in Node,
             GetTime(n) \/ TsRestart(n) \/ IntvRestart(n) \/ AfterRoll(n) \/ NextSample(n) \/ Exit(n)
      PROVE  UNCHANGED <<energy, perf, perflmt>>
  BY <1>7 DEF GetTime, SetSec, SetNsec, ReadSec, TsRestart, IntvRestart, AfterRoll, NextSample, Exit
<1>8. Tick \/ (\E n \in Node : Consume(n)) \/ (\E c \in Cpu : Count(c)) \/ UNCHANGED vars
        => UNCHANGED <<energy, perf, perflmt>>
  BY DEF Tick, Consume, Count, vars
<1> QED
  BY <1>1, <1>2, <1>3, <1>4, <1>5, <1>6, <1>7, <1>8 DEF Next, World, Thread, RollBuffer

-----------------------------------------------------------------------------
(* Time stamps.                                                            *)

(* The seconds of get_time, of which none is older than one that is still  *)
(* being written.                                                          *)
LEMMA StampSetSec ==
  ASSUME TypeOK, TypeOK', StampInv, NEW n \in Node, SetSec(n)
  PROVE  StampInv'
<1> USE DEF TypeOK
<1>1. /\ pc' = [pc EXCEPT ![n] = "set_nsec"] /\ now' = [now EXCEPT ![n] = clock]
      /\ sec' = clock \div NSEC /\ UNCHANGED <<clock, nsec, rsec, ts>>
  BY DEF SetSec, Goto, world
<1>2. /\ since' = [since EXCEPT ![n] = since'[n]]
      /\ since'[n] \in Nat /\ since'[n] <= clock
      /\ \A m \in Node : pc[m] = "set_nsec" => since'[n] <= now[m]
  BY SinceIsSmallest
<1>3. NSEC \in Nat \ {0} /\ clock \in Nat /\ sec \in Nat /\ sec' \in Nat
  BY Parameters, ClockFits, <1>1 DEF TimeType
<1>4. sec' * NSEC <= clock /\ clock < (sec' + 1) * NSEC
  BY <1>1, <1>3, Quotient
<1>5. (sec + 1) * NSEC <= (sec' + 1) * NSEC
  <2>1. sec <= sec'
    BY <1>1, <1>3, Quotient DEF StampInv
  <2>2. \A a, b \in Nat : a <= b => (a + 1) * NSEC <= (b + 1) * NSEC
    BY <1>3, Multiple
  <2> QED BY <1>3, <2>1, <2>2
<1>6. (sec + 1) * NSEC \in Nat /\ (sec' + 1) * NSEC \in Nat
  BY <1>3, Seconds
<1>7. \A m \in Node : now'[m] <= clock'
  BY <1>1, <1>3 DEF StampInv, TimeType
<1>8. OneTaking(n)' /\ OneStamp(n)'
  BY <1>1, <1>2, <1>3, <1>4, <1>6 DEF StampInv, OneTaking, OneStamp, Taking, TimeType, WorldType
<1>9. ASSUME NEW k \in Node, k # n PROVE OneTaking(k)' /\ OneStamp(k)'
  <2>1. OneTaking(k) /\ OneStamp(k) /\ since[k] \in Nat /\ since'[k] = since[k] /\ pc'[k] = pc[k]
    BY <1>1, <1>2, <1>9 DEF StampInv, TimeType, WorldType
  <2>2. OneStamp(k)'
    BY <1>1, <2>1 DEF OneStamp
  <2>3. Taking(k)' => since'[k] < (sec' + 1) * NSEC
    <3>1. Taking(k)' => since'[k] < (sec + 1) * NSEC /\ since'[k] \in Nat
      BY <2>1 DEF OneTaking, Taking
    <3> QED BY <1>5, <1>6, <3>1
  <2>4. ASSUME Taking(k)', NEW m \in Node, pc'[m] = "set_nsec" PROVE since'[k] <= now'[m]
    BY <1>1, <2>1, <2>4 DEF OneTaking, Taking, TimeType, WorldType
  <2>5. OneTaking(k)'
    BY <1>1, <2>1, <2>3, <2>4 DEF OneTaking
  <2> QED BY <2>2, <2>5
<1> QED
  <2>1. \A k \in Node : OneTaking(k)' /\ OneStamp(k)'
    BY <1>8, <1>9
  <2>2. (sec * NSEC <= clock)'
    BY <1>1, <1>4
  <2>3. (\A m \in Node : now[m] <= clock)'
    BY <1>7
  <2>4. (\A k \in Node : OneTaking(k) /\ OneStamp(k))'
    BY <2>1
  <2> QED BY <2>2, <2>3, <2>4 DEF StampInv

(* The rest of the second, which is one of a time that no thread in        *)
(* get_time can object to.                                                 *)
LEMMA StampSetNsec ==
  ASSUME TypeOK, StampInv, NEW n \in Node, SetNsec(n)
  PROVE  StampInv'
<1> USE DEF TypeOK, StampInv
<1>1. /\ pc[n] = "set_nsec" /\ pc' = [pc EXCEPT ![n] = "read_sec"]
      /\ nsec' = now[n] % NSEC /\ UNCHANGED <<clock, sec, now, rsec, ts, since>>
  BY DEF SetNsec, Goto, world
<1>2. now[n] \in Nat /\ now[n] <= clock
  BY DEF TimeType
<1>3. ASSUME NEW k \in Node PROVE OneTaking(k)'
  <2>1. OneTaking(k) /\ since[k] \in Nat
    BY DEF TimeType
  <2>2. Taking(k)' => Taking(k)
    BY <1>1 DEF Taking, WorldType
  <2>3. Taking(k)' => since[k] <= now[n]
    BY <1>1, <2>1, <2>2 DEF OneTaking
  <2>4. pc'[k] \in {"read_sec", "read_nsec"} => \E t \in since'[k] .. clock' : nsec' = t % NSEC
    <3>1. pc'[k] \in {"read_sec", "read_nsec"} => now[n] \in since[k] .. clock
      BY <1>2, <2>1, <2>3, ClockFits DEF Taking
    <3> QED BY <1>1, <3>1
  <2>5. \A m \in Node : pc'[m] = "set_nsec" => pc[m] = "set_nsec"
    BY <1>1 DEF WorldType
  <2>6. pc'[k] = "read_nsec" => pc[k] = "read_nsec"
    BY <1>1 DEF WorldType
  <2> QED BY <1>1, <2>1, <2>2, <2>4, <2>5, <2>6 DEF OneTaking
<1>4. ASSUME NEW k \in Node PROVE OneStamp(k)'
  <2>1. pc'[k] = "intv" => pc[k] = "intv"
    BY <1>1 DEF WorldType
  <2> QED BY <1>1, <2>1 DEF OneStamp
<1> QED
  BY <1>1, <1>3, <1>4

LEMMA StampReadSec ==
  ASSUME TypeOK, StampInv, NEW n \in Node, ReadSec(n)
  PROVE  StampInv'
<1> USE DEF TypeOK, StampInv
<1>1. /\ pc[n] = "read_sec" /\ pc' = [pc EXCEPT ![n] = "read_nsec"]
      /\ rsec' = [rsec EXCEPT ![n] = sec] /\ UNCHANGED <<clock, sec, nsec, now, ts, since>>
  BY DEF ReadSec, Goto, world
<1>2. ASSUME NEW k \in Node PROVE OneTaking(k)'
  <2>1. OneTaking(k)
    OBVIOUS
  <2>2. Taking(k)' => Taking(k)
    BY <1>1 DEF Taking, WorldType
  <2>3. \A m \in Node : pc'[m] = "set_nsec" => pc[m] = "set_nsec"
    BY <1>1 DEF WorldType
  <2>4. pc'[k] \in {"read_sec", "read_nsec"} => pc[k] \in {"read_sec", "read_nsec"}
    BY <1>1 DEF WorldType
  <2>5. pc'[k] = "read_nsec" => since[k] < (rsec'[k] + 1) * NSEC /\ rsec'[k] * NSEC <= clock
    <3>1. CASE k = n
      <4>1. rsec'[k] = sec
        BY <1>1, <3>1 DEF TimeType
      <4>2. since[k] < (sec + 1) * NSEC
        BY <1>1, <2>1, <3>1 DEF OneTaking, Taking
      <4> QED BY <4>1, <4>2
    <3>2. CASE k # n
      BY <1>1, <2>1, <3>2 DEF OneTaking, TimeType, WorldType
    <3> QED BY <3>1, <3>2
  <2> QED BY <1>1, <2>1, <2>2, <2>3, <2>4, <2>5 DEF OneTaking
<1>3. ASSUME NEW k \in Node PROVE OneStamp(k)'
  <2>1. pc'[k] = "intv" => pc[k] = "intv"
    BY <1>1 DEF WorldType
  <2> QED BY <1>1, <2>1 DEF OneStamp
<1> QED
  BY <1>1, <1>2, <1>3

(* A second s and the rest of a time x, put together.                      *)
LEMMA PutTogether ==
  ASSUME TypeOK, NEW n \in Node, NEW x \in since[n] .. clock, nsec = x % NSEC,
         since[n] < (rsec[n] + 1) * NSEC, rsec[n] * NSEC <= clock
  PROVE  /\ since[n] - NSEC < Time(n)
         /\ Time(n) < clock + NSEC
         /\ since[n] \div NSEC = clock \div NSEC => Time(n) = x
<1> DEFINE y == since[n]
           s == rsec[n]
           r == x % NSEC
<1>1. /\ y \in Nat /\ s \in Nat /\ x \in Nat /\ clock \in Nat /\ NSEC \in Nat \ {0}
      /\ y <= x /\ x <= clock
  BY Parameters, ClockFits DEF TypeOK, TimeType
<1>2. r \in 0 .. NSEC - 1 /\ x = (x \div NSEC) * NSEC + r /\ x \div NSEC \in Nat
  <2>1. x \in Int /\ x >= 0
    BY <1>1
  <2> HIDE DEF r, s, y
  <2>2. /\ x = (x \div NSEC) * NSEC + (x % NSEC)
        /\ x % NSEC \in 0 .. NSEC - 1
        /\ x \div NSEC \in Int /\ x \div NSEC >= 0
    BY <1>1, <2>1, Division
  <2> QED BY <2>2 DEF r
<1>3. s * NSEC \in Nat /\ (s + 1) * NSEC = s * NSEC + NSEC
  BY <1>1, Seconds
<1>4. Time(n) = s * NSEC + r
  <2>1. Time(n) = (s * NSEC + r) % TIME
    BY DEF Time
  <2>2. s * NSEC + r \in 0 .. TIME - 1
    BY <1>1, <1>2, <1>3, ClockFits, Parameters DEF TypeOK
  <2> QED BY <2>1, <2>2, Remains, Parameters
<1>5. y < (s + 1) * NSEC /\ s * NSEC <= clock
  OBVIOUS
<1> HIDE DEF s, y, r
<1>6. y \div NSEC = clock \div NSEC => x \div NSEC = s
  <2> SUFFICES ASSUME y \div NSEC = clock \div NSEC PROVE x \div NSEC = s
    OBVIOUS
  <2> DEFINE q == clock \div NSEC
  <2>1. q \in Int /\ q = y \div NSEC
    BY <1>1, Division
  <2>2. q * NSEC <= y /\ clock < (q + 1) * NSEC
    BY <1>1, <2>1, Quotient
  <2> HIDE DEF q
  <2>3. s <= q
    BY <1>1, <1>5, <2>1, Quotient DEF q
  <2>4. ~ (s + 1 <= q)
    BY <1>1, <1>3, <1>5, <2>1, <2>2, Multiple
  <2>5. q <= x \div NSEC
    BY <1>1, <2>1, <2>2, Quotient
  <2>6. ~ (q + 1 <= x \div NSEC)
    BY <1>1, <1>2, <2>1, <2>2, Quotient
  <2> QED BY <1>1, <1>2, <2>1, <2>3, <2>4, <2>5, <2>6
<1> QED
  BY <1>1, <1>2, <1>3, <1>4, <1>5, <1>6 DEF y

LEMMA StampTsRestart ==
  ASSUME TypeOK, StampInv, NEW n \in Node, TsRestart(n)
  PROVE  StampInv'
<1> USE DEF TypeOK, StampInv
<1>1. /\ pc[n] = "read_nsec" /\ pc' = [pc EXCEPT ![n] = "intv"]
      /\ ts' = [ts EXCEPT ![n] = Time(n)] /\ now' = [now EXCEPT ![n] = 0]
      /\ rsec' = [rsec EXCEPT ![n] = 0] /\ UNCHANGED <<clock, sec, nsec, since>>
  BY DEF TsRestart, Return, Goto, world
<1>2. clock \in Nat
  BY ClockFits
<1>3. OneTaking(n) /\ OneStamp(n)
  OBVIOUS
<1>4. OneStamp(n)'
  <2>1. PICK x \in since[n] .. clock : nsec = x % NSEC
    BY <1>1, <1>3 DEF OneTaking
  <2>2. since[n] < (rsec[n] + 1) * NSEC /\ rsec[n] * NSEC <= clock
    BY <1>1, <1>3 DEF OneTaking
  <2>3. /\ since[n] - NSEC < Time(n)
        /\ Time(n) < clock + NSEC
        /\ since[n] \div NSEC = clock \div NSEC => Time(n) = x
    BY <2>1, <2>2, PutTogether
  <2>4. ts'[n] = Time(n)
    BY <1>1 DEF TimeType
  <2> QED BY <1>1, <2>3, <2>4 DEF OneStamp
<1>5. OneTaking(n)'
  BY <1>1, <1>3 DEF OneTaking, Taking, WorldType
<1>6. ASSUME NEW k \in Node, k # n PROVE OneTaking(k)' /\ OneStamp(k)'
  <2>1. /\ OneTaking(k) /\ OneStamp(k) /\ pc'[k] = pc[k] /\ ts'[k] = ts[k] /\ rsec'[k] = rsec[k]
    BY <1>1, <1>6 DEF WorldType, TimeType
  <2>2. \A m \in Node : pc'[m] = "set_nsec" => pc[m] = "set_nsec" /\ now'[m] = now[m]
    BY <1>1 DEF WorldType, TimeType
  <2> QED BY <1>1, <2>1, <2>2 DEF OneTaking, OneStamp, Taking
<1>7. \A m \in Node : now'[m] <= clock'
  BY <1>1, <1>2 DEF TimeType
<1> QED
  BY <1>1, <1>4, <1>5, <1>6, <1>7

(* The call's variables are gone with it.                                  *)
LEMMA StampReturn ==
  ASSUME TypeOK, StampInv, NEW n \in Node, AfterRoll(n) \/ IntvRestart(n)
  PROVE  StampInv'
<1> USE DEF TypeOK, StampInv
<1>1. /\ \E p \in {"sleep", "perf"} : pc' = [pc EXCEPT ![n] = p]
      /\ now' = [now EXCEPT ![n] = 0] \/ now' = now
      /\ rsec' = [rsec EXCEPT ![n] = 0] \/ rsec' = rsec
      /\ since' = [since EXCEPT ![n] = 0]
      /\ UNCHANGED <<clock, sec, nsec, ts>>
  BY DEF AfterRoll, IntvRestart, Return, Goto, world
<1>2. clock \in Nat
  BY ClockFits
<1>3. OneTaking(n)' /\ OneStamp(n)'
  BY <1>1, <1>2 DEF OneTaking, OneStamp, Taking, WorldType, TimeType
<1>4. ASSUME NEW k \in Node, k # n PROVE OneTaking(k)' /\ OneStamp(k)'
  <2>1. /\ OneTaking(k) /\ OneStamp(k) /\ pc'[k] = pc[k] /\ since'[k] = since[k]
        /\ rsec'[k] = rsec[k]
    BY <1>1, <1>4 DEF WorldType, TimeType
  <2>2. \A m \in Node : pc'[m] = "set_nsec" => m # n /\ pc[m] = "set_nsec" /\ now'[m] = now[m]
    BY <1>1 DEF WorldType, TimeType
  <2> QED BY <1>1, <2>1, <2>2 DEF OneTaking, OneStamp, Taking
<1>5. \A m \in Node : now'[m] <= clock'
  BY <1>1, <1>2 DEF TimeType
<1> QED
  BY <1>1, <1>3, <1>4, <1>5

(* A quotient grows with what is divided.                                  *)
LEMMA QuotientGrows ==
  ASSUME NEW d \in Nat \ {0}, NEW a \in Nat, NEW b \in Nat, a <= b
  PROVE  /\ a \div d <= b \div d
         /\ a \div d \in Int /\ b \div d \in Int
<1>1. a \div d \in Int /\ (a \div d) * d <= a /\ (a \div d) * d \in Int
  BY Division, Quotient
<1>2. (a \div d) * d <= b
  BY <1>1
<1>3. b \div d \in Int
  BY Division
<1> QED
  BY <1>1, <1>2, <1>3, Quotient

LEMMA StampTick ==
  ASSUME TypeOK, StampInv, Tick
  PROVE  StampInv'
<1> USE DEF TypeOK, StampInv
<1>1. clock' = clock + 1 /\ UNCHANGED <<sec, nsec, pc, now, rsec, ts, since>>
  BY DEF Tick, time
<1>2. clock \in Nat /\ NSEC \in Nat \ {0} /\ sec \in Nat /\ sec * NSEC \in Nat
  BY ClockFits, Parameters, Seconds DEF TimeType
<1>3. ASSUME NEW k \in Node PROVE OneTaking(k)' /\ OneStamp(k)'
  <2>1. OneTaking(k) /\ OneStamp(k) /\ since[k] \in Nat /\ rsec[k] \in Nat /\ rsec[k] * NSEC \in Nat
        /\ ts[k] \in Nat
    BY <1>2, Seconds DEF TimeType, Stamp
  <2>2. \A t \in since[k] .. clock : t \in since[k] .. clock'
    BY <1>1, <1>2, <2>1
  <2>3. OneTaking(k)'
    BY <1>1, <1>2, <2>1, <2>2 DEF OneTaking, Taking
  <2>4. OneStamp(k)'
    <3>1. since[k] <= clock
      BY <2>1 DEF OneTaking
    <3>2. since[k] \div NSEC = (clock + 1) \div NSEC => since[k] \div NSEC = clock \div NSEC
      <4>1. /\ since[k] \div NSEC <= clock \div NSEC
            /\ since[k] \div NSEC \in Int /\ clock \div NSEC \in Int
        BY <1>2, <2>1, <3>1, QuotientGrows
      <4>2. clock \div NSEC <= (clock + 1) \div NSEC /\ (clock + 1) \div NSEC \in Int
        BY <1>2, QuotientGrows
      <4> QED BY <4>1, <4>2
    <3> QED BY <1>1, <1>2, <2>1, <3>2 DEF OneStamp
  <2> QED BY <2>3, <2>4
<1>4. \A m \in Node : now'[m] <= clock'
  BY <1>1, <1>2 DEF TimeType
<1> QED
  BY <1>1, <1>2, <1>3, <1>4

(* Steps that leave the time alone, and get_time too.                      *)
LEMMA StampUntouched ==
  ASSUME TypeOK, StampInv, UNCHANGED <<clock, time>>,
         \A n \in Node : pc'[n] # pc[n] => ~Taking(n)' /\ pc'[n] # "intv"
  PROVE  StampInv'
<1> USE DEF TypeOK, StampInv
<1>1. UNCHANGED <<clock, sec, nsec, now, rsec, ts, since>>
  BY DEF time
<1>2. ASSUME NEW k \in Node PROVE OneTaking(k)' /\ OneStamp(k)'
  <2>1. OneTaking(k) /\ OneStamp(k)
    OBVIOUS
  <2>2. Taking(k)' => pc'[k] = pc[k]
    OBVIOUS
  <2>3. \A m \in Node : pc'[m] = "set_nsec" => pc[m] = "set_nsec"
    BY DEF Taking
  <2> QED BY <1>1, <2>1, <2>2, <2>3 DEF OneTaking, OneStamp, Taking
<1> QED
  BY <1>1, <1>2

LEMMA StampStep == TypeOK /\ TypeOK' /\ StampInv /\ [Next]_vars => StampInv'
<1> SUFFICES ASSUME TypeOK, TypeOK', StampInv, [Next]_vars PROVE StampInv'
  OBVIOUS
<1>1. ASSUME NEW n \in Node, GetTime(n) \/ TsRestart(n) \/ AfterRoll(n) \/ IntvRestart(n)
      PROVE  StampInv'
  BY <1>1, StampSetSec, StampSetNsec, StampReadSec, StampTsRestart, StampReturn DEF GetTime
<1>2. ASSUME NEW n \in Node,
             PerfRestart(n) \/ EnergyRestart(n) \/ PerflmtRead(n) \/ PerflmtClear(n) \/ Start(n)
               \/ NextSample(n) \/ Exit(n)
      PROVE  StampInv'
  <2>1. /\ UNCHANGED <<clock, time>>
        /\ \E p \in {"energy", "perflmt", "perflmt_clear", "after", "ts", "off"} :
             pc' = [pc EXCEPT ![n] = p]
    BY <1>2 DEF PerfRestart, EnergyRestart, PerflmtRead, PerflmtClear, Start, NextSample, Exit, Goto,
                world
  <2> QED BY <2>1, StampUntouched DEF Taking, TypeOK, WorldType
<1>3. ASSUME World \/ UNCHANGED vars, ~Tick PROVE StampInv'
  <2>1. UNCHANGED <<clock, time, pc>>
    BY <1>3 DEF World, Consume, Limited, Count, vars, world
  <2> QED BY <2>1, StampUntouched
<1> QED
  BY <1>1, <1>2, <1>3, StampTick DEF Next, Thread, RollBuffer

-----------------------------------------------------------------------------
(* Intervals.                                                              *)

(* Adding the new stamp and taking the last one off what was the last one. *)
LEMMA Replaced ==
  ASSUME NEW x \in Stamp, NEW y \in Stamp
  PROVE  (x + y - x) % TIME = y
<1>1. x + y - x = y
  BY Parameters DEF Stamp
<1> QED
  BY <1>1, Parameters, Remains DEF Stamp

LEMMA IntervalStep == TypeOK /\ IntervalInv /\ [Next]_vars => IntervalInv'
<1> SUFFICES ASSUME TypeOK, IntervalInv, [Next]_vars, NEW k \in Node
             PROVE  OneInterval(k)'
  BY DEF IntervalInv
<1> USE DEF TypeOK, WorldType, TimeType
<1>1. OneInterval(k)
  BY DEF IntervalInv
<1>2. ASSUME NEW n \in Node, TsRestart(n) PROVE OneInterval(k)'
  BY <1>1, <1>2 DEF TsRestart, Goto, OneInterval
<1>3. ASSUME NEW n \in Node, IntvRestart(n) PROVE OneInterval(k)'
  <2>1. pc[n] = "intv" /\ pc' = [pc EXCEPT ![n] = "perf"] /\ UNCHANGED <<ts, this, prev>>
        /\ intervals' = [intervals EXCEPT ![n] = (intervals[n] + this[n] - prev[n]) % TIME]
    BY <1>3 DEF IntvRestart, Goto
  <2>2. CASE k # n
    BY <1>1, <2>1, <2>2 DEF OneInterval
  <2>3. CASE k = n
    <3>1. intervals'[n] = (prev[n] + ts[n] - prev[n]) % TIME
      BY <1>1, <2>1, <2>3 DEF OneInterval
    <3> QED BY <2>1, <2>3, <3>1, Replaced DEF OneInterval
  <2> QED BY <2>2, <2>3
<1>4. ASSUME UNCHANGED <<ts, this, prev, intervals>>,
             \A n \in Node : pc'[n] = "intv" <=> pc[n] = "intv"
      PROVE  OneInterval(k)'
  BY <1>1, <1>4 DEF OneInterval
<1>5. ASSUME NEW n \in Node,
             GetTime(n) \/ PerfRestart(n) \/ EnergyRestart(n) \/ PerflmtRead(n) \/ PerflmtClear(n)
               \/ AfterRoll(n) \/ Start(n) \/ NextSample(n) \/ Exit(n)
      PROVE  OneInterval(k)'
  <2>1. UNCHANGED <<ts, this, prev, intervals>>
    BY <1>5 DEF GetTime, SetSec, SetNsec, ReadSec, PerfRestart, EnergyRestart, PerflmtRead,
                PerflmtClear, AfterRoll, Start, NextSample, Exit, time
  <2>2. pc[n] # "intv" /\ \E p \in Place \ {"intv"} : pc' = [pc EXCEPT ![n] = p]
    BY <1>5 DEF GetTime, SetSec, SetNsec, ReadSec, PerfRestart, EnergyRestart, PerflmtRead,
                PerflmtClear, AfterRoll, Start, NextSample, Exit, Goto, Place
  <2> QED BY <1>4, <2>1, <2>2
<1>6. World \/ UNCHANGED vars => UNCHANGED <<ts, this, prev, intervals, pc>>
  BY DEF World, Tick, Consume, Limited, Count, vars, time
<1> QED
  BY <1>2, <1>3, <1>4, <1>5, <1>6 DEF Next, Thread, RollBuffer

-----------------------------------------------------------------------------
(* Energy.                                                                 *)

(* Unwrapping gives what was consumed, but for the laps.                   *)
LEMMA UnwrappedIs ==
  ASSUME TypeOK, NEW n \in Node, OneEnergy(n)
  PROVE  /\ (energies[n] + Unwrapped(n)) % ERANGE = consumed[n] % ERANGE
         /\ consumed[n] - seen[n] < ERANGE => Unwrapped(n) = consumed[n] - seen[n]
<1> DEFINE d == ERANGE
           e == consumed[n] % d
           q == consumed[n] \div d
           p == seen[n] \div d
           a == energies[n] \div d
           l == laste[n]
           u == Unwrapped(n)
<1>1. d \in Nat \ {0} /\ consumed[n] \in Nat /\ seen[n] \in Nat /\ energies[n] \in Nat
  BY Parameters DEF TypeOK, WorldType, CounterType
<1> HIDE DEF d
<1>0. \A x \in Nat : x = (x \div d) * d + (x % d) /\ x % d \in 0 .. d - 1 /\ x \div d \in Int
  BY <1>1, Division
<1>2. consumed[n] = q * d + e /\ e \in 0 .. d - 1 /\ q \in Int
  BY <1>0, <1>1
<1>3. seen[n] = p * d + l /\ l \in 0 .. d - 1 /\ p \in Int
  BY <1>0, <1>1 DEF OneEnergy, d
<1>4. energies[n] = a * d + l /\ a \in Int
  BY <1>0, <1>1 DEF OneEnergy, d
<1>5. u = IF e < l THEN e + d - l ELSE e - l
  BY DEF Unwrapped, d
<1> HIDE DEF e, q, p, a, l, u
<1>6. a * d \in Int /\ (a + 1) * d = a * d + d
  BY <1>1, <1>4
<1>7. energies[n] + u = a * d + e \/ energies[n] + u = (a + 1) * d + e
  BY <1>1, <1>2, <1>3, <1>4, <1>5, <1>6
<1>8. (energies[n] + u) % d = e
  <2>1. (a * d + e) % d = e
    BY <1>1, <1>2, <1>4, DivisionUnique
  <2>2. ((a + 1) * d + e) % d = e
    <3>1. a + 1 \in Int
      BY <1>4
    <3> QED BY <1>1, <1>2, <3>1, DivisionUnique
  <2> QED BY <1>7, <2>1, <2>2
<1>9. ASSUME consumed[n] - seen[n] < d PROVE u = consumed[n] - seen[n]
  <2>1. seen[n] <= consumed[n]
    BY DEF OneEnergy
  <2>2. p * d \in Int /\ q * d \in Int /\ (p + 1) * d = p * d + d /\ (p + 2) * d = p * d + 2 * d
        /\ (q + 1) * d = q * d + d
    BY <1>1, <1>2, <1>3
  <2>3. ~ (q + 1 <= p)
    BY <1>1, <1>2, <1>3, <2>1, <2>2, Multiple
  <2>4. ~ (p + 2 <= q)
    BY <1>1, <1>2, <1>3, <1>9, <2>2, Multiple
  <2>5. q = p \/ q = p + 1
    BY <1>2, <1>3, <2>3, <2>4
  <2> QED BY <1>1, <1>2, <1>3, <1>5, <1>9, <2>1, <2>2, <2>5
<1> QED
  BY <1>8, <1>9 DEF d, e, u

LEMMA EnergyStep == TypeOK /\ EnergyInv /\ [Next]_vars => EnergyInv'
<1> SUFFICES ASSUME TypeOK, EnergyInv, [Next]_vars, NEW k \in Node
             PROVE  OneEnergy(k)'
  BY DEF EnergyInv
<1> USE DEF TypeOK, WorldType, CounterType
<1>1. OneEnergy(k)
  BY DEF EnergyInv
<1>2. ASSUME NEW n \in Node, EnergyRestart(n) PROVE OneEnergy(k)'
  <2>1. /\ laste' = [laste EXCEPT ![n] = consumed[n] % ERANGE]
        /\ energies' = [energies EXCEPT ![n] = @ + Unwrapped(n)]
        /\ seen' = [seen EXCEPT ![n] = consumed[n]]
        /\ lapped' = IF consumed[n] - seen[n] >= ERANGE THEN lapped \cup {n} ELSE lapped
        /\ consumed' = consumed
    BY <1>2 DEF EnergyRestart, world
  <2>2. CASE k # n
    BY <1>1, <2>1, <2>2 DEF OneEnergy
  <2>3. CASE k = n
    <3>1. /\ (energies[n] + Unwrapped(n)) % ERANGE = consumed[n] % ERANGE
          /\ consumed[n] - seen[n] < ERANGE => Unwrapped(n) = consumed[n] - seen[n]
      BY <1>1, <2>3, UnwrappedIs
    <3>2. /\ laste'[n] = consumed[n] % ERANGE /\ seen'[n] = consumed[n]
          /\ energies'[n] = energies[n] + Unwrapped(n)
      BY <2>1
    <3>3. consumed[n] \in Nat /\ seen[n] \in Nat /\ energies[n] \in Nat /\ ERANGE \in Nat
      BY Parameters
    <3>4. n \notin lapped' => energies'[n] = seen'[n]
      BY <1>1, <2>1, <2>3, <3>1, <3>2, <3>3 DEF OneEnergy
    <3> QED BY <2>1, <2>3, <3>1, <3>2, <3>3, <3>4 DEF OneEnergy
  <2> QED BY <2>2, <2>3
<1>3. ASSUME NEW n \in Node, Consume(n) PROVE OneEnergy(k)'
  <2>1. consumed[k] \in Nat /\ consumed'[k] \in Nat /\ consumed[k] <= consumed'[k]
    BY <1>3 DEF Consume
  <2> QED BY <1>1, <1>3, <2>1 DEF Consume, OneEnergy, energy
<1>4. ASSUME UNCHANGED <<consumed, energy>> PROVE OneEnergy(k)'
  BY <1>1, <1>4 DEF OneEnergy, energy
<1>5. ASSUME NEW n \in Node,
             GetTime(n) \/ TsRestart(n) \/ IntvRestart(n) \/ PerfRestart(n) \/ PerflmtRead(n)
               \/ PerflmtClear(n) \/ AfterRoll(n) \/ Start(n) \/ NextSample(n) \/ Exit(n)
      PROVE  UNCHANGED <<consumed, energy>>
  BY <1>5 DEF GetTime, SetSec, SetNsec, ReadSec, TsRestart, IntvRestart, PerfRestart, PerflmtRead,
              PerflmtClear, AfterRoll, Start, NextSample, Exit, world
<1>6. ASSUME World \/ UNCHANGED vars, ~ (\E n \in Node : Consume(n))
      PROVE  UNCHANGED <<consumed, energy>>
  BY <1>6 DEF World, Tick, Limited, Count, vars, world
<1> QED
  BY <1>2, <1>3, <1>4, <1>5, <1>6 DEF Next, Thread, RollBuffer

-----------------------------------------------------------------------------
(* Events.                                                                 *)

(* What a reading that is not too large adds is at least what was counted  *)
(* since the last one, which is nothing if the reading did not run on, and *)
(* just that if the event counted all the time.                            *)
LEMMA DeltaCounts ==
  ASSUME WorldType, CounterType, NEW c \in Cpu, RunsOn(saved[c], event[c]), ~TooLarge(c)
  PROVE  /\ Delta(c) >= event[c].total - saved[c].total
         /\ event[c].running - saved[c].running = event[c].enabled - saved[c].enabled
              => Delta(c) = event[c].total - saved[c].total
<1> DEFINE t == event[c].total - saved[c].total
           e == event[c].enabled - saved[c].enabled
           r == event[c].running - saved[c].running
<1>1. t \in Nat /\ r \in Nat /\ e \in Nat /\ t <= r /\ r <= e
  BY DEF RunsOn, WorldType, CounterType, Reading
<1>2. CASE Stale(c)
  <2>1. r = 0
    <3>1. /\ event[c].total \in Nat /\ event[c].enabled \in Nat /\ event[c].running \in Nat
          /\ saved[c].total \in Nat /\ saved[c].enabled \in Nat /\ saved[c].running \in Nat
      BY DEF WorldType, CounterType, Reading
    <3>2. t >= 0 /\ e >= 0 /\ r >= 0
      BY <1>1
    <3>3. event[c].running <= saved[c].running
      BY <1>2, <3>1, <3>2 DEF Stale
    <3> QED BY <3>1, <3>2, <3>3
  <2>2. Delta(c) = 0
    BY <1>2 DEF Delta
  <2> HIDE DEF t, e, r
  <2>3. t = 0
    BY <1>1, <2>1
  <2> QED BY <2>2, <2>3 DEF t
<1>3. CASE ~Stale(c)
  <2>1. r # 0
    BY <1>1, <1>3 DEF Stale, WorldType, CounterType, Reading
  <2>2. Delta(c) = Rounded(t * e, r)
    BY <1>3 DEF Delta, Scaled
  <2>3. r \in Nat \ {0}
    BY <1>1, <2>1
  <2> HIDE DEF t, e, r
  <2>4. Rounded(t * e, r) >= t /\ (r = e => Rounded(t * e, r) = t)
    BY <1>1, <2>3, RoundedUp
  <2> QED BY <2>2, <2>4 DEF t, e, r
<1> QED
  BY <1>2, <1>3

LEMMA EventPerfRestart ==
  ASSUME TypeOK, EventInv, NEW n \in Node, PerfRestart(n)
  PROVE  EventInv'
<1> USE DEF TypeOK, EventInv
<1>1. /\ pc' = [pc EXCEPT ![n] = "energy"] /\ UNCHANGED <<made, event>>
      /\ saved' = [c \in Cpu |-> IF c \in Read(n) THEN event[c] ELSE saved[c]]
      /\ counts' = [c \in Cpu |-> IF c \in Read(n) THEN counts[c] + Delta(c) ELSE counts[c]]
      /\ ignored' = ignored \cup {c \in Read(n) : TooLarge(c)}
  BY DEF PerfRestart, Goto, world
<1>2. ASSUME NEW m \in Node, pc'[m] = "off" PROVE made' \cap Mask[m] = {}
  BY <1>1, <1>2 DEF WorldType
<1>3. ASSUME NEW c \in Cpu PROVE OneEvent(c)'
  <2>1. OneEvent(c)
    OBVIOUS
  <2>2. CASE c \notin Read(n)
    BY <1>1, <2>1, <2>2 DEF OneEvent, OneCount
  <2>3. CASE c \in Read(n)
    <3>1. c \in made /\ RunsOn(Zero, saved[c]) /\ RunsOn(saved[c], event[c]) /\ OneCount(c)
      BY <2>1, <2>3 DEF OneEvent, Read
    <3>2. /\ made' = made /\ event'[c] = event[c] /\ saved'[c] = event[c]
          /\ counts'[c] = counts[c] + Delta(c)
          /\ c \notin ignored' => c \notin ignored /\ ~TooLarge(c)
      BY <1>1, <2>3
    <3>3. /\ event[c] \in Reading /\ saved[c] \in Reading /\ counts[c] \in Nat /\ Delta(c) \in Nat
      BY DeltaType DEF WorldType, CounterType
    <3>4. RunsOn(Zero, event[c]) /\ RunsOn(event[c], event[c])
      BY <3>1, <3>3 DEF RunsOn, Reading, Zero
    <3>5. ASSUME c \notin ignored'
          PROVE  /\ counts'[c] >= event[c].total
                 /\ event[c].running = event[c].enabled => counts'[c] = event[c].total
      <4>1. /\ Delta(c) >= event[c].total - saved[c].total
            /\ event[c].running - saved[c].running = event[c].enabled - saved[c].enabled
                 => Delta(c) = event[c].total - saved[c].total
        BY <3>1, <3>2, <3>5, DeltaCounts
      <4>2. /\ counts[c] >= saved[c].total
            /\ saved[c].running = saved[c].enabled => counts[c] = saved[c].total
        BY <3>1, <3>2, <3>5 DEF OneCount
      <4>3. event[c].running = event[c].enabled => saved[c].running = saved[c].enabled
        BY <3>1, <3>3 DEF RunsOn, Reading, Zero
      <4> QED BY <3>2, <3>3, <4>1, <4>2, <4>3 DEF Reading
    <3> QED BY <3>1, <3>2, <3>4, <3>5 DEF OneEvent, OneCount
  <2> QED BY <2>2, <2>3
<1> QED
  BY <1>2, <1>3

LEMMA EventCount ==
  ASSUME TypeOK, EventInv, NEW k \in Cpu, Count(k)
  PROVE  EventInv'
<1> USE DEF TypeOK, EventInv
<1>1. k \in made /\ UNCHANGED <<made, pc, saved, counts, ignored>>
  BY DEF Count, perf
<1>2. ASSUME NEW c \in Cpu PROVE OneEvent(c)'
  <2>1. OneEvent(c)
    OBVIOUS
  <2>2. CASE c # k
    <3>1. event'[c] = event[c]
      BY <2>2 DEF Count, WorldType
    <3> QED BY <1>1, <2>1, <3>1 DEF OneEvent, OneCount
  <2>3. CASE c = k
    <3>1. event[c] \in Reading /\ saved[c] \in Reading
      BY DEF WorldType, CounterType
    <3>2. RunsOn(saved[c], event[c])
      BY <1>1, <2>1, <2>3 DEF OneEvent
    <3>3. \/ event'[c] = [event[c] EXCEPT !.enabled = @ + 1]
          \/ \E i \in 0 .. 1 : event'[c] = [total   |-> event[c].total + i,
                                            enabled |-> event[c].enabled + 1,
                                            running |-> event[c].running + 1]
      BY <2>3 DEF Count, WorldType
    <3>4. RunsOn(saved[c], event'[c])
      BY <3>1, <3>2, <3>3 DEF RunsOn, Reading
    <3> QED BY <1>1, <2>1, <2>3, <3>4 DEF OneEvent, OneCount
  <2> QED BY <2>2, <2>3
<1> QED
  BY <1>1, <1>2

LEMMA EventStart ==
  ASSUME TypeOK, EventInv, NEW n \in Node, Start(n)
  PROVE  EventInv'
<1> USE DEF TypeOK, EventInv
<1>1. PICK ok \in SUBSET Mask[n] : made' = made \cup ok
  BY DEF Start
<1>2. /\ pc[n] = "off" /\ pc' = [pc EXCEPT ![n] = "ts"] /\ event' = event
      /\ saved' = [c \in Cpu |-> IF c \in Mask[n] THEN Zero ELSE saved[c]]
      /\ counts' = [c \in Cpu |-> IF c \in Mask[n] THEN 0 ELSE counts[c]]
      /\ ignored' = ignored \ Mask[n]
  BY DEF Start, Goto
<1>3. ASSUME NEW m \in Node, pc'[m] = "off" PROVE made' \cap Mask[m] = {}
  <2>1. m # n /\ pc[m] = "off"
    BY <1>2, <1>3 DEF WorldType
  <2> QED BY <1>1, <2>1, Parameters
<1>4. ASSUME NEW c \in Cpu PROVE OneEvent(c)'
  <2>1. OneEvent(c)
    OBVIOUS
  <2>2. CASE c \notin Mask[n]
    BY <1>1, <1>2, <2>1, <2>2 DEF OneEvent, OneCount
  <2>3. CASE c \in Mask[n]
    <3>1. event[c] = Zero
      BY <1>2, <2>1, <2>3 DEF OneEvent
    <3>2. saved'[c] = Zero /\ counts'[c] = 0 /\ event'[c] = Zero
      BY <1>2, <2>3, <3>1
    <3> QED BY <3>2 DEF OneEvent, OneCount, RunsOn, Zero
  <2> QED BY <2>2, <2>3
<1> QED
  BY <1>3, <1>4

LEMMA EventExit ==
  ASSUME TypeOK, EventInv, NEW n \in Node, Exit(n)
  PROVE  EventInv'
<1> USE DEF TypeOK, EventInv
<1>1. /\ made' = made \ Mask[n] /\ pc' = [pc EXCEPT ![n] = "off"]
      /\ event' = [c \in Cpu |-> IF c \in Mask[n] THEN Zero ELSE event[c]]
      /\ UNCHANGED <<saved, counts, ignored>>
  BY DEF Exit, Goto, perf
<1>2. ASSUME NEW m \in Node, pc'[m] = "off" PROVE made' \cap Mask[m] = {}
  BY <1>1, <1>2 DEF WorldType
<1>3. ASSUME NEW c \in Cpu PROVE OneEvent(c)'
  <2>1. OneEvent(c)
    OBVIOUS
  <2> QED BY <1>1, <2>1 DEF OneEvent, OneCount
<1> QED
  BY <1>2, <1>3

LEMMA EventStep == TypeOK /\ EventInv /\ [Next]_vars => EventInv'
<1> SUFFICES ASSUME TypeOK, EventInv, [Next]_vars PROVE EventInv'
  OBVIOUS
<1>1. ASSUME UNCHANGED <<event, made, perf>>, \A n \in Node : pc'[n] = "off" => pc[n] = "off"
      PROVE  EventInv'
  <2>1. \A c \in Cpu : OneEvent(c)'
    BY <1>1 DEF EventInv, OneEvent, OneCount, perf
  <2> QED BY <1>1, <2>1 DEF EventInv
<1>2. ASSUME NEW n \in Node,
             GetTime(n) \/ TsRestart(n) \/ IntvRestart(n) \/ EnergyRestart(n) \/ PerflmtRead(n)
               \/ PerflmtClear(n) \/ AfterRoll(n) \/ NextSample(n)
      PROVE  EventInv'
  <2>1. /\ UNCHANGED <<event, made, perf>>
        /\ \E p \in Place \ {"off"} : pc' = [pc EXCEPT ![n] = p]
    BY <1>2 DEF GetTime, SetSec, SetNsec, ReadSec, TsRestart, IntvRestart, EnergyRestart, PerflmtRead,
                PerflmtClear, AfterRoll, NextSample, Goto, Place, world
  <2> QED BY <1>1, <2>1 DEF TypeOK, WorldType
<1>3. ASSUME World \/ UNCHANGED vars, ~ (\E c \in Cpu : Count(c))
      PROVE  UNCHANGED <<event, made, perf, pc>>
  BY <1>3 DEF World, Tick, Consume, Limited, vars, world
<1> QED
  BY <1>1, <1>2, <1>3, EventPerfRestart, EventCount, EventStart, EventExit DEF Next, Thread, RollBuffer

-----------------------------------------------------------------------------
(* Reasons.                                                                *)

LEMMA LimitsStep == TypeOK /\ LimitsInv /\ [Next]_vars => LimitsInv'
<1> SUFFICES ASSUME TypeOK, LimitsInv, [Next]_vars PROVE LimitsInv'
  OBVIOUS
<1> USE DEF TypeOK, WorldType, CounterType, LimitsInv, LimitsReported
<1>1. ASSUME NEW n \in Node, NEW r \in Reason, Limited(n, r) PROVE LimitsInv'
  BY <1>1 DEF Limited
<1>2. ASSUME NEW n \in Node, PerflmtRead(n) PROVE LimitsInv'
  BY <1>2 DEF PerflmtRead, Goto
<1>3. ASSUME NEW n \in Node, PerflmtClear(n) PROVE LimitsInv'
  BY <1>3 DEF PerflmtClear, Goto
<1>4. ASSUME UNCHANGED perflmt,
             \A n \in Node : pc'[n] = "perflmt_clear" <=> pc[n] = "perflmt_clear"
      PROVE  LimitsInv'
  BY <1>4 DEF perflmt
<1>5. ASSUME NEW n \in Node,
             GetTime(n) \/ TsRestart(n) \/ IntvRestart(n) \/ PerfRestart(n) \/ EnergyRestart(n)
               \/ AfterRoll(n) \/ Start(n) \/ NextSample(n) \/ Exit(n)
      PROVE  LimitsInv'
  <2>1. UNCHANGED perflmt
    BY <1>5 DEF GetTime, SetSec, SetNsec, ReadSec, TsRestart, IntvRestart, PerfRestart, EnergyRestart,
                AfterRoll, Start, NextSample, Exit
  <2>2. /\ pc[n] # "perflmt_clear"
        /\ \E p \in Place \ {"perflmt_clear"} : pc' = [pc EXCEPT ![n] = p]
    BY <1>5 DEF GetTime, SetSec, SetNsec, ReadSec, TsRestart, IntvRestart, PerfRestart, EnergyRestart,
                AfterRoll, Start, NextSample, Exit, Goto, Place
  <2> QED BY <1>4, <2>1, <2>2
<1>6. ASSUME World \/ UNCHANGED vars, ~ (\E n \in Node, r \in Reason : Limited(n, r))
      PROVE  UNCHANGED <<perflmt, pc>>
  BY <1>6 DEF World, Tick, Consume, Count, vars
<1> QED
  BY <1>1, <1>2, <1>3, <1>4, <1>5, <1>6 DEF Next, World, Thread, RollBuffer

-----------------------------------------------------------------------------
(* The theorems.                                                           *)

(* Wherever the threads and the world are, the parts of the invariant hold.*)
THEOREM CountersInductive == Spec => []IInv
<1>1. IInv /\ [Next]_vars => IInv'
  <2>1. IInv /\ [Next]_vars => TypeOK'
    BY WorldTypeStep, TimeTypeStep, CounterTypeStep DEF IInv, TypeOK
  <2> QED
    BY <2>1, StampStep, IntervalStep, EnergyStep, EventStep, LimitsStep DEF IInv
<1> QED
  BY InitIInv, <1>1, PTL DEF Spec

(* Two threads that share the static variable of get_time can mix up two   *)
(* times, but never get one from before the call, or wrong by a second, and*)
(* a wrong one only where a second began.                                  *)
THEOREM StampsAreCurrent == Spec => [](TypeOK /\ StampIsCurrent)
<1>1. IInv => TypeOK /\ StampIsCurrent
  BY DEF IInv, StampInv, OneStamp, StampIsCurrent
<1> QED
  BY <1>1, CountersInductive, PTL

(* No time is counted twice or lost, also where a stamp runs back or wraps.*)
THEOREM IntervalsAreWhole == Spec => []IntervalsAddUp
<1>1. IInv => IntervalsAddUp
  BY DEF IInv, IntervalInv, OneInterval, IntervalsAddUp
<1> QED
  BY <1>1, CountersInductive, PTL

(* Energy adds up modulo the register, and in full if it was not lapped.   *)
THEOREM EnergyIsWhole == Spec => []EnergyAddsUp
<1>1. IInv => EnergyAddsUp
  BY DEF IInv, EnergyInv, OneEnergy, EnergyAddsUp
<1> QED
  BY <1>1, CountersInductive, PTL

(* No count is lost by a reading that is dropped or rounded.               *)
THEOREM CountsAreWhole == Spec => []CountsAddUp
<1>1. IInv => CountsAddUp
  BY DEF IInv, TypeOK, WorldType, EventInv, OneEvent, OneCount, CountsAddUp
<1> QED
  BY <1>1, CountersInductive, PTL

(* A reason is lost only between reading and clearing.                     *)
THEOREM LimitsAreReported == Spec => []LimitsReported
<1>1. IInv => LimitsReported
  BY DEF IInv, LimitsInv
<1> QED
  BY <1>1, CountersInductive, PTL

-----------------------------------------------------------------------------
(* How long the thread sleeps (XstatPacing).                               *)

(* Cutting ticks down to whole milliseconds loses less than one.           *)
LEMMA MillisBounds ==
  ASSUME NEW c \in Int
  PROVE  /\ Millis(c) \in Int
         /\ Millis(c) * MS <= c
         /\ c < Millis(c) * MS + MS
         /\ c >= 0 => Millis(c) >= 0
  BY PacingAssumption DEF Millis

(* A time the thread believes to have passed wraps round if it is negative.*)
LEMMA SeenWraps ==
  ASSUME NEW t \in Seen
  PROVE  /\ t \in Int
         /\ t >= 0 => t % U64 = t
         /\ t < 0 => t % U64 = t + U64
<1>1. t \in Int
  <2>1. PICK c \in Cost, first \in Skew, second \in Skew : t = c + second - first
    BY DEF Seen
  <2>2. c \in Int /\ first \in Int /\ second \in Int
    BY PacingAssumption
  <2> QED BY <2>1, <2>2
<1>2. U64 \in Nat \ {0} /\ -U64 <= t /\ t < U64
  BY PacingAssumption
<1>3. CASE t >= 0
  <2>1. t \in 0 .. U64 - 1
    BY <1>1, <1>2, <1>3
  <2> QED BY <1>1, <1>2, <1>3, <2>1, Remains
<1>4. CASE t < 0
  <2> DEFINE r == t + U64
             q == -1
  <2>1. r \in 0 .. U64 - 1 /\ q \in Int /\ q * U64 + r = t
    BY <1>1, <1>2, <1>4
  <2> HIDE DEF r, q
  <2>2. (q * U64 + r) % U64 = r
    BY <1>2, <2>1, DivisionUnique
  <2> QED BY <1>1, <1>4, <2>1, <2>2 DEF r
<1> QED
  BY <1>1, <1>3, <1>4

(* The sign of an unsigned int is that of the number it wraps.             *)
LEMMA SignedBack ==
  ASSUME NEW x \in -INT .. INT - 1
  PROVE  Signed(x % (2 * INT)) = x
<1> DEFINE d == 2 * INT
<1>1. INT \in Nat \ {0} /\ d \in Nat \ {0}
  BY PacingAssumption
<1>2. CASE x >= 0
  <2>1. x \in 0 .. d - 1 /\ x < INT
    BY <1>1, <1>2
  <2>2. x % d = x
    <3> HIDE DEF d
    <3> QED BY <1>1, <2>1, Remains
  <2> QED BY <2>1, <2>2 DEF Signed
<1>3. CASE x < 0
  <2> DEFINE r == x + d
             q == -1
  <2>1. r \in 0 .. d - 1 /\ q \in Int /\ q * d + r = x /\ r >= INT /\ r - 2 * INT = x
    BY <1>1, <1>3
  <2>2. x % d = r
    <3> HIDE DEF d, r, q
    <3>1. (q * d + r) % d = r
      BY <1>1, <2>1, DivisionUnique
    <3> QED BY <2>1, <3>1
  <2>3. ~(r < INT)
    BY <1>1, <2>1
  <2> QED BY <2>1, <2>2, <2>3 DEF Signed
<1> QED
  BY <1>2, <1>3

(* What is left of a period is an integer; what one subtracts if the time  *)
(* did not wrap, and more than any period if it did.                       *)
LEMMA LeftOver ==
  ASSUME NEW p \in Period, NEW t \in Seen
  PROVE  /\ LeftOf(p, t % U64) \in Int
         /\ t >= 0 => LeftOf(p, t % U64) = p - Millis(t) - 1
         /\ t < 0 => \A q \in Period : LeftOf(p, t % U64) > q
<1>1. /\ t \in Int
      /\ t >= 0 => t % U64 = t
      /\ t < 0 => t % U64 = t + U64
  BY SeenWraps
<1>2. p \in 1 .. INT - 1 /\ INT \in Nat \ {0} /\ U64 \in Nat \ {0}
  BY PacingAssumption
<1>3. CASE t >= 0
  <2> DEFINE x == p - Millis(t) - 1
  <2>1. Millis(t) \in Int /\ Millis(t) >= 0 /\ Millis(t) < INT
    BY <1>1, <1>3, MillisBounds, PacingAssumption
  <2>2. x \in -INT .. INT - 1
    BY <1>2, <2>1
  <2>3. Signed(x % (2 * INT)) = x
    BY <2>2, SignedBack
  <2>4. LeftOf(p, t) = x
    BY <2>3 DEF LeftOf
  <2>5. t % U64 = t /\ ~(t < 0) /\ x \in Int
    BY <1>1, <1>3, <2>2
  <2> QED BY <2>4, <2>5
<1>4. CASE t < 0
  <2>1. \A q \in Period : LeftOf(p, t % U64) > q
    BY <1>1, <1>4, PacingAssumption
  <2>2. t + U64 \in Int
    BY <1>1, <1>2
  <2> DEFINE m == p - Millis(t + U64) - 1
             u == m % (2 * INT)
  <2>3. m \in Int /\ 2 * INT \in Nat \ {0}
    BY <1>2, <2>2, MillisBounds
  <2>4. u \in Int
    <3> HIDE DEF m
    <3>1. m % (2 * INT) \in 0 .. 2 * INT - 1
      BY <2>3, Division
    <3> QED BY <2>3, <3>1
  <2>5. Signed(u) \in Int
    <3> HIDE DEF u
    <3> QED BY <1>2, <2>4 DEF Signed
  <2>6. LeftOf(p, t + U64) \in Int
    BY <2>5 DEF LeftOf
  <2>7. t % U64 = t + U64 /\ ~(t >= 0)
    BY <1>1, <1>4
  <2> QED BY <2>1, <2>6, <2>7
<1> QED
  BY <1>1, <1>3, <1>4

LEMMA PacingBegins == PacingInit => PacingIInv
<1> SUFFICES ASSUME PacingInit PROVE PacingIInv
  OBVIOUS
<1>1. PacingTypeOK
  <2>1. elapsed \in 0 .. U64 - 1
    BY PacingAssumption DEF PacingInit
  <2>2. kpc = "roll" /\ raced \in BOOLEAN
    BY DEF PacingInit
  <2>3. tosleep \in Nat /\ cost \in Nat /\ skew \in Int /\ gap \in Nat
    BY DEF PacingInit
  <2> QED BY <2>1, <2>2, <2>3 DEF PacingInit, PacingTypeOK
<1>2. Accounted
  BY DEF PacingInit, Accounted
<1> QED
  BY <1>1, <1>2 DEF PacingIInv

(* What is left, in the thread's words.                                    *)
LEMMA LeftType ==
  ASSUME PacingIInv, kpc # "roll", NEW p \in Period
  PROVE  /\ Left(p) \in Int /\ p \in Nat \ {0}
         /\ Clamped(Left(p)) \in Nat
<1>1. elapsed = (cost + skew) % U64 /\ cost + skew \in Seen
  BY DEF PacingIInv, Accounted
<1>2. Left(p) \in Int
  BY <1>1, LeftOver DEF Left
<1>3. p \in Nat \ {0}
  BY PacingAssumption
<1> QED
  BY <1>2, <1>3 DEF Clamped

LEMMA PacingStep == PacingIInv /\ [PacingNext]_pacing => PacingIInv'
<1> SUFFICES ASSUME PacingIInv, [PacingNext]_pacing PROVE PacingIInv'
  OBVIOUS
<1>0. /\ asked \in Period /\ ctrl_period \in Period /\ most \in Period /\ tosleep \in Nat
      /\ cost \in Nat /\ skew \in Int /\ PacingTypeOK /\ Accounted
  BY DEF PacingIInv, PacingTypeOK
<1>1. CASE Roll
  <2>1. PICK c \in Cost, first \in Skew, second \in Skew :
          cost' = c /\ skew' = second - first /\ elapsed' = (c + second - first) % U64
    BY <1>1 DEF Roll
  <2>2. kpc' = "subtract" /\ UNCHANGED <<ctrl_period, tosleep, gap, asked, most, raced>>
    BY <1>1 DEF Roll
  <2>3. c \in Nat /\ first \in Int /\ second \in Int /\ U64 \in Nat \ {0}
    BY PacingAssumption
  <2> DEFINE t == c + second - first
  <2>4. t \in Seen
    BY DEF Seen
  <2>5. t \in Int /\ cost' + skew' = t
    BY <2>1, <2>3
  <2>6. elapsed' \in 0 .. U64 - 1
    <3> HIDE DEF t
    <3>1. t % U64 \in 0 .. U64 - 1
      BY <2>3, <2>5, Division
    <3> QED BY <2>1, <3>1 DEF t
  <2>7. PacingTypeOK'
    BY <1>0, <2>1, <2>2, <2>3, <2>6 DEF PacingTypeOK
  <2>8. Accounted'
    BY <2>1, <2>2, <2>4, <2>5 DEF Accounted
  <2> QED BY <2>7, <2>8 DEF PacingIInv
<1>2. CASE Subtract
  <2>1. /\ tosleep' = Clamped(Left(ctrl_period))
        /\ asked' = ctrl_period /\ kpc' = "compare" /\ kpc # "roll"
        /\ UNCHANGED <<ctrl_period, elapsed, cost, skew, gap, most, raced>>
    BY <1>2 DEF Subtract, Clamped
  <2>2. Left(asked)' = Left(ctrl_period) /\ Clamped(Left(asked))' = Clamped(Left(ctrl_period))
    BY <2>1 DEF Left, Clamped
  <2>3. tosleep' \in Nat
    BY <1>0, <2>1, LeftType
  <2>4. PacingTypeOK'
    BY <1>0, <2>1, <2>3 DEF PacingTypeOK
  <2>5. Accounted'
    BY <1>0, <2>1, <2>2 DEF Accounted
  <2> QED BY <2>4, <2>5 DEF PacingIInv
<1>3. CASE Compare
  <2>1. /\ kpc = "compare" /\ most' = ctrl_period /\ raced' = (ctrl_period # asked)
        /\ kpc' = IF tosleep > ctrl_period THEN "limit" ELSE "sleep"
        /\ UNCHANGED <<ctrl_period, elapsed, tosleep, cost, skew, gap, asked>>
    <3>1. Exceeds(tosleep, ctrl_period) <=> tosleep > ctrl_period
      BY <1>0, LeftType DEF Exceeds
    <3> QED BY <1>3, <3>1 DEF Compare
  <2>2. tosleep = Clamped(Left(asked)) /\ tosleep \in Nat /\ ctrl_period \in Nat
    BY <1>0, <2>1, LeftType DEF Accounted
  <2>3. Clamped(Left(asked))' = Clamped(Left(asked))
    BY <2>1 DEF Left, Clamped
  <2>4. PacingTypeOK'
    BY <1>0, <2>1 DEF PacingTypeOK
  <2>5. CASE tosleep > ctrl_period
    BY <1>0, <2>1, <2>2, <2>3, <2>4, <2>5 DEF Accounted, PacingIInv
  <2>6. CASE ~(tosleep > ctrl_period)
    <3>1. tosleep <= ctrl_period
      BY <2>2, <2>6
    <3> QED BY <1>0, <2>1, <2>2, <2>3, <2>4, <2>6, <3>1 DEF Accounted, PacingIInv
  <2> QED BY <2>4, <2>5, <2>6 DEF PacingIInv
<1>4. CASE Limit
  <2>1. /\ kpc = "limit" /\ kpc' = "sleep" /\ most' = ctrl_period /\ tosleep' = ctrl_period
        /\ raced' = (raced \/ ctrl_period # asked)
        /\ UNCHANGED <<ctrl_period, elapsed, cost, skew, gap, asked>>
    BY <1>4 DEF Limit
  <2>2. /\ tosleep = Clamped(Left(asked)) /\ tosleep > most /\ (raced <=> most # asked)
        /\ tosleep \in Nat /\ ctrl_period \in Nat \ {0} /\ most \in Nat \ {0}
    BY <1>0, <2>1, LeftType DEF Accounted
  <2>3. Clamped(Left(asked))' = Clamped(Left(asked))
    BY <2>1 DEF Left, Clamped
  <2>4. PacingTypeOK'
    BY <1>0, <2>1, <2>2 DEF PacingTypeOK
  <2>5. Clamped(Left(asked)) # 0
    BY <2>2
  <2>6. tosleep' <= most'
    BY <2>1, <2>2
  <2>7. ~raced' => most' = asked' /\ tosleep' = asked' /\ Clamped(Left(asked))' > asked'
    BY <2>1, <2>2, <2>3
  <2>8. Accounted'
    BY <1>0, <2>1, <2>3, <2>5, <2>6, <2>7 DEF Accounted
  <2> QED BY <2>4, <2>8 DEF PacingIInv
<1>5. CASE Sleep
  <2>1. /\ kpc = "sleep" /\ kpc' = "awake"
        /\ UNCHANGED <<ctrl_period, elapsed, tosleep, cost, skew, asked, most, raced>>
    BY <1>5 DEF Sleep
  <2>2. gap' \in Nat
    BY <1>0, <1>5, PacingAssumption DEF Sleep, Slept
  <2>3. tosleep # 0 => \E d \in Slept(tosleep) : gap' = cost + d
    BY <1>5 DEF Sleep
  <2>4. PacingTypeOK'
    BY <1>0, <2>1, <2>2 DEF PacingTypeOK
  <2>5. Clamped(Left(asked))' = Clamped(Left(asked)) /\ Slept(tosleep)' = Slept(tosleep)
    BY <2>1 DEF Left, Clamped, Slept
  <2>6. Accounted'
    BY <1>0, <2>1, <2>3, <2>5 DEF Accounted
  <2> QED BY <2>4, <2>6 DEF PacingIInv
<1>6. CASE Again
  <2>1. PacingTypeOK'
    <3>1. elapsed' \in 0 .. U64 - 1
      BY <1>6, PacingAssumption DEF Again
    <3>2. kpc' = "roll" /\ raced' \in BOOLEAN
      BY <1>6 DEF Again
    <3>3. tosleep' \in Nat /\ cost' \in Nat /\ skew' \in Int /\ gap' \in Nat
      BY <1>6 DEF Again
    <3>4. ctrl_period' \in Period /\ asked' \in Period /\ most' \in Period
      BY <1>0, <1>6 DEF Again
    <3> QED BY <3>1, <3>2, <3>3, <3>4 DEF PacingTypeOK
  <2>2. Accounted'
    BY <1>6 DEF Again, Accounted
  <2> QED BY <2>1, <2>2 DEF PacingIInv
<1>7. CASE StorePeriod \/ UNCHANGED pacing
  <2>1. UNCHANGED <<kpc, elapsed, tosleep, cost, skew, gap, asked, most, raced>>
    BY <1>7 DEF StorePeriod, pacing, history
  <2>2. ctrl_period' \in Period
    BY <1>0, <1>7 DEF StorePeriod, pacing
  <2>3. PacingTypeOK'
    BY <1>0, <2>1, <2>2 DEF PacingTypeOK
  <2>4. Clamped(Left(asked))' = Clamped(Left(asked)) /\ Slept(tosleep)' = Slept(tosleep)
    BY <2>1 DEF Left, Clamped, Slept
  <2>5. Accounted'
    BY <1>0, <2>1, <2>4 DEF Accounted
  <2> QED BY <2>3, <2>5 DEF PacingIInv
<1> QED
  BY <1>1, <1>2, <1>3, <1>4, <1>5, <1>6, <1>7 DEF PacingNext

(* The thread knows what it sleeps for, whenever ctrl_period is written    *)
(* and whatever the times it gets are worth.                               *)
THEOREM PacingInductive == PacingSpec => []PacingIInv
  BY PacingBegins, PacingStep, PTL DEF PacingSpec

(* What the thread computed, once it sleeps.                               *)
LEMMA SleepIs ==
  ASSUME PacingIInv, kpc \in {"sleep", "awake"}
  PROVE  LET took == cost + skew
         IN  /\ took \in Int /\ asked \in Nat \ {0} /\ Left(asked) \in Int
             /\ took >= 0 => Left(asked) = asked - Millis(took) - 1
             /\ took < 0 => Left(asked) > asked
<1> DEFINE took == cost + skew
<1>1. took \in Seen /\ elapsed = took % U64 /\ asked \in Period
  BY DEF PacingIInv, Accounted, PacingTypeOK
<1>2. took \in Int /\ asked \in Nat \ {0}
  BY <1>1, SeenWraps, PacingAssumption
<1> HIDE DEF took
<1>3. /\ Left(asked) \in Int
      /\ took >= 0 => Left(asked) = asked - Millis(took) - 1
      /\ took < 0 => Left(asked) > asked
  BY <1>1, LeftOver DEF Left
<1> QED
  BY <1>2, <1>3 DEF took

(* The thread of a node keeps its period to within a millisecond and what  *)
(* the two times it got were wrong by, or by a whole sample where they were*)
(* in the wrong order.                                                     *)
THEOREM PeriodIsKept == PacingSpec => []PeriodKept
<1>1. ASSUME PacingIInv, kpc = "awake", ~raced, cost + skew >= 0, tosleep # 0
      PROVE  (asked - 1) * MS < gap + skew /\ gap + skew < (asked + 1) * MS
  <2> DEFINE took == cost + skew
             e == Millis(took)
  <2>1. /\ took \in Int /\ asked \in Nat \ {0} /\ Left(asked) = asked - e - 1
        /\ gap \in Nat /\ cost \in Nat /\ skew \in Int /\ tosleep \in Nat /\ MS \in Nat \ {0}
    BY <1>1, SleepIs, PacingAssumption DEF PacingIInv, PacingTypeOK
  <2>2. e \in Nat /\ e * MS <= took /\ took < e * MS + MS
    BY <1>1, <2>1, MillisBounds
  <2>3. tosleep = IF Clamped(Left(asked)) > asked THEN asked ELSE Clamped(Left(asked))
    BY <1>1 DEF PacingIInv, Accounted
  <2>4. PICK d \in Slept(tosleep) : gap = cost + d
    BY <1>1 DEF PacingIInv, Accounted
  <2> HIDE DEF e
  <2>5. tosleep = asked - e - 1
    BY <1>1, <2>1, <2>2, <2>3 DEF Clamped
  <2>6. d \in Int /\ tosleep * MS < d /\ d <= tosleep * MS + MS
    BY <2>1, <2>4 DEF Slept
  <2>7. tosleep * MS = asked * MS - e * MS - MS
    BY <2>1, <2>2, <2>5
  <2>8. (asked - 1) * MS = asked * MS - MS /\ (asked + 1) * MS = asked * MS + MS
    BY <2>1
  <2>9. asked * MS \in Nat /\ e * MS \in Nat /\ gap + skew = took + d
    BY <2>1, <2>2, <2>4, <2>6
  <2> HIDE DEF took
  <2> QED BY <2>1, <2>2, <2>6, <2>7, <2>8, <2>9
<1>2. ASSUME PacingIInv, kpc = "awake", ~raced, cost + skew < 0
      PROVE  asked * MS < gap - cost /\ gap - cost <= (asked + 1) * MS
  <2>1. asked \in Nat \ {0} /\ Left(asked) \in Int /\ Left(asked) > asked
    BY <1>2, SleepIs
  <2>2. tosleep = IF Clamped(Left(asked)) > asked THEN asked ELSE Clamped(Left(asked))
    BY <1>2 DEF PacingIInv, Accounted
  <2>3. tosleep = asked
    BY <2>1, <2>2 DEF Clamped
  <2>4. PICK d \in Slept(asked) : gap = cost + d
    BY <1>2, <2>1, <2>3 DEF PacingIInv, Accounted
  <2>5. MS \in Nat \ {0} /\ cost \in Nat /\ asked * MS \in Nat /\ (asked + 1) * MS = asked * MS + MS
    BY <1>2, <2>1, PacingAssumption DEF PacingIInv, PacingTypeOK
  <2>6. d \in Int /\ asked * MS + 1 <= d /\ d <= asked * MS + MS
    BY <2>4, <2>5 DEF Slept
  <2> QED BY <2>4, <2>5, <2>6
<1>3. PacingIInv => PeriodKept
  BY <1>1, <1>2 DEF PeriodKept
<1> QED
  BY <1>3, PacingInductive, PTL

(* It is never put to sleep when it is late, and never for longer than the *)
(* period it saw last, even if its two times were in the wrong order.      *)
THEOREM SleepIsLimited == PacingSpec => [](PacingTypeOK /\ NeverTooLong)
<1>1. ASSUME PacingIInv, kpc \in {"sleep", "awake"}, cost + skew >= asked * MS PROVE tosleep = 0
  <2> DEFINE took == cost + skew
             e == Millis(took)
  <2>1. took \in Int /\ asked \in Nat \ {0} /\ Left(asked) \in Int /\ MS \in Nat \ {0}
    BY <1>1, SleepIs, PacingAssumption
  <2>2. e \in Int /\ took < e * MS + MS /\ took >= asked * MS
    BY <1>1, <2>1, MillisBounds
  <2>3. asked * MS >= 0
    BY <2>1
  <2>4. Left(asked) = asked - e - 1
    BY <1>1, <2>1, <2>2, <2>3, SleepIs
  <2> HIDE DEF e, took
  <2>5. ~(e + 1 <= asked - 1)
    <3> SUFFICES ASSUME e + 1 <= asked - 1 PROVE FALSE
      OBVIOUS
    <3> DEFINE k == asked - 1 - (e + 1)
    <3>1. k \in Nat /\ asked = k + e + 2
      BY <2>1, <2>2
    <3>2. asked * MS = k * MS + e * MS + 2 * MS /\ k * MS >= 0 /\ k * MS \in Int /\ e * MS \in Int
      BY <2>1, <2>2, <3>1
    <3> HIDE DEF k
    <3> QED BY <2>1, <2>2, <3>2
  <2>6. Left(asked) <= 0
    BY <2>1, <2>2, <2>4, <2>5
  <2> QED BY <1>1, <2>6 DEF PacingIInv, Accounted, Clamped
<1>2. ASSUME PacingIInv PROVE PacingTypeOK /\ NeverTooLong
  BY <1>1, <1>2 DEF PacingIInv, Accounted, NeverTooLong
<1> QED
  BY <1>2, PacingInductive, PTL
=============================================================================
