------------------------- MODULE StatCountersProofs -------------------------
(***************************************************************************)
(* Proofs about StatCounters, for any threads, CPUs and readings, and about*)
(* StatPacing, for any periods and any cost of a sample.                   *)
(***************************************************************************)
EXTENDS StatCounters, StatPacing, TLAPS

-----------------------------------------------------------------------------
(* The inductive invariant of the counters.                                *)

Place  == Rolling \cup {"none", "new", "look", "sleep"}
Values == [total : Nat, enabled : Nat, running : Nat]

WorldType ==
  /\ limit \in Limits
  /\ clock \in 0 .. limit.clock
  /\ era \in 1 .. limit.eras
  /\ event \in [Cpu -> Values]
  /\ loaded \in BOOLEAN

ControlType ==
  /\ on \in BOOLEAN
  /\ wpc \in [Writer -> {"idle", "stop", "clear"} \cup TurningOn \cup Thread]
  /\ task \in Thread \cup {Nobody}
  /\ flagged \subseteq Thread
  /\ pc \in [Thread -> Place]

TimeType ==
  /\ rtime \in [Writer -> Nat]
  /\ st_prev \in Nat /\ st_current \in Nat /\ st_oh \in Nat /\ began \in Nat /\ since \in Nat
  /\ intervals \in Int

CounterType ==
  /\ saved \in [Cpu -> Values]
  /\ counts \in [Cpu -> Nat]
  /\ DOMAIN sample = DOMAIN NoSample
  /\ eras \in 1 .. era

TypeOK == WorldType /\ ControlType /\ TimeType /\ CounterType

(* Nobody is sampling, and nobody else is writing, while the counters are  *)
(* reset; nobody is sampling after an off; and never anybody but the thread*)
(* that kthread_task is.                                                   *)
Quiet == \A t \in Thread : pc[t] = "none"

AloneInv ==
  "overlap" \notin cause =>
    /\ \A t \in Thread : pc[t] # "none" => t = task
    /\ \A w \in Writer :
         /\ wpc[w] \in TurningOn => Quiet /\ \A v \in Writer \ {w} : wpc[v] = "idle"
         /\ wpc[w] = "start" \/ (wpc[w] \in TurningOn /\ ~Micstat) => on
         /\ wpc[w] = "clear" => ~on
         /\ wpc[w] \in Thread => wpc[w] = task
    /\ ~on => Quiet \/ \E w \in Writer : wpc[w] \in {"stop"} \cup Thread

(* The time stamps are those of the reset, and then those of the sample.   *)
Sampled == (Rolling \cup {"sleep"}) \ {"ts"}

OneTime(t) ==
  /\ pc[t] \notin {"none", "intv"} => intervals = (st_current - since) % TIME
  /\ pc[t] = "intv" => intervals = (st_prev - since) % TIME
  /\ pc[t] \in Sampled => st_current = began /\ began <= clock
  /\ pc[t] = "measure" => st_oh \in began .. clock
  /\ pc[t] = "sleep" => sample.oh \in 0 .. clock - began

TimeInv ==
  "overlap" \notin cause =>
    /\ \A w \in Writer :
         /\ wpc[w] \in TurningOn \ {"reset"} => intervals = 0
         /\ wpc[w] \in {"oh", "current", "prev"} => rtime[w] = since
         /\ wpc[w] \in {"prev", "raise", "start"} => st_current = since
    /\ \A t \in Thread : OneTime(t)

(* An event has not counted while it did not run, and has not run while it *)
(* was not enabled, neither up to its last reading nor since then.         *)
RunsOn(v, w) ==
  /\ v.total <= w.total
  /\ w.total - v.total <= w.running - v.running
  /\ w.running - v.running <= w.enabled - v.enabled

OneCount(c) ==
  c \notin ignored =>
    /\ counts[c] >= saved[c].total
    /\ saved[c].running = saved[c].enabled => counts[c] = saved[c].total

EventInv ==
  \A c \in Cpu : RunsOn(Zero, saved[c]) /\ RunsOn(saved[c], event[c]) /\ OneCount(c)

(* The base clock is the part's from the end of micstat_init on.           *)
BaseInv ==
  /\ ~Micstat => loaded
  /\ bclk = IF Micstat /\ loaded /\ get_baseclk(limit.scratch4) # 0
            THEN get_baseclk(limit.scratch4) ELSE DefaultClk

(* What a sample has it has in the order of the sensors.                   *)
OrderInv ==
  Micstat /\ "overlap" \notin cause => \A t \in Thread :
    /\ pc[t] \in {"intv", "freq"} => sample.temp = <<>>
    /\ pc[t] \in {"intv", "freq", "temp"} => sample.power = <<>>
    /\ pc[t] = "temp" => FrequencyShown

SensorInv == BaseInv /\ OrderInv /\ SensorsAreShown /\ FrequencyIsReal

IInv == TypeOK /\ AloneInv /\ TimeInv /\ EventInv /\ SensorInv

LEMMA Parameters ==
  /\ Nobody \notin Thread
  /\ Thread \cap {"idle", "reset", "oh", "current", "prev", "raise", "start", "stop", "clear"} = {}
  /\ TIME \in Nat \ {0} /\ Threshold \in Nat
  /\ \A l \in Limits :
       /\ l.driver \in {"haswellstat", "micstat"}
       /\ l.clock \in Nat /\ l.clock < TIME /\ l.eras \in Nat \ {0} /\ l.scratch4 \in Nat
       /\ \A r \in Register : \A e \in 1 .. l.eras : Reading[r][e] \in Nat
  BY StatCountersAssumption

(* A stamp has room for the clock.                                         *)
LEMMA ClockFits ==
  ASSUME WorldType
  PROVE  clock \in Nat /\ clock < TIME /\ era \in Nat \ {0}
  BY Parameters DEF WorldType

(* Products and quotients.                                                 *)
LEMMA Multiple ==
  ASSUME NEW a \in Int, NEW b \in Int, NEW d \in Nat
  PROVE  a <= b => a * d <= b * d
<1>1. (b - a) * d = b * d - a * d
  OBVIOUS
<1>2. a <= b => (b - a) * d \in Nat
  OBVIOUS
<1> QED
  BY <1>1, <1>2

LEMMA Division ==
  ASSUME NEW a \in Int, NEW d \in Nat \ {0}
  PROVE  /\ a = (a \div d) * d + (a % d)
         /\ a % d \in 0 .. d - 1
         /\ a \div d \in Int
         /\ a >= 0 => a \div d >= 0
  OBVIOUS

(* Only one quotient and remainder.                                        *)
LEMMA DivisionUnique ==
  ASSUME NEW d \in Nat \ {0}, NEW q \in Int, NEW r \in 0 .. d - 1
  PROVE  /\ (q * d + r) \div d = q
         /\ (q * d + r) % d = r
<1> DEFINE a == q * d + r
           p == a \div d
           s == a % d
<1>1. a \in Int /\ p \in Int /\ s \in 0 .. d - 1 /\ a = p * d + s
  BY Division
<1>2. a = q * d + r
  OBVIOUS
<1> HIDE DEF a, p, s
<1>3. q * d \in Int /\ p * d \in Int /\ (q + 1) * d = q * d + d /\ (p + 1) * d = p * d + d
  BY <1>1
<1>4. ~ (p + 1 <= q)
  BY <1>1, <1>2, <1>3, Multiple
<1>5. ~ (q + 1 <= p)
  BY <1>1, <1>2, <1>3, Multiple
<1>6. p = q
  BY <1>1, <1>4, <1>5
<1> QED
  BY <1>1, <1>2, <1>3, <1>6 DEF a, p, s

(* A product scaled up by what is not less than one is not less, and the   *)
(* same if it is one.                                                      *)
LEMMA RoundedUp ==
  ASSUME NEW t \in Nat, NEW e \in Nat, NEW r \in Nat \ {0}
  PROVE  LET x == (2 * (t * e) + r) \div (2 * r)
         IN  /\ x \in Nat
             /\ r <= e => x >= t
             /\ r = e => x = t
<1> DEFINE a == 2 * (t * e) + r
           d == 2 * r
           x == a \div d
<1>1. t * e \in Nat /\ t * r \in Nat /\ t * d = 2 * (t * r)
  OBVIOUS
<1>2. a \in Nat /\ d \in Nat \ {0} /\ d > r
  BY <1>1
<1>3. x \in Nat /\ a = x * d + (a % d) /\ a % d \in 0 .. d - 1
  <2> HIDE DEF a, d
  <2>1. a \in Int /\ a >= 0
    BY <1>2
  <2>2. /\ a = (a \div d) * d + (a % d) /\ a % d \in 0 .. d - 1
        /\ a \div d \in Int /\ a \div d >= 0
    BY <1>2, <2>1, Division
  <2> QED BY <2>2
<1>4. r = e => a = t * d + r /\ r \in 0 .. d - 1
  BY <1>1
<1>5. ASSUME r <= e PROVE x >= t
  <2>1. e * t >= r * t /\ e * t = t * e /\ r * t = t * r
    BY <1>5, Multiple
  <2>2. t * d <= a
    BY <1>1, <2>1
  <2> HIDE DEF a, d, x
  <2>3. (x + 1) * d = x * d + d /\ x * d \in Int /\ t * d \in Int
    BY <1>2, <1>3
  <2>4. ~ (x + 1 <= t)
    BY <1>2, <1>3, <2>2, <2>3, Multiple
  <2> QED BY <1>3, <2>4
<1> HIDE DEF a, d
<1>6. r = e => x = t
  BY <1>2, <1>4, DivisionUnique
<1> QED
  BY <1>3, <1>5, <1>6 DEF a, d

-----------------------------------------------------------------------------
(* Types.                                                                  *)

(* A write of ctrl leaves the world, the counters and the sensors alone.   *)
LEMMA WriterSteps ==
  ASSUME NEW w \in Writer, OnWriter(w) \/ OffWriter(w)
  PROVE  /\ UNCHANGED <<world, load, perf, sensors>> /\ cause \subseteq cause'
         /\ pc' = pc \/ \E t \in Thread : pc' = [pc EXCEPT ![t] = "new"]
  BY DEF OnWriter, SetOn, ResetTime, ResetOh, ResetCurrent, ResetPrev, Raise, TimerStart, OffWriter,
         SetOff, Stop, Stopped, SetOffNothing, Clear, perf

LEMMA WorldTypeStep == WorldType /\ [Next]_vars => WorldType'
<1> SUFFICES ASSUME WorldType, [Next]_vars PROVE WorldType'
  OBVIOUS
<1> USE Parameters DEF WorldType
<1>1. CASE Tick
  BY <1>1 DEF Tick, load
<1>2. CASE Change
  BY <1>2 DEF Change, load
<1>3. ASSUME NEW c \in Cpu, Count(c) PROVE WorldType'
  <2>1. event' \in [Cpu -> Values]
    BY <1>3 DEF Count, Values
  <2> QED BY <1>3, <2>1 DEF Count, load
<1>4. CASE BaseClk
  BY <1>4 DEF BaseClk, world
<1>5. ASSUME UNCHANGED <<world, load>> PROVE WorldType'
  BY <1>5 DEF world, load
<1>6. ASSUME NEW w \in Writer, OnWriter(w) \/ OffWriter(w) PROVE UNCHANGED <<world, load>>
  BY <1>6, WriterSteps
<1>7. ASSUME NEW t \in Thread, Kthread(t) PROVE UNCHANGED <<world, load>>
  BY <1>7 DEF Kthread, RollBuffer, Sensors, Begin, Look, TsRestart, IntvRestart, SensorStep, Freq, Temp,
              Temp2, Power, ThermStatus, PerfRestart, OhRestart, Measure, Wake
<1>8. UNCHANGED vars => UNCHANGED <<world, load>>
  BY DEF vars
<1> QED
  BY <1>1, <1>2, <1>3, <1>4, <1>5, <1>6, <1>7, <1>8 DEF Next, World

(* A thread goes to another place, and leaves the control alone.           *)
LEMMA ThreadSteps ==
  ASSUME NEW t \in Thread, Kthread(t)
  PROVE  /\ pc[t] # "none" /\ \E p \in Place \ {"new"} : pc' = [pc EXCEPT ![t] = p]
         /\ UNCHANGED <<world, load, control, cause>>
  BY DEF Kthread, RollBuffer, Sensors, Begin, Look, TsRestart, IntvRestart, SensorStep, Freq, Temp,
         Temp2, Power, ThermStatus, PerfRestart, OhRestart, Measure, Wake, Goto, Place, Rolling

LEMMA ControlTypeStep == ControlType /\ [Next]_vars => ControlType'
<1> SUFFICES ASSUME ControlType, [Next]_vars PROVE ControlType'
  OBVIOUS
<1> USE DEF ControlType
<1>1. CASE World \/ BaseClk \/ UNCHANGED vars
  <2>1. UNCHANGED <<control, pc>>
    BY <1>1 DEF World, Tick, Change, Count, BaseClk, vars
  <2> QED BY <2>1 DEF control
<1>2. ASSUME NEW w \in Writer, OnWriter(w) PROVE ControlType'
  <2> USE DEF WGoto, TurningOn
  <2>1. CASE SetOn(w)
    BY <2>1 DEF SetOn, Micstat
  <2>2. CASE ResetTime(w) \/ ResetOh(w) \/ ResetCurrent(w) \/ ResetPrev(w)
    BY <2>2 DEF ResetTime, ResetOh, ResetCurrent, ResetPrev
  <2>3. CASE Raise(w)
    BY <2>3 DEF Raise, Micstat
  <2>4. CASE TimerStart(w)
    BY <2>4 DEF TimerStart, Place
  <2> QED BY <1>2, <2>1, <2>2, <2>3, <2>4 DEF OnWriter
<1>3. ASSUME NEW w \in Writer, OffWriter(w) PROVE ControlType'
  <2> USE DEF WGoto
  <2>1. CASE SetOff(w)
    BY <2>1 DEF SetOff, Micstat
  <2>2. CASE Stop(w)
    BY <2>2 DEF Stop
  <2>3. CASE Stopped(w)
    BY <2>3 DEF Stopped, Micstat
  <2>4. CASE SetOffNothing(w) \/ Clear(w)
    BY <2>4 DEF SetOffNothing, Clear
  <2> QED BY <1>3, <2>1, <2>2, <2>3, <2>4 DEF OffWriter
<1>4. ASSUME NEW t \in Thread, Kthread(t) PROVE ControlType'
  BY <1>4, ThreadSteps DEF control
<1> QED
  BY <1>1, <1>2, <1>3, <1>4 DEF Next

LEMMA TimeTypeStep == TypeOK /\ [Next]_vars => TimeType'
<1> SUFFICES ASSUME TypeOK, [Next]_vars PROVE TimeType'
  OBVIOUS
<1> USE DEF TypeOK, TimeType
<1>1. clock \in Nat
  BY ClockFits
<1>2. ASSUME UNCHANGED <<rtime, time>> PROVE TimeType'
  BY <1>2 DEF time
<1>3. World \/ BaseClk \/ (\E w \in Writer : OffWriter(w)) \/ UNCHANGED vars => UNCHANGED <<rtime, time>>
  BY DEF World, Tick, Change, Count, BaseClk, OffWriter, SetOff, Stop, Stopped, SetOffNothing, Clear,
         vars, control
<1>4. ASSUME NEW w \in Writer, OnWriter(w) PROVE TimeType'
  <2>1. CASE ResetTime(w)
    BY <1>1, <2>1 DEF ResetTime
  <2>2. CASE ResetOh(w) \/ ResetCurrent(w) \/ ResetPrev(w)
    BY <2>2 DEF ResetOh, ResetCurrent, ResetPrev
  <2>3. CASE SetOn(w) \/ Raise(w) \/ TimerStart(w)
    BY <1>2, <2>3 DEF SetOn, Raise, TimerStart
  <2> QED BY <1>4, <2>1, <2>2, <2>3 DEF OnWriter
<1>5. ASSUME NEW t \in Thread, TsRestart(t) PROVE TimeType'
  BY <1>1, <1>5 DEF TsRestart, control
<1>6. ASSUME NEW t \in Thread, IntvRestart(t) PROVE TimeType'
  <2>1. (intervals + st_current - st_prev) % TIME \in Int
    BY Parameters
  <2> QED BY <1>6, <2>1 DEF IntvRestart, control
<1>7. ASSUME NEW t \in Thread, OhRestart(t) PROVE TimeType'
  BY <1>1, <1>7 DEF OhRestart, control
<1>8. ASSUME NEW t \in Thread,
             Begin(t) \/ Look(t) \/ Sensors(t) \/ PerfRestart(t) \/ Measure(t) \/ Wake(t)
      PROVE  UNCHANGED <<rtime, time>>
  BY <1>8 DEF Begin, Look, Sensors, SensorStep, Freq, Temp, Temp2, Power, ThermStatus, PerfRestart,
              Measure, Wake, control
<1> QED
  BY <1>2, <1>3, <1>4, <1>5, <1>6, <1>7, <1>8 DEF Next, Kthread, RollBuffer

(* A reading that ran on has a difference to be scaled.                    *)
LEMMA DeltaType ==
  ASSUME WorldType, CounterType, NEW c \in Cpu
  PROVE  Delta(c) \in Nat
<1> DEFINE t == event[c].total - saved[c].total
           e == event[c].enabled - saved[c].enabled
           r == event[c].running - saved[c].running
<1>1. CASE Stale(c)
  BY <1>1 DEF Delta
<1>2. CASE ~Stale(c)
  <2>1. t \in Nat /\ e \in Nat /\ r \in Nat \ {0}
    BY <1>2 DEF Stale, WorldType, CounterType, Values
  <2>2. Delta(c) = 0 \/ Delta(c) = (2 * (t * e) + r) \div (2 * r)
    BY DEF Delta, Scaled
  <2> HIDE DEF t, e, r
  <2> QED BY <2>1, <2>2, RoundedUp
<1> QED
  BY <1>1, <1>2

LEMMA CounterTypeStep == TypeOK /\ [Next]_vars => CounterType'
<1> SUFFICES ASSUME TypeOK, [Next]_vars PROVE CounterType'
  OBVIOUS
<1> USE DEF TypeOK, CounterType
<1>1. era \in Nat /\ 1 <= era
  BY ClockFits
<1>2. ASSUME UNCHANGED <<saved, counts, sample, eras, era>> PROVE CounterType'
  BY <1>2
<1>3. CASE Change
  BY <1>1, <1>3 DEF Change, perf, sensors
<1>4. World \/ BaseClk \/ (\E w \in Writer : OnWriter(w) \/ OffWriter(w)) \/ UNCHANGED vars
        => Change \/ UNCHANGED <<saved, counts, sample, eras, era>>
  BY WriterSteps DEF World, Tick, Count, BaseClk, vars, world, perf, sensors
<1>5. ASSUME NEW t \in Thread, PerfRestart(t) PROVE CounterType'
  <2>1. \A c \in Cpu : Delta(c) \in Nat
    BY DeltaType
  <2>2. counts' \in [Cpu -> Nat]
    BY <1>5, <2>1 DEF PerfRestart
  <2> QED BY <1>5, <2>2 DEF PerfRestart, WorldType, world, sensors
<1>6. ASSUME NEW t \in Thread, TsRestart(t) PROVE CounterType'
  BY <1>1, <1>6 DEF TsRestart, perf, world
<1>7. ASSUME NEW t \in Thread, Sensors(t) \/ OhRestart(t) \/ Measure(t)
      PROVE  CounterType'
  <2>1. UNCHANGED <<saved, counts, eras, era>>
    BY <1>7 DEF Sensors, SensorStep, Freq, Temp, Temp2, Power, ThermStatus, OhRestart, Measure, perf, world
  <2>2. DOMAIN sample' = DOMAIN sample
    BY <1>7 DEF Sensors, Freq, Temp, Temp2, Power, ThermStatus, OhRestart, Measure
  <2> QED BY <2>1, <2>2
<1>8. ASSUME NEW t \in Thread, Begin(t) \/ Look(t) \/ IntvRestart(t) \/ Wake(t)
      PROVE  UNCHANGED <<saved, counts, sample, eras, era>>
  BY <1>8 DEF Begin, Look, IntvRestart, Wake, perf, sensors, world
<1> QED
  BY <1>2, <1>3, <1>4, <1>5, <1>6, <1>7, <1>8 DEF Next, Kthread, RollBuffer

LEMMA InitIInv == Init => IInv
<1> SUFFICES ASSUME Init PROVE IInv
  OBVIOUS
<1> USE Parameters DEF Init
<1>1. WorldType
  BY DEF WorldType, Values, Zero
<1>2. ControlType
  BY DEF ControlType, Place
<1>3. TimeType
  BY DEF TimeType
<1>4. CounterType
  BY DEF CounterType, Values, Zero
<1>5. AloneInv
  BY DEF AloneInv, Quiet, TurningOn
<1>6. TimeInv
  BY DEF TimeInv, OneTime, Sampled, Rolling, TurningOn
<1>7. EventInv
  BY DEF EventInv, OneCount, RunsOn, Zero
<1>8. SensorInv
  BY DEF SensorInv, BaseInv, OrderInv, NoSample, SensorsAreShown, FrequencyIsReal, ThermShown,
         TempsShown, DiesShown, PowersShown
<1> QED
  BY <1>1, <1>2, <1>3, <1>4, <1>5, <1>6, <1>7, <1>8 DEF IInv, TypeOK

-----------------------------------------------------------------------------
(* Who samples.                                                            *)

LEMMA DriverStays == [Next]_vars => UNCHANGED limit /\ (Micstat' <=> Micstat) /\ cause \subseteq cause'
<1> SUFFICES ASSUME [Next]_vars PROVE limit' = limit /\ cause \subseteq cause'
  BY DEF Micstat
<1>1. World \/ BaseClk \/ (\E w \in Writer : OnWriter(w) \/ OffWriter(w)) \/ UNCHANGED vars
        => limit' = limit /\ cause \subseteq cause'
  BY WriterSteps DEF World, Tick, Change, Count, BaseClk, vars, world
<1>2. ASSUME NEW t \in Thread, Kthread(t) PROVE limit' = limit /\ cause \subseteq cause'
  BY <1>2, ThreadSteps DEF world
<1> QED
  BY <1>1, <1>2 DEF Next

LEMMA AloneStep == TypeOK /\ AloneInv /\ [Next]_vars => AloneInv'
<1> SUFFICES ASSUME TypeOK, AloneInv, [Next]_vars, "overlap" \notin cause' PROVE AloneInv'
  BY DEF AloneInv
<1>0. (Micstat' <=> Micstat) /\ "overlap" \notin cause
  BY DriverStays
<1> USE <1>0, Parameters DEF TypeOK, ControlType, AloneInv, Quiet
<1>1. CASE World \/ BaseClk \/ UNCHANGED vars
  <2>1. UNCHANGED <<control, pc>>
    BY <1>1 DEF World, Tick, Change, Count, BaseClk, vars
  <2> QED BY <2>1 DEF control
<1>2. ASSUME NEW w \in Writer, SetOn(w) PROVE AloneInv'
  <2>1. \A v \in Writer : wpc[v] = "idle"
    BY <1>2 DEF SetOn, Overlap
  <2>2. Quiet
    BY <1>2, <2>1 DEF SetOn
  <2> QED BY <1>2, <2>1, <2>2 DEF SetOn, WGoto, TurningOn
<1>3. ASSUME NEW w \in Writer, ResetTime(w) \/ ResetOh(w) \/ ResetCurrent(w) \/ ResetPrev(w)
      PROVE  AloneInv'
  <2>1. /\ wpc[w] \in TurningOn /\ UNCHANGED <<on, pc, task>>
        /\ \E p \in TurningOn \ {"start"} : wpc' = [wpc EXCEPT ![w] = p]
    BY <1>3 DEF ResetTime, ResetOh, ResetCurrent, ResetPrev, WGoto, TurningOn
  <2> QED BY <2>1 DEF TurningOn
<1>4. ASSUME NEW w \in Writer, Raise(w) PROVE AloneInv'
  BY <1>4 DEF Raise, WGoto, TurningOn
<1>5. ASSUME NEW w \in Writer, TimerStart(w) PROVE AloneInv'
  BY <1>5 DEF TimerStart, WGoto, TurningOn
<1>6. ASSUME NEW w \in Writer, SetOff(w) PROVE AloneInv'
  <2>1. \A v \in Writer \ {w} : wpc[v] \notin TurningOn
    BY <1>6 DEF SetOff, Overlap
  <2> QED BY <1>6, <2>1 DEF SetOff, WGoto, TurningOn
<1>7. ASSUME NEW w \in Writer, Stop(w) PROVE AloneInv'
  BY <1>7 DEF Stop, WGoto, TurningOn
<1>8. ASSUME NEW w \in Writer, Stopped(w) PROVE AloneInv'
  <2>1. wpc[w] = task /\ pc[task] = "none" /\ wpc[w] \notin TurningOn
    BY <1>8 DEF Stopped, TurningOn
  <2>2. Quiet /\ UNCHANGED <<pc, task>>
    BY <1>8, <2>1 DEF Stopped
  <2>3. (on' <=> on /\ ~Micstat) /\ wpc' = [wpc EXCEPT ![w] = IF Micstat THEN "clear" ELSE "idle"]
    BY <1>8 DEF Stopped, WGoto
  <2>4. \A v \in Writer : wpc[v] \notin TurningOn /\ wpc'[v] \notin TurningOn
    <3>1. wpc[w] # "idle"
      BY <1>8 DEF Stopped
    <3>2. \A v \in Writer : wpc[v] \notin TurningOn
      BY <2>1, <3>1
    <3> QED BY <2>3, <3>2 DEF TurningOn
  <2>5. ASSUME NEW v \in Writer
        PROVE  /\ wpc'[v] = "start" \/ (wpc'[v] \in TurningOn /\ ~Micstat) => on'
               /\ wpc'[v] = "clear" => ~on'
               /\ wpc'[v] \in Thread => wpc'[v] = task'
    BY <2>2, <2>3, <2>4 DEF TurningOn
  <2> QED BY <2>2, <2>4, <2>5
<1>9. ASSUME NEW w \in Writer, SetOffNothing(w) PROVE AloneInv'
  <2>1. \A v \in Writer \ {w} : wpc[v] \notin TurningOn
    BY <1>9 DEF SetOffNothing, Overlap
  <2> QED BY <1>9, <2>1 DEF SetOffNothing, WGoto, TurningOn
<1>10. ASSUME NEW w \in Writer, Clear(w) PROVE AloneInv'
  BY <1>10 DEF Clear, WGoto, TurningOn
<1>11. ASSUME NEW t \in Thread, Kthread(t) PROVE AloneInv'
  BY <1>11, ThreadSteps DEF control
<1> QED
  BY <1>1, <1>2, <1>3, <1>4, <1>5, <1>6, <1>7, <1>8, <1>9, <1>10, <1>11 DEF Next, OnWriter, OffWriter

(* Who takes a step is alone, and no reset is under way.                   *)
LEMMA Alone ==
  ASSUME TypeOK, AloneInv, "overlap" \notin cause, NEW t \in Thread, pc[t] # "none"
  PROVE  /\ \A w \in Writer : wpc[w] \notin TurningOn
         /\ \A k \in Thread : k # t => pc[k] = "none"
  BY DEF AloneInv, Quiet

-----------------------------------------------------------------------------
(* Time.                                                                   *)

(* One interval more.                                                      *)
LEMMA OneMore ==
  ASSUME NEW p \in Int, NEW q \in Int, NEW r \in Int
  PROVE  (((p - r) % TIME) + q - p) % TIME = (q - r) % TIME
<1> DEFINE a == (p - r) % TIME
           b == (p - r) \div TIME
           x == (q - r) % TIME
           y == (q - r) \div TIME
<1>0. TIME \in Nat \ {0}
  BY Parameters
<1>1. p - r = b * TIME + a /\ a \in 0 .. TIME - 1 /\ b \in Int
  <2>1. p - r \in Int
    OBVIOUS
  <2> QED BY <1>0, <2>1, Division
<1>2. q - r = y * TIME + x /\ x \in 0 .. TIME - 1 /\ y \in Int
  <2>1. q - r \in Int
    OBVIOUS
  <2> QED BY <1>0, <2>1, Division
<1> HIDE DEF a, b, x, y
<1>3. (y - b) * TIME = y * TIME - b * TIME /\ y - b \in Int /\ y * TIME \in Int /\ b * TIME \in Int
  BY <1>0, <1>1, <1>2
<1>4. a + q - p = (y - b) * TIME + x
  BY <1>1, <1>2, <1>3
<1>5. ((y - b) * TIME + x) % TIME = x
  BY <1>0, <1>2, <1>3, DivisionUnique
<1> QED
  BY <1>4, <1>5 DEF a, x

LEMMA TimeOnWriter ==
  ASSUME TypeOK, AloneInv, TimeInv, NEW w \in Writer, OnWriter(w), "overlap" \notin cause'
  PROVE  TimeInv'
<1>0. /\ "overlap" \notin cause /\ UNCHANGED clock /\ clock \in Nat
      /\ wpc \in [Writer -> {"idle", "stop", "clear"} \cup TurningOn \cup Thread]
      /\ rtime \in [Writer -> Nat] /\ pc \in [Thread -> Place]
  BY WriterSteps, ClockFits DEF TypeOK, ControlType, TimeType, world
<1>1. wpc[w] \in TurningOn => Quiet /\ \A v \in Writer \ {w} : wpc[v] = "idle"
  BY <1>0 DEF AloneInv
<1>2. ASSUME Quiet, pc' = pc PROVE \A t \in Thread : OneTime(t)'
  BY <1>2 DEF Quiet, OneTime, Sampled, Rolling
<1>3. CASE SetOn(w)
  <2>1. /\ UNCHANGED <<pc, clock, sample, st_prev, st_current, st_oh, began, since, intervals, rtime>>
        /\ wpc' = [wpc EXCEPT ![w] = "reset"]
    BY <1>3 DEF SetOn, WGoto, time, sensors, world
  <2>2. \A t \in Thread : OneTime(t)'
    BY <1>0, <2>1 DEF TimeInv, OneTime
  <2> QED BY <1>0, <2>1, <2>2 DEF TimeInv
<1>4. CASE ResetTime(w)
  BY <1>0, <1>1, <1>2, <1>4 DEF ResetTime, WGoto, TimeInv, TurningOn
<1>5. CASE ResetOh(w)
  BY <1>0, <1>1, <1>2, <1>5 DEF ResetOh, WGoto, TimeInv, TurningOn
<1>6. CASE ResetCurrent(w)
  BY <1>0, <1>1, <1>2, <1>6 DEF ResetCurrent, WGoto, TimeInv, TurningOn
<1>7. CASE ResetPrev(w)
  BY <1>0, <1>1, <1>2, <1>7 DEF ResetPrev, WGoto, TimeInv, TurningOn
<1>8. CASE Raise(w)
  BY <1>0, <1>1, <1>2, <1>8 DEF Raise, WGoto, TimeInv, TurningOn, time
<1>9. CASE TimerStart(w)
  <2>1. PICK t \in Thread : pc' = [pc EXCEPT ![t] = "new"]
    BY <1>9 DEF TimerStart
  <2>2. /\ st_current = since /\ st_current \in Nat /\ intervals = 0 /\ wpc[w] = "start"
        /\ wpc' = [wpc EXCEPT ![w] = "idle"] /\ UNCHANGED <<st_current, since, intervals, rtime>>
    BY <1>0, <1>9 DEF TimerStart, TimeInv, TypeOK, TimeType, TurningOn, WGoto, time
  <2>3. (st_current - since) % TIME = 0
    BY <2>2, Parameters
  <2>4. \A k \in Thread : OneTime(k)'
    BY <1>0, <1>1, <2>1, <2>2, <2>3 DEF OneTime, Quiet, Sampled, Rolling, TurningOn
  <2> QED BY <1>0, <2>2, <2>4 DEF TimeInv
<1> QED
  BY <1>3, <1>4, <1>5, <1>6, <1>7, <1>8, <1>9 DEF OnWriter

(* The one thread there is takes a step.                                   *)
LEMMA TimeThread ==
  ASSUME TypeOK, AloneInv, TimeInv, "overlap" \notin cause, NEW t \in Thread, Kthread(t)
  PROVE  TimeInv'
<1> USE DEF TypeOK, ControlType, TimeType
<1>1. /\ pc[t] # "none" /\ UNCHANGED <<wpc, rtime, clock>> /\ \A w \in Writer : wpc[w] \notin TurningOn
      /\ \A k \in Thread : k # t => pc[k] = "none" /\ pc'[k] = "none"
  BY Alone, ThreadSteps DEF control, world
<1>2. OneTime(t)' => TimeInv'
  BY <1>1 DEF TimeInv, OneTime, Sampled, Rolling, TurningOn
<1>3. OneTime(t) /\ clock \in Nat /\ clock < TIME
  BY ClockFits DEF TimeInv
<1>4. CASE Begin(t) \/ Look(t) \/ Wake(t)
  <2>1. /\ UNCHANGED <<time, sample>> /\ pc[t] \in {"new", "look", "sleep"}
        /\ pc'[t] \in {"none", "look", "ts"}
    BY <1>4 DEF Begin, Look, Wake, Goto, sensors
  <2> QED BY <1>1, <1>2, <1>3, <2>1 DEF OneTime, Sampled, Rolling, time
<1>5. CASE TsRestart(t)
  <2>1. /\ pc[t] = "ts" /\ pc'[t] = "intv" /\ st_prev' = st_current /\ st_current' = clock
        /\ began' = clock /\ UNCHANGED <<since, intervals>>
    BY <1>5 DEF TsRestart, Goto
  <2> QED BY <1>1, <1>2, <1>3, <2>1 DEF OneTime, Sampled
<1>6. CASE IntvRestart(t)
  <2>1. /\ pc[t] = "intv" /\ pc'[t] \in {"freq", "temp"} /\ UNCHANGED <<st_prev, st_current, st_oh, began, since>>
        /\ intervals' = (intervals + st_current - st_prev) % TIME
    BY <1>6 DEF IntvRestart, Goto
  <2>2. intervals = (st_prev - since) % TIME
    BY <1>3, <2>1 DEF OneTime
  <2>3. intervals' = (st_current - since) % TIME
    <3>1. st_prev \in Int /\ st_current \in Int /\ since \in Int
      OBVIOUS
    <3>2. intervals' = (((st_prev - since) % TIME) + st_current - st_prev) % TIME
      BY <2>1, <2>2
    <3> QED BY <3>1, <3>2, OneMore
  <2> QED BY <1>1, <1>2, <1>3, <2>1, <2>3 DEF OneTime, Sampled, Rolling
<1>7. CASE Sensors(t) \/ PerfRestart(t)
  <2>1. /\ UNCHANGED time /\ pc[t] \in Sampled \ {"intv"}
        /\ pc'[t] \in {"temp", "temp2", "power", "perf", "oh"}
    <3>1. CASE PerfRestart(t)
      BY <3>1 DEF PerfRestart, Goto, Sampled, Rolling
    <3>2. CASE ThermStatus(t)
      BY <3>2 DEF ThermStatus, Goto, Sampled, Rolling
    <3>3. CASE \E at, next \in {"freq", "temp", "temp2", "power", "perf"} :
                 at # "perf" /\ next # "freq" /\ SensorStep(t, at, next)
      BY <3>3 DEF SensorStep, Goto, Sampled, Rolling
    <3>4. Freq(t) \/ Temp(t) \/ Temp2(t) \/ Power(t) =>
            \E at, next \in {"freq", "temp", "temp2", "power", "perf"} :
              at # "perf" /\ next # "freq" /\ SensorStep(t, at, next)
      BY ZenonT(30) DEF Freq, Temp, Temp2, Power
    <3> QED BY <1>7, <3>1, <3>2, <3>3, <3>4 DEF Sensors
  <2> QED BY <1>1, <1>2, <1>3, <2>1 DEF OneTime, Sampled, Rolling, time, Place
<1>8. CASE OhRestart(t)
  <2>1. /\ pc[t] = "oh" /\ pc'[t] = "measure" /\ st_oh' = clock
        /\ UNCHANGED <<st_current, began, since, intervals>>
    BY <1>8 DEF OhRestart, Goto
  <2> QED BY <1>1, <1>2, <1>3, <2>1 DEF OneTime, Sampled, Rolling
<1>9. CASE Measure(t)
  <2>1. /\ pc[t] = "measure" /\ pc'[t] = "sleep" /\ UNCHANGED time
        /\ sample' = [sample EXCEPT !.oh = (st_oh - st_current) % TIME]
    BY <1>9 DEF Measure, Goto
  <2>2. sample'.oh = (st_oh - st_current) % TIME
    BY <2>1 DEF CounterType, NoSample
  <2>3. st_current = began /\ st_oh \in began .. clock
    BY <1>3, <2>1 DEF OneTime, Sampled, Rolling
  <2>4. st_oh - st_current \in 0 .. clock - began /\ st_oh - st_current < TIME
    <3>1. began \in Nat /\ clock \in Nat /\ clock < TIME /\ TIME \in Nat
      BY <1>3, Parameters
    <3> QED BY <2>3, <3>1
  <2>5. (st_oh - st_current) % TIME = st_oh - st_current
    BY <2>4, Parameters
  <2> QED BY <1>1, <1>2, <1>3, <2>1, <2>2, <2>4, <2>5 DEF OneTime, Sampled, Rolling, time
<1> QED
  BY <1>4, <1>5, <1>6, <1>7, <1>8, <1>9 DEF Kthread, RollBuffer

LEMMA TimeStep == TypeOK /\ AloneInv /\ TimeInv /\ [Next]_vars => TimeInv'
<1> SUFFICES ASSUME TypeOK, AloneInv, TimeInv, [Next]_vars, "overlap" \notin cause' PROVE TimeInv'
  BY DEF TimeInv
<1>0. "overlap" \notin cause
  BY DriverStays
<1>1. CASE Tick
  <2>1. clock' = clock + 1 /\ UNCHANGED <<time, rtime, wpc, pc, sample>>
    BY <1>1 DEF Tick, control, sensors
  <2>2. clock \in Nat
    BY ClockFits DEF TypeOK
  <2>3. \A t \in Thread : OneTime(t)'
    <3> SUFFICES ASSUME NEW t \in Thread PROVE OneTime(t)'
      OBVIOUS
    <3>1. OneTime(t)
      BY <1>0 DEF TimeInv
    <3> QED BY <2>1, <2>2, <3>1 DEF OneTime, TypeOK, TimeType, time
  <2> QED BY <1>0, <2>1, <2>3 DEF TimeInv, time
<1>2. ASSUME UNCHANGED <<time, rtime, clock, sample, pc>>,
             \A w \in Writer : wpc'[w] \in TurningOn => wpc'[w] = wpc[w]
      PROVE  TimeInv'
  BY <1>0, <1>2 DEF TimeInv, OneTime, TurningOn, time
<1>3. World \/ BaseClk \/ UNCHANGED vars => Tick \/ UNCHANGED <<time, rtime, clock, sample, pc, wpc>>
  BY DEF World, Change, Count, BaseClk, vars, control, world, sensors
<1>6. ASSUME NEW w \in Writer, OffWriter(w) PROVE TimeInv'
  <2>1. /\ UNCHANGED <<time, rtime, clock, sample, pc>>
        /\ \E p \in {"stop", "clear", "idle"} \cup Thread : wpc' = [wpc EXCEPT ![w] = p]
    BY <1>6 DEF OffWriter, SetOff, Stop, Stopped, SetOffNothing, Clear, WGoto, world, sensors, TypeOK,
                ControlType
  <2>2. \A v \in Writer : wpc'[v] \in TurningOn => wpc'[v] = wpc[v]
    BY <2>1, Parameters DEF TurningOn, TypeOK, ControlType
  <2> QED BY <1>2, <2>1, <2>2
<1>4. ASSUME NEW w \in Writer, OnWriter(w) PROVE TimeInv'
  BY <1>4, TimeOnWriter
<1>5. ASSUME NEW t \in Thread, Kthread(t) PROVE TimeInv'
  BY <1>0, <1>5, TimeThread
<1> QED
  BY <1>1, <1>2, <1>3, <1>4, <1>5, <1>6 DEF Next

-----------------------------------------------------------------------------
(* Events.                                                                 *)

(* What a reading that is not too large adds is at least what was counted  *)
(* since the last one, which is nothing if the reading did not run on, and *)
(* just that if the event counted all the time.                            *)
LEMMA DeltaCounts ==
  ASSUME WorldType, CounterType, NEW c \in Cpu, RunsOn(saved[c], event[c]), ~TooLarge(c)
  PROVE  /\ Delta(c) >= event[c].total - saved[c].total
         /\ event[c].running - saved[c].running = event[c].enabled - saved[c].enabled
              => Delta(c) = event[c].total - saved[c].total
<1> DEFINE t == event[c].total - saved[c].total
           e == event[c].enabled - saved[c].enabled
           r == event[c].running - saved[c].running
<1>0. /\ event[c].total \in Nat /\ event[c].enabled \in Nat /\ event[c].running \in Nat
      /\ saved[c].total \in Nat /\ saved[c].enabled \in Nat /\ saved[c].running \in Nat
  BY DEF WorldType, CounterType, Values
<1>1. t \in Nat /\ r \in Nat /\ e \in Nat /\ t <= r /\ r <= e
  BY <1>0 DEF RunsOn
<1>2. CASE Stale(c)
  <2>1. t >= 0 /\ e >= 0 /\ r >= 0
    BY <1>1
  <2>2. event[c].running <= saved[c].running
    BY <1>0, <1>2, <2>1 DEF Stale
  <2>3. r = 0
    BY <1>0, <2>1, <2>2
  <2>4. Delta(c) = 0
    BY <1>2 DEF Delta
  <2> HIDE DEF t, e, r
  <2>5. t = 0
    BY <1>1, <2>3
  <2> QED BY <2>4, <2>5 DEF t
<1>3. CASE ~Stale(c)
  <2>1. r # 0
    BY <1>0, <1>3 DEF Stale
  <2>2. Delta(c) = (2 * (t * e) + r) \div (2 * r)
    BY <1>3 DEF Delta, Scaled
  <2>3. r \in Nat \ {0}
    BY <1>1, <2>1
  <2> HIDE DEF t, e, r
  <2> DEFINE x == (2 * (t * e) + r) \div (2 * r)
  <2>4. x >= t /\ (r = e => x = t)
    BY <1>1, <2>3, RoundedUp
  <2> QED BY <2>2, <2>4 DEF t, e, r
<1> QED
  BY <1>2, <1>3

LEMMA EventStep == TypeOK /\ EventInv /\ [Next]_vars => EventInv'
<1> SUFFICES ASSUME TypeOK, EventInv, [Next]_vars, NEW c \in Cpu
             PROVE  (RunsOn(Zero, saved[c]) /\ RunsOn(saved[c], event[c]) /\ OneCount(c))'
  BY DEF EventInv
<1>0. /\ RunsOn(Zero, saved[c]) /\ RunsOn(saved[c], event[c]) /\ OneCount(c)
      /\ event[c] \in Values /\ saved[c] \in Values /\ counts[c] \in Nat
  BY DEF EventInv, TypeOK, WorldType, CounterType
<1> USE DEF TypeOK
<1>1. ASSUME NEW k \in Cpu, Count(k)
      PROVE  (RunsOn(Zero, saved[c]) /\ RunsOn(saved[c], event[c]) /\ OneCount(c))'
  <2>1. UNCHANGED perf /\ \/ event'[c] = event[c]
                          \/ event'[c] = [event[c] EXCEPT !.enabled = @ + 1]
                          \/ \E i \in 0 .. 1 : event'[c] = [total   |-> event[c].total + i,
                                                            enabled |-> event[c].enabled + 1,
                                                            running |-> event[c].running + 1]
    BY <1>1 DEF Count, WorldType
  <2>2. RunsOn(saved[c], event'[c])
    BY <1>0, <2>1 DEF RunsOn, Values
  <2> QED BY <1>0, <2>1, <2>2 DEF OneCount, perf
<1>2. ASSUME NEW t \in Thread, PerfRestart(t)
      PROVE  (RunsOn(Zero, saved[c]) /\ RunsOn(saved[c], event[c]) /\ OneCount(c))'
  <2>1. /\ saved' = event /\ event' = event /\ counts'[c] = counts[c] + Delta(c)
        /\ c \notin ignored' => c \notin ignored /\ ~TooLarge(c)
    BY <1>2 DEF PerfRestart, world
  <2>2. RunsOn(Zero, event[c]) /\ RunsOn(event[c], event[c])
    BY <1>0 DEF RunsOn, Values, Zero
  <2>3. ASSUME c \notin ignored'
        PROVE  /\ counts'[c] >= event[c].total
               /\ event[c].running = event[c].enabled => counts'[c] = event[c].total
    <3>1. /\ Delta(c) >= event[c].total - saved[c].total
          /\ event[c].running - saved[c].running = event[c].enabled - saved[c].enabled
               => Delta(c) = event[c].total - saved[c].total
      BY <1>0, <2>1, <2>3, DeltaCounts
    <3>2. /\ counts[c] >= saved[c].total
          /\ saved[c].running = saved[c].enabled => counts[c] = saved[c].total
      BY <1>0, <2>1, <2>3 DEF OneCount
    <3>3. event[c].running = event[c].enabled => saved[c].running = saved[c].enabled
      BY <1>0 DEF RunsOn, Values, Zero
    <3>4. Delta(c) \in Nat
      BY DeltaType
    <3> QED BY <1>0, <2>1, <3>1, <3>2, <3>3, <3>4 DEF Values
  <2> QED BY <2>1, <2>2, <2>3 DEF OneCount
<1>3. ASSUME UNCHANGED <<event, perf>>
      PROVE  (RunsOn(Zero, saved[c]) /\ RunsOn(saved[c], event[c]) /\ OneCount(c))'
  BY <1>0, <1>3 DEF OneCount, perf
<1>4. ASSUME World \/ BaseClk \/ (\E w \in Writer : OnWriter(w) \/ OffWriter(w)) \/ UNCHANGED vars,
             ~ (\E k \in Cpu : Count(k))
      PROVE  UNCHANGED <<event, perf>>
  BY <1>4, WriterSteps DEF World, Tick, Change, BaseClk, vars, world
<1>5. ASSUME NEW t \in Thread,
             Begin(t) \/ Look(t) \/ TsRestart(t) \/ IntvRestart(t) \/ Sensors(t) \/ OhRestart(t)
               \/ Measure(t) \/ Wake(t)
      PROVE  UNCHANGED <<event, perf>>
  BY <1>5 DEF Begin, Look, TsRestart, IntvRestart, Sensors, SensorStep, Freq, Temp, Temp2, Power,
              ThermStatus, OhRestart, Measure, Wake, world
<1> QED
  BY <1>1, <1>2, <1>3, <1>4, <1>5 DEF Next, Kthread, RollBuffer

-----------------------------------------------------------------------------
(* Sensors.                                                                *)

LEMMA ReadingType ==
  ASSUME WorldType, NEW r \in Register
  PROVE  Reading[r][era] \in Nat
  BY Parameters DEF WorldType

(* The fields of a word that has other bits above them.                    *)
LEMMA WordFields ==
  ASSUME NEW v \in Nat
  PROVE  /\ v % 2^16 < 256 => uint8(GET_BITS(15, 0, v)) = v % 2^16
         /\ v % 2^30 < 2^16 => uint16(GET_BITS(29, 0, v)) = v % 2^30
         /\ GET_BITS(15, 0, v) = v % 2^16
  BY PowerAssumption DEF uint8, uint16, GET_BITS

LEMMA DieFields ==
  ASSUME NEW v \in Nat
  PROVE  /\ (v \div 1024^0) % 1024 < 256 => uint8(GET_BITS(9, 0, v)) = (v \div 1024^0) % 1024
         /\ (v \div 1024^1) % 1024 < 256 => uint8(GET_BITS(19, 10, v)) = (v \div 1024^1) % 1024
         /\ (v \div 1024^2) % 1024 < 256 => uint8(GET_BITS(29, 20, v)) = (v \div 1024^2) % 1024
  BY PowerAssumption DEF uint8, GET_BITS

LEMMA ThermField ==
  ASSUME NEW v \in Nat
  PROVE  therm_status_restart(v) = (v % 2^23) \div 2^16
  BY PowerAssumption DEF therm_status_restart

(* What the SMC's word has for a field, if the bus did not fail.           *)
LEMMA SmcFields ==
  ASSUME WorldType, NEW failed, NEW r \in SmcRegister
  PROVE  LET v == Reading[r][era]
             w == Smc(failed)[r]
         IN  /\ r \in failed => /\ uint8(GET_BITS(15, 0, w)) = 0
                                /\ uint16(GET_BITS(29, 0, w)) = 0
                                /\ (GET_BITS(15, 0, w) * 1000) \div 1000 = 0
             /\ r \notin failed => /\ v % 2^16 < 256 => uint8(GET_BITS(15, 0, w)) = v % 2^16
                                   /\ v % 2^30 < 2^16 => uint16(GET_BITS(29, 0, w)) = v % 2^30
                                   /\ (GET_BITS(15, 0, w) * 1000) \div 1000 = v % 2^16
<1> DEFINE v == Reading[r][era]
           w == Smc(failed)[r]
<1>1. v \in Nat /\ w = IF r \in failed THEN 0 ELSE v
  BY ReadingType DEF Register, Smc, mr_smc_rd
<1> HIDE DEF v, w
<1>2. \A x \in Nat : (x * 1000) \div 1000 = x
  OBVIOUS
<1>3. /\ v % 2^16 \in Nat /\ 0 % 2^16 = 0 /\ 0 < 256
      /\ v % 2^30 \in Nat /\ 0 % 2^30 = 0 /\ 0 < 2^16
  BY <1>1, PowerAssumption
<1>4. CASE r \in failed
  BY <1>1, <1>2, <1>3, <1>4, WordFields DEF v, w
<1>5. CASE r \notin failed
  BY <1>1, <1>2, <1>3, <1>5, WordFields DEF v, w
<1> QED
  BY <1>4, <1>5

(* A word that is read now is one of the sample's eras.                    *)
LEMMA ShowsNow ==
  ASSUME TypeOK, NEW failed, NEW r \in SmcRegister, NEW value, NEW span, NEW room,
         r \in sample'.failed <=> r \in failed, UNCHANGED <<eras, era>>,
         r \in failed => value = 0,
         r \notin failed => (Reading[r][era] % span < room => value = Reading[r][era] % span)
  PROVE  Shows(value, r, span, room)'
<1>1. era \in eras .. era
  BY ClockFits DEF TypeOK, CounterType
<1> QED
  BY <1>1 DEF Shows

LEMMA ShowsDieNow ==
  ASSUME TypeOK, NEW value, NEW n \in 0 .. 8, UNCHANGED <<eras, era>>,
         LET v == (Reading[DieRegister[n \div 3 + 1]][era] \div 1024^(n % 3)) % 1024
         IN  v < 256 => value = v
  PROVE  ShowsDie(value, n)'
<1>1. era \in eras .. era
  BY ClockFits DEF TypeOK, CounterType
<1> QED
  BY <1>1 DEF ShowsDie

LEMMA TempShows ==
  ASSUME TypeOK, Micstat, NEW t \in Thread, Temp(t)
  PROVE  TempsShown'
<1> USE DEF TypeOK
<1>1. PICK failed \in limit.failures :
        sample' = [sample EXCEPT !.temp = temp_restart(Smc(failed), Sbox("DIE_TEMP0")),
                                 !.failed = failed \ PowerRegister]
  BY DEF Temp
<1>2. UNCHANGED <<eras, era>>
  BY DEF Temp, SensorStep, world
<1>3. sample'.failed = failed \ PowerRegister /\ sample'.temp = temp_restart(Smc(failed), Sbox("DIE_TEMP0"))
  BY <1>1 DEF CounterType, NoSample
<1>4. ASSUME NEW f \in DOMAIN TempField
      PROVE  Shows(sample.temp[f], TempField[f], 2^16, 256)'
  <2>1. TempField[f] \in TempRegister \ PowerRegister /\ TempField[f] \in SmcRegister
    BY DEF TempField, TempRegister, PowerRegister, SmcRegister
  <2>2. sample'.temp[f] = uint8(GET_BITS(15, 0, Smc(failed)[TempField[f]]))
    BY <1>3 DEF temp_restart, TempField
  <2>3. /\ TempField[f] \in failed => sample'.temp[f] = 0
        /\ TempField[f] \notin failed =>
             (Reading[TempField[f]][era] % 2^16 < 256
                => sample'.temp[f] = Reading[TempField[f]][era] % 2^16)
    BY <2>1, <2>2, SmcFields
  <2> QED BY <1>2, <1>3, <2>1, <2>3, ShowsNow
<1>5. ShowsDie(sample.temp.tdie0, 0)'
  <2> DEFINE v == Reading["DIE_TEMP0"][era]
  <2>1. v \in Nat
    BY ReadingType DEF Register, SboxRegister
  <2>2. sample'.temp.tdie0 = uint8(GET_BITS(9, 0, v))
    BY <1>3 DEF temp_restart, Sbox
  <2>3. 0 \div 3 + 1 = 1 /\ 0 % 3 = 0 /\ DieRegister[1] = "DIE_TEMP0"
    BY DEF DieRegister
  <2> DEFINE die(k) == (v \div 1024^k) % 1024
  <2>4. die(0) < 256 => sample'.temp.tdie0 = die(0)
    BY <2>1, <2>2, DieFields
  <2> HIDE DEF die
  <2>5. die(0 % 3) < 256 => sample'.temp.tdie0 = die(0 % 3)
    BY <2>3, <2>4
  <2> QED BY <1>2, <2>3, <2>5, ShowsDieNow DEF die
<1> QED
  BY <1>4, <1>5 DEF TempsShown

(* The n-th die is one of three in its register.                           *)
LEMMA DieShows ==
  ASSUME TypeOK, NEW n \in 0 .. 8, NEW r \in SboxRegister, DieRegister[n \div 3 + 1] = r,
         NEW value, UNCHANGED <<eras, era>>,
         \/ n % 3 = 0 /\ value = uint8(GET_BITS(9, 0, Sbox(r)))
         \/ n % 3 = 1 /\ value = uint8(GET_BITS(19, 10, Sbox(r)))
         \/ n % 3 = 2 /\ value = uint8(GET_BITS(29, 20, Sbox(r)))
  PROVE  ShowsDie(value, n)'
<1> DEFINE v == Sbox(r)
<1>1. v \in Nat /\ v = Reading[r][era]
  BY ReadingType DEF TypeOK, Register, Sbox
<1> HIDE DEF v
<1> DEFINE die(k) == (v \div 1024^k) % 1024
<1> HIDE DEF die
<1>2. die(n % 3) < 256 => value = die(n % 3)
  <2>1. CASE n % 3 = 0 /\ value = uint8(GET_BITS(9, 0, v))
    <3>1. die(0) < 256 => value = die(0)
      BY <1>1, <2>1, DieFields DEF die
    <3> QED BY <2>1, <3>1
  <2>2. CASE n % 3 = 1 /\ value = uint8(GET_BITS(19, 10, v))
    <3>1. die(1) < 256 => value = die(1)
      BY <1>1, <2>2, DieFields DEF die
    <3> QED BY <2>2, <3>1
  <2>3. CASE n % 3 = 2 /\ value = uint8(GET_BITS(29, 20, v))
    <3>1. die(2) < 256 => value = die(2)
      BY <1>1, <2>3, DieFields DEF die
    <3> QED BY <2>3, <3>1
  <2> QED BY <2>1, <2>2, <2>3 DEF v
<1> QED
  <2>1. v = Reading[DieRegister[n \div 3 + 1]][era]
    BY <1>1
  <2>2. LET x == (Reading[DieRegister[n \div 3 + 1]][era] \div 1024^(n % 3)) % 1024
        IN  x < 256 => value = x
    BY <1>2, <2>1 DEF die
  <2>3. era \in eras .. era
    BY ClockFits DEF TypeOK, CounterType
  <2> QED BY <2>2, <2>3 DEF ShowsDie

LEMMA Temp2Shows ==
  ASSUME TypeOK, Micstat, NEW t \in Thread, Temp2(t)
  PROVE  DiesShown'
<1> USE DEF TypeOK
<1>1. UNCHANGED <<eras, era>> /\ sample'.temp2 =
        temp2_restart(Sbox("DIE_TEMP0"), Sbox("DIE_TEMP1"), Sbox("DIE_TEMP2"))
  BY DEF Temp2, SensorStep, world, CounterType, NoSample
<1>2. ASSUME NEW n \in 1 .. 8 PROVE ShowsDie(sample.temp2[n], n)'
  <2>1. {"DIE_TEMP0", "DIE_TEMP1", "DIE_TEMP2"} \subseteq SboxRegister
    BY DEF SboxRegister
  <2>2. CASE n \in 1 .. 2
    <3>1. n \div 3 + 1 = 1 /\ n % 3 = n /\ DieRegister[1] = "DIE_TEMP0"
      BY <2>2 DEF DieRegister
    <3>2. \/ n = 1 /\ sample'.temp2[n] = uint8(GET_BITS(19, 10, Sbox("DIE_TEMP0")))
          \/ n = 2 /\ sample'.temp2[n] = uint8(GET_BITS(29, 20, Sbox("DIE_TEMP0")))
      BY <1>1, <2>2 DEF temp2_restart
    <3> QED BY <1>1, <2>1, <3>1, <3>2, DieShows
  <2>3. CASE n \in 3 .. 5
    <3>1. n \div 3 + 1 = 2 /\ n % 3 = n - 3 /\ DieRegister[2] = "DIE_TEMP1"
      BY <2>3 DEF DieRegister
    <3>2. \/ n = 3 /\ sample'.temp2[n] = uint8(GET_BITS(9, 0, Sbox("DIE_TEMP1")))
          \/ n = 4 /\ sample'.temp2[n] = uint8(GET_BITS(19, 10, Sbox("DIE_TEMP1")))
          \/ n = 5 /\ sample'.temp2[n] = uint8(GET_BITS(29, 20, Sbox("DIE_TEMP1")))
      BY <1>1, <2>3 DEF temp2_restart
    <3> QED BY <1>1, <2>1, <3>1, <3>2, DieShows
  <2>4. CASE n \in 6 .. 8
    <3>1. n \div 3 + 1 = 3 /\ n % 3 = n - 6 /\ DieRegister[3] = "DIE_TEMP2"
      BY <2>4 DEF DieRegister
    <3>2. \/ n = 6 /\ sample'.temp2[n] = uint8(GET_BITS(9, 0, Sbox("DIE_TEMP2")))
          \/ n = 7 /\ sample'.temp2[n] = uint8(GET_BITS(19, 10, Sbox("DIE_TEMP2")))
          \/ n = 8 /\ sample'.temp2[n] = uint8(GET_BITS(29, 20, Sbox("DIE_TEMP2")))
      BY <1>1, <2>4 DEF temp2_restart
    <3> QED BY <1>1, <2>1, <3>1, <3>2, DieShows
  <2> QED BY <2>2, <2>3, <2>4
<1> QED
  BY <1>2 DEF DiesShown

LEMMA PowerShows ==
  ASSUME TypeOK, Micstat, NEW t \in Thread, Power(t)
  PROVE  PowersShown'
<1> USE DEF TypeOK
<1>0. PICK failed \in limit.failures :
        sample' = [sample EXCEPT !.power = power_restart(Smc(failed)),
                                 !.volt = volt_restart(Smc(failed)),
                                 !.failed = (@ \ PowerRegister) \cup (failed \cap PowerRegister)]
  BY DEF Power
<1>1. /\ UNCHANGED <<eras, era>>
      /\ sample'.failed = (sample.failed \ PowerRegister) \cup (failed \cap PowerRegister)
      /\ sample'.power = power_restart(Smc(failed)) /\ sample'.volt = volt_restart(Smc(failed))
  BY <1>0 DEF Power, SensorStep, world, CounterType, NoSample
<1>2. \A r \in PowerRegister : r \in SmcRegister /\ (r \in sample'.failed <=> r \in failed)
  BY <1>1 DEF SmcRegister
<1>3. ASSUME NEW f \in DOMAIN PowerField \ {"avgpwr"}
      PROVE  Shows(sample.power[f], PowerField[f], 2^16, 256)'
  <2>1. PowerField[f] \in PowerRegister
    BY DEF PowerField, PowerRegister
  <2>2. sample'.power[f] = uint8(GET_BITS(15, 0, Smc(failed)[PowerField[f]]))
    BY <1>1 DEF power_restart, PowerField
  <2>3. /\ PowerField[f] \in failed => sample'.power[f] = 0
        /\ PowerField[f] \notin failed =>
             (Reading[PowerField[f]][era] % 2^16 < 256
                => sample'.power[f] = Reading[PowerField[f]][era] % 2^16)
    BY <1>2, <2>1, <2>2, SmcFields
  <2> QED BY <1>1, <1>2, <2>1, <2>3, ShowsNow
<1>4. Shows(sample.power.avgpwr, PowerField.avgpwr, 2^30, 2^16)'
  <2>1. PowerField.avgpwr = "AVG_PWR_1" /\ "AVG_PWR_1" \in PowerRegister
    BY DEF PowerField, PowerRegister
  <2>2. sample'.power.avgpwr = uint16(GET_BITS(29, 0, Smc(failed)["AVG_PWR_1"]))
    BY <1>1 DEF power_restart
  <2>3. /\ "AVG_PWR_1" \in failed => sample'.power.avgpwr = 0
        /\ "AVG_PWR_1" \notin failed =>
             (Reading["AVG_PWR_1"][era] % 2^30 < 2^16
                => sample'.power.avgpwr = Reading["AVG_PWR_1"][era] % 2^30)
    BY <1>2, <2>1, <2>2, SmcFields
  <2> QED BY <1>1, <1>2, <2>1, <2>3, ShowsNow
<1>5. Shows(sample.volt \div 1000, "VOLT_VCCP", 2^16, 2^16)'
  <2>1. "VOLT_VCCP" \in PowerRegister
    BY DEF PowerRegister
  <2>2. sample'.volt = GET_BITS(15, 0, Smc(failed)["VOLT_VCCP"]) * 1000
    BY <1>1 DEF volt_restart
  <2>3. /\ "VOLT_VCCP" \in failed => sample'.volt \div 1000 = 0
        /\ "VOLT_VCCP" \notin failed =>
             (Reading["VOLT_VCCP"][era] % 2^16 < 2^16
                => sample'.volt \div 1000 = Reading["VOLT_VCCP"][era] % 2^16)
    BY <1>2, <2>1, <2>2, SmcFields
  <2> QED BY <1>1, <1>2, <2>1, <2>3, ShowsNow
<1> QED
  BY <1>3, <1>4, <1>5 DEF PowersShown

LEMMA ThermShows ==
  ASSUME TypeOK, NEW t \in Thread, ThermStatus(t)
  PROVE  ThermShown'
<1> USE DEF TypeOK
<1> DEFINE v == Reading["IA32_THERM_STATUS"][era]
<1>1. UNCHANGED <<eras, era>> /\ sample'.temp.therm = therm_status_restart(v)
  BY DEF ThermStatus, world, CounterType, NoSample
<1>2. v \in Nat
  BY ReadingType DEF Register
<1>3. era \in eras .. era
  BY ClockFits DEF CounterType
<1> QED
  BY <1>1, <1>2, <1>3, ThermField DEF ThermShown

-----------------------------------------------------------------------------
(* Frequency.                                                              *)

(* The ratio code's two fields, and the divider the PLL has for the second.*)
LEMMA RatioFields ==
  ASSUME NEW v \in Nat
  PROVE  LET ratio == v \div 2
             code  == K1OM_MCLK_2_FREQ(v)
         IN  /\ fb_from_code(code) = ratio % 256
             /\ ff_from_code(code) = Divider[1 + ((ratio \div 256) % 4)]
<1> DEFINE ratio == v \div 2
           code  == K1OM_MCLK_2_FREQ(v)
           k     == (ratio \div 256) % 4
<1>1. ratio \in Nat
  OBVIOUS
<1>2. code = ratio % 1024
  BY PowerAssumption DEF K1OM_MCLK_2_FREQ, GET_BITS
<1> HIDE DEF ratio, code
<1>3. fb_from_code(code) = ratio % 256
  BY <1>1, <1>2, PowerAssumption DEF fb_from_code, FfPos
<1>4. GET_BITS(FfPos + 1, FfPos, code) = k
  BY <1>1, <1>2, PowerAssumption DEF GET_BITS, FfPos
<1>5. k \in 0 .. 3
  BY <1>1
<1> HIDE DEF k
<1>6. ff_from_code(code) = 8 \div 2^k
  BY <1>4 DEF ff_from_code
<1>7. 8 \div 2^k = Divider[1 + k]
  <2>1. \A n \in {0, 1, 2, 3} : k = n => 2^k = 2^n
    BY Zenon
  <2>2. /\ 8 \div 2^0 = 8 /\ 8 \div 2^1 = 4 /\ 8 \div 2^2 = 2 /\ 8 \div 2^3 = 1
    BY PowerAssumption
  <2>3. \A n \in {0, 1, 2, 3} : k = n => 8 \div 2^k = 8 \div 2^n
    BY <2>1, Zenon
  <2>4. k \in {0, 1, 2, 3}
    BY <1>5
  <2>5. /\ k = 0 => 8 \div 2^k = 8
        /\ k = 1 => 8 \div 2^k = 4
        /\ k = 2 => 8 \div 2^k = 2
        /\ k = 3 => 8 \div 2^k = 1
    BY <2>2, <2>3
  <2> QED BY <2>4, <2>5 DEF Divider
<1> QED
  BY <1>3, <1>6, <1>7 DEF ratio, code, k

(* What micstat has for the base clock.                                    *)
LEMMA BaseClock ==
  ASSUME WorldType, BaseInv, Micstat
  PROVE  LET iccdiv == (limit.scratch4 \div 2^25) % 32
         IN  bclk = IF ~loaded \/ iccdiv \notin 18 .. 22 THEN 200000 ELSE 4000000 \div iccdiv
<1> DEFINE iccdiv == (limit.scratch4 \div 2^25) % 32
<1>1. limit.scratch4 \in Nat
  BY Parameters DEF WorldType
<1>2. GET_BITS(29, 25, limit.scratch4) = iccdiv
  BY <1>1, PowerAssumption DEF GET_BITS
<1>3. iccdiv \in Int
  BY <1>1, PowerAssumption
<1> HIDE DEF iccdiv
<1>4. get_baseclk(limit.scratch4) = IF iccdiv \in 18 .. 22 THEN 4000000 \div iccdiv ELSE 0
  BY <1>2 DEF get_baseclk
<1>5. iccdiv \in 18 .. 22 => 4000000 \div iccdiv # 0
  BY <1>3
<1> QED
  BY <1>4, <1>5 DEF BaseInv, DefaultClk, iccdiv, WorldType

LEMMA FreqShows ==
  ASSUME TypeOK, BaseInv, Micstat, NEW t \in Thread, Freq(t)
  PROVE  FrequencyShown'
<1> USE DEF TypeOK
<1> DEFINE v == Reading["CURRENTRATIO"][era]
           iccdiv == (limit.scratch4 \div 2^25) % 32
           ratio == v \div 2
<1>1. /\ UNCHANGED <<eras, era, limit>> /\ sample'.early = ~loaded
      /\ sample'.freq = freq_restart(bclk, v)
  BY DEF Freq, SensorStep, Sbox, world, CounterType, NoSample
<1>2. v \in Nat
  BY ReadingType DEF Register, SboxRegister
<1>3. bclk = IF ~loaded \/ iccdiv \notin 18 .. 22 THEN 200000 ELSE 4000000 \div iccdiv
  BY BaseClock
<1>4. sample'.freq = (bclk * (ratio % 256)) \div Divider[1 + ((ratio \div 256) % 4)]
  <2> DEFINE code == K1OM_MCLK_2_FREQ(v)
  <2> HIDE DEF v, TypeOK
  <2>1. fb_from_code(code) = ratio % 256 /\ ff_from_code(code) = Divider[1 + ((ratio \div 256) % 4)]
    BY <1>2, RatioFields
  <2>2. sample'.freq = (bclk * fb_from_code(code)) \div ff_from_code(code)
    BY <1>1 DEF freq_restart, freq_from_code
  <2> HIDE DEF code, ratio
  <2> QED BY <2>1, <2>2
<1>5. era \in eras' .. era'
  BY <1>1, ClockFits DEF CounterType
<1> DEFINE base == IF sample'.early \/ iccdiv \notin 18 .. 22 THEN 200000 ELSE 4000000 \div iccdiv
<1>6. bclk = base
  <2> HIDE DEF iccdiv
  <2>0. bclk = IF ~loaded \/ iccdiv \notin 18 .. 22 THEN 200000 ELSE 4000000 \div iccdiv
    BY <1>3 DEF iccdiv
  <2>1. sample'.early <=> ~loaded
    BY <1>1, Zenon
  <2>2. CASE sample'.early
    BY <2>0, <2>1, <2>2
  <2>3. CASE ~sample'.early
    BY <2>0, <2>1, <2>3
  <2> QED BY <2>2, <2>3
<1>7. sample'.freq = (base * (ratio % 256)) \div Divider[1 + ((ratio \div 256) % 4)]
  <2> HIDE DEF base, ratio
  <2> QED BY <1>4, <1>6
<1>8. iccdiv = (limit'.scratch4 \div 2^25) % 32
  BY <1>1
<1> HIDE DEF iccdiv
<1>9. FrequencyShown' <=>
        \E e \in eras' .. era' :
          sample'.freq = (base * ((Reading["CURRENTRATIO"][e] \div 2) % 256))
                           \div Divider[1 + (((Reading["CURRENTRATIO"][e] \div 2) \div 256) % 4)]
  BY <1>8 DEF FrequencyShown
<1> QED
  BY <1>5, <1>7, <1>9

-----------------------------------------------------------------------------
(* The sensors' invariant.                                                 *)

LEMMA BaseStep == BaseInv /\ [Next]_vars => BaseInv'
<1> SUFFICES ASSUME BaseInv, [Next]_vars PROVE BaseInv'
  OBVIOUS
<1>0. limit' = limit /\ (Micstat' <=> Micstat)
  BY DriverStays
<1>1. CASE BaseClk
  BY <1>0, <1>1 DEF BaseClk, BaseInv
<1>2. ASSUME UNCHANGED load PROVE BaseInv'
  BY <1>0, <1>2 DEF BaseInv, load
<1>3. World \/ (\E w \in Writer : OnWriter(w) \/ OffWriter(w)) \/ UNCHANGED vars => UNCHANGED load
  BY WriterSteps DEF World, Tick, Change, Count, vars
<1>4. ASSUME NEW t \in Thread, Kthread(t) PROVE UNCHANGED load
  BY <1>4, ThreadSteps
<1> QED
  BY <1>1, <1>2, <1>3, <1>4 DEF Next

(* What a sample shows it goes on showing while the eras only grow.        *)
Later == UNCHANGED <<limit, eras>> /\ eras .. era \subseteq eras' .. era'

Same(f) == sample'[f] = sample[f]

SameFailures(registers) == sample'.failed \cap registers = sample.failed \cap registers

LEMMA ShowsLater ==
  ASSUME Later, NEW value, NEW r, NEW span, NEW room, Shows(value, r, span, room),
         r \in sample'.failed <=> r \in sample.failed
  PROVE  Shows(value, r, span, room)'
<1>1. eras .. era \subseteq eras' .. era'
  BY DEF Later
<1> QED
  BY <1>1 DEF Shows

LEMMA ShowsDieLater ==
  ASSUME Later, NEW value, NEW n, ShowsDie(value, n)
  PROVE  ShowsDie(value, n)'
  BY DEF Later, ShowsDie

LEMMA Kept ==
  ASSUME Later
  PROVE  /\ Same("temp") /\ ThermShown => ThermShown'
         /\ Same("temp") /\ SameFailures(TempRegister) /\ TempsShown => TempsShown'
         /\ Same("temp2") /\ DiesShown => DiesShown'
         /\ Same("power") /\ Same("volt") /\ SameFailures(PowerRegister) /\ PowersShown
              => PowersShown'
         /\ Same("freq") /\ Same("early") /\ FrequencyShown => FrequencyShown'
<1>1. Same("temp") /\ ThermShown => ThermShown'
  BY DEF Same, Later, ThermShown
<1>2. ASSUME Same("temp"), SameFailures(TempRegister), TempsShown PROVE TempsShown'
  <2>1. sample'.temp = sample.temp
    BY <1>2 DEF Same
  <2>2. ASSUME sample.temp # <<>>, NEW f \in DOMAIN TempField
        PROVE  Shows(sample.temp[f], TempField[f], 2^16, 256)'
    <3>1. TempField[f] \in TempRegister
      BY DEF TempField, TempRegister
    <3>2. TempField[f] \in sample'.failed <=> TempField[f] \in sample.failed
      BY <1>2, <3>1 DEF SameFailures
    <3> QED BY <1>2, <2>1, <2>2, <3>2, ShowsLater DEF TempsShown
  <2>3. ASSUME sample.temp # <<>> PROVE ShowsDie(sample.temp.tdie0, 0)'
    BY <1>2, <2>1, <2>3, ShowsDieLater DEF TempsShown
  <2> QED BY <2>1, <2>2, <2>3 DEF TempsShown
<1>3. ASSUME Same("temp2"), DiesShown PROVE DiesShown'
  <2>1. sample'.temp2 = sample.temp2
    BY <1>3 DEF Same
  <2>2. ASSUME sample.temp2 # <<>>, NEW n \in 1 .. 8 PROVE ShowsDie(sample.temp2[n], n)'
    BY <1>3, <2>1, <2>2, ShowsDieLater DEF DiesShown
  <2> QED BY <2>1, <2>2 DEF DiesShown
<1>4. ASSUME Same("power"), Same("volt"), SameFailures(PowerRegister), PowersShown PROVE PowersShown'
  <2>1. sample'.power = sample.power /\ sample'.volt = sample.volt
    BY <1>4 DEF Same
  <2>2. \A r \in PowerRegister : r \in sample'.failed <=> r \in sample.failed
    BY <1>4 DEF SameFailures
  <2>3. ASSUME sample.power # <<>>, NEW f \in DOMAIN PowerField \ {"avgpwr"}
        PROVE  Shows(sample.power[f], PowerField[f], 2^16, 256)'
    <3>1. PowerField[f] \in PowerRegister
      BY DEF PowerField, PowerRegister
    <3> QED BY <1>4, <2>1, <2>2, <2>3, <3>1, ShowsLater DEF PowersShown
  <2>4. ASSUME sample.power # <<>> PROVE Shows(sample.power.avgpwr, PowerField.avgpwr, 2^30, 2^16)'
    <3>1. PowerField.avgpwr \in PowerRegister
      BY DEF PowerField, PowerRegister
    <3> QED BY <1>4, <2>1, <2>2, <2>4, <3>1, ShowsLater DEF PowersShown
  <2>5. ASSUME sample.power # <<>> PROVE Shows(sample.volt \div 1000, "VOLT_VCCP", 2^16, 2^16)'
    <3>1. "VOLT_VCCP" \in PowerRegister
      BY DEF PowerRegister
    <3> QED BY <1>4, <2>1, <2>2, <2>5, <3>1, ShowsLater DEF PowersShown
  <2> QED BY <2>1, <2>3, <2>4, <2>5 DEF PowersShown
<1>5. Same("freq") /\ Same("early") /\ FrequencyShown => FrequencyShown'
  BY DEF Same, Later, FrequencyShown
<1> QED
  BY <1>1, <1>2, <1>3, <1>4, <1>5

(* Nothing that leaves what the sensors gave, and where a thread is among  *)
(* them, changes what a sample shows.                                      *)
LEMMA SensorsKept ==
  ASSUME SensorInv, Later, cause \subseteq cause',
         \A f \in {"freq", "early", "temp", "temp2", "power", "volt", "failed"} : Same(f),
         \A t \in Thread : /\ pc'[t] \in {"intv", "freq"} => pc[t] \in {"intv", "freq"}
                           /\ Micstat /\ pc'[t] = "temp" => pc[t] = "temp"
  PROVE  (OrderInv /\ SensorsAreShown /\ FrequencyIsReal)'
<1>1. (Micstat' <=> Micstat) /\ ("overlap" \notin cause' => "overlap" \notin cause)
  BY DEF Later, Micstat
<1>2. /\ sample'.temp = sample.temp /\ sample'.power = sample.power
      /\ SameFailures(TempRegister) /\ SameFailures(PowerRegister)
  BY DEF Same, SameFailures
<1>3. OrderInv'
  BY <1>1, <1>2, Kept DEF SensorInv, OrderInv
<1>4. SensorsAreShown'
  BY <1>1, <1>2, Kept DEF SensorInv, SensorsAreShown
<1>5. FrequencyIsReal'
  BY <1>1, <1>2, Kept DEF SensorInv, FrequencyIsReal
<1> QED
  BY <1>3, <1>4, <1>5

(* A sensor of micstat is read while the thread is alone.                  *)
MicSensor(t) == Freq(t) \/ Temp(t) \/ Temp2(t) \/ Power(t)

LEMMA MicSensorAlone ==
  ASSUME TypeOK, AloneInv, "overlap" \notin cause, NEW t \in Thread, MicSensor(t)
  PROVE  /\ Later /\ Micstat /\ Micstat' /\ UNCHANGED cause
         /\ \A k \in Thread : k # t => pc'[k] = "none"
<1> USE DEF TypeOK, ControlType
<1>1. /\ UNCHANGED <<limit, eras, era, cause>> /\ Micstat
      /\ pc[t] \in {"freq", "temp", "temp2", "power"}
  <2>1. CASE Freq(t)  BY <2>1 DEF Freq, SensorStep, world
  <2>2. CASE Temp(t)  BY <2>2 DEF Temp, SensorStep, world
  <2>3. CASE Temp2(t) BY <2>3 DEF Temp2, SensorStep, world
  <2>4. CASE Power(t) BY <2>4 DEF Power, SensorStep, world
  <2> QED BY <2>1, <2>2, <2>3, <2>4 DEF MicSensor
<1>2. \A k \in Thread : k # t => pc'[k] = "none"
  BY <1>1, Alone DEF MicSensor, Freq, Temp, Temp2, Power, SensorStep, Goto
<1> QED
  BY <1>1, <1>2 DEF Later, Micstat

LEMMA FreqStep ==
  ASSUME TypeOK, AloneInv, SensorInv, "overlap" \notin cause, NEW t \in Thread, Freq(t)
  PROVE  (OrderInv /\ SensorsAreShown /\ FrequencyIsReal)'
<1> USE DEF TypeOK, ControlType, SensorInv
<1>1. /\ Later /\ Micstat /\ Micstat' /\ UNCHANGED cause /\ \A k \in Thread : k # t => pc'[k] = "none"
  BY MicSensorAlone DEF MicSensor
<1>2. pc[t] = "freq" /\ pc'[t] = "temp"
  BY DEF Freq, SensorStep, Goto
<1>3. /\ \A f \in {"temp", "temp2", "power", "volt"} : Same(f)
      /\ SameFailures(TempRegister) /\ SameFailures(PowerRegister)
  BY DEF Freq, Same, SameFailures, CounterType, NoSample
<1>4. sample'.temp = <<>> /\ sample'.power = <<>>
  BY <1>1, <1>2, <1>3 DEF OrderInv, Same
<1>5. FrequencyShown'
  BY <1>1, FreqShows
<1>6. TempsShown' /\ DiesShown' /\ PowersShown'
  BY <1>1, <1>3, Kept DEF SensorsAreShown
<1> QED
  BY <1>1, <1>2, <1>4, <1>5, <1>6 DEF OrderInv, SensorsAreShown, FrequencyIsReal

LEMMA TempStep ==
  ASSUME TypeOK, AloneInv, SensorInv, "overlap" \notin cause, NEW t \in Thread, Temp(t)
  PROVE  (OrderInv /\ SensorsAreShown /\ FrequencyIsReal)'
<1> USE DEF TypeOK, ControlType, SensorInv
<1>1. /\ Later /\ Micstat /\ Micstat' /\ UNCHANGED cause /\ \A k \in Thread : k # t => pc'[k] = "none"
  BY MicSensorAlone DEF MicSensor
<1>2. pc[t] = "temp" /\ pc'[t] = "temp2"
  BY DEF Temp, SensorStep, Goto
<1>3. \A f \in {"freq", "early", "temp2", "power"} : Same(f)
  BY DEF Temp, Same, CounterType, NoSample
<1>4. FrequencyShown /\ sample'.power = <<>>
  BY <1>1, <1>2, <1>3 DEF OrderInv, Same
<1>5. FrequencyShown'
  BY <1>1, <1>3, <1>4, Kept
<1>6. TempsShown'
  BY <1>1, TempShows
<1>7. DiesShown' /\ PowersShown'
  BY <1>1, <1>3, <1>4, Kept DEF SensorsAreShown, PowersShown
<1> QED
  BY <1>1, <1>2, <1>4, <1>5, <1>6, <1>7 DEF OrderInv, SensorsAreShown, FrequencyIsReal

LEMMA Temp2PowerStep ==
  ASSUME TypeOK, AloneInv, SensorInv, "overlap" \notin cause, NEW t \in Thread, Temp2(t) \/ Power(t)
  PROVE  (OrderInv /\ SensorsAreShown /\ FrequencyIsReal)'
<1> USE DEF TypeOK, ControlType, SensorInv
<1>1. /\ Later /\ Micstat /\ Micstat' /\ UNCHANGED cause /\ \A k \in Thread : k # t => pc'[k] = "none"
  BY MicSensorAlone DEF MicSensor
<1>2. pc'[t] \in {"power", "perf"}
  BY DEF Temp2, Power, SensorStep, Goto
<1>3. (\A f \in {"freq", "early", "temp"} : Same(f)) /\ SameFailures(TempRegister)
  <2>1. CASE Temp2(t)
    BY <2>1 DEF Temp2, Same, SameFailures, CounterType, NoSample
  <2>2. CASE Power(t)
    <3>1. \E failed : sample'.failed = (sample.failed \ PowerRegister) \cup (failed \cap PowerRegister)
      BY <2>2 DEF Power, CounterType, NoSample
    <3>2. SameFailures(TempRegister)
      <4>1. TempRegister \cap PowerRegister = {}
        BY DEF TempRegister, PowerRegister
      <4> QED BY <3>1, <4>1 DEF SameFailures
    <3>3. \A f \in {"freq", "early", "temp"} : Same(f)
      BY <2>2 DEF Power, Same, CounterType, NoSample
    <3> QED BY <3>2, <3>3
  <2> QED BY <2>1, <2>2
<1>4. FrequencyIsReal'
  BY <1>1, <1>3, Kept DEF FrequencyIsReal, Same
<1>5. TempsShown'
  BY <1>1, <1>3, Kept DEF SensorsAreShown
<1>6. DiesShown'
  <2>1. CASE Temp2(t)
    BY <1>1, <2>1, Temp2Shows
  <2>2. CASE Power(t)
    <3>1. Same("temp2")
      BY <2>2 DEF Power, Same, CounterType, NoSample
    <3> QED BY <1>1, <3>1, Kept DEF SensorsAreShown
  <2> QED BY <2>1, <2>2
<1>7. PowersShown'
  <2>1. CASE Temp2(t)
    <3>1. Same("power") /\ Same("volt") /\ SameFailures(PowerRegister)
      BY <2>1 DEF Temp2, Same, SameFailures, CounterType, NoSample
    <3> QED BY <1>1, <1>3, <3>1, Kept DEF SensorsAreShown
  <2>2. CASE Power(t)
    BY <1>1, <2>2, PowerShows
  <2> QED BY <2>1, <2>2
<1> QED
  BY <1>1, <1>2, <1>4, <1>5, <1>6, <1>7 DEF OrderInv, SensorsAreShown

(* The first counter of a sample forgets the last one.                     *)
LEMMA TsRestartStep ==
  ASSUME TypeOK, AloneInv, SensorInv, NEW t \in Thread, TsRestart(t)
  PROVE  (OrderInv /\ SensorsAreShown /\ FrequencyIsReal)'
<1> USE DEF TypeOK, ControlType
<1>1. /\ pc[t] = "ts" /\ pc'[t] = "intv" /\ UNCHANGED <<limit, cause>>
      /\ sample' = NoSample
  BY DEF TsRestart, Goto, world
<1>2. "overlap" \notin cause => \A k \in Thread : k # t => pc'[k] = "none"
  BY <1>1, Alone DEF TsRestart, Goto
<1> QED
  BY <1>1, <1>2 DEF OrderInv, SensorsAreShown, FrequencyIsReal, ThermShown, TempsShown, DiesShown,
                    PowersShown, NoSample, Micstat

LEMMA SensorStays == TypeOK /\ AloneInv /\ SensorInv /\ [Next]_vars => SensorInv'
<1> SUFFICES ASSUME TypeOK, AloneInv, SensorInv, [Next]_vars
             PROVE  (OrderInv /\ SensorsAreShown /\ FrequencyIsReal)'
  BY BaseStep DEF SensorInv
<1>0. UNCHANGED limit /\ (Micstat' <=> Micstat) /\ cause \subseteq cause' /\ era \in Nat
  BY DriverStays, ClockFits DEF TypeOK
<1> USE <1>0 DEF TypeOK
<1>1. ASSUME UNCHANGED sensors, era' \in {era, era + 1},
             \A t \in Thread : /\ pc'[t] \in {"intv", "freq"} => pc[t] \in {"intv", "freq"}
                               /\ Micstat /\ pc'[t] = "temp" => pc[t] = "temp"
      PROVE  (OrderInv /\ SensorsAreShown /\ FrequencyIsReal)'
  <2>1. Later
    BY <1>1 DEF Later, sensors, CounterType
  <2>2. \A f \in {"freq", "early", "temp", "temp2", "power", "volt", "failed"} : Same(f)
    BY <1>1 DEF Same, sensors
  <2> QED BY <1>1, <2>1, <2>2, SensorsKept
<1>2. CASE World \/ BaseClk \/ UNCHANGED vars
  <2>1. UNCHANGED <<sensors, pc>> /\ era' \in {era, era + 1}
    BY <1>2 DEF World, Tick, Change, Count, BaseClk, vars, world
  <2> QED BY <1>1, <2>1
<1>3. ASSUME NEW w \in Writer, OnWriter(w) \/ OffWriter(w)
      PROVE  (OrderInv /\ SensorsAreShown /\ FrequencyIsReal)'
  <2>1. UNCHANGED <<sensors, era>> /\ (pc' = pc \/ \E t \in Thread : pc' = [pc EXCEPT ![t] = "new"])
    BY <1>3, WriterSteps DEF world
  <2> QED BY <1>1, <2>1 DEF ControlType
<1>4. ASSUME NEW t \in Thread,
             Begin(t) \/ Look(t) \/ IntvRestart(t) \/ PerfRestart(t) \/ Wake(t)
      PROVE  (OrderInv /\ SensorsAreShown /\ FrequencyIsReal)'
  <2>1. /\ UNCHANGED <<sensors, era>>
        /\ \/ \E p \in {"none", "look", "ts", "oh"} : pc' = [pc EXCEPT ![t] = p]
           \/ pc[t] = "intv" /\ pc' = [pc EXCEPT ![t] = IF Micstat THEN "freq" ELSE "temp"]
    BY <1>4 DEF Begin, Look, IntvRestart, PerfRestart, Wake, Goto, world
  <2> QED BY <1>1, <2>1 DEF ControlType
<1>5. ASSUME NEW t \in Thread, TsRestart(t)
      PROVE  (OrderInv /\ SensorsAreShown /\ FrequencyIsReal)'
  BY <1>5, TsRestartStep
<1>6. ASSUME NEW t \in Thread, OhRestart(t) \/ Measure(t)
      PROVE  (OrderInv /\ SensorsAreShown /\ FrequencyIsReal)'
  <2>1. /\ UNCHANGED <<eras, era>>
        /\ \E p \in {"measure", "sleep"} : pc' = [pc EXCEPT ![t] = p]
        /\ \E x : sample' = [sample EXCEPT !.oh = x]
    BY <1>6 DEF OhRestart, Measure, Goto, world
  <2>2. Later
    BY <2>1 DEF Later, CounterType
  <2>3. \A f \in {"freq", "early", "temp", "temp2", "power", "volt", "failed"} : Same(f)
    BY <2>1 DEF Same, CounterType, NoSample
  <2>4. \A k \in Thread : /\ pc'[k] \in {"intv", "freq"} => pc[k] \in {"intv", "freq"}
                          /\ Micstat /\ pc'[k] = "temp" => pc[k] = "temp"
    BY <2>1 DEF ControlType
  <2> QED BY <2>2, <2>3, <2>4, SensorsKept
<1>7. ASSUME NEW t \in Thread, MicSensor(t), "overlap" \notin cause
      PROVE  (OrderInv /\ SensorsAreShown /\ FrequencyIsReal)'
  BY <1>7, FreqStep, TempStep, Temp2PowerStep DEF MicSensor
<1>8. ASSUME NEW t \in Thread, MicSensor(t), "overlap" \in cause
      PROVE  (OrderInv /\ SensorsAreShown /\ FrequencyIsReal)'
  <2>1. Micstat
    BY <1>8 DEF MicSensor, Freq, Temp, Temp2, Power, SensorStep
  <2> QED BY <1>8, <2>1 DEF OrderInv, SensorsAreShown, FrequencyIsReal
<1>9. ASSUME NEW t \in Thread, ThermStatus(t)
      PROVE  (OrderInv /\ SensorsAreShown /\ FrequencyIsReal)'
  <2>1. ~Micstat
    BY <1>9 DEF ThermStatus
  <2> QED BY <1>9, <2>1, ThermShows DEF OrderInv, SensorsAreShown, FrequencyIsReal
<1> QED
  BY <1>2, <1>3, <1>4, <1>5, <1>6, <1>7, <1>8, <1>9 DEF Next, Kthread, RollBuffer, Sensors, MicSensor

-----------------------------------------------------------------------------
(* The invariant of the counters is inductive.                             *)
THEOREM CountersInductive == Spec => []IInv
<1>1. IInv /\ [Next]_vars => IInv'
  <2> SUFFICES ASSUME IInv, [Next]_vars PROVE IInv'
    OBVIOUS
  <2> USE DEF IInv
  <2>1. TypeOK'
    BY WorldTypeStep, ControlTypeStep, TimeTypeStep, CounterTypeStep DEF TypeOK
  <2>2. AloneInv' /\ TimeInv' /\ EventInv' /\ SensorInv'
    BY AloneStep, TimeStep, EventStep, SensorStays
  <2> QED BY <2>1, <2>2
<1> QED
  BY InitIInv, <1>1, PTL DEF Spec

(* What a thread computes its sleep from is the time its sample took, and  *)
(* never a difference that wrapped round.                                  *)
THEOREM OverheadsAreReal == Spec => [](TypeOK /\ OverheadIsReal)
<1>1. IInv => TypeOK /\ OverheadIsReal
  BY DEF IInv, TimeInv, OneTime, OverheadIsReal, TypeOK, WorldType, TimeType, Sampled, Rolling
<1> QED
  BY <1>1, CountersInductive, PTL

(* The intervals of the samples since an on add up to the time since its   *)
(* reset.                                                                  *)
THEOREM IntervalsAreWhole == Spec => []IntervalsAddUp
<1>1. IInv => IntervalsAddUp
  BY DEF IInv, TimeInv, OneTime, IntervalsAddUp, Sampled, Rolling
<1> QED
  BY <1>1, CountersInductive, PTL

(* The samples have all that the events counted, over every off and on.    *)
THEOREM CountsAreWhole == Spec => []CountsAddUp
<1>1. IInv => CountsAddUp
  BY DEF IInv, EventInv, OneCount, CountsAddUp
<1> QED
  BY <1>1, CountersInductive, PTL

(* A field of a sample shows what its register held while the sample was   *)
(* taken.                                                                  *)
THEOREM SensorsAreReal == Spec => []SensorsAreShown
<1>1. IInv => SensorsAreShown
  BY DEF IInv, SensorInv
<1> QED
  BY <1>1, CountersInductive, PTL

(* The clock of the cores is the base clock times the ratio over the       *)
(* divider of the PLL's table.                                             *)
THEOREM FrequenciesAreReal == Spec => []FrequencyIsReal
<1>1. IInv => FrequencyIsReal
  BY DEF IInv, SensorInv
<1> QED
  BY <1>1, CountersInductive, PTL

-----------------------------------------------------------------------------
(* How long the thread sleeps (StatPacing).                                *)

(* Cutting ticks down to whole milliseconds loses less than one.           *)
LEMMA MillisBounds ==
  ASSUME NEW c \in Nat
  PROVE  /\ Millis(c) \in Nat
         /\ Millis(c) * MS <= c
         /\ c < Millis(c) * MS + MS
  BY PacingAssumption DEF Millis

(* A difference modulo UINT.                                               *)
LEMMA Wrapped ==
  ASSUME NEW p \in Period, NEW o \in Nat
  PROVE  /\ (p - o) % UINT \in 0 .. UINT - 1
         /\ o <= p => (p - o) % UINT = p - o
  BY PacingAssumption

(* A sample that took no time took no milliseconds.                        *)
LEMMA NoMillis == Millis(0) = 0
  BY PacingAssumption DEF Millis

LEMMA PacingBegins == PacingInit => PacingIInv
<1> SUFFICES ASSUME PacingInit PROVE PacingIInv
  OBVIOUS
<1>1. UINT > 0 /\ 0 \in 0 .. UINT - 1 /\ 0 \in Nat
  BY PacingAssumption
<1>2. PacingTypeOK
  BY <1>1 DEF PacingInit, PacingTypeOK
<1>3. Accounted
  BY <1>1, NoMillis DEF PacingInit, Accounted
<1> QED
  BY <1>2, <1>3 DEF PacingIInv

LEMMA PacingStep == PacingIInv /\ [PacingNext]_pacing => PacingIInv'
<1> SUFFICES ASSUME PacingIInv, [PacingNext]_pacing PROVE PacingIInv'
  OBVIOUS
<1> USE DEF PacingIInv
<1>1. CASE Roll
  <2>1. PICK c \in Cost : cost' = c /\ oh' = Millis(c)
    BY <1>1 DEF Roll
  <2>2. c \in Nat /\ Millis(c) \in Nat /\ Millis(c) * 5 < UINT
    BY PacingAssumption, MillisBounds DEF Millis
  <2>3. kpc' = "subtract" /\ UNCHANGED <<period, tosleep, asked, raced, rest, gap>>
    BY <1>1 DEF Roll
  <2>4. PacingTypeOK'
    BY <2>1, <2>2, <2>3 DEF PacingTypeOK
  <2>5. Accounted'
    BY <2>1, <2>2, <2>3 DEF Accounted
  <2> QED BY <2>4, <2>5
<1>2. CASE Subtract
  <2>1. (period - oh) % UINT \in 0 .. UINT - 1
    BY Wrapped DEF PacingTypeOK
  <2>2. PacingTypeOK'
    BY <1>2, <2>1 DEF Subtract, PacingTypeOK
  <2>3. Accounted'
    BY <1>2 DEF Subtract, Accounted
  <2> QED BY <2>2, <2>3
<1>3. CASE Lengthen
  <2>1. /\ tosleep' = IF period < oh * 5 THEN oh * 4 ELSE tosleep
        /\ raced' \in BOOLEAN
        /\ ~raced' => period = asked
    BY <1>3 DEF Lengthen, TooMuch
  <2>2. UNCHANGED <<period, cost, oh, asked, rest, gap>> /\ kpc = "force" /\ kpc' = "sleep"
    BY <1>3 DEF Lengthen
  <2>3. oh * 4 \in 0 .. UINT - 1
    BY PacingAssumption DEF PacingTypeOK, Accounted
  <2>4. PacingTypeOK'
    BY <2>1, <2>2, <2>3 DEF PacingTypeOK
  <2>5. asked >= oh * 5 => tosleep = asked - oh
    <3>1. asked >= oh * 5 => oh <= asked
      BY PacingAssumption DEF PacingTypeOK
    <3> QED BY <2>2, <3>1, Wrapped DEF PacingTypeOK, Accounted
  <2>6. ~(asked < oh * 5) => asked >= oh * 5
    BY PacingAssumption DEF PacingTypeOK
  <2>7. Accounted'
    BY <2>1, <2>2, <2>5, <2>6 DEF Accounted
  <2> QED BY <2>4, <2>7
<1>4. CASE SleepOver
  <2>1. PICK d \in 1 .. MS, r \in Rest : rest' = r /\ gap' = cost + r + tosleep * MS + d
    BY <1>4 DEF SleepOver
  <2>2. /\ kpc = "sleep" /\ kpc' = "awake"
        /\ UNCHANGED <<period, cost, oh, tosleep, asked, raced>>
    BY <1>4 DEF SleepOver
  <2>3. r \in Nat /\ d \in Nat /\ MS \in Nat /\ cost \in Nat /\ tosleep \in Nat
    BY PacingAssumption DEF PacingTypeOK
  <2>4. tosleep * MS \in Nat
    BY <2>3
  <2>5. rest' \in Nat /\ gap' \in Nat
    BY <2>1, <2>3, <2>4
  <2>6. PacingTypeOK'
    BY <2>2, <2>5 DEF PacingTypeOK
  <2>7. gap' = cost' + rest' + tosleep' * MS + d
    BY <2>1, <2>2
  <2>8. Accounted'
    BY <2>2, <2>7 DEF Accounted
  <2> QED BY <2>6, <2>8
<1>5. CASE Again
  <2>1. UINT > 0 /\ 0 \in 0 .. UINT - 1 /\ 0 \in Nat
    BY PacingAssumption
  <2>2. PacingTypeOK'
    BY <1>5, <2>1 DEF Again, PacingTypeOK
  <2>3. Accounted'
    BY <1>5, <2>1, NoMillis DEF Again, Accounted
  <2> QED BY <2>2, <2>3
<1>6. CASE StorePeriod
  BY <1>6 DEF StorePeriod, PacingTypeOK, Accounted
<1>7. CASE UNCHANGED pacing
  BY <1>7 DEF pacing, PacingTypeOK, Accounted
<1> QED
  BY <1>1, <1>2, <1>3, <1>4, <1>5, <1>6, <1>7 DEF PacingNext

(* The thread knows what it sleeps for, whenever period is written.        *)
THEOREM PacingInductive == PacingSpec => []PacingIInv
  BY PacingBegins, PacingStep, PTL DEF PacingSpec

(* Unless period changes under its hands, what the thread measures as the  *)
(* overhead of a sample is at most a fifth of the time to the next, and    *)
(* less than four fifths of a millisecond.                                 *)
THEOREM OverheadBounded == PacingSpec => [](PacingTypeOK /\ OverheadAtMost20)
<1>1. ASSUME PacingIInv, kpc = "awake", ~raced PROVE 5 * cost < gap + 4 * MS
  <2>1. /\ asked \in Nat /\ oh \in Nat /\ cost \in Nat /\ MS \in Nat \ {0}
        /\ rest \in Nat /\ tosleep \in Nat
    BY <1>1, PacingAssumption DEF PacingIInv, PacingTypeOK
  <2>2. PICK d \in 1 .. MS : gap = cost + rest + tosleep * MS + d
    BY <1>1 DEF PacingIInv, Accounted
  <2>3. cost < oh * MS + MS
    BY <1>1, <2>1, MillisBounds DEF PacingIInv, Accounted
  <2>4. tosleep >= oh * 4
    BY <1>1, <2>1 DEF PacingIInv, Accounted
  <2>5. tosleep * MS >= 4 * (oh * MS)
    <3> DEFINE k == tosleep - oh * 4
    <3>1. k \in Nat /\ tosleep = k + oh * 4
      BY <2>1, <2>4
    <3>2. tosleep * MS = k * MS + 4 * (oh * MS) /\ k * MS \in Nat
      BY <2>1, <3>1
    <3>3. oh * MS \in Nat
      BY <2>1
    <3> HIDE DEF k
    <3> QED BY <3>2, <3>3
  <2>6. tosleep * MS \in Nat /\ oh * MS \in Nat /\ d \in Nat /\ d > 0
    BY <2>1
  <2> QED BY <2>1, <2>2, <2>3, <2>5, <2>6
<1>2. PacingIInv => PacingTypeOK /\ OverheadAtMost20
  BY <1>1 DEF PacingIInv, OverheadAtMost20
<1> QED
  BY <1>2, PacingInductive, PTL

(* It also keeps any period that allows it, but for what it waits and      *)
(* publishes, and sleeps no longer than it should though its subtraction   *)
(* wraps.                                                                  *)
THEOREM PeriodIsKept == PacingSpec => []PeriodKept
<1>1. ASSUME PacingIInv, kpc = "awake", ~raced, oh * 5 <= asked
      PROVE  asked * MS < gap - rest /\ gap - rest < (asked + 2) * MS
  <2>1. /\ asked \in Nat /\ oh \in Nat /\ cost \in Nat /\ MS \in Nat \ {0}
        /\ rest \in Nat
    BY <1>1, PacingAssumption DEF PacingIInv, PacingTypeOK
  <2>2. tosleep = asked - oh
    BY <1>1, <2>1 DEF PacingIInv, Accounted
  <2>3. oh * MS <= cost /\ cost < oh * MS + MS
    BY <1>1, <2>1, MillisBounds DEF PacingIInv, Accounted
  <2>4. tosleep * MS = asked * MS - oh * MS /\ (asked + 2) * MS = asked * MS + 2 * MS
    BY <2>1, <2>2
  <2>5. asked * MS \in Nat /\ oh * MS \in Nat
    BY <2>1
  <2>6. PICK d \in 1 .. MS : gap = cost + rest + tosleep * MS + d
    BY <1>1 DEF PacingIInv, Accounted
  <2>7. d \in Nat /\ 1 <= d /\ d <= MS
    BY <2>1
  <2> QED BY <2>1, <2>3, <2>4, <2>5, <2>6, <2>7
<1>2. ASSUME PacingIInv, kpc = "awake", ~raced PROVE tosleep <= asked \/ tosleep <= oh * 4
  BY <1>2, PacingAssumption DEF PacingIInv, PacingTypeOK, Accounted
<1>3. PacingIInv => PeriodKept
  BY <1>1, <1>2 DEF PeriodKept
<1> QED
  BY <1>3, PacingInductive, PTL
=============================================================================
