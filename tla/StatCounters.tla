---------------------------- MODULE StatCounters ----------------------------
(***************************************************************************)
(* What the samples of haswellstat, sbstat and micstat say: time stamp,    *)
(* interval and overhead, which are kept in three static variables that    *)
(* set_on resets; perf events on all CPUs, which nothing resets; and       *)
(* micstat's sensors (MicSensors).  Processes write "on" and "off" to ctrl,*)
(* and a thread takes the samples - several when an on overlaps another    *)
(* write.  haswellstat and sbstat look at the flag and set it, and take a  *)
(* sample, with ctrl_lock held; micstat has no such lock.                  *)
(*                                                                         *)
(* In all this sbstat is haswellstat.                                      *)
(*                                                                         *)
(* The ring is in StatBuffer, what ends in an oops in StatCtl and MicCtl.  *)
(***************************************************************************)
EXTENDS MicSensors

CONSTANTS
  Writer,     \* processes that write to ctrl
  Thread,     \* bound: the threads there are
  Nobody,     \* no thread
  Cpu,        \* the CPUs, each with its perf event
  TIME,       \* values of a uint64_t that holds a time (2^64)
  Threshold,  \* perf_overflow_threshold
  Reading,    \* Reading[r]: what the register r holds, by era
  Limits      \* bounds, and the driver: what varies in one behaviour

ASSUME StatCountersAssumption ==
  /\ Nobody \notin Thread
  /\ Thread \cap {"idle", "reset", "oh", "current", "prev", "raise", "start", "stop", "clear"} = {}
  /\ TIME \in Nat \ {0} /\ Threshold \in Nat
  /\ \A l \in Limits :
       /\ l.driver \in {"haswellstat", "micstat"}
       /\ {l.clock, l.ons, l.enabled, l.scratch4} \subseteq Nat
       /\ l.eras \in Nat \ {0}
       (* A uint64_t has room for 584 years.                               *)
       /\ l.clock < TIME
       /\ l.failures \subseteq SUBSET SmcRegister
       /\ \A r \in Register : \A e \in 1 .. l.eras : Reading[r][e] \in Nat

VARIABLES
  limit,      \* the bounds of this behaviour
  clock,      \* the monotonic clock
  era,        \* sensor readings change from era to era
  event,      \* event[c]: what the perf event of the CPU shows
  loaded,     \* has micstat_init returned? (Nothing else here asks.)
  bclk,       \* pll_data_k1om.bclk
  on,
  ons,        \* how often "on" took effect
  wpc,        \* wpc[w]: where w is in set_on or set_off, or whom it waits for
  rtime,      \* rtime[w]: the time ts_reset has got, 0 when it has stored it
  task,       \* kthread_task
  flagged,    \* the threads kthread_stop was called for
  pc,         \* pc[t]: where the thread is
  st_prev, st_current, st_oh,
  saved,      \* values[c]: the event as it was read last
  sample,     \* what the sample that is being taken says
  (* History.                                                              *)
  began,      \* the clock when the sample was begun
  eras,       \* and the era
  since,      \* the time of the last reset
  intervals,  \* the sum of the intervals since then
  counts,     \* counts[c]: what the samples had from the CPU
  ignored,    \* the CPUs of which a reading was too large
  cause       \* what has overlapped

world   == <<limit, clock, era, event>>
load    == <<loaded, bclk>>
control == <<on, ons, wpc, rtime, task, flagged>>
time    == <<st_prev, st_current, st_oh, began, since, intervals>>
perf    == <<saved, counts, ignored>>
sensors == <<sample, eras>>
vars    == <<world, load, control, pc, time, perf, sensors, cause>>

Zero    == [total |-> 0, enabled |-> 0, running |-> 0]
Micstat == limit.driver = "micstat"

NoSample == [oh |-> 0, freq |-> 0, early |-> FALSE, temp |-> <<>>, temp2 |-> <<>>, power |-> <<>>,
             volt |-> 0, failed |-> {}]

Init ==
  /\ limit \in Limits
  /\ clock = 0 /\ era = 1
  /\ event = [c \in Cpu |-> Zero]
  /\ loaded = ~Micstat
  /\ bclk = DefaultClk
  /\ on = FALSE /\ ons = 0
  /\ wpc = [w \in Writer |-> "idle"]
  /\ rtime = [w \in Writer |-> 0]
  /\ task = Nobody /\ flagged = {}
  /\ pc = [t \in Thread |-> "none"]
  /\ st_prev = 0 /\ st_current = 0 /\ st_oh = 0
  /\ saved = [c \in Cpu |-> Zero]
  /\ sample = NoSample
  /\ began = 0 /\ eras = 1 /\ since = 0 /\ intervals = 0
  /\ counts = [c \in Cpu |-> 0] /\ ignored = {}
  /\ cause = {}

-----------------------------------------------------------------------------
(* The world.                                                              *)

Tick ==
  /\ clock < limit.clock
  /\ clock' = clock + 1
  /\ UNCHANGED <<limit, era, event, load, control, pc, time, perf, sensors, cause>>

Change ==
  /\ era < limit.eras
  /\ era' = era + 1
  /\ UNCHANGED <<limit, clock, event, load, control, pc, time, perf, sensors, cause>>

(* An event counts only while it has one of the CPU's registers.           *)
Count(c) ==
  /\ event[c].enabled < limit.enabled
  /\ \/ event' = [event EXCEPT ![c].enabled = @ + 1]
     \/ \E k \in 0 .. 1 :
          event' = [event EXCEPT ![c] = [total   |-> @.total + k,
                                         enabled |-> @.enabled + 1,
                                         running |-> @.running + 1]]
  /\ UNCHANGED <<limit, clock, era, load, control, pc, time, perf, sensors, cause>>

-----------------------------------------------------------------------------
(* ctrl.                                                                   *)

Rolling == {"ts", "intv", "freq", "temp", "temp2", "power", "perf", "oh", "measure"}

(* ctrl_lock is free, or there is none.                                    *)
Unlocked == Micstat \/ \A t \in Thread : pc[t] \notin Rolling

(* An on that meets another write of ctrl, and a write that meets an on,   *)
(* overlap. Two offs may meet.                                             *)
TurningOn == {"reset", "oh", "current", "prev", "raise", "start"}

Overlap(w, places) ==
  IF \E v \in Writer \ {w} : wpc[v] \in places THEN {"overlap"} ELSE {}

WGoto(w, p) == wpc' = [wpc EXCEPT ![w] = p]

(* set_on: haswellstat sets on at once, micstat when the counters have been*)
(* reset, and until then the next on finds it clear too.  The mutant does  *)
(* not look whether it is set.                                             *)
SetOnAlways(w) ==
  /\ wpc[w] = "idle"
  /\ ons < limit.ons
  /\ Unlocked
  /\ on' = ~Micstat
  /\ ons' = ons + 1
  /\ WGoto(w, "reset")
  /\ cause' = cause \cup Overlap(w, TurningOn \cup {"stop", "clear"} \cup Thread)
  /\ UNCHANGED <<world, load, rtime, task, flagged, pc, time, perf, sensors>>

SetOn(w) ==
  /\ wpc[w] = "idle"
  /\ ons < limit.ons
  /\ Unlocked
  /\ ~on
  /\ on' = ~Micstat
  /\ ons' = ons + 1
  /\ WGoto(w, "reset")
  /\ cause' = cause \cup Overlap(w, TurningOn \cup {"stop", "clear"} \cup Thread)
  /\ UNCHANGED <<world, load, rtime, task, flagged, pc, time, perf, sensors>>

(* ts_reset: st_prev = st_current = st_oh = get_time(), from right to left.*)
ResetTime(w) ==
  /\ wpc[w] = "reset"
  /\ rtime' = [rtime EXCEPT ![w] = clock]
  /\ since' = clock /\ intervals' = 0
  /\ WGoto(w, "oh")
  /\ UNCHANGED <<world, load, on, ons, task, flagged, pc, st_prev, st_current, st_oh, began,
                 perf, sensors, cause>>

ResetOh(w) ==
  /\ wpc[w] = "oh"
  /\ st_oh' = rtime[w]
  /\ WGoto(w, "current")
  /\ UNCHANGED <<world, load, on, ons, rtime, task, flagged, pc, st_prev, st_current,
                 began, since, intervals, perf, sensors, cause>>

(* The mutant resets only st_prev, which ts_restart sets anyway.           *)
ResetNotCurrent(w) ==
  /\ wpc[w] = "current"
  /\ WGoto(w, "prev")
  /\ UNCHANGED <<world, load, on, ons, rtime, task, flagged, pc, time, perf, sensors, cause>>

ResetCurrent(w) ==
  /\ wpc[w] = "current"
  /\ st_current' = rtime[w]
  /\ WGoto(w, "prev")
  /\ UNCHANGED <<world, load, on, ons, rtime, task, flagged, pc, st_prev, st_oh,
                 began, since, intervals, perf, sensors, cause>>

(* perf_reset follows, which does nothing; the mutant forgets what was     *)
(* read last, as perf_init does.                                           *)
ResetPerfToo(w) ==
  /\ wpc[w] = "prev"
  /\ st_prev' = rtime[w]
  /\ rtime' = [rtime EXCEPT ![w] = 0]
  /\ saved' = [c \in Cpu |-> Zero]
  /\ WGoto(w, "raise")
  /\ UNCHANGED <<world, load, on, ons, task, flagged, pc, st_current, st_oh,
                 began, since, intervals, counts, ignored, sensors, cause>>

ResetPrev(w) ==
  /\ wpc[w] = "prev"
  /\ st_prev' = rtime[w]
  /\ rtime' = [rtime EXCEPT ![w] = 0]
  /\ WGoto(w, "raise")
  /\ UNCHANGED <<world, load, on, ons, task, flagged, pc, st_current, st_oh,
                 began, since, intervals, perf, sensors, cause>>

(* Now micstat sets on.                                                    *)
Raise(w) ==
  /\ wpc[w] = "raise"
  /\ on' = (on \/ Micstat)
  /\ WGoto(w, "start")
  /\ UNCHANGED <<world, load, ons, rtime, task, flagged, pc, time, perf, sensors, cause>>

(* timer_start. That kthread_create may fail is in StatCtl and MicCtl.     *)
TimerStart(w) ==
  /\ wpc[w] = "start"
  /\ \E t \in Thread :
       /\ pc[t] = "none"
       /\ pc' = [pc EXCEPT ![t] = "new"]
       /\ flagged' = flagged \ {t}
       /\ task' = t
  /\ WGoto(w, "idle")
  /\ UNCHANGED <<world, load, on, ons, rtime, time, perf, sensors, cause>>

(* set_off: haswellstat clears on and then stops the thread, micstat the   *)
(* other way round.                                                        *)
SetOff(w) ==
  /\ wpc[w] = "idle"
  /\ Unlocked
  /\ on
  /\ on' = Micstat
  /\ WGoto(w, "stop")
  /\ cause' = cause \cup Overlap(w, TurningOn)
  /\ UNCHANGED <<world, load, ons, rtime, task, flagged, pc, time, perf, sensors>>

Stop(w) ==
  /\ wpc[w] = "stop"
  /\ task # Nobody
  /\ flagged' = flagged \cup {task}
  /\ WGoto(w, task)
  /\ UNCHANGED <<world, load, on, ons, rtime, task, pc, time, perf, sensors, cause>>

Stopped(w) ==
  /\ wpc[w] \in Thread
  /\ pc[wpc[w]] = "none"
  /\ on' = (on /\ ~Micstat)
  /\ WGoto(w, IF Micstat THEN "clear" ELSE "idle")
  /\ UNCHANGED <<world, load, ons, rtime, task, flagged, pc, time, perf, sensors, cause>>

(* micstat's set_off that finds on clear does nothing; whatever it did, on *)
(* is cleared once more behind it.                                         *)
SetOffNothing(w) ==
  /\ wpc[w] = "idle"
  /\ Micstat
  /\ ~on
  /\ WGoto(w, "clear")
  /\ cause' = cause \cup Overlap(w, TurningOn)
  /\ UNCHANGED <<world, load, on, ons, rtime, task, flagged, pc, time, perf, sensors>>

Clear(w) ==
  /\ wpc[w] = "clear"
  /\ on' = FALSE
  /\ WGoto(w, "idle")
  /\ UNCHANGED <<world, load, ons, rtime, task, flagged, pc, time, perf, sensors, cause>>

(* The end of micstat_init, behind class_register: ctrl is there already.  *)
BaseClk ==
  /\ ~loaded
  /\ loaded' = TRUE
  /\ bclk' = IF get_baseclk(limit.scratch4) # 0 THEN get_baseclk(limit.scratch4) ELSE bclk
  /\ UNCHANGED <<world, control, pc, time, perf, sensors, cause>>

-----------------------------------------------------------------------------
(* The thread, and the counters in the order of the table.                 *)

Goto(t, p) == pc' = [pc EXCEPT ![t] = p]

(* kthread(): who was stopped before it ran never calls kthread_function.  *)
Begin(t) ==
  /\ pc[t] = "new"
  /\ Goto(t, IF t \in flagged THEN "none" ELSE "look")
  /\ UNCHANGED <<world, load, control, time, perf, sensors, cause>>

Look(t) ==
  /\ pc[t] = "look"
  /\ Unlocked
  /\ Goto(t, IF on THEN "ts" ELSE "none")
  /\ UNCHANGED <<world, load, control, time, perf, sensors, cause>>

TsRestart(t) ==
  /\ pc[t] = "ts"
  /\ st_prev' = st_current
  /\ st_current' = clock
  /\ began' = clock
  /\ sample' = NoSample
  /\ eras' = era
  /\ Goto(t, "intv")
  /\ UNCHANGED <<world, load, control, st_oh, since, intervals, perf, cause>>

IntvRestart(t) ==
  /\ pc[t] = "intv"
  /\ intervals' = (intervals + st_current - st_prev) % TIME
  /\ Goto(t, IF Micstat THEN "freq" ELSE "temp")
  /\ UNCHANGED <<world, load, control, st_prev, st_current, st_oh, began, since, perf, sensors, cause>>

(* The sensors of micstat, of whose bus reads each may fail, and the one of*)
(* the others.                                                             *)
SensorStep(t, at, next) ==
  /\ pc[t] = at
  /\ Micstat
  /\ Goto(t, next)
  /\ UNCHANGED <<world, load, control, time, perf, eras, cause>>

Sbox(r)     == Reading[r][era]
Smc(failed) == [r \in SmcRegister |-> mr_smc_rd(Reading[r][era], r \notin failed)]

Freq(t) ==
  /\ SensorStep(t, "freq", "temp")
  /\ sample' = [sample EXCEPT !.freq = freq_restart(bclk, Sbox("CURRENTRATIO")),
                              !.early = ~loaded]

Temp(t) ==
  /\ SensorStep(t, "temp", "temp2")
  /\ \E failed \in limit.failures :
       sample' = [sample EXCEPT !.temp = temp_restart(Smc(failed), Sbox("DIE_TEMP0")),
                                !.failed = failed \ PowerRegister]

Temp2(t) ==
  /\ SensorStep(t, "temp2", "power")
  /\ sample' = [sample EXCEPT
                  !.temp2 = temp2_restart(Sbox("DIE_TEMP0"), Sbox("DIE_TEMP1"), Sbox("DIE_TEMP2"))]

Power(t) ==
  /\ SensorStep(t, "power", "perf")
  /\ \E failed \in limit.failures :
       sample' = [sample EXCEPT !.power = power_restart(Smc(failed)),
                                !.volt = volt_restart(Smc(failed)),
                                !.failed = (@ \ PowerRegister) \cup (failed \cap PowerRegister)]

ThermStatus(t) ==
  /\ pc[t] = "temp"
  /\ ~Micstat
  /\ Goto(t, "perf")
  /\ sample' = [sample EXCEPT
                  !.temp = [therm |-> therm_status_restart(Reading["IA32_THERM_STATUS"][era])]]
  /\ UNCHANGED <<world, load, control, time, perf, eras, cause>>

(* perf_restart adds up over the CPUs what each has counted since the last *)
(* sample, scaled up by the time for which its event did not count.        *)
Stale(c) ==
  \/ event[c].total < saved[c].total
  \/ event[c].enabled < saved[c].enabled
  \/ event[c].running <= saved[c].running

Scaled(c) ==
  LET counted == (event[c].total - saved[c].total) * (event[c].enabled - saved[c].enabled)
      ran     == event[c].running - saved[c].running
  IN  (2 * counted + ran) \div (2 * ran)

TooLarge(c) == ~Stale(c) /\ Scaled(c) > Threshold

Delta(c) == IF Stale(c) \/ TooLarge(c) THEN 0 ELSE Scaled(c)

PerfRestart(t) ==
  /\ pc[t] = "perf"
  /\ counts' = [c \in Cpu |-> counts[c] + Delta(c)]
  /\ ignored' = ignored \cup {c \in Cpu : TooLarge(c)}
  /\ saved' = event
  /\ Goto(t, "oh")
  /\ UNCHANGED <<world, load, control, time, sensors, cause>>

OhRestart(t) ==
  /\ pc[t] = "oh"
  /\ st_oh' = clock
  /\ sample' = [sample EXCEPT !.oh = (clock - st_current) % TIME]
  /\ Goto(t, "measure")
  /\ UNCHANGED <<world, load, control, st_prev, st_current, began, since, intervals, perf, eras, cause>>

(* kthread_function reads the two once more, for the sleep of StatPacing.  *)
Measure(t) ==
  /\ pc[t] = "measure"
  /\ sample' = [sample EXCEPT !.oh = (st_oh - st_current) % TIME]
  /\ Goto(t, "sleep")
  /\ UNCHANGED <<world, load, control, time, perf, eras, cause>>

Wake(t) ==
  /\ pc[t] = "sleep"
  /\ Goto(t, IF t \in flagged THEN "none" ELSE "look")
  /\ UNCHANGED <<world, load, control, time, perf, sensors, cause>>

-----------------------------------------------------------------------------
World     == Tick \/ Change \/ \E c \in Cpu : Count(c)
OnWriter(w)  == SetOn(w) \/ ResetTime(w) \/ ResetOh(w) \/ ResetCurrent(w) \/ ResetPrev(w) \/ Raise(w)
                \/ TimerStart(w)
OffWriter(w) == SetOff(w) \/ Stop(w) \/ Stopped(w) \/ SetOffNothing(w) \/ Clear(w)
Sensors(t) == Freq(t) \/ Temp(t) \/ Temp2(t) \/ Power(t) \/ ThermStatus(t)
RollBuffer(t) == TsRestart(t) \/ IntvRestart(t) \/ Sensors(t) \/ PerfRestart(t) \/ OhRestart(t)
Kthread(t) == Begin(t) \/ Look(t) \/ RollBuffer(t) \/ Measure(t) \/ Wake(t)

Next ==
  \/ World
  \/ \E w \in Writer : OnWriter(w) \/ OffWriter(w)
  \/ BaseClk
  \/ \E t \in Thread : Kthread(t)

Spec == Init /\ [][Next]_vars

-----------------------------------------------------------------------------
(* Properties.                                                             *)

(* What the thread computes its sleep from is the time its sample took, and*)
(* never a difference that wrapped round and would make it sleep for weeks:*)
(* no reset of set_on, and no other thread, comes between the two readings *)
(* of the clock, unless an on overlapped another write of ctrl.            *)
OverheadIsReal ==
  "overlap" \notin cause =>
    \A t \in Thread : pc[t] = "sleep" => sample.oh <= clock - began

(* The intervals of the samples since an on add up to the time from its    *)
(* reset to the last stamp, not from the last sample before it: ts and intv*)
(* go by the same two variables as the reset, in an order that keeps them  *)
(* together.                                                               *)
IntervalsAddUp ==
  \A t \in Thread :
    pc[t] \in (Rolling \cup {"sleep"}) \ {"ts", "intv"} /\ "overlap" \notin cause =>
      intervals = (st_current - since) % TIME

(* What the samples had from a CPU since the module was loaded is at least *)
(* what its event had counted at the last reading, and exactly that if it  *)
(* counted all the time, over every off and on, unless a reading was       *)
(* ignored because it was too large. In haswellstat and sbstat that is so  *)
(* however many threads overlapping writes leave; in micstat, which takes  *)
(* no lock for a sample, these race for values.                            *)
CountsAddUp ==
  \A c \in Cpu \ ignored : (Micstat => "overlap" \notin cause) =>
    /\ counts[c] >= saved[c].total
    /\ saved[c].running = saved[c].enabled => counts[c] = saved[c].total

(* What a field of a sample shows is what the register of that sensor held *)
(* at some time while the sample was taken, if the field has room for it,  *)
(* without the status bits above it; or 0 if that read of the bus failed,  *)
(* whichever of the others did. (Two of micstat's threads, which an on that*)
(* overlaps another write may leave, share the sample.) The n-th die       *)
(* is a third of the register n div 3. In haswellstat and sbstat it is the *)
(* digital readout of the CPU's thermal status, whatever else that says.   *)
TempField == [tdie |-> "TEMP_CPU", tfin |-> "TEMP_INLET", tfout |-> "TEMP_EXHAUST",
              tgddr |-> "TEMP_GDDR", tvccp |-> "TEMP_VCCP", tvddg |-> "TEMP_VDDG",
              tvddq |-> "TEMP_VDDQ"]
PowerField == [avgpwr |-> "AVG_PWR_1", pciepwr |-> "PWR_PCIE", c2x3pwr |-> "PWR_2X3",
               c2x4pwr |-> "PWR_2X4", vccppwr |-> "PWR_VCCP", vddgpwr |-> "PWR_VDDG",
               vddqpwr |-> "PWR_VDDQ"]
DieRegister == <<"DIE_TEMP0", "DIE_TEMP1", "DIE_TEMP2">>

Shows(value, r, span, room) ==
  \/ r \in sample.failed /\ value = 0
  \/ r \notin sample.failed /\ \E e \in eras .. era :
       LET reading == Reading[r][e] % span IN reading < room => value = reading

ShowsDie(value, n) ==
  \E e \in eras .. era :
    LET reading == (Reading[DieRegister[n \div 3 + 1]][e] \div 1024^(n % 3)) % 1024
    IN  reading < 256 => value = reading

ThermShown ==
  sample.temp # <<>> => \E e \in eras .. era :
    sample.temp.therm = (Reading["IA32_THERM_STATUS"][e] % 2^23) \div 2^16

TempsShown ==
  sample.temp # <<>> =>
    /\ \A f \in DOMAIN TempField : Shows(sample.temp[f], TempField[f], 2^16, 256)
    /\ ShowsDie(sample.temp.tdie0, 0)

DiesShown == sample.temp2 # <<>> => \A n \in 1 .. 8 : ShowsDie(sample.temp2[n], n)

PowersShown ==
  sample.power # <<>> =>
    /\ \A f \in DOMAIN PowerField \ {"avgpwr"} : Shows(sample.power[f], PowerField[f], 2^16, 256)
    /\ Shows(sample.power.avgpwr, PowerField.avgpwr, 2^30, 2^16)
    /\ Shows(sample.volt \div 1000, "VOLT_VCCP", 2^16, 2^16)

SensorsAreShown ==
  /\ ~Micstat => ThermShown
  /\ Micstat /\ "overlap" \notin cause => TempsShown /\ DiesShown /\ PowersShown

(* The clock of the cores is right: the base clock of the part, or the     *)
(* default of a part that does not say, times the low byte of the ratio,   *)
(* over the divider the PLL's table has for the other two bits. A sample   *)
(* that was begun before micstat_init found the base clock has the default.*)
FrequencyShown ==
  LET iccdiv == (limit.scratch4 \div 2^25) % 32
      base   == IF sample.early \/ iccdiv \notin 18 .. 22 THEN 200000 ELSE 4000000 \div iccdiv
  IN  \E e \in eras .. era :
        LET ratio == Reading["CURRENTRATIO"][e] \div 2
        IN  sample.freq = (base * (ratio % 256)) \div Divider[1 + ((ratio \div 256) % 4)]

FrequencyIsReal ==
  Micstat /\ sample.temp # <<>> /\ "overlap" \notin cause => FrequencyShown
=============================================================================
