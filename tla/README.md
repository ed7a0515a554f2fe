# Verification of the xstats kernel modules

This directory holds TLA+ models of the four Linux kernel modules of this
repository, the TLC configurations that check them on small instances, and
TLAPS proofs of what matters most for every size of the instance.

All four modules do the same job: a kernel thread samples a table of counters
at a period, keeps the samples in a ring, and hands them to processes through
files of a sysfs class (`on`/`off` is written to `ctrl`, the period in
milliseconds to `period`).

## The system: inventory

| Part | State | Operations | Who shares it |
|---|---|---|---|
| xstat ring (`xstat.c`) | per node: `buffer`, `buffer_base`, `buffer_next`, `buffer_size`, `working_buf`, `lock` | `roll_buffer` (thread); `show_stat_attr`, `show_last_attr`, `store_reset_attr` (processes) | the node's thread and any number of processes |
| xstat control (`xstat.c`) | `ctrl_on`, `ctrl_lock`, `xstat_nodes[]`, each node's `task` and `ctxs` | `start_stat`, `stop_stat`, `kthread_function`, `init_counters`, `exit_counters`, `xstat_init`, `xstat_exit`, `(un)register_xstat_node` | writers of `ctrl`, the threads, insmod/rmmod, readers |
| xstat pacing (`xstat.c`) | `ctrl_period`, the thread's `tosleep`, its last time stamp | `kthread_function`, `store_period_attr` | each thread, writers of `period` |
| xstat counters (`base_cnt.c`, `hpc_cnt.c`, `msr_cnt.c`) | a context per node and counter; a static `timespec` | `init`, `restart`, `exit` of each counter | the threads of all nodes share the `timespec`; the hardware sets log bits that a thread reads and clears |
| xstat IPMI counters (`ipmi_cnt.c`) | sensor groups with `user`, `msgid`, last readings | watcher callbacks, reply handler, `restart`, `scnprintf`, exit | all threads, the IPMI layer's callbacks |
| haswellstat (`haswellstat/stat.c`) | one ring for the machine, `buffer_lock`, `on`, `period`, `ctrl_lock`, `kthread_task`, `st_prev`, `st_current`, `st_oh` | as above, one thread; `set_on`, `set_off`, `store_clear` | thread, writers, insmod/rmmod |
| sbstat (`sbstat/sbstat.c`) | as haswellstat | as haswellstat; a full ring drops the newest sample; no `clear` and no `last` | as haswellstat |
| micstat (`micstat/micstat.c`) | as haswellstat, but `on` has no lock; the base clock | as haswellstat; SMC and SBOX sensors, frequency and temperature formulas | as haswellstat |
| scripts, Makefiles | none | set-up of a machine, build | - |

How they interact: a process writes `ctrl`, which under `ctrl_lock` creates or
stops one kernel thread per node; the thread sets its counter contexts up,
reads the counters without any lock, publishes under `node->lock`, sleeps, and
looks at `kthread_should_stop`. Readers and resetters need `node->lock` only.
`rmmod` stops the threads, frees the nodes, then removes the class. The IPMI
counters print through the node's contexts, so reads depend on the threads
having set them up.

Hard behaviours:

* thread and processes meet in the ring in any order, at its full and empty
  boundary and after wrap-around;
* one read of `stat` empties a part of the ring that is being refilled;
* `on` and `off` of several processes, and of insmod and rmmod, overlap;
  stopping a thread waits for it wherever it is;
* allocations and thread creations fail half-way;
* in haswellstat and sbstat the thread looks at the flag `on` itself and may end
  before `off` gets to stop it, and `on` and `off` leave their lock half-way;
* `period` is read two or three times without a lock, with unsigned arithmetic
  that wraps, on times that xstat's threads take through one static variable;
* contexts dangle between two runs of a thread;
* `ctrl_lock` of xstat is a spinlock, and `kthread_create` and `kthread_stop`
  sleep with it held: who waits for it keeps a CPU that a thread may need;
* `set_on` resets `st_prev`, `st_current` and `st_oh`, which the thread moves on;
* micstat has no lock around `on` at all, and its class outlives the module;
* that static time variable serves the threads of all nodes;
* perf events take turns at the CPU's registers, the energy register wraps, and
  log bits are set again between being read and being cleared;
* a read of micstat's SMC fails and nobody looks; its registers have more bits
  than the fields of a sample; `ctrl` is there before the base clock is known;
* IPMI replies are late, out of order or errors, BMCs come and go, and unloading
  meets the watcher's callbacks.

What makes each part correct:

* ring: it always holds the newest samples, consecutive and in order; no
  sample is delivered twice or cut; `last` is the newest one; the thread is
  never starved;
* control: one sampler per node; contexts belong to the thread that uses them;
  after `off` nothing runs; `off` and `rmmod` return; nothing touches a node
  that is not set up or is freed; in haswellstat and sbstat also: no two threads
  on one ring, and no perf event left behind;
* pacing: the period is kept where that is possible, but for what rounding,
  waiting for locks and wrong times cost; sampling takes at most a fifth of the
  time and a part of a millisecond (haswellstat, sbstat, micstat); no sleep runs
  away;
* counters: over many samples, intervals, energies and event counts add up to
  what really went by, across wrap-around, off and on; what made a CPU slow
  down is reported; sensors show what their registers held, and the overhead
  that the pacing goes by is real;
* IPMI: what is printed for a sensor is what the BMC measured for its number, and
  not older than the last answer there was when the sample began; unloading
  leaves no user.

## Modules

| Module | What it is | Models |
|---|---|---|
| `SampleLog` | the abstract log a ring promises: `Add`, `Open`, `Take`, `Peek`, `Clear`; a full log forgets the oldest or refuses the newest (`ForgetsOldest`) | - |
| `XstatBuffer` | one node's ring | `roll_buffer`, `show_stat_attr`, `show_last_attr`, `store_reset_attr`, the lengths in `print_buffer` |
| `XstatCtl` | on, off, threads, load, unload | the rest of `xstat.c` but the pacing |
| `XstatPacing` | the sleep between two samples in xstat | `kthread_function`, `store_period_attr` |
| `StatBuffer` | the one ring of haswellstat, sbstat or micstat (`Driver`) | `roll_buffer`, `micstat_show_stat`, `micstat_show_last`, `micstat_store_clear` |
| `StatCtl` | on, off, the thread, load, unload of haswellstat and sbstat | `set_on`, `set_off`, `timer_start`, `timer_cleanup`, `kthread_function`, `micstat_store_ctrl`, `micstat_init`, `micstat_exit` |
| `StatPacing` | the same sleep in haswellstat, sbstat and micstat, whose code is alike | `kthread_function`, `micstat_store_period` |
| `MicCtl` | on, off, the thread, load and unload of micstat | `set_on`, `set_off`, `timer_start`, `timer_cleanup`, `kthread_function`, `micstat_store_ctrl`, `micstat_init`, `micstat_exit` |
| `Ipmi` | the IPMI counters, the watcher, requests and replies | `ipmi_cnt.c` |
| `XstatCounters` | what time, interval, perf events and energy add up to, and what reasons for slowing down are reported | `base_cnt.c`, `hpc_cnt.c`, energy and perf limit of `msr_cnt.c` |
| `StatCounters` | what the samples of haswellstat, sbstat and micstat say | the table of counters, `ts_reset`, `perf_restart`, `get_baseclk` |
| `MicSensors` | micstat's sensor and clock formulas, as operators | `temp_restart`, `power_restart`, `freq_restart` and what they call |
| `MC` and the module's name | a small instance of each module but `SampleLog` and `MicSensors` | - |
| `XstatBufferProofs`, `XstatCtlProofs`, `XstatCountersProofs`, `StatBufferProofs`, `StatCtlProofs`, `StatCountersProofs`, `MicCtlProofs`, `IpmiProofs` | theorems; `XstatCountersProofs` and `StatCountersProofs` are also about `XstatPacing` and `StatPacing`, the sleep of the same thread | - |

`StatBuffer` and `XstatBuffer` are related to `SampleLog` by refinement, and
`StatCounters` extends `MicSensors`. The others stand for themselves: what one
takes from another is small, and is named where it is used (a thread that may
run twice in `StatBuffer` is what `StatCtl` calls an overlap; contexts in
`XstatCtl` are filled by `XstatCounters`).

### XstatBuffer

The state is the fields of `struct xstat_node`. A sample is its number (what it
holds does not matter to the ring); a sample's text is its length. The thread
has two steps: `Restart` reads the counters without the lock, `Publish` is the
critical section of `roll_buffer`. `show_stat_attr` is `StatOpen` (takes the
lock), `StatPrint` (one turn of the loop) and `StatReturn`; everything else
waits while the lock is held. `ShowLast` and `Reset` are single critical
sections and one action each. `delivered` and `cut` are history variables.

`ImplementsLog` maps the ring to `SampleLog`: the log is the `buffer_size`
slots from `buffer_base` on, its `latest` is the slot before `buffer_next`.
`Restart`, and `StatReturn`, are steps the log does not see.

### XstatCtl

`apc[a]` and `i[a]` say where actor `a` is in `start_stat` or `stop_stat`, and
at which node; the loader (insmod, rmmod) is an actor as well. A thread is a
task of a finite pool (`Task`); it goes `new` → `roll` → `check` → `sleep` →
`roll` … → `exit` → `dead`, and `StopWait` is the second half of `kthread_stop`:
it waits for `dead` and clears `task`. Nodes go `none` → `bare` (published in
`xstat_nodes`) → `masked` → `ready`. Contexts are `none`, `live` or `stale`
(released, but the pointer is still there).

The build modelled is the one with `XSTAT_IPMI`, where printing goes through
contexts. A step that would follow a null or freed pointer is an oops: it sets
`fault`, and the behaviour ends. `cause` remembers what led there:
`create_failed`, `alloc_failed`, `early_on` (an `on` while `xstat_init` still
registers nodes) and `late_on` (an `on` after the `stop_stat` of `xstat_exit`).
`FaultHasCause` says that an oops has no other reason. This is how
the weaknesses of load and unload are stated as properties that hold: without
the cause, the fault cannot happen. `last_null_ctx` (a read of `last` before
the first `on`) has no cause and no property; the code has no test for it and
nothing says what it should print.

`ctrl_lock` is a spinlock. `Spin(a, n)`: actor `a` finds it taken, and from then
on keeps a CPU, until it gets the lock (`On`, `Off`, `ExitStop`) or gets it and
has nothing to do (`SpinDone`). Only the first CPU of each node matters, as that
is where its thread is bound (`HasCpu`). An `off` may so wait for a thread that
cannot run because of a process that spins for the lock `off` holds: `Stuck`. It
is the one exception of `OffReturns` and `UnloadReturns`, and `StuckForGood`
proves that there is no way out of it.

External and modelled from the way the code uses it: `kthread()` (a thread
stopped before it ran never calls its function: `KNeverRan`), `kthread_stop`
(sets the flag, waits), `class_unregister` (waits for active writers of `ctrl`).

### StatBuffer

Like `XstatBuffer`, with three differences of the code. A full ring of sbstat
refuses a sample (`PublishIfRoom`), the others overwrite (`PublishOver`); `clear`
moves `buffer_next` where xstat's reset moves `buffer_base`; `last` looks for the
newest unread sample, from `buffer_base`. And `working_buf` is one for all
threads that may run `kthread_function`, so reading the counters is two steps,
`RestartFirst` and `RestartLast`, and a sample is the pair of what they wrote: a
sample mixed from two threads would show as `ts # oh`. In haswellstat and sbstat
`ctrl_lock` is held from `RestartFirst` to `Unlock`; in micstat it is not, and
`WholeSamples` is claimed of micstat only for one thread (`OneThread`).

### StatCtl

`apc[a]` says where actor `a` (a writer of `ctrl`, or rmmod) is in `set_on` or
`set_off`; `SetOn` and `SetOff` are the critical sections, and what follows them
is outside the lock. `Stop` is the first half of `kthread_stop`, `StopWait` the
second. A thread goes `created` → `new` → `lock` → `roll` → `sleep` → `lock` … →
`dead`; it ends by itself when it finds `on` down (`KLock`), or when told to
(`KWake`, or `KStart` if it never ran). The kernel then frees the task_struct
(`Reap`) unless somebody holds it, and may use it for another thread once
`kthread_task` does not point to it any more (`Reuse`). Perf events are a set of
counters; a failed load gives back what it took, from the failed counter down
(`FailCounter`).

As in `XstatCtl`, a step that would follow a bad pointer sets `fault`, and
`cause` remembers what came before: `overlap` (an on or off changed the flag
while another was not done), `late_on` (an on after rmmod's `set_off`),
`create_failed`, `class_failed`, and `ended_itself`. The last is the one that
needs no mistake of a user: off lowers the flag, the thread sees it and ends,
and off stops a task that may be gone.

### MicCtl

As `StatCtl`, but nothing is a critical section: `On` reads the flag, `Set`
raises it, `Create`, `Schedule` and `WakeUp` are `timer_start`, and each of them
takes `kthread_task` as it is by then. Off stops the thread (`Stop`, `StopWait`)
while the flag is still up, and lowers it twice (`Lower`). The thread looks at
`on` and at `should_stop`; micstat's loop ends at either. The causes are
`overlap` (a write began while another, or rmmod's stop, was at work),
`late_write` (a write after rmmod began) and `exit_off` (rmmod while sampling was
off: it stops `kthread_task` all the same). Because the class is never
unregistered, `ctrl` can be written from insmod on; a write after rmmod calls
code that is gone (`gone_ctrl`). This fault, and `err_task` (the pointer of a
thread that could not be created is followed before it is tested), follow from
legal use, and have no cause to name.

### Ipmi

A thread's `Restart` begins `xstat_ipmi_restart` for one group; then `Request`
and `Or` alternate from the last sensor to the first, and `ret` is the word.
`Printed` is what `xstat_ipmi_scnprintf` makes of it. `Reply` and `ReplyError`
are the two ways out of the message handler. The watcher's callback is
`BmcComes` and one `CreateUser` per group; unloading is `TakeUser` and
`DestroyUser` per group, then `WatcherUnregister`. The IPMI layer is external:
it answers each request once, with an error or with what the BMC measured at
some time since the request was made, those for one sensor in their order and
those for different sensors in any;
it answers what is pending with errors when a BMC goes, drops it when a user is
destroyed, and waits for a callback of the watcher before the watcher is
unregistered. What the BMC measures changes from `era` to `era` (`Change`), and is
a function of the sensor's number in the table (`Number`), so that two sensors
with one number show the same; `pending` holds when each request was made.
Message ids are left out, as nothing reads them. `answered` and `fresh` are
history variables: from which era the last answer for a sensor is, and was when
the sample began.

`SampleShowsAnswers` does not say that a sample is fresh, because it is not: it
takes the readings there are, without waiting for its own requests, and one
whose request was lost, refused or is late shows the last answer, however old.
It says that no older one comes back, and that no reading is shown for another
sensor. The tables of the source give `Fan6B` the number of `Fan6A`
(`ipmi_cnt.c:58` and `67`), so that both show one fan; nothing in the repository
says which number is right, and the model takes the numbers as they are.
`bmc_in_exit`, the only cause, is that a user was made while `xstat_ipmi_exit`
ran: the users are destroyed first and the watcher is unregistered last.
`Place(s)` is the power of `BYTE` by which the reading of sensor `s` is shifted.
A BMC that comes back finds the groups with their old users: the model has it,
and from then on every sample shows the last readings of the first BMC. The
repository does not say what it should show, so that no property speaks of it.

### XstatCounters

`get_time` is four steps on the static `ts` (`sec`, `nsec`), which all threads
share: two that write it, two that read it; the last read is one step with what
the caller does with the result (`TsRestart`, `AfterRoll`). Perf events are
three numbers (total, enabled, running), and the double arithmetic of
`perf_restart` is exact in the model: scaling is rounded to the nearest. The
energy register shows the energy modulo `ERANGE`. `since`, `intervals`,
`energies`, `seen` and `counts` are history variables: sums over the samples of
a node; a sample shows the events of all its CPUs as one number, of which
`counts` has the part of each CPU, so that no sum hides what goes wrong on one
of them. `lapped` names nodes whose register came round completely between two
samples (during an off, say), `ignored` CPUs of which a count above
`perf_overflow_threshold` was dropped; what holds without them is exact.
`perflmt_restart` is two steps, `PerflmtRead` and `PerflmtClear`, which the
hardware's `Limited` may come between; `missed` holds the reasons that did.
`LimitsReported`: nothing that was logged is cleared without being shown, but
for these.

### StatCounters and MicSensors

`StatCounters` is one for three drivers, as the counters differ in little
(`limit.driver`; sbstat is haswellstat here). A sample is taken in the order of
the table of counters, one step each: the time stamp (`TsRestart` moves
`st_current` to `st_prev`), the interval (`IntvRestart`), the sensors (`Freq`,
`Temp`, `Temp2`, `Power` in micstat, `ThermStatus` in the others), the perf
events (`PerfRestart`), the overhead (`OhRestart`, then `Measure`, which is what
`kthread_function` computes its sleep from). `wpc[w]` says where the writer `w` is.
`set_on` is `SetOn`, the assignment in `ts_reset` from right to left, one variable
to a step, `Raise` and `TimerStart`; `set_off` is `SetOff`, `Stop` and `Stopped`.
In haswellstat the flag changes first, under `ctrl_lock`; in micstat it changes
last and without a lock, so that two ons can both find it clear, reset the times
twice and start two threads, and it is cleared once more behind every off
(`Clear`, also behind one that found it clear: `SetOffNothing`). `cause` has
`overlap` once an on meets any other write of `ctrl`, or a write an on; two offs
may meet. That a thread cannot be created, and all that ends in an oops, is left
to `StatCtl` and `MicCtl`.

The monotonic clock, the events and the registers change at any time (`Tick`,
`Count`, `Change`). A register holds a value for each era; `eras` is when the
sample began, so that `SensorsAreShown` can ask for a value the register held
while the sample was taken. Any set of the reads of the SMC may fail, drawn anew
by `Temp` and by `Power`; a read that fails gives 0.
`BaseClk` is the end of `micstat_init`: a sample that was taken before it (`early`)
goes by the default clock. `began`, `intervals`, `counts` and `ignored` are
history variables like those of `XstatCounters`. The bit fields in `MicSensors`
are the code's expressions; `Shows` and `ShowsDie` say independently of them which
part of which register a field of the sample is.

### XstatPacing and StatPacing

The clock is in ticks, `MS` of them to a millisecond, because rounding between
the two is what the properties are about. `Roll` chooses how long the sample
took; each read of the period is a step of its own, and `StorePeriod` may come
between. `msleep` is external: it sleeps to the end of a jiffy of one millisecond
after the time asked for. `gap` is the time, by the clock, from one sample to the
next. Threads end in the control modules; in the pacing modules they loop for
ever.

In `XstatPacing` what the thread believes a sample took is not what it took:
both times come from `get_time`, which may be off by less than a second, either
way (`StampIsCurrent`). `Roll` draws an error for each from `Skew`, and `skew`
remembers the sum. The subtraction of times is modulo `U64`, its milliseconds are
cut to an unsigned `int`, and what is left of the period becomes an `int`
(`LeftOf`); the comparison of that `int` with the unsigned period is unsigned
(`Exceeds`). A difference that wrapped round leaves more than any period
(`PacingAssumption`), so that `Limit` makes it a whole one. `PeriodKept` and
`NeverTooLong` say what holds for each `skew`: an error moves the next sample by
as much, a second time that is before the first costs a whole period, and no
thread ever sleeps longer than the last period it saw.

In `StatPacing` the unsigned subtraction is `% UINT`. `cost` is what the code
measures, and `OverheadIsReal` of `StatCounters` says what that is worth; `oh` is
`cost` cut down to milliseconds, and `rest` what is in no measure: the wait for
`buffer_lock`, the publication, the wait for `ctrl_lock` and for the processor.
`OverheadAtMost20` bounds `cost`, not `oh`, which takes four fifths of a
millisecond of slack; `PeriodKept` allows for `rest`, and for less than two
milliseconds, one of them for `oh` and one for `msleep`.

## Runs

| Run | Instance | Shows |
|---|---|---|
| `XstatBuffer` | 3 slots, 2 processes, texts of 1 or 4 bytes on a page of 9, 5 samples | `WindowIsNewest`, `NoDoubleDelivery`, `PageIsRun`, `NoCutRecord`, `ImplementsLog`, `ThreadNotStarved` |
| `XstatCtl` | 2 nodes, 2 writers and the loader, 2 tasks | `OneSampler`, `OwnContexts`, `OffMeansQuiet`, `FaultHasCause`, `OffReturns`, `UnloadReturns` |
| `XstatPacing` | periods 1, 2, 3, 6; 3 ticks to the millisecond; samples of 0 to 20 ticks, times off by 0, 1 or 6 ticks either way; an `int` of 6 bits, times of 11 | `PeriodKept`, `NeverTooLong` |
| `StatPacing` | periods 101, 110, 600; 4 ticks; costs around the fifth; waits of 0, 1 and 9 ticks; words of 16 bits | `OverheadAtMost20`, `PeriodKept` |
| `StatBuffer` | haswellstat: 2 slots, 2 threads, 2 processes, texts of 1 or 4 bytes on a page of 9, 4 samples | `WholeSamples`, `ImplementsLog`, `SamplerNotStarved` |
| `SbBuffer` | the same for sbstat | `ImplementsLog`, `KeptUntilRead` |
| `StatCtl` | 2 counters, 2 writers and the loader, 2 task_structs | `OneSampler`, `OffMeansQuiet`, `FaultHasCause`, `NothingLeaked`, `OffReturns` |
| `MicCtl` | 2 writers and the loader, 2 task_structs | `OneSampler`, `FaultHasCause` |
| `Ipmi` | 2 nodes; a group of 2 sensors and one of 1; 2 BMCs, one after the other; bytes of 5 values, words of 2 bytes; 2 eras; a request for each sensor without answer; one number that two sensors have | `SampleShowsAnswers`, `UnloadReleasesUsers` |
| `XstatCounters` | 2 nodes, one of them with 2 CPUs; seconds of 2 units, an energy register of 2 values, a threshold of 3, 2 reasons | `StampIsCurrent`, `IntervalsAddUp`, `EnergyAddsUp`, `CountsAddUp`, `LimitsReported` |
| `StatCounters` | 2 writers, 2 threads, 2 CPUs, up to 3 ticks in a time of 32 values, a threshold of 3, 2 eras, six codes of the base clock; no read of the bus that fails, or one, or all, or all of one counter | `OverheadIsReal`, `IntervalsAddUp`, `CountsAddUp`, `SensorsAreShown`, `FrequencyIsReal` |
| `StatPacingComment` | as `StatPacing`, with samples of more than a fifth of 110 ms, and of more than 110 ms | `OverheadBelow20` is violated |

Why the bounds are enough to be of use: with three slots and five samples the
ring overflows twice, wraps, is drained and reset at every fill; a page of nine
bytes ends a read after one to three records, so both ways out of the loop of
`show_stat_attr` occur. Two nodes are the fewest for which the loops of
`start_stat` and `stop_stat` can be half-way; two writers, so one can wait while
the other is inside or spins; two tasks, which one node could have both of if
two threads to a node were possible. A task that has ended is used again
(`StopWait` gives it back), so the run allows any number of `on`/`off` rounds.
In `StatBuffer` two threads are what an overlap of on and off can leave, and
four samples fill, overflow and wrap a ring of two slots. In `StatCtl` two
task_structs are a thread left behind and the next one, and two counters the
fewest for which a load can fail with one counter set up and one not. In `Ipmi`
two sensors are the fewest that are packed, a second group, whose sensor has the
number of one of the first, shows that it is not mixed up with that; two eras
and one request without an answer are enough for an answer that is older than
the sample, one that comes in the middle of it and one that never comes (a
thread finds the request of the other before it); and the second BMC is one that
comes back; `Base` is negative and `Mul` is not one, so that printing is not the
identity. In `XstatCounters` time, energy and events do not meet, so that each
behaviour has one of the `Limits`: the clock passes into another second while
both threads take the time, the energy goes three times round its register, an
event that is scaled up gets above the threshold, and a reason comes back before
and after it was cleared. `StatCounters` has `Limits` for the same reason: time
with two ons, which is what it takes for a reset, for an on that meets an off
and for two ons that meet (three ticks, but one in micstat, where an on may meet
any step of another; there three ticks go with one on); two eras of sensors; two
ons with events on two CPUs, or one with events that multiplex. Its registers
hold values above eight and sixteen bits, status bits above those, and three of
the four dividers of the clock; the base clock codes are none, the ends and the
middle of the range and the values just beyond. Types are not checked by runs of
their own but proved. The proofs do away with the bounds for all invariants and
action properties; only liveness rests on the instances.

The `XstatCtl`, `StatCtl`, `MicCtl`, `Ipmi`, `XstatCounters` and `StatCounters`
runs do not check deadlock: an oops ends the behaviour, and so does the end of
unloading; the world of the counters stops at its bounds. `MaxSample` bounds the
samples in `XstatBuffer`; when it is reached the processes go on. Its thread's
fairness is for the one sample it has computed, so that the bound does not
matter to `ThreadNotStarved`.

`StatPacingComment` is a disagreement between a comment and the code:
`stat.c:322` says "force overhead / period < 20%", but where it forces it, the
code sleeps `oh * 4` after an overhead of `oh`, which makes it exactly 20 percent
of the milliseconds it reckons with. In the run's counterexample the period is
101, `oh` is 23 and `101 < 115` sends the thread to sleep for 92 ms. With `period`
written between its two reads, it may be more. `OverheadAtMost20` is what holds.

## Fairness

* `XstatBuffer`: strong fairness of `Publish`. The lock is a spinlock whose
  waiters are served in the order of asking (ticket or queued spinlocks), so a
  waiter to whom it becomes free again and again gets it. Weak fairness of the
  loop of `show_stat_attr`: it runs with bottom halves off and never sleeps. No
  fairness makes the thread sample or a process come back.
* `XstatCtl`: weak fairness of each thread (the scheduler runs it while nobody
  spins on its CPU, and `msleep` ends), of each actor inside `start_stat` or
  `stop_stat`, of `SpinDone` (who spins gets a lock that stays free), and of rmmod
  after its `stop_stat`. Nobody is obliged to write, to read or to unload.
  `OffReturns` and `UnloadReturns` speak of an `off` and an rmmod that have got
  `ctrl_lock`, so that no order among those who spin is assumed.
* `StatBuffer`: as `XstatBuffer`, for each thread once it has begun a sample.
* `StatCtl`: weak fairness of threads and of who is inside `set_on` or `set_off`;
  strong fairness of `KLock`, which needs `ctrl_lock`, for the same reason as
  above. `OffReturns` is claimed of an off that no on overlapped.

## Proofs

All theorems hold for every value of the constants under the named `ASSUME` of
the module: in `XstatBuffer`, that the ring and the page are not empty and that
a record fits half a page (`xstat.c` never checks it; with at most 16 counters
it does); in `XstatCtl`, that names of actors differ; in
`StatBuffer` the same as in `XstatBuffer`; in `StatCtl` and `MicCtl`, that names
differ; in `Ipmi`, that a group has a sensor and no more than a word has bytes
(nothing checks it; the tables have at most eight), and, because the provers do
not know powers, what `Place` is at 0 and after one more byte; in `MicSensors`,
for the same reason, the thirteen powers of 2 and 1024 that the bit fields use
(`PowerAssumption`, which names no constant, so that TLC decides it); in
`XstatCounters` and `StatCounters`, that the clock fits into 64 bits, less a
second in the first, where a stamp may be ahead by almost that, and that
registers hold natural numbers; in `StatPacing`, that a sample takes less than the
time after which `oh * 5` overflows an `unsigned`; in `XstatPacing`, that it takes
less than 24 days, and that a difference which wrapped round leaves more than any
period (true of 64 and 32 bits, which are constants here); and in both that
periods are not 0.

* `XstatBufferProofs`. The properties are not inductive: `WindowIsNewest` alone
  does not say which sample is in the slot that a step adds or removes. `IInv`
  adds `RunningThread`, `DeliveredIsOld` (what was delivered is older than all
  the ring holds), `LoopHoldsLock` (a process inside the loop has the lock) and
  `PageMeetsWindow` (what it printed last is just before the window). Lemmas on
  `Advance`, `Before` and `Around` carry the modular arithmetic. `Inductive`
  gives `TypeCorrect`, `RingCorrect`, `DeliveredOnce`, `ReadsCorrect`, and
  `RecordsWhole`, which needs that a record fits the room the loop of
  `show_stat_attr` asks for; `Implements` maps each step to a step or a stutter
  of the log.
* `XstatCtlProofs`. `IInv` is a conjunction of eleven parts. `LockInv` ties
  `ctrl_lock` to who is inside; `TaskInv` makes `task` and `knode` inverse;
  `SwitchInv` says how far each loop has got; `ContextInv` ties contexts to
  threads; `LoadInv`, `UnloadInv`, `ReadyInv` and `ThreadInv` say what the
  loader relies on so long as no cause has occurred; `FaultHasCause` follows
  step by step from these. One lemma for each part says that every step
  preserves it (`LockStep`, `TaskStep`, `SwitchStep`, ...). `ClassInv` is what
  keeps a process that spins from being there when the class is gone.
  `StuckForGood` is an action property: no step of anybody ends `Stuck`.
* `StatBufferProofs`. `WholeSamples` speaks of the ring and the pages; `IInv`
  adds `LockInv` (a thread between `RestartFirst` and `Unlock` holds
  `ctrl_lock`), `WorkInv` (what it wrote to `working_buf` is still there) and
  `SlotsWhole` (of all slots, as `Publish` and `clear` move the window over
  them). For `Implements`, `RingInv` adds that the three fields of the ring
  agree, that a sample in hand is the one begun last (which takes one thread, or
  `ctrl_lock`), and that the newest slot has what arrived last; the lemmas on
  `Contents` say what a ring holds after one more, one less and an overwritten
  one. `NothingOverwritten` is `KeptUntilRead` of sbstat, from the same lemmas.
  The theorems hold for any number of threads of haswellstat and sbstat, and for
  one of micstat.
* `StatCtlProofs`. `IInv` says what the flag tells about the thread so long as
  no on and off overlapped, who holds `ctrl_lock`, which task_structs are in
  use, how far the loader has got, and (`EventInv`) which perf events there are
  at each of its steps. From these follow that there is one thread at most, that
  off leaves none, that every fault has its cause and that no event is leaked.
* `MicCtlProofs`. Without a lock the argument is another one: `SwitchInv` says
  that, so long as no writes overlapped, one actor is inside and the flag shows
  how far it is; `TaskInv` that, unless rmmod came while sampling was off,
  whoever stops a thread finds one; `LoaderInv` that no thread is left when the
  events are released. `OffMeansQuiet` is proved here and has no run of its own.
* `IpmiProofs`. `UsersReleased` follows from `UsersAreKnown` (a user is its
  group's, or is the one being destroyed) and `TakenStayTaken` (a group that
  unloading has done stays without a user). `TypeCorrect` includes that a thread
  never reads past the sensors of its group. `SamplesShowAnswers` rests on
  `WordInv`: what has been packed so far fits into the bytes of the sensors that
  were read, each of these bytes is what an answer said that was the last at
  some time while the sample was taken, and what is stored is what `answered`
  says. A step shifts the word and puts one byte below it; `MovedUp` and
  `OneMore` say what that does to each byte, from lemmas on division.
* `XstatCountersProofs`. `IInv` is six parts, one for each property and
  `TypeOK`. `StampIsCurrent` speaks of a thread that has its time; `StampInv`
  follows the static `timespec` to there: `sec` is never ahead of the clock,
  whoever may still write an old `now` is not older than `since` of those in
  `get_time`, and `nsec` is the rest of some time since. What a stamp put
  together from two times can be is arithmetic on seconds (`Seconds`,
  `Quotient`, `PutTogether`). `IntervalInv` says that the interval of the newest
  stamp is the one thing still to be added; it needs nothing of `StampInv`, so
  that sums are right even where stamps are not. `EnergyInv` ties the context of
  the counter to what the register showed last; `UnwrappedIs` proves, for any
  `ERANGE`, that the difference unwrapped once is the energy used, if that was
  less than a round. `EventInv` adds `RunsOn`: an event has not counted while it
  did not run, nor run while it was not enabled, both up to the last reading and
  since then. By `RoundedUp` a count that is scaled up and rounded is not below
  what was counted, and equal to it if the event ran all the time
  (`DeltaCounts`). `LimitsInv` says in addition what is true between the read
  and the clear.
* `StatCountersProofs`. `AloneInv`: unless an on overlapped another write, a
  thread is alone and is `kthread_task`, and neither another writer nor a thread
  is there while `set_on` resets the counters. `TimeInv` needs it, as a reset
  and a sample write the same three variables: it says what they hold at each
  place of the thread, and `OneMore` that an interval more, modulo `TIME`, moves
  the sum to the next stamp. `EventInv` is as above but needs no `AloneInv`
  (haswellstat and sbstat may have two threads; in micstat, which has no lock,
  two are exempted). `SensorInv` has the two properties of sensors and
  `OrderInv`: a sample has nothing of a sensor that comes later in the table, so
  that a bus failure of this sample is not taken for one of the last; and
  `BaseInv`, what the base clock is before and after `micstat_init`.
  `WordFields`, `DieFields`, `ThermField` and `RatioFields` say what the code's
  shifts and masks make of a register; `Kept` says that what a sample shows it
  goes on showing while registers change.
* The pacing. The same two modules hold the theorems about `XstatPacing` and
  `StatPacing`, which they extend as well (`PacingSpec`, `PacingIInv`).
  `Accounted` says what `tosleep` is at each point of the loop, from what was
  read; the properties are arithmetic on it: `OverheadBounded`, `PeriodIsKept`
  (of either module) and `SleepIsLimited`.

Each `IInv`, and `RingInv` and `WordInv`, was checked with TLC, on the instances
of the runs, before it was proved; no run repeats that.

What the proofs changed in the models: the counts of `XstatCounters` and
`StatCounters` were one number to a node, and are now told apart by CPU, which
makes `CountsAddUp` stronger (what one CPU lost, another can not make up for);
`IntervalsAddUp` of `StatCounters` holds, and is stated, at every place of a
sample after `intv`; and `FrequencyIsReal` takes the five bits of the base clock
code, and not whatever is above them.

Model-checked only: `ThreadNotStarved`, `SamplerNotStarved`, `OffReturns`,
`UnloadReturns`, and the part of `ImplementsLog` that is liveness (liveness is out
of the prover's reach); and the violated comment.

## Not modelled

* What a record says is wording; only its length is in the models of the rings.
  File permissions, kernel log.
* xstat: failure of `class_register`, which leaves a module half loaded, and of
  the creation of files, which is overwritten by the next file's result: what
  the driver core does then is not in this repository. The temperature and the
  unit of energy are one read of a register and keep nothing.
* haswellstat and sbstat: that their `ctrl_lock` is a spinlock too, which the
  thread holds while it reads the perf events. Whether that sleeps, and lets
  somebody spin on its CPU, is up to the perf layer's own locks. `set_off` does
  not hold `ctrl_lock` while it waits, so that nobody is `Stuck` as in xstat.
* micstat: a load that fails; the missing `return` of `micstat_store_clear`.
* IPMI: message ids, which nothing reads.
* What no build compiles: the variants with timers instead of a thread, the
  counters of jiffies and cycles and of the fan, micstat's repair of the DBOX.
* Makefiles and scripts.

## Plan

Done: `SampleLog`, `XstatBuffer`, `XstatCtl`, `XstatPacing`, `StatPacing`,
`StatBuffer`, `StatCtl`, `MicCtl`, `Ipmi`, `XstatCounters`, and `StatCounters` with
`MicSensors`, each with proofs of all its safety properties. What could follow,
most useful first:

1. Composition of ring and control, so that a sample of a stopped run is told
   from one of the next, and of counters and pacing, where only the overhead
   goes from one to the other.
2. A load of xstat in which `class_register` fails, once it is settled what it
   should leave behind.

Runs stay within seconds to three minutes each: two processes, two nodes, rings
of three slots, words of a few bits.
