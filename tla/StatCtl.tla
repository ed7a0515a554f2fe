------------------------------ MODULE StatCtl ------------------------------
(***************************************************************************)
(* Who samples, and when, in haswellstat and sbstat: on and off through    *)
(* the ctrl file (set_on and set_off, which hold ctrl_lock only to swap    *)
(* the flag `on`), the one kernel thread, which looks at that flag itself, *)
(* and loading and unloading with their counters' perf events.             *)
(*                                                                         *)
(* A kernel oops ends a behaviour: fault names it.  The two drivers have   *)
(* the same code here; the lines are those of haswellstat/stat.c.          *)
(***************************************************************************)
EXTENDS Integers, FiniteSets

CONSTANTS
  NumCnt,     \* counters that have perf events
  Writer,     \* processes that write to ctrl
  Loader,     \* the process that runs insmod and rmmod
  Task,       \* bound: task_structs there are for the threads
  Nobody,     \* ctrl_lock is free
  NULL,       \* what kthread_task is at first
  ERR_PTR     \* what kthread_create returns when it fails

ASSUME CtlAssumption ==
  /\ NumCnt \in Nat \ {0}
  /\ Loader \notin Writer
  /\ NULL # ERR_PTR
  /\ Task \cap {NULL, ERR_PTR, Nobody} = {}

Actor == Writer \cup {Loader}
Counter == 1 .. NumCnt

VARIABLES
  lpc,          \* where the loader is
  cnt,          \* the counter micstat_init or micstat_exit is at
  events,       \* the counters that hold perf events
  class_up,     \* is micstat_class registered, that is, does ctrl exist?
  on,
  ctrl_lock,    \* the thread that holds ctrl_lock, or Nobody
  apc,          \* apc[a]: where a is in set_on or set_off
  stopping,     \* stopping[a]: the task a called kthread_stop for
  kthread_task,
  kpc,          \* kpc[t]: where the thread t is
  should_stop,  \* the threads kthread_stop was called for
  fault,        \* the oops that ended it all
  cause         \* history: what happened that should not have

vars == <<lpc, cnt, events, class_up, on, ctrl_lock, apc, stopping, kthread_task,
          kpc, should_stop, fault, cause>>
module  == <<lpc, cnt, events, class_up>>
control == <<on, apc, stopping, kthread_task>>
threads == <<ctrl_lock, kpc, should_stop>>

Init ==
  /\ lpc = "init"
  /\ cnt = 1
  /\ events = {}
  /\ class_up = FALSE
  /\ on = FALSE
  /\ ctrl_lock = Nobody
  /\ apc = [a \in Actor |-> "idle"]
  /\ stopping = [a \in Actor |-> NULL]
  /\ kthread_task = NULL
  /\ kpc = [t \in Task |-> "none"]
  /\ should_stop = {}
  /\ fault = "none"
  /\ cause = {}

Oops(kind) ==
  /\ fault' = kind
  /\ UNCHANGED <<module, control, threads, cause>>

Goto(a, pc) == apc' = [apc EXCEPT ![a] = pc]
KGoto(t, pc) == kpc' = [kpc EXCEPT ![t] = pc]

-----------------------------------------------------------------------------
(* set_on and set_off, run by a.                                           *)

(* An on or off that changes the flag while another is not done overlaps   *)
(* it; an on is late once micstat_exit has called set_off.                 *)
Overlap(a) == IF \E b \in Actor \ {a} : apc[b] # "idle" THEN {"overlap"} ELSE {}
Late == IF lpc \in {"off", "unregister"} THEN {"late_on"} ELSE {}

(* The critical section of set_on. If the flag was set there is nothing to *)
(* do. The mutant does not look.                                           *)
SetOnAlways(a) ==
  /\ apc[a] = "idle"
  /\ ctrl_lock = Nobody
  /\ on' = TRUE
  /\ Goto(a, "create")
  /\ cause' = cause \cup (IF on THEN {} ELSE Overlap(a) \cup Late)
  /\ UNCHANGED <<module, stopping, kthread_task, threads, fault>>

SetOn(a) ==
  /\ apc[a] = "idle"
  /\ ctrl_lock = Nobody
  /\ on' = TRUE
  /\ \/ on /\ UNCHANGED <<apc, cause>>
     \/ ~on /\ Goto(a, "create") /\ cause' = cause \cup Overlap(a) \cup Late
  /\ UNCHANGED <<module, stopping, kthread_task, threads, fault>>

(* The rest of set_on resets the counters, and timer_start makes a thread  *)
(* (or cannot) ...                                                         *)
Create(a) ==
  /\ apc[a] = "create"
  /\ \/ \E t \in Task :
          /\ kpc[t] = "none"
          /\ kthread_task' = t
          /\ KGoto(t, "created")
          /\ UNCHANGED cause
     \/ /\ kthread_task' = ERR_PTR
        /\ cause' = cause \cup {"create_failed"}
        /\ UNCHANGED kpc
  /\ Goto(a, "wake")
  /\ UNCHANGED <<module, on, stopping, ctrl_lock, should_stop, fault>>

(* ... and wakes up what kthread_task is by now.                           *)
WakeUp(a) ==
  /\ apc[a] = "wake"
  /\ \/ /\ kthread_task \in Task
        /\ kpc[kthread_task] = "freed"
        /\ Oops("freed_task")
     \/ /\ kthread_task \in Task
        /\ kpc[kthread_task] # "freed"
        /\ kpc' = [kpc EXCEPT ![kthread_task] = IF @ = "created" THEN "new" ELSE @]
        /\ Goto(a, "idle")
        /\ UNCHANGED <<module, on, stopping, kthread_task, ctrl_lock, should_stop, fault, cause>>
     \/ /\ kthread_task = ERR_PTR
        /\ Goto(a, "idle")
        /\ UNCHANGED <<module, on, stopping, kthread_task, threads, fault, cause>>

(* The critical section of set_off. One mutant stops a thread that is off  *)
(* already, the other keeps the lock while it stops the thread.            *)
SetOffAlways(a) ==
  /\ apc[a] = "idle"
  /\ ctrl_lock = Nobody
  /\ on' = FALSE
  /\ Goto(a, "stop")
  /\ cause' = cause \cup (IF on THEN Overlap(a) ELSE {})
  /\ UNCHANGED <<module, stopping, kthread_task, threads, fault>>

SetOffLocked(a) ==
  /\ apc[a] = "idle"
  /\ ctrl_lock = Nobody
  /\ on' = FALSE
  /\ \/ ~on /\ UNCHANGED <<ctrl_lock, apc, cause>>
     \/ on /\ ctrl_lock' = a /\ Goto(a, "stop") /\ cause' = cause \cup Overlap(a)
  /\ UNCHANGED <<module, stopping, kthread_task, kpc, should_stop, fault>>

SetOff(a) ==
  /\ apc[a] = "idle"
  /\ ctrl_lock = Nobody
  /\ on' = FALSE
  /\ \/ ~on /\ UNCHANGED <<apc, cause>>
     \/ on /\ Goto(a, "stop") /\ cause' = cause \cup Overlap(a)
  /\ UNCHANGED <<module, stopping, kthread_task, threads, fault>>

(* timer_cleanup: kthread_stop(kthread_task) takes hold of the task, which *)
(* must be there still, raises the flag, wakes the thread up if nobody has *)
(* yet ...                                                                 *)
Stop(a) ==
  /\ apc[a] = "stop"
  /\ \/ kthread_task = NULL    /\ Oops("null_task")
     \/ kthread_task = ERR_PTR /\ Oops("err_task")
     \/ /\ kthread_task \in Task
        /\ kpc[kthread_task] = "freed"
        /\ Oops("freed_task")
     \/ /\ kthread_task \in Task
        /\ kpc[kthread_task] # "freed"
        /\ kpc' = [kpc EXCEPT ![kthread_task] = IF @ = "created" THEN "new" ELSE @]
        /\ should_stop' = should_stop \cup {kthread_task}
        /\ stopping' = [stopping EXCEPT ![a] = kthread_task]
        /\ Goto(a, "wait")
        /\ UNCHANGED <<module, on, kthread_task, ctrl_lock, fault, cause>>

(* ... and waits until the thread is dead. The mutant does not wait.       *)
StopWaitNot(a) ==
  /\ apc[a] = "wait"
  /\ stopping' = [stopping EXCEPT ![a] = NULL]
  /\ Goto(a, "idle")
  /\ UNCHANGED <<module, on, kthread_task, threads, fault, cause>>

StopWait(a) ==
  /\ apc[a] = "wait"
  /\ kpc[stopping[a]] = "dead"
  /\ stopping' = [stopping EXCEPT ![a] = NULL]
  /\ Goto(a, "idle")
  /\ UNCHANGED <<module, on, kthread_task, threads, fault, cause>>

(* A process writes "on" or "off" to ctrl.                                 *)
On(w)  == class_up /\ SetOn(w)
Off(w) == class_up /\ SetOff(w)

InSwitch(a) == Create(a) \/ WakeUp(a) \/ Stop(a) \/ StopWait(a)

-----------------------------------------------------------------------------
(* The thread.                                                             *)

(* The thread's next step is in kthread_function, which is gone. Only one  *)
(* that is new and to be stopped does not get there.                       *)
InModule(t) ==
  /\ kpc[t] \in {"new", "lock", "roll", "sleep"}
  /\ kpc[t] = "new" => t \notin should_stop

KGone(t) ==
  /\ InModule(t)
  /\ lpc = "gone"
  /\ Oops("gone_code")

(* kthread() looks at the flag before it calls kthread_function at all.    *)
KStart(t) ==
  /\ kpc[t] = "new"
  /\ KGoto(t, IF t \in should_stop THEN "dead" ELSE "lock")
  /\ UNCHANGED <<module, control, ctrl_lock, should_stop, fault, cause>>

(* The loop's condition, under the lock. A thread that finds the flag down *)
(* ends by itself; nobody has to have stopped it.                          *)
KLock(t) ==
  /\ kpc[t] = "lock"
  /\ ctrl_lock = Nobody
  /\ \/ on /\ ctrl_lock' = t /\ KGoto(t, "roll") /\ UNCHANGED cause
     \/ ~on /\ KGoto(t, "dead") /\ cause' = cause \cup {"ended_itself"} /\ UNCHANGED ctrl_lock
  /\ UNCHANGED <<module, control, should_stop, fault>>

(* roll_buffer reads the counters, unless micstat_exit releases the event  *)
(* it has just found; then the lock is released.                           *)
KRoll(t) ==
  /\ kpc[t] = "roll"
  /\ \/ /\ ctrl_lock' = Nobody
        /\ KGoto(t, "sleep")
        /\ UNCHANGED <<module, control, should_stop, fault, cause>>
     \/ /\ lpc = "exit_cnt"
        /\ Oops("released_event")

(* The sleep is over.                                                      *)
KWake(t) ==
  /\ kpc[t] = "sleep"
  /\ KGoto(t, IF t \in should_stop THEN "dead" ELSE "lock")
  /\ UNCHANGED <<module, control, ctrl_lock, should_stop, fault, cause>>

(* The kernel frees the task_struct of a dead thread when nobody holds it. *)
Reap(t) ==
  /\ kpc[t] = "dead"
  /\ \A a \in Actor : stopping[a] # t
  /\ KGoto(t, "freed")
  /\ UNCHANGED <<module, control, ctrl_lock, should_stop, fault, cause>>

(* Once no pointer is left to it, a new thread may get it.                 *)
Reuse(t) ==
  /\ kpc[t] = "freed"
  /\ kthread_task # t
  /\ KGoto(t, "none")
  /\ should_stop' = should_stop \ {t}
  /\ UNCHANGED <<module, control, ctrl_lock, fault, cause>>

KRun(t) ==
  /\ lpc = "gone" => ~InModule(t)
  /\ KStart(t) \/ KLock(t) \/ KRoll(t) \/ KWake(t)

Kthread(t) == KGone(t) \/ KRun(t)

-----------------------------------------------------------------------------
(* insmod and rmmod.                                                       *)

(* micstat_init creates the events of one counter, or of some CPUs only;   *)
(* then it releases what it has, from that counter down.                   *)
InitCounter ==
  /\ lpc = "init"
  /\ cnt \in Counter
  /\ events' = events \cup {cnt}
  /\ \/ cnt' = cnt + 1 /\ UNCHANGED lpc
     \/ lpc' = "fail_cnt" /\ UNCHANGED cnt
  /\ UNCHANGED <<class_up, control, threads, fault, cause>>

(* The mutant skips the counter that failed.                               *)
FailCounterBelow ==
  /\ lpc = "fail_cnt"
  /\ \/ cnt > 0 /\ events' = events \ {cnt - 1} /\ cnt' = cnt - 1 /\ UNCHANGED lpc
     \/ cnt = 0 /\ lpc' = "failed" /\ UNCHANGED <<cnt, events>>
  /\ UNCHANGED <<class_up, control, threads, fault, cause>>

FailCounter ==
  /\ lpc = "fail_cnt"
  /\ \/ cnt > 0 /\ events' = events \ {cnt} /\ cnt' = cnt - 1 /\ UNCHANGED lpc
     \/ cnt = 0 /\ lpc' = "failed" /\ UNCHANGED <<cnt, events>>
  /\ UNCHANGED <<class_up, control, threads, fault, cause>>

(* class_register, whose failure nothing is undone for.                    *)
ClassRegister ==
  /\ lpc = "init"
  /\ cnt \notin Counter
  /\ \/ lpc' = "up" /\ class_up' = TRUE /\ UNCHANGED cause
     \/ lpc' = "failed" /\ cause' = cause \cup {"class_failed"} /\ UNCHANGED class_up
  /\ UNCHANGED <<cnt, events, control, threads, fault>>

(* micstat_exit begins with a set_off ...                                  *)
ExitOff ==
  /\ lpc = "up"
  /\ apc[Loader] = "idle"
  /\ ctrl_lock = Nobody
  /\ on' = FALSE
  /\ \/ ~on /\ UNCHANGED <<apc, cause>>
     \/ on /\ Goto(Loader, "stop") /\ cause' = cause \cup Overlap(Loader)
  /\ lpc' = "off"
  /\ UNCHANGED <<cnt, events, class_up, stopping, kthread_task, threads, fault>>

(* ... then removes ctrl, and waits for those who are writing it ...       *)
ExitUnregister ==
  /\ lpc = "off"
  /\ apc[Loader] = "idle"
  /\ class_up' = FALSE
  /\ lpc' = "unregister"
  /\ UNCHANGED <<cnt, events, control, threads, fault, cause>>

ExitUnregistered ==
  /\ lpc = "unregister"
  /\ \A w \in Writer : apc[w] = "idle"
  /\ lpc' = "exit_cnt"
  /\ cnt' = 1
  /\ UNCHANGED <<events, class_up, control, threads, fault, cause>>

(* ... and releases the counters' events.                                  *)
ExitCounter ==
  /\ lpc = "exit_cnt"
  /\ \/ cnt \in Counter /\ events' = events \ {cnt} /\ cnt' = cnt + 1 /\ UNCHANGED lpc
     \/ cnt \notin Counter /\ lpc' = "gone" /\ UNCHANGED <<cnt, events>>
  /\ UNCHANGED <<class_up, control, threads, fault, cause>>

Insmod == InitCounter \/ FailCounter \/ ClassRegister
Rmmod  == ExitUnregister \/ ExitUnregistered \/ ExitCounter

-----------------------------------------------------------------------------
Next ==
  /\ fault = "none"
  /\ \/ \E w \in Writer : On(w) \/ Off(w)
     \/ \E a \in Actor : InSwitch(a)
     \/ \E t \in Task : Kthread(t) \/ Reap(t) \/ Reuse(t)
     \/ Insmod \/ ExitOff \/ Rmmod

Spec == Init /\ [][Next]_vars

(* Threads run, and get ctrl_lock among the others that want it; so does   *)
(* whoever is inside set_on or set_off. Nobody is obliged to write or to   *)
(* unload.                                                                 *)
Fairness ==
  /\ \A t \in Task : WF_vars(fault = "none" /\ (KStart(t) \/ KRoll(t) \/ KWake(t)))
  /\ \A t \in Task : SF_vars(fault = "none" /\ KLock(t))
  /\ \A a \in Actor : WF_vars(fault = "none" /\ InSwitch(a))

FairSpec == Spec /\ Fairness

-----------------------------------------------------------------------------
(* Properties.                                                             *)

TypeOK ==
  /\ lpc \in {"init", "fail_cnt", "failed", "up", "off", "unregister", "exit_cnt", "gone"}
  /\ cnt \in 0 .. NumCnt + 1
  /\ events \subseteq Counter
  /\ class_up \in BOOLEAN
  /\ on \in BOOLEAN
  /\ ctrl_lock \in Task \cup {Nobody}
  /\ apc \in [Actor -> {"idle", "create", "wake", "stop", "wait"}]
  /\ stopping \in [Actor -> Task \cup {NULL}]
  /\ kthread_task \in Task \cup {NULL, ERR_PTR}
  /\ kpc \in [Task -> {"none", "created", "new", "lock", "roll", "sleep", "dead", "freed"}]
  /\ should_stop \subseteq Task
  /\ fault \in {"none", "null_task", "err_task", "freed_task", "gone_code", "released_event"}
  /\ cause \subseteq {"overlap", "late_on", "create_failed", "class_failed", "ended_itself"}

Alive(t) == kpc[t] \in {"created", "new", "lock", "roll", "sleep"}
Without(causes) == cause \cap causes = {}

(* There is one thread at most, unless an on and an off overlapped: then   *)
(* the off may stop the new thread while the old one, which finds the flag *)
(* up again, goes on.                                                      *)
OneSampler ==
  Without({"overlap"}) => \A t, u \in Task : Alive(t) /\ Alive(u) => t = u

(* When off has returned nobody samples any more, with the same exception. *)
OffMeansQuiet ==
  Without({"overlap"}) /\ ~on /\ (\A a \in Actor : apc[a] = "idle") =>
    \A t \in Task : ~Alive(t)

(* kthread_stop is given a task that is not there only if an on and an off *)
(* overlapped, a thread could not be made, or the thread had found the     *)
(* flag down and ended before kthread_stop. No thread outlives its         *)
(* counters' events or the module, unless somebody wrote on while rmmod had*)
(* done its set_off, or an on and an off overlapped.                       *)
FaultHasCause ==
  /\ fault \in {"null_task", "err_task"} => ~Without({"overlap", "create_failed"})
  /\ fault = "freed_task" => ~Without({"overlap", "ended_itself"})
  /\ fault \in {"gone_code", "released_event"} => ~Without({"overlap", "late_on"})

(* No perf event is left behind by a load that failed or by an unload,     *)
(* except that nobody releases them if class_register fails.               *)
NothingLeaked ==
  /\ lpc = "failed" /\ Without({"class_failed"}) => events = {}
  /\ lpc = "gone" => events = {}

(* What makes these inductive. The pool of task_structs:                   *)
PoolInv ==
  /\ kthread_task \in Task => kpc[kthread_task] # "none"
  /\ \A t \in Task : kpc[t] = "none" => t \notin should_stop

(* Unless an on and an off overlapped, one actor at most is inside, which  *)
(* on or off it is shows in the flag, and kthread_task is the one thread.  *)
Busy(a) == apc[a] # "idle"

SwitchInv ==
  Without({"overlap"}) =>
    /\ \A a, b \in Actor : Busy(a) /\ Busy(b) => a = b
    /\ \A a \in Actor : apc[a] \in {"create", "wake"} => on
    /\ \A a \in Actor : apc[a] \in {"stop", "wait"} => ~on
    /\ \A a \in Actor : apc[a] = "wait" => stopping[a] = kthread_task
    /\ \A t \in Task : Alive(t) => kthread_task = t

QuietInv ==
  Without({"overlap"}) =>
    /\ ~on /\ (\A a \in Actor : ~Busy(a)) => \A t \in Task : ~Alive(t)
    /\ (\E a \in Actor : apc[a] = "create") => \A t \in Task : ~Alive(t)

(* A thread that is to be stopped is being waited for; a task that is not  *)
(* there when it is to be stopped never was, or ended by itself.           *)
TaskInv ==
  Without({"overlap"}) =>
    /\ \A t \in should_stop : Alive(t) => \E a \in Actor : apc[a] = "wait"
    /\ on \/ (\E a \in Actor : apc[a] = "stop") =>
         \/ \E a \in Actor : apc[a] = "create"
         \/ kthread_task = ERR_PTR /\ "create_failed" \in cause
         \/ kthread_task \in Task /\ (Alive(kthread_task) \/ "ended_itself" \in cause)

(* How far loading and unloading has got.                                  *)
LoaderInv ==
  /\ apc[Loader] \in {"idle", "stop", "wait"}
  /\ Busy(Loader) => lpc = "off"
  /\ lpc \notin {"up", "off"} => ~class_up
  /\ lpc \in {"init", "fail_cnt", "failed", "exit_cnt", "gone"} =>
       \A a \in Actor : ~Busy(a)
  /\ Without({"overlap", "late_on"}) /\ lpc \in {"off", "unregister"} => ~on
  /\ Without({"overlap", "late_on"}) /\ lpc \in {"exit_cnt", "gone"} =>
       \A t \in Task : ~Alive(t)

(* Which counters have events.                                             *)
EventInv ==
  /\ lpc = "init" => events \subseteq 1 .. cnt - 1
  /\ lpc = "fail_cnt" => events \subseteq 1 .. cnt
  /\ lpc = "exit_cnt" => cnt # 0 /\ events \subseteq cnt .. NumCnt

IInv ==
  /\ TypeOK
  /\ PoolInv
  /\ SwitchInv
  /\ QuietInv
  /\ TaskInv
  /\ LoaderInv
  /\ EventInv
  /\ NothingLeaked
  /\ FaultHasCause

(* off returns, wherever the thread is, once it has begun, unless an on    *)
(* and an off overlapped.                                                  *)
OffReturns ==
  \A a \in Actor :
    apc[a] \in {"stop", "wait"} ~> apc[a] = "idle" \/ fault # "none" \/ "overlap" \in cause
=============================================================================
