------------------------------- MODULE MicCtl -------------------------------
(***************************************************************************)
(* Who samples, and when, in micstat. No lock guards the flag `on`: set_on *)
(* and set_off look at it, work, and set it afterwards. set_off stops the  *)
(* thread while the flag is still up. micstat_exit stops kthread_task      *)
(* whether or not there is a thread, and leaves its class registered.      *)
(*                                                                         *)
(* A kernel oops ends a behaviour: fault names it. See StatCtl for the     *)
(* other drivers, and for counters one by one; here they are one.          *)
(***************************************************************************)
EXTENDS Integers, FiniteSets

CONSTANTS
  Writer,     \* processes that write to ctrl
  Loader,     \* the process that runs insmod and rmmod
  Task,       \* bound: task_structs there are for the threads
  NULL,       \* what kthread_task is at first
  ERR_PTR     \* what kthread_create returns when it fails

ASSUME MicAssumption ==
  /\ Loader \notin Writer
  /\ NULL # ERR_PTR
  /\ Task \cap {NULL, ERR_PTR} = {}

Actor == Writer \cup {Loader}

VARIABLES
  lpc,          \* where the loader is
  events,       \* are there perf events?
  on,
  apc,          \* apc[a]: where a is in micstat_store_ctrl or timer_cleanup
  stopping,     \* stopping[a]: the task a called kthread_stop for
  kthread_task,
  kpc,          \* kpc[t]: where the thread t is
  should_stop,  \* the threads kthread_stop was called for
  fault,        \* the oops that ended it all
  cause         \* history: what happened that should not have

vars == <<lpc, events, on, apc, stopping, kthread_task, kpc, should_stop, fault, cause>>
module  == <<lpc, events>>
control == <<on, apc, stopping, kthread_task>>
threads == <<kpc, should_stop>>

Init ==
  /\ lpc = "init"
  /\ events = FALSE
  /\ on = FALSE
  /\ apc = [a \in Actor |-> "idle"]
  /\ stopping = [a \in Actor |-> NULL]
  /\ kthread_task = NULL
  /\ kpc = [t \in Task |-> "none"]
  /\ should_stop = {}
  /\ fault = "none"
  /\ cause = {}

Oops(kind) ==
  /\ fault' = kind
  /\ UNCHANGED <<module, control, threads, cause>>

Goto(a, pc) == apc' = [apc EXCEPT ![a] = pc]
KGoto(t, pc) == kpc' = [kpc EXCEPT ![t] = pc]

-----------------------------------------------------------------------------
(* micstat_store_ctrl, run by w.                                           *)

(* The file ctrl is there from micstat_init on, for ever.                  *)
Writable == lpc \notin {"init", "failed"}

(* A write that comes while another is at work overlaps it; it is late     *)
(* once micstat_exit has begun.                                            *)
Overlap(a) == IF \E b \in Actor \ {a} : apc[b] # "idle" THEN {"overlap"} ELSE {}
Late == IF lpc # "up" THEN {"late_write"} ELSE {}

(* "on": nothing if the flag is up ... The mutant does not look.           *)
OnAlways(w) ==
  /\ Writable
  /\ apc[w] = "idle"
  /\ Goto(w, "set")
  /\ cause' = cause \cup Overlap(w) \cup Late
  /\ UNCHANGED <<module, on, stopping, kthread_task, threads, fault>>

On(w) ==
  /\ Writable
  /\ apc[w] = "idle"
  /\ ~on
  /\ Goto(w, "set")
  /\ cause' = cause \cup Overlap(w) \cup Late
  /\ UNCHANGED <<module, on, stopping, kthread_task, threads, fault>>

(* ... else the counters are reset and the flag goes up ...                *)
Set(w) ==
  /\ apc[w] = "set"
  /\ on' = TRUE
  /\ Goto(w, "create")
  /\ UNCHANGED <<module, stopping, kthread_task, threads, fault, cause>>

(* ... and timer_start makes the thread. sched_setscheduler follows the    *)
(* pointer before it is tested.                                            *)
Create(w) ==
  /\ apc[w] = "create"
  /\ \/ \E t \in Task :
          /\ kpc[t] = "none"
          /\ kthread_task' = t
          /\ KGoto(t, "created")
     \/ kthread_task' = ERR_PTR /\ UNCHANGED kpc
  /\ Goto(w, "schedule")
  /\ UNCHANGED <<module, on, stopping, should_stop, fault, cause>>

(* Both this and the next step take kthread_task as it is by then.         *)
Schedule(w) ==
  /\ apc[w] = "schedule"
  /\ \/ kthread_task = ERR_PTR /\ Oops("err_task")
     \/ /\ kthread_task \in Task
        /\ kpc[kthread_task] = "freed"
        /\ Oops("freed_task")
     \/ /\ kthread_task \in Task
        /\ kpc[kthread_task] # "freed"
        /\ Goto(w, "wake")
        /\ UNCHANGED <<module, on, stopping, kthread_task, threads, fault, cause>>

WakeUp(w) ==
  /\ apc[w] = "wake"
  /\ \/ /\ kthread_task = ERR_PTR
        /\ Goto(w, "idle")
        /\ UNCHANGED <<module, on, stopping, kthread_task, threads, fault, cause>>
     \/ /\ kthread_task \in Task
        /\ kpc[kthread_task] = "freed"
        /\ Oops("freed_task")
     \/ /\ kthread_task \in Task
        /\ kpc[kthread_task] # "freed"
        /\ kpc' = [kpc EXCEPT ![kthread_task] = IF @ = "created" THEN "new" ELSE @]
        /\ Goto(w, "idle")
        /\ UNCHANGED <<module, on, stopping, kthread_task, should_stop, fault, cause>>

(* "off": set_off stops the thread if the flag is up.                      *)
Off(w) ==
  /\ Writable
  /\ apc[w] = "idle"
  /\ Goto(w, IF on THEN "stop" ELSE "lower")
  /\ cause' = cause \cup Overlap(w) \cup Late
  /\ UNCHANGED <<module, on, stopping, kthread_task, threads, fault>>

(* timer_cleanup, of off or of rmmod: kthread_stop(kthread_task) ...       *)
Stop(a) ==
  /\ apc[a] = "stop"
  /\ \/ kthread_task = NULL    /\ Oops("null_task")
     \/ kthread_task = ERR_PTR /\ Oops("err_task")
     \/ /\ kthread_task \in Task
        /\ kpc[kthread_task] = "freed"
        /\ Oops("freed_task")
     \/ /\ kthread_task \in Task
        /\ kpc[kthread_task] # "freed"
        /\ kpc' = [kpc EXCEPT ![kthread_task] = IF @ = "created" THEN "new" ELSE @]
        /\ should_stop' = should_stop \cup {kthread_task}
        /\ stopping' = [stopping EXCEPT ![a] = kthread_task]
        /\ Goto(a, "wait")
        /\ UNCHANGED <<module, on, kthread_task, fault, cause>>

(* ... and waits until the thread is dead. The mutant does not wait.       *)
AfterStop(a) == IF a = Loader THEN "idle" ELSE "lower_first"

StopWaitNot(a) ==
  /\ apc[a] = "wait"
  /\ stopping' = [stopping EXCEPT ![a] = NULL]
  /\ Goto(a, AfterStop(a))
  /\ UNCHANGED <<module, on, kthread_task, threads, fault, cause>>

StopWait(a) ==
  /\ apc[a] = "wait"
  /\ kpc[stopping[a]] = "dead"
  /\ stopping' = [stopping EXCEPT ![a] = NULL]
  /\ Goto(a, AfterStop(a))
  /\ UNCHANGED <<module, on, kthread_task, threads, fault, cause>>

(* The flag goes down in set_off and, in any case, in micstat_store_ctrl.  *)
Lower(w) ==
  /\ \/ apc[w] = "lower_first" /\ Goto(w, "lower")
     \/ apc[w] = "lower" /\ Goto(w, "idle")
  /\ on' = FALSE
  /\ UNCHANGED <<module, stopping, kthread_task, threads, fault, cause>>

(* Whoever writes, or still is at it, when the module is gone.             *)
WriteGone(w) ==
  /\ lpc = "gone"
  /\ Oops("gone_ctrl")

Write(w) ==
  /\ lpc # "gone"
  /\ On(w) \/ Off(w) \/ Set(w) \/ Create(w) \/ Schedule(w) \/ WakeUp(w) \/ Lower(w)

InStop(a) == lpc # "gone" /\ (Stop(a) \/ StopWait(a))

-----------------------------------------------------------------------------
(* The thread.                                                             *)

(* The thread's next step is in kthread_function, which is gone.           *)
InModule(t) ==
  /\ kpc[t] \in {"new", "look", "roll", "sleep"}
  /\ kpc[t] = "new" => t \notin should_stop

KGone(t) ==
  /\ InModule(t)
  /\ lpc = "gone"
  /\ Oops("gone_code")

(* kthread() looks at the flag before it calls kthread_function at all.    *)
KStart(t) ==
  /\ kpc[t] = "new"
  /\ KGoto(t, IF t \in should_stop THEN "dead" ELSE "look")
  /\ UNCHANGED <<module, control, should_stop, fault, cause>>

(* The loop's condition: a thread that finds the flag down ends by itself. *)
KLook(t) ==
  /\ kpc[t] = "look"
  /\ KGoto(t, IF on THEN "roll" ELSE "dead")
  /\ UNCHANGED <<module, control, should_stop, fault, cause>>

(* roll_buffer reads the counters, unless micstat_exit releases the event  *)
(* it has just found.                                                      *)
KRoll(t) ==
  /\ kpc[t] = "roll"
  /\ \/ KGoto(t, "sleep") /\ UNCHANGED <<module, control, should_stop, fault, cause>>
     \/ lpc = "exit_cnt" /\ Oops("released_event")

KWake(t) ==
  /\ kpc[t] = "sleep"
  /\ KGoto(t, IF t \in should_stop THEN "dead" ELSE "look")
  /\ UNCHANGED <<module, control, should_stop, fault, cause>>

KRun(t) ==
  /\ lpc = "gone" => ~InModule(t)
  /\ KStart(t) \/ KLook(t) \/ KRoll(t) \/ KWake(t)

(* The kernel frees a dead thread's task_struct when nobody holds it, and  *)
(* may use it again once no pointer is left to it.                         *)
Reap(t) ==
  /\ kpc[t] = "dead"
  /\ \A a \in Actor : stopping[a] # t
  /\ KGoto(t, "freed")
  /\ UNCHANGED <<module, control, should_stop, fault, cause>>

Reuse(t) ==
  /\ kpc[t] = "freed"
  /\ kthread_task # t
  /\ KGoto(t, "none")
  /\ should_stop' = should_stop \ {t}
  /\ UNCHANGED <<module, control, fault, cause>>

-----------------------------------------------------------------------------
(* insmod and rmmod.                                                       *)

(* micstat_init: if the counters fail they are released again; if the class*)
(* does, they are not.                                                     *)
Insmod ==
  /\ lpc = "init"
  /\ \/ lpc' = "up" /\ events' = TRUE
     \/ lpc' = "failed" /\ UNCHANGED events
     \/ lpc' = "failed" /\ events' = TRUE
  /\ UNCHANGED <<control, threads, fault, cause>>

(* micstat_exit stops the thread; there is one only if the flag is up. The *)
(* mutant lets it run.                                                     *)
ExitStopNot ==
  /\ lpc = "up"
  /\ lpc' = "stop"
  /\ cause' = cause \cup Overlap(Loader) \cup (IF on THEN {} ELSE {"exit_off"})
  /\ UNCHANGED <<events, control, threads, fault>>

ExitStop ==
  /\ lpc = "up"
  /\ lpc' = "stop"
  /\ Goto(Loader, "stop")
  /\ cause' = cause \cup Overlap(Loader) \cup (IF on THEN {} ELSE {"exit_off"})
  /\ UNCHANGED <<events, on, stopping, kthread_task, threads, fault>>

(* Then it releases the events, one after the other, and that is all.      *)
ExitCounters ==
  /\ lpc = "stop"
  /\ apc[Loader] = "idle"
  /\ lpc' = "exit_cnt"
  /\ UNCHANGED <<events, control, threads, fault, cause>>

ExitDone ==
  /\ lpc = "exit_cnt"
  /\ lpc' = "gone"
  /\ events' = FALSE
  /\ UNCHANGED <<control, threads, fault, cause>>

-----------------------------------------------------------------------------
Next ==
  /\ fault = "none"
  /\ \/ \E w \in Writer : Write(w) \/ WriteGone(w)
     \/ \E a \in Actor : InStop(a)
     \/ \E t \in Task : KGone(t) \/ KRun(t) \/ Reap(t) \/ Reuse(t)
     \/ Insmod \/ ExitStop \/ ExitCounters \/ ExitDone

Spec == Init /\ [][Next]_vars

-----------------------------------------------------------------------------
(* Properties.                                                             *)

TypeOK ==
  /\ lpc \in {"init", "failed", "up", "stop", "exit_cnt", "gone"}
  /\ events \in BOOLEAN
  /\ on \in BOOLEAN
  /\ apc \in [Actor -> {"idle", "set", "create", "schedule", "wake", "stop", "wait",
                        "lower_first", "lower"}]
  /\ stopping \in [Actor -> Task \cup {NULL}]
  /\ kthread_task \in Task \cup {NULL, ERR_PTR}
  /\ kpc \in [Task -> {"none", "created", "new", "look", "roll", "sleep", "dead", "freed"}]
  /\ should_stop \subseteq Task
  /\ fault \in {"none", "null_task", "err_task", "freed_task", "gone_code", "gone_ctrl", "released_event"}
  /\ cause \subseteq {"overlap", "late_write", "exit_off"}

Alive(t) == kpc[t] \in {"created", "new", "look", "roll", "sleep"}
Without(causes) == cause \cap causes = {}

(* As long as writes of ctrl do not overlap, there is one thread at most,  *)
(* and none when off has returned. The flag alone, read before it is set,  *)
(* does not see to it.                                                     *)
OneSampler ==
  Without({"overlap"}) => \A t, u \in Task : Alive(t) /\ Alive(u) => t = u

OffMeansQuiet ==
  Without({"overlap"}) /\ ~on /\ (\A a \in Actor : apc[a] = "idle") =>
    \A t \in Task : ~Alive(t)

(* kthread_stop is given a task that is there, unless writes overlap, come *)
(* after rmmod began, or rmmod comes while sampling is off; and no thread  *)
(* outlives its events or the module but for one of the first two. (That a *)
(* thread cannot be made, and that ctrl outlives the module, are faults of *)
(* their own: err_task and gone_ctrl.)                                     *)
FaultHasCause ==
  /\ fault \in {"null_task", "freed_task"} => ~Without({"overlap", "late_write", "exit_off"})
  /\ fault \in {"released_event", "gone_code"} => ~Without({"overlap", "late_write"})

(* What makes these inductive. The pool of task_structs:                   *)
PoolInv ==
  /\ kthread_task \in Task => kpc[kthread_task] # "none"
  /\ \A t \in Task : kpc[t] = "none" => t \notin should_stop

(* Unless writes overlap, one actor at most is inside, the flag shows how  *)
(* far it is, and the one thread there may be is kthread_task, while the   *)
(* flag is up.                                                             *)
Busy(a) == apc[a] # "idle"

SwitchInv ==
  Without({"overlap"}) =>
    /\ \A a, b \in Actor : Busy(a) /\ Busy(b) => a = b
    /\ \A a \in Actor : apc[a] \in {"set", "lower"} => ~on
    /\ \A a \in Actor : apc[a] \in {"create", "schedule", "wake"} => on
    /\ \A a \in Actor : apc[a] = "wait" => stopping[a] = kthread_task
    /\ \A t \in Task : Alive(t) => on /\ kthread_task = t
    /\ (\E a \in Actor : apc[a] \in {"create", "lower_first"}) => \A t \in Task : ~Alive(t)

(* While the flag is up there is a thread, but for the moments before it is*)
(* made and after it was stopped; and who stops one was told to by the flag*)
(* or has exit_off as its cause.                                           *)
Due ==
  /\ on
  /\ lpc = "up"
  /\ \A a \in Actor : apc[a] \notin {"create", "wait", "lower_first"}

TaskInv ==
  Without({"overlap", "late_write", "exit_off"}) =>
    /\ \A t \in should_stop : Alive(t) => \E a \in Actor : apc[a] = "wait"
    /\ Due \/ (\E a \in Actor : apc[a] = "stop") =>
         \/ kthread_task \in Task /\ Alive(kthread_task)
         \/ kthread_task = ERR_PTR /\ \E a \in Actor : apc[a] = "schedule"

(* How far loading and unloading has got.                                  *)
LoaderInv ==
  /\ apc[Loader] \in {"idle", "stop", "wait"}
  /\ Busy(Loader) => lpc = "stop"
  /\ lpc \in {"init", "failed"} => ~on /\ \A a \in Actor : ~Busy(a)
  /\ Without({"overlap", "late_write"}) =>
       /\ lpc # "up" => \A w \in Writer : ~Busy(w)
       /\ lpc \in {"exit_cnt", "gone"} \/ (lpc = "stop" /\ ~Busy(Loader)) =>
            \A t \in Task : ~Alive(t)

IInv == TypeOK /\ PoolInv /\ SwitchInv /\ TaskInv /\ LoaderInv /\ FaultHasCause
=============================================================================
