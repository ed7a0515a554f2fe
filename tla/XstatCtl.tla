------------------------------ MODULE XstatCtl ------------------------------
(***************************************************************************)
(* Who samples, and when: the ctrl file of the xstat class (start_stat and *)
(* stop_stat under ctrl_lock), the kernel thread of each NUMA node, the    *)
(* registration of the nodes while the module loads and their removal      *)
(* while it unloads, and the readers of stat<n> and last<n> as far as they *)
(* depend on what the threads set up (xstat.c).                            *)
(*                                                                         *)
(* What a thread stores is the subject of XstatBuffer; here stored[n] only *)
(* says that node n's ring holds something.  A kernel oops ends a          *)
(* behaviour: fault names it and nothing happens after it.                 *)
(***************************************************************************)
EXTENDS Integers, FiniteSets

CONSTANTS
  NumNodes,   \* NUMA nodes that are online
  Writer,     \* processes that write to ctrl
  Loader,     \* the process that runs insmod and rmmod
  Task,       \* bound: task_structs there are for the threads
  Nobody,     \* ctrl_lock is free
  NULL        \* no task

ASSUME CtlAssumption ==
  /\ NumNodes \in Nat \ {0}
  /\ Loader \notin Writer
  /\ Nobody \notin Writer \cup {Loader}
  /\ NULL \notin Task

Node  == 1 .. NumNodes
Actor == Writer \cup {Loader}

VARIABLES
  lpc,          \* where the loader is
  class_up,     \* is xstat_class registered, that is, does ctrl exist?
  node,         \* node[n]: what is set up of xstat_nodes[n]
  files,        \* the nodes whose stat, last and reset files exist
  ctrl_lock,    \* the actor that holds ctrl_lock, or Nobody
  ctrl_on,
  apc,          \* apc[a]: where a is in start_stat or stop_stat
  i,            \* i[a]: the node a's loop is at
  spin,         \* spin[a]: the node on whose CPU a spins for ctrl_lock, or 0
  task,         \* task[n]: xstat_nodes[n]->task
  kpc,          \* kpc[t]: where the thread t is
  knode,        \* knode[t]: the node t samples
  should_stop,  \* the threads kthread_stop was called for
  ctxs,         \* ctxs[n]: the node's counter contexts
  stored,       \* the nodes with samples in their ring
  fault,        \* the oops that ended it all
  cause         \* history: what happened that should not have

vars == <<lpc, class_up, node, files, ctrl_lock, ctrl_on, apc, i, spin, task,
          kpc, knode, should_stop, ctxs, stored, fault, cause>>
module  == <<lpc, class_up, node, files>>
switch  == <<ctrl_lock, ctrl_on, apc, i, task>>
control == <<switch, spin>>
threads == <<kpc, knode, should_stop, ctxs, stored>>

Init ==
  /\ lpc = "down"
  /\ class_up = FALSE
  /\ node = [n \in Node |-> "none"]
  /\ files = {}
  /\ ctrl_lock = Nobody
  /\ ctrl_on = FALSE
  /\ apc = [a \in Actor |-> "idle"]
  /\ i = [a \in Actor |-> 1]
  /\ spin = [a \in Actor |-> 0]
  /\ task = [n \in Node |-> NULL]
  /\ kpc = [t \in Task |-> "none"]
  /\ knode = [t \in Task |-> 1]
  /\ should_stop = {}
  /\ ctxs = [n \in Node |-> "none"]
  /\ stored = {}
  /\ fault = "none"
  /\ cause = {}

Oops(kind) ==
  /\ fault' = kind
  /\ UNCHANGED <<module, control, threads, cause>>

-----------------------------------------------------------------------------
(* start_stat and stop_stat, run by a.                                     *)

NextNode(a) == i' = [i EXCEPT ![a] = @ + 1]

(* An "on" is early while xstat_init is still registering nodes, and late  *)
(* once xstat_exit has done its stop_stat.                                 *)
OnCause == IF lpc = "register" THEN {"early_on"}
           ELSE IF lpc \in {"stopping", "remove", "unregister"} THEN {"late_on"}
           ELSE {}

(* start_stat gets the lock; if ctrl_on is set there is nothing to do. The *)
(* mutant does not look.                                                   *)
MayStartAlways == ctrl_lock = Nobody
MayStart == ctrl_lock = Nobody /\ ~ctrl_on

StartStat(a) ==
  /\ apc[a] = "idle"
  /\ MayStart
  /\ ctrl_on' = TRUE
  /\ ctrl_lock' = a
  /\ apc' = [apc EXCEPT ![a] = "start"]
  /\ spin' = [spin EXCEPT ![a] = 0]
  /\ cause' = cause \cup OnCause
  /\ UNCHANGED <<module, i, task, threads, fault>>

(* start_stat and stop_stat pass over a node that is not there.            *)
SkipNode(a) ==
  /\ apc[a] \in {"start", "stop"}
  /\ i[a] \in Node
  /\ node[i[a]] = "none"
  /\ NextNode(a)
  /\ UNCHANGED <<module, ctrl_lock, ctrl_on, apc, spin, task, threads, fault, cause>>

(* kthread_create_on_node, kthread_bind, wake_up_process for node i[a]. It *)
(* is an oops if the node has no mask yet: cpumask_first(NULL).            *)
StartNode(a) ==
  /\ apc[a] = "start"
  /\ i[a] \in Node
  /\ node[i[a]] # "none"
  /\ \/ /\ node[i[a]] = "bare"
        /\ Oops("half_node")
     \/ /\ node[i[a]] # "bare"
        /\ \E t \in Task :
             /\ kpc[t] = "none"
             /\ kpc' = [kpc EXCEPT ![t] = "new"]
             /\ knode' = [knode EXCEPT ![t] = i[a]]
             /\ task' = [task EXCEPT ![i[a]] = t]
        /\ NextNode(a)
        /\ UNCHANGED <<module, ctrl_lock, ctrl_on, apc, spin, should_stop, ctxs, stored,
                       fault, cause>>

(* No thread could be made: start_stat goes on without one.                *)
StartNodeFails(a) ==
  /\ apc[a] = "start"
  /\ i[a] \in Node
  /\ node[i[a]] # "none"
  /\ task' = [task EXCEPT ![i[a]] = NULL]
  /\ NextNode(a)
  /\ cause' = cause \cup {"create_failed"}
  /\ UNCHANGED <<module, ctrl_lock, ctrl_on, apc, spin, threads, fault>>

(* stop_stat gets the lock and finds ctrl_on set.                      *)
StopStat(a) ==
  /\ apc[a] = "idle"
  /\ ctrl_lock = Nobody
  /\ ctrl_on
  /\ ctrl_on' = FALSE
  /\ ctrl_lock' = a
  /\ apc' = [apc EXCEPT ![a] = "stop"]
  /\ spin' = [spin EXCEPT ![a] = 0]
  /\ UNCHANGED <<i, task, threads, fault, cause>>

(* kthread_stop(node->task) raises the flag and waits; it is an oops if    *)
(* there is no task.  The mutant does not wait.                            *)
StopNodeNoWait(a) ==
  /\ apc[a] = "stop"
  /\ i[a] \in Node
  /\ node[i[a]] # "none"
  /\ \/ /\ task[i[a]] = NULL
        /\ Oops("null_task")
     \/ /\ task[i[a]] # NULL
        /\ should_stop' = should_stop \cup {task[i[a]]}
        /\ task' = [task EXCEPT ![i[a]] = NULL]
        /\ NextNode(a)
        /\ UNCHANGED <<module, ctrl_lock, ctrl_on, apc, spin, kpc, knode, ctxs, stored,
                       fault, cause>>

StopNode(a) ==
  /\ apc[a] = "stop"
  /\ i[a] \in Node
  /\ node[i[a]] # "none"
  /\ \/ /\ task[i[a]] = NULL
        /\ Oops("null_task")
     \/ /\ task[i[a]] # NULL
        /\ should_stop' = should_stop \cup {task[i[a]]}
        /\ apc' = [apc EXCEPT ![a] = "wait"]
        /\ UNCHANGED <<module, ctrl_lock, ctrl_on, i, spin, task, kpc, knode, ctxs, stored,
                       fault, cause>>

(* kthread_stop returns when the thread is dead; its task_struct is freed, *)
(* and node->task cleared, which is an oops if the node is gone by now.    *)
StopWait(a) ==
  LET t == task[i[a]] IN
  /\ apc[a] = "wait"
  /\ kpc[t] = "dead"
  /\ \/ /\ node[i[a]] = "none"
        /\ Oops("freed_node")
     \/ /\ node[i[a]] # "none"
        /\ kpc' = [kpc EXCEPT ![t] = "none"]
        /\ should_stop' = should_stop \ {t}
        /\ task' = [task EXCEPT ![i[a]] = NULL]
        /\ apc' = [apc EXCEPT ![a] = "stop"]
        /\ NextNode(a)
        /\ UNCHANGED <<module, ctrl_lock, ctrl_on, spin, knode, ctxs, stored, fault,
                       cause>>

(* The loop is over, and the lock is released.                             *)
LoopDone(a) ==
  /\ apc[a] \in {"start", "stop"}
  /\ i[a] \notin Node
  /\ ctrl_lock' = Nobody
  /\ apc' = [apc EXCEPT ![a] = "idle"]
  /\ i' = [i EXCEPT ![a] = 1]
  /\ UNCHANGED <<module, ctrl_on, spin, task, threads, fault, cause>>

InSection(a) ==
  SkipNode(a) \/ StartNode(a) \/ StartNodeFails(a) \/ StopNode(a) \/ StopWait(a) \/ LoopDone(a)

(* ctrl_lock is a spinlock, held while kthread_create and kthread_stop     *)
(* sleep: whoever finds it taken keeps the CPU it is on until it is free.  *)
(* The CPUs that count are those the threads are bound to, the first one   *)
(* of each node; who spins on another need not be followed.                *)
Spin(a, n) ==
  /\ apc[a] = "idle"
  /\ spin[a] = 0
  /\ ctrl_lock # Nobody
  /\ \A b \in Actor : spin[b] # n
  /\ IF a = Loader THEN lpc = "up" ELSE class_up
  /\ spin' = [spin EXCEPT ![a] = n]
  /\ UNCHANGED <<module, switch, threads, fault, cause>>

(* It gets the lock and has nothing to do there: ctrl is on, or off,       *)
(* already, or it was store_period_attr that wanted the lock.              *)
SpinDone(w) ==
  /\ spin[w] # 0
  /\ ctrl_lock = Nobody
  /\ spin' = [spin EXCEPT ![w] = 0]
  /\ UNCHANGED <<module, switch, threads, fault, cause>>

(* A process writes "on" or "off" to ctrl, or has got there by spinning.   *)
On(w)  == (class_up \/ spin[w] # 0) /\ StartStat(w)
Off(w) == (class_up \/ spin[w] # 0) /\ StopStat(w) /\ UNCHANGED module

-----------------------------------------------------------------------------
(* The threads.                                                            *)

(* What t needs for its next access to node n has been freed, or unloaded. *)
Gone(n) == node[n] = "none" \/ lpc = "gone"

KGoto(t, pc) == kpc' = [kpc EXCEPT ![t] = pc]

(* kthread() looks at the flag before it calls kthread_function at all.    *)
KNeverRan(t) ==
  /\ kpc[t] = "new"
  /\ t \in should_stop
  /\ KGoto(t, "dead")
  /\ UNCHANGED <<module, control, knode, should_stop, ctxs, stored, fault, cause>>

(* init_counters, on a node whose ctxs were allocated.                     *)
KInit(t) ==
  /\ kpc[t] = "new"
  /\ t \notin should_stop
  /\ \/ /\ Gone(knode[t])
        /\ Oops("freed_node")
     \/ /\ ~Gone(knode[t]) /\ node[knode[t]] # "ready"
        /\ Oops("half_node")
     \/ /\ ~Gone(knode[t]) /\ node[knode[t]] = "ready"
        /\ ctxs' = [ctxs EXCEPT ![knode[t]] = "live"]
        /\ KGoto(t, "roll")
        /\ UNCHANGED <<module, control, knode, should_stop, stored, fault, cause>>

(* roll_buffer. The mutant wants ctrl_lock for it, as haswellstat does.    *)
KRollUnderCtrl(t) ==
  /\ kpc[t] = "roll"
  /\ ctrl_lock = Nobody
  /\ \/ /\ Gone(knode[t])
        /\ Oops("freed_node")
     \/ /\ ~Gone(knode[t])
        /\ stored' = stored \cup {knode[t]}
        /\ KGoto(t, "check")
        /\ UNCHANGED <<module, control, knode, should_stop, ctxs, fault, cause>>

KRoll(t) ==
  /\ kpc[t] = "roll"
  /\ \/ /\ Gone(knode[t])
        /\ Oops("freed_node")
     \/ /\ ~Gone(knode[t])
        /\ stored' = stored \cup {knode[t]}
        /\ KGoto(t, "check")
        /\ UNCHANGED <<module, control, knode, should_stop, ctxs, fault, cause>>

(* The two kthread_should_stop of the loop, before and after the sleep.    *)
KCheck(t) ==
  /\ kpc[t] = "check"
  /\ \/ /\ lpc = "gone"
        /\ Oops("freed_node")
     \/ /\ lpc # "gone"
        /\ KGoto(t, IF t \in should_stop THEN "exit" ELSE "sleep")
        /\ UNCHANGED <<module, control, knode, should_stop, ctxs, stored, fault, cause>>

KWake(t) ==
  /\ kpc[t] = "sleep"
  /\ \/ /\ lpc = "gone"
        /\ Oops("freed_node")
     \/ /\ lpc # "gone"
        /\ KGoto(t, IF t \in should_stop THEN "exit" ELSE "roll")
        /\ UNCHANGED <<module, control, knode, should_stop, ctxs, stored, fault, cause>>

(* exit_counters, and the thread is done. The mutant leaves the contexts.  *)
KExitLeaks(t) ==
  /\ kpc[t] = "exit"
  /\ KGoto(t, "dead")
  /\ UNCHANGED <<module, control, knode, should_stop, ctxs, stored, fault, cause>>

KExit(t) ==
  /\ kpc[t] = "exit"
  /\ \/ /\ Gone(knode[t])
        /\ Oops("freed_node")
     \/ /\ ~Gone(knode[t])
        /\ ctxs' = [ctxs EXCEPT ![knode[t]] = "stale"]
        /\ KGoto(t, "dead")
        /\ UNCHANGED <<module, control, knode, should_stop, stored, fault, cause>>

(* A thread is bound to its node's first CPU, and cannot run while         *)
(* somebody spins there.                                                   *)
HasCpu(t) == \A a \in Actor : spin[a] # knode[t]

Kthread(t) ==
  /\ HasCpu(t)
  /\ KNeverRan(t) \/ KInit(t) \/ KRoll(t) \/ KCheck(t) \/ KWake(t) \/ KExit(t)

-----------------------------------------------------------------------------
(* insmod and rmmod.                                                       *)

(* xstat_init up to class_register: from here on ctrl can be written.      *)
ClassRegister ==
  /\ lpc = "down"
  /\ lpc' = "register"
  /\ class_up' = TRUE
  /\ UNCHANGED <<node, files, control, threads, fault, cause>>

(* register_xstat_node publishes the node (or has no memory for it) ...    *)
RegisterNode ==
  /\ lpc = "register"
  /\ i[Loader] \in Node
  /\ node[i[Loader]] = "none"
  /\ \/ /\ node' = [node EXCEPT ![i[Loader]] = "bare"]
        /\ UNCHANGED i
     \/ /\ NextNode(Loader)
        /\ UNCHANGED node
  /\ UNCHANGED <<lpc, class_up, files, ctrl_lock, ctrl_on, apc, spin, task, threads,
                 fault, cause>>

(* ... gives it its mask ...                                               *)
SetMask ==
  /\ lpc = "register"
  /\ i[Loader] \in Node
  /\ node[i[Loader]] = "bare"
  /\ node' = [node EXCEPT ![i[Loader]] = "masked"]
  /\ UNCHANGED <<lpc, class_up, files, control, threads, fault, cause>>

(* ... and its contexts and buffers, and makes its files.  Nobody looks    *)
(* whether there was memory for them.                                      *)
AllocBuffers ==
  /\ lpc = "register"
  /\ i[Loader] \in Node
  /\ node[i[Loader]] = "masked"
  /\ \/ /\ node' = [node EXCEPT ![i[Loader]] = "ready"]
        /\ UNCHANGED cause
     \/ /\ cause' = cause \cup {"alloc_failed"}
        /\ UNCHANGED node
  /\ files' = files \cup {i[Loader]}
  /\ NextNode(Loader)
  /\ UNCHANGED <<lpc, class_up, ctrl_lock, ctrl_on, apc, spin, task, threads, fault>>

Registered ==
  /\ lpc = "register"
  /\ i[Loader] \notin Node
  /\ lpc' = "up"
  /\ i' = [i EXCEPT ![Loader] = 1]
  /\ UNCHANGED <<class_up, node, files, ctrl_lock, ctrl_on, apc, spin, task, threads,
                 fault, cause>>

(* xstat_exit begins with stop_stat: nothing to do unless ctrl_on is set.  *)
(* The mutant removes the nodes without it.                                *)
ExitWithoutStop ==
  /\ lpc = "up"
  /\ ctrl_lock = Nobody
  /\ lpc' = "remove"
  /\ UNCHANGED <<class_up, node, files, control, threads, fault, cause>>

ExitStop ==
  /\ lpc = "up"
  /\ \/ /\ StopStat(Loader)
        /\ lpc' = "stopping"
        /\ UNCHANGED <<class_up, node, files>>
     \/ /\ ctrl_lock = Nobody
        /\ ~ctrl_on
        /\ lpc' = "remove"
        /\ spin' = [spin EXCEPT ![Loader] = 0]
        /\ UNCHANGED <<class_up, node, files, switch, threads, fault, cause>>

Stopped ==
  /\ lpc = "stopping"
  /\ apc[Loader] = "idle"
  /\ lpc' = "remove"
  /\ UNCHANGED <<class_up, node, files, control, threads, fault, cause>>

(* unregister_xstat_node, one node after the other.                        *)
RemoveNode ==
  /\ lpc = "remove"
  /\ i[Loader] \in Node
  /\ node' = [node EXCEPT ![i[Loader]] = "none"]
  /\ files' = files \ {i[Loader]}
  /\ stored' = stored \ {i[Loader]}
  /\ NextNode(Loader)
  /\ UNCHANGED <<lpc, class_up, ctrl_lock, ctrl_on, apc, spin, task, kpc, knode,
                 should_stop, ctxs, fault, cause>>

(* class_unregister removes ctrl, and waits for those who are writing it.  *)
ClassUnregister ==
  /\ lpc = "remove"
  /\ i[Loader] \notin Node
  /\ class_up' = FALSE
  /\ lpc' = "unregister"
  /\ UNCHANGED <<node, files, control, threads, fault, cause>>

Unloaded ==
  /\ lpc = "unregister"
  /\ \A w \in Writer : apc[w] = "idle" /\ spin[w] = 0
  /\ lpc' = "gone"
  /\ UNCHANGED <<class_up, node, files, control, threads, fault, cause>>

Insmod == ClassRegister \/ RegisterNode \/ SetMask \/ AllocBuffers \/ Registered
Rmmod  == Stopped \/ RemoveNode \/ ClassUnregister \/ Unloaded

-----------------------------------------------------------------------------
(* Reads of stat<n> and last<n>, and writes to reset<n>.                   *)

(* show_stat_attr prints while the ring has something; the IPMI counters   *)
(* print through the node's contexts.  It may leave some for the next read,*)
(* which is then the same state.                                           *)
ReadStat(n) ==
  /\ n \in files
  /\ n \in stored
  /\ \/ /\ ctxs[n] = "none"
        /\ Oops("stat_null_ctx")
     \/ /\ ctxs[n] # "none"
        /\ stored' = stored \ {n}
        /\ UNCHANGED <<module, control, kpc, knode, should_stop, ctxs, fault, cause>>

(* show_last_attr prints whether or not there is anything.                 *)
ReadLast(n) ==
  /\ n \in files
  /\ ctxs[n] = "none"
  /\ Oops("last_null_ctx")

Reset(n) ==
  /\ n \in files
  /\ n \in stored
  /\ stored' = stored \ {n}
  /\ UNCHANGED <<module, control, kpc, knode, should_stop, ctxs, fault, cause>>

-----------------------------------------------------------------------------
Next ==
  /\ fault = "none"
  /\ \/ \E w \in Writer : On(w) \/ Off(w)
     \/ \E a \in Actor : InSection(a) \/ \E n \in Node : Spin(a, n)
     \/ \E w \in Writer : SpinDone(w)
     \/ \E t \in Task : Kthread(t)
     \/ Insmod \/ ExitStop \/ Rmmod
     \/ \E n \in Node : ReadStat(n) \/ ReadLast(n) \/ Reset(n)

Spec == Init /\ [][Next]_vars

(* Threads run when they have their CPU, and so does whoever is inside a   *)
(* critical section; who spins gets a lock that stays free; rmmod goes on  *)
(* once it has called stop_stat.  Nobody is obliged to write "on" or       *)
(* "off", to read, or to unload.                                           *)
Fairness ==
  /\ \A t \in Task : WF_vars(fault = "none" /\ Kthread(t))
  /\ \A a \in Actor : WF_vars(fault = "none" /\ InSection(a))
  /\ \A w \in Writer : WF_vars(fault = "none" /\ SpinDone(w))
  /\ WF_vars(fault = "none" /\ Rmmod)

FairSpec == Spec /\ Fairness

-----------------------------------------------------------------------------
(* Properties.                                                             *)

ModuleType ==
  /\ lpc \in {"down", "register", "up", "stopping", "remove", "unregister", "gone"}
  /\ class_up \in BOOLEAN
  /\ node \in [Node -> {"none", "bare", "masked", "ready"}]
  /\ files \subseteq Node

ControlType ==
  /\ ctrl_lock \in Actor \cup {Nobody}
  /\ ctrl_on \in BOOLEAN
  /\ apc \in [Actor -> {"idle", "start", "stop", "wait"}]
  /\ i \in [Actor -> 1 .. NumNodes + 1]
  /\ spin \in [Actor -> 0 .. NumNodes]
  /\ task \in [Node -> Task \cup {NULL}]

ThreadType ==
  /\ kpc \in [Task -> {"none", "new", "roll", "check", "sleep", "exit", "dead"}]
  /\ knode \in [Task -> Node]
  /\ should_stop \subseteq Task
  /\ ctxs \in [Node -> {"none", "live", "stale"}]
  /\ stored \subseteq Node

HistoryType ==
  /\ fault \in {"none", "null_task", "half_node", "freed_node",
                "stat_null_ctx", "last_null_ctx"}
  /\ cause \subseteq {"create_failed", "alloc_failed", "early_on", "late_on"}

TypeOK == ModuleType /\ ControlType /\ ThreadType /\ HistoryType

Alive(t) == kpc[t] \notin {"none", "dead"}

(* No node is ever sampled by two threads at once, whatever processes      *)
(* write to ctrl and however that meets loading and unloading: they would  *)
(* share working_buf and the counter contexts, which no lock protects.     *)
OneSampler ==
  \A t, u \in Task : Alive(t) /\ Alive(u) /\ knode[t] = knode[u] => t = u

(* A thread never reads counters whose contexts another thread has set up  *)
(* again, or has released, underneath it.                                  *)
OwnContexts ==
  \A t \in Task :
    kpc[t] \in {"roll", "check", "sleep", "exit"} /\ ~Gone(knode[t]) => ctxs[knode[t]] = "live"

(* When "off" has returned nobody samples any more, and no context is left *)
(* allocated - unless somebody wrote "on" while the module was unloading.  *)
OffMeansQuiet ==
  ~ctrl_on /\ ctrl_lock = Nobody /\ "late_on" \notin cause =>
    /\ \A t \in Task : ~Alive(t)
    /\ \A n \in Node : ctxs[n] # "live"

(* Nothing oopses without one of four causes.  kthread_stop gets a null    *)
(* task only after a thread could not be made or an "on" came while nodes  *)
(* were registered; a half set-up node is met only after an allocation     *)
(* nobody checked or such an "on"; a node is freed, or the code unloaded,  *)
(* under a thread or a writer only after an "on" behind rmmod's stop_stat. *)
(* show_stat_attr never prints through contexts that were not set up.      *)
FaultHasCause ==
  /\ fault = "null_task"  => cause \cap {"create_failed", "early_on"} # {}
  /\ fault = "half_node"  => cause \cap {"alloc_failed", "early_on"} # {}
  /\ fault = "freed_node" => "late_on" \in cause
  /\ fault # "stat_null_ctx"

-----------------------------------------------------------------------------
(* What makes these invariants inductive.                                  *)

Exists(t)  == kpc[t] # "none"
Present(n) == node[n] # "none"
Running(t) == kpc[t] \in {"roll", "check", "sleep", "exit"}
Without(causes) == cause \cap causes = {}

(* Whoever is inside start_stat or stop_stat has ctrl_lock, and its loop   *)
(* began at the first node; the loader is there only to stop.              *)
LockInv ==
  /\ \A a \in Actor : apc[a] # "idle" => ctrl_lock = a
  /\ \A w \in Writer : apc[w] = "idle" => i[w] = 1
  /\ apc[Loader] # "idle" => lpc = "stopping" /\ apc[Loader] # "start"
  /\ lpc \in {"down", "up"} => i[Loader] = 1
  /\ lpc = "stopping" /\ apc[Loader] = "idle" => i[Loader] = 1
  /\ ctrl_lock # Nobody => apc[ctrl_lock] # "idle"

(* ctrl is there from class_register to class_unregister, and nobody who   *)
(* writes it is left when that has returned.                               *)
ClassInv ==
  /\ class_up <=> lpc \in {"register", "up", "stopping", "remove"}
  /\ lpc \in {"down", "gone"} => \A w \in Writer : spin[w] = 0

(* A node that is there and the thread that samples it know each other; a  *)
(* node that is not there yet knows none; no node has two.                 *)
TaskInv ==
  /\ \A t \in Task : Exists(t) /\ Present(knode[t]) => task[knode[t]] = t
  /\ \A n \in Node : Present(n) /\ task[n] # NULL => Exists(task[n]) /\ knode[task[n]] = n
  /\ \A n \in Node : lpc \in {"down", "register"} /\ ~Present(n) => task[n] = NULL
  /\ \A t \in Task : lpc \in {"down", "register"} /\ Exists(t) => Present(knode[t])
  /\ \A t, u \in Task : Exists(t) /\ Exists(u) /\ knode[t] = knode[u] => t = u

(* Where start_stat and stop_stat have got to.                             *)
SwitchInv ==
  /\ \A a \in Actor : apc[a] = "start" =>
       ctrl_on /\ \A n \in Node : n >= i[a] /\ Present(n) => task[n] = NULL
  /\ \A a \in Actor : apc[a] \in {"stop", "wait"} =>
       ~ctrl_on /\ \A n \in Node : n < i[a] /\ Present(n) => task[n] = NULL
  /\ \A a \in Actor : apc[a] = "wait" =>
       /\ i[a] \in Node /\ task[i[a]] \in Task
       /\ Exists(task[i[a]]) /\ knode[task[i[a]]] = i[a]
  /\ ~ctrl_on /\ ctrl_lock = Nobody => \A n \in Node : Present(n) => task[n] = NULL

(* Contexts are alive as long as their thread, and what is stored is       *)
(* printed through contexts that were set up.                              *)
ContextInv ==
  /\ \A t \in Task : Running(t) /\ Present(knode[t]) => ctxs[knode[t]] = "live"
  /\ \A n \in Node : n \in stored => ctxs[n] # "none"
  /\ Without({"late_on"}) =>
       \A n \in Node : ctxs[n] = "live" => \E t \in Task : Running(t) /\ knode[t] = n

(* What the loader relies on, if nobody writes "on" at a wrong time.       *)
LoadInv ==
  Without({"early_on"}) /\ lpc \in {"down", "register"} =>
    /\ ~ctrl_on /\ ctrl_lock = Nobody
    /\ \A t \in Task : ~Exists(t)

UnloadInv ==
  Without({"late_on"}) =>
    /\ \A t \in Task : Exists(t) => ~Gone(knode[t])
    /\ lpc \in {"stopping", "remove", "unregister", "gone"} => ~ctrl_on
    /\ lpc = "stopping" => ctrl_lock \in {Nobody, Loader}
    /\ lpc \in {"remove", "unregister", "gone"} => ctrl_lock = Nobody

ReadyInv ==
  Without({"alloc_failed", "early_on"}) =>
    \A n \in Node : node[n] \in {"bare", "masked"} => lpc = "register" /\ n = i[Loader]

(* Every node that is there has its thread, if each could be made and none *)
(* was registered too late.                                                *)
ThreadInv ==
  Without({"create_failed", "early_on"}) =>
    /\ ctrl_on /\ ctrl_lock = Nobody => \A n \in Node : Present(n) => task[n] # NULL
    /\ \A a \in Actor : apc[a] = "start" =>
         \A n \in Node : n < i[a] /\ Present(n) => task[n] # NULL
    /\ \A a \in Actor : apc[a] \in {"stop", "wait"} =>
         \A n \in Node : n >= i[a] /\ Present(n) => task[n] # NULL

IInv ==
  /\ TypeOK
  /\ LockInv
  /\ ClassInv
  /\ TaskInv
  /\ SwitchInv
  /\ ContextInv
  /\ LoadInv
  /\ UnloadInv
  /\ ReadyInv
  /\ ThreadInv
  /\ FaultHasCause

-----------------------------------------------------------------------------
(* a waits for a thread whose CPU is kept by somebody who spins for the    *)
(* lock that a holds: neither will ever go on.                             *)
Stuck(a) ==
  /\ apc[a] = "wait"
  /\ Alive(task[i[a]])
  /\ \E b \in Actor : spin[b] = i[a]

(* "off" returns: the threads it waits for see the flag wherever they are, *)
(* and none waits for anything that is behind ctrl_lock - unless another   *)
(* process that wants ctrl_lock took such a thread's CPU in the meantime.  *)
OffReturns ==
  \A a \in Actor :
    apc[a] \in {"stop", "wait"} ~> apc[a] = "idle" \/ fault # "none" \/ Stuck(a)

(* rmmod returns once it has got ctrl_lock for its stop_stat, with the     *)
(* same exception: then it, or a writer it waits for, is stuck.            *)
UnloadReturns ==
  lpc \in {"stopping", "remove"} ~>
    lpc = "gone" \/ fault # "none" \/ \E a \in Actor : Stuck(a)
=============================================================================
