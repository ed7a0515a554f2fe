--------------------------- MODULE XstatCtlProofs ---------------------------
(***************************************************************************)
(* Proofs about XstatCtl, for any number of nodes and of processes.        *)
(***************************************************************************)
EXTENDS XstatCtl, TLAPS

-----------------------------------------------------------------------------
(* Types.                                                                  *)

LEMMA InitType == Init => TypeOK
<1> SUFFICES ASSUME Init PROVE TypeOK
  OBVIOUS
<1>1. 1 \in Node /\ 1 \in 1 .. NumNodes + 1 /\ 0 \in 0 .. NumNodes
  BY CtlAssumption DEF Node
<1>2. ModuleType
  BY DEF Init, ModuleType
<1>3. ControlType
  BY <1>1 DEF Init, ControlType
<1>4. ThreadType
  BY <1>1 DEF Init, ThreadType
<1>5. HistoryType
  BY DEF Init, HistoryType
<1> QED
  BY <1>2, <1>3, <1>4, <1>5 DEF TypeOK

(* A step that leaves the variables of a part alone keeps its type.        *)
LEMMA TypeFrame ==
  ASSUME TypeOK
  PROVE  /\ UNCHANGED module => ModuleType'
         /\ UNCHANGED control => ControlType'
         /\ UNCHANGED threads => ThreadType'
         /\ UNCHANGED <<fault, cause>> => HistoryType'
<1>1. UNCHANGED module => ModuleType'
  BY DEF TypeOK, ModuleType, module
<1>2. UNCHANGED control => ControlType'
  BY DEF TypeOK, ControlType, control, switch
<1>3. UNCHANGED threads => ThreadType'
  BY DEF TypeOK, ThreadType, threads
<1>4. UNCHANGED <<fault, cause>> => HistoryType'
  BY DEF TypeOK, HistoryType
<1> QED
  BY <1>1, <1>2, <1>3, <1>4

(* The loops of start_stat, stop_stat and xstat_init stay within bounds.   *)
LEMMA NextNodeType ==
  ASSUME TypeOK, NEW a \in Actor, i[a] \in Node, NextNode(a)
  PROVE  i' \in [Actor -> 1 .. NumNodes + 1]
  BY CtlAssumption DEF TypeOK, ControlType, NextNode, Node

(* An oops is a step like any other.                                       *)
LEMMA OopsType ==
  ASSUME TypeOK, NEW kind \in {"null_task", "half_node", "freed_node",
                               "stat_null_ctx", "last_null_ctx"},
         Oops(kind)
  PROVE  TypeOK'
<1>1. HistoryType'
  BY DEF Oops, TypeOK, HistoryType
<1> QED
  BY <1>1, TypeFrame DEF Oops, TypeOK

(* Whoever has ctrl_lock has stopped spinning.                             *)
LEMMA SpinType ==
  ASSUME TypeOK, NEW a \in Actor, spin' = [spin EXCEPT ![a] = 0]
  PROVE  spin' \in [Actor -> 0 .. NumNodes]
<1>1. 0 \in 0 .. NumNodes
  BY CtlAssumption
<1> QED BY <1>1 DEF TypeOK, ControlType

LEMMA ActorType ==
  ASSUME TypeOK, SwitchInv, NEW a \in Actor,
         \/ StartStat(a) /\ UNCHANGED module
         \/ StopStat(a) /\ UNCHANGED module
         \/ InSection(a)
  PROVE  TypeOK'
<1>1. CASE StartStat(a)
  <2>1. ControlType'
    <3>1. spin' \in [Actor -> 0 .. NumNodes]
      BY <1>1, SpinType DEF StartStat
    <3> QED BY <1>1, <3>1 DEF StartStat, TypeOK, ControlType
  <2>2. HistoryType'
    BY <1>1 DEF StartStat, OnCause, TypeOK, HistoryType
  <2> QED BY <1>1, <2>1, <2>2, TypeFrame DEF StartStat, TypeOK
<1>2. CASE StopStat(a) /\ UNCHANGED module
  <2>1. ControlType'
    <3>1. spin' \in [Actor -> 0 .. NumNodes]
      BY <1>2, SpinType DEF StopStat
    <3> QED BY <1>2, <3>1 DEF StopStat, TypeOK, ControlType
  <2> QED BY <1>2, <2>1, TypeFrame DEF StopStat, TypeOK
<1>3. CASE SkipNode(a)
  <2>1. ControlType'
    BY <1>3, NextNodeType DEF SkipNode, TypeOK, ControlType
  <2> QED BY <1>3, <2>1, TypeFrame DEF SkipNode, TypeOK
<1>4. CASE StartNode(a)
  <2>1. CASE Oops("half_node")
    BY <2>1, OopsType
  <2>2. ASSUME NEW t \in Task,
               kpc' = [kpc EXCEPT ![t] = "new"],
               knode' = [knode EXCEPT ![t] = i[a]],
               task' = [task EXCEPT ![i[a]] = t],
               NextNode(a), i[a] \in Node,
               UNCHANGED <<module, ctrl_lock, ctrl_on, apc, spin, should_stop, ctxs, stored,
                           fault, cause>>
        PROVE  TypeOK'
    <3>1. ControlType'
      <4>1. i' \in [Actor -> 1 .. NumNodes + 1]
        BY <2>2, NextNodeType
      <4> QED BY <2>2, <4>1 DEF TypeOK, ControlType
    <3>2. ThreadType'
      BY <2>2 DEF TypeOK, ThreadType
    <3> QED BY <2>2, <3>1, <3>2, TypeFrame DEF TypeOK
  <2> QED BY <1>4, <2>1, <2>2 DEF StartNode
<1>5. CASE StartNodeFails(a)
  <2>1. ControlType'
    BY <1>5, NextNodeType DEF StartNodeFails, TypeOK, ControlType
  <2>2. HistoryType'
    BY <1>5 DEF StartNodeFails, TypeOK, HistoryType
  <2> QED BY <1>5, <2>1, <2>2, TypeFrame DEF StartNodeFails, TypeOK
<1>6. CASE StopNode(a)
  <2>1. CASE Oops("null_task")
    BY <2>1, OopsType
  <2>2. CASE ~Oops("null_task")
    <3>1. ControlType'
      BY <1>6, <2>2 DEF StopNode, TypeOK, ControlType
    <3>2. ThreadType'
      BY <1>6, <2>2 DEF StopNode, TypeOK, ControlType, ThreadType
    <3> QED BY <1>6, <2>2, <3>1, <3>2, TypeFrame DEF StopNode, TypeOK
  <2> QED BY <2>1, <2>2
<1>7. CASE StopWait(a)
  <2>1. CASE Oops("freed_node")
    BY <2>1, OopsType
  <2>2. CASE ~Oops("freed_node")
    <3>1. i[a] \in Node /\ task[i[a]] \in Task
      BY <1>7 DEF StopWait, SwitchInv
    <3>2. ControlType'
      BY <1>7, <2>2, <3>1, NextNodeType DEF StopWait, TypeOK, ControlType
    <3>3. ThreadType'
      BY <1>7, <2>2, <3>1 DEF StopWait, TypeOK, ThreadType
    <3> QED BY <1>7, <2>2, <3>2, <3>3, TypeFrame DEF StopWait, TypeOK
  <2> QED BY <2>1, <2>2
<1>8. CASE LoopDone(a)
  <2>1. ControlType'
    BY <1>8, CtlAssumption DEF LoopDone, TypeOK, ControlType
  <2> QED BY <1>8, <2>1, TypeFrame DEF LoopDone, TypeOK
<1> QED
  BY <1>1, <1>2, <1>3, <1>4, <1>5, <1>6, <1>7, <1>8 DEF InSection

LEMMA ThreadStepType ==
  ASSUME TypeOK, NEW t \in Task, Kthread(t)
  PROVE  TypeOK'
<1>1. CASE \E kind \in {"half_node", "freed_node"} : Oops(kind)
  BY <1>1, OopsType
<1>2. CASE ~ \E kind \in {"half_node", "freed_node"} : Oops(kind)
  <2>1. UNCHANGED <<module, control, knode, should_stop, fault, cause>>
    BY <1>2 DEF Kthread, KNeverRan, KInit, KRoll, KCheck, KWake, KExit
  <2>2. knode[t] \in Node /\ \E pc \in {"roll", "check", "sleep", "exit", "dead"} : KGoto(t, pc)
    BY <1>2 DEF Kthread, KNeverRan, KInit, KRoll, KCheck, KWake, KExit, TypeOK, ThreadType
  <2>3. /\ ctxs' = ctxs \/ \E v \in {"live", "stale"} : ctxs' = [ctxs EXCEPT ![knode[t]] = v]
        /\ stored' = stored \/ stored' = stored \cup {knode[t]}
    BY <1>2 DEF Kthread, KNeverRan, KInit, KRoll, KCheck, KWake, KExit
  <2>4. ThreadType'
    BY <2>1, <2>2, <2>3 DEF KGoto, TypeOK, ThreadType
  <2> QED BY <2>1, <2>4, TypeFrame DEF TypeOK
<1> QED
  BY <1>1, <1>2

LEMMA LoaderType ==
  ASSUME TypeOK, Insmod \/ ExitStop \/ Rmmod
  PROVE  TypeOK'
<1>a. Loader \in Actor
  BY DEF Actor
<1>1. CASE ClassRegister \/ SetMask \/ Stopped \/ ClassUnregister \/ Unloaded
  <2>1. ModuleType'
    BY <1>1 DEF ClassRegister, SetMask, Stopped, ClassUnregister, Unloaded, TypeOK, ModuleType
  <2>2. UNCHANGED <<control, threads, fault, cause>>
    BY <1>1 DEF ClassRegister, SetMask, Stopped, ClassUnregister, Unloaded
  <2> QED BY <2>1, <2>2, TypeFrame DEF TypeOK
<1>2. CASE RegisterNode
  <2>1. ModuleType'
    BY <1>2 DEF RegisterNode, TypeOK, ModuleType
  <2>2. ControlType'
    BY <1>a, <1>2, NextNodeType DEF RegisterNode, TypeOK, ControlType
  <2> QED BY <1>2, <2>1, <2>2, TypeFrame DEF RegisterNode, TypeOK
<1>3. CASE AllocBuffers
  <2>1. ModuleType'
    BY <1>3 DEF AllocBuffers, TypeOK, ModuleType
  <2>2. ControlType'
    BY <1>a, <1>3, NextNodeType DEF AllocBuffers, TypeOK, ControlType
  <2>3. HistoryType'
    BY <1>3 DEF AllocBuffers, TypeOK, HistoryType
  <2> QED BY <1>3, <2>1, <2>2, <2>3, TypeFrame DEF AllocBuffers, TypeOK
<1>4. CASE Registered
  <2>1. ModuleType'
    BY <1>4 DEF Registered, TypeOK, ModuleType
  <2>2. ControlType'
    BY <1>a, <1>4, CtlAssumption DEF Registered, TypeOK, ControlType
  <2> QED BY <1>4, <2>1, <2>2, TypeFrame DEF Registered, TypeOK
<1>5. CASE ExitStop
  <2>1. ModuleType'
    BY <1>5 DEF ExitStop, TypeOK, ModuleType
  <2>2. ControlType'
    <3>1. spin' \in [Actor -> 0 .. NumNodes]
      BY <1>a, <1>5, SpinType DEF ExitStop, StopStat
    <3>2. CASE StopStat(Loader)
      BY <1>a, <3>1, <3>2 DEF StopStat, TypeOK, ControlType
    <3>3. CASE UNCHANGED switch
      BY <3>1, <3>3 DEF switch, TypeOK, ControlType
    <3> QED BY <1>5, <3>2, <3>3 DEF ExitStop
  <2>3. UNCHANGED <<threads, fault, cause>>
    BY <1>5 DEF ExitStop, StopStat
  <2> QED BY <2>1, <2>2, <2>3, TypeFrame DEF TypeOK
<1>6. CASE RemoveNode
  <2>1. ModuleType'
    BY <1>6 DEF RemoveNode, TypeOK, ModuleType
  <2>2. ControlType'
    BY <1>a, <1>6, NextNodeType DEF RemoveNode, TypeOK, ControlType
  <2>3. ThreadType'
    BY <1>6 DEF RemoveNode, TypeOK, ThreadType
  <2> QED BY <1>6, <2>1, <2>2, <2>3, TypeFrame DEF RemoveNode, TypeOK
<1> QED
  BY <1>1, <1>2, <1>3, <1>4, <1>5, <1>6 DEF Insmod, Rmmod

LEMMA NextType == TypeOK /\ SwitchInv /\ [Next]_vars => TypeOK'
<1> SUFFICES ASSUME TypeOK, SwitchInv, [Next]_vars PROVE TypeOK'
  OBVIOUS
<1>1. ASSUME NEW w \in Writer, On(w) \/ Off(w) PROVE TypeOK'
  <2>1. w \in Actor
    BY DEF Actor
  <2>2. (StartStat(w) \/ StopStat(w)) /\ UNCHANGED module
    BY <1>1 DEF On, Off, StartStat
  <2> QED BY <2>1, <2>2, ActorType
<1>2. ASSUME NEW n \in Node, ReadStat(n) \/ ReadLast(n) \/ Reset(n) PROVE TypeOK'
  <2>1. CASE \E kind \in {"stat_null_ctx", "last_null_ctx"} : Oops(kind)
    BY <2>1, OopsType
  <2>2. CASE ~ \E kind \in {"stat_null_ctx", "last_null_ctx"} : Oops(kind)
    <3>1. ThreadType'
      BY <1>2, <2>2 DEF ReadStat, ReadLast, Reset, TypeOK, ThreadType
    <3>2. UNCHANGED <<module, control, fault, cause>>
      BY <1>2, <2>2 DEF ReadStat, ReadLast, Reset
    <3> QED BY <3>1, <3>2, TypeFrame DEF TypeOK
  <2> QED BY <2>1, <2>2
<1>3. CASE UNCHANGED vars
  <2>1. UNCHANGED <<module, control, threads, fault, cause>>
    BY <1>3 DEF vars, module, control, switch, threads
  <2> QED BY <2>1, TypeFrame DEF TypeOK
<1>4. ASSUME NEW a \in Actor, NEW n \in Node, Spin(a, n) \/ SpinDone(a) PROVE TypeOK'
  <2>1. UNCHANGED <<module, switch, threads, fault, cause>>
    BY <1>4 DEF Spin, SpinDone
  <2>2. 0 \in 0 .. NumNodes /\ n \in 0 .. NumNodes
    BY CtlAssumption DEF Node
  <2>3. spin' \in [Actor -> 0 .. NumNodes]
    BY <1>4, <2>2 DEF Spin, SpinDone, TypeOK, ControlType
  <2>4. ControlType'
    BY <2>1, <2>3 DEF switch, TypeOK, ControlType
  <2> QED BY <2>1, <2>4, TypeFrame DEF TypeOK
<1>5. Writer \subseteq Actor /\ 1 \in Node
  BY CtlAssumption DEF Actor, Node
<1> QED
  BY <1>1, <1>2, <1>3, <1>4, <1>5, ActorType, ThreadStepType, LoaderType DEF Next

-----------------------------------------------------------------------------
(* What the steps leave alone.                                             *)

(* Somebody begins to spin for ctrl_lock, or gives up; all other steps.    *)
SpinStep == (\E a \in Actor, n \in Node : Spin(a, n)) \/ \E w \in Writer : SpinDone(w)
Moves    == Next /\ ~SpinStep

LEMMA ThreadFrame ==
  ASSUME NEW t \in Task, Kthread(t)
  PROVE  UNCHANGED <<module, control, switch, knode, should_stop, cause>>
  BY DEF Kthread, KNeverRan, KInit, KRoll, KCheck, KWake, KExit, Oops, control, threads

LEMMA ReadFrame ==
  ASSUME NEW n \in Node, ReadStat(n) \/ ReadLast(n) \/ Reset(n)
  PROVE  /\ UNCHANGED <<module, control, switch, kpc, knode, should_stop, ctxs, cause>>
         /\ stored' \subseteq stored
  BY DEF ReadStat, ReadLast, Reset, Oops, control, threads

LEMMA ActorFrame ==
  ASSUME NEW a \in Actor,
         (StartStat(a) /\ UNCHANGED module) \/ (StopStat(a) /\ UNCHANGED module) \/ InSection(a)
  PROVE  UNCHANGED <<module, ctxs, stored>>
  BY DEF StartStat, StopStat, InSection, SkipNode, StartNode, StartNodeFails, StopNode,
         StopWait, LoopDone, NextNode, Oops, threads

LEMMA LoadFrame ==
  ASSUME Insmod \/ Rmmod
  PROVE  UNCHANGED <<ctrl_lock, ctrl_on, apc, task, kpc, knode, should_stop, ctxs, fault>>
  BY DEF Insmod, Rmmod, ClassRegister, RegisterNode, SetMask, AllocBuffers, Registered,
         Stopped, RemoveNode, ClassUnregister, Unloaded, control, switch, threads

-----------------------------------------------------------------------------
(* ctrl_lock.                                                              *)

LEMMA InitIInv == Init => IInv
<1> SUFFICES ASSUME Init PROVE IInv
  OBVIOUS
<1>1. TypeOK
  BY InitType
<1>2. LockInv /\ ClassInv /\ TaskInv /\ SwitchInv
  BY CtlAssumption DEF Init, LockInv, ClassInv, TaskInv, SwitchInv, Exists, Present, Actor
<1>3. ContextInv /\ LoadInv /\ UnloadInv
  BY CtlAssumption DEF Init, ContextInv, LoadInv, UnloadInv, Exists, Present, Running, Gone
<1>4. ReadyInv /\ ThreadInv
  BY CtlAssumption DEF Init, ReadyInv, ThreadInv, Actor
<1>5. FaultHasCause
  BY DEF Init, FaultHasCause
<1> QED
  BY <1>1, <1>2, <1>3, <1>4, <1>5 DEF IInv

(* Whether a writer or the loader runs it.                                 *)
LEMMA ActorSteps ==
  ASSUME Moves
  PROVE  \/ \E a \in Actor : StartStat(a) /\ a \in Writer /\ (class_up \/ spin[a] # 0) /\ UNCHANGED module
         \/ \E a \in Actor : StopStat(a) /\ a \in Writer /\ UNCHANGED module
         \/ StopStat(Loader) /\ lpc = "up" /\ lpc' = "stopping" /\ UNCHANGED <<class_up, node, files>>
         \/ \E a \in Actor : InSection(a)
         \/ \E t \in Task : Kthread(t)
         \/ Insmod
         \/ ExitStop /\ ~ctrl_on /\ ctrl_lock = Nobody /\ lpc = "up" /\ lpc' = "remove"
              /\ UNCHANGED <<class_up, node, files, switch, threads, fault, cause>>
         \/ Rmmod
         \/ \E n \in Node : ReadStat(n) \/ ReadLast(n) \/ Reset(n)
  BY DEF Moves, SpinStep, Next, On, Off, ExitStop, Actor, StartStat

LEMMA LockStep ==
  ASSUME IInv, Moves
  PROVE  LockInv'
<1> USE DEF IInv
<1>a. Loader \in Actor /\ Loader \notin Writer /\ Writer \subseteq Actor /\ Nobody \notin Actor
  BY CtlAssumption DEF Actor
<1>1. ASSUME NEW a \in Writer, StartStat(a) \/ StopStat(a), UNCHANGED module
      PROVE  LockInv'
  <2>1. CASE StartStat(a)
    BY <1>a, <1>1, <2>1 DEF StartStat, MayStart, LockInv, TypeOK, ControlType, module
  <2>2. CASE StopStat(a)
    BY <1>a, <1>1, <2>2 DEF StopStat, LockInv, TypeOK, ControlType, module
  <2> QED BY <1>1, <2>1, <2>2
<1>2. CASE StopStat(Loader) /\ lpc = "up" /\ lpc' = "stopping"
  BY <1>a, <1>2 DEF StopStat, LockInv, TypeOK, ControlType
<1>3. ASSUME NEW a \in Actor, InSection(a)
      PROVE  LockInv'
  <2>1. CASE Oops("null_task") \/ Oops("half_node") \/ Oops("freed_node")
    BY <2>1 DEF Oops, LockInv, module, control, switch
  <2>2. CASE SkipNode(a)
    BY <1>a, <2>2 DEF SkipNode, NextNode, LockInv, TypeOK, ControlType, module
  <2>3. CASE StartNode(a) /\ ~Oops("half_node")
    BY <1>a, <2>3 DEF StartNode, NextNode, LockInv, TypeOK, ControlType, module
  <2>4. CASE StartNodeFails(a)
    BY <1>a, <2>4 DEF StartNodeFails, NextNode, LockInv, TypeOK, ControlType, module
  <2>5. CASE StopNode(a) /\ ~Oops("null_task")
    BY <1>a, <2>5 DEF StopNode, LockInv, TypeOK, ControlType, module
  <2>6. CASE StopWait(a) /\ ~Oops("freed_node")
    BY <1>a, <2>6 DEF StopWait, NextNode, LockInv, TypeOK, ControlType, module
  <2>7. CASE LoopDone(a)
    BY <1>a, <2>7 DEF LoopDone, LockInv, TypeOK, ControlType, module
  <2> QED
    BY <1>3, <2>1, <2>2, <2>3, <2>4, <2>5, <2>6, <2>7 DEF InSection
<1>4. ASSUME NEW t \in Task, Kthread(t)
      PROVE  LockInv'
  BY <1>4, ThreadFrame DEF LockInv, module, control, switch
<1>5. CASE Insmod
  BY <1>a, <1>5 DEF Insmod, ClassRegister, RegisterNode, SetMask, AllocBuffers, Registered,
     NextNode, LockInv, TypeOK, ModuleType, ControlType, control, switch
<1>6. CASE lpc = "up" /\ lpc' = "remove" /\ UNCHANGED switch
  BY <1>a, <1>6 DEF LockInv, control, switch
<1>7. CASE Rmmod
  BY <1>a, <1>7 DEF Rmmod, Stopped, RemoveNode, ClassUnregister, Unloaded,
     NextNode, LockInv, TypeOK, ModuleType, ControlType, control, switch
<1>8. ASSUME NEW n \in Node, ReadStat(n) \/ ReadLast(n) \/ Reset(n)
      PROVE  LockInv'
  BY <1>8, ReadFrame DEF LockInv, module, control, switch
<1> QED
  BY <1>1, <1>2, <1>3, <1>4, <1>5, <1>6, <1>7, <1>8, ActorSteps

(* What has gone wrong stays on record.                                    *)
LEMMA CauseGrows ==
  ASSUME Moves
  PROVE  cause \subseteq cause'
<1>1. ASSUME NEW a \in Actor, InSection(a) PROVE cause \subseteq cause'
  BY <1>1 DEF InSection, SkipNode, StartNode, StartNodeFails, StopNode, StopWait, LoopDone, Oops
<1>2. CASE Insmod \/ Rmmod
  BY <1>2 DEF Insmod, Rmmod, ClassRegister, RegisterNode, SetMask, AllocBuffers, Registered,
     Stopped, RemoveNode, ClassUnregister, Unloaded
<1>3. ASSUME NEW a \in Actor, StartStat(a) \/ StopStat(a) PROVE cause \subseteq cause'
  BY <1>3 DEF StartStat, StopStat
<1>4. Loader \in Actor
  BY DEF Actor
<1> QED
  BY <1>1, <1>2, <1>3, <1>4, ActorSteps, ThreadFrame, ReadFrame

(* Who does not spin does not begin to.                                    *)
LEMMA SpinFrame ==
  ASSUME TypeOK, Moves
  PROVE  \A w \in Writer : spin[w] = 0 => spin'[w] = 0
<1>1. ASSUME NEW a \in Actor, StartStat(a) \/ StopStat(a)
      PROVE  spin' = [spin EXCEPT ![a] = 0]
  BY <1>1 DEF StartStat, StopStat
<1>2. ASSUME NEW a \in Actor, InSection(a)
      PROVE  spin' = spin
  BY <1>2 DEF InSection, SkipNode, StartNode, StartNodeFails, StopNode, StopWait, LoopDone,
     Oops, control
<1>3. CASE Insmod \/ Rmmod
  BY <1>3 DEF Insmod, Rmmod, ClassRegister, RegisterNode, SetMask, AllocBuffers, Registered,
     Stopped, RemoveNode, ClassUnregister, Unloaded, control
<1>4. CASE ExitStop
  BY <1>1, <1>4 DEF ExitStop, Actor, TypeOK, ControlType
<1>5. spin \in [Actor -> 0 .. NumNodes] /\ Writer \subseteq Actor /\ Loader \in Actor
  BY DEF TypeOK, ControlType, Actor
<1>6. ASSUME NEW a \in Actor, StartStat(a) \/ StopStat(a)
      PROVE  \A w \in Writer : spin[w] = 0 => spin'[w] = 0
  BY <1>1, <1>5, <1>6
<1>7. ASSUME spin' = spin
      PROVE  \A w \in Writer : spin[w] = 0 => spin'[w] = 0
  BY <1>7
<1> QED
  BY <1>2, <1>3, <1>4, <1>5, <1>6, <1>7, ActorSteps, ThreadFrame, ReadFrame DEF control

(* ctrl comes and goes with the class.                                     *)
LEMMA ClassStep ==
  ASSUME IInv, Moves
  PROVE  ClassInv'
<1>a. \A w \in Writer : spin[w] = 0 => spin'[w] = 0
  BY SpinFrame DEF IInv
<1>1. CASE UNCHANGED <<lpc, class_up>>
  BY <1>a, <1>1 DEF IInv, ClassInv
<1>2. CASE lpc = "up" /\ lpc' \in {"stopping", "remove"} /\ UNCHANGED class_up
  BY <1>2 DEF IInv, ClassInv
<1>3. CASE Insmod \/ Rmmod
  BY <1>a, <1>3 DEF Insmod, Rmmod, ClassRegister, RegisterNode, SetMask, AllocBuffers, Registered,
     Stopped, RemoveNode, ClassUnregister, Unloaded, IInv, ClassInv, TypeOK, ModuleType
<1> QED
  BY <1>1, <1>2, <1>3, ActorSteps, ThreadFrame, ReadFrame, ActorFrame DEF module

-----------------------------------------------------------------------------
(* Nodes and their threads.                                                *)

LEMMA TaskStep ==
  ASSUME IInv, Moves
  PROVE  TaskInv'
<1> USE DEF IInv
<1>a. Loader \in Actor /\ NULL \notin Task
  BY CtlAssumption DEF Actor
<1>1. ASSUME NEW a \in Actor, StartStat(a) \/ StopStat(a), UNCHANGED module
      PROVE  TaskInv'
  BY <1>1 DEF StartStat, StopStat, TaskInv, Exists, Present, module, threads
<1>2. CASE StopStat(Loader) /\ lpc = "up" /\ lpc' = "stopping" /\ UNCHANGED node
  BY <1>2 DEF StopStat, TaskInv, Exists, Present, threads
<1>3. ASSUME NEW a \in Actor, InSection(a)
      PROVE  TaskInv'
  <2>1. CASE Oops("null_task") \/ Oops("half_node") \/ Oops("freed_node")
    BY <2>1 DEF Oops, TaskInv, Exists, Present, module, control, switch, threads
  <2>2. CASE SkipNode(a) \/ LoopDone(a)
    BY <2>2 DEF SkipNode, LoopDone, TaskInv, Exists, Present, module, threads
  <2>3. CASE StartNode(a) /\ ~Oops("half_node")
    <3>1. PICK t \in Task : /\ kpc[t] = "none"
                            /\ kpc' = [kpc EXCEPT ![t] = "new"]
                            /\ knode' = [knode EXCEPT ![t] = i[a]]
                            /\ task' = [task EXCEPT ![i[a]] = t]
      BY <2>3 DEF StartNode
    <3>2. apc[a] = "start" /\ i[a] \in Node /\ Present(i[a]) /\ UNCHANGED module
      BY <2>3 DEF StartNode, Present
    <3>3. task[i[a]] = NULL
      BY <3>2 DEF SwitchInv, TypeOK, ControlType, Node
    <3> QED BY <1>a, <3>1, <3>2, <3>3 DEF TaskInv, Exists, Present, module,
               TypeOK, ControlType, ThreadType
  <2>4. CASE StartNodeFails(a)
    <3>1. apc[a] = "start" /\ i[a] \in Node /\ Present(i[a])
      BY <2>4 DEF StartNodeFails, Present
    <3>2. task[i[a]] = NULL
      BY <3>1 DEF SwitchInv, TypeOK, ControlType, Node
    <3>3. task' = task
      BY <2>4, <3>1, <3>2 DEF StartNodeFails, TypeOK, ControlType
    <3> QED BY <2>4, <3>3 DEF StartNodeFails, TaskInv, Exists, Present, module, threads
  <2>5. CASE StopNode(a) /\ ~Oops("null_task")
    BY <2>5 DEF StopNode, TaskInv, Exists, Present, module
  <2>6. CASE StopWait(a) /\ ~Oops("freed_node")
    <3>1. i[a] \in Node /\ task[i[a]] \in Task /\ knode[task[i[a]]] = i[a] /\ Exists(task[i[a]])
      BY <2>6 DEF StopWait, SwitchInv
    <3> QED BY <1>a, <2>6, <3>1 DEF StopWait, TaskInv, Exists, Present, module,
               TypeOK, ControlType, ThreadType
  <2> QED
    BY <1>3, <2>1, <2>2, <2>3, <2>4, <2>5, <2>6 DEF InSection
<1>4. ASSUME NEW t \in Task, Kthread(t)
      PROVE  TaskInv'
  <2>1. \A u \in Task : Exists(u)' <=> Exists(u)
    BY <1>4 DEF Kthread, KNeverRan, KInit, KRoll, KCheck, KWake, KExit, KGoto, Oops, threads,
       Exists, TypeOK, ThreadType
  <2>2. UNCHANGED <<module, switch, knode>>
    BY <1>4, ThreadFrame
  <2> QED BY <1>a, <2>1, <2>2 DEF TaskInv, Present, module, control, switch, TypeOK, ControlType
<1>5. CASE Insmod
  <2>1. CASE ClassRegister \/ Registered
    BY <2>1 DEF ClassRegister, Registered, TaskInv, Exists, Present, control, switch, threads
  <2>2. CASE RegisterNode
    BY <2>2 DEF RegisterNode, TaskInv, Exists, Present, TypeOK, ModuleType, ControlType,
       ThreadType, threads
  <2>3. CASE SetMask \/ AllocBuffers
    <3>1. \A n \in Node : Present(n)' <=> Present(n)
      BY <2>3 DEF SetMask, AllocBuffers, Present, TypeOK, ModuleType
    <3>2. UNCHANGED <<lpc, task, kpc, knode>>
      BY <2>3 DEF SetMask, AllocBuffers, control, switch, threads
    <3> QED BY <1>a, <3>1, <3>2 DEF TaskInv, Exists, TypeOK, ControlType, ThreadType
  <2> QED BY <1>5, <2>1, <2>2, <2>3 DEF Insmod
<1>6. CASE lpc = "up" /\ lpc' = "remove" /\ UNCHANGED <<node, switch, threads>>
  BY <1>6 DEF TaskInv, Exists, Present, control, switch, threads
<1>7. CASE Rmmod
  <2>1. /\ lpc' \notin {"down", "register"}
        /\ UNCHANGED <<task, kpc, knode>>
        /\ \A n \in Node : Present(n)' => Present(n)
    BY <1>7, LoadFrame DEF Rmmod, Stopped, RemoveNode, ClassUnregister, Unloaded, Present,
       TypeOK, ModuleType
  <2> QED BY <2>1 DEF TaskInv, Exists, TypeOK, ThreadType
<1>8. ASSUME NEW n \in Node, ReadStat(n) \/ ReadLast(n) \/ Reset(n)
      PROVE  TaskInv'
  BY <1>8, ReadFrame DEF TaskInv, Exists, Present, module, control, switch
<1> QED
  BY <1>1, <1>2, <1>3, <1>4, <1>5, <1>6, <1>7, <1>8, ActorSteps

-----------------------------------------------------------------------------
(* start_stat and stop_stat on their way.                                  *)

LEMMA SwitchStep ==
  ASSUME IInv, Moves
  PROVE  SwitchInv'
<1> USE DEF IInv
<1>a. Loader \in Actor /\ NULL \notin Task /\ Nobody \notin Actor
  BY CtlAssumption DEF Actor
<1>b. ASSUME NEW a \in Actor, apc[a] # "idle", NEW b \in Actor, b # a
      PROVE  apc[b] = "idle"
  BY <1>b DEF LockInv
<1>1. ASSUME NEW a \in Actor, StartStat(a) \/ StopStat(a), UNCHANGED node,
             a \in Writer \/ lpc = "up"
      PROVE  SwitchInv'
  <2>1. \A b \in Actor : apc[b] = "idle"
    BY <1>a, <1>1 DEF StartStat, StopStat, MayStart, LockInv
  <2>2. CASE StartStat(a)
    BY <1>1, <2>1, <2>2 DEF StartStat, MayStart, SwitchInv, LockInv, Present, Exists, TypeOK, ControlType,
       module, threads
  <2>3. CASE StopStat(a)
    <3>1. i[a] = 1
      BY <1>1, <2>1 DEF StopStat, LockInv, Actor, TypeOK, ControlType
    <3>2. ctrl_on' = FALSE /\ ctrl_lock' = a /\ UNCHANGED <<i, task>>
      BY <2>3 DEF StopStat
    <3>3. \A b \in Actor : apc'[b] = IF b = a THEN "stop" ELSE "idle"
      BY <2>1, <2>3 DEF StopStat, TypeOK, ControlType
    <3>4. \A n \in Node : ~(n < i[a])
      BY <3>1 DEF Node
    <3> QED BY <1>a, <3>2, <3>3, <3>4 DEF SwitchInv
  <2> QED BY <1>1, <2>2, <2>3
<1>3. ASSUME NEW a \in Actor, InSection(a)
      PROVE  SwitchInv'
  <2>1. CASE Oops("null_task") \/ Oops("half_node") \/ Oops("freed_node")
    BY <2>1 DEF Oops, SwitchInv, Exists, Present, module, control, switch, threads
  <2>2. CASE SkipNode(a)
    BY <1>b, <2>2 DEF SkipNode, NextNode, SwitchInv, Exists, Present, module, threads, Node,
       TypeOK, ControlType
  <2>3. CASE StartNode(a) /\ ~Oops("half_node")
    <3>1. PICK t \in Task : task' = [task EXCEPT ![i[a]] = t]
      BY <2>3 DEF StartNode
    <3>2. /\ apc[a] = "start" /\ i[a] \in Node
          /\ UNCHANGED <<node, ctrl_on, apc>> /\ i' = [i EXCEPT ![a] = @ + 1]
      BY <2>3 DEF StartNode, NextNode, module
    <3>3. \A b \in Actor : b # a => apc[b] = "idle"
      BY <1>b, <3>2
    <3>4. \A n \in Node : n >= i'[a] => n >= i[a] /\ task'[n] = task[n]
      BY <3>1, <3>2 DEF TypeOK, ControlType, Node
    <3> QED BY <3>2, <3>3, <3>4 DEF SwitchInv, Present
  <2>4. CASE StartNodeFails(a)
    BY <1>b, <2>4 DEF StartNodeFails, NextNode, SwitchInv, Exists, Present, module, threads, Node,
       TypeOK, ControlType
  <2>5. CASE StopNode(a) /\ ~Oops("null_task")
    BY <1>a, <1>b, <2>5 DEF StopNode, SwitchInv, TaskInv, Exists, Present, module,
       TypeOK, ControlType
  <2>6. CASE StopWait(a) /\ ~Oops("freed_node")
    <3>1. /\ apc[a] = "wait" /\ i[a] \in Node /\ ~ctrl_on
          /\ UNCHANGED <<node, ctrl_on, ctrl_lock>> /\ i' = [i EXCEPT ![a] = @ + 1]
          /\ task' = [task EXCEPT ![i[a]] = NULL] /\ apc' = [apc EXCEPT ![a] = "stop"]
      BY <2>6 DEF StopWait, NextNode, module, SwitchInv
    <3>2. \A b \in Actor : apc'[b] = IF b = a THEN "stop" ELSE "idle"
      BY <1>b, <3>1 DEF TypeOK, ControlType
    <3>3. ctrl_lock' = a
      BY <3>1 DEF LockInv
    <3>4. \A n \in Node : n < i'[a] => n < i[a] \/ n = i[a]
      BY <3>1 DEF TypeOK, ControlType, Node
    <3>5. \A n \in Node : n < i'[a] /\ Present(n) => task'[n] = NULL
      BY <3>1, <3>4 DEF SwitchInv, TypeOK, ControlType
    <3> QED BY <1>a, <3>1, <3>2, <3>3, <3>5 DEF SwitchInv, Present
  <2>7. CASE LoopDone(a)
    <3>1. /\ apc[a] \in {"start", "stop"} /\ i[a] \notin Node
          /\ apc' = [apc EXCEPT ![a] = "idle"] /\ UNCHANGED <<node, ctrl_on, task>>
      BY <2>7 DEF LoopDone, module
    <3>2. \A b \in Actor : apc'[b] = "idle"
      BY <1>b, <3>1 DEF TypeOK, ControlType
    <3>3. \A n \in Node : n < i[a]
      BY <3>1, CtlAssumption DEF Node, TypeOK, ControlType
    <3>4. ctrl_on \/ \A n \in Node : Present(n) => task[n] = NULL
      BY <3>1, <3>3 DEF SwitchInv
    <3> QED BY <3>1, <3>2, <3>4 DEF SwitchInv, Present
  <2> QED
    BY <1>3, <2>1, <2>2, <2>3, <2>4, <2>5, <2>6, <2>7 DEF InSection
<1>4. ASSUME NEW t \in Task, Kthread(t)
      PROVE  SwitchInv'
  <2>1. \A u \in Task : Exists(u)' <=> Exists(u)
    BY <1>4 DEF Kthread, KNeverRan, KInit, KRoll, KCheck, KWake, KExit, KGoto, Oops, threads,
       Exists, TypeOK, ThreadType
  <2>2. UNCHANGED <<module, switch, knode>>
    BY <1>4, ThreadFrame
  <2> QED BY <1>a, <2>1, <2>2 DEF SwitchInv, Present, module, control, switch, TypeOK, ControlType
<1>5. CASE Insmod
  <2>1. CASE ClassRegister \/ Registered
    BY <2>1 DEF ClassRegister, Registered, SwitchInv, LockInv, Exists, Present, control, switch, threads, TypeOK, ControlType
  <2>2. CASE RegisterNode
    BY <2>2 DEF RegisterNode, NextNode, SwitchInv, TaskInv, LockInv, Exists, Present, TypeOK, ModuleType, ControlType,
       ThreadType, threads
  <2>3. CASE SetMask \/ AllocBuffers
    <3>1. \A n \in Node : Present(n)' <=> Present(n)
      BY <2>3 DEF SetMask, AllocBuffers, Present, TypeOK, ModuleType
    <3>2. UNCHANGED <<ctrl_on, ctrl_lock, apc, task, kpc, knode>> /\ \A b \in Writer : i'[b] = i[b]
      BY <2>3, CtlAssumption DEF SetMask, AllocBuffers, NextNode, control, switch, threads, TypeOK, ControlType, Actor
    <3>3. apc[Loader] = "idle"
      BY <1>a, <2>3 DEF SetMask, AllocBuffers, LockInv, TypeOK, ControlType
    <3> QED BY <1>a, <3>1, <3>2, <3>3 DEF SwitchInv, Exists, Actor, TypeOK, ControlType, ThreadType
  <2> QED BY <1>5, <2>1, <2>2, <2>3 DEF Insmod
<1>6. CASE UNCHANGED <<node, switch, threads>>
  BY <1>6 DEF SwitchInv, Exists, Present, control, switch, threads
<1>7. CASE Rmmod
  <2>1. /\ UNCHANGED <<ctrl_on, ctrl_lock, apc, task, kpc, knode>>
        /\ \A n \in Node : Present(n)' => Present(n)
        /\ \A b \in Writer : i'[b] = i[b]
    BY <1>7, LoadFrame, CtlAssumption DEF Rmmod, Stopped, RemoveNode, ClassUnregister, Unloaded, NextNode, Present,
       TypeOK, ModuleType, ControlType, control, switch, Actor
  <2>2. apc[Loader] = "idle"
    BY <1>a, <1>7 DEF Rmmod, Stopped, RemoveNode, ClassUnregister, Unloaded, LockInv, TypeOK, ControlType
  <2> QED BY <2>1, <2>2 DEF SwitchInv, Exists, Actor, TypeOK, ControlType, ThreadType
<1>8. ASSUME NEW n \in Node, ReadStat(n) \/ ReadLast(n) \/ Reset(n)
      PROVE  SwitchInv'
  BY <1>8, ReadFrame DEF SwitchInv, Exists, Present, module, control, switch
<1> QED
  BY <1>a, <1>1, <1>3, <1>4, <1>5, <1>6, <1>7, <1>8, ActorSteps DEF module

-----------------------------------------------------------------------------
(* Contexts.                                                               *)

(* A thread that runs is the only one of its node.                         *)
LEMMA OnlyThread ==
  ASSUME IInv, NEW t \in Task, NEW u \in Task, Exists(t), Exists(u), knode[t] = knode[u]
  PROVE  t = u
  BY DEF IInv, TaskInv

LEMMA ContextStep ==
  ASSUME IInv, Moves
  PROVE  ContextInv'
<1> USE DEF IInv
<1>a. Loader \in Actor /\ NULL \notin Task
  BY CtlAssumption DEF Actor
<1>c. cause \subseteq cause'
  BY CauseGrows
<1>1. ASSUME UNCHANGED <<node, kpc, knode, ctxs>>, stored' \subseteq stored
      PROVE  ContextInv'
  BY <1>c, <1>1 DEF ContextInv, Running, Present, Without
<1>2. ASSUME NEW a \in Actor, StartStat(a) \/ StopStat(a), UNCHANGED node
      PROVE  ContextInv'
  BY <1>1, <1>2 DEF StartStat, StopStat, threads
<1>3. ASSUME NEW a \in Actor, InSection(a)
      PROVE  ContextInv'
  <2>1. CASE Oops("null_task") \/ Oops("half_node") \/ Oops("freed_node")
    BY <1>1, <2>1 DEF Oops, module, threads
  <2>2. CASE SkipNode(a) \/ LoopDone(a) \/ StartNodeFails(a) \/ (StopNode(a) /\ ~Oops("null_task"))
    BY <1>1, <2>2 DEF SkipNode, LoopDone, StartNodeFails, StopNode, module, threads
  <2>3. CASE StartNode(a) /\ ~Oops("half_node")
    <3>1. PICK t \in Task : /\ kpc[t] = "none"
                            /\ kpc' = [kpc EXCEPT ![t] = "new"]
                            /\ knode' = [knode EXCEPT ![t] = i[a]]
      BY <2>3 DEF StartNode
    <3>2. UNCHANGED <<node, ctxs, stored>>
      BY <2>3 DEF StartNode, module
    <3>3. \A u \in Task : Running(u)' <=> Running(u)
      BY <3>1 DEF Running, TypeOK, ThreadType
    <3>4. \A u \in Task : Running(u) => knode'[u] = knode[u]
      BY <3>1 DEF Running, TypeOK, ThreadType
    <3> QED BY <1>c, <3>2, <3>3, <3>4 DEF ContextInv, Present, Without, TypeOK, ThreadType
  <2>4. CASE StopWait(a) /\ ~Oops("freed_node")
    <3>1. UNCHANGED <<node, knode, ctxs, stored>>
      BY <2>4 DEF StopWait, module
    <3>2. \A u \in Task : Running(u)' <=> Running(u)
      BY <2>4 DEF StopWait, Running, TypeOK, ThreadType
    <3> QED BY <1>c, <3>1, <3>2 DEF ContextInv, Present, Without
  <2> QED
    BY <1>3, <2>1, <2>2, <2>3, <2>4 DEF InSection
<1>4. ASSUME NEW t \in Task, Kthread(t)
      PROVE  ContextInv'
  <2>0. UNCHANGED <<module, knode>> /\ knode[t] \in Node
    BY <1>4, ThreadFrame DEF TypeOK, ThreadType
  <2>1. CASE Oops("half_node") \/ Oops("freed_node")
    BY <1>1, <2>1 DEF Oops, module, threads
  <2>2. CASE KNeverRan(t)
    BY <1>c, <2>0, <2>2 DEF KNeverRan, KGoto, ContextInv, Running, Present, Without, module,
       TypeOK, ThreadType
  <2>3. CASE KInit(t) /\ ~Oops("half_node") /\ ~Oops("freed_node")
    <3>1. ctxs' = [ctxs EXCEPT ![knode[t]] = "live"] /\ stored' = stored /\ node' = node
      BY <2>0, <2>3 DEF KInit, module
    <3>2. kpc' = [kpc EXCEPT ![t] = "roll"]
      BY <2>3 DEF KInit, KGoto
    <3> QED BY <1>c, <2>0, <3>1, <3>2 DEF ContextInv, Running, Present, Without,
               TypeOK, ThreadType
  <2>4. CASE KRoll(t) /\ ~Oops("freed_node")
    <3>1. ctxs' = ctxs /\ stored' = stored \cup {knode[t]} /\ node' = node
      BY <2>0, <2>4 DEF KRoll, module
    <3>2. kpc' = [kpc EXCEPT ![t] = "check"] /\ Running(t) /\ Present(knode[t])
      BY <2>4 DEF KRoll, KGoto, Running, Gone, Present
    <3> QED BY <1>c, <2>0, <3>1, <3>2 DEF ContextInv, Running, Present, Without,
               TypeOK, ThreadType
  <2>5. CASE (KCheck(t) \/ KWake(t)) /\ ~Oops("freed_node")
    <3>1. UNCHANGED <<node, ctxs, stored>>
      BY <2>0, <2>5 DEF KCheck, KWake, module
    <3>2. \A u \in Task : Running(u)' <=> Running(u)
      BY <2>5 DEF KCheck, KWake, KGoto, Running, TypeOK, ThreadType
    <3> QED BY <1>c, <2>0, <3>1, <3>2 DEF ContextInv, Present, Without
  <2>6. CASE KExit(t) /\ ~Oops("freed_node")
    <3>1. ctxs' = [ctxs EXCEPT ![knode[t]] = "stale"] /\ stored' = stored /\ node' = node
      BY <2>0, <2>6 DEF KExit, module
    <3>2. kpc' = [kpc EXCEPT ![t] = "dead"] /\ Exists(t)
      BY <2>6 DEF KExit, KGoto, Exists
    <3>3. \A u \in Task : Running(u)' => Running(u) /\ knode[u] # knode[t]
      BY <3>2, OnlyThread DEF Running, Exists, TypeOK, ThreadType
    <3>4. \A u \in Task : Running(u) /\ knode[u] # knode[t] => Running(u)'
      BY <3>2 DEF Running, TypeOK, ThreadType
    <3> QED BY <1>c, <2>0, <3>1, <3>3, <3>4 DEF ContextInv, Present, Without,
               TypeOK, ThreadType
  <2> QED
    BY <1>4, <2>1, <2>2, <2>3, <2>4, <2>5, <2>6 DEF Kthread
<1>5. CASE Insmod
  <2>1. UNCHANGED <<kpc, knode, ctxs, stored>>
    BY <1>5 DEF Insmod, ClassRegister, RegisterNode, SetMask, AllocBuffers, Registered, threads
  <2>2. \A t \in Task : Running(t) => (Present(knode[t])' => Present(knode[t]))
    <3>1. CASE RegisterNode
      BY <3>1 DEF RegisterNode, TaskInv, Running, Exists
    <3>2. CASE ~RegisterNode
      BY <1>5, <3>2, <2>1 DEF Insmod, ClassRegister, SetMask, AllocBuffers, Registered, Present,
         TypeOK, ModuleType, ThreadType
    <3> QED BY <3>1, <3>2
  <2> QED BY <1>c, <2>1, <2>2 DEF ContextInv, Running, Without
<1>6. CASE UNCHANGED <<node, threads>>
  BY <1>1, <1>6 DEF threads
<1>7. CASE Rmmod
  <2>1. UNCHANGED <<kpc, knode, ctxs>> /\ stored' \subseteq stored
    BY <1>7 DEF Rmmod, Stopped, RemoveNode, ClassUnregister, Unloaded, threads
  <2>2. \A n \in Node : Present(n)' => Present(n)
    BY <1>7 DEF Rmmod, Stopped, RemoveNode, ClassUnregister, Unloaded, Present, TypeOK, ModuleType
  <2> QED BY <1>c, <2>1, <2>2 DEF ContextInv, Running, Without, TypeOK, ThreadType
<1>8. ASSUME NEW n \in Node, ReadStat(n) \/ ReadLast(n) \/ Reset(n)
      PROVE  ContextInv'
  BY <1>1, <1>8, ReadFrame DEF module
<1> QED
  BY <1>a, <1>2, <1>3, <1>4, <1>5, <1>6, <1>7, <1>8, ActorSteps DEF module

-----------------------------------------------------------------------------
(* Loading and unloading, if nobody writes "on" at the wrong time.         *)

LEMMA LoadStep ==
  ASSUME IInv, Moves
  PROVE  LoadInv'
<1> SUFFICES ASSUME Without({"early_on"})', lpc' \in {"down", "register"}
             PROVE  (~ctrl_on /\ ctrl_lock = Nobody /\ \A t \in Task : ~Exists(t))'
  BY DEF LoadInv
<1> USE DEF IInv
<1>a. Loader \in Actor /\ Loader \notin Writer /\ Writer \subseteq Actor /\ Nobody \notin Actor
  BY CtlAssumption DEF Actor
<1>b. Without({"early_on"})
  BY CauseGrows DEF Without
<1>c. lpc \in {"down", "register"} =>
        /\ ~ctrl_on /\ ctrl_lock = Nobody
        /\ \A t \in Task : ~Exists(t)
        /\ \A a \in Actor : apc[a] = "idle"
  BY <1>a, <1>b DEF LoadInv, LockInv
<1>1. ASSUME NEW a \in Writer, StartStat(a), class_up \/ spin[a] # 0, UNCHANGED module
      PROVE  FALSE
  BY <1>1 DEF StartStat, OnCause, ClassInv, Without, module
<1>2. ASSUME NEW a \in Writer, StopStat(a), UNCHANGED module
      PROVE  FALSE
  BY <1>c, <1>2 DEF StopStat, module
<1>3. ASSUME NEW a \in Actor, InSection(a)
      PROVE  FALSE
  <2>1. lpc \in {"down", "register"}
    BY <1>3, ActorFrame DEF module
  <2> QED BY <1>3, <1>c, <2>1 DEF InSection, SkipNode, StartNode, StartNodeFails, StopNode,
             StopWait, LoopDone
<1>4. ASSUME NEW t \in Task, Kthread(t)
      PROVE  FALSE
  <2>1. lpc \in {"down", "register"} /\ Exists(t)
    BY <1>4, ThreadFrame DEF module, Kthread, KNeverRan, KInit, KRoll, KCheck, KWake, KExit, Exists
  <2> QED BY <1>c, <2>1
<1>5. CASE Insmod \/ Rmmod
  <2>1. lpc \in {"down", "register"}
    BY <1>5 DEF Insmod, Rmmod, ClassRegister, RegisterNode, SetMask, AllocBuffers, Registered,
       Stopped, RemoveNode, ClassUnregister, Unloaded
  <2> QED BY <1>5, <1>c, <2>1, LoadFrame DEF Exists
<1>6. ASSUME NEW n \in Node, ReadStat(n) \/ ReadLast(n) \/ Reset(n)
      PROVE  (~ctrl_on /\ ctrl_lock = Nobody /\ \A t \in Task : ~Exists(t))'
  BY <1>6, <1>c, ReadFrame DEF module, control, switch, Exists
<1> QED
  BY <1>1, <1>2, <1>3, <1>4, <1>5, <1>6, ActorSteps

(* Once "off" has gone through its loop no thread is left.                 *)
LEMMA NoThreads ==
  ASSUME IInv, ~ctrl_on, ctrl_lock = Nobody, NEW t \in Task, Exists(t), Present(knode[t])
  PROVE  FALSE
  BY CtlAssumption DEF IInv, TaskInv, SwitchInv, TypeOK, ThreadType

LEMMA UnloadStep ==
  ASSUME IInv, Moves
  PROVE  UnloadInv'
<1> SUFFICES ASSUME Without({"late_on"})'
             PROVE  (/\ \A t \in Task : Exists(t) => ~Gone(knode[t])
                     /\ lpc \in {"stopping", "remove", "unregister", "gone"} => ~ctrl_on
                     /\ lpc = "stopping" => ctrl_lock \in {Nobody, Loader}
                     /\ lpc \in {"remove", "unregister", "gone"} => ctrl_lock = Nobody)'
  BY DEF UnloadInv
<1> DEFINE Goal == (/\ \A t \in Task : Exists(t) => ~Gone(knode[t])
                    /\ lpc \in {"stopping", "remove", "unregister", "gone"} => ~ctrl_on
                    /\ lpc = "stopping" => ctrl_lock \in {Nobody, Loader}
                    /\ lpc \in {"remove", "unregister", "gone"} => ctrl_lock = Nobody)'
<1> USE DEF IInv
<1>a. Loader \in Actor /\ Loader \notin Writer /\ Writer \subseteq Actor /\ Nobody \notin Actor
  BY CtlAssumption DEF Actor
<1>b. /\ \A t \in Task : Exists(t) => ~Gone(knode[t])
      /\ lpc \in {"stopping", "remove", "unregister", "gone"} => ~ctrl_on
      /\ lpc = "stopping" => ctrl_lock \in {Nobody, Loader}
      /\ lpc \in {"remove", "unregister", "gone"} => ctrl_lock = Nobody
  <2>1. Without({"late_on"})
    BY CauseGrows DEF Without
  <2> QED BY <2>1 DEF UnloadInv
<1>1. ASSUME NEW a \in Writer, StartStat(a), class_up \/ spin[a] # 0, UNCHANGED module
      PROVE  Goal
  <2>1. lpc \notin {"stopping", "remove", "unregister", "gone"}
    BY <1>1 DEF StartStat, OnCause, ClassInv, Without
  <2> QED BY <1>1, <1>b, <2>1 DEF StartStat, module, threads, Exists, Gone
<1>2. ASSUME NEW a \in Writer, StopStat(a), UNCHANGED module
      PROVE  Goal
  BY <1>2, <1>b DEF StopStat, module, threads, Exists, Gone
<1>3. CASE StopStat(Loader) /\ lpc = "up" /\ lpc' = "stopping" /\ UNCHANGED node
  BY <1>3, <1>b DEF StopStat, threads, Exists, Gone
<1>4. ASSUME NEW a \in Actor, InSection(a)
      PROVE  Goal
  <2>0. ctrl_lock = a /\ lpc # "gone"
    BY <1>4, <1>a, <1>b DEF InSection, SkipNode, StartNode, StartNodeFails, StopNode, StopWait,
       LoopDone, LockInv
  <2>1. UNCHANGED module /\ UNCHANGED ctrl_on /\ ctrl_lock' \in {ctrl_lock, Nobody}
    BY <1>4, ActorFrame DEF InSection, SkipNode, StartNode, StartNodeFails, StopNode, StopWait,
       LoopDone, Oops, control, switch
  <2>2. ASSUME NEW t \in Task, Exists(t)' PROVE ~Gone(knode[t])'
    <3>1. CASE Exists(t) /\ knode'[t] = knode[t]
      BY <1>b, <2>1, <3>1 DEF Gone, module
    <3>2. CASE ~(Exists(t) /\ knode'[t] = knode[t])
      <4>1. StartNode(a) /\ ~Oops("half_node")
        BY <1>4, <2>2, <3>2 DEF InSection, SkipNode, StartNode, StartNodeFails, StopNode,
           StopWait, LoopDone, Oops, threads, Exists, TypeOK, ThreadType
      <4>2. knode'[t] = i[a] /\ node[i[a]] # "none"
        BY <4>1, <3>2, <2>2 DEF StartNode, Exists, TypeOK, ThreadType
      <4> QED BY <2>0, <2>1, <4>2 DEF Gone, module
    <3> QED BY <3>1, <3>2
  <2> QED BY <1>b, <2>1, <2>2 DEF module
<1>5. ASSUME NEW t \in Task, Kthread(t)
      PROVE  Goal
  <2>1. \A u \in Task : Exists(u)' <=> Exists(u)
    BY <1>5 DEF Kthread, KNeverRan, KInit, KRoll, KCheck, KWake, KExit, KGoto, Oops, threads,
       Exists, TypeOK, ThreadType
  <2> QED BY <1>5, <1>b, <2>1, ThreadFrame DEF module, control, switch, Gone
<1>6. CASE Insmod
  <2>1. \A n \in Node : Present(n) => Present(n)'
    BY <1>6 DEF Insmod, ClassRegister, RegisterNode, SetMask, AllocBuffers, Registered, Present,
       TypeOK, ModuleType
  <2>2. lpc' \in {"register", "up"}
    BY <1>6 DEF Insmod, ClassRegister, RegisterNode, SetMask, AllocBuffers, Registered
  <2> QED BY <1>6, <1>b, <2>1, <2>2, LoadFrame DEF Gone, Exists, Present, TypeOK, ThreadType
<1>7. CASE /\ ExitStop /\ ~ctrl_on /\ ctrl_lock = Nobody /\ lpc = "up" /\ lpc' = "remove"
           /\ UNCHANGED <<class_up, node, files, switch, threads, fault, cause>>
  BY <1>7, <1>b DEF control, switch, threads, Exists, Gone
<1>8. CASE Rmmod
  <2>1. ~ctrl_on /\ ctrl_lock = Nobody
    BY <1>8, <1>a, <1>b DEF Rmmod, Stopped, RemoveNode, ClassUnregister, Unloaded, LockInv,
       TypeOK, ControlType
  <2>2. \A t \in Task : ~Exists(t)
    BY <1>b, <2>1, NoThreads DEF Gone, Present
  <2> QED BY <1>8, <2>1, <2>2, LoadFrame DEF Exists
<1>9. ASSUME NEW n \in Node, ReadStat(n) \/ ReadLast(n) \/ Reset(n)
      PROVE  Goal
  BY <1>9, <1>b, ReadFrame DEF module, control, switch, Exists, Gone
<1> QED
  BY <1>1, <1>2, <1>3, <1>4, <1>5, <1>6, <1>7, <1>8, <1>9, ActorSteps

(* A node is half set up only while the loader is at it.                   *)
LEMMA ReadyStep ==
  ASSUME IInv, Moves
  PROVE  ReadyInv'
<1> SUFFICES ASSUME Without({"alloc_failed", "early_on"})', NEW n \in Node,
                    node'[n] \in {"bare", "masked"}
             PROVE  lpc' = "register" /\ n = i'[Loader]
  BY DEF ReadyInv
<1> USE DEF IInv
<1>a. Loader \in Actor /\ Loader \notin Writer
  BY CtlAssumption DEF Actor
<1>b. \A m \in Node : node[m] \in {"bare", "masked"} => lpc = "register" /\ m = i[Loader]
  BY CauseGrows DEF ReadyInv, Without
<1>1. ASSUME node' = node, lpc = "register" => lpc' = lpc /\ i'[Loader] = i[Loader]
      PROVE  lpc' = "register" /\ n = i'[Loader]
  BY <1>b, <1>1
<1>2. ASSUME NEW a \in Actor, (StartStat(a) \/ StopStat(a)), UNCHANGED node,
             UNCHANGED lpc \/ lpc = "up"
      PROVE  lpc' = "register" /\ n = i'[Loader]
  BY <1>1, <1>2 DEF StartStat, StopStat
<1>3. ASSUME NEW a \in Actor, InSection(a)
      PROVE  lpc' = "register" /\ n = i'[Loader]
  <2>1. UNCHANGED <<node, lpc>>
    BY <1>3, ActorFrame DEF module
  <2>2. apc[a] # "idle"
    BY <1>3 DEF InSection, SkipNode, StartNode, StartNodeFails, StopNode, StopWait, LoopDone
  <2>3. lpc = "register" => a # Loader
    BY <2>2 DEF LockInv
  <2>4. a # Loader => i'[Loader] = i[Loader]
    BY <1>3, <1>a DEF InSection, SkipNode, StartNode, StartNodeFails, StopNode, StopWait,
       LoopDone, NextNode, Oops, control, switch, TypeOK, ControlType
  <2> QED BY <1>1, <2>1, <2>3, <2>4
<1>4. CASE Insmod
  <2>1. CASE ClassRegister \/ Registered
    BY <1>b, <2>1 DEF ClassRegister, Registered
  <2>2. CASE RegisterNode \/ SetMask
    BY <1>a, <1>b, <2>2 DEF RegisterNode, SetMask, NextNode, control, switch, TypeOK, ModuleType,
       ControlType
  <2>3. CASE AllocBuffers
    BY <1>a, <1>b, <2>3 DEF AllocBuffers, NextNode, Without, TypeOK, ModuleType, ControlType
  <2> QED BY <1>4, <2>1, <2>2, <2>3 DEF Insmod
<1>5. CASE lpc = "up" /\ node' = node
  BY <1>1, <1>5
<1>6. CASE Rmmod
  BY <1>6, <1>b DEF Rmmod, Stopped, RemoveNode, ClassUnregister, Unloaded, TypeOK, ModuleType
<1>7. ASSUME UNCHANGED <<module, switch>>
      PROVE  lpc' = "register" /\ n = i'[Loader]
  BY <1>1, <1>7 DEF module, control, switch
<1> QED
  BY <1>a, <1>2, <1>3, <1>4, <1>5, <1>6, <1>7, ActorSteps, ThreadFrame, ReadFrame DEF module

LEMMA ThreadsStep ==
  ASSUME IInv, Moves
  PROVE  ThreadInv'
<1> DEFINE Goal ==
      (/\ ctrl_on /\ ctrl_lock = Nobody => \A n \in Node : Present(n) => task[n] # NULL
       /\ \A a \in Actor : apc[a] = "start" =>
            \A n \in Node : n < i[a] /\ Present(n) => task[n] # NULL
       /\ \A a \in Actor : apc[a] \in {"stop", "wait"} =>
            \A n \in Node : n >= i[a] /\ Present(n) => task[n] # NULL)
<1> SUFFICES ASSUME Without({"create_failed", "early_on"})'
             PROVE  Goal'
  BY DEF ThreadInv
<1> USE DEF IInv
<1>a. Loader \in Actor /\ Loader \notin Writer /\ NULL \notin Task /\ Nobody \notin Actor
  BY CtlAssumption DEF Actor
<1>b. Goal /\ Without({"create_failed", "early_on"})
  BY CauseGrows DEF ThreadInv, Without
<1>c. ASSUME NEW a \in Actor, apc[a] # "idle", NEW b \in Actor, b # a
      PROVE  apc[b] = "idle"
  BY <1>c DEF LockInv
<1>1. ASSUME UNCHANGED <<ctrl_on, ctrl_lock, task, apc>>,
             \A n \in Node : Present(n)' => Present(n),
             \A a \in Actor : apc[a] # "idle" => i'[a] = i[a]
      PROVE  Goal'
  BY <1>b, <1>1 DEF TypeOK, ControlType
<1>2. ASSUME NEW a \in Actor, StartStat(a) \/ StopStat(a), UNCHANGED node,
             a \in Writer \/ lpc = "up"
      PROVE  Goal'
  <2>1. \A b \in Actor : apc[b] = "idle"
    BY <1>a, <1>2 DEF StartStat, StopStat, MayStart, LockInv
  <2>2. i[a] = 1 /\ UNCHANGED <<i, task>> /\ ctrl_lock' = a
    BY <1>2, <2>1 DEF StartStat, StopStat, LockInv, Actor
  <2>3. CASE StartStat(a)
    <3>1. \A b \in Actor : apc'[b] = IF b = a THEN "start" ELSE "idle"
      BY <2>1, <2>3 DEF StartStat, TypeOK, ControlType
    <3>2. \A n \in Node : ~(n < i'[a])
      BY <2>2 DEF Node
    <3> QED BY <1>a, <2>2, <3>1, <3>2
  <2>4. CASE StopStat(a)
    <3>1. \A b \in Actor : apc'[b] = IF b = a THEN "stop" ELSE "idle"
      BY <2>1, <2>4 DEF StopStat, TypeOK, ControlType
    <3>2. \A n \in Node : Present(n) => task[n] # NULL
      BY <1>b, <2>4 DEF StopStat
    <3> QED BY <1>2, <1>a, <2>2, <3>1, <3>2 DEF Present
  <2> QED BY <1>2, <2>3, <2>4
<1>3. ASSUME NEW a \in Actor, InSection(a)
      PROVE  Goal'
  <2>0. /\ UNCHANGED node /\ apc[a] # "idle" /\ ctrl_lock = a
        /\ \A b \in Actor : b # a => apc[b] = "idle"
    BY <1>3, <1>c, ActorFrame DEF InSection, SkipNode, StartNode, StartNodeFails, StopNode,
       StopWait, LoopDone, LockInv, module
  <2>1. CASE Oops("null_task") \/ Oops("half_node") \/ Oops("freed_node")
    BY <1>1, <2>0, <2>1 DEF Oops, control, switch, Present
  <2>2. CASE SkipNode(a)
    <3>1. /\ i[a] \in Node /\ ~Present(i[a]) /\ i' = [i EXCEPT ![a] = @ + 1]
          /\ UNCHANGED <<ctrl_lock, ctrl_on, apc, task>>
      BY <2>2 DEF SkipNode, NextNode, Present
    <3>2. \A n \in Node : /\ n < i'[a] => n < i[a] \/ n = i[a]
                          /\ n >= i'[a] => n >= i[a]
      BY <3>1 DEF TypeOK, ControlType, Node
    <3> QED BY <1>a, <1>b, <2>0, <3>1, <3>2 DEF Present
  <2>3. CASE StartNode(a) /\ ~Oops("half_node")
    <3>1. PICK t \in Task : task' = [task EXCEPT ![i[a]] = t]
      BY <2>3 DEF StartNode
    <3>2. /\ i[a] \in Node /\ apc[a] = "start" /\ i' = [i EXCEPT ![a] = @ + 1]
          /\ UNCHANGED <<ctrl_lock, ctrl_on, apc>>
      BY <2>3 DEF StartNode, NextNode
    <3>3. \A n \in Node : n < i'[a] => n < i[a] \/ n = i[a]
      BY <3>2 DEF TypeOK, ControlType, Node
    <3>4. \A n \in Node : n < i'[a] /\ Present(n) => task'[n] # NULL
      BY <1>a, <1>b, <3>1, <3>2, <3>3 DEF TypeOK, ControlType
    <3> QED BY <1>a, <2>0, <3>2, <3>4 DEF Present
  <2>4. CASE StartNodeFails(a)
    BY <2>4 DEF StartNodeFails, Without
  <2>5. CASE StopNode(a) /\ ~Oops("null_task")
    <3>1. /\ apc[a] = "stop" /\ apc' = [apc EXCEPT ![a] = "wait"]
          /\ UNCHANGED <<ctrl_lock, ctrl_on, task, i>>
      BY <2>5 DEF StopNode
    <3>2. \A b \in Actor : apc'[b] = IF b = a THEN "wait" ELSE "idle"
      BY <2>0, <3>1 DEF TypeOK, ControlType
    <3> QED BY <1>a, <1>b, <2>0, <3>1, <3>2 DEF Present
  <2>6. CASE StopWait(a) /\ ~Oops("freed_node")
    <3>1. /\ apc[a] = "wait" /\ i[a] \in Node /\ apc' = [apc EXCEPT ![a] = "stop"]
          /\ task' = [task EXCEPT ![i[a]] = NULL] /\ i' = [i EXCEPT ![a] = @ + 1]
          /\ UNCHANGED <<ctrl_lock, ctrl_on>>
      BY <2>6 DEF StopWait, NextNode, SwitchInv
    <3>2. \A b \in Actor : apc'[b] = IF b = a THEN "stop" ELSE "idle"
      BY <2>0, <3>1 DEF TypeOK, ControlType
    <3>3. \A n \in Node : n >= i'[a] => n >= i[a] /\ n # i[a]
      BY <3>1 DEF TypeOK, ControlType, Node
    <3>4. \A n \in Node : n >= i'[a] /\ Present(n) => task'[n] # NULL
      BY <1>b, <3>1, <3>3 DEF TypeOK, ControlType
    <3> QED BY <1>a, <2>0, <3>1, <3>2, <3>4 DEF Present
  <2>7. CASE LoopDone(a)
    <3>1. /\ apc[a] \in {"start", "stop"} /\ i[a] \notin Node
          /\ apc' = [apc EXCEPT ![a] = "idle"] /\ UNCHANGED <<ctrl_on, task>>
      BY <2>7 DEF LoopDone
    <3>2. \A b \in Actor : apc'[b] = "idle"
      BY <2>0, <3>1 DEF TypeOK, ControlType
    <3>3. \A n \in Node : n < i[a]
      BY <3>1, CtlAssumption DEF Node, TypeOK, ControlType
    <3>4. ctrl_on => \A n \in Node : Present(n) => task[n] # NULL
      BY <1>b, <3>1, <3>3 DEF SwitchInv
    <3> QED BY <2>0, <3>1, <3>2, <3>4 DEF Present
  <2> QED
    BY <1>3, <2>1, <2>2, <2>3, <2>4, <2>5, <2>6, <2>7 DEF InSection
<1>4. CASE Insmod
  <2>1. ~ctrl_on /\ \A a \in Actor : apc[a] = "idle"
    BY <1>4, <1>a, <1>b DEF Insmod, ClassRegister, RegisterNode, SetMask, AllocBuffers, Registered,
       LoadInv, LockInv, Without
  <2> QED BY <1>4, <2>1, LoadFrame
<1>5. CASE UNCHANGED <<node, switch>>
  BY <1>1, <1>5 DEF control, switch, Present
<1>6. CASE Rmmod
  <2>1. \A n \in Node : Present(n)' => Present(n)
    BY <1>6 DEF Rmmod, Stopped, RemoveNode, ClassUnregister, Unloaded, Present, TypeOK, ModuleType
  <2>2. apc[Loader] = "idle" /\ \A a \in Actor : a # Loader => i'[a] = i[a]
    BY <1>6, <1>a DEF Rmmod, Stopped, RemoveNode, ClassUnregister, Unloaded, LockInv, NextNode,
       control, switch, TypeOK, ControlType
  <2> QED BY <1>1, <1>6, <2>1, <2>2, LoadFrame
<1> QED
  BY <1>a, <1>2, <1>3, <1>4, <1>5, <1>6, ActorSteps, ThreadFrame, ReadFrame DEF module

-----------------------------------------------------------------------------
(* Oopses.                                                                 *)

(* A step that does not fail adds nothing that needs a cause.              *)
LEMMA FaultFrame ==
  ASSUME IInv, Moves, fault' = fault \/ fault' \in {"none", "last_null_ctx"}
  PROVE  FaultHasCause'
  BY CauseGrows DEF IInv, FaultHasCause

LEMMA FaultStep ==
  ASSUME IInv, Moves
  PROVE  FaultHasCause'
<1> USE DEF IInv
<1>a. Loader \in Actor /\ NULL \notin Task /\ Nobody \notin Actor
  BY CtlAssumption DEF Actor
<1> DEFINE Quiet == fault' = fault \/ fault' \in {"none", "last_null_ctx"}
<1>b. ASSUME NEW a \in Actor, apc[a] # "idle", Without({"early_on"})
      PROVE  lpc \notin {"down", "register"}
  BY <1>a, <1>b DEF LoadInv, LockInv
<1>1. ASSUME NEW a \in Actor, InSection(a)
      PROVE  FaultHasCause'
  <2>0. apc[a] # "idle" /\ i[a] \in 1 .. NumNodes + 1
    BY <1>1 DEF InSection, SkipNode, StartNode, StartNodeFails, StopNode, StopWait, LoopDone,
       TypeOK, ControlType
  <2>1. CASE StartNode(a) /\ Oops("half_node")
    <3>1. node[i[a]] = "bare" \/ Quiet
      BY <2>1 DEF StartNode
    <3>2. CASE node[i[a]] = "bare"
      <4>1. ~Without({"alloc_failed", "early_on"})
        BY <1>b, <2>0, <2>1, <3>2 DEF StartNode, ReadyInv, Without
      <4>2. cause \cap {"alloc_failed", "early_on"} # {}
        BY <4>1 DEF Without
      <4> QED BY <2>1, <4>2 DEF Oops, FaultHasCause
    <3> QED BY <3>1, <3>2, FaultFrame
  <2>2. CASE StopNode(a) /\ Oops("null_task")
    <3>1. task[i[a]] = NULL \/ Quiet
      BY <2>2 DEF StopNode
    <3>2. CASE task[i[a]] = NULL
      <4>0. apc[a] = "stop" /\ i[a] \in Node /\ Present(i[a]) /\ i[a] >= i[a]
        BY <2>0, <2>2 DEF StopNode, Present
      <4>1. ~Without({"create_failed", "early_on"})
        BY <3>2, <4>0 DEF ThreadInv
      <4>2. cause \cap {"create_failed", "early_on"} # {}
        BY <4>1 DEF Without
      <4> QED BY <2>2, <4>2 DEF Oops, FaultHasCause
    <3> QED BY <3>1, <3>2, FaultFrame
  <2>3. CASE StopWait(a) /\ Oops("freed_node")
    <3>1. node[i[a]] = "none" \/ Quiet
      BY <2>3 DEF StopWait
    <3>2. CASE node[i[a]] = "none"
      <4>1. Exists(task[i[a]]) /\ knode[task[i[a]]] = i[a] /\ task[i[a]] \in Task
        BY <2>3 DEF StopWait, SwitchInv
      <4>2. "late_on" \in cause
        BY <3>2, <4>1 DEF UnloadInv, Without, Gone
      <4> QED BY <2>3, <4>2 DEF Oops, FaultHasCause
    <3> QED BY <3>1, <3>2, FaultFrame
  <2>4. CASE ~(StartNode(a) /\ Oops("half_node")) /\ ~(StopNode(a) /\ Oops("null_task"))
             /\ ~(StopWait(a) /\ Oops("freed_node"))
    <3>1. fault' = fault
      BY <1>1, <2>4 DEF InSection, SkipNode, StartNode, StartNodeFails, StopNode, StopWait, LoopDone
    <3> QED BY <3>1, FaultFrame
  <2> QED BY <2>1, <2>2, <2>3, <2>4
<1>2. ASSUME NEW t \in Task, Kthread(t)
      PROVE  FaultHasCause'
  <2>0. Exists(t) /\ knode[t] \in Node
    BY <1>2 DEF Kthread, KNeverRan, KInit, KRoll, KCheck, KWake, KExit, Exists, TypeOK, ThreadType
  <2>1. CASE Oops("freed_node") /\ Gone(knode[t])
    <3>1. "late_on" \in cause
      BY <2>0, <2>1 DEF UnloadInv, Without
    <3> QED BY <2>1, <3>1 DEF Oops, FaultHasCause
  <2>2. CASE Oops("half_node") /\ ~Gone(knode[t]) /\ node[knode[t]] # "ready"
    <3>1. node[knode[t]] \in {"bare", "masked"}
      BY <2>0, <2>2 DEF Gone, TypeOK, ModuleType
    <3>2. ~Without({"alloc_failed", "early_on"})
      BY <2>0, <3>1 DEF ReadyInv, LoadInv, Without
    <3>3. cause \cap {"alloc_failed", "early_on"} # {}
      BY <3>2 DEF Without
    <3> QED BY <2>2, <3>3 DEF Oops, FaultHasCause
  <2>3. CASE fault' = fault
    BY <2>3, FaultFrame
  <2> QED
    BY <1>2, <2>1, <2>2, <2>3 DEF Kthread, KNeverRan, KInit, KRoll, KCheck, KWake, KExit, Gone
<1>3. ASSUME NEW n \in Node, ReadStat(n) \/ ReadLast(n) \/ Reset(n)
      PROVE  FaultHasCause'
  <2>1. Quiet
    BY <1>3 DEF ReadStat, ReadLast, Reset, Oops, ContextInv
  <2> QED BY <2>1, FaultFrame
<1>4. CASE Insmod \/ Rmmod
  BY <1>4, LoadFrame, FaultFrame
<1>5. CASE fault' = fault
  BY <1>5, FaultFrame
<1> QED
  BY <1>a, <1>1, <1>2, <1>3, <1>4, <1>5, ActorSteps DEF StartStat, StopStat

-----------------------------------------------------------------------------
(* The theorems.                                                           *)

(* A step that changes nothing, or nothing but who spins for ctrl_lock.    *)
LEMMA QuietStep ==
  ASSUME IInv, UNCHANGED <<module, switch, threads, fault, cause>>, TypeOK', ClassInv'
  PROVE  IInv'
<1> USE DEF IInv, module, switch, threads
<1>1. LockInv' /\ TaskInv' /\ SwitchInv'
  BY DEF LockInv, TaskInv, SwitchInv, Exists, Present
<1>2. ContextInv' /\ LoadInv'
  BY DEF ContextInv, LoadInv, Exists, Present, Running, Without
<1>3. UnloadInv' /\ ReadyInv'
  BY DEF UnloadInv, ReadyInv, Exists, Gone, Without
<1>4. ThreadInv' /\ FaultHasCause'
  BY DEF ThreadInv, FaultHasCause, Present, Without
<1> QED BY <1>1, <1>2, <1>3, <1>4

LEMMA NextIInv == IInv /\ [Next]_vars => IInv'
<1>1. ASSUME IInv, [Next]_vars PROVE TypeOK'
  BY <1>1, NextType DEF IInv
<1>2. ASSUME IInv, Moves PROVE IInv'
  <2>1. TypeOK'
    BY <1>1, <1>2 DEF Moves
  <2> QED
    BY <1>2, <2>1, LockStep, ClassStep, TaskStep, SwitchStep, ContextStep, LoadStep, UnloadStep,
       ReadyStep, ThreadsStep, FaultStep DEF IInv
<1>3. ASSUME IInv, TypeOK', SpinStep PROVE IInv'
  <2>1. UNCHANGED <<module, switch, threads, fault, cause>>
    BY <1>3 DEF SpinStep, Spin, SpinDone
  <2>2. ClassInv'
    <3>1. ASSUME NEW a \in Actor, NEW n \in Node, Spin(a, n) PROVE ClassInv'
      <4>1. lpc \notin {"down", "gone"}
        BY <1>3, <3>1 DEF Spin, IInv, ClassInv
      <4> QED BY <1>3, <2>1, <4>1 DEF IInv, ClassInv, module
    <3>2. ASSUME NEW w \in Writer, SpinDone(w) PROVE ClassInv'
      BY <1>3, <2>1, <3>2 DEF SpinDone, IInv, ClassInv, module, TypeOK, ControlType
    <3> QED BY <1>3, <3>1, <3>2 DEF SpinStep
  <2> QED BY <1>3, <2>1, <2>2, QuietStep
<1>4. ASSUME IInv, TypeOK', UNCHANGED vars PROVE IInv'
  <2>1. UNCHANGED <<module, switch, threads, fault, cause>> /\ ClassInv'
    BY <1>4 DEF vars, module, switch, threads, IInv, ClassInv
  <2> QED BY <1>4, <2>1, QuietStep
<1> QED
  BY <1>1, <1>2, <1>3, <1>4 DEF Moves

(* The strengthened invariant holds in every reachable state: xstat_init,  *)
(* xstat_exit, start_stat, stop_stat and the kernel threads, in any order. *)
THEOREM Inductive == Spec => []IInv
<1>1. Init => IInv
  BY InitIInv
<1>2. IInv /\ [Next]_vars => IInv'
  BY NextIInv
<1> QED
  BY <1>1, <1>2, PTL DEF Spec

(* Every variable keeps its type, whatever the loader, the writers and the *)
(* threads do.                                                             *)
THEOREM TypeCorrect == Spec => []TypeOK
<1>1. IInv => TypeOK
  BY DEF IInv
<1> QED
  BY <1>1, Inductive, PTL

(* One thread per node: start_stat makes no second one before stop_stat    *)
(* has waited for the first.                                               *)
THEOREM OneSamplerPerNode == Spec => []OneSampler
<1>1. IInv => OneSampler
  BY OnlyThread DEF Alive, OneSampler, Exists
<1> QED
  BY <1>1, Inductive, PTL

(* A thread samples through contexts init_counters gave it, which          *)
(* exit_counters has not yet taken back.                                   *)
THEOREM ContextsAreOwn == Spec => []OwnContexts
<1>1. IInv => OwnContexts
  BY DEF IInv, ContextInv, OwnContexts, Running, Present, Gone
<1> QED
  BY <1>1, Inductive, PTL

(* When stop_stat has returned, every thread has ended and given back its  *)
(* contexts, if no "on" came after xstat_exit's stop_stat.                 *)
THEOREM OffIsQuiet == Spec => []OffMeansQuiet
<1>1. ASSUME IInv, ~ctrl_on, ctrl_lock = Nobody, "late_on" \notin cause
      PROVE  /\ \A t \in Task : ~Alive(t)
             /\ \A n \in Node : ctxs[n] # "live"
  <2>1. Without({"late_on"})
    BY <1>1 DEF Without
  <2>2. \A t \in Task : ~Exists(t)
    BY <1>1, <2>1, NoThreads DEF IInv, UnloadInv, Gone, Present
  <2>3. \A t \in Task : ~Alive(t) /\ ~Running(t)
    BY <2>2 DEF Alive, Running, Exists
  <2> QED BY <1>1, <2>1, <2>3 DEF IInv, ContextInv
<1>2. IInv => OffMeansQuiet
  BY <1>1 DEF OffMeansQuiet
<1> QED
  BY <1>2, Inductive, PTL

(* What can go wrong in start_stat, stop_stat, the threads and the reads   *)
(* of stat<n> has one of the causes the code leaves open: a thread that    *)
(* could not be made, memory that was not there, an "on" during xstat_init *)
(* or after xstat_exit's stop_stat.                                        *)
THEOREM FaultsHaveCauses == Spec => []FaultHasCause
<1>1. IInv => FaultHasCause
  BY DEF IInv
<1> QED
  BY <1>1, Inductive, PTL

(* Who waits in stop_stat for a thread whose CPU is kept by a process that *)
(* spins for ctrl_lock waits for ever: the thread does not run, ctrl_lock  *)
(* is not released, and the spinning does not end.                         *)
THEOREM StuckForGood == Spec => [][\A a \in Actor : Stuck(a) => Stuck(a)']_vars
<1> DEFINE P == \A a \in Actor : Stuck(a) => Stuck(a)'
<1>1. ASSUME IInv, Next, NEW a \in Actor, Stuck(a)
      PROVE  Stuck(a)'
  <2> USE DEF IInv
  <2> DEFINE t == task[i[a]]
  <2>1. PICK b \in Actor : spin[b] = i[a]
    BY <1>1 DEF Stuck
  <2>2. /\ apc[a] = "wait" /\ i[a] \in Node /\ t \in Task /\ knode[t] = i[a] /\ kpc[t] # "dead"
        /\ kpc[t] # "none" /\ i[a] # 0
    BY <1>1 DEF Stuck, Alive, SwitchInv, Node
  <2>3. ctrl_lock = a /\ a # Nobody /\ \A c \in Actor : c # a => apc[c] = "idle"
    BY <1>1, <2>2, CtlAssumption DEF LockInv, Actor
  <2>4. a = Loader => lpc = "stopping"
    BY <1>1, <2>2 DEF LockInv
  <2>5. ~HasCpu(t)
    BY <2>1, <2>2 DEF HasCpu
  <2>6. SUFFICES apc'[a] = apc[a] /\ i'[a] = i[a] /\ t' = t /\ kpc'[t] = kpc[t] /\ spin'[b] = spin[b]
    BY <1>1, <2>1 DEF Stuck, Alive
  <2>7. ASSUME NEW c \in Actor, InSection(c)
        PROVE  FALSE
    BY <2>2, <2>3, <2>7 DEF InSection, SkipNode, StartNode, StartNodeFails, StopNode, StopWait, LoopDone
  <2>8. ASSUME NEW c \in Actor, StartStat(c) \/ StopStat(c)
        PROVE  FALSE
    BY <2>3, <2>8 DEF StartStat, MayStart, StopStat
  <2>9. ASSUME NEW u \in Task, Kthread(u)
        PROVE  apc'[a] = apc[a] /\ i'[a] = i[a] /\ t' = t /\ kpc'[t] = kpc[t] /\ spin'[b] = spin[b]
    <3>1. u # t
      BY <2>5, <2>9 DEF Kthread
    <3>2. UNCHANGED <<apc, i, task, spin>>
      BY <2>9, ThreadFrame DEF control, switch
    <3>3. kpc' = kpc \/ \E pc \in {"roll", "check", "sleep", "exit", "dead"} : KGoto(u, pc)
      BY <2>9 DEF Kthread, KNeverRan, KInit, KRoll, KCheck, KWake, KExit, Oops, threads
    <3> QED BY <1>1, <2>2, <3>1, <3>2, <3>3 DEF KGoto, TypeOK, ThreadType
  <2>10. CASE Insmod \/ Rmmod
    <3>1. UNCHANGED <<apc, task, kpc, spin>>
      BY <2>10 DEF Insmod, Rmmod, ClassRegister, RegisterNode, SetMask, AllocBuffers, Registered,
         Stopped, RemoveNode, ClassUnregister, Unloaded, control, switch, threads
    <3>2. i'[a] = i[a]
      BY <1>1, <2>2, <2>4, <2>10, CtlAssumption DEF Insmod, Rmmod, ClassRegister, RegisterNode, SetMask,
         AllocBuffers, Registered, Stopped, RemoveNode, ClassUnregister, Unloaded, NextNode,
         control, switch, TypeOK, ControlType
    <3> QED BY <3>1, <3>2
  <2>11. ASSUME NEW n \in Node, ReadStat(n) \/ ReadLast(n) \/ Reset(n)
         PROVE  UNCHANGED <<apc, i, task, kpc, spin>>
    BY <2>11, ReadFrame DEF control, switch
  <2>12. ASSUME NEW c \in Actor, NEW n \in Node, Spin(c, n)
         PROVE  apc'[a] = apc[a] /\ i'[a] = i[a] /\ t' = t /\ kpc'[t] = kpc[t] /\ spin'[b] = spin[b]
    <3>1. c # b
      BY <2>1, <2>2, <2>12 DEF Spin
    <3> QED BY <1>1, <2>12, <3>1 DEF Spin, switch, threads, TypeOK, ControlType
  <2>13. ~ \E w \in Writer : SpinDone(w)
    BY <2>3 DEF SpinDone
  <2> QED
    BY <1>1, <2>3, <2>7, <2>8, <2>9, <2>10, <2>11, <2>12, <2>13, ActorSteps
       DEF Moves, SpinStep, Actor
<1>2. IInv /\ [Next]_vars => [P]_vars
  BY <1>1
<1> QED
  BY <1>2, Inductive, PTL DEF Spec
=============================================================================
