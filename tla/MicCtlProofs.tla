---------------------------- MODULE MicCtlProofs ----------------------------
(***************************************************************************)
(* micstat's on, off, load and unload, for any number of processes and     *)
(* task_structs: as long as writes of ctrl do not overlap there is one     *)
(* sampler and it is quiet after off; every oops of the threads has one of *)
(* the causes named. The layout is that of StatCtlProofs.                  *)
(***************************************************************************)
EXTENDS MicCtl, TLAPS

LEMMA InitIInv == Init => IInv
<1> SUFFICES ASSUME Init PROVE IInv
  OBVIOUS
<1> USE MicAssumption DEF Init, Actor
<1>1. TypeOK
  <2>1. kpc \in [Task -> {"none", "created", "new", "look", "roll", "sleep", "dead", "freed"}]
    OBVIOUS
  <2>2. /\ apc \in [Actor -> {"idle", "set", "create", "schedule", "wake", "stop", "wait",
                               "lower_first", "lower"}]
        /\ stopping \in [Actor -> Task \cup {NULL}]
    OBVIOUS
  <2> QED
    BY <2>1, <2>2 DEF TypeOK
<1>2. PoolInv /\ SwitchInv /\ TaskInv /\ LoaderInv
  BY DEF PoolInv, SwitchInv, TaskInv, LoaderInv, Alive, Busy, Without, Due
<1>3. FaultHasCause
  BY DEF FaultHasCause
<1> QED
  BY <1>1, <1>2, <1>3 DEF IInv

LEMMA TypeStep ==
  ASSUME IInv, Next
  PROVE  TypeOK'
<1> USE MicAssumption DEF IInv, TypeOK, Goto, KGoto, Oops, Actor, module,
        control, threads
<1>1. ASSUME NEW w \in Writer, On(w)
      PROVE  TypeOK'
  BY <1>1 DEF On, Overlap, Late
<1>2. ASSUME NEW w \in Writer, Set(w)
      PROVE  TypeOK'
  BY <1>2 DEF Set
<1>3. ASSUME NEW w \in Writer, Create(w)
      PROVE  TypeOK'
  BY <1>3 DEF Create
<1>4. ASSUME NEW w \in Writer, Schedule(w)
      PROVE  TypeOK'
  BY <1>4 DEF Schedule
<1>5. ASSUME NEW w \in Writer, WakeUp(w)
      PROVE  TypeOK'
  BY <1>5 DEF WakeUp
<1>6. ASSUME NEW w \in Writer, Off(w)
      PROVE  TypeOK'
  BY <1>6 DEF Off, Overlap, Late
<1>7. ASSUME NEW w \in Writer, Lower(w)
      PROVE  TypeOK'
  BY <1>7 DEF Lower
<1>8. ASSUME NEW w \in Writer, WriteGone(w)
      PROVE  TypeOK'
  BY <1>8 DEF WriteGone
<1>9. ASSUME NEW a \in Actor, Stop(a)
      PROVE  TypeOK'
  <2>1. CASE kthread_task \notin Task \/ kpc[kthread_task] = "freed"
    BY <1>9, <2>1 DEF Stop
  <2>2. CASE kthread_task \in Task /\ kpc[kthread_task] # "freed"
    <3>1. kpc' \in [Task -> {"none", "created", "new", "look", "roll", "sleep", "dead", "freed"}]
      BY <1>9, <2>2 DEF Stop
    <3>2. /\ should_stop' \subseteq Task
          /\ stopping' \in [Actor -> Task \cup {NULL}]
          /\ apc' \in [Actor -> {"idle", "set", "create", "schedule", "wake", "stop", "wait",
                                 "lower_first", "lower"}]
          /\ UNCHANGED <<module, on, kthread_task, fault, cause>>
      BY <1>9, <2>2 DEF Stop
    <3> QED
      BY <3>1, <3>2
  <2> QED
    BY <2>1, <2>2
<1>10. ASSUME NEW a \in Actor, StopWait(a)
      PROVE  TypeOK'
  BY <1>10 DEF StopWait, AfterStop
<1>11. ASSUME NEW t \in Task, KGone(t)
      PROVE  TypeOK'
  BY <1>11 DEF KGone
<1>12. ASSUME NEW t \in Task, KStart(t)
      PROVE  TypeOK'
  BY <1>12 DEF KStart
<1>13. ASSUME NEW t \in Task, KLook(t)
      PROVE  TypeOK'
  BY <1>13 DEF KLook
<1>14. ASSUME NEW t \in Task, KRoll(t)
      PROVE  TypeOK'
  BY <1>14 DEF KRoll
<1>15. ASSUME NEW t \in Task, KWake(t)
      PROVE  TypeOK'
  BY <1>15 DEF KWake
<1>16. ASSUME NEW t \in Task, Reap(t)
      PROVE  TypeOK'
  BY <1>16 DEF Reap
<1>17. ASSUME NEW t \in Task, Reuse(t)
      PROVE  TypeOK'
  BY <1>17 DEF Reuse
<1>18. ASSUME Insmod
      PROVE  TypeOK'
  BY <1>18 DEF Insmod
<1>19. ASSUME ExitStop
      PROVE  TypeOK'
  BY <1>19 DEF ExitStop, Overlap
<1>20. ASSUME ExitCounters
      PROVE  TypeOK'
  BY <1>20 DEF ExitCounters
<1>21. ASSUME ExitDone
      PROVE  TypeOK'
  BY <1>21 DEF ExitDone
<1> QED
  BY <1>1, <1>2, <1>3, <1>4, <1>5, <1>6, <1>7, <1>8, <1>9, <1>10, <1>11,
     <1>12, <1>13, <1>14, <1>15, <1>16, <1>17, <1>18, <1>19, <1>20, <1>21
     DEF Next, Write, InStop, KRun

(* Only Create points kthread_task at a task, which it has just taken, and *)
(* only Reuse gives one back.                                              *)
LEMMA PoolStep ==
  ASSUME IInv, Next
  PROVE  PoolInv'
<1> USE MicAssumption DEF IInv, TypeOK, Goto, KGoto, Oops, PoolInv, module,
        control, threads
<1>1. ASSUME NEW w \in Writer, On(w)
      PROVE  PoolInv'
  BY <1>1 DEF On
<1>2. ASSUME NEW w \in Writer, Set(w)
      PROVE  PoolInv'
  BY <1>2 DEF Set
<1>3. ASSUME NEW w \in Writer, Create(w)
      PROVE  PoolInv'
  BY <1>3 DEF Create
<1>4. ASSUME NEW w \in Writer, Schedule(w)
      PROVE  PoolInv'
  BY <1>4 DEF Schedule
<1>5. ASSUME NEW w \in Writer, WakeUp(w)
      PROVE  PoolInv'
  BY <1>5 DEF WakeUp
<1>6. ASSUME NEW w \in Writer, Off(w)
      PROVE  PoolInv'
  BY <1>6 DEF Off
<1>7. ASSUME NEW w \in Writer, Lower(w)
      PROVE  PoolInv'
  BY <1>7 DEF Lower
<1>8. ASSUME NEW w \in Writer, WriteGone(w)
      PROVE  PoolInv'
  BY <1>8 DEF WriteGone
<1>9. ASSUME NEW a \in Actor, Stop(a)
      PROVE  PoolInv'
  BY <1>9 DEF Stop
<1>10. ASSUME NEW a \in Actor, StopWait(a)
      PROVE  PoolInv'
  BY <1>10 DEF StopWait
<1>11. ASSUME NEW t \in Task, KGone(t)
      PROVE  PoolInv'
  BY <1>11 DEF KGone
<1>12. ASSUME NEW t \in Task, KStart(t)
      PROVE  PoolInv'
  BY <1>12 DEF KStart
<1>13. ASSUME NEW t \in Task, KLook(t)
      PROVE  PoolInv'
  BY <1>13 DEF KLook
<1>14. ASSUME NEW t \in Task, KRoll(t)
      PROVE  PoolInv'
  BY <1>14 DEF KRoll
<1>15. ASSUME NEW t \in Task, KWake(t)
      PROVE  PoolInv'
  BY <1>15 DEF KWake
<1>16. ASSUME NEW t \in Task, Reap(t)
      PROVE  PoolInv'
  BY <1>16 DEF Reap
<1>17. ASSUME NEW t \in Task, Reuse(t)
      PROVE  PoolInv'
  BY <1>17 DEF Reuse
<1>18. ASSUME Insmod \/ ExitStop \/ ExitCounters \/ ExitDone
      PROVE  PoolInv'
  BY <1>18 DEF Insmod, ExitStop, ExitCounters, ExitDone
<1> QED
  BY <1>1, <1>2, <1>3, <1>4, <1>5, <1>6, <1>7, <1>8, <1>9, <1>10, <1>11,
     <1>12, <1>13, <1>14, <1>15, <1>16, <1>17, <1>18
     DEF Next, Write, InStop, KRun

LEMMA SwitchStep ==
  ASSUME IInv, Next
  PROVE  SwitchInv'
<1> USE MicAssumption DEF IInv, TypeOK, Goto, KGoto, Oops, SwitchInv,
        LoaderInv, Busy, Without, Alive, Actor, module, control, threads
<1>1. ASSUME NEW w \in Writer, On(w)
      PROVE  SwitchInv'
  BY <1>1 DEF On, Overlap, Late
<1>2. ASSUME NEW w \in Writer, Set(w)
      PROVE  SwitchInv'
  BY <1>2 DEF Set
<1>3. ASSUME NEW w \in Writer, Create(w)
      PROVE  SwitchInv'
  BY <1>3 DEF Create
<1>4. ASSUME NEW w \in Writer, Schedule(w)
      PROVE  SwitchInv'
  BY <1>4 DEF Schedule
<1>5. ASSUME NEW w \in Writer, WakeUp(w)
      PROVE  SwitchInv'
  BY <1>5 DEF WakeUp
<1>6. ASSUME NEW w \in Writer, Off(w)
      PROVE  SwitchInv'
  BY <1>6 DEF Off, Overlap, Late
<1>7. ASSUME NEW w \in Writer, Lower(w)
      PROVE  SwitchInv'
  BY <1>7 DEF Lower
<1>8. ASSUME NEW w \in Writer, WriteGone(w)
      PROVE  SwitchInv'
  BY <1>8 DEF WriteGone
<1>9. ASSUME NEW a \in Actor, Stop(a)
      PROVE  SwitchInv'
  BY <1>9 DEF Stop
<1>10. ASSUME NEW a \in Actor, StopWait(a)
      PROVE  SwitchInv'
  BY <1>10 DEF StopWait, AfterStop
<1>11. ASSUME NEW t \in Task, KGone(t)
      PROVE  SwitchInv'
  BY <1>11 DEF KGone
<1>12. ASSUME NEW t \in Task, KStart(t)
      PROVE  SwitchInv'
  BY <1>12 DEF KStart
<1>13. ASSUME NEW t \in Task, KLook(t)
      PROVE  SwitchInv'
  BY <1>13 DEF KLook
<1>14. ASSUME NEW t \in Task, KRoll(t)
      PROVE  SwitchInv'
  BY <1>14 DEF KRoll
<1>15. ASSUME NEW t \in Task, KWake(t)
      PROVE  SwitchInv'
  BY <1>15 DEF KWake
<1>16. ASSUME NEW t \in Task, Reap(t)
      PROVE  SwitchInv'
  BY <1>16 DEF Reap
<1>17. ASSUME NEW t \in Task, Reuse(t)
      PROVE  SwitchInv'
  BY <1>17 DEF Reuse
<1>18. ASSUME Insmod \/ ExitCounters \/ ExitDone
      PROVE  SwitchInv'
  BY <1>18 DEF Insmod, ExitCounters, ExitDone
<1>19. ASSUME ExitStop
      PROVE  SwitchInv'
  BY <1>19 DEF ExitStop, Overlap
<1> QED
  BY <1>1, <1>2, <1>3, <1>4, <1>5, <1>6, <1>7, <1>8, <1>9, <1>10, <1>11,
     <1>12, <1>13, <1>14, <1>15, <1>16, <1>17, <1>18, <1>19
     DEF Next, Write, InStop, KRun

LEMMA TaskStep ==
  ASSUME IInv, Next
  PROVE  TaskInv'
<1> USE MicAssumption DEF IInv, TypeOK, Goto, KGoto, Oops, PoolInv,
        SwitchInv, TaskInv, LoaderInv, Busy, Without, Alive, Actor, Due,
        module, control, threads
<1>1. ASSUME NEW w \in Writer, On(w)
      PROVE  TaskInv'
  BY <1>1 DEF On, Overlap, Late
<1>2. ASSUME NEW w \in Writer, Set(w)
      PROVE  TaskInv'
  BY <1>2 DEF Set
<1>3. ASSUME NEW w \in Writer, Create(w)
      PROVE  TaskInv'
  BY <1>3 DEF Create
<1>4. ASSUME NEW w \in Writer, Schedule(w)
      PROVE  TaskInv'
  BY <1>4 DEF Schedule
<1>5. ASSUME NEW w \in Writer, WakeUp(w)
      PROVE  TaskInv'
  BY <1>5 DEF WakeUp
<1>6. ASSUME NEW w \in Writer, Off(w)
      PROVE  TaskInv'
  BY <1>6 DEF Off, Overlap, Late
<1>7. ASSUME NEW w \in Writer, Lower(w)
      PROVE  TaskInv'
  BY <1>7 DEF Lower
<1>8. ASSUME NEW w \in Writer, WriteGone(w)
      PROVE  TaskInv'
  BY <1>8 DEF WriteGone
<1>9. ASSUME NEW a \in Actor, Stop(a)
      PROVE  TaskInv'
  BY <1>9 DEF Stop
<1>10. ASSUME NEW a \in Actor, StopWait(a)
      PROVE  TaskInv'
  BY <1>10 DEF StopWait, AfterStop
<1>11. ASSUME NEW t \in Task, KGone(t)
      PROVE  TaskInv'
  BY <1>11 DEF KGone
<1>12. ASSUME NEW t \in Task, KStart(t)
      PROVE  TaskInv'
  BY <1>12 DEF KStart
<1>13. ASSUME NEW t \in Task, KLook(t)
      PROVE  TaskInv'
  BY <1>13 DEF KLook
<1>14. ASSUME NEW t \in Task, KRoll(t)
      PROVE  TaskInv'
  BY <1>14 DEF KRoll
<1>15. ASSUME NEW t \in Task, KWake(t)
      PROVE  TaskInv'
  BY <1>15 DEF KWake
<1>16. ASSUME NEW t \in Task, Reap(t)
      PROVE  TaskInv'
  BY <1>16 DEF Reap
<1>17. ASSUME NEW t \in Task, Reuse(t)
      PROVE  TaskInv'
  BY <1>17 DEF Reuse
<1>18. ASSUME Insmod
      PROVE  TaskInv'
  BY <1>18 DEF Insmod
<1>19. ASSUME ExitStop
      PROVE  TaskInv'
  BY <1>19 DEF ExitStop, Overlap
<1>20. ASSUME ExitCounters
      PROVE  TaskInv'
  BY <1>20 DEF ExitCounters
<1>21. ASSUME ExitDone
      PROVE  TaskInv'
  BY <1>21 DEF ExitDone
<1> QED
  BY <1>1, <1>2, <1>3, <1>4, <1>5, <1>6, <1>7, <1>8, <1>9, <1>10, <1>11,
     <1>12, <1>13, <1>14, <1>15, <1>16, <1>17, <1>18, <1>19, <1>20, <1>21
     DEF Next, Write, InStop, KRun

(* ExitCounters finds the loader idle again and, with no overlap, no thread.*)
LEMMA LoaderStep ==
  ASSUME IInv, Next
  PROVE  LoaderInv'
<1> USE MicAssumption DEF IInv, TypeOK, Goto, KGoto, Oops, SwitchInv,
        LoaderInv, Busy, Without, Alive, Actor, module, control, threads
<1>1. ASSUME NEW w \in Writer, On(w)
      PROVE  LoaderInv'
  BY <1>1 DEF On, Overlap, Late, Writable
<1>2. ASSUME NEW w \in Writer, Set(w)
      PROVE  LoaderInv'
  BY <1>2 DEF Set
<1>3. ASSUME NEW w \in Writer, Create(w)
      PROVE  LoaderInv'
  BY <1>3 DEF Create
<1>4. ASSUME NEW w \in Writer, Schedule(w)
      PROVE  LoaderInv'
  BY <1>4 DEF Schedule
<1>5. ASSUME NEW w \in Writer, WakeUp(w)
      PROVE  LoaderInv'
  BY <1>5 DEF WakeUp
<1>6. ASSUME NEW w \in Writer, Off(w)
      PROVE  LoaderInv'
  BY <1>6 DEF Off, Overlap, Late, Writable
<1>7. ASSUME NEW w \in Writer, Lower(w)
      PROVE  LoaderInv'
  BY <1>7 DEF Lower
<1>8. ASSUME NEW w \in Writer, WriteGone(w)
      PROVE  LoaderInv'
  BY <1>8 DEF WriteGone
<1>9. ASSUME NEW a \in Actor, Stop(a)
      PROVE  LoaderInv'
  BY <1>9 DEF Stop
<1>10. ASSUME NEW a \in Actor, StopWait(a)
      PROVE  LoaderInv'
  BY <1>10 DEF StopWait, AfterStop
<1>11. ASSUME NEW t \in Task, KGone(t)
      PROVE  LoaderInv'
  BY <1>11 DEF KGone
<1>12. ASSUME NEW t \in Task, KStart(t)
      PROVE  LoaderInv'
  BY <1>12 DEF KStart
<1>13. ASSUME NEW t \in Task, KLook(t)
      PROVE  LoaderInv'
  BY <1>13 DEF KLook
<1>14. ASSUME NEW t \in Task, KRoll(t)
      PROVE  LoaderInv'
  BY <1>14 DEF KRoll
<1>15. ASSUME NEW t \in Task, KWake(t)
      PROVE  LoaderInv'
  BY <1>15 DEF KWake
<1>16. ASSUME NEW t \in Task, Reap(t)
      PROVE  LoaderInv'
  BY <1>16 DEF Reap
<1>17. ASSUME NEW t \in Task, Reuse(t)
      PROVE  LoaderInv'
  BY <1>17 DEF Reuse
<1>18. ASSUME Insmod
      PROVE  LoaderInv'
  BY <1>18 DEF Insmod
<1>19. ASSUME ExitStop
      PROVE  LoaderInv'
  BY <1>19 DEF ExitStop, Overlap
<1>20. ASSUME ExitCounters
      PROVE  LoaderInv'
  BY <1>20 DEF ExitCounters
<1>21. ASSUME ExitDone
      PROVE  LoaderInv'
  BY <1>21 DEF ExitDone
<1> QED
  BY <1>1, <1>2, <1>3, <1>4, <1>5, <1>6, <1>7, <1>8, <1>9, <1>10, <1>11,
     <1>12, <1>13, <1>14, <1>15, <1>16, <1>17, <1>18, <1>19, <1>20, <1>21
     DEF Next, Write, InStop, KRun

LEMMA FaultStep ==
  ASSUME IInv, Next
  PROVE  FaultHasCause'
<1> USE MicAssumption DEF IInv, TypeOK, Goto, KGoto, Oops, FaultHasCause,
        LoaderInv, TaskInv, SwitchInv, Without, Alive, Busy, InModule, Due,
        module, control, threads
<1>1. ASSUME NEW w \in Writer, On(w)
      PROVE  FaultHasCause'
  BY <1>1 DEF On, Overlap, Late
<1>2. ASSUME NEW w \in Writer, Set(w)
      PROVE  FaultHasCause'
  BY <1>2 DEF Set
<1>3. ASSUME NEW w \in Writer, Create(w)
      PROVE  FaultHasCause'
  BY <1>3 DEF Create
<1>4. ASSUME NEW w \in Writer, Schedule(w)
      PROVE  FaultHasCause'
  <2>1. w \in Actor /\ apc[w] \in {"schedule", "wake"} /\ Busy(w)
    BY <1>4 DEF Schedule, Actor
  <2>2. Without({"overlap", "late_write", "exit_off"}) =>
          Without({"overlap"}) /\ Without({"overlap", "late_write"})
    OBVIOUS
  <2>3. Without({"overlap", "late_write", "exit_off"}) => Due
    <3> SUFFICES ASSUME Without({"overlap", "late_write", "exit_off"}) PROVE Due
      OBVIOUS
    <3>1. lpc = "up"
      BY <2>1, <2>2
    <3>2. on /\ \A a \in Actor : a # w => ~Busy(a)
      BY <2>1, <2>2
    <3> QED
      BY <2>1, <3>1, <3>2
  <2>4. Without({"overlap", "late_write", "exit_off"}) /\ kthread_task \in Task => kpc[kthread_task] # "freed"
    BY <2>3, MicAssumption
  <2> QED
    BY <1>4, <2>4 DEF Schedule
<1>5. ASSUME NEW w \in Writer, WakeUp(w)
      PROVE  FaultHasCause'
  <2>1. w \in Actor /\ apc[w] \in {"schedule", "wake"} /\ Busy(w)
    BY <1>5 DEF WakeUp, Actor
  <2>2. Without({"overlap", "late_write", "exit_off"}) =>
          Without({"overlap"}) /\ Without({"overlap", "late_write"})
    OBVIOUS
  <2>3. Without({"overlap", "late_write", "exit_off"}) => Due
    <3> SUFFICES ASSUME Without({"overlap", "late_write", "exit_off"}) PROVE Due
      OBVIOUS
    <3>1. lpc = "up"
      BY <2>1, <2>2
    <3>2. on /\ \A a \in Actor : a # w => ~Busy(a)
      BY <2>1, <2>2
    <3> QED
      BY <2>1, <3>1, <3>2
  <2>4. Without({"overlap", "late_write", "exit_off"}) /\ kthread_task \in Task => kpc[kthread_task] # "freed"
    BY <2>3, MicAssumption
  <2> QED
    BY <1>5, <2>4 DEF WakeUp
<1>6. ASSUME NEW w \in Writer, Off(w)
      PROVE  FaultHasCause'
  BY <1>6 DEF Off, Overlap, Late
<1>7. ASSUME NEW w \in Writer, Lower(w)
      PROVE  FaultHasCause'
  BY <1>7 DEF Lower
<1>8. ASSUME NEW w \in Writer, WriteGone(w)
      PROVE  FaultHasCause'
  BY <1>8 DEF WriteGone
<1>9. ASSUME NEW a \in Actor, Stop(a)
      PROVE  FaultHasCause'
  BY <1>9 DEF Stop
<1>10. ASSUME NEW a \in Actor, StopWait(a)
      PROVE  FaultHasCause'
  BY <1>10 DEF StopWait, AfterStop
<1>11. ASSUME NEW t \in Task, KGone(t)
      PROVE  FaultHasCause'
  BY <1>11 DEF KGone
<1>12. ASSUME NEW t \in Task, KStart(t)
      PROVE  FaultHasCause'
  BY <1>12 DEF KStart
<1>13. ASSUME NEW t \in Task, KLook(t)
      PROVE  FaultHasCause'
  BY <1>13 DEF KLook
<1>14. ASSUME NEW t \in Task, KRoll(t)
      PROVE  FaultHasCause'
  BY <1>14 DEF KRoll
<1>15. ASSUME NEW t \in Task, KWake(t)
      PROVE  FaultHasCause'
  BY <1>15 DEF KWake
<1>16. ASSUME NEW t \in Task, Reap(t)
      PROVE  FaultHasCause'
  BY <1>16 DEF Reap
<1>17. ASSUME NEW t \in Task, Reuse(t)
      PROVE  FaultHasCause'
  BY <1>17 DEF Reuse
<1>18. ASSUME Insmod
      PROVE  FaultHasCause'
  BY <1>18 DEF Insmod
<1>19. ASSUME ExitStop
      PROVE  FaultHasCause'
  BY <1>19 DEF ExitStop, Overlap
<1>20. ASSUME ExitCounters
      PROVE  FaultHasCause'
  BY <1>20 DEF ExitCounters
<1>21. ASSUME ExitDone
      PROVE  FaultHasCause'
  BY <1>21 DEF ExitDone
<1> QED
  BY <1>1, <1>2, <1>3, <1>4, <1>5, <1>6, <1>7, <1>8, <1>9, <1>10, <1>11,
     <1>12, <1>13, <1>14, <1>15, <1>16, <1>17, <1>18, <1>19, <1>20, <1>21
     DEF Next, Write, InStop, KRun

LEMMA NextIInv == IInv /\ [Next]_vars => IInv'
<1>1. ASSUME IInv, Next
      PROVE  IInv'
  BY <1>1, TypeStep, PoolStep, SwitchStep, TaskStep, LoaderStep, FaultStep DEF IInv
<1>2. ASSUME IInv, UNCHANGED vars
      PROVE  IInv'
  BY <1>2 DEF vars, IInv, TypeOK, PoolInv, SwitchInv, TaskInv, LoaderInv, FaultHasCause,
              Alive, Busy, Without, Due
<1> QED
  BY <1>1, <1>2

(* The invariant of on, off, load and unload of micstat.                   *)
THEOREM Inductive == Spec => []IInv
  BY InitIInv, NextIInv, PTL DEF Spec

(* Every variable of MicCtl stays in its type.                             *)
THEOREM TypeCorrect == Spec => []TypeOK
<1>1. IInv => TypeOK
  BY DEF IInv
<1> QED
  BY Inductive, <1>1, PTL

(* One thread at most samples, as long as writes of ctrl do not overlap.   *)
THEOREM OneSamplerAtMost == Spec => []OneSampler
<1>1. IInv => OneSampler
  BY DEF IInv, SwitchInv, OneSampler
<1> QED
  BY Inductive, <1>1, PTL

(* When off has returned no thread samples, with the same exception.       *)
THEOREM OffIsQuiet == Spec => []OffMeansQuiet
<1>1. IInv => OffMeansQuiet
  BY DEF IInv, SwitchInv, OffMeansQuiet
<1> QED
  BY Inductive, <1>1, PTL

(* No oops of off, of the thread or of rmmod lacks the causes named.       *)
THEOREM FaultsHaveCauses == Spec => []FaultHasCause
<1>1. IInv => FaultHasCause
  BY DEF IInv
<1> QED
  BY Inductive, <1>1, PTL
=============================================================================
