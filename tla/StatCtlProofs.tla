--------------------------- MODULE StatCtlProofs ---------------------------
(***************************************************************************)
(* on, off, load and unload of haswellstat and sbstat, for any number of   *)
(* processes, task_structs and counters: one sampler, quiet after off,     *)
(* every oops has a cause, no perf event is left behind. IInv is preserved *)
(* conjunct by conjunct, each by one lemma with a step for each action, or *)
(* for the actions that do not touch what the conjunct is about.           *)
(***************************************************************************)
EXTENDS StatCtl, TLAPS

LEMMA InitIInv == Init => IInv
<1> SUFFICES ASSUME Init PROVE IInv
  OBVIOUS
<1> USE CtlAssumption DEF Init, Actor
<1>1. TypeOK
  <2>1. 1 \in 0 .. NumCnt + 1
    OBVIOUS
  <2>2. kpc \in [Task -> {"none", "created", "new", "lock", "roll", "sleep", "dead", "freed"}]
    OBVIOUS
  <2>3. /\ apc \in [Actor -> {"idle", "create", "wake", "stop", "wait"}]
        /\ stopping \in [Actor -> Task \cup {NULL}]
    OBVIOUS
  <2> QED
    BY <2>1, <2>2, <2>3 DEF TypeOK
<1>2. PoolInv /\ SwitchInv /\ QuietInv /\ TaskInv /\ LoaderInv
  BY DEF PoolInv, SwitchInv, QuietInv, TaskInv, LoaderInv, Alive, Busy, Without
<1>3. EventInv /\ NothingLeaked /\ FaultHasCause
  BY DEF EventInv, NothingLeaked, FaultHasCause
<1> QED
  BY <1>1, <1>2, <1>3 DEF IInv

LEMMA TypeStep ==
  ASSUME IInv, Next
  PROVE  TypeOK'
<1> USE CtlAssumption DEF IInv, TypeOK, Goto, KGoto, Oops, module, control,
        threads
<1>1. ASSUME NEW w \in Writer, On(w)
      PROVE  TypeOK'
  BY <1>1 DEF On, SetOn, Overlap, Late
<1>2. ASSUME NEW w \in Writer, Off(w)
      PROVE  TypeOK'
  BY <1>2 DEF Off, SetOff, Overlap
<1>3. ASSUME NEW a \in Actor, Create(a)
      PROVE  TypeOK'
  BY <1>3 DEF Create
<1>4. ASSUME NEW a \in Actor, WakeUp(a)
      PROVE  TypeOK'
  BY <1>4 DEF WakeUp
<1>5. ASSUME NEW a \in Actor, Stop(a)
      PROVE  TypeOK'
  <2>1. CASE kthread_task \notin Task \/ kpc[kthread_task] = "freed"
    BY <1>5, <2>1 DEF Stop
  <2>2. CASE kthread_task \in Task /\ kpc[kthread_task] # "freed"
    <3>1. kpc' \in [Task -> {"none", "created", "new", "lock", "roll", "sleep", "dead", "freed"}]
      BY <1>5, <2>2 DEF Stop
    <3>2. /\ should_stop' \subseteq Task
          /\ stopping' \in [Actor -> Task \cup {NULL}]
          /\ apc' \in [Actor -> {"idle", "create", "wake", "stop", "wait"}]
          /\ UNCHANGED <<module, on, kthread_task, ctrl_lock, fault, cause>>
      BY <1>5, <2>2 DEF Stop
    <3> QED
      BY <3>1, <3>2
  <2> QED
    BY <2>1, <2>2
<1>6. ASSUME NEW a \in Actor, StopWait(a)
      PROVE  TypeOK'
  BY <1>6 DEF StopWait
<1>7. ASSUME NEW t \in Task, KGone(t)
      PROVE  TypeOK'
  BY <1>7 DEF KGone
<1>8. ASSUME NEW t \in Task, KStart(t)
      PROVE  TypeOK'
  BY <1>8 DEF KStart
<1>9. ASSUME NEW t \in Task, KLock(t)
      PROVE  TypeOK'
  BY <1>9 DEF KLock
<1>10. ASSUME NEW t \in Task, KRoll(t)
      PROVE  TypeOK'
  BY <1>10 DEF KRoll
<1>11. ASSUME NEW t \in Task, KWake(t)
      PROVE  TypeOK'
  BY <1>11 DEF KWake
<1>12. ASSUME NEW t \in Task, Reap(t)
      PROVE  TypeOK'
  BY <1>12 DEF Reap
<1>13. ASSUME NEW t \in Task, Reuse(t)
      PROVE  TypeOK'
  BY <1>13 DEF Reuse
<1>14. ASSUME InitCounter
      PROVE  TypeOK'
  BY <1>14 DEF InitCounter, Counter
<1>15. ASSUME FailCounter
      PROVE  TypeOK'
  <2>1. cnt > 0 => cnt - 1 \in 0 .. NumCnt + 1
    OBVIOUS
  <2>2. cnt' \in 0 .. NumCnt + 1 /\ lpc' \in {"fail_cnt", "failed"} /\ events' \subseteq Counter
    BY <1>15, <2>1 DEF FailCounter
  <2> QED
    BY <1>15, <2>2 DEF FailCounter
<1>16. ASSUME ClassRegister
      PROVE  TypeOK'
  BY <1>16 DEF ClassRegister
<1>17. ASSUME ExitOff
      PROVE  TypeOK'
  BY <1>17 DEF ExitOff, Overlap
<1>18. ASSUME ExitUnregister
      PROVE  TypeOK'
  BY <1>18 DEF ExitUnregister
<1>19. ASSUME ExitUnregistered
      PROVE  TypeOK'
  BY <1>19 DEF ExitUnregistered
<1>20. ASSUME ExitCounter
      PROVE  TypeOK'
  <2>1. cnt \in Counter => cnt + 1 \in 0 .. NumCnt + 1
    BY DEF Counter
  <2>2. cnt' \in 0 .. NumCnt + 1 /\ lpc' \in {"exit_cnt", "gone"} /\ events' \subseteq Counter
    BY <1>20, <2>1 DEF ExitCounter
  <2> QED
    BY <1>20, <2>2 DEF ExitCounter
<1> QED
  BY <1>1, <1>2, <1>3, <1>4, <1>5, <1>6, <1>7, <1>8, <1>9, <1>10, <1>11,
     <1>12, <1>13, <1>14, <1>15, <1>16, <1>17, <1>18, <1>19, <1>20
     DEF Next, InSwitch, Kthread, KRun, Insmod, Rmmod

(* Only Create points kthread_task at a task, which it has just taken, and *)
(* only Reuse gives one back.                                              *)
LEMMA PoolStep ==
  ASSUME IInv, Next
  PROVE  PoolInv'
<1> USE CtlAssumption DEF IInv, TypeOK, Goto, KGoto, Oops, PoolInv, module,
        control, threads
<1>1. ASSUME NEW w \in Writer, On(w)
      PROVE  PoolInv'
  BY <1>1 DEF On, SetOn
<1>2. ASSUME NEW w \in Writer, Off(w)
      PROVE  PoolInv'
  BY <1>2 DEF Off, SetOff
<1>3. ASSUME NEW a \in Actor, Create(a)
      PROVE  PoolInv'
  BY <1>3 DEF Create
<1>4. ASSUME NEW a \in Actor, WakeUp(a)
      PROVE  PoolInv'
  BY <1>4 DEF WakeUp
<1>5. ASSUME NEW a \in Actor, Stop(a)
      PROVE  PoolInv'
  BY <1>5 DEF Stop
<1>6. ASSUME NEW a \in Actor, StopWait(a)
      PROVE  PoolInv'
  BY <1>6 DEF StopWait
<1>7. ASSUME NEW t \in Task, KGone(t)
      PROVE  PoolInv'
  BY <1>7 DEF KGone
<1>8. ASSUME NEW t \in Task, KStart(t)
      PROVE  PoolInv'
  BY <1>8 DEF KStart
<1>9. ASSUME NEW t \in Task, KLock(t)
      PROVE  PoolInv'
  BY <1>9 DEF KLock
<1>10. ASSUME NEW t \in Task, KRoll(t)
      PROVE  PoolInv'
  BY <1>10 DEF KRoll
<1>11. ASSUME NEW t \in Task, KWake(t)
      PROVE  PoolInv'
  BY <1>11 DEF KWake
<1>12. ASSUME NEW t \in Task, Reap(t)
      PROVE  PoolInv'
  BY <1>12 DEF Reap
<1>13. ASSUME NEW t \in Task, Reuse(t)
      PROVE  PoolInv'
  BY <1>13 DEF Reuse
<1>14. ASSUME InitCounter \/ FailCounter \/ ClassRegister \/ ExitOff
              \/ ExitUnregister \/ ExitUnregistered \/ ExitCounter
      PROVE  PoolInv'
  BY <1>14 DEF InitCounter, FailCounter, ClassRegister, ExitOff,
           ExitUnregister, ExitUnregistered, ExitCounter
<1> QED
  BY <1>1, <1>2, <1>3, <1>4, <1>5, <1>6, <1>7, <1>8, <1>9, <1>10, <1>11,
     <1>12, <1>13, <1>14
     DEF Next, InSwitch, Kthread, KRun, Insmod, Rmmod

LEMMA SwitchStep ==
  ASSUME IInv, Next
  PROVE  SwitchInv'
<1> USE CtlAssumption DEF IInv, TypeOK, Goto, KGoto, Oops, SwitchInv,
        QuietInv, LoaderInv, Busy, Without, Alive, Actor, module, control,
        threads
<1>1. ASSUME NEW w \in Writer, On(w)
      PROVE  SwitchInv'
  BY <1>1 DEF On, SetOn, Overlap, Late
<1>2. ASSUME NEW w \in Writer, Off(w)
      PROVE  SwitchInv'
  BY <1>2 DEF Off, SetOff, Overlap
<1>3. ASSUME NEW a \in Actor, Create(a)
      PROVE  SwitchInv'
  BY <1>3 DEF Create
<1>4. ASSUME NEW a \in Actor, WakeUp(a)
      PROVE  SwitchInv'
  BY <1>4 DEF WakeUp
<1>5. ASSUME NEW a \in Actor, Stop(a)
      PROVE  SwitchInv'
  BY <1>5 DEF Stop
<1>6. ASSUME NEW a \in Actor, StopWait(a)
      PROVE  SwitchInv'
  BY <1>6 DEF StopWait
<1>7. ASSUME NEW t \in Task, KGone(t) \/ KStart(t) \/ KLock(t) \/ KRoll(t)
                             \/ KWake(t) \/ Reap(t) \/ Reuse(t)
      PROVE  SwitchInv'
  BY <1>7 DEF KGone, KStart, KLock, KRoll, KWake, Reap, Reuse
<1>8. ASSUME InitCounter \/ FailCounter \/ ClassRegister
             \/ ExitUnregister \/ ExitUnregistered \/ ExitCounter
      PROVE  SwitchInv'
  BY <1>8 DEF InitCounter, FailCounter, ClassRegister, ExitUnregister,
           ExitUnregistered, ExitCounter
<1>9. ASSUME ExitOff
      PROVE  SwitchInv'
  BY <1>9 DEF ExitOff, Overlap
<1> QED
  BY <1>1, <1>2, <1>3, <1>4, <1>5, <1>6, <1>7, <1>8, <1>9
     DEF Next, InSwitch, Kthread, KRun, Insmod, Rmmod

LEMMA QuietStep ==
  ASSUME IInv, Next
  PROVE  QuietInv'
<1> USE CtlAssumption DEF IInv, TypeOK, Goto, KGoto, Oops, SwitchInv,
        QuietInv, LoaderInv, Busy, Without, Alive, Actor, module, control,
        threads
<1>1. ASSUME NEW w \in Writer, On(w)
      PROVE  QuietInv'
  BY <1>1 DEF On, SetOn, Overlap, Late
<1>2. ASSUME NEW w \in Writer, Off(w)
      PROVE  QuietInv'
  BY <1>2 DEF Off, SetOff, Overlap
<1>3. ASSUME NEW a \in Actor, Create(a)
      PROVE  QuietInv'
  BY <1>3 DEF Create
<1>4. ASSUME NEW a \in Actor, WakeUp(a)
      PROVE  QuietInv'
  BY <1>4 DEF WakeUp
<1>5. ASSUME NEW a \in Actor, Stop(a)
      PROVE  QuietInv'
  BY <1>5 DEF Stop
<1>6. ASSUME NEW a \in Actor, StopWait(a)
      PROVE  QuietInv'
  BY <1>6 DEF StopWait
<1>7. ASSUME NEW t \in Task, KGone(t) \/ KStart(t) \/ KLock(t) \/ KRoll(t)
                             \/ KWake(t) \/ Reap(t) \/ Reuse(t)
      PROVE  QuietInv'
  BY <1>7 DEF KGone, KStart, KLock, KRoll, KWake, Reap, Reuse
<1>8. ASSUME InitCounter \/ FailCounter \/ ClassRegister
             \/ ExitUnregister \/ ExitUnregistered \/ ExitCounter
      PROVE  QuietInv'
  BY <1>8 DEF InitCounter, FailCounter, ClassRegister, ExitUnregister,
           ExitUnregistered, ExitCounter
<1>9. ASSUME ExitOff
      PROVE  QuietInv'
  BY <1>9 DEF ExitOff, Overlap
<1> QED
  BY <1>1, <1>2, <1>3, <1>4, <1>5, <1>6, <1>7, <1>8, <1>9
     DEF Next, InSwitch, Kthread, KRun, Insmod, Rmmod

LEMMA TaskStep ==
  ASSUME IInv, Next
  PROVE  TaskInv'
<1> USE CtlAssumption DEF IInv, TypeOK, Goto, KGoto, Oops, PoolInv,
        SwitchInv, TaskInv, LoaderInv, Busy, Without, Alive, Actor, module,
        control, threads
<1>1. ASSUME NEW w \in Writer, On(w)
      PROVE  TaskInv'
  BY <1>1 DEF On, SetOn, Overlap, Late
<1>2. ASSUME NEW w \in Writer, Off(w)
      PROVE  TaskInv'
  BY <1>2 DEF Off, SetOff, Overlap
<1>3. ASSUME NEW a \in Actor, Create(a)
      PROVE  TaskInv'
  BY <1>3 DEF Create
<1>4. ASSUME NEW a \in Actor, WakeUp(a)
      PROVE  TaskInv'
  BY <1>4 DEF WakeUp
<1>5. ASSUME NEW a \in Actor, Stop(a)
      PROVE  TaskInv'
  BY <1>5 DEF Stop
<1>6. ASSUME NEW a \in Actor, StopWait(a)
      PROVE  TaskInv'
  BY <1>6 DEF StopWait
<1>7. ASSUME NEW t \in Task, KGone(t)
      PROVE  TaskInv'
  BY <1>7 DEF KGone
<1>8. ASSUME NEW t \in Task, KStart(t)
      PROVE  TaskInv'
  BY <1>8 DEF KStart
<1>9. ASSUME NEW t \in Task, KLock(t)
      PROVE  TaskInv'
  BY <1>9 DEF KLock
<1>10. ASSUME NEW t \in Task, KRoll(t)
      PROVE  TaskInv'
  BY <1>10 DEF KRoll
<1>11. ASSUME NEW t \in Task, KWake(t)
      PROVE  TaskInv'
  BY <1>11 DEF KWake
<1>12. ASSUME NEW t \in Task, Reap(t)
      PROVE  TaskInv'
  BY <1>12 DEF Reap
<1>13. ASSUME NEW t \in Task, Reuse(t)
      PROVE  TaskInv'
  BY <1>13 DEF Reuse
<1>14. ASSUME InitCounter \/ FailCounter \/ ClassRegister
              \/ ExitUnregister \/ ExitUnregistered \/ ExitCounter
      PROVE  TaskInv'
  BY <1>14 DEF InitCounter, FailCounter, ClassRegister, ExitUnregister,
           ExitUnregistered, ExitCounter
<1>15. ASSUME ExitOff
      PROVE  TaskInv'
  BY <1>15 DEF ExitOff, Overlap
<1> QED
  BY <1>1, <1>2, <1>3, <1>4, <1>5, <1>6, <1>7, <1>8, <1>9, <1>10, <1>11,
     <1>12, <1>13, <1>14, <1>15
     DEF Next, InSwitch, Kthread, KRun, Insmod, Rmmod

(* ExitUnregistered finds nobody inside and, by QuietInv, no thread.       *)
LEMMA LoaderStep ==
  ASSUME IInv, Next
  PROVE  LoaderInv'
<1> USE CtlAssumption DEF IInv, TypeOK, Goto, KGoto, Oops, SwitchInv,
        QuietInv, LoaderInv, Busy, Without, Alive, Actor, module, control,
        threads
<1>1. ASSUME NEW w \in Writer, On(w)
      PROVE  LoaderInv'
  BY <1>1 DEF On, SetOn, Overlap, Late
<1>2. ASSUME NEW w \in Writer, Off(w)
      PROVE  LoaderInv'
  BY <1>2 DEF Off, SetOff, Overlap
<1>3. ASSUME NEW a \in Actor, Create(a)
      PROVE  LoaderInv'
  BY <1>3 DEF Create
<1>4. ASSUME NEW a \in Actor, WakeUp(a)
      PROVE  LoaderInv'
  BY <1>4 DEF WakeUp
<1>5. ASSUME NEW a \in Actor, Stop(a)
      PROVE  LoaderInv'
  BY <1>5 DEF Stop
<1>6. ASSUME NEW a \in Actor, StopWait(a)
      PROVE  LoaderInv'
  BY <1>6 DEF StopWait
<1>7. ASSUME NEW t \in Task, KGone(t) \/ KStart(t) \/ KLock(t) \/ KRoll(t)
                             \/ KWake(t) \/ Reap(t) \/ Reuse(t)
      PROVE  LoaderInv'
  BY <1>7 DEF KGone, KStart, KLock, KRoll, KWake, Reap, Reuse
<1>8. ASSUME InitCounter
      PROVE  LoaderInv'
  BY <1>8 DEF InitCounter
<1>9. ASSUME FailCounter
      PROVE  LoaderInv'
  BY <1>9 DEF FailCounter
<1>10. ASSUME ClassRegister
      PROVE  LoaderInv'
  BY <1>10 DEF ClassRegister
<1>11. ASSUME ExitOff
      PROVE  LoaderInv'
  BY <1>11 DEF ExitOff, Overlap
<1>12. ASSUME ExitUnregister
      PROVE  LoaderInv'
  BY <1>12 DEF ExitUnregister
<1>13. ASSUME ExitUnregistered
      PROVE  LoaderInv'
  BY <1>13 DEF ExitUnregistered
<1>14. ASSUME ExitCounter
      PROVE  LoaderInv'
  BY <1>14 DEF ExitCounter
<1> QED
  BY <1>1, <1>2, <1>3, <1>4, <1>5, <1>6, <1>7, <1>8, <1>9, <1>10, <1>11,
     <1>12, <1>13, <1>14
     DEF Next, InSwitch, Kthread, KRun, Insmod, Rmmod

LEMMA EventStep ==
  ASSUME IInv, Next
  PROVE  EventInv' /\ NothingLeaked'
<1> USE CtlAssumption DEF IInv, TypeOK, EventInv, NothingLeaked, Without,
        Goto, KGoto, Oops, module, control, threads
<1>1. ASSUME NEW w \in Writer, On(w)
      PROVE  EventInv' /\ NothingLeaked'
  BY <1>1 DEF On, SetOn, Overlap, Late
<1>2. ASSUME NEW w \in Writer, Off(w)
      PROVE  EventInv' /\ NothingLeaked'
  BY <1>2 DEF Off, SetOff, Overlap
<1>3. ASSUME NEW a \in Actor, Create(a) \/ WakeUp(a) \/ Stop(a) \/ StopWait(a)
      PROVE  EventInv' /\ NothingLeaked'
  BY <1>3 DEF Create, WakeUp, Stop, StopWait
<1>4. ASSUME NEW t \in Task, KGone(t) \/ KStart(t) \/ KLock(t) \/ KRoll(t)
                             \/ KWake(t) \/ Reap(t) \/ Reuse(t)
      PROVE  EventInv' /\ NothingLeaked'
  BY <1>4 DEF KGone, KStart, KLock, KRoll, KWake, Reap, Reuse
<1>5. ASSUME InitCounter
      PROVE  EventInv' /\ NothingLeaked'
  BY <1>5 DEF InitCounter, Counter
<1>6. ASSUME FailCounter
      PROVE  EventInv' /\ NothingLeaked'
  <2>1. cnt \in Int /\ NumCnt \in Int
    OBVIOUS
  <2>2. CASE cnt > 0 /\ events' = events \ {cnt} /\ cnt' = cnt - 1 /\ lpc' = lpc
    <3>1. events \ {cnt} \subseteq 1 .. (cnt - 1)
      BY <1>6, <2>1, <2>2 DEF FailCounter
    <3> QED
      BY <1>6, <2>2, <3>1 DEF FailCounter
  <2>3. CASE cnt = 0 /\ lpc' = "failed" /\ events' = events
    <3>1. events = {}
      BY <1>6, <2>3 DEF FailCounter
    <3> QED
      BY <1>6, <2>3, <3>1 DEF FailCounter
  <2> QED
    BY <1>6, <2>2, <2>3 DEF FailCounter
<1>7. ASSUME ClassRegister
      PROVE  EventInv' /\ NothingLeaked'
  BY <1>7 DEF ClassRegister, Counter
<1>8. ASSUME ExitOff
      PROVE  EventInv' /\ NothingLeaked'
  BY <1>8 DEF ExitOff, Overlap
<1>9. ASSUME ExitUnregister
      PROVE  EventInv' /\ NothingLeaked'
  BY <1>9 DEF ExitUnregister
<1>10. ASSUME ExitUnregistered
      PROVE  EventInv' /\ NothingLeaked'
  BY <1>10 DEF ExitUnregistered, Counter
<1>11. ASSUME ExitCounter
      PROVE  EventInv' /\ NothingLeaked'
  <2>1. cnt \in Int /\ NumCnt \in Int
    OBVIOUS
  <2>2. CASE cnt \in Counter /\ events' = events \ {cnt} /\ cnt' = cnt + 1 /\ lpc' = lpc
    <3>1. events \ {cnt} \subseteq (cnt + 1) .. NumCnt
      BY <1>11, <2>1, <2>2 DEF ExitCounter
    <3> QED
      BY <1>11, <2>2, <3>1 DEF ExitCounter
  <2>3. CASE cnt \notin Counter /\ lpc' = "gone" /\ events' = events
    <3>1. cnt = 0 \/ cnt = NumCnt + 1
      BY <2>1, <2>3 DEF Counter
    <3>2. events = {}
      BY <1>11, <2>3, <3>1 DEF ExitCounter, Counter
    <3> QED
      BY <1>11, <2>3, <3>2 DEF ExitCounter
  <2> QED
    BY <1>11, <2>2, <2>3 DEF ExitCounter
<1> QED
  BY <1>1, <1>2, <1>3, <1>4, <1>5, <1>6, <1>7, <1>8, <1>9, <1>10, <1>11
     DEF Next, InSwitch, Kthread, KRun, Insmod, Rmmod

LEMMA FaultStep ==
  ASSUME IInv, Next
  PROVE  FaultHasCause'
<1> USE CtlAssumption DEF IInv, TypeOK, Goto, KGoto, Oops, FaultHasCause,
        LoaderInv, TaskInv, SwitchInv, Without, Alive, Busy, InModule,
        module, control, threads
<1>1. ASSUME NEW w \in Writer, On(w)
      PROVE  FaultHasCause'
  BY <1>1 DEF On, SetOn, Overlap, Late
<1>2. ASSUME NEW w \in Writer, Off(w)
      PROVE  FaultHasCause'
  BY <1>2 DEF Off, SetOff, Overlap
<1>3. ASSUME NEW a \in Actor, Create(a)
      PROVE  FaultHasCause'
  BY <1>3 DEF Create
<1>4. ASSUME NEW a \in Actor, WakeUp(a)
      PROVE  FaultHasCause'
  BY <1>4 DEF WakeUp
<1>5. ASSUME NEW a \in Actor, Stop(a)
      PROVE  FaultHasCause'
  BY <1>5 DEF Stop
<1>6. ASSUME NEW a \in Actor, StopWait(a)
      PROVE  FaultHasCause'
  BY <1>6 DEF StopWait
<1>7. ASSUME NEW t \in Task, KGone(t)
      PROVE  FaultHasCause'
  BY <1>7 DEF KGone
<1>8. ASSUME NEW t \in Task, KStart(t)
      PROVE  FaultHasCause'
  BY <1>8 DEF KStart
<1>9. ASSUME NEW t \in Task, KLock(t)
      PROVE  FaultHasCause'
  BY <1>9 DEF KLock
<1>10. ASSUME NEW t \in Task, KRoll(t)
      PROVE  FaultHasCause'
  BY <1>10 DEF KRoll
<1>11. ASSUME NEW t \in Task, KWake(t)
      PROVE  FaultHasCause'
  BY <1>11 DEF KWake
<1>12. ASSUME NEW t \in Task, Reap(t)
      PROVE  FaultHasCause'
  BY <1>12 DEF Reap
<1>13. ASSUME NEW t \in Task, Reuse(t)
      PROVE  FaultHasCause'
  BY <1>13 DEF Reuse
<1>14. ASSUME InitCounter \/ FailCounter \/ ClassRegister
              \/ ExitUnregister \/ ExitUnregistered \/ ExitCounter
      PROVE  FaultHasCause'
  BY <1>14 DEF InitCounter, FailCounter, ClassRegister, ExitUnregister,
           ExitUnregistered, ExitCounter
<1>15. ASSUME ExitOff
      PROVE  FaultHasCause'
  BY <1>15 DEF ExitOff, Overlap
<1> QED
  BY <1>1, <1>2, <1>3, <1>4, <1>5, <1>6, <1>7, <1>8, <1>9, <1>10, <1>11,
     <1>12, <1>13, <1>14, <1>15
     DEF Next, InSwitch, Kthread, KRun, Insmod, Rmmod

LEMMA NextIInv == IInv /\ [Next]_vars => IInv'
<1>1. ASSUME IInv, Next
      PROVE  IInv'
  BY <1>1, TypeStep, PoolStep, SwitchStep, QuietStep, TaskStep, LoaderStep, EventStep,
     FaultStep DEF IInv
<1>2. ASSUME IInv, UNCHANGED vars
      PROVE  IInv'
  BY <1>2 DEF vars, IInv, TypeOK, PoolInv, SwitchInv, QuietInv, TaskInv, LoaderInv,
              EventInv, NothingLeaked, FaultHasCause, Alive, Busy, Without
<1> QED
  BY <1>1, <1>2

(* The invariant of on, off, load and unload of haswellstat and sbstat.    *)
THEOREM Inductive == Spec => []IInv
  BY InitIInv, NextIInv, PTL DEF Spec

THEOREM TypeCorrect == Spec => []TypeOK
<1>1. IInv => TypeOK
  BY DEF IInv
<1> QED
  BY Inductive, <1>1, PTL

(* One thread at most samples, unless an on and an off overlapped.         *)
THEOREM OneSamplerAtMost == Spec => []OneSampler
<1>1. IInv => OneSampler
  BY DEF IInv, SwitchInv, OneSampler
<1> QED
  BY Inductive, <1>1, PTL

(* When off has returned no thread samples, with the same exception.       *)
THEOREM OffIsQuiet == Spec => []OffMeansQuiet
<1>1. IInv => OffMeansQuiet
  BY DEF IInv, QuietInv, OffMeansQuiet, Busy
<1> QED
  BY Inductive, <1>1, PTL

(* No oops of set_off, of the thread or of rmmod lacks the causes named.   *)
THEOREM FaultsHaveCauses == Spec => []FaultHasCause
<1>1. IInv => FaultHasCause
  BY DEF IInv
<1> QED
  BY Inductive, <1>1, PTL

(* No perf event is left behind, unless class_register failed.             *)
THEOREM EventsReleased == Spec => []NothingLeaked
<1>1. IInv => NothingLeaked
  BY DEF IInv
<1> QED
  BY Inductive, <1>1, PTL
=============================================================================
