------------------------- MODULE ThreadSuspendProofs -------------------------
(***************************************************************************)
(* Proofs about module ThreadSuspend, for any set of threads.              *)
(***************************************************************************)
EXTENDS ThreadSuspend, FiniteSetTheorems, TLAPS

\* Blocking on the thread list keeps the types: the two branches apart, and
\* the Boolean-valued variables apart from the others.
LEMMA LockThreadListType ==
  ASSUME TypeOK, NEW t \in Thread, NEW here, NEW wait \in Point, NEW next \in Point,
         LockThreadList(t, here, wait, next)
  PROVE  TypeOK'
<1> USE DEF LockThreadList, Goto, countVars, savedVars, threadVars
<1>1. CASE listOwner = NoThread
  BY <1>1 DEF TypeOK
<1>2. CASE listOwner # NoThread
  <2>1. oldStatus' \in [Thread -> Status] /\ status' \in [Thread -> Status]
    BY <1>2 DEF TypeOK, SaveState, Status
  <2>2. oldClosed' \in [Thread -> BOOLEAN] /\ closed' \in [Thread -> BOOLEAN]
    BY <1>2, Zenon DEF TypeOK, SaveState
  <2> QED
    BY <1>2, <2>1, <2>2 DEF TypeOK
<1> QED
  BY <1>1, <1>2

\* The same for going to sleep in the suspend check.
LEMMA FullSuspendCheckType ==
  ASSUME TypeOK, NEW t \in Thread, FullSuspendCheck(t)
  PROVE  TypeOK'
<1> USE DEF FullSuspendCheck, At, Goto, countVars, savedVars, threadVars, lockVars
<1>1. CASE suspendCount[t] = 0
  BY <1>1 DEF TypeOK, Point
<1>2. CASE suspendCount[t] # 0
  <2>1. oldStatus' \in [Thread -> Status] /\ status' \in [Thread -> Status]
    BY <1>2 DEF TypeOK, SaveState, Status
  <2>2. oldClosed' \in [Thread -> BOOLEAN] /\ closed' \in [Thread -> BOOLEAN]
    BY <1>2, Zenon DEF TypeOK, SaveState
  <2> QED
    BY <1>2, <2>1, <2>2 DEF TypeOK, Point
<1> QED
  BY <1>1, <1>2

\* No step of the protocol leaves the types.
LEMMA TypeStep == TypeOK /\ [Next]_vars => TypeOK'
<1> SUFFICES ASSUME TypeOK, [Next]_vars PROVE TypeOK'
  OBVIOUS
<1> USE DEF At, Goto, CallCheck, Point, ReturnPoint, savedVars, threadVars,
            countVars, lockVars, ctlVars
<1>1. CASE UNCHANGED vars
  BY <1>1 DEF TypeOK, vars
<1>2. ASSUME NEW t \in Thread, LockThreadSuspend(t, "susLock", "susVm")
     PROVE  TypeOK'
  BY <1>2 DEF TypeOK, LockThreadSuspend
<1>3. ASSUME NEW t \in Thread, TakeVmLocks(t)
     PROVE  TypeOK'
  BY <1>3 DEF TypeOK, TakeVmLocks
<1>4. ASSUME NEW t \in Thread, YieldToSuspend(t)
     PROVE  TypeOK'
  BY <1>4 DEF TypeOK, YieldToSuspend
<1>5. ASSUME NEW t \in Thread, LockThreadSuspend(t, "susRelock", "susSelf")
     PROVE  TypeOK'
  BY <1>5 DEF TypeOK, LockThreadSuspend
<1>6. ASSUME NEW t \in Thread, LockThreadList(t, "susList", "susListWait", "susCount")
     PROVE  TypeOK'
  BY <1>6, LockThreadListType
<1>7. ASSUME NEW t \in Thread, GotThreadList(t, "susListWait", "susCount")
     PROVE  TypeOK'
  BY <1>7 DEF TypeOK, GotThreadList, Status
<1>8. ASSUME NEW t \in Thread, SuspendOthers(t)
     PROVE  TypeOK'
  BY <1>8 DEF TypeOK, SuspendOthers, AddToSuspendCounts, Others
<1>9. ASSUME NEW t \in Thread, SeeStopped(t)
     PROVE  TypeOK'
  BY <1>9 DEF TypeOK, SeeStopped
<1>10. ASSUME NEW t \in Thread, Inspect(t)
     PROVE  TypeOK'
  BY <1>10 DEF TypeOK, Inspect
<1>11. ASSUME NEW t \in Thread, LockThreadSuspend(t, "resLock", "resList")
     PROVE  TypeOK'
  BY <1>11 DEF TypeOK, LockThreadSuspend
<1>12. ASSUME NEW t \in Thread, LockThreadList(t, "resList", "resListWait", "resCount")
     PROVE  TypeOK'
  BY <1>12, LockThreadListType
<1>13. ASSUME NEW t \in Thread, GotThreadList(t, "resListWait", "resCount")
     PROVE  TypeOK'
  BY <1>13 DEF TypeOK, GotThreadList, Status
<1>14. ASSUME NEW t \in Thread, ResumeOthers(t)
     PROVE  TypeOK'
  BY <1>14 DEF TypeOK, ResumeOthers, TakeFromSuspendCounts, Others
<1>15. ASSUME NEW t \in Thread, UnlockThreadSuspend(t)
     PROVE  TypeOK'
  BY <1>15 DEF TypeOK, UnlockThreadSuspend
<1>16. ASSUME NEW t \in Thread, WakeOthers(t, "run")
     PROVE  TypeOK'
  BY <1>16 DEF TypeOK, WakeOthers
<1>17. ASSUME NEW t \in Thread, LockThreadList(t, "trList", "trListWait", "trFind")
     PROVE  TypeOK'
  BY <1>17, LockThreadListType
<1>18. ASSUME NEW t \in Thread, GotThreadList(t, "trListWait", "trFind")
     PROVE  TypeOK'
  BY <1>18 DEF TypeOK, GotThreadList, Status
<1>19. ASSUME NEW t \in Thread, SuspendThread(t)
     PROVE  TypeOK'
  BY <1>19 DEF TypeOK, SuspendThread, AddToSuspendCounts, Others
<1>20. ASSUME NEW t \in Thread, WaitForThreadSuspend(t)
     PROVE  TypeOK'
  BY <1>20 DEF TypeOK, WaitForThreadSuspend
<1>21. ASSUME NEW t \in Thread, ResumeThread(t)
     PROVE  TypeOK'
  BY <1>21 DEF TypeOK, ResumeThread, TakeFromSuspendCounts, Others
<1>22. ASSUME NEW t \in Thread, UnlockThreadList(t)
     PROVE  TypeOK'
  BY <1>22 DEF TypeOK, UnlockThreadList
<1>23. ASSUME NEW t \in Thread, CheckSuspendPending(t)
     PROVE  TypeOK'
  BY <1>23 DEF TypeOK, CheckSuspendPending
<1>24. ASSUME NEW t \in Thread, SafePoint(t)
     PROVE  TypeOK'
  BY <1>24 DEF TypeOK, SafePoint
<1>25. ASSUME NEW t \in Thread, FullSuspendCheck(t)
     PROVE  TypeOK'
  BY <1>25, FullSuspendCheckType
<1>26. ASSUME NEW t \in Thread, WakeUp(t)
     PROVE  TypeOK'
  BY <1>26 DEF TypeOK, WakeUp, Status
<1>27. ASSUME NEW t \in Thread, TakeVmLock(t)
     PROVE  TypeOK'
  BY <1>27 DEF TypeOK, TakeVmLock
<1>28. ASSUME NEW t \in Thread, DropVmLock(t)
     PROVE  TypeOK'
  BY <1>28 DEF TypeOK, DropVmLock
<1>29. ASSUME NEW t \in Thread, EnterNative(t)
     PROVE  TypeOK'
  BY <1>29 DEF TypeOK, EnterNative, Status
<1>30. ASSUME NEW t \in Thread, LeaveNative(t)
     PROVE  TypeOK'
  BY <1>30 DEF TypeOK, LeaveNative, Status
<1>31. ASSUME NEW t \in Thread, WantVmLock(t)
     PROVE  TypeOK'
  BY <1>31 DEF TypeOK, WantVmLock
<1>32. ASSUME NEW t \in Thread, StartSuspendAll(t)
     PROVE  TypeOK'
  BY <1>32 DEF TypeOK, StartSuspendAll
<1>33. ASSUME NEW t \in Thread, StartTrace(t)
     PROVE  TypeOK'
  BY <1>33 DEF TypeOK, StartTrace
<1> QED
  BY <1>1, <1>2, <1>3, <1>4, <1>5, <1>6, <1>7, <1>8, <1>9, <1>10, <1>11,
     <1>12, <1>13, <1>14, <1>15, <1>16, <1>17, <1>18, <1>19, <1>20, <1>21,
     <1>22, <1>23, <1>24, <1>25, <1>26, <1>27, <1>28, <1>29, <1>30, <1>31,
     <1>32, <1>33
     DEF Next, Obliged, Chosen, CheckStep, SuspendAllStep, ResumeAllStep, TraceStep

\* Thread.status, suspendCount, the mutexes and the program points stay in
\* their types whatever the roles of the threads (vm/Thread.cpp).
THEOREM TypeCorrect == Spec => []TypeOK
<1>1. Init => TypeOK
  BY RolesAssumption DEF Init, TypeOK, Status, Point, ReturnPoint
<1> QED
  BY <1>1, TypeStep, PTL DEF Spec

-----------------------------------------------------------------------------
\* The stop invariant is inductive when nobody takes stack traces.  The one
\* step that makes a new stop is SuspendOthers, and nobody else is stopping
\* then: whoever is has the caller parked, or holds _threadSuspendLock.
LEMMA StopStep == Tracer = {} /\ StopInv /\ [Next]_vars => StopInv'
<1> SUFFICES ASSUME Tracer = {}, StopInv, [Next]_vars
             PROVE  (SuspendLockHeld /\ StatusShown /\ StopperFree /\ SeenAreParked /\ NoTraces)'
  BY TypeStep DEF StopInv
<1>0. TypeOK'
  BY TypeStep DEF StopInv
<1> USE <1>0 DEF StopInv, TypeOK, At, Goto, CallCheck, SaveState, Point, ReturnPoint,
        Status, savedVars, threadVars, countVars, lockVars, ctlVars, Others,
        SusPoint, StopPoint, Parked
<1> DEFINE Rest == SuspendLockHeld /\ StatusShown /\ StopperFree /\ SeenAreParked /\ NoTraces
<1>1. CASE UNCHANGED vars
  BY <1>1 DEF vars, SuspendLockHeld, StatusShown, StopperFree, SeenAreParked, NoTraces
<1>2. ASSUME NEW t \in Thread, LockThreadSuspend(t, "susLock", "susVm") PROVE Rest'
  <2>1. SuspendLockHeld' /\ StatusShown' /\ NoTraces'
    BY <1>2, RolesAssumption DEF LockThreadSuspend, SuspendLockHeld, StatusShown, NoTraces
  <2>2. StopperFree'
    BY <1>2 DEF LockThreadSuspend, StopperFree, SuspendLockHeld, SeenAreParked
  <2>3. SeenAreParked'
    BY <1>2 DEF LockThreadSuspend, SeenAreParked, SuspendLockHeld, StatusShown, StopperFree
  <2> QED
    BY <2>1, <2>2, <2>3
<1>3. ASSUME NEW t \in Thread, TakeVmLocks(t) PROVE Rest'
  BY <1>3 DEF TakeVmLocks, SuspendLockHeld, StatusShown, StopperFree,
                 SeenAreParked, NoTraces
<1>4. ASSUME NEW t \in Thread, YieldToSuspend(t) PROVE Rest'
  <2>1. SuspendLockHeld' /\ StatusShown' /\ NoTraces'
    BY <1>4 DEF YieldToSuspend, SuspendLockHeld, StatusShown, NoTraces
  <2>2. StopperFree'
    BY <1>4 DEF YieldToSuspend, StopperFree, SuspendLockHeld, SeenAreParked
  <2>3. SeenAreParked'
    BY <1>4 DEF YieldToSuspend, SeenAreParked, SuspendLockHeld, StatusShown, StopperFree
  <2> QED
    BY <2>1, <2>2, <2>3
<1>5. ASSUME NEW t \in Thread, LockThreadSuspend(t, "susRelock", "susSelf") PROVE Rest'
  <2>1. SuspendLockHeld' /\ StatusShown' /\ NoTraces'
    BY <1>5, RolesAssumption DEF LockThreadSuspend, SuspendLockHeld, StatusShown, NoTraces
  <2>2. StopperFree'
    BY <1>5 DEF LockThreadSuspend, StopperFree, SuspendLockHeld, SeenAreParked
  <2>3. SeenAreParked'
    BY <1>5 DEF LockThreadSuspend, SeenAreParked, SuspendLockHeld, StatusShown, StopperFree
  <2> QED
    BY <2>1, <2>2, <2>3
<1>6. ASSUME NEW t \in Thread, LockThreadList(t, "susList", "susListWait", "susCount") PROVE Rest'
  BY <1>6 DEF LockThreadList, SuspendLockHeld, StatusShown, StopperFree,
                 SeenAreParked, NoTraces
<1>7. ASSUME NEW t \in Thread, GotThreadList(t, "susListWait", "susCount") PROVE Rest'
  BY <1>7 DEF GotThreadList, SuspendLockHeld, StatusShown, StopperFree,
                 SeenAreParked, NoTraces
<1>8. ASSUME NEW t \in Thread, SuspendOthers(t) PROVE Rest'
  <2>1. SuspendLockHeld' /\ StatusShown' /\ NoTraces'
    BY <1>8 DEF SuspendOthers, AddToSuspendCounts, SuspendLockHeld, StatusShown, NoTraces
  <2>2. StopperFree'
    BY <1>8
       DEF SuspendOthers, AddToSuspendCounts, StopperFree, SuspendLockHeld,
           SeenAreParked
  <2>3. SeenAreParked'
    BY <1>8
       DEF SuspendOthers, AddToSuspendCounts, SeenAreParked, SuspendLockHeld,
           StatusShown, StopperFree
  <2> QED
    BY <2>1, <2>2, <2>3
<1>9. ASSUME NEW t \in Thread, SeeStopped(t) PROVE Rest'
  <2>1. SuspendLockHeld' /\ StatusShown' /\ NoTraces'
    BY <1>9 DEF SeeStopped, LooksStopped, SuspendLockHeld, StatusShown, NoTraces
  <2>2. StopperFree'
    BY <1>9 DEF SeeStopped, LooksStopped, StopperFree, SuspendLockHeld, SeenAreParked
  <2>3. SeenAreParked'
    BY <1>9
       DEF SeeStopped, LooksStopped, SeenAreParked, SuspendLockHeld, StatusShown,
           StopperFree
  <2> QED
    BY <2>1, <2>2, <2>3
<1>10. ASSUME NEW t \in Thread, Inspect(t) PROVE Rest'
  BY <1>10 DEF Inspect, SuspendLockHeld, StatusShown, StopperFree,
                 SeenAreParked, NoTraces
<1>11. ASSUME NEW t \in Thread, LockThreadSuspend(t, "resLock", "resList") PROVE Rest'
  <2>1. SuspendLockHeld' /\ StatusShown' /\ NoTraces'
    BY <1>11, RolesAssumption DEF LockThreadSuspend, SuspendLockHeld, StatusShown, NoTraces
  <2>2. StopperFree'
    BY <1>11 DEF LockThreadSuspend, StopperFree, SuspendLockHeld, SeenAreParked
  <2>3. SeenAreParked'
    BY <1>11 DEF LockThreadSuspend, SeenAreParked, SuspendLockHeld, StatusShown, StopperFree
  <2> QED
    BY <2>1, <2>2, <2>3
<1>12. ASSUME NEW t \in Thread, LockThreadList(t, "resList", "resListWait", "resCount") PROVE Rest'
  BY <1>12 DEF LockThreadList, SuspendLockHeld, StatusShown, StopperFree,
                 SeenAreParked, NoTraces
<1>13. ASSUME NEW t \in Thread, GotThreadList(t, "resListWait", "resCount") PROVE Rest'
  BY <1>13 DEF GotThreadList, SuspendLockHeld, StatusShown, StopperFree,
                 SeenAreParked, NoTraces
<1>14. ASSUME NEW t \in Thread, ResumeOthers(t) PROVE Rest'
  <2>1. SuspendLockHeld' /\ StatusShown' /\ NoTraces'
    BY <1>14 DEF ResumeOthers, TakeFromSuspendCounts, SuspendLockHeld, StatusShown, NoTraces
  <2>2. StopperFree'
    BY <1>14
       DEF ResumeOthers, TakeFromSuspendCounts, StopperFree, SuspendLockHeld,
           SeenAreParked
  <2>3. SeenAreParked'
    BY <1>14
       DEF ResumeOthers, TakeFromSuspendCounts, SeenAreParked, SuspendLockHeld,
           StatusShown, StopperFree
  <2> QED
    BY <2>1, <2>2, <2>3
<1>15. ASSUME NEW t \in Thread, UnlockThreadSuspend(t) PROVE Rest'
  BY <1>15 DEF UnlockThreadSuspend, SuspendLockHeld, StatusShown, StopperFree,
                 SeenAreParked, NoTraces
<1>16. ASSUME NEW t \in Thread, WakeOthers(t, "run") PROVE Rest'
  BY <1>16 DEF WakeOthers, SuspendLockHeld, StatusShown, StopperFree,
                 SeenAreParked, NoTraces
<1>17. ASSUME NEW t \in Thread, LockThreadList(t, "trList", "trListWait", "trFind") PROVE Rest'
  BY <1>17 DEF LockThreadList, NoTraces
<1>18. ASSUME NEW t \in Thread, GotThreadList(t, "trListWait", "trFind") PROVE Rest'
  BY <1>18 DEF GotThreadList, NoTraces
<1>19. ASSUME NEW t \in Thread, SuspendThread(t) PROVE Rest'
  BY <1>19 DEF SuspendThread, NoTraces
<1>20. ASSUME NEW t \in Thread, WaitForThreadSuspend(t) PROVE Rest'
  BY <1>20 DEF WaitForThreadSuspend, NoTraces
<1>21. ASSUME NEW t \in Thread, ResumeThread(t) PROVE Rest'
  BY <1>21 DEF ResumeThread, NoTraces
<1>22. ASSUME NEW t \in Thread, UnlockThreadList(t) PROVE Rest'
  BY <1>22 DEF UnlockThreadList, NoTraces
<1>23. ASSUME NEW t \in Thread, CheckSuspendPending(t) PROVE Rest'
  BY <1>23 DEF CheckSuspendPending, SuspendLockHeld, StatusShown, StopperFree,
                 SeenAreParked, NoTraces
<1>24. ASSUME NEW t \in Thread, SafePoint(t) PROVE Rest'
  BY <1>24 DEF SafePoint, SuspendLockHeld, StatusShown, StopperFree,
                 SeenAreParked, NoTraces
<1>25. ASSUME NEW t \in Thread, FullSuspendCheck(t) PROVE Rest'
  <2>1. SuspendLockHeld' /\ StatusShown' /\ NoTraces'
    BY <1>25 DEF FullSuspendCheck, SuspendLockHeld, StatusShown, NoTraces
  <2>2. StopperFree'
    BY <1>25 DEF FullSuspendCheck, StopperFree, SuspendLockHeld, SeenAreParked
  <2>3. SeenAreParked'
    BY <1>25 DEF FullSuspendCheck, SeenAreParked, SuspendLockHeld, StatusShown, StopperFree
  <2> QED
    BY <2>1, <2>2, <2>3
<1>26. ASSUME NEW t \in Thread, WakeUp(t) PROVE Rest'
  <2>1. SuspendLockHeld' /\ StatusShown' /\ NoTraces'
    BY <1>26 DEF WakeUp, SuspendLockHeld, StatusShown, NoTraces
  <2>2. StopperFree'
    BY <1>26 DEF WakeUp, StopperFree, SuspendLockHeld, SeenAreParked
  <2>3. SeenAreParked'
    BY <1>26 DEF WakeUp, SeenAreParked, SuspendLockHeld, StatusShown, StopperFree
  <2> QED
    BY <2>1, <2>2, <2>3
<1>27. ASSUME NEW t \in Thread, TakeVmLock(t) PROVE Rest'
  BY <1>27 DEF TakeVmLock, SuspendLockHeld, StatusShown, StopperFree,
                 SeenAreParked, NoTraces
<1>28. ASSUME NEW t \in Thread, DropVmLock(t) PROVE Rest'
  BY <1>28 DEF DropVmLock, SuspendLockHeld, StatusShown, StopperFree,
                 SeenAreParked, NoTraces
<1>29. ASSUME NEW t \in Thread, EnterNative(t) PROVE Rest'
  BY <1>29 DEF EnterNative, SuspendLockHeld, StatusShown, StopperFree,
                 SeenAreParked, NoTraces
<1>30. ASSUME NEW t \in Thread, LeaveNative(t) PROVE Rest'
  BY <1>30 DEF LeaveNative, SuspendLockHeld, StatusShown, StopperFree,
                 SeenAreParked, NoTraces
<1>31. ASSUME NEW t \in Thread, WantVmLock(t) PROVE Rest'
  BY <1>31 DEF WantVmLock, SuspendLockHeld, StatusShown, StopperFree,
                 SeenAreParked, NoTraces
<1>32. ASSUME NEW t \in Thread, StartSuspendAll(t) PROVE Rest'
  BY <1>32 DEF StartSuspendAll, SuspendLockHeld, StatusShown, StopperFree,
                 SeenAreParked, NoTraces
<1>33. ASSUME NEW t \in Thread, StartTrace(t) PROVE Rest'
  BY <1>33 DEF StartTrace, NoTraces
<1> QED
  BY <1>1, <1>2, <1>3, <1>4, <1>5, <1>6, <1>7, <1>8, <1>9, <1>10, <1>11,
     <1>12, <1>13, <1>14, <1>15, <1>16, <1>17, <1>18, <1>19, <1>20, <1>21,
     <1>22, <1>23, <1>24, <1>25, <1>26, <1>27, <1>28, <1>29, <1>30, <1>31,
     <1>32, <1>33
     DEF Next, Obliged, Chosen, CheckStep, SuspendAllStep, ResumeAllStep, TraceStep

\* The invariant says what it is for: with s at a point where the world is
\* stopped, every other thread is parked, so it is not in managed code.
LEMMA StopInvStops == StopInv => WorldStopped
<1> SUFFICES ASSUME StopInv, NEW s \in Thread, WorldStoppedBy(s), NEW t \in Others(s)
             PROVE  pc[t] # "run"
  BY DEF WorldStopped
<1>1. pc[s] \in StopPoint
  BY DEF StopInv, TypeOK, StopperFree, WorldStoppedBy, Where, StopPoint, ReturnPoint
<1> QED
  BY <1>1 DEF StopInv, SeenAreParked, Parked

\* With no thread taking another's stack trace, a stop is a stop: between the
\* return of dvmSuspendAllThreads and the decrement in dvmResumeAllThreads no
\* thread but the caller is in managed code, for any number of threads and of
\* concurrent stops.
THEOREM StopIsSafe == Tracer = {} => (Spec => []WorldStopped)
<1> SUFFICES ASSUME Tracer = {} PROVE Spec => []WorldStopped
  OBVIOUS
<1>1. Init => StopInv
  BY RolesAssumption
     DEF Init, StopInv, TypeOK, Status, Point, ReturnPoint, SuspendLockHeld, SusPoint,
         StatusShown, StopperFree, StopPoint, SeenAreParked, NoTraces, Others
<1>2. StopInv /\ [Next]_vars => StopInv'
  BY StopStep
<1> QED
  BY <1>1, <1>2, StopInvStops, PTL DEF Spec

-----------------------------------------------------------------------------
\* No wake-up is lost by a step: who takes the last request away either is
\* still to broadcast or broadcasts in the same critical section.
LEMMA WakeUpStep == TypeOK /\ NoLostWakeUp /\ [Next]_vars => NoLostWakeUp'
<1> SUFFICES ASSUME TypeOK, NoLostWakeUp, [Next]_vars PROVE NoLostWakeUp'
  OBVIOUS
<1> USE DEF NoLostWakeUp, TypeOK, At, Goto, CallCheck, Point, ReturnPoint, threadVars,
            savedVars, countVars, lockVars, ctlVars
<1>1. CASE UNCHANGED vars
  BY <1>1 DEF vars
<1>2. ASSUME NEW t \in Thread, LockThreadSuspend(t, "susLock", "susVm")
     PROVE  NoLostWakeUp'
  BY <1>2 DEF LockThreadSuspend
<1>3. ASSUME NEW t \in Thread, TakeVmLocks(t)
     PROVE  NoLostWakeUp'
  BY <1>3 DEF TakeVmLocks
<1>4. ASSUME NEW t \in Thread, YieldToSuspend(t)
     PROVE  NoLostWakeUp'
  BY <1>4 DEF YieldToSuspend
<1>5. ASSUME NEW t \in Thread, LockThreadSuspend(t, "susRelock", "susSelf")
     PROVE  NoLostWakeUp'
  BY <1>5 DEF LockThreadSuspend
<1>6. ASSUME NEW t \in Thread, LockThreadList(t, "susList", "susListWait", "susCount")
     PROVE  NoLostWakeUp'
  BY <1>6 DEF LockThreadList
<1>7. ASSUME NEW t \in Thread, GotThreadList(t, "susListWait", "susCount")
     PROVE  NoLostWakeUp'
  BY <1>7 DEF GotThreadList
<1>8. ASSUME NEW t \in Thread, SuspendOthers(t)
     PROVE  NoLostWakeUp'
  BY <1>8 DEF SuspendOthers, AddToSuspendCounts, Others
<1>9. ASSUME NEW t \in Thread, SeeStopped(t)
     PROVE  NoLostWakeUp'
  BY <1>9 DEF SeeStopped
<1>10. ASSUME NEW t \in Thread, Inspect(t)
     PROVE  NoLostWakeUp'
  BY <1>10 DEF Inspect
<1>11. ASSUME NEW t \in Thread, LockThreadSuspend(t, "resLock", "resList")
     PROVE  NoLostWakeUp'
  BY <1>11 DEF LockThreadSuspend
<1>12. ASSUME NEW t \in Thread, LockThreadList(t, "resList", "resListWait", "resCount")
     PROVE  NoLostWakeUp'
  BY <1>12 DEF LockThreadList
<1>13. ASSUME NEW t \in Thread, GotThreadList(t, "resListWait", "resCount")
     PROVE  NoLostWakeUp'
  BY <1>13 DEF GotThreadList
<1>14. ASSUME NEW t \in Thread, ResumeOthers(t)
     PROVE  NoLostWakeUp'
  BY <1>14 DEF ResumeOthers, TakeFromSuspendCounts, Others
<1>15. ASSUME NEW t \in Thread, UnlockThreadSuspend(t)
     PROVE  NoLostWakeUp'
  BY <1>15 DEF UnlockThreadSuspend
<1>16. ASSUME NEW t \in Thread, WakeOthers(t, "run")
     PROVE  NoLostWakeUp'
  BY <1>16 DEF WakeOthers
<1>17. ASSUME NEW t \in Thread, LockThreadList(t, "trList", "trListWait", "trFind")
     PROVE  NoLostWakeUp'
  BY <1>17 DEF LockThreadList
<1>18. ASSUME NEW t \in Thread, GotThreadList(t, "trListWait", "trFind")
     PROVE  NoLostWakeUp'
  BY <1>18 DEF GotThreadList
<1>19. ASSUME NEW t \in Thread, SuspendThread(t)
     PROVE  NoLostWakeUp'
  BY <1>19 DEF SuspendThread, AddToSuspendCounts, Others
<1>20. ASSUME NEW t \in Thread, WaitForThreadSuspend(t)
     PROVE  NoLostWakeUp'
  BY <1>20 DEF WaitForThreadSuspend
<1>21. ASSUME NEW t \in Thread, ResumeThread(t)
     PROVE  NoLostWakeUp'
  BY <1>21 DEF ResumeThread, TakeFromSuspendCounts, Others
<1>22. ASSUME NEW t \in Thread, UnlockThreadList(t)
     PROVE  NoLostWakeUp'
  BY <1>22 DEF UnlockThreadList
<1>23. ASSUME NEW t \in Thread, CheckSuspendPending(t)
     PROVE  NoLostWakeUp'
  BY <1>23 DEF CheckSuspendPending
<1>24. ASSUME NEW t \in Thread, SafePoint(t)
     PROVE  NoLostWakeUp'
  BY <1>24 DEF SafePoint
<1>25. ASSUME NEW t \in Thread, FullSuspendCheck(t)
     PROVE  NoLostWakeUp'
  BY <1>25 DEF FullSuspendCheck
<1>26. ASSUME NEW t \in Thread, WakeUp(t)
     PROVE  NoLostWakeUp'
  BY <1>26 DEF WakeUp
<1>27. ASSUME NEW t \in Thread, TakeVmLock(t)
     PROVE  NoLostWakeUp'
  BY <1>27 DEF TakeVmLock
<1>28. ASSUME NEW t \in Thread, DropVmLock(t)
     PROVE  NoLostWakeUp'
  BY <1>28 DEF DropVmLock
<1>29. ASSUME NEW t \in Thread, EnterNative(t)
     PROVE  NoLostWakeUp'
  BY <1>29 DEF EnterNative
<1>30. ASSUME NEW t \in Thread, LeaveNative(t)
     PROVE  NoLostWakeUp'
  BY <1>30 DEF LeaveNative
<1>31. ASSUME NEW t \in Thread, WantVmLock(t)
     PROVE  NoLostWakeUp'
  BY <1>31 DEF WantVmLock
<1>32. ASSUME NEW t \in Thread, StartSuspendAll(t)
     PROVE  NoLostWakeUp'
  BY <1>32 DEF StartSuspendAll
<1>33. ASSUME NEW t \in Thread, StartTrace(t)
     PROVE  NoLostWakeUp'
  BY <1>33 DEF StartTrace
<1> QED
  BY <1>1, <1>2, <1>3, <1>4, <1>5, <1>6, <1>7, <1>8, <1>9, <1>10, <1>11,
     <1>12, <1>13, <1>14, <1>15, <1>16, <1>17, <1>18, <1>19, <1>20, <1>21,
     <1>22, <1>23, <1>24, <1>25, <1>26, <1>27, <1>28, <1>29, <1>30, <1>31,
     <1>32, <1>33
     DEF Next, Obliged, Chosen, CheckStep, SuspendAllStep, ResumeAllStep, TraceStep

\* A thread asleep on threadSuspendCountCond with no request against it has a
\* broadcast on the way, whatever the roles: dvmResumeAllThreads may release
\* its locks between decrement and broadcast (vm/Thread.cpp).
THEOREM WakeUpsAreNotLost == Spec => []NoLostWakeUp
<1>1. Init => NoLostWakeUp
  BY DEF Init, NoLostWakeUp
<1> QED
  BY <1>1, TypeCorrect, WakeUpStep, PTL DEF Spec

-----------------------------------------------------------------------------
(* suspendCount is a count: of the threads that stop the world and of those *)
(* that take this thread's stack trace.                                    *)

\* The threads whose requests suspendCount[t] counts.
StoppersOf(t) == {s \in Others(t) : HasSuspendedAll(s)}
TracersOf(t) == {s \in Others(t) : HasSuspended(s, t)}

\* A stack trace is another thread's.
TracesOthers ==
  \A t \in Thread : pc[t] \in {"trWait", "trLook"} => await[t] \subseteq Others(t)

\* What a step of t makes of the requests of t and of the counts: nothing, ask
\* everybody, release everybody, ask one thread, release one.
KeepsRequests(t) ==
  /\ HasSuspendedAll(t)' <=> HasSuspendedAll(t)
  /\ \A x \in Thread : HasSuspended(t, x)' <=> HasSuspended(t, x)
  /\ suspendCount' = suspendCount

AsksAll(t) ==
  /\ ~HasSuspendedAll(t) /\ HasSuspendedAll(t)'
  /\ \A x \in Thread : HasSuspended(t, x)' <=> HasSuspended(t, x)
  /\ AddToSuspendCounts(Others(t), 1)

FreesAll(t) ==
  /\ HasSuspendedAll(t) /\ ~HasSuspendedAll(t)'
  /\ \A x \in Thread : HasSuspended(t, x)' <=> HasSuspended(t, x)
  /\ TakeFromSuspendCounts(Others(t))

AsksOne(t) ==
  /\ HasSuspendedAll(t)' <=> HasSuspendedAll(t)
  /\ \E u \in Others(t) :
       /\ \A x \in Thread : ~HasSuspended(t, x) /\ (HasSuspended(t, x)' <=> x = u)
       /\ AddToSuspendCounts({u}, 1)

FreesOne(t) ==
  /\ HasSuspendedAll(t)' <=> HasSuspendedAll(t)
  /\ \A x \in Thread : (HasSuspended(t, x) <=> x \in await[t]) /\ ~HasSuspended(t, x)'
  /\ await[t] \subseteq Others(t)
  /\ TakeFromSuspendCounts(await[t])

\* And it leaves the requests of the others alone.
OnlyOwnRequests(t) == \A s \in Others(t) :
  /\ HasSuspendedAll(s)' <=> HasSuspendedAll(s)
  /\ \A x \in Thread : HasSuspended(s, x)' <=> HasSuspended(s, x)

RequestStep(t) ==
  /\ OnlyOwnRequests(t)
  /\ KeepsRequests(t) \/ AsksAll(t) \/ FreesAll(t) \/ AsksOne(t) \/ FreesOne(t)

\* A stack trace stays another thread's.
LEMMA TracesOthersStep == TypeOK /\ TracesOthers /\ [Next]_vars => TracesOthers'
<1> SUFFICES ASSUME TypeOK, TracesOthers, [Next]_vars PROVE TracesOthers'
  OBVIOUS
<1> USE DEF TracesOthers, TypeOK, At, Goto, CallCheck, Point, ReturnPoint, Others, threadVars,
            savedVars, countVars, lockVars, ctlVars
<1>1. CASE UNCHANGED vars
  BY <1>1 DEF vars
<1>2. ASSUME NEW t \in Thread, LockThreadSuspend(t, "susLock", "susVm")
     PROVE  TracesOthers'
  BY <1>2 DEF LockThreadSuspend
<1>3. ASSUME NEW t \in Thread, TakeVmLocks(t)
     PROVE  TracesOthers'
  BY <1>3 DEF TakeVmLocks
<1>4. ASSUME NEW t \in Thread, YieldToSuspend(t)
     PROVE  TracesOthers'
  BY <1>4 DEF YieldToSuspend
<1>5. ASSUME NEW t \in Thread, LockThreadSuspend(t, "susRelock", "susSelf")
     PROVE  TracesOthers'
  BY <1>5 DEF LockThreadSuspend
<1>6. ASSUME NEW t \in Thread, LockThreadList(t, "susList", "susListWait", "susCount")
     PROVE  TracesOthers'
  BY <1>6 DEF LockThreadList
<1>7. ASSUME NEW t \in Thread, GotThreadList(t, "susListWait", "susCount")
     PROVE  TracesOthers'
  BY <1>7 DEF GotThreadList
<1>8. ASSUME NEW t \in Thread, SuspendOthers(t)
     PROVE  TracesOthers'
  BY <1>8 DEF SuspendOthers
<1>9. ASSUME NEW t \in Thread, SeeStopped(t)
     PROVE  TracesOthers'
  BY <1>9 DEF SeeStopped
<1>10. ASSUME NEW t \in Thread, Inspect(t)
     PROVE  TracesOthers'
  BY <1>10 DEF Inspect
<1>11. ASSUME NEW t \in Thread, LockThreadSuspend(t, "resLock", "resList")
     PROVE  TracesOthers'
  BY <1>11 DEF LockThreadSuspend
<1>12. ASSUME NEW t \in Thread, LockThreadList(t, "resList", "resListWait", "resCount")
     PROVE  TracesOthers'
  BY <1>12 DEF LockThreadList
<1>13. ASSUME NEW t \in Thread, GotThreadList(t, "resListWait", "resCount")
     PROVE  TracesOthers'
  BY <1>13 DEF GotThreadList
<1>14. ASSUME NEW t \in Thread, ResumeOthers(t)
     PROVE  TracesOthers'
  BY <1>14 DEF ResumeOthers
<1>15. ASSUME NEW t \in Thread, UnlockThreadSuspend(t)
     PROVE  TracesOthers'
  BY <1>15 DEF UnlockThreadSuspend
<1>16. ASSUME NEW t \in Thread, WakeOthers(t, "run")
     PROVE  TracesOthers'
  BY <1>16 DEF WakeOthers
<1>17. ASSUME NEW t \in Thread, LockThreadList(t, "trList", "trListWait", "trFind")
     PROVE  TracesOthers'
  BY <1>17 DEF LockThreadList
<1>18. ASSUME NEW t \in Thread, GotThreadList(t, "trListWait", "trFind")
     PROVE  TracesOthers'
  BY <1>18 DEF GotThreadList
<1>19. ASSUME NEW t \in Thread, SuspendThread(t)
     PROVE  TracesOthers'
  <2>1. CASE UNCHANGED await /\ Goto(t, "trUnlock")
    BY <1>19, <2>1
  <2>2. ASSUME NEW u \in Others(t), await' = [await EXCEPT ![t] = {u}], Goto(t, "trWait")
        PROVE  TracesOthers'
    BY <2>2
  <2> QED
    BY <1>19, <2>1, <2>2 DEF SuspendThread
<1>20. ASSUME NEW t \in Thread, WaitForThreadSuspend(t)
     PROVE  TracesOthers'
  BY <1>20 DEF WaitForThreadSuspend
<1>21. ASSUME NEW t \in Thread, ResumeThread(t)
     PROVE  TracesOthers'
  BY <1>21 DEF ResumeThread
<1>22. ASSUME NEW t \in Thread, UnlockThreadList(t)
     PROVE  TracesOthers'
  BY <1>22 DEF UnlockThreadList
<1>23. ASSUME NEW t \in Thread, CheckSuspendPending(t)
     PROVE  TracesOthers'
  BY <1>23 DEF CheckSuspendPending
<1>24. ASSUME NEW t \in Thread, SafePoint(t)
     PROVE  TracesOthers'
  BY <1>24 DEF SafePoint
<1>25. ASSUME NEW t \in Thread, FullSuspendCheck(t)
     PROVE  TracesOthers'
  BY <1>25 DEF FullSuspendCheck
<1>26. ASSUME NEW t \in Thread, WakeUp(t)
     PROVE  TracesOthers'
  BY <1>26 DEF WakeUp
<1>27. ASSUME NEW t \in Thread, TakeVmLock(t)
     PROVE  TracesOthers'
  BY <1>27 DEF TakeVmLock
<1>28. ASSUME NEW t \in Thread, DropVmLock(t)
     PROVE  TracesOthers'
  BY <1>28 DEF DropVmLock
<1>29. ASSUME NEW t \in Thread, EnterNative(t)
     PROVE  TracesOthers'
  BY <1>29 DEF EnterNative
<1>30. ASSUME NEW t \in Thread, LeaveNative(t)
     PROVE  TracesOthers'
  BY <1>30 DEF LeaveNative
<1>31. ASSUME NEW t \in Thread, WantVmLock(t)
     PROVE  TracesOthers'
  BY <1>31 DEF WantVmLock
<1>32. ASSUME NEW t \in Thread, StartSuspendAll(t)
     PROVE  TracesOthers'
  BY <1>32 DEF StartSuspendAll
<1>33. ASSUME NEW t \in Thread, StartTrace(t)
     PROVE  TracesOthers'
  BY <1>33 DEF StartTrace
<1> QED
  BY <1>1, <1>2, <1>3, <1>4, <1>5, <1>6, <1>7, <1>8, <1>9, <1>10, <1>11, <1>12, <1>13,
     <1>14, <1>15, <1>16, <1>17, <1>18, <1>19, <1>20, <1>21, <1>22, <1>23, <1>24, <1>25,
     <1>26, <1>27, <1>28, <1>29, <1>30, <1>31, <1>32, <1>33
     DEF Next, Obliged, Chosen, CheckStep, SuspendAllStep, ResumeAllStep, TraceStep
\* Every step of the protocol is of one of those kinds.
LEMMA RequestSteps ==
  ASSUME TypeOK, TracesOthers, Next
  PROVE  \E t \in Thread : RequestStep(t)
<1> USE DEF TypeOK, RequestStep, OnlyOwnRequests, HasSuspendedAll, HasSuspended, WorldStoppedBy,
            Where, At, Goto, CallCheck, Point, ReturnPoint, Others, threadVars, savedVars,
            countVars, lockVars, ctlVars
<1>2. ASSUME NEW t \in Thread, LockThreadSuspend(t, "susLock", "susVm")
     PROVE  RequestStep(t)
  BY <1>2 DEF LockThreadSuspend, KeepsRequests
<1>3. ASSUME NEW t \in Thread, TakeVmLocks(t)
     PROVE  RequestStep(t)
  BY <1>3 DEF TakeVmLocks, KeepsRequests
<1>4. ASSUME NEW t \in Thread, YieldToSuspend(t)
     PROVE  RequestStep(t)
  BY <1>4 DEF YieldToSuspend, KeepsRequests
<1>5. ASSUME NEW t \in Thread, LockThreadSuspend(t, "susRelock", "susSelf")
     PROVE  RequestStep(t)
  BY <1>5 DEF LockThreadSuspend, KeepsRequests
<1>6. ASSUME NEW t \in Thread, LockThreadList(t, "susList", "susListWait", "susCount")
     PROVE  RequestStep(t)
  BY <1>6 DEF LockThreadList, KeepsRequests
<1>7. ASSUME NEW t \in Thread, GotThreadList(t, "susListWait", "susCount")
     PROVE  RequestStep(t)
  BY <1>7 DEF GotThreadList, KeepsRequests
<1>8. ASSUME NEW t \in Thread, SuspendOthers(t)
     PROVE  RequestStep(t)
  BY <1>8 DEF SuspendOthers, AsksAll
<1>9. ASSUME NEW t \in Thread, SeeStopped(t)
     PROVE  RequestStep(t)
  BY <1>9 DEF SeeStopped, KeepsRequests
<1>10. ASSUME NEW t \in Thread, Inspect(t)
     PROVE  RequestStep(t)
  BY <1>10 DEF Inspect, KeepsRequests
<1>11. ASSUME NEW t \in Thread, LockThreadSuspend(t, "resLock", "resList")
     PROVE  RequestStep(t)
  BY <1>11 DEF LockThreadSuspend, KeepsRequests
<1>12. ASSUME NEW t \in Thread, LockThreadList(t, "resList", "resListWait", "resCount")
     PROVE  RequestStep(t)
  BY <1>12 DEF LockThreadList, KeepsRequests
<1>13. ASSUME NEW t \in Thread, GotThreadList(t, "resListWait", "resCount")
     PROVE  RequestStep(t)
  BY <1>13 DEF GotThreadList, KeepsRequests
<1>14. ASSUME NEW t \in Thread, ResumeOthers(t)
     PROVE  RequestStep(t)
  BY <1>14 DEF ResumeOthers, FreesAll
<1>15. ASSUME NEW t \in Thread, UnlockThreadSuspend(t)
     PROVE  RequestStep(t)
  BY <1>15 DEF UnlockThreadSuspend, KeepsRequests
<1>16. ASSUME NEW t \in Thread, WakeOthers(t, "run")
     PROVE  RequestStep(t)
  BY <1>16 DEF WakeOthers, KeepsRequests
<1>17. ASSUME NEW t \in Thread, LockThreadList(t, "trList", "trListWait", "trFind")
     PROVE  RequestStep(t)
  BY <1>17 DEF LockThreadList, KeepsRequests
<1>18. ASSUME NEW t \in Thread, GotThreadList(t, "trListWait", "trFind")
     PROVE  RequestStep(t)
  BY <1>18 DEF GotThreadList, KeepsRequests
<1>19. ASSUME NEW t \in Thread, SuspendThread(t)
     PROVE  RequestStep(t)
  <2>1. CASE suspendCount' = suspendCount /\ Goto(t, "trUnlock") /\ UNCHANGED await
    BY <1>19, <2>1 DEF SuspendThread, KeepsRequests
  <2>2. ASSUME NEW u \in Others(t), AddToSuspendCounts({u}, 1),
               await' = [await EXCEPT ![t] = {u}], Goto(t, "trWait")
        PROVE  RequestStep(t)
    <3>1. AsksOne(t)
      BY <1>19, <2>2 DEF SuspendThread, AsksOne
    <3> QED
      BY <1>19, <2>2, <3>1 DEF SuspendThread
  <2> QED
    BY <1>19, <2>1, <2>2 DEF SuspendThread
<1>20. ASSUME NEW t \in Thread, WaitForThreadSuspend(t)
     PROVE  RequestStep(t)
  BY <1>20 DEF WaitForThreadSuspend, KeepsRequests
<1>21. ASSUME NEW t \in Thread, ResumeThread(t)
     PROVE  RequestStep(t)
  BY <1>21 DEF ResumeThread, FreesOne, TracesOthers
<1>22. ASSUME NEW t \in Thread, UnlockThreadList(t)
     PROVE  RequestStep(t)
  BY <1>22 DEF UnlockThreadList, KeepsRequests
<1>23. ASSUME NEW t \in Thread, CheckSuspendPending(t)
     PROVE  RequestStep(t)
  BY <1>23 DEF CheckSuspendPending, KeepsRequests
<1>24. ASSUME NEW t \in Thread, SafePoint(t)
     PROVE  RequestStep(t)
  BY <1>24 DEF SafePoint, KeepsRequests
<1>25. ASSUME NEW t \in Thread, FullSuspendCheck(t)
     PROVE  RequestStep(t)
  BY <1>25 DEF FullSuspendCheck, KeepsRequests
<1>26. ASSUME NEW t \in Thread, WakeUp(t)
     PROVE  RequestStep(t)
  BY <1>26 DEF WakeUp, KeepsRequests
<1>27. ASSUME NEW t \in Thread, TakeVmLock(t)
     PROVE  RequestStep(t)
  BY <1>27 DEF TakeVmLock, KeepsRequests
<1>28. ASSUME NEW t \in Thread, DropVmLock(t)
     PROVE  RequestStep(t)
  BY <1>28 DEF DropVmLock, KeepsRequests
<1>29. ASSUME NEW t \in Thread, EnterNative(t)
     PROVE  RequestStep(t)
  BY <1>29 DEF EnterNative, KeepsRequests
<1>30. ASSUME NEW t \in Thread, LeaveNative(t)
     PROVE  RequestStep(t)
  BY <1>30 DEF LeaveNative, KeepsRequests
<1>31. ASSUME NEW t \in Thread, WantVmLock(t)
     PROVE  RequestStep(t)
  BY <1>31 DEF WantVmLock, KeepsRequests
<1>32. ASSUME NEW t \in Thread, StartSuspendAll(t)
     PROVE  RequestStep(t)
  BY <1>32 DEF StartSuspendAll, KeepsRequests
<1>33. ASSUME NEW t \in Thread, StartTrace(t)
     PROVE  RequestStep(t)
  BY <1>33 DEF StartTrace, KeepsRequests
<1> QED
  BY <1>2, <1>3, <1>4, <1>5, <1>6, <1>7, <1>8, <1>9, <1>10, <1>11, <1>12, <1>13, <1>14,
     <1>15, <1>16, <1>17, <1>18, <1>19, <1>20, <1>21, <1>22, <1>23, <1>24, <1>25, <1>26,
     <1>27, <1>28, <1>29, <1>30, <1>31, <1>32, <1>33
     DEF Next, Obliged, Chosen, CheckStep, SuspendAllStep, ResumeAllStep, TraceStep

\* A finite set grows and shrinks by one.
LEMMA CountingThreads ==
  ASSUME NEW S \in SUBSET Thread, NEW x \in Thread
  PROVE  /\ Cardinality(S) \in Nat
         /\ x \notin S => Cardinality(S \cup {x}) = Cardinality(S) + 1
         /\ x \in S => Cardinality(S) # 0 /\ Cardinality(S \ {x}) = Cardinality(S) - 1
<1>1. IsFiniteSet(S)
  BY RolesAssumption, FS_Subset
<1>2. Cardinality(S) \in Nat
  BY <1>1, FS_CardinalityType
<1>3. x \notin S => Cardinality(S \cup {x}) = Cardinality(S) + 1
  BY <1>1, FS_AddElement
<1>4. ASSUME x \in S
      PROVE  Cardinality(S) # 0 /\ Cardinality(S \ {x}) = Cardinality(S) - 1
  <2>1. Cardinality(S \ {x}) = Cardinality(S) - 1
    BY <1>1, <1>4, FS_RemoveElement
  <2>2. Cardinality(S) # 0
    BY <1>1, <1>4, FS_EmptySet
  <2> QED
    BY <2>1, <2>2
<1> QED
  BY <1>2, <1>3, <1>4

\* A step of one of the kinds keeps every count equal to its requests.
LEMMA CountsStep ==
  ASSUME suspendCount \in [Thread -> Nat], CountsRequests,
         NEW t \in Thread, RequestStep(t)
  PROVE  CountsRequests'
<1> SUFFICES ASSUME NEW x \in Thread
             PROVE  suspendCount'[x] = Cardinality(StoppersOf(x)') + Cardinality(TracersOf(x)')
  BY DEF CountsRequests, StoppersOf, TracersOf, Others
<1> DEFINE Stoppers == StoppersOf(x)
           Tracers == TracersOf(x)
<1>1. /\ Stoppers \in SUBSET Thread /\ Tracers \in SUBSET Thread
      /\ suspendCount[x] = Cardinality(Stoppers) + Cardinality(Tracers)
      /\ suspendCount[x] \in Nat /\ suspendCount \in [Thread -> Nat]
  BY DEF CountsRequests, StoppersOf, TracersOf, Others
<1>2. /\ \A s \in Thread : s # t =>
             /\ s \in Stoppers' <=> s \in Stoppers
             /\ s \in Tracers' <=> s \in Tracers
      /\ t \in Stoppers' <=> t # x /\ HasSuspendedAll(t)'
      /\ t \in Stoppers <=> t # x /\ HasSuspendedAll(t)
      /\ t \in Tracers' <=> t # x /\ HasSuspended(t, x)'
      /\ t \in Tracers <=> t # x /\ HasSuspended(t, x)
      /\ Stoppers' \in SUBSET Thread /\ Tracers' \in SUBSET Thread
  BY DEF RequestStep, OnlyOwnRequests, StoppersOf, TracersOf, Others
<1>3. /\ Cardinality(Stoppers) \in Nat /\ Cardinality(Tracers) \in Nat
      /\ t \notin Stoppers => Cardinality(Stoppers \cup {t}) = Cardinality(Stoppers) + 1
      /\ t \in Stoppers => /\ Cardinality(Stoppers) # 0
                           /\ Cardinality(Stoppers \ {t}) = Cardinality(Stoppers) - 1
      /\ t \notin Tracers => Cardinality(Tracers \cup {t}) = Cardinality(Tracers) + 1
      /\ t \in Tracers => /\ Cardinality(Tracers) # 0
                          /\ Cardinality(Tracers \ {t}) = Cardinality(Tracers) - 1
  BY <1>1, CountingThreads
<1> HIDE DEF Stoppers, Tracers
<1>4. /\ (t \in Stoppers' <=> t \in Stoppers) => Stoppers' = Stoppers
      /\ (t \in Tracers' <=> t \in Tracers) => Tracers' = Tracers
  <2>1. ASSUME t \in Stoppers' <=> t \in Stoppers PROVE Stoppers' = Stoppers
    <3>1. \A s \in Thread : s \in Stoppers' <=> s \in Stoppers
      BY <1>2, <2>1
    <3> QED
      BY <1>1, <1>2, <3>1
  <2>2. ASSUME t \in Tracers' <=> t \in Tracers PROVE Tracers' = Tracers
    <3>1. \A s \in Thread : s \in Tracers' <=> s \in Tracers
      BY <1>2, <2>2
    <3> QED
      BY <1>1, <1>2, <3>1
  <2> QED
    BY <2>1, <2>2
<1> SUFFICES suspendCount'[x] = Cardinality(Stoppers') + Cardinality(Tracers')
  BY DEF Stoppers, Tracers
<1>5. CASE KeepsRequests(t)
  <2>1. Stoppers' = Stoppers /\ Tracers' = Tracers /\ suspendCount'[x] = suspendCount[x]
    BY <1>1, <1>2, <1>4, <1>5 DEF KeepsRequests
  <2> QED
    BY <1>1, <2>1
<1>6. CASE AsksAll(t)
  <2>1. Tracers' = Tracers
    BY <1>1, <1>2, <1>4, <1>6 DEF AsksAll
  <2>2. CASE x = t
    <3>1. Stoppers' = Stoppers /\ suspendCount'[x] = suspendCount[x]
      BY <1>1, <1>2, <1>4, <1>6, <2>2 DEF AsksAll, AddToSuspendCounts, Others
    <3> QED
      BY <1>1, <2>1, <3>1
  <2>3. CASE x # t
    <3>1. Stoppers' = Stoppers \cup {t} /\ t \notin Stoppers
      BY <1>1, <1>2, <1>6, <2>3 DEF AsksAll
    <3>2. suspendCount'[x] = suspendCount[x] + 1
      BY <1>1, <1>6, <2>3 DEF AsksAll, AddToSuspendCounts, Others
    <3> QED
      BY <1>1, <1>3, <2>1, <3>1, <3>2
  <2> QED
    BY <2>2, <2>3
<1>7. CASE FreesAll(t)
  <2>1. Tracers' = Tracers
    BY <1>1, <1>2, <1>4, <1>7 DEF FreesAll
  <2>2. CASE x = t
    <3>1. Stoppers' = Stoppers /\ suspendCount'[x] = suspendCount[x]
      BY <1>1, <1>2, <1>4, <1>7, <2>2 DEF FreesAll, TakeFromSuspendCounts, Others
    <3> QED
      BY <1>1, <2>1, <3>1
  <2>3. CASE x # t
    <3>1. Stoppers' = Stoppers \ {t} /\ t \in Stoppers
      BY <1>1, <1>2, <1>7, <2>3 DEF FreesAll
    <3>2. suspendCount[x] > 0
      BY <1>1, <1>3, <3>1
    <3>3. suspendCount'[x] = suspendCount[x] - 1
      BY <1>1, <1>7, <2>3, <3>2 DEF FreesAll, TakeFromSuspendCounts, Others
    <3> QED
      BY <1>1, <1>3, <2>1, <3>1, <3>3
  <2> QED
    BY <2>2, <2>3
<1>8. CASE AsksOne(t)
  <2>1. Stoppers' = Stoppers
    BY <1>1, <1>2, <1>4, <1>8 DEF AsksOne
  <2>2. PICK u \in Others(t) :
          /\ \A y \in Thread : ~HasSuspended(t, y) /\ (HasSuspended(t, y)' <=> y = u)
          /\ AddToSuspendCounts({u}, 1)
    BY <1>8 DEF AsksOne
  <2>3. CASE x # u
    <3>1. Tracers' = Tracers /\ suspendCount'[x] = suspendCount[x]
      BY <1>1, <1>2, <1>4, <2>2, <2>3 DEF AddToSuspendCounts
    <3> QED
      BY <1>1, <2>1, <3>1
  <2>4. CASE x = u
    <3>1. Tracers' = Tracers \cup {t} /\ t \notin Tracers
      BY <1>1, <1>2, <2>2, <2>4 DEF Others
    <3>2. suspendCount'[x] = suspendCount[x] + 1
      BY <1>1, <2>2, <2>4 DEF AddToSuspendCounts
    <3> QED
      BY <1>1, <1>3, <2>1, <3>1, <3>2
  <2> QED
    BY <2>3, <2>4
<1>9. CASE FreesOne(t)
  <2>1. Stoppers' = Stoppers
    BY <1>1, <1>2, <1>4, <1>9 DEF FreesOne
  <2>2. CASE x \notin await[t]
    <3>1. Tracers' = Tracers /\ suspendCount'[x] = suspendCount[x]
      BY <1>1, <1>2, <1>4, <1>9, <2>2 DEF FreesOne, TakeFromSuspendCounts
    <3> QED
      BY <1>1, <2>1, <3>1
  <2>3. CASE x \in await[t]
    <3>1. Tracers' = Tracers \ {t} /\ t \in Tracers
      BY <1>1, <1>2, <1>9, <2>3 DEF FreesOne, Others
    <3>2. suspendCount[x] > 0
      BY <1>1, <1>3, <3>1
    <3>3. suspendCount'[x] = suspendCount[x] - 1
      BY <1>1, <1>9, <2>3, <3>2 DEF FreesOne, TakeFromSuspendCounts
    <3> QED
      BY <1>1, <1>3, <2>1, <3>1, <3>3
  <2> QED
    BY <2>2, <2>3
<1> QED
  BY <1>5, <1>6, <1>7, <1>8, <1>9 DEF RequestStep

\* A thread's suspendCount is the number of the requests outstanding against
\* it, for any number of threads that stop the world and that take stack traces:
\* dvmResumeAllThreads and dvmResumeThread take back their own requests, though
\* they test the count against zero and nothing says whose it is.
THEOREM CountsAreRequests == Spec => []CountsRequests
<1> DEFINE Inv == TypeOK /\ TracesOthers /\ CountsRequests
<1>1. Init => Inv
  <2> SUFFICES ASSUME Init PROVE Inv
    OBVIOUS
  <2>1. TypeOK
    BY RolesAssumption DEF Init, TypeOK, Status, Point, ReturnPoint
  <2>2. TracesOthers
    BY DEF Init, TracesOthers
  <2>3. \A t \in Thread : StoppersOf(t) = {} /\ TracersOf(t) = {} /\ suspendCount[t] = 0
    BY DEF Init, StoppersOf, TracersOf, Others, HasSuspendedAll, HasSuspended,
           WorldStoppedBy, Where
  <2>4. Cardinality({}) = 0
    BY FS_EmptySet
  <2>5. CountsRequests
    BY <2>3, <2>4 DEF CountsRequests, StoppersOf, TracersOf
  <2> QED
    BY <2>1, <2>2, <2>5
<1>2. Inv /\ [Next]_vars => Inv'
  <2> SUFFICES ASSUME Inv, [Next]_vars PROVE Inv'
    OBVIOUS
  <2>1. TypeOK' /\ TracesOthers'
    BY TypeStep, TracesOthersStep
  <2>2. CASE Next
    <3>1. suspendCount \in [Thread -> Nat]
      BY DEF TypeOK
    <3>2. PICK t \in Thread : RequestStep(t)
      BY <2>2, RequestSteps
    <3>3. CountsRequests'
      BY <3>1, <3>2, CountsStep
    <3> QED
      BY <2>1, <3>3
  <2>3. CASE UNCHANGED vars
    <3>1. UNCHANGED <<suspendCount, pc, ret, await>>
      BY <2>3 DEF vars, countVars, ctlVars
    <3> QED
      BY <2>1, <3>1 DEF CountsRequests, HasSuspendedAll, HasSuspended, WorldStoppedBy, Where
  <2> QED
    BY <2>2, <2>3
<1> QED
  BY <1>1, <1>2, PTL DEF Spec

-----------------------------------------------------------------------------
(* The protocol implements StopTheWorld when nobody takes stack traces.     *)

Managed == {t \in Thread : pc[t] = "run"}
Stopper == IF \E s \in Thread : WorldStoppedBy(s)
           THEN CHOOSE s \in Thread : WorldStoppedBy(s) ELSE NoThread

\* A step of t is seen by the clients of the protocol as a step of t only, and
\* not as two at once.
WorldStep(t) ==
  /\ \A x \in Others(t) : /\ pc'[x] = "run" <=> pc[x] = "run"
                          /\ WorldStoppedBy(x)' <=> WorldStoppedBy(x)
  /\ \/ WorldStoppedBy(t)' <=> WorldStoppedBy(t)
     \/ pc[t] # "run" /\ pc'[t] # "run"

LEMMA WorldSteps ==
  ASSUME TypeOK, Next
  PROVE  \E t \in Thread : WorldStep(t)
<1> USE DEF TypeOK, WorldStep, WorldStoppedBy, Where, At, Goto, CallCheck, Point, ReturnPoint,
            Others, threadVars, savedVars, countVars, lockVars, ctlVars
<1>2. ASSUME NEW t \in Thread, LockThreadSuspend(t, "susLock", "susVm")
     PROVE  WorldStep(t)
  BY <1>2 DEF LockThreadSuspend
<1>3. ASSUME NEW t \in Thread, TakeVmLocks(t)
     PROVE  WorldStep(t)
  BY <1>3 DEF TakeVmLocks
<1>4. ASSUME NEW t \in Thread, YieldToSuspend(t)
     PROVE  WorldStep(t)
  BY <1>4 DEF YieldToSuspend
<1>5. ASSUME NEW t \in Thread, LockThreadSuspend(t, "susRelock", "susSelf")
     PROVE  WorldStep(t)
  BY <1>5 DEF LockThreadSuspend
<1>6. ASSUME NEW t \in Thread, LockThreadList(t, "susList", "susListWait", "susCount")
     PROVE  WorldStep(t)
  BY <1>6 DEF LockThreadList
<1>7. ASSUME NEW t \in Thread, GotThreadList(t, "susListWait", "susCount")
     PROVE  WorldStep(t)
  BY <1>7 DEF GotThreadList
<1>8. ASSUME NEW t \in Thread, SuspendOthers(t)
     PROVE  WorldStep(t)
  BY <1>8 DEF SuspendOthers
<1>9. ASSUME NEW t \in Thread, SeeStopped(t)
     PROVE  WorldStep(t)
  BY <1>9 DEF SeeStopped
<1>10. ASSUME NEW t \in Thread, Inspect(t)
     PROVE  WorldStep(t)
  BY <1>10 DEF Inspect
<1>11. ASSUME NEW t \in Thread, LockThreadSuspend(t, "resLock", "resList")
     PROVE  WorldStep(t)
  BY <1>11 DEF LockThreadSuspend
<1>12. ASSUME NEW t \in Thread, LockThreadList(t, "resList", "resListWait", "resCount")
     PROVE  WorldStep(t)
  BY <1>12 DEF LockThreadList
<1>13. ASSUME NEW t \in Thread, GotThreadList(t, "resListWait", "resCount")
     PROVE  WorldStep(t)
  BY <1>13 DEF GotThreadList
<1>14. ASSUME NEW t \in Thread, ResumeOthers(t)
     PROVE  WorldStep(t)
  BY <1>14 DEF ResumeOthers
<1>15. ASSUME NEW t \in Thread, UnlockThreadSuspend(t)
     PROVE  WorldStep(t)
  BY <1>15 DEF UnlockThreadSuspend
<1>16. ASSUME NEW t \in Thread, WakeOthers(t, "run")
     PROVE  WorldStep(t)
  BY <1>16 DEF WakeOthers
<1>17. ASSUME NEW t \in Thread, LockThreadList(t, "trList", "trListWait", "trFind")
     PROVE  WorldStep(t)
  BY <1>17 DEF LockThreadList
<1>18. ASSUME NEW t \in Thread, GotThreadList(t, "trListWait", "trFind")
     PROVE  WorldStep(t)
  BY <1>18 DEF GotThreadList
<1>19. ASSUME NEW t \in Thread, SuspendThread(t)
     PROVE  WorldStep(t)
  BY <1>19 DEF SuspendThread
<1>20. ASSUME NEW t \in Thread, WaitForThreadSuspend(t)
     PROVE  WorldStep(t)
  BY <1>20 DEF WaitForThreadSuspend
<1>21. ASSUME NEW t \in Thread, ResumeThread(t)
     PROVE  WorldStep(t)
  BY <1>21 DEF ResumeThread
<1>22. ASSUME NEW t \in Thread, UnlockThreadList(t)
     PROVE  WorldStep(t)
  BY <1>22 DEF UnlockThreadList
<1>23. ASSUME NEW t \in Thread, CheckSuspendPending(t)
     PROVE  WorldStep(t)
  BY <1>23 DEF CheckSuspendPending
<1>24. ASSUME NEW t \in Thread, SafePoint(t)
     PROVE  WorldStep(t)
  BY <1>24 DEF SafePoint
<1>25. ASSUME NEW t \in Thread, FullSuspendCheck(t)
     PROVE  WorldStep(t)
  BY <1>25 DEF FullSuspendCheck
<1>26. ASSUME NEW t \in Thread, WakeUp(t)
     PROVE  WorldStep(t)
  BY <1>26 DEF WakeUp
<1>27. ASSUME NEW t \in Thread, TakeVmLock(t)
     PROVE  WorldStep(t)
  BY <1>27 DEF TakeVmLock
<1>28. ASSUME NEW t \in Thread, DropVmLock(t)
     PROVE  WorldStep(t)
  BY <1>28 DEF DropVmLock
<1>29. ASSUME NEW t \in Thread, EnterNative(t)
     PROVE  WorldStep(t)
  BY <1>29 DEF EnterNative
<1>30. ASSUME NEW t \in Thread, LeaveNative(t)
     PROVE  WorldStep(t)
  BY <1>30 DEF LeaveNative
<1>31. ASSUME NEW t \in Thread, WantVmLock(t)
     PROVE  WorldStep(t)
  BY <1>31 DEF WantVmLock
<1>32. ASSUME NEW t \in Thread, StartSuspendAll(t)
     PROVE  WorldStep(t)
  BY <1>32 DEF StartSuspendAll
<1>33. ASSUME NEW t \in Thread, StartTrace(t)
     PROVE  WorldStep(t)
  BY <1>33 DEF StartTrace
<1> QED
  BY <1>2, <1>3, <1>4, <1>5, <1>6, <1>7, <1>8, <1>9, <1>10, <1>11, <1>12, <1>13, <1>14,
     <1>15, <1>16, <1>17, <1>18, <1>19, <1>20, <1>21, <1>22, <1>23, <1>24, <1>25, <1>26,
     <1>27, <1>28, <1>29, <1>30, <1>31, <1>32, <1>33
     DEF Next, Obliged, Chosen, CheckStep, SuspendAllStep, ResumeAllStep, TraceStep

\* The world is stopped for one thread at a time, and that one is Stopper.
StopperIsOne ==
  /\ \A s \in Thread : WorldStoppedBy(s) => Stopper = s
  /\ (\A s \in Thread : ~WorldStoppedBy(s)) => Stopper = NoThread

LEMMA OneStopper == StopInv => StopperIsOne
<1> SUFFICES ASSUME StopInv PROVE StopperIsOne
  OBVIOUS
<1>1. ASSUME NEW s \in Thread, WorldStoppedBy(s), NEW t \in Thread, WorldStoppedBy(t)
      PROVE  s = t
  <2>1. pc[s] \in StopPoint /\ pc[t] \in StopPoint
    BY <1>1 DEF StopInv, TypeOK, StopperFree, WorldStoppedBy, Where, StopPoint, ReturnPoint
  <2> QED
    BY <2>1 DEF StopInv, SeenAreParked, Parked, Others, StopPoint
<1> QED
  BY <1>1 DEF Stopper, StopperIsOne

\* What the abstract steps and variables are.
LEMMA AbstractIs ==
  /\ Abstract!Init <=> Managed \subseteq Thread /\ Stopper = NoThread
  /\ \A t \in Thread :
       /\ Abstract!Enter(t) <=> /\ Stopper = NoThread /\ t \notin Managed
                                /\ Managed' = Managed \cup {t} /\ Stopper' = Stopper
       /\ Abstract!Leave(t) <=> /\ t \in Managed /\ Managed' = Managed \ {t}
                                /\ Stopper' = Stopper
       /\ Abstract!Stop(t) <=> /\ Stopper = NoThread /\ Managed = {}
                               /\ Stopper' = t /\ Managed' = Managed
       /\ Abstract!Resume(t) <=> /\ Stopper = t /\ Stopper' = NoThread
                                 /\ Managed' = Managed
BY DEF Abstract!Init, Abstract!Enter, Abstract!Leave, Abstract!Stop, Abstract!Resume,
       Managed, Stopper

\* A step maps to a step of StopTheWorld or to none.
LEMMA WorldStepImplements ==
  ASSUME StopperIsOne, StopperIsOne', WorldStopped, WorldStopped',
         NEW t \in Thread, WorldStep(t)
  PROVE  \/ Abstract!Enter(t) \/ Abstract!Leave(t) \/ Abstract!Stop(t) \/ Abstract!Resume(t)
         \/ Managed' = Managed /\ Stopper' = Stopper
<1>1. /\ \A s \in Thread : WorldStoppedBy(s) => Stopper = s
      /\ (\A s \in Thread : ~WorldStoppedBy(s)) => Stopper = NoThread
      /\ WorldStopped
  BY DEF StopperIsOne
<1>2. /\ \A s \in Thread : WorldStoppedBy(s)' => Stopper' = s
      /\ (\A s \in Thread : ~WorldStoppedBy(s)') => Stopper' = NoThread
      /\ WorldStopped'
  BY DEF StopperIsOne
<1>3. \A x \in Thread : x # t => /\ x \in Managed' <=> x \in Managed
                                 /\ WorldStoppedBy(x)' <=> WorldStoppedBy(x)
  BY DEF WorldStep, Others, Managed
<1>4. Managed \subseteq Thread /\ Managed' \subseteq Thread
  BY DEF Managed
<1>5. (t \in Managed' <=> t \in Managed) => Managed' = Managed
  BY <1>3, <1>4
<1>6. (WorldStoppedBy(t)' <=> WorldStoppedBy(t)) => Stopper' = Stopper
  BY <1>1, <1>2, <1>3
<1>7. CASE (WorldStoppedBy(t)' <=> WorldStoppedBy(t)) /\ (t \in Managed' <=> t \in Managed)
  BY <1>5, <1>6, <1>7
<1>8. CASE (WorldStoppedBy(t)' <=> WorldStoppedBy(t)) /\ t \in Managed /\ t \notin Managed'
  <2>1. Managed' = Managed \ {t}
    BY <1>3, <1>4, <1>8
  <2>2. Abstract!Leave(t)
    BY <1>6, <1>8, <2>1, AbstractIs
  <2> QED
    BY <2>2
<1>9. CASE (WorldStoppedBy(t)' <=> WorldStoppedBy(t)) /\ t \notin Managed /\ t \in Managed'
  <2>1. Managed' = Managed \cup {t}
    BY <1>3, <1>4, <1>9
  <2>2. pc'[t] = "run"
    BY <1>9 DEF Managed
  <2>3. \A s \in Thread : ~WorldStoppedBy(s)'
    BY <1>2, <2>2 DEF WorldStopped, Others, WorldStoppedBy, Where
  <2>4. Stopper' = NoThread
    BY <1>2, <2>3
  <2>5. Abstract!Enter(t)
    BY <1>6, <1>9, <2>1, <2>4, AbstractIs
  <2> QED
    BY <2>5
<1>10. CASE ~WorldStoppedBy(t) /\ WorldStoppedBy(t)' /\ pc[t] # "run" /\ pc'[t] # "run"
  <2>1. \A x \in Others(t) : pc'[x] # "run"
    BY <1>2, <1>10 DEF WorldStopped
  <2>2. Managed = {} /\ Managed' = {}
    BY <1>3, <1>10, <2>1 DEF Managed, Others
  <2>3. \A s \in Thread : ~WorldStoppedBy(s)
    BY <1>2, <1>3, <1>10
  <2>4. Stopper = NoThread /\ Stopper' = t
    BY <1>1, <1>2, <1>10, <2>3
  <2>5. Abstract!Stop(t)
    BY <2>2, <2>4, AbstractIs
  <2> QED
    BY <2>5
<1>11. CASE WorldStoppedBy(t) /\ ~WorldStoppedBy(t)' /\ pc[t] # "run" /\ pc'[t] # "run"
  <2>1. Managed' = Managed
    BY <1>5, <1>11 DEF Managed
  <2>2. \A s \in Thread : ~WorldStoppedBy(s)'
    BY <1>1, <1>3, <1>11
  <2>3. Stopper = t /\ Stopper' = NoThread
    BY <1>1, <1>2, <1>11, <2>2
  <2>4. Abstract!Resume(t)
    BY <2>1, <2>3, AbstractIs
  <2> QED
    BY <2>4
<1> QED
  BY <1>7, <1>8, <1>9, <1>10, <1>11 DEF WorldStep

\* The protocol keeps the promise the notes at the top of vm/Thread.cpp make:
\* every behaviour is one of module StopTheWorld, for any number of threads and
\* of concurrent stops, when no thread takes another's stack trace.
THEOREM ProtocolStopsTheWorld == Tracer = {} => (Spec => StopsTheWorld)
<1> SUFFICES ASSUME Tracer = {} PROVE Spec => StopsTheWorld
  OBVIOUS
<1>1. Init => StopInv
  BY RolesAssumption
     DEF Init, StopInv, TypeOK, Status, Point, ReturnPoint, SuspendLockHeld, SusPoint,
         StatusShown, StopperFree, StopPoint, SeenAreParked, NoTraces, Others
<1>2. StopInv /\ [Next]_vars => StopInv'
  BY StopStep
<1>3. Init => Abstract!Init
  <2> SUFFICES ASSUME Init PROVE Managed \subseteq Thread /\ Stopper = NoThread
    BY AbstractIs
  <2>1. \A s \in Thread : ~WorldStoppedBy(s)
    BY DEF Init, WorldStoppedBy, Where
  <2> QED
    BY <2>1 DEF Managed, Stopper
<1>4. StopInv /\ StopInv' /\ [Next]_vars
        => [Abstract!Next]_<<{t \in Thread : pc[t] = "run"},
                            IF \E s \in Thread : WorldStoppedBy(s)
                            THEN CHOOSE s \in Thread : WorldStoppedBy(s) ELSE NoThread>>
  <2> SUFFICES ASSUME StopInv, StopInv', [Next]_vars
               PROVE  Abstract!Next \/ (Managed' = Managed /\ Stopper' = Stopper)
    BY DEF Managed, Stopper
  <2>1. CASE Next
    <3>1. TypeOK
      BY DEF StopInv
    <3>2. PICK t \in Thread : WorldStep(t)
      BY <2>1, <3>1, WorldSteps
    <3>3. StopperIsOne /\ WorldStopped /\ StopperIsOne' /\ WorldStopped'
      BY OneStopper, StopInvStops, PTL
    <3> QED
      BY <3>2, <3>3, WorldStepImplements DEF Abstract!Next
  <2>2. CASE UNCHANGED vars
    <3>1. UNCHANGED <<pc, ret>>
      BY <2>2 DEF vars, ctlVars
    <3> QED
      BY <3>1 DEF Managed, Stopper, WorldStoppedBy, Where
  <2> QED
    BY <2>1, <2>2
<1> QED
  BY <1>1, <1>2, <1>3, <1>4, PTL DEF Spec, StopsTheWorld, Abstract!Spec

=============================================================================
