---------------------------- MODULE GcStopProofs ----------------------------
(***************************************************************************)
(* Proofs about GcStop for any set of threads that allocate, call          *)
(* System.gc() and dump, and for any daemon: one collection at a time, who *)
(* waits for its end is woken, suspendCount counts the requests of         *)
(* collections too, a pause stops everybody, and a dump everybody but who  *)
(* comes from the end of a concurrent collection.                          *)
(***************************************************************************)
EXTENDS GcStop, ThreadSuspendProofs

-----------------------------------------------------------------------------
(* The inductive invariant.                                                *)

SuspendPoint == {"susLock", "susVm", "susSelf", "susRelock"} \cup SusPoint
ResumePoint == {"resLock", "resList", "resListWait", "resCount", "resUnlock", "resWake"}
ScanPoint == {"gcScan", "gcScanBlocked", "gcRelocked"}
SweepPoint == {"gcSweep", "gcSweepBlocked", "gcFinish"}
TracePoint == {"trList", "trListWait", "trFind", "trWait", "trLook", "trUnlock"}

\* The status a thread has on its own account: the one it restores when it is
\* blocked or suspended.
BlockedPoint == {"asleep", "susListWait", "resListWait", "hpBlocked", "gcScanBlocked",
                 "gcSweepBlocked"}
OwnStatus(t) == IF pc[t] \in BlockedPoint THEN oldStatus[t] ELSE status[t]

\* The daemon is in managed code only to end a collection, and who stops the
\* world does so for a collection or is a dumper.
RoleInv ==
  \A t \in Thread :
    /\ t \in Daemon => Where(t) \notin {"vmWant", "vmHold"}
    /\ t \in Daemon /\ Where(t) = "run" => kind[t] # "none"
    /\ kind[t] = "daemon" => t \in Daemon
    /\ kind[t] = "explicit" => t \in Explicit
    /\ kind[t] = "alloc" => t \in Allocator
    /\ pc[t] = "gcPark" => t \in Daemon
    /\ pause[t] = 0 /\ Where(t) \in SuspendPoint \cup {"stopped"} \cup ResumePoint
         => t \in Dumper /\ kind[t] = "none"
    /\ Where(t) \in {"vmWant", "vmHold"} => kind[t] = "none"
    /\ kind[t] = "none" =>
         /\ pause[t] = 0
         /\ Where(t) \in {"run", "native", "vmWant", "vmHold", "stopped"}
                          \cup SuspendPoint \cup ResumePoint
    /\ pc[t] \notin TracePoint

\* Which status a thread has at a point.
StatusInv ==
  \A t \in Thread :
    /\ Where(t) \in {"run", "vmWant", "vmHold", "gcBegin", "gcWaited"}
         => OwnStatus(t) = "RUNNING"
    /\ Where(t) \in {"hpLock", "hpBlocked", "hpHave", "hpUnlock"} /\ t \notin Daemon
         => OwnStatus(t) = "RUNNING"
    /\ Where(t) \in SuspendPoint \cup {"stopped"}
         => OwnStatus(t) = IF pause[t] > 0 THEN "NATIVE" ELSE "RUNNING"
    /\ Where(t) \in ResumePoint
         => OwnStatus(t) = IF pause[t] > 0 /\ IsConcurrent(t) THEN "NATIVE" ELSE "RUNNING"
    /\ Where(t) \in ScanPoint \cup SweepPoint => OwnStatus(t) = "NATIVE"

\* Where a thread has the heap lock, and what a collection looks like.
HeapInv ==
  \A t \in Thread :
    /\ Where(t) \in {"hpHave", "gcBegin", "gcWait", "gcWaited", "gcRelocked", "gcFinish",
                     "gcPark", "hpUnlock"} => heapOwner = t
    /\ Where(t) \in {"run", "native"} /\ kind[t] # "none" => heapOwner = t
    /\ pause[t] > 0 => Where(t) \in SuspendPoint \cup {"stopped"} \cup ResumePoint
                                      \cup ScanPoint \cup SweepPoint
    /\ pause[t] > 0 /\ (~IsConcurrent(t) \/ Where(t) \in SuspendPoint \cup {"stopped"})
         => heapOwner = t
    /\ Where(t) \in ScanPoint \cup SweepPoint => pause[t] > 0 /\ IsConcurrent(t)
    /\ pause[t] > 0 => IF IsConcurrent(t) THEN gcRunning ELSE gcWaiters = {}

\* Whoever has asked for a stop has asked every other thread.
AskedInv ==
  \A s \in Thread : \A t \in Others(s) :
    pc[s] \in StopPoint \cup {"susWait"} => suspendCount[t] # 0

GcCtlInv == GcTypeOK /\ RoleInv /\ StatusInv /\ HeapInv
GcStopInv == SuspendLockHeld /\ StopperFree /\ AskedInv
GcInv == GcCtlInv /\ GcStopInv /\ OneCollection /\ GcWaitersAreWoken

-----------------------------------------------------------------------------
(* The types.                                                              *)

\* Blocking on the thread list and on the heap lock, and going to sleep in the
\* suspend check: the Boolean-valued variables apart from the others.
LEMMA GcLockThreadListType ==
  ASSUME GcTypeOK, NEW t \in Thread, NEW here, NEW wait \in GcPoint, NEW next \in GcPoint,
         LockThreadList(t, here, wait, next), UNCHANGED gcVars
  PROVE  GcTypeOK'
<1> USE DEF LockThreadList, Goto, countVars, savedVars, threadVars, gcVars
<1>1. CASE listOwner = NoThread
  BY <1>1 DEF GcTypeOK
<1>2. CASE listOwner # NoThread
  <2>1. oldStatus' \in [Thread -> Status] /\ status' \in [Thread -> Status]
    BY <1>2 DEF GcTypeOK, SaveState, Status
  <2>2. oldClosed' \in [Thread -> BOOLEAN] /\ closed' \in [Thread -> BOOLEAN]
    BY <1>2, Zenon DEF GcTypeOK, SaveState
  <2> QED
    BY <1>2, <2>1, <2>2 DEF GcTypeOK
<1> QED
  BY <1>1, <1>2

LEMMA LockHeapType ==
  ASSUME GcTypeOK, NEW t \in Thread, NEW here, NEW wait \in GcPoint, NEW next \in GcPoint,
         LockHeap(t, here, wait, next)
  PROVE  GcTypeOK'
<1> USE DEF LockHeap, Goto, SetStatus, countVars, lockVars, savedVars, threadVars
<1>1. CASE heapOwner = NoThread
  BY <1>1 DEF GcTypeOK
<1>2. CASE heapOwner # NoThread
  <2>1. oldStatus' \in [Thread -> Status] /\ status' \in [Thread -> Status]
    BY <1>2 DEF GcTypeOK, SaveState, Status
  <2>2. oldClosed' \in [Thread -> BOOLEAN] /\ closed' \in [Thread -> BOOLEAN]
    BY <1>2, Zenon DEF GcTypeOK, SaveState
  <2> QED
    BY <1>2, <2>1, <2>2 DEF GcTypeOK
<1> QED
  BY <1>1, <1>2

LEMMA GcFullSuspendCheckType ==
  ASSUME GcTypeOK, NEW t \in Thread, FullSuspendCheck(t), UNCHANGED gcVars
  PROVE  GcTypeOK'
<1> USE DEF FullSuspendCheck, At, Goto, countVars, savedVars, threadVars, lockVars, gcVars,
            GcPoint, Point, GcReturnPoint
<1>1. CASE suspendCount[t] = 0
  BY <1>1 DEF GcTypeOK
<1>2. CASE suspendCount[t] # 0
  <2>1. oldStatus' \in [Thread -> Status] /\ status' \in [Thread -> Status]
    BY <1>2 DEF GcTypeOK, SaveState, Status
  <2>2. oldClosed' \in [Thread -> BOOLEAN] /\ closed' \in [Thread -> BOOLEAN]
    BY <1>2, Zenon DEF GcTypeOK, SaveState
  <2> QED
    BY <1>2, <2>1, <2>2 DEF GcTypeOK
<1> QED
  BY <1>1, <1>2

\* No step leaves the types.
LEMMA GcTypeStep == GcTypeOK /\ StatusInv /\ [GcNext]_allVars => GcTypeOK'
<1> SUFFICES ASSUME GcTypeOK, StatusInv, [GcNext]_allVars PROVE GcTypeOK'
  OBVIOUS
<1> USE DEF At, Goto, SetStatus, savedVars, threadVars, countVars, lockVars, gcVars, GcPoint,
            Point, GcReturnPoint, ReturnPoint
<1>1. CASE UNCHANGED allVars
  BY <1>1 DEF GcTypeOK, allVars, vars, ctlVars
<1>2. ASSUME NEW t \in Thread, LockThreadSuspend(t, "susLock", "susVm"), UNCHANGED gcVars
      PROVE  GcTypeOK'
  BY <1>2 DEF GcTypeOK, Status, Kind, LockThreadSuspend, CallCheck
<1>3. ASSUME NEW t \in Thread, TakeVmLocks(t), UNCHANGED gcVars
      PROVE  GcTypeOK'
  BY <1>3 DEF GcTypeOK, Status, Kind, TakeVmLocks
<1>4. ASSUME NEW t \in Thread, YieldToSuspend(t), UNCHANGED gcVars
      PROVE  GcTypeOK'
  BY <1>4 DEF GcTypeOK, Status, Kind, YieldToSuspend, CallCheck
<1>5. ASSUME NEW t \in Thread, LockThreadSuspend(t, "susRelock", "susSelf"),
            UNCHANGED gcVars
      PROVE  GcTypeOK'
  BY <1>5 DEF GcTypeOK, Status, Kind, LockThreadSuspend, CallCheck
<1>6. ASSUME NEW t \in Thread, LockThreadList(t, "susList", "susListWait", "susCount"),
            UNCHANGED gcVars
      PROVE  GcTypeOK'
  BY <1>6, GcLockThreadListType
<1>7. ASSUME NEW t \in Thread, GotThreadList(t, "susListWait", "susCount"), UNCHANGED gcVars
      PROVE  GcTypeOK'
  BY <1>7 DEF GcTypeOK, Status, Kind, GotThreadList
<1>8. ASSUME NEW t \in Thread, SuspendOthers(t), UNCHANGED gcVars
      PROVE  GcTypeOK'
  BY <1>8 DEF GcTypeOK, Status, Kind, Others, SuspendOthers, AddToSuspendCounts
<1>9. ASSUME NEW t \in Thread, SeeStopped(t), UNCHANGED gcVars
      PROVE  GcTypeOK'
  BY <1>9 DEF GcTypeOK, Status, Kind, SeeStopped, LooksStopped
<1>10. ASSUME NEW t \in Thread, LockThreadSuspend(t, "resLock", "resList"), UNCHANGED gcVars
      PROVE  GcTypeOK'
  BY <1>10 DEF GcTypeOK, Status, Kind, LockThreadSuspend, CallCheck
<1>11. ASSUME NEW t \in Thread, LockThreadList(t, "resList", "resListWait", "resCount"),
            UNCHANGED gcVars
      PROVE  GcTypeOK'
  BY <1>11, GcLockThreadListType
<1>12. ASSUME NEW t \in Thread, GotThreadList(t, "resListWait", "resCount"),
            UNCHANGED gcVars
      PROVE  GcTypeOK'
  BY <1>12 DEF GcTypeOK, Status, Kind, GotThreadList
<1>13. ASSUME NEW t \in Thread, ResumeOthers(t), UNCHANGED gcVars
      PROVE  GcTypeOK'
  BY <1>13 DEF GcTypeOK, Status, Kind, ResumeOthers, TakeFromSuspendCounts
<1>14. ASSUME NEW t \in Thread, UnlockThreadSuspend(t), UNCHANGED gcVars
      PROVE  GcTypeOK'
  BY <1>14 DEF GcTypeOK, Status, Kind, UnlockThreadSuspend
<1>15. ASSUME NEW t \in Thread, pause[t] = 0, Inspect(t), UNCHANGED gcVars
      PROVE  GcTypeOK'
  BY <1>15 DEF GcTypeOK, Status, Kind, Inspect
<1>16. ASSUME NEW t \in Thread, pause[t] = 0, WakeOthers(t, "run"), UNCHANGED gcVars
      PROVE  GcTypeOK'
  BY <1>16 DEF GcTypeOK, Status, Kind, WakeOthers
<1>17. ASSUME NEW t \in Thread, CheckSuspendPending(t), UNCHANGED gcVars
      PROVE  GcTypeOK'
  BY <1>17 DEF GcTypeOK, Status, Kind, CheckSuspendPending
<1>18. ASSUME NEW t \in Thread, SafePoint(t), UNCHANGED gcVars
      PROVE  GcTypeOK'
  BY <1>18 DEF GcTypeOK, Status, Kind, SafePoint, CallCheck
<1>19. ASSUME NEW t \in Thread, FullSuspendCheck(t), UNCHANGED gcVars
      PROVE  GcTypeOK'
  BY <1>19, GcFullSuspendCheckType
<1>20. ASSUME NEW t \in Thread, WakeUp(t), UNCHANGED gcVars
      PROVE  GcTypeOK'
  BY <1>20 DEF GcTypeOK, Status, Kind, WakeUp
<1>21. ASSUME NEW t \in Thread, TakeVmLock(t), UNCHANGED gcVars
      PROVE  GcTypeOK'
  BY <1>21 DEF GcTypeOK, Status, Kind, TakeVmLock
<1>22. ASSUME NEW t \in Thread, DropVmLock(t), UNCHANGED gcVars
      PROVE  GcTypeOK'
  BY <1>22 DEF GcTypeOK, Status, Kind, DropVmLock
<1>23. ASSUME NEW t \in Thread, EnterNative(t), UNCHANGED gcVars
      PROVE  GcTypeOK'
  BY <1>23 DEF GcTypeOK, Status, Kind, EnterNative
<1>24. ASSUME NEW t \in Thread, LeaveNative(t), t \in Daemon => kind[t] # "none",
            UNCHANGED gcVars
      PROVE  GcTypeOK'
  BY <1>24 DEF GcTypeOK, Status, Kind, LeaveNative, CallCheck
<1>25. ASSUME NEW t \in Thread, WantVmLock(t), kind[t] = "none", UNCHANGED gcVars
      PROVE  GcTypeOK'
  BY <1>25 DEF GcTypeOK, Status, Kind, WantVmLock
<1>26. ASSUME NEW t \in Thread, StartSuspendAll(t), kind[t] = "none", UNCHANGED gcVars
      PROVE  GcTypeOK'
  BY <1>26 DEF GcTypeOK, Status, Kind, StartSuspendAll
<1>27. ASSUME NEW t \in Thread, LockHeap(t, "hpLock", "hpBlocked", "hpHave")
      PROVE  GcTypeOK'
  BY <1>27, LockHeapType
<1>28. ASSUME NEW t \in Thread, GotHeap(t, "hpBlocked", "hpHave")
      PROVE  GcTypeOK'
  <2>1. closed' \in [Thread -> BOOLEAN]
    BY <1>28, Zenon DEF GcTypeOK, GotHeap, BackToRunning
  <2>2. gcRunning' \in BOOLEAN
    BY <1>28 DEF GcTypeOK, GotHeap, BackToRunning
  <2>3. /\ status' \in [Thread -> Status] /\ pc' \in [Thread -> GcPoint]
        /\ ret' \in [Thread -> GcReturnPoint]
    BY <1>28 DEF GcTypeOK, Status, GotHeap, BackToRunning, CallCheck
  <2>4. /\ {susOwner', listOwner', vmOwner', heapOwner'} \subseteq Thread \cup {NoThread}
        /\ waiters' \subseteq Thread /\ gcWaiters' \subseteq Thread
        /\ pause' \in [Thread -> 0..2] /\ kind' \in [Thread -> Kind]
    BY <1>28 DEF GcTypeOK, GotHeap, BackToRunning
  <2> QED
    BY <1>28, <2>1, <2>2, <2>3, <2>4 DEF GcTypeOK, GotHeap
<1>29. ASSUME NEW t \in Thread, LockHeap(t, "gcScan", "gcScanBlocked", "gcRelocked")
      PROVE  GcTypeOK'
  BY <1>29, LockHeapType
<1>30. ASSUME NEW t \in Thread, GotHeap(t, "gcScanBlocked", "gcRelocked")
      PROVE  GcTypeOK'
  <2>1. closed' \in [Thread -> BOOLEAN]
    BY <1>30, Zenon DEF GcTypeOK, GotHeap, BackToRunning
  <2>2. gcRunning' \in BOOLEAN
    BY <1>30 DEF GcTypeOK, GotHeap, BackToRunning
  <2>3. /\ status' \in [Thread -> Status] /\ pc' \in [Thread -> GcPoint]
        /\ ret' \in [Thread -> GcReturnPoint]
    BY <1>30
       DEF GcTypeOK, Status, GotHeap, BackToRunning, CallCheck, StatusInv, OwnStatus,
           BlockedPoint, Where, ScanPoint, SweepPoint
  <2>4. /\ {susOwner', listOwner', vmOwner', heapOwner'} \subseteq Thread \cup {NoThread}
        /\ waiters' \subseteq Thread /\ gcWaiters' \subseteq Thread
        /\ pause' \in [Thread -> 0..2] /\ kind' \in [Thread -> Kind]
    BY <1>30 DEF GcTypeOK, GotHeap, BackToRunning
  <2> QED
    BY <1>30, <2>1, <2>2, <2>3, <2>4 DEF GcTypeOK, GotHeap
<1>31. ASSUME NEW t \in Thread, LockHeap(t, "gcSweep", "gcSweepBlocked", "gcFinish")
      PROVE  GcTypeOK'
  BY <1>31, LockHeapType
<1>32. ASSUME NEW t \in Thread, GotHeap(t, "gcSweepBlocked", "gcFinish")
      PROVE  GcTypeOK'
  <2>1. closed' \in [Thread -> BOOLEAN]
    BY <1>32, Zenon DEF GcTypeOK, GotHeap, BackToRunning
  <2>2. gcRunning' \in BOOLEAN
    BY <1>32 DEF GcTypeOK, GotHeap, BackToRunning
  <2>3. /\ status' \in [Thread -> Status] /\ pc' \in [Thread -> GcPoint]
        /\ ret' \in [Thread -> GcReturnPoint]
    BY <1>32
       DEF GcTypeOK, Status, GotHeap, BackToRunning, CallCheck, StatusInv, OwnStatus,
           BlockedPoint, Where, ScanPoint, SweepPoint
  <2>4. /\ {susOwner', listOwner', vmOwner', heapOwner'} \subseteq Thread \cup {NoThread}
        /\ waiters' \subseteq Thread /\ gcWaiters' \subseteq Thread
        /\ pause' \in [Thread -> 0..2] /\ kind' \in [Thread -> Kind]
    BY <1>32 DEF GcTypeOK, GotHeap, BackToRunning
  <2> QED
    BY <1>32, <2>1, <2>2, <2>3, <2>4 DEF GcTypeOK, GotHeap
<1>33. ASSUME NEW t \in Thread, AllocSucceeds(t)
      PROVE  GcTypeOK'
  BY <1>33 DEF GcTypeOK, Status, Kind, AllocSucceeds
<1>34. ASSUME NEW t \in Thread, AllocCollects(t)
      PROVE  GcTypeOK'
  BY <1>34 DEF GcTypeOK, Status, Kind, AllocCollects
<1>35. ASSUME NEW t \in Thread, DaemonCollects(t)
      PROVE  GcTypeOK'
  <2>1. closed' \in [Thread -> BOOLEAN]
    BY <1>35, Zenon DEF GcTypeOK, DaemonCollects, BackToRunning
  <2>2. gcRunning' \in BOOLEAN
    BY <1>35 DEF GcTypeOK, DaemonCollects, BackToRunning
  <2>3. /\ status' \in [Thread -> Status] /\ pc' \in [Thread -> GcPoint]
        /\ ret' \in [Thread -> GcReturnPoint]
    BY <1>35 DEF GcTypeOK, Status, DaemonCollects, BackToRunning, CallCheck
  <2>4. /\ {susOwner', listOwner', vmOwner', heapOwner'} \subseteq Thread \cup {NoThread}
        /\ waiters' \subseteq Thread /\ gcWaiters' \subseteq Thread
        /\ pause' \in [Thread -> 0..2] /\ kind' \in [Thread -> Kind]
    BY <1>35 DEF GcTypeOK, DaemonCollects, BackToRunning
  <2> QED
    BY <1>35, <2>1, <2>2, <2>3, <2>4 DEF GcTypeOK, DaemonCollects
<1>36. ASSUME NEW t \in Thread, StartWaitForGc(t)
      PROVE  GcTypeOK'
  BY <1>36 DEF GcTypeOK, Status, Kind, StartWaitForGc
<1>37. ASSUME NEW t \in Thread, WaitForConcurrentGc(t)
      PROVE  GcTypeOK'
  <2>1. closed' \in [Thread -> BOOLEAN]
    BY <1>37, Zenon DEF GcTypeOK, WaitForConcurrentGc, BackToRunning
  <2>2. gcRunning' \in BOOLEAN
    BY <1>37 DEF GcTypeOK, WaitForConcurrentGc, BackToRunning
  <2>3. /\ status' \in [Thread -> Status] /\ pc' \in [Thread -> GcPoint]
        /\ ret' \in [Thread -> GcReturnPoint]
    BY <1>37 DEF GcTypeOK, Status, WaitForConcurrentGc, BackToRunning, CallCheck
  <2>4. /\ {susOwner', listOwner', vmOwner', heapOwner'} \subseteq Thread \cup {NoThread}
        /\ waiters' \subseteq Thread /\ gcWaiters' \subseteq Thread
        /\ pause' \in [Thread -> 0..2] /\ kind' \in [Thread -> Kind]
    BY <1>37 DEF GcTypeOK, WaitForConcurrentGc, BackToRunning
  <2> QED
    BY <1>37, <2>1, <2>2, <2>3, <2>4 DEF GcTypeOK, WaitForConcurrentGc
<1>38. ASSUME NEW t \in Thread, GcCondWakes(t)
      PROVE  GcTypeOK'
  BY <1>38 DEF GcTypeOK, Status, Kind, GcCondWakes
<1>39. ASSUME NEW t \in Thread, GcWaited(t)
      PROVE  GcTypeOK'
  BY <1>39 DEF GcTypeOK, Status, Kind, GcWaited
<1>40. ASSUME NEW t \in Thread, BeginGc(t)
      PROVE  GcTypeOK'
  <2>1. closed' \in [Thread -> BOOLEAN]
    BY <1>40, Zenon DEF GcTypeOK, BeginGc
  <2>2. gcRunning' \in BOOLEAN
    BY <1>40, Zenon DEF GcTypeOK, BeginGc
  <2>3. /\ status' \in [Thread -> Status] /\ pc' \in [Thread -> GcPoint]
        /\ ret' \in [Thread -> GcReturnPoint]
    BY <1>40 DEF GcTypeOK, Status, BeginGc
  <2>4. /\ {susOwner', listOwner', vmOwner', heapOwner'} \subseteq Thread \cup {NoThread}
        /\ waiters' \subseteq Thread /\ gcWaiters' \subseteq Thread
        /\ pause' \in [Thread -> 0..2] /\ kind' \in [Thread -> Kind]
    BY <1>40 DEF GcTypeOK, BeginGc
  <2> QED
    BY <1>40, <2>1, <2>2, <2>3, <2>4 DEF GcTypeOK, BeginGc
<1>41. ASSUME NEW t \in Thread, ConcurrentPause(t)
      PROVE  GcTypeOK'
  BY <1>41 DEF GcTypeOK, Status, Kind, ConcurrentPause
<1>42. ASSUME NEW t \in Thread, ForegroundPause(t)
      PROVE  GcTypeOK'
  BY <1>42 DEF GcTypeOK, Status, Kind, ForegroundPause
<1>43. ASSUME NEW t \in Thread, AfterPause(t)
      PROVE  GcTypeOK'
  BY <1>43 DEF GcTypeOK, Status, Kind, AfterPause, WakeOthers, AfterGc
<1>44. ASSUME NEW t \in Thread, SecondPause(t)
      PROVE  GcTypeOK'
  BY <1>44 DEF GcTypeOK, Status, Kind, SecondPause
<1>45. ASSUME NEW t \in Thread, FinishGc(t)
      PROVE  GcTypeOK'
  <2>1. closed' \in [Thread -> BOOLEAN]
    BY <1>45, Zenon DEF GcTypeOK, FinishGc
  <2>2. gcRunning' \in BOOLEAN
    BY <1>45, Zenon DEF GcTypeOK, FinishGc
  <2>3. /\ status' \in [Thread -> Status] /\ pc' \in [Thread -> GcPoint]
        /\ ret' \in [Thread -> GcReturnPoint]
    BY <1>45 DEF GcTypeOK, Status, FinishGc, AfterGc
  <2>4. /\ {susOwner', listOwner', vmOwner', heapOwner'} \subseteq Thread \cup {NoThread}
        /\ waiters' \subseteq Thread /\ gcWaiters' \subseteq Thread
        /\ pause' \in [Thread -> 0..2] /\ kind' \in [Thread -> Kind]
    BY <1>45 DEF GcTypeOK, FinishGc
  <2> QED
    BY <1>45, <2>1, <2>2, <2>3, <2>4 DEF GcTypeOK, FinishGc
<1>46. ASSUME NEW t \in Thread, ParkDaemon(t)
      PROVE  GcTypeOK'
  BY <1>46 DEF GcTypeOK, Status, Kind, ParkDaemon
<1>47. ASSUME NEW t \in Thread, UnlockHeap(t)
      PROVE  GcTypeOK'
  BY <1>47 DEF GcTypeOK, Status, Kind, UnlockHeap
<1>48. ASSUME NEW t \in Thread, NEW k \in Kind, StartHeapOp(t, k)
      PROVE  GcTypeOK'
  BY <1>48 DEF GcTypeOK, Status, Kind, StartHeapOp
<1>49. ASSUME NEW t \in Thread, EnqueueReturns(t)
      PROVE  GcTypeOK'
  BY <1>49 DEF GcTypeOK, Status, Kind, EnqueueReturns, AfterGc
<1> QED
  BY <1>1, <1>2, <1>3, <1>4, <1>5, <1>6, <1>7, <1>8, <1>9, <1>10, <1>11, <1>12, <1>13,
     <1>14, <1>15, <1>16, <1>17, <1>18, <1>19, <1>20, <1>21, <1>22, <1>23, <1>24, <1>25,
     <1>26, <1>27, <1>28, <1>29, <1>30, <1>31, <1>32, <1>33, <1>34, <1>35, <1>36, <1>37,
     <1>38, <1>39, <1>40, <1>41, <1>42, <1>43, <1>44, <1>45, <1>46, <1>47, <1>48, <1>49
     DEF GcNext, GcObliged, GcChosen, ProtocolStep, GcStep, CheckStep, SuspendAllStep,
         ResumeAllStep

-----------------------------------------------------------------------------
(* Roles, statuses, the heap lock.                                         *)

\* Daemons, dumpers and collectors stay what they are.
LEMMA RoleStep == GcTypeOK /\ RoleInv /\ HeapInv /\ [GcNext]_allVars => RoleInv'
<1> SUFFICES ASSUME GcTypeOK, RoleInv, HeapInv, [GcNext]_allVars PROVE RoleInv'
  OBVIOUS
<1> USE DEF At, Goto, SetStatus, savedVars, threadVars, countVars, lockVars, gcVars,
            CallCheck, GcPoint, Point, GcReturnPoint, ReturnPoint, SuspendPoint, SusPoint,
            ResumePoint, ScanPoint, SweepPoint,
            TracePoint, GcTypeOK, HeapInv, Where, IsConcurrent, Kind
<1>1. CASE UNCHANGED allVars
  BY <1>1 DEF RoleInv, allVars, vars, ctlVars
<1>2. ASSUME NEW t \in Thread, LockThreadSuspend(t, "susLock", "susVm"), UNCHANGED gcVars
      PROVE  RoleInv'
  BY <1>2 DEF RoleInv, LockThreadSuspend
<1>3. ASSUME NEW t \in Thread, TakeVmLocks(t), UNCHANGED gcVars
      PROVE  RoleInv'
  BY <1>3 DEF RoleInv, TakeVmLocks
<1>4. ASSUME NEW t \in Thread, YieldToSuspend(t), UNCHANGED gcVars
      PROVE  RoleInv'
  BY <1>4 DEF RoleInv, YieldToSuspend
<1>5. ASSUME NEW t \in Thread, LockThreadSuspend(t, "susRelock", "susSelf"),
            UNCHANGED gcVars
      PROVE  RoleInv'
  BY <1>5 DEF RoleInv, LockThreadSuspend
<1>6. ASSUME NEW t \in Thread, LockThreadList(t, "susList", "susListWait", "susCount"),
            UNCHANGED gcVars
      PROVE  RoleInv'
  BY <1>6 DEF RoleInv, LockThreadList, SaveState
<1>7. ASSUME NEW t \in Thread, GotThreadList(t, "susListWait", "susCount"), UNCHANGED gcVars
      PROVE  RoleInv'
  BY <1>7 DEF RoleInv, GotThreadList
<1>8. ASSUME NEW t \in Thread, SuspendOthers(t), UNCHANGED gcVars
      PROVE  RoleInv'
  BY <1>8 DEF RoleInv, SuspendOthers, AddToSuspendCounts
<1>9. ASSUME NEW t \in Thread, SeeStopped(t), UNCHANGED gcVars
      PROVE  RoleInv'
  BY <1>9 DEF RoleInv, SeeStopped, LooksStopped
<1>10. ASSUME NEW t \in Thread, LockThreadSuspend(t, "resLock", "resList"), UNCHANGED gcVars
      PROVE  RoleInv'
  BY <1>10 DEF RoleInv, LockThreadSuspend
<1>11. ASSUME NEW t \in Thread, LockThreadList(t, "resList", "resListWait", "resCount"),
            UNCHANGED gcVars
      PROVE  RoleInv'
  BY <1>11 DEF RoleInv, LockThreadList, SaveState
<1>12. ASSUME NEW t \in Thread, GotThreadList(t, "resListWait", "resCount"),
            UNCHANGED gcVars
      PROVE  RoleInv'
  BY <1>12 DEF RoleInv, GotThreadList
<1>13. ASSUME NEW t \in Thread, ResumeOthers(t), UNCHANGED gcVars
      PROVE  RoleInv'
  BY <1>13 DEF RoleInv, ResumeOthers, TakeFromSuspendCounts
<1>14. ASSUME NEW t \in Thread, UnlockThreadSuspend(t), UNCHANGED gcVars
      PROVE  RoleInv'
  BY <1>14 DEF RoleInv, UnlockThreadSuspend
<1>15. ASSUME NEW t \in Thread, pause[t] = 0, Inspect(t), UNCHANGED gcVars
      PROVE  RoleInv'
  BY <1>15 DEF RoleInv, Inspect
<1>16. ASSUME NEW t \in Thread, pause[t] = 0, WakeOthers(t, "run"), UNCHANGED gcVars
      PROVE  RoleInv'
  BY <1>16, GcRolesAssumption DEF RoleInv, WakeOthers
<1>17. ASSUME NEW t \in Thread, CheckSuspendPending(t), UNCHANGED gcVars
      PROVE  RoleInv'
  BY <1>17 DEF RoleInv, CheckSuspendPending
<1>18. ASSUME NEW t \in Thread, SafePoint(t), UNCHANGED gcVars
      PROVE  RoleInv'
  BY <1>18 DEF RoleInv, SafePoint
<1>19. ASSUME NEW t \in Thread, FullSuspendCheck(t), UNCHANGED gcVars
      PROVE  RoleInv'
  BY <1>19 DEF RoleInv, FullSuspendCheck, SaveState
<1>20. ASSUME NEW t \in Thread, WakeUp(t), UNCHANGED gcVars
      PROVE  RoleInv'
  BY <1>20 DEF RoleInv, WakeUp
<1>21. ASSUME NEW t \in Thread, TakeVmLock(t), UNCHANGED gcVars
      PROVE  RoleInv'
  BY <1>21 DEF RoleInv, TakeVmLock
<1>22. ASSUME NEW t \in Thread, DropVmLock(t), UNCHANGED gcVars
      PROVE  RoleInv'
  BY <1>22 DEF RoleInv, DropVmLock
<1>23. ASSUME NEW t \in Thread, EnterNative(t), UNCHANGED gcVars
      PROVE  RoleInv'
  BY <1>23 DEF RoleInv, EnterNative
<1>24. ASSUME NEW t \in Thread, LeaveNative(t), t \in Daemon => kind[t] # "none",
            UNCHANGED gcVars
      PROVE  RoleInv'
  BY <1>24 DEF RoleInv, LeaveNative
<1>25. ASSUME NEW t \in Thread, WantVmLock(t), kind[t] = "none", UNCHANGED gcVars
      PROVE  RoleInv'
  BY <1>25 DEF RoleInv, WantVmLock
<1>26. ASSUME NEW t \in Thread, StartSuspendAll(t), kind[t] = "none", UNCHANGED gcVars
      PROVE  RoleInv'
  BY <1>26 DEF RoleInv, StartSuspendAll
<1>27. ASSUME NEW t \in Thread, LockHeap(t, "hpLock", "hpBlocked", "hpHave")
      PROVE  RoleInv'
  BY <1>27 DEF RoleInv, LockHeap, SaveState
<1>28. ASSUME NEW t \in Thread, GotHeap(t, "hpBlocked", "hpHave")
      PROVE  RoleInv'
  BY <1>28 DEF RoleInv, GotHeap, BackToRunning
<1>29. ASSUME NEW t \in Thread, LockHeap(t, "gcScan", "gcScanBlocked", "gcRelocked")
      PROVE  RoleInv'
  BY <1>29 DEF RoleInv, LockHeap, SaveState
<1>30. ASSUME NEW t \in Thread, GotHeap(t, "gcScanBlocked", "gcRelocked")
      PROVE  RoleInv'
  BY <1>30 DEF RoleInv, GotHeap, BackToRunning
<1>31. ASSUME NEW t \in Thread, LockHeap(t, "gcSweep", "gcSweepBlocked", "gcFinish")
      PROVE  RoleInv'
  BY <1>31 DEF RoleInv, LockHeap, SaveState
<1>32. ASSUME NEW t \in Thread, GotHeap(t, "gcSweepBlocked", "gcFinish")
      PROVE  RoleInv'
  BY <1>32 DEF RoleInv, GotHeap, BackToRunning
<1>33. ASSUME NEW t \in Thread, AllocSucceeds(t)
      PROVE  RoleInv'
  BY <1>33 DEF RoleInv, AllocSucceeds
<1>34. ASSUME NEW t \in Thread, AllocCollects(t)
      PROVE  RoleInv'
  BY <1>34 DEF RoleInv, AllocCollects
<1>35. ASSUME NEW t \in Thread, DaemonCollects(t)
      PROVE  RoleInv'
  BY <1>35 DEF RoleInv, DaemonCollects, BackToRunning
<1>36. ASSUME NEW t \in Thread, StartWaitForGc(t)
      PROVE  RoleInv'
  BY <1>36 DEF RoleInv, StartWaitForGc
<1>37. ASSUME NEW t \in Thread, WaitForConcurrentGc(t)
      PROVE  RoleInv'
  BY <1>37 DEF RoleInv, WaitForConcurrentGc, BackToRunning
<1>38. ASSUME NEW t \in Thread, GcCondWakes(t)
      PROVE  RoleInv'
  BY <1>38 DEF RoleInv, GcCondWakes
<1>39. ASSUME NEW t \in Thread, GcWaited(t)
      PROVE  RoleInv'
  BY <1>39 DEF RoleInv, GcWaited
<1>40. ASSUME NEW t \in Thread, BeginGc(t)
      PROVE  RoleInv'
  BY <1>40 DEF RoleInv, BeginGc
<1>41. ASSUME NEW t \in Thread, ConcurrentPause(t)
      PROVE  RoleInv'
  BY <1>41 DEF RoleInv, ConcurrentPause
<1>42. ASSUME NEW t \in Thread, ForegroundPause(t)
      PROVE  RoleInv'
  BY <1>42 DEF RoleInv, ForegroundPause
<1>43. ASSUME NEW t \in Thread, AfterPause(t)
      PROVE  RoleInv'
  BY <1>43, GcRolesAssumption DEF RoleInv, AfterPause, WakeOthers, AfterGc
<1>44. ASSUME NEW t \in Thread, SecondPause(t)
      PROVE  RoleInv'
  BY <1>44 DEF RoleInv, SecondPause
<1>45. ASSUME NEW t \in Thread, FinishGc(t)
      PROVE  RoleInv'
  BY <1>45 DEF RoleInv, FinishGc, AfterGc
<1>46. ASSUME NEW t \in Thread, ParkDaemon(t)
      PROVE  RoleInv'
  BY <1>46 DEF RoleInv, ParkDaemon
<1>47. ASSUME NEW t \in Thread, UnlockHeap(t)
      PROVE  RoleInv'
  BY <1>47 DEF RoleInv, UnlockHeap
<1>48. ASSUME NEW t \in Thread, NEW k \in Kind, StartHeapOp(t, k)
      PROVE  RoleInv'
  BY <1>48 DEF RoleInv, StartHeapOp
<1>49. ASSUME NEW t \in Thread, EnqueueReturns(t)
      PROVE  RoleInv'
  BY <1>49 DEF RoleInv, EnqueueReturns, AfterGc
<1> QED
  BY <1>1, <1>2, <1>3, <1>4, <1>5, <1>6, <1>7, <1>8, <1>9, <1>10, <1>11, <1>12, <1>13,
     <1>14, <1>15, <1>16, <1>17, <1>18, <1>19, <1>20, <1>21, <1>22, <1>23, <1>24, <1>25,
     <1>26, <1>27, <1>28, <1>29, <1>30, <1>31, <1>32, <1>33, <1>34, <1>35, <1>36, <1>37,
     <1>38, <1>39, <1>40, <1>41, <1>42, <1>43, <1>44, <1>45, <1>46, <1>47, <1>48, <1>49
     DEF GcNext, GcObliged, GcChosen, ProtocolStep, GcStep, CheckStep, SuspendAllStep,
         ResumeAllStep

\* The statuses go with the points.
LEMMA StatusStep == GcCtlInv /\ [GcNext]_allVars => StatusInv'
<1> SUFFICES ASSUME GcCtlInv, [GcNext]_allVars PROVE StatusInv'
  OBVIOUS
<1> USE DEF At, Goto, SetStatus, savedVars, threadVars, countVars, lockVars, gcVars,
            CallCheck, GcPoint, Point, GcReturnPoint, ReturnPoint, SuspendPoint, SusPoint,
            ResumePoint, ScanPoint, SweepPoint,
            GcCtlInv, GcTypeOK, RoleInv, HeapInv, Where, IsConcurrent, Kind, OwnStatus,
            BlockedPoint
<1>1. CASE UNCHANGED allVars
  BY <1>1 DEF StatusInv, allVars, vars, ctlVars
<1>2. ASSUME NEW t \in Thread, LockThreadSuspend(t, "susLock", "susVm"), UNCHANGED gcVars
      PROVE  StatusInv'
  BY <1>2 DEF StatusInv, LockThreadSuspend
<1>3. ASSUME NEW t \in Thread, TakeVmLocks(t), UNCHANGED gcVars
      PROVE  StatusInv'
  BY <1>3 DEF StatusInv, TakeVmLocks
<1>4. ASSUME NEW t \in Thread, YieldToSuspend(t), UNCHANGED gcVars
      PROVE  StatusInv'
  BY <1>4 DEF StatusInv, YieldToSuspend
<1>5. ASSUME NEW t \in Thread, LockThreadSuspend(t, "susRelock", "susSelf"),
            UNCHANGED gcVars
      PROVE  StatusInv'
  BY <1>5 DEF StatusInv, LockThreadSuspend
<1>6. ASSUME NEW t \in Thread, LockThreadList(t, "susList", "susListWait", "susCount"),
            UNCHANGED gcVars
      PROVE  StatusInv'
  BY <1>6 DEF StatusInv, LockThreadList, SaveState
<1>7. ASSUME NEW t \in Thread, GotThreadList(t, "susListWait", "susCount"), UNCHANGED gcVars
      PROVE  StatusInv'
  BY <1>7 DEF StatusInv, GotThreadList
<1>8. ASSUME NEW t \in Thread, SuspendOthers(t), UNCHANGED gcVars
      PROVE  StatusInv'
  BY <1>8 DEF StatusInv, SuspendOthers, AddToSuspendCounts
<1>9. ASSUME NEW t \in Thread, SeeStopped(t), UNCHANGED gcVars
      PROVE  StatusInv'
  BY <1>9 DEF StatusInv, SeeStopped, LooksStopped
<1>10. ASSUME NEW t \in Thread, LockThreadSuspend(t, "resLock", "resList"), UNCHANGED gcVars
      PROVE  StatusInv'
  BY <1>10 DEF StatusInv, LockThreadSuspend
<1>11. ASSUME NEW t \in Thread, LockThreadList(t, "resList", "resListWait", "resCount"),
            UNCHANGED gcVars
      PROVE  StatusInv'
  BY <1>11 DEF StatusInv, LockThreadList, SaveState
<1>12. ASSUME NEW t \in Thread, GotThreadList(t, "resListWait", "resCount"),
            UNCHANGED gcVars
      PROVE  StatusInv'
  BY <1>12 DEF StatusInv, GotThreadList
<1>13. ASSUME NEW t \in Thread, ResumeOthers(t), UNCHANGED gcVars
      PROVE  StatusInv'
  BY <1>13 DEF StatusInv, ResumeOthers, TakeFromSuspendCounts
<1>14. ASSUME NEW t \in Thread, UnlockThreadSuspend(t), UNCHANGED gcVars
      PROVE  StatusInv'
  BY <1>14 DEF StatusInv, UnlockThreadSuspend
<1>15. ASSUME NEW t \in Thread, pause[t] = 0, Inspect(t), UNCHANGED gcVars
      PROVE  StatusInv'
  BY <1>15 DEF StatusInv, Inspect
<1>16. ASSUME NEW t \in Thread, pause[t] = 0, WakeOthers(t, "run"), UNCHANGED gcVars
      PROVE  StatusInv'
  BY <1>16 DEF StatusInv, WakeOthers
<1>17. ASSUME NEW t \in Thread, CheckSuspendPending(t), UNCHANGED gcVars
      PROVE  StatusInv'
  BY <1>17 DEF StatusInv, CheckSuspendPending
<1>18. ASSUME NEW t \in Thread, SafePoint(t), UNCHANGED gcVars
      PROVE  StatusInv'
  BY <1>18 DEF StatusInv, SafePoint
<1>19. ASSUME NEW t \in Thread, FullSuspendCheck(t), UNCHANGED gcVars
      PROVE  StatusInv'
  BY <1>19 DEF StatusInv, FullSuspendCheck, SaveState
<1>20. ASSUME NEW t \in Thread, WakeUp(t), UNCHANGED gcVars
      PROVE  StatusInv'
  BY <1>20 DEF StatusInv, WakeUp
<1>21. ASSUME NEW t \in Thread, TakeVmLock(t), UNCHANGED gcVars
      PROVE  StatusInv'
  BY <1>21 DEF StatusInv, TakeVmLock
<1>22. ASSUME NEW t \in Thread, DropVmLock(t), UNCHANGED gcVars
      PROVE  StatusInv'
  BY <1>22 DEF StatusInv, DropVmLock
<1>23. ASSUME NEW t \in Thread, EnterNative(t), UNCHANGED gcVars
      PROVE  StatusInv'
  BY <1>23 DEF StatusInv, EnterNative
<1>24. ASSUME NEW t \in Thread, LeaveNative(t), t \in Daemon => kind[t] # "none",
            UNCHANGED gcVars
      PROVE  StatusInv'
  BY <1>24 DEF StatusInv, LeaveNative
<1>25. ASSUME NEW t \in Thread, WantVmLock(t), kind[t] = "none", UNCHANGED gcVars
      PROVE  StatusInv'
  BY <1>25 DEF StatusInv, WantVmLock
<1>26. ASSUME NEW t \in Thread, StartSuspendAll(t), kind[t] = "none", UNCHANGED gcVars
      PROVE  StatusInv'
  BY <1>26 DEF StatusInv, StartSuspendAll
<1>27. ASSUME NEW t \in Thread, LockHeap(t, "hpLock", "hpBlocked", "hpHave")
      PROVE  StatusInv'
  BY <1>27 DEF StatusInv, LockHeap, SaveState
<1>28. ASSUME NEW t \in Thread, GotHeap(t, "hpBlocked", "hpHave")
      PROVE  StatusInv'
  BY <1>28 DEF StatusInv, GotHeap, BackToRunning
<1>29. ASSUME NEW t \in Thread, LockHeap(t, "gcScan", "gcScanBlocked", "gcRelocked")
      PROVE  StatusInv'
  BY <1>29 DEF StatusInv, LockHeap, SaveState
<1>30. ASSUME NEW t \in Thread, GotHeap(t, "gcScanBlocked", "gcRelocked")
      PROVE  StatusInv'
  BY <1>30 DEF StatusInv, GotHeap, BackToRunning
<1>31. ASSUME NEW t \in Thread, LockHeap(t, "gcSweep", "gcSweepBlocked", "gcFinish")
      PROVE  StatusInv'
  BY <1>31 DEF StatusInv, LockHeap, SaveState
<1>32. ASSUME NEW t \in Thread, GotHeap(t, "gcSweepBlocked", "gcFinish")
      PROVE  StatusInv'
  BY <1>32 DEF StatusInv, GotHeap, BackToRunning
<1>33. ASSUME NEW t \in Thread, AllocSucceeds(t)
      PROVE  StatusInv'
  BY <1>33 DEF StatusInv, AllocSucceeds
<1>34. ASSUME NEW t \in Thread, AllocCollects(t)
      PROVE  StatusInv'
  BY <1>34, GcRolesAssumption DEF StatusInv, AllocCollects
<1>35. ASSUME NEW t \in Thread, DaemonCollects(t)
      PROVE  StatusInv'
  BY <1>35 DEF StatusInv, DaemonCollects, BackToRunning
<1>36. ASSUME NEW t \in Thread, StartWaitForGc(t)
      PROVE  StatusInv'
  BY <1>36 DEF StatusInv, StartWaitForGc
<1>37. ASSUME NEW t \in Thread, WaitForConcurrentGc(t)
      PROVE  StatusInv'
  BY <1>37 DEF StatusInv, WaitForConcurrentGc, BackToRunning
<1>38. ASSUME NEW t \in Thread, GcCondWakes(t)
      PROVE  StatusInv'
  BY <1>38 DEF StatusInv, GcCondWakes
<1>39. ASSUME NEW t \in Thread, GcWaited(t)
      PROVE  StatusInv'
  BY <1>39 DEF StatusInv, GcWaited
<1>40. ASSUME NEW t \in Thread, BeginGc(t)
      PROVE  StatusInv'
  BY <1>40 DEF StatusInv, BeginGc
<1>41. ASSUME NEW t \in Thread, ConcurrentPause(t)
      PROVE  StatusInv'
  BY <1>41 DEF StatusInv, ConcurrentPause
<1>42. ASSUME NEW t \in Thread, ForegroundPause(t)
      PROVE  StatusInv'
  BY <1>42 DEF StatusInv, ForegroundPause
<1>43. ASSUME NEW t \in Thread, AfterPause(t)
      PROVE  StatusInv'
  BY <1>43 DEF StatusInv, AfterPause, WakeOthers, AfterGc
<1>44. ASSUME NEW t \in Thread, SecondPause(t)
      PROVE  StatusInv'
  BY <1>44 DEF StatusInv, SecondPause
<1>45. ASSUME NEW t \in Thread, FinishGc(t)
      PROVE  StatusInv'
  BY <1>45 DEF StatusInv, FinishGc, AfterGc
<1>46. ASSUME NEW t \in Thread, ParkDaemon(t)
      PROVE  StatusInv'
  BY <1>46 DEF StatusInv, ParkDaemon
<1>47. ASSUME NEW t \in Thread, UnlockHeap(t)
      PROVE  StatusInv'
  BY <1>47 DEF StatusInv, UnlockHeap
<1>48. ASSUME NEW t \in Thread, NEW k \in Kind, StartHeapOp(t, k)
      PROVE  StatusInv'
  BY <1>48 DEF StatusInv, StartHeapOp
<1>49. ASSUME NEW t \in Thread, EnqueueReturns(t)
      PROVE  StatusInv'
  BY <1>49 DEF StatusInv, EnqueueReturns, AfterGc
<1> QED
  BY <1>1, <1>2, <1>3, <1>4, <1>5, <1>6, <1>7, <1>8, <1>9, <1>10, <1>11, <1>12, <1>13,
     <1>14, <1>15, <1>16, <1>17, <1>18, <1>19, <1>20, <1>21, <1>22, <1>23, <1>24, <1>25,
     <1>26, <1>27, <1>28, <1>29, <1>30, <1>31, <1>32, <1>33, <1>34, <1>35, <1>36, <1>37,
     <1>38, <1>39, <1>40, <1>41, <1>42, <1>43, <1>44, <1>45, <1>46, <1>47, <1>48, <1>49
     DEF GcNext, GcObliged, GcChosen, ProtocolStep, GcStep, CheckStep, SuspendAllStep,
         ResumeAllStep

\* The heap lock is held where the code says, gcRunning covers a concurrent
\* collection, and a foreground one, which keeps the lock, has nobody asleep on
\* gcHeapCond.
LEMMA HeapStep == GcInv /\ [GcNext]_allVars => HeapInv'
<1> SUFFICES ASSUME GcInv, [GcNext]_allVars PROVE HeapInv'
  OBVIOUS
<1> USE DEF At, Goto, SetStatus, savedVars, threadVars, countVars, lockVars, gcVars,
            CallCheck, GcPoint, Point, GcReturnPoint, ReturnPoint, SuspendPoint, SusPoint,
            ResumePoint, ScanPoint, SweepPoint,
            GcInv, GcCtlInv, GcTypeOK, Where, IsConcurrent, Kind
<1>1. CASE UNCHANGED allVars
  BY <1>1 DEF HeapInv, allVars, vars, ctlVars
<1>2. ASSUME NEW t \in Thread, LockThreadSuspend(t, "susLock", "susVm"), UNCHANGED gcVars
      PROVE  HeapInv'
  BY <1>2 DEF HeapInv, LockThreadSuspend
<1>3. ASSUME NEW t \in Thread, TakeVmLocks(t), UNCHANGED gcVars
      PROVE  HeapInv'
  BY <1>3 DEF HeapInv, TakeVmLocks
<1>4. ASSUME NEW t \in Thread, YieldToSuspend(t), UNCHANGED gcVars
      PROVE  HeapInv'
  BY <1>4 DEF HeapInv, YieldToSuspend
<1>5. ASSUME NEW t \in Thread, LockThreadSuspend(t, "susRelock", "susSelf"),
            UNCHANGED gcVars
      PROVE  HeapInv'
  BY <1>5 DEF HeapInv, LockThreadSuspend
<1>6. ASSUME NEW t \in Thread, LockThreadList(t, "susList", "susListWait", "susCount"),
            UNCHANGED gcVars
      PROVE  HeapInv'
  BY <1>6 DEF HeapInv, LockThreadList, SaveState
<1>7. ASSUME NEW t \in Thread, GotThreadList(t, "susListWait", "susCount"), UNCHANGED gcVars
      PROVE  HeapInv'
  BY <1>7 DEF HeapInv, GotThreadList
<1>8. ASSUME NEW t \in Thread, SuspendOthers(t), UNCHANGED gcVars
      PROVE  HeapInv'
  BY <1>8 DEF HeapInv, SuspendOthers, AddToSuspendCounts
<1>9. ASSUME NEW t \in Thread, SeeStopped(t), UNCHANGED gcVars
      PROVE  HeapInv'
  BY <1>9 DEF HeapInv, SeeStopped, LooksStopped
<1>10. ASSUME NEW t \in Thread, LockThreadSuspend(t, "resLock", "resList"), UNCHANGED gcVars
      PROVE  HeapInv'
  BY <1>10 DEF HeapInv, LockThreadSuspend
<1>11. ASSUME NEW t \in Thread, LockThreadList(t, "resList", "resListWait", "resCount"),
            UNCHANGED gcVars
      PROVE  HeapInv'
  BY <1>11 DEF HeapInv, LockThreadList, SaveState
<1>12. ASSUME NEW t \in Thread, GotThreadList(t, "resListWait", "resCount"),
            UNCHANGED gcVars
      PROVE  HeapInv'
  BY <1>12 DEF HeapInv, GotThreadList
<1>13. ASSUME NEW t \in Thread, ResumeOthers(t), UNCHANGED gcVars
      PROVE  HeapInv'
  BY <1>13 DEF HeapInv, ResumeOthers, TakeFromSuspendCounts
<1>14. ASSUME NEW t \in Thread, UnlockThreadSuspend(t), UNCHANGED gcVars
      PROVE  HeapInv'
  BY <1>14 DEF HeapInv, UnlockThreadSuspend
<1>15. ASSUME NEW t \in Thread, pause[t] = 0, Inspect(t), UNCHANGED gcVars
      PROVE  HeapInv'
  BY <1>15 DEF HeapInv, Inspect
<1>16. ASSUME NEW t \in Thread, pause[t] = 0, WakeOthers(t, "run"), UNCHANGED gcVars
      PROVE  HeapInv'
  BY <1>16 DEF HeapInv, WakeOthers, RoleInv
<1>17. ASSUME NEW t \in Thread, CheckSuspendPending(t), UNCHANGED gcVars
      PROVE  HeapInv'
  BY <1>17 DEF HeapInv, CheckSuspendPending
<1>18. ASSUME NEW t \in Thread, SafePoint(t), UNCHANGED gcVars
      PROVE  HeapInv'
  BY <1>18 DEF HeapInv, SafePoint
<1>19. ASSUME NEW t \in Thread, FullSuspendCheck(t), UNCHANGED gcVars
      PROVE  HeapInv'
  BY <1>19 DEF HeapInv, FullSuspendCheck, SaveState
<1>20. ASSUME NEW t \in Thread, WakeUp(t), UNCHANGED gcVars
      PROVE  HeapInv'
  BY <1>20 DEF HeapInv, WakeUp
<1>21. ASSUME NEW t \in Thread, TakeVmLock(t), UNCHANGED gcVars
      PROVE  HeapInv'
  BY <1>21 DEF HeapInv, TakeVmLock
<1>22. ASSUME NEW t \in Thread, DropVmLock(t), UNCHANGED gcVars
      PROVE  HeapInv'
  BY <1>22 DEF HeapInv, DropVmLock, RoleInv
<1>23. ASSUME NEW t \in Thread, EnterNative(t), UNCHANGED gcVars
      PROVE  HeapInv'
  BY <1>23 DEF HeapInv, EnterNative
<1>24. ASSUME NEW t \in Thread, LeaveNative(t), t \in Daemon => kind[t] # "none",
            UNCHANGED gcVars
      PROVE  HeapInv'
  BY <1>24 DEF HeapInv, LeaveNative
<1>25. ASSUME NEW t \in Thread, WantVmLock(t), kind[t] = "none", UNCHANGED gcVars
      PROVE  HeapInv'
  BY <1>25 DEF HeapInv, WantVmLock
<1>26. ASSUME NEW t \in Thread, StartSuspendAll(t), kind[t] = "none", UNCHANGED gcVars
      PROVE  HeapInv'
  BY <1>26 DEF HeapInv, StartSuspendAll
<1>27. ASSUME NEW t \in Thread, LockHeap(t, "hpLock", "hpBlocked", "hpHave")
      PROVE  HeapInv'
  BY <1>27, RolesAssumption DEF HeapInv, LockHeap, SaveState
<1>28. ASSUME NEW t \in Thread, GotHeap(t, "hpBlocked", "hpHave")
      PROVE  HeapInv'
  BY <1>28, RolesAssumption DEF HeapInv, GotHeap, BackToRunning
<1>29. ASSUME NEW t \in Thread, LockHeap(t, "gcScan", "gcScanBlocked", "gcRelocked")
      PROVE  HeapInv'
  BY <1>29, RolesAssumption DEF HeapInv, LockHeap, SaveState
<1>30. ASSUME NEW t \in Thread, GotHeap(t, "gcScanBlocked", "gcRelocked")
      PROVE  HeapInv'
  BY <1>30, RolesAssumption DEF HeapInv, GotHeap, BackToRunning
<1>31. ASSUME NEW t \in Thread, LockHeap(t, "gcSweep", "gcSweepBlocked", "gcFinish")
      PROVE  HeapInv'
  BY <1>31, RolesAssumption DEF HeapInv, LockHeap, SaveState
<1>32. ASSUME NEW t \in Thread, GotHeap(t, "gcSweepBlocked", "gcFinish")
      PROVE  HeapInv'
  BY <1>32, RolesAssumption DEF HeapInv, GotHeap, BackToRunning
<1>33. ASSUME NEW t \in Thread, AllocSucceeds(t)
      PROVE  HeapInv'
  BY <1>33 DEF HeapInv, AllocSucceeds
<1>34. ASSUME NEW t \in Thread, AllocCollects(t)
      PROVE  HeapInv'
  BY <1>34 DEF HeapInv, AllocCollects
<1>35. ASSUME NEW t \in Thread, DaemonCollects(t)
      PROVE  HeapInv'
  BY <1>35 DEF HeapInv, DaemonCollects, BackToRunning
<1>36. ASSUME NEW t \in Thread, StartWaitForGc(t)
      PROVE  HeapInv'
  BY <1>36 DEF HeapInv, StartWaitForGc
<1>37. ASSUME NEW t \in Thread, WaitForConcurrentGc(t)
      PROVE  HeapInv'
  BY <1>37 DEF HeapInv, WaitForConcurrentGc, BackToRunning, GcWaitersAreWoken
<1>38. ASSUME NEW t \in Thread, GcCondWakes(t)
      PROVE  HeapInv'
  BY <1>38, RolesAssumption DEF HeapInv, GcCondWakes
<1>39. ASSUME NEW t \in Thread, GcWaited(t)
      PROVE  HeapInv'
  BY <1>39 DEF HeapInv, GcWaited
<1>40. ASSUME NEW t \in Thread, BeginGc(t)
      PROVE  HeapInv'
  BY <1>40 DEF HeapInv, BeginGc, GcWaitersAreWoken
<1>41. ASSUME NEW t \in Thread, ConcurrentPause(t)
      PROVE  HeapInv'
  BY <1>41 DEF HeapInv, ConcurrentPause
<1>42. ASSUME NEW t \in Thread, ForegroundPause(t)
      PROVE  HeapInv'
  BY <1>42 DEF HeapInv, ForegroundPause, OneCollection, Others
<1>43. ASSUME NEW t \in Thread, AfterPause(t)
      PROVE  HeapInv'
  BY <1>43 DEF HeapInv, AfterPause, WakeOthers, AfterGc
<1>44. ASSUME NEW t \in Thread, SecondPause(t)
      PROVE  HeapInv'
  BY <1>44 DEF HeapInv, SecondPause
<1>45. ASSUME NEW t \in Thread, FinishGc(t)
      PROVE  HeapInv'
  BY <1>45 DEF HeapInv, FinishGc, OneCollection, Others, AfterGc
<1>46. ASSUME NEW t \in Thread, ParkDaemon(t)
      PROVE  HeapInv'
  BY <1>46 DEF HeapInv, ParkDaemon
<1>47. ASSUME NEW t \in Thread, UnlockHeap(t)
      PROVE  HeapInv'
  BY <1>47 DEF HeapInv, UnlockHeap
<1>48. ASSUME NEW t \in Thread, NEW k \in Kind, StartHeapOp(t, k)
      PROVE  HeapInv'
  BY <1>48 DEF HeapInv, StartHeapOp
<1>49. ASSUME NEW t \in Thread, EnqueueReturns(t)
      PROVE  HeapInv'
  BY <1>49 DEF HeapInv, EnqueueReturns, AfterGc
<1> QED
  BY <1>1, <1>2, <1>3, <1>4, <1>5, <1>6, <1>7, <1>8, <1>9, <1>10, <1>11, <1>12, <1>13,
     <1>14, <1>15, <1>16, <1>17, <1>18, <1>19, <1>20, <1>21, <1>22, <1>23, <1>24, <1>25,
     <1>26, <1>27, <1>28, <1>29, <1>30, <1>31, <1>32, <1>33, <1>34, <1>35, <1>36, <1>37,
     <1>38, <1>39, <1>40, <1>41, <1>42, <1>43, <1>44, <1>45, <1>46, <1>47, <1>48, <1>49
     DEF GcNext, GcObliged, GcChosen, ProtocolStep, GcStep, CheckStep, SuspendAllStep,
         ResumeAllStep

\* A collection begins only when nobody collects: gcRunning is set for its whole
\* length but for the end of a foreground collection, which has the heap lock.
LEMMA CollectionStep == GcInv /\ [GcNext]_allVars => OneCollection' /\ GcWaitersAreWoken'
<1> DEFINE One == OneCollection /\ GcWaitersAreWoken
<1> SUFFICES ASSUME GcInv, [GcNext]_allVars PROVE One'
  OBVIOUS
<1> USE DEF At, Goto, SetStatus, savedVars, threadVars, countVars, lockVars, gcVars,
            CallCheck, GcPoint, Point, GcReturnPoint, ReturnPoint, SuspendPoint, SusPoint,
            ResumePoint, ScanPoint, SweepPoint,
            GcInv, GcCtlInv, GcTypeOK, HeapInv, Where, IsConcurrent, Kind, Others,
            GcStopInv, StopperFree, StopPoint
<1>1. CASE UNCHANGED allVars
  BY <1>1 DEF OneCollection, GcWaitersAreWoken, allVars, vars, ctlVars
<1>2. ASSUME NEW t \in Thread, LockThreadSuspend(t, "susLock", "susVm"), UNCHANGED gcVars
      PROVE  One'
  BY <1>2 DEF OneCollection, GcWaitersAreWoken, LockThreadSuspend
<1>3. ASSUME NEW t \in Thread, TakeVmLocks(t), UNCHANGED gcVars
      PROVE  One'
  BY <1>3 DEF OneCollection, GcWaitersAreWoken, TakeVmLocks
<1>4. ASSUME NEW t \in Thread, YieldToSuspend(t), UNCHANGED gcVars
      PROVE  One'
  BY <1>4 DEF OneCollection, GcWaitersAreWoken, YieldToSuspend
<1>5. ASSUME NEW t \in Thread, LockThreadSuspend(t, "susRelock", "susSelf"),
            UNCHANGED gcVars
      PROVE  One'
  BY <1>5 DEF OneCollection, GcWaitersAreWoken, LockThreadSuspend
<1>6. ASSUME NEW t \in Thread, LockThreadList(t, "susList", "susListWait", "susCount"),
            UNCHANGED gcVars
      PROVE  One'
  BY <1>6 DEF OneCollection, GcWaitersAreWoken, LockThreadList, SaveState
<1>7. ASSUME NEW t \in Thread, GotThreadList(t, "susListWait", "susCount"), UNCHANGED gcVars
      PROVE  One'
  BY <1>7 DEF OneCollection, GcWaitersAreWoken, GotThreadList
<1>8. ASSUME NEW t \in Thread, SuspendOthers(t), UNCHANGED gcVars
      PROVE  One'
  BY <1>8 DEF OneCollection, GcWaitersAreWoken, SuspendOthers, AddToSuspendCounts
<1>9. ASSUME NEW t \in Thread, SeeStopped(t), UNCHANGED gcVars
      PROVE  One'
  BY <1>9 DEF OneCollection, GcWaitersAreWoken, SeeStopped, LooksStopped
<1>10. ASSUME NEW t \in Thread, LockThreadSuspend(t, "resLock", "resList"), UNCHANGED gcVars
      PROVE  One'
  BY <1>10 DEF OneCollection, GcWaitersAreWoken, LockThreadSuspend
<1>11. ASSUME NEW t \in Thread, LockThreadList(t, "resList", "resListWait", "resCount"),
            UNCHANGED gcVars
      PROVE  One'
  BY <1>11 DEF OneCollection, GcWaitersAreWoken, LockThreadList, SaveState
<1>12. ASSUME NEW t \in Thread, GotThreadList(t, "resListWait", "resCount"),
            UNCHANGED gcVars
      PROVE  One'
  BY <1>12 DEF OneCollection, GcWaitersAreWoken, GotThreadList
<1>13. ASSUME NEW t \in Thread, ResumeOthers(t), UNCHANGED gcVars
      PROVE  One'
  BY <1>13 DEF OneCollection, GcWaitersAreWoken, ResumeOthers, TakeFromSuspendCounts
<1>14. ASSUME NEW t \in Thread, UnlockThreadSuspend(t), UNCHANGED gcVars
      PROVE  One'
  BY <1>14 DEF OneCollection, GcWaitersAreWoken, UnlockThreadSuspend
<1>15. ASSUME NEW t \in Thread, pause[t] = 0, Inspect(t), UNCHANGED gcVars
      PROVE  One'
  BY <1>15 DEF OneCollection, GcWaitersAreWoken, Inspect
<1>16. ASSUME NEW t \in Thread, pause[t] = 0, WakeOthers(t, "run"), UNCHANGED gcVars
      PROVE  One'
  BY <1>16 DEF OneCollection, GcWaitersAreWoken, WakeOthers
<1>17. ASSUME NEW t \in Thread, CheckSuspendPending(t), UNCHANGED gcVars
      PROVE  One'
  BY <1>17 DEF OneCollection, GcWaitersAreWoken, CheckSuspendPending
<1>18. ASSUME NEW t \in Thread, SafePoint(t), UNCHANGED gcVars
      PROVE  One'
  BY <1>18 DEF OneCollection, GcWaitersAreWoken, SafePoint
<1>19. ASSUME NEW t \in Thread, FullSuspendCheck(t), UNCHANGED gcVars
      PROVE  One'
  BY <1>19 DEF OneCollection, GcWaitersAreWoken, FullSuspendCheck, SaveState
<1>20. ASSUME NEW t \in Thread, WakeUp(t), UNCHANGED gcVars
      PROVE  One'
  BY <1>20 DEF OneCollection, GcWaitersAreWoken, WakeUp
<1>21. ASSUME NEW t \in Thread, TakeVmLock(t), UNCHANGED gcVars
      PROVE  One'
  BY <1>21 DEF OneCollection, GcWaitersAreWoken, TakeVmLock
<1>22. ASSUME NEW t \in Thread, DropVmLock(t), UNCHANGED gcVars
      PROVE  One'
  BY <1>22 DEF OneCollection, GcWaitersAreWoken, DropVmLock
<1>23. ASSUME NEW t \in Thread, EnterNative(t), UNCHANGED gcVars
      PROVE  One'
  BY <1>23 DEF OneCollection, GcWaitersAreWoken, EnterNative
<1>24. ASSUME NEW t \in Thread, LeaveNative(t), t \in Daemon => kind[t] # "none",
            UNCHANGED gcVars
      PROVE  One'
  BY <1>24 DEF OneCollection, GcWaitersAreWoken, LeaveNative
<1>25. ASSUME NEW t \in Thread, WantVmLock(t), kind[t] = "none", UNCHANGED gcVars
      PROVE  One'
  BY <1>25 DEF OneCollection, GcWaitersAreWoken, WantVmLock
<1>26. ASSUME NEW t \in Thread, StartSuspendAll(t), kind[t] = "none", UNCHANGED gcVars
      PROVE  One'
  BY <1>26 DEF OneCollection, GcWaitersAreWoken, StartSuspendAll
<1>27. ASSUME NEW t \in Thread, LockHeap(t, "hpLock", "hpBlocked", "hpHave")
      PROVE  One'
  BY <1>27, RolesAssumption DEF OneCollection, GcWaitersAreWoken, LockHeap, SaveState
<1>28. ASSUME NEW t \in Thread, GotHeap(t, "hpBlocked", "hpHave")
      PROVE  One'
  BY <1>28, RolesAssumption DEF OneCollection, GcWaitersAreWoken, GotHeap, BackToRunning
<1>29. ASSUME NEW t \in Thread, LockHeap(t, "gcScan", "gcScanBlocked", "gcRelocked")
      PROVE  One'
  BY <1>29, RolesAssumption DEF OneCollection, GcWaitersAreWoken, LockHeap, SaveState
<1>30. ASSUME NEW t \in Thread, GotHeap(t, "gcScanBlocked", "gcRelocked")
      PROVE  One'
  BY <1>30, RolesAssumption DEF OneCollection, GcWaitersAreWoken, GotHeap, BackToRunning
<1>31. ASSUME NEW t \in Thread, LockHeap(t, "gcSweep", "gcSweepBlocked", "gcFinish")
      PROVE  One'
  BY <1>31, RolesAssumption DEF OneCollection, GcWaitersAreWoken, LockHeap, SaveState
<1>32. ASSUME NEW t \in Thread, GotHeap(t, "gcSweepBlocked", "gcFinish")
      PROVE  One'
  BY <1>32, RolesAssumption DEF OneCollection, GcWaitersAreWoken, GotHeap, BackToRunning
<1>33. ASSUME NEW t \in Thread, AllocSucceeds(t)
      PROVE  One'
  BY <1>33 DEF OneCollection, GcWaitersAreWoken, AllocSucceeds
<1>34. ASSUME NEW t \in Thread, AllocCollects(t)
      PROVE  One'
  BY <1>34 DEF OneCollection, GcWaitersAreWoken, AllocCollects
<1>35. ASSUME NEW t \in Thread, DaemonCollects(t)
      PROVE  One'
  BY <1>35 DEF OneCollection, GcWaitersAreWoken, DaemonCollects, BackToRunning
<1>36. ASSUME NEW t \in Thread, StartWaitForGc(t)
      PROVE  One'
  BY <1>36 DEF OneCollection, GcWaitersAreWoken, StartWaitForGc
<1>37. ASSUME NEW t \in Thread, WaitForConcurrentGc(t)
      PROVE  One'
  BY <1>37 DEF OneCollection, GcWaitersAreWoken, WaitForConcurrentGc, BackToRunning
<1>38. ASSUME NEW t \in Thread, GcCondWakes(t)
      PROVE  One'
  BY <1>38, RolesAssumption DEF OneCollection, GcWaitersAreWoken, GcCondWakes
<1>39. ASSUME NEW t \in Thread, GcWaited(t)
      PROVE  One'
  BY <1>39 DEF OneCollection, GcWaitersAreWoken, GcWaited
<1>40. ASSUME NEW t \in Thread, BeginGc(t)
      PROVE  One'
  BY <1>40 DEF OneCollection, GcWaitersAreWoken, BeginGc
<1>41. ASSUME NEW t \in Thread, ConcurrentPause(t)
      PROVE  One'
  BY <1>41, RolesAssumption DEF OneCollection, GcWaitersAreWoken, ConcurrentPause
<1>42. ASSUME NEW t \in Thread, ForegroundPause(t)
      PROVE  One'
  BY <1>42 DEF OneCollection, GcWaitersAreWoken, ForegroundPause
<1>43. ASSUME NEW t \in Thread, AfterPause(t)
      PROVE  One'
  BY <1>43 DEF OneCollection, GcWaitersAreWoken, AfterPause, WakeOthers, AfterGc
<1>44. ASSUME NEW t \in Thread, SecondPause(t)
      PROVE  One'
  BY <1>44 DEF OneCollection, GcWaitersAreWoken, SecondPause
<1>45. ASSUME NEW t \in Thread, FinishGc(t)
      PROVE  One'
  BY <1>45 DEF OneCollection, GcWaitersAreWoken, FinishGc, AfterGc
<1>46. ASSUME NEW t \in Thread, ParkDaemon(t)
      PROVE  One'
  BY <1>46 DEF OneCollection, GcWaitersAreWoken, ParkDaemon
<1>47. ASSUME NEW t \in Thread, UnlockHeap(t)
      PROVE  One'
  BY <1>47 DEF OneCollection, GcWaitersAreWoken, UnlockHeap
<1>48. ASSUME NEW t \in Thread, NEW k \in Kind, StartHeapOp(t, k)
      PROVE  One'
  BY <1>48 DEF OneCollection, GcWaitersAreWoken, StartHeapOp
<1>49. ASSUME NEW t \in Thread, EnqueueReturns(t)
      PROVE  One'
  BY <1>49 DEF OneCollection, GcWaitersAreWoken, EnqueueReturns, AfterGc
<1> QED
  BY <1>1, <1>2, <1>3, <1>4, <1>5, <1>6, <1>7, <1>8, <1>9, <1>10, <1>11, <1>12, <1>13,
     <1>14, <1>15, <1>16, <1>17, <1>18, <1>19, <1>20, <1>21, <1>22, <1>23, <1>24, <1>25,
     <1>26, <1>27, <1>28, <1>29, <1>30, <1>31, <1>32, <1>33, <1>34, <1>35, <1>36, <1>37,
     <1>38, <1>39, <1>40, <1>41, <1>42, <1>43, <1>44, <1>45, <1>46, <1>47, <1>48, <1>49
     DEF GcNext, GcObliged, GcChosen, ProtocolStep, GcStep, CheckStep, SuspendAllStep,
         ResumeAllStep

\* Who stops the world holds _threadSuspendLock until the others are stopped, has
\* no request against itself, and has made one against everybody else.
LEMMA AskedStep == GcCtlInv /\ GcStopInv /\ [GcNext]_allVars => GcStopInv'
<1> SUFFICES ASSUME GcCtlInv, GcStopInv, [GcNext]_allVars PROVE GcStopInv'
  OBVIOUS
<1> USE DEF At, Goto, SetStatus, savedVars, threadVars, countVars, lockVars, gcVars,
            CallCheck, GcPoint, Point, GcReturnPoint, ReturnPoint, SuspendPoint, SusPoint,
            ResumePoint, ScanPoint, SweepPoint,
            GcCtlInv, GcTypeOK, Others, GcStopInv, StopPoint
<1>1. CASE UNCHANGED allVars
  BY <1>1 DEF SuspendLockHeld, StopperFree, AskedInv, allVars, vars, ctlVars
<1>2. ASSUME NEW t \in Thread, LockThreadSuspend(t, "susLock", "susVm"), UNCHANGED gcVars
      PROVE  GcStopInv'
  BY <1>2, RolesAssumption DEF SuspendLockHeld, StopperFree, AskedInv, LockThreadSuspend
<1>3. ASSUME NEW t \in Thread, TakeVmLocks(t), UNCHANGED gcVars
      PROVE  GcStopInv'
  BY <1>3 DEF SuspendLockHeld, StopperFree, AskedInv, TakeVmLocks
<1>4. ASSUME NEW t \in Thread, YieldToSuspend(t), UNCHANGED gcVars
      PROVE  GcStopInv'
  BY <1>4 DEF SuspendLockHeld, StopperFree, AskedInv, YieldToSuspend
<1>5. ASSUME NEW t \in Thread, LockThreadSuspend(t, "susRelock", "susSelf"),
            UNCHANGED gcVars
      PROVE  GcStopInv'
  BY <1>5, RolesAssumption DEF SuspendLockHeld, StopperFree, AskedInv, LockThreadSuspend
<1>6. ASSUME NEW t \in Thread, LockThreadList(t, "susList", "susListWait", "susCount"),
            UNCHANGED gcVars
      PROVE  GcStopInv'
  BY <1>6 DEF SuspendLockHeld, StopperFree, AskedInv, LockThreadList, SaveState
<1>7. ASSUME NEW t \in Thread, GotThreadList(t, "susListWait", "susCount"), UNCHANGED gcVars
      PROVE  GcStopInv'
  BY <1>7 DEF SuspendLockHeld, StopperFree, AskedInv, GotThreadList
<1>8. ASSUME NEW t \in Thread, SuspendOthers(t), UNCHANGED gcVars
      PROVE  GcStopInv'
  BY <1>8 DEF SuspendLockHeld, StopperFree, AskedInv, SuspendOthers, AddToSuspendCounts
<1>9. ASSUME NEW t \in Thread, SeeStopped(t), UNCHANGED gcVars
      PROVE  GcStopInv'
  BY <1>9 DEF SuspendLockHeld, StopperFree, AskedInv, SeeStopped, LooksStopped
<1>10. ASSUME NEW t \in Thread, LockThreadSuspend(t, "resLock", "resList"), UNCHANGED gcVars
      PROVE  GcStopInv'
  BY <1>10, RolesAssumption DEF SuspendLockHeld, StopperFree, AskedInv, LockThreadSuspend
<1>11. ASSUME NEW t \in Thread, LockThreadList(t, "resList", "resListWait", "resCount"),
            UNCHANGED gcVars
      PROVE  GcStopInv'
  BY <1>11 DEF SuspendLockHeld, StopperFree, AskedInv, LockThreadList, SaveState
<1>12. ASSUME NEW t \in Thread, GotThreadList(t, "resListWait", "resCount"),
            UNCHANGED gcVars
      PROVE  GcStopInv'
  BY <1>12 DEF SuspendLockHeld, StopperFree, AskedInv, GotThreadList
<1>13. ASSUME NEW t \in Thread, ResumeOthers(t), UNCHANGED gcVars
      PROVE  GcStopInv'
  BY <1>13 DEF SuspendLockHeld, StopperFree, AskedInv, ResumeOthers, TakeFromSuspendCounts
<1>14. ASSUME NEW t \in Thread, UnlockThreadSuspend(t), UNCHANGED gcVars
      PROVE  GcStopInv'
  BY <1>14 DEF SuspendLockHeld, StopperFree, AskedInv, UnlockThreadSuspend
<1>15. ASSUME NEW t \in Thread, pause[t] = 0, Inspect(t), UNCHANGED gcVars
      PROVE  GcStopInv'
  BY <1>15 DEF SuspendLockHeld, StopperFree, AskedInv, Inspect
<1>16. ASSUME NEW t \in Thread, pause[t] = 0, WakeOthers(t, "run"), UNCHANGED gcVars
      PROVE  GcStopInv'
  BY <1>16 DEF SuspendLockHeld, StopperFree, AskedInv, WakeOthers
<1>17. ASSUME NEW t \in Thread, CheckSuspendPending(t), UNCHANGED gcVars
      PROVE  GcStopInv'
  BY <1>17 DEF SuspendLockHeld, StopperFree, AskedInv, CheckSuspendPending
<1>18. ASSUME NEW t \in Thread, SafePoint(t), UNCHANGED gcVars
      PROVE  GcStopInv'
  BY <1>18 DEF SuspendLockHeld, StopperFree, AskedInv, SafePoint
<1>19. ASSUME NEW t \in Thread, FullSuspendCheck(t), UNCHANGED gcVars
      PROVE  GcStopInv'
  BY <1>19 DEF SuspendLockHeld, StopperFree, AskedInv, FullSuspendCheck, SaveState
<1>20. ASSUME NEW t \in Thread, WakeUp(t), UNCHANGED gcVars
      PROVE  GcStopInv'
  BY <1>20 DEF SuspendLockHeld, StopperFree, AskedInv, WakeUp
<1>21. ASSUME NEW t \in Thread, TakeVmLock(t), UNCHANGED gcVars
      PROVE  GcStopInv'
  BY <1>21 DEF SuspendLockHeld, StopperFree, AskedInv, TakeVmLock
<1>22. ASSUME NEW t \in Thread, DropVmLock(t), UNCHANGED gcVars
      PROVE  GcStopInv'
  BY <1>22 DEF SuspendLockHeld, StopperFree, AskedInv, DropVmLock
<1>23. ASSUME NEW t \in Thread, EnterNative(t), UNCHANGED gcVars
      PROVE  GcStopInv'
  BY <1>23 DEF SuspendLockHeld, StopperFree, AskedInv, EnterNative
<1>24. ASSUME NEW t \in Thread, LeaveNative(t), t \in Daemon => kind[t] # "none",
            UNCHANGED gcVars
      PROVE  GcStopInv'
  BY <1>24 DEF SuspendLockHeld, StopperFree, AskedInv, LeaveNative
<1>25. ASSUME NEW t \in Thread, WantVmLock(t), kind[t] = "none", UNCHANGED gcVars
      PROVE  GcStopInv'
  BY <1>25 DEF SuspendLockHeld, StopperFree, AskedInv, WantVmLock
<1>26. ASSUME NEW t \in Thread, StartSuspendAll(t), kind[t] = "none", UNCHANGED gcVars
      PROVE  GcStopInv'
  BY <1>26 DEF SuspendLockHeld, StopperFree, AskedInv, StartSuspendAll
<1>27. ASSUME NEW t \in Thread, LockHeap(t, "hpLock", "hpBlocked", "hpHave")
      PROVE  GcStopInv'
  BY <1>27 DEF SuspendLockHeld, StopperFree, AskedInv, LockHeap, SaveState
<1>28. ASSUME NEW t \in Thread, GotHeap(t, "hpBlocked", "hpHave")
      PROVE  GcStopInv'
  BY <1>28 DEF SuspendLockHeld, StopperFree, AskedInv, GotHeap, BackToRunning
<1>29. ASSUME NEW t \in Thread, LockHeap(t, "gcScan", "gcScanBlocked", "gcRelocked")
      PROVE  GcStopInv'
  BY <1>29 DEF SuspendLockHeld, StopperFree, AskedInv, LockHeap, SaveState
<1>30. ASSUME NEW t \in Thread, GotHeap(t, "gcScanBlocked", "gcRelocked")
      PROVE  GcStopInv'
  BY <1>30 DEF SuspendLockHeld, StopperFree, AskedInv, GotHeap, BackToRunning
<1>31. ASSUME NEW t \in Thread, LockHeap(t, "gcSweep", "gcSweepBlocked", "gcFinish")
      PROVE  GcStopInv'
  BY <1>31 DEF SuspendLockHeld, StopperFree, AskedInv, LockHeap, SaveState
<1>32. ASSUME NEW t \in Thread, GotHeap(t, "gcSweepBlocked", "gcFinish")
      PROVE  GcStopInv'
  BY <1>32 DEF SuspendLockHeld, StopperFree, AskedInv, GotHeap, BackToRunning
<1>33. ASSUME NEW t \in Thread, AllocSucceeds(t)
      PROVE  GcStopInv'
  BY <1>33 DEF SuspendLockHeld, StopperFree, AskedInv, AllocSucceeds
<1>34. ASSUME NEW t \in Thread, AllocCollects(t)
      PROVE  GcStopInv'
  BY <1>34 DEF SuspendLockHeld, StopperFree, AskedInv, AllocCollects
<1>35. ASSUME NEW t \in Thread, DaemonCollects(t)
      PROVE  GcStopInv'
  BY <1>35 DEF SuspendLockHeld, StopperFree, AskedInv, DaemonCollects, BackToRunning
<1>36. ASSUME NEW t \in Thread, StartWaitForGc(t)
      PROVE  GcStopInv'
  BY <1>36 DEF SuspendLockHeld, StopperFree, AskedInv, StartWaitForGc
<1>37. ASSUME NEW t \in Thread, WaitForConcurrentGc(t)
      PROVE  GcStopInv'
  BY <1>37 DEF SuspendLockHeld, StopperFree, AskedInv, WaitForConcurrentGc, BackToRunning
<1>38. ASSUME NEW t \in Thread, GcCondWakes(t)
      PROVE  GcStopInv'
  BY <1>38 DEF SuspendLockHeld, StopperFree, AskedInv, GcCondWakes
<1>39. ASSUME NEW t \in Thread, GcWaited(t)
      PROVE  GcStopInv'
  BY <1>39 DEF SuspendLockHeld, StopperFree, AskedInv, GcWaited
<1>40. ASSUME NEW t \in Thread, BeginGc(t)
      PROVE  GcStopInv'
  BY <1>40 DEF SuspendLockHeld, StopperFree, AskedInv, BeginGc
<1>41. ASSUME NEW t \in Thread, ConcurrentPause(t)
      PROVE  GcStopInv'
  BY <1>41 DEF SuspendLockHeld, StopperFree, AskedInv, ConcurrentPause
<1>42. ASSUME NEW t \in Thread, ForegroundPause(t)
      PROVE  GcStopInv'
  BY <1>42 DEF SuspendLockHeld, StopperFree, AskedInv, ForegroundPause
<1>43. ASSUME NEW t \in Thread, AfterPause(t)
      PROVE  GcStopInv'
  BY <1>43 DEF SuspendLockHeld, StopperFree, AskedInv, AfterPause, WakeOthers, AfterGc
<1>44. ASSUME NEW t \in Thread, SecondPause(t)
      PROVE  GcStopInv'
  BY <1>44 DEF SuspendLockHeld, StopperFree, AskedInv, SecondPause
<1>45. ASSUME NEW t \in Thread, FinishGc(t)
      PROVE  GcStopInv'
  BY <1>45 DEF SuspendLockHeld, StopperFree, AskedInv, FinishGc, AfterGc
<1>46. ASSUME NEW t \in Thread, ParkDaemon(t)
      PROVE  GcStopInv'
  BY <1>46 DEF SuspendLockHeld, StopperFree, AskedInv, ParkDaemon
<1>47. ASSUME NEW t \in Thread, UnlockHeap(t)
      PROVE  GcStopInv'
  BY <1>47 DEF SuspendLockHeld, StopperFree, AskedInv, UnlockHeap
<1>48. ASSUME NEW t \in Thread, NEW k \in Kind, StartHeapOp(t, k)
      PROVE  GcStopInv'
  BY <1>48 DEF SuspendLockHeld, StopperFree, AskedInv, StartHeapOp
<1>49. ASSUME NEW t \in Thread, EnqueueReturns(t)
      PROVE  GcStopInv'
  BY <1>49 DEF SuspendLockHeld, StopperFree, AskedInv, EnqueueReturns, AfterGc
<1> QED
  BY <1>1, <1>2, <1>3, <1>4, <1>5, <1>6, <1>7, <1>8, <1>9, <1>10, <1>11, <1>12, <1>13,
     <1>14, <1>15, <1>16, <1>17, <1>18, <1>19, <1>20, <1>21, <1>22, <1>23, <1>24, <1>25,
     <1>26, <1>27, <1>28, <1>29, <1>30, <1>31, <1>32, <1>33, <1>34, <1>35, <1>36, <1>37,
     <1>38, <1>39, <1>40, <1>41, <1>42, <1>43, <1>44, <1>45, <1>46, <1>47, <1>48, <1>49
     DEF GcNext, GcObliged, GcChosen, ProtocolStep, GcStep, CheckStep, SuspendAllStep,
         ResumeAllStep

LEMMA GcInitInv == GcInit => GcInv
<1> SUFFICES ASSUME GcInit PROVE GcInv
  OBVIOUS
<1>1. GcTypeOK
  <2>1. /\ status \in [Thread -> Status] /\ oldStatus \in [Thread -> Status]
        /\ pc \in [Thread -> GcPoint] /\ ret \in [Thread -> GcReturnPoint]
        /\ kind \in [Thread -> Kind]
    BY DEF GcInit, Status, GcPoint, Point, GcReturnPoint, ReturnPoint, Kind
  <2>2. /\ suspendCount \in [Thread -> Nat] /\ pause \in [Thread -> 0..2]
        /\ await \in [Thread -> SUBSET Thread]
    BY DEF GcInit
  <2>3. closed \in [Thread -> BOOLEAN] /\ oldClosed \in [Thread -> BOOLEAN]
    <3>1. \A t \in Thread : (t \in Daemon) \in BOOLEAN
      OBVIOUS
    <3>2. closed \in [Thread -> BOOLEAN]
      BY <3>1, Zenon DEF GcInit
    <3>3. oldClosed \in [Thread -> BOOLEAN]
      BY Zenon DEF GcInit
    <3> QED
      BY <3>2, <3>3
  <2>4. /\ waiters \subseteq Thread /\ gcWaiters \subseteq Thread /\ gcRunning \in BOOLEAN
        /\ {susOwner, listOwner, vmOwner, heapOwner} \subseteq Thread \cup {NoThread}
    BY DEF GcInit
  <2> QED
    BY <2>1, <2>2, <2>3, <2>4 DEF GcTypeOK
<1> USE DEF GcInit, Where
<1>2. RoleInv /\ StatusInv
  BY DEF RoleInv, StatusInv, OwnStatus, BlockedPoint, SuspendPoint, SusPoint, ResumePoint,
         ScanPoint, SweepPoint, TracePoint
<1>3. HeapInv
  BY DEF HeapInv, SuspendPoint, SusPoint, ResumePoint, ScanPoint, SweepPoint
<1>4. GcStopInv
  BY DEF GcStopInv, SuspendLockHeld, StopperFree, AskedInv, StopPoint, SusPoint
<1>5. OneCollection /\ GcWaitersAreWoken
  BY DEF OneCollection, GcWaitersAreWoken
<1> QED
  BY <1>1, <1>2, <1>3, <1>4, <1>5 DEF GcInv, GcCtlInv

\* The invariant holds for any threads in any roles.
THEOREM GcInvariant == GcSpec => []GcInv
<1>1. GcInv /\ [GcNext]_allVars => GcInv'
  BY GcTypeStep, RoleStep, StatusStep, HeapStep, CollectionStep, AskedStep
     DEF GcInv, GcCtlInv
<1> QED
  BY <1>1, GcInitInv, PTL DEF GcSpec

\* At most one thread collects at a time, whoever allocates, calls System.gc() or
\* is the daemon, though a concurrent collection lets go of gcHeapLock twice
\* (dvmCollectGarbageInternal, dvmWaitForConcurrentGcToComplete).
THEOREM OneCollectionAtATime == GcSpec => []OneCollection
<1>1. GcInv => OneCollection
  BY DEF GcInv
<1> QED
  BY <1>1, GcInvariant, PTL

\* Nobody sleeps on gcHeapCond when no collection runs, although only the end of a
\* concurrent collection broadcasts.
THEOREM GcSleepersWakeUp == GcSpec => []GcWaitersAreWoken
<1>1. GcInv => GcWaitersAreWoken
  BY DEF GcInv
<1> QED
  BY <1>1, GcInvariant, PTL

-----------------------------------------------------------------------------
(* suspendCount, with collections.                                         *)

\* A step changes the requests and the counts in one of the ways of the protocol.
LEMMA GcRequestSteps ==
  ASSUME GcTypeOK, RoleInv, GcNext
  PROVE  \E t \in Thread : RequestStep(t)
<1> USE DEF At, Goto, SetStatus, savedVars, threadVars, countVars, lockVars, gcVars,
            CallCheck, GcPoint, Point, GcReturnPoint, ReturnPoint, SuspendPoint, SusPoint,
            ResumePoint, ScanPoint, SweepPoint,
            GcTypeOK, RoleInv, TracePoint, RequestStep, OnlyOwnRequests, HasSuspendedAll,
            HasSuspended, WorldStoppedBy, Where, Others
<1>1. ASSUME NEW t \in Thread, LockThreadSuspend(t, "susLock", "susVm"), UNCHANGED gcVars
      PROVE  RequestStep(t)
  BY <1>1 DEF LockThreadSuspend, KeepsRequests
<1>2. ASSUME NEW t \in Thread, TakeVmLocks(t), UNCHANGED gcVars
      PROVE  RequestStep(t)
  BY <1>2 DEF TakeVmLocks, KeepsRequests
<1>3. ASSUME NEW t \in Thread, YieldToSuspend(t), UNCHANGED gcVars
      PROVE  RequestStep(t)
  BY <1>3 DEF YieldToSuspend, KeepsRequests
<1>4. ASSUME NEW t \in Thread, LockThreadSuspend(t, "susRelock", "susSelf"),
            UNCHANGED gcVars
      PROVE  RequestStep(t)
  BY <1>4 DEF LockThreadSuspend, KeepsRequests
<1>5. ASSUME NEW t \in Thread, LockThreadList(t, "susList", "susListWait", "susCount"),
            UNCHANGED gcVars
      PROVE  RequestStep(t)
  BY <1>5 DEF LockThreadList, KeepsRequests, SaveState
<1>6. ASSUME NEW t \in Thread, GotThreadList(t, "susListWait", "susCount"), UNCHANGED gcVars
      PROVE  RequestStep(t)
  BY <1>6 DEF GotThreadList, KeepsRequests
<1>7. ASSUME NEW t \in Thread, SuspendOthers(t), UNCHANGED gcVars
      PROVE  RequestStep(t)
  BY <1>7 DEF SuspendOthers, AsksAll
<1>8. ASSUME NEW t \in Thread, SeeStopped(t), UNCHANGED gcVars
      PROVE  RequestStep(t)
  BY <1>8 DEF SeeStopped, KeepsRequests, LooksStopped
<1>9. ASSUME NEW t \in Thread, LockThreadSuspend(t, "resLock", "resList"), UNCHANGED gcVars
      PROVE  RequestStep(t)
  BY <1>9 DEF LockThreadSuspend, KeepsRequests
<1>10. ASSUME NEW t \in Thread, LockThreadList(t, "resList", "resListWait", "resCount"),
            UNCHANGED gcVars
      PROVE  RequestStep(t)
  BY <1>10 DEF LockThreadList, KeepsRequests, SaveState
<1>11. ASSUME NEW t \in Thread, GotThreadList(t, "resListWait", "resCount"),
            UNCHANGED gcVars
      PROVE  RequestStep(t)
  BY <1>11 DEF GotThreadList, KeepsRequests
<1>12. ASSUME NEW t \in Thread, ResumeOthers(t), UNCHANGED gcVars
      PROVE  RequestStep(t)
  BY <1>12 DEF ResumeOthers, FreesAll
<1>13. ASSUME NEW t \in Thread, UnlockThreadSuspend(t), UNCHANGED gcVars
      PROVE  RequestStep(t)
  BY <1>13 DEF UnlockThreadSuspend, KeepsRequests
<1>14. ASSUME NEW t \in Thread, pause[t] = 0, Inspect(t), UNCHANGED gcVars
      PROVE  RequestStep(t)
  BY <1>14 DEF Inspect, KeepsRequests
<1>15. ASSUME NEW t \in Thread, pause[t] = 0, WakeOthers(t, "run"), UNCHANGED gcVars
      PROVE  RequestStep(t)
  BY <1>15 DEF WakeOthers, KeepsRequests
<1>16. ASSUME NEW t \in Thread, CheckSuspendPending(t), UNCHANGED gcVars
      PROVE  RequestStep(t)
  BY <1>16 DEF CheckSuspendPending, KeepsRequests
<1>17. ASSUME NEW t \in Thread, SafePoint(t), UNCHANGED gcVars
      PROVE  RequestStep(t)
  BY <1>17 DEF SafePoint, KeepsRequests
<1>18. ASSUME NEW t \in Thread, FullSuspendCheck(t), UNCHANGED gcVars
      PROVE  RequestStep(t)
  BY <1>18 DEF FullSuspendCheck, KeepsRequests, SaveState
<1>19. ASSUME NEW t \in Thread, WakeUp(t), UNCHANGED gcVars
      PROVE  RequestStep(t)
  BY <1>19 DEF WakeUp, KeepsRequests
<1>20. ASSUME NEW t \in Thread, TakeVmLock(t), UNCHANGED gcVars
      PROVE  RequestStep(t)
  BY <1>20 DEF TakeVmLock, KeepsRequests
<1>21. ASSUME NEW t \in Thread, DropVmLock(t), UNCHANGED gcVars
      PROVE  RequestStep(t)
  BY <1>21 DEF DropVmLock, KeepsRequests
<1>22. ASSUME NEW t \in Thread, EnterNative(t), UNCHANGED gcVars
      PROVE  RequestStep(t)
  BY <1>22 DEF EnterNative, KeepsRequests
<1>23. ASSUME NEW t \in Thread, LeaveNative(t), t \in Daemon => kind[t] # "none",
            UNCHANGED gcVars
      PROVE  RequestStep(t)
  BY <1>23 DEF LeaveNative, KeepsRequests
<1>24. ASSUME NEW t \in Thread, WantVmLock(t), kind[t] = "none", UNCHANGED gcVars
      PROVE  RequestStep(t)
  BY <1>24 DEF WantVmLock, KeepsRequests
<1>25. ASSUME NEW t \in Thread, StartSuspendAll(t), kind[t] = "none", UNCHANGED gcVars
      PROVE  RequestStep(t)
  BY <1>25 DEF StartSuspendAll, KeepsRequests
<1>26. ASSUME NEW t \in Thread, LockHeap(t, "hpLock", "hpBlocked", "hpHave")
      PROVE  RequestStep(t)
  BY <1>26 DEF LockHeap, KeepsRequests, SaveState
<1>27. ASSUME NEW t \in Thread, GotHeap(t, "hpBlocked", "hpHave")
      PROVE  RequestStep(t)
  BY <1>27 DEF GotHeap, KeepsRequests, BackToRunning
<1>28. ASSUME NEW t \in Thread, LockHeap(t, "gcScan", "gcScanBlocked", "gcRelocked")
      PROVE  RequestStep(t)
  BY <1>28 DEF LockHeap, KeepsRequests, SaveState
<1>29. ASSUME NEW t \in Thread, GotHeap(t, "gcScanBlocked", "gcRelocked")
      PROVE  RequestStep(t)
  BY <1>29 DEF GotHeap, KeepsRequests, BackToRunning
<1>30. ASSUME NEW t \in Thread, LockHeap(t, "gcSweep", "gcSweepBlocked", "gcFinish")
      PROVE  RequestStep(t)
  BY <1>30 DEF LockHeap, KeepsRequests, SaveState
<1>31. ASSUME NEW t \in Thread, GotHeap(t, "gcSweepBlocked", "gcFinish")
      PROVE  RequestStep(t)
  BY <1>31 DEF GotHeap, KeepsRequests, BackToRunning
<1>32. ASSUME NEW t \in Thread, AllocSucceeds(t)
      PROVE  RequestStep(t)
  BY <1>32 DEF AllocSucceeds, KeepsRequests
<1>33. ASSUME NEW t \in Thread, AllocCollects(t)
      PROVE  RequestStep(t)
  BY <1>33 DEF AllocCollects, KeepsRequests
<1>34. ASSUME NEW t \in Thread, DaemonCollects(t)
      PROVE  RequestStep(t)
  BY <1>34 DEF DaemonCollects, KeepsRequests, BackToRunning
<1>35. ASSUME NEW t \in Thread, StartWaitForGc(t)
      PROVE  RequestStep(t)
  BY <1>35 DEF StartWaitForGc, KeepsRequests
<1>36. ASSUME NEW t \in Thread, WaitForConcurrentGc(t)
      PROVE  RequestStep(t)
  BY <1>36 DEF WaitForConcurrentGc, KeepsRequests, BackToRunning
<1>37. ASSUME NEW t \in Thread, GcCondWakes(t)
      PROVE  RequestStep(t)
  BY <1>37 DEF GcCondWakes, KeepsRequests
<1>38. ASSUME NEW t \in Thread, GcWaited(t)
      PROVE  RequestStep(t)
  BY <1>38 DEF GcWaited, KeepsRequests
<1>39. ASSUME NEW t \in Thread, BeginGc(t)
      PROVE  RequestStep(t)
  BY <1>39 DEF BeginGc, KeepsRequests
<1>40. ASSUME NEW t \in Thread, ConcurrentPause(t)
      PROVE  RequestStep(t)
  BY <1>40 DEF ConcurrentPause, KeepsRequests
<1>41. ASSUME NEW t \in Thread, ForegroundPause(t)
      PROVE  RequestStep(t)
  BY <1>41 DEF ForegroundPause, KeepsRequests
<1>42. ASSUME NEW t \in Thread, AfterPause(t)
      PROVE  RequestStep(t)
  BY <1>42 DEF AfterPause, KeepsRequests, WakeOthers, AfterGc
<1>43. ASSUME NEW t \in Thread, SecondPause(t)
      PROVE  RequestStep(t)
  BY <1>43 DEF SecondPause, KeepsRequests
<1>44. ASSUME NEW t \in Thread, FinishGc(t)
      PROVE  RequestStep(t)
  BY <1>44 DEF FinishGc, KeepsRequests, AfterGc
<1>45. ASSUME NEW t \in Thread, ParkDaemon(t)
      PROVE  RequestStep(t)
  BY <1>45 DEF ParkDaemon, KeepsRequests
<1>46. ASSUME NEW t \in Thread, UnlockHeap(t)
      PROVE  RequestStep(t)
  BY <1>46 DEF UnlockHeap, KeepsRequests
<1>47. ASSUME NEW t \in Thread, NEW k \in Kind, StartHeapOp(t, k)
      PROVE  RequestStep(t)
  BY <1>47 DEF StartHeapOp, KeepsRequests
<1>48. ASSUME NEW t \in Thread, EnqueueReturns(t)
      PROVE  RequestStep(t)
  BY <1>48 DEF EnqueueReturns, KeepsRequests, AfterGc
<1> QED
  BY <1>1, <1>2, <1>3, <1>4, <1>5, <1>6, <1>7, <1>8, <1>9, <1>10, <1>11, <1>12, <1>13,
     <1>14, <1>15, <1>16, <1>17, <1>18, <1>19, <1>20, <1>21, <1>22, <1>23, <1>24, <1>25,
     <1>26, <1>27, <1>28, <1>29, <1>30, <1>31, <1>32, <1>33, <1>34, <1>35, <1>36, <1>37,
     <1>38, <1>39, <1>40, <1>41, <1>42, <1>43, <1>44, <1>45, <1>46, <1>47, <1>48
     DEF GcNext, GcObliged, GcChosen, ProtocolStep, GcStep, CheckStep, SuspendAllStep,
         ResumeAllStep

\* suspendCount counts the requests of collections as it does those of dumps.
THEOREM GcCountsAreRequests == GcSpec => []CountsRequests
<1>1. GcInit => CountsRequests
  <2> SUFFICES ASSUME GcInit PROVE CountsRequests
    OBVIOUS
  <2>1. \A t \in Thread : StoppersOf(t) = {} /\ TracersOf(t) = {} /\ suspendCount[t] = 0
    BY DEF GcInit, StoppersOf, TracersOf, Others, HasSuspendedAll, HasSuspended,
           WorldStoppedBy, Where
  <2>2. Cardinality({}) = 0
    BY FS_EmptySet
  <2> QED
    BY <2>1, <2>2 DEF CountsRequests, StoppersOf, TracersOf
<1>2. GcInv /\ CountsRequests /\ [GcNext]_allVars => CountsRequests'
  <2> SUFFICES ASSUME GcInv, CountsRequests, [GcNext]_allVars PROVE CountsRequests'
    OBVIOUS
  <2>1. suspendCount \in [Thread -> Nat] /\ GcTypeOK /\ RoleInv
    BY DEF GcInv, GcCtlInv, GcTypeOK
  <2>2. CASE GcNext
    BY <2>1, <2>2, GcRequestSteps, CountsStep
  <2>3. CASE UNCHANGED allVars
    <3>1. UNCHANGED <<suspendCount, pc, ret, await>>
      BY <2>3 DEF allVars, vars, countVars, ctlVars
    <3> QED
      BY <3>1 DEF CountsRequests, HasSuspendedAll, HasSuspended, WorldStoppedBy, Where
  <2> QED
    BY <2>2, <2>3
<1> QED
  BY <1>1, <1>2, GcInvariant, PTL DEF GcSpec

\* No wake-up is lost by a step, of a collection either.
LEMMA GcWakeUpStep == GcTypeOK /\ NoLostWakeUp /\ [GcNext]_allVars => NoLostWakeUp'
<1> SUFFICES ASSUME GcTypeOK, NoLostWakeUp, [GcNext]_allVars PROVE NoLostWakeUp'
  OBVIOUS
<1> USE DEF At, Goto, SetStatus, savedVars, threadVars, countVars, lockVars, gcVars,
            CallCheck, GcTypeOK, NoLostWakeUp, GcPoint, Point, GcReturnPoint, ReturnPoint
<1>1. CASE UNCHANGED allVars
  BY <1>1 DEF allVars, vars, ctlVars
<1>2. ASSUME NEW t \in Thread, LockThreadSuspend(t, "susLock", "susVm"), UNCHANGED gcVars
      PROVE  NoLostWakeUp'
  BY <1>2 DEF LockThreadSuspend
<1>3. ASSUME NEW t \in Thread, TakeVmLocks(t), UNCHANGED gcVars
      PROVE  NoLostWakeUp'
  BY <1>3 DEF TakeVmLocks
<1>4. ASSUME NEW t \in Thread, YieldToSuspend(t), UNCHANGED gcVars
      PROVE  NoLostWakeUp'
  BY <1>4 DEF YieldToSuspend
<1>5. ASSUME NEW t \in Thread, LockThreadSuspend(t, "susRelock", "susSelf"),
            UNCHANGED gcVars
      PROVE  NoLostWakeUp'
  BY <1>5 DEF LockThreadSuspend
<1>6. ASSUME NEW t \in Thread, LockThreadList(t, "susList", "susListWait", "susCount"),
            UNCHANGED gcVars
      PROVE  NoLostWakeUp'
  BY <1>6 DEF LockThreadList, SaveState
<1>7. ASSUME NEW t \in Thread, GotThreadList(t, "susListWait", "susCount"), UNCHANGED gcVars
      PROVE  NoLostWakeUp'
  BY <1>7 DEF GotThreadList
<1>8. ASSUME NEW t \in Thread, SuspendOthers(t), UNCHANGED gcVars
      PROVE  NoLostWakeUp'
  BY <1>8 DEF SuspendOthers, AddToSuspendCounts, Others
<1>9. ASSUME NEW t \in Thread, SeeStopped(t), UNCHANGED gcVars
      PROVE  NoLostWakeUp'
  BY <1>9 DEF SeeStopped, LooksStopped
<1>10. ASSUME NEW t \in Thread, LockThreadSuspend(t, "resLock", "resList"), UNCHANGED gcVars
      PROVE  NoLostWakeUp'
  BY <1>10 DEF LockThreadSuspend
<1>11. ASSUME NEW t \in Thread, LockThreadList(t, "resList", "resListWait", "resCount"),
            UNCHANGED gcVars
      PROVE  NoLostWakeUp'
  BY <1>11 DEF LockThreadList, SaveState
<1>12. ASSUME NEW t \in Thread, GotThreadList(t, "resListWait", "resCount"),
            UNCHANGED gcVars
      PROVE  NoLostWakeUp'
  BY <1>12 DEF GotThreadList
<1>13. ASSUME NEW t \in Thread, ResumeOthers(t), UNCHANGED gcVars
      PROVE  NoLostWakeUp'
  BY <1>13 DEF ResumeOthers, TakeFromSuspendCounts, Others
<1>14. ASSUME NEW t \in Thread, UnlockThreadSuspend(t), UNCHANGED gcVars
      PROVE  NoLostWakeUp'
  BY <1>14 DEF UnlockThreadSuspend
<1>15. ASSUME NEW t \in Thread, pause[t] = 0, Inspect(t), UNCHANGED gcVars
      PROVE  NoLostWakeUp'
  BY <1>15 DEF Inspect
<1>16. ASSUME NEW t \in Thread, pause[t] = 0, WakeOthers(t, "run"), UNCHANGED gcVars
      PROVE  NoLostWakeUp'
  BY <1>16 DEF WakeOthers
<1>17. ASSUME NEW t \in Thread, CheckSuspendPending(t), UNCHANGED gcVars
      PROVE  NoLostWakeUp'
  BY <1>17 DEF CheckSuspendPending
<1>18. ASSUME NEW t \in Thread, SafePoint(t), UNCHANGED gcVars
      PROVE  NoLostWakeUp'
  BY <1>18 DEF SafePoint
<1>19. ASSUME NEW t \in Thread, FullSuspendCheck(t), UNCHANGED gcVars
      PROVE  NoLostWakeUp'
  BY <1>19 DEF FullSuspendCheck, SaveState
<1>20. ASSUME NEW t \in Thread, WakeUp(t), UNCHANGED gcVars
      PROVE  NoLostWakeUp'
  BY <1>20 DEF WakeUp
<1>21. ASSUME NEW t \in Thread, TakeVmLock(t), UNCHANGED gcVars
      PROVE  NoLostWakeUp'
  BY <1>21 DEF TakeVmLock
<1>22. ASSUME NEW t \in Thread, DropVmLock(t), UNCHANGED gcVars
      PROVE  NoLostWakeUp'
  BY <1>22 DEF DropVmLock
<1>23. ASSUME NEW t \in Thread, EnterNative(t), UNCHANGED gcVars
      PROVE  NoLostWakeUp'
  BY <1>23 DEF EnterNative
<1>24. ASSUME NEW t \in Thread, LeaveNative(t), t \in Daemon => kind[t] # "none",
            UNCHANGED gcVars
      PROVE  NoLostWakeUp'
  BY <1>24 DEF LeaveNative
<1>25. ASSUME NEW t \in Thread, WantVmLock(t), kind[t] = "none", UNCHANGED gcVars
      PROVE  NoLostWakeUp'
  BY <1>25 DEF WantVmLock
<1>26. ASSUME NEW t \in Thread, StartSuspendAll(t), kind[t] = "none", UNCHANGED gcVars
      PROVE  NoLostWakeUp'
  BY <1>26 DEF StartSuspendAll
<1>27. ASSUME NEW t \in Thread, LockHeap(t, "hpLock", "hpBlocked", "hpHave")
      PROVE  NoLostWakeUp'
  BY <1>27 DEF LockHeap, SaveState
<1>28. ASSUME NEW t \in Thread, GotHeap(t, "hpBlocked", "hpHave")
      PROVE  NoLostWakeUp'
  BY <1>28 DEF GotHeap, BackToRunning
<1>29. ASSUME NEW t \in Thread, LockHeap(t, "gcScan", "gcScanBlocked", "gcRelocked")
      PROVE  NoLostWakeUp'
  BY <1>29 DEF LockHeap, SaveState
<1>30. ASSUME NEW t \in Thread, GotHeap(t, "gcScanBlocked", "gcRelocked")
      PROVE  NoLostWakeUp'
  BY <1>30 DEF GotHeap, BackToRunning
<1>31. ASSUME NEW t \in Thread, LockHeap(t, "gcSweep", "gcSweepBlocked", "gcFinish")
      PROVE  NoLostWakeUp'
  BY <1>31 DEF LockHeap, SaveState
<1>32. ASSUME NEW t \in Thread, GotHeap(t, "gcSweepBlocked", "gcFinish")
      PROVE  NoLostWakeUp'
  BY <1>32 DEF GotHeap, BackToRunning
<1>33. ASSUME NEW t \in Thread, AllocSucceeds(t)
      PROVE  NoLostWakeUp'
  BY <1>33 DEF AllocSucceeds
<1>34. ASSUME NEW t \in Thread, AllocCollects(t)
      PROVE  NoLostWakeUp'
  BY <1>34 DEF AllocCollects
<1>35. ASSUME NEW t \in Thread, DaemonCollects(t)
      PROVE  NoLostWakeUp'
  BY <1>35 DEF DaemonCollects, BackToRunning
<1>36. ASSUME NEW t \in Thread, StartWaitForGc(t)
      PROVE  NoLostWakeUp'
  BY <1>36 DEF StartWaitForGc
<1>37. ASSUME NEW t \in Thread, WaitForConcurrentGc(t)
      PROVE  NoLostWakeUp'
  BY <1>37 DEF WaitForConcurrentGc, BackToRunning
<1>38. ASSUME NEW t \in Thread, GcCondWakes(t)
      PROVE  NoLostWakeUp'
  BY <1>38 DEF GcCondWakes
<1>39. ASSUME NEW t \in Thread, GcWaited(t)
      PROVE  NoLostWakeUp'
  BY <1>39 DEF GcWaited
<1>40. ASSUME NEW t \in Thread, BeginGc(t)
      PROVE  NoLostWakeUp'
  BY <1>40 DEF BeginGc
<1>41. ASSUME NEW t \in Thread, ConcurrentPause(t)
      PROVE  NoLostWakeUp'
  BY <1>41 DEF ConcurrentPause
<1>42. ASSUME NEW t \in Thread, ForegroundPause(t)
      PROVE  NoLostWakeUp'
  BY <1>42 DEF ForegroundPause
<1>43. ASSUME NEW t \in Thread, AfterPause(t)
      PROVE  NoLostWakeUp'
  BY <1>43 DEF AfterPause, WakeOthers, AfterGc
<1>44. ASSUME NEW t \in Thread, SecondPause(t)
      PROVE  NoLostWakeUp'
  BY <1>44 DEF SecondPause
<1>45. ASSUME NEW t \in Thread, FinishGc(t)
      PROVE  NoLostWakeUp'
  BY <1>45 DEF FinishGc, AfterGc
<1>46. ASSUME NEW t \in Thread, ParkDaemon(t)
      PROVE  NoLostWakeUp'
  BY <1>46 DEF ParkDaemon
<1>47. ASSUME NEW t \in Thread, UnlockHeap(t)
      PROVE  NoLostWakeUp'
  BY <1>47 DEF UnlockHeap
<1>48. ASSUME NEW t \in Thread, NEW k \in Kind, StartHeapOp(t, k)
      PROVE  NoLostWakeUp'
  BY <1>48 DEF StartHeapOp
<1>49. ASSUME NEW t \in Thread, EnqueueReturns(t)
      PROVE  NoLostWakeUp'
  BY <1>49 DEF EnqueueReturns, AfterGc
<1> QED
  BY <1>1, <1>2, <1>3, <1>4, <1>5, <1>6, <1>7, <1>8, <1>9, <1>10, <1>11, <1>12, <1>13,
     <1>14, <1>15, <1>16, <1>17, <1>18, <1>19, <1>20, <1>21, <1>22, <1>23, <1>24, <1>25,
     <1>26, <1>27, <1>28, <1>29, <1>30, <1>31, <1>32, <1>33, <1>34, <1>35, <1>36, <1>37,
     <1>38, <1>39, <1>40, <1>41, <1>42, <1>43, <1>44, <1>45, <1>46, <1>47, <1>48, <1>49
     DEF GcNext, GcObliged, GcChosen, ProtocolStep, GcStep, CheckStep, SuspendAllStep,
         ResumeAllStep

\* A thread asleep with no request against it has a broadcast on the way, of a
\* collection or of a dump.
THEOREM GcWakeUpsAreNotLost == GcSpec => []NoLostWakeUp
<1>1. GcInit => NoLostWakeUp
  BY DEF GcInit, NoLostWakeUp
<1>2. GcInv => GcTypeOK
  BY DEF GcInv, GcCtlInv
<1> QED
  BY <1>1, <1>2, GcInvariant, GcWakeUpStep, PTL DEF GcSpec

-----------------------------------------------------------------------------
(* A stopped world, with collections.                                      *)

\* Where a thread may be that has been seen stopped: it blocks, or is about to
\* check its suspendCount, before it can be in managed code.
Stays(t) ==
  \/ pc[t] \in {"native", "check", "full", "asleep", "hpBlocked", "gcWait", "gcCond", "gcPark",
                "susLock", "susVm", "susSelf", "susRelock"} \cup ScanPoint \cup SweepPoint
  \/ pc[t] \in {"hpLock", "hpHave", "hpUnlock"} /\ t \in Daemon
  \/ pc[t] \in {"resUnlock", "resWake"} /\ pause[t] > 0 /\ IsConcurrent(t)

\* But a dump may meet the end of a concurrent collection.
Excused(s, t) == pause[s] = 0 /\ t \in Explicit \cup Daemon

\* Whoever else has been seen stopped stays where it cannot run.
StaysInv ==
  \A s \in Thread : \A t \in Others(s) :
    /\ pc[s] \in StopPoint => Stays(t) \/ Excused(s, t)
    /\ pc[s] = "susWait" /\ t \notin await[s] => Stays(t) \/ Excused(s, t)

\* What waitForThreadSuspend polls says that the thread stays.
LEMMA LooksStoppedStays ==
  ASSUME GcInv, NEW s \in Thread, NEW t \in Others(s), pc[s] = "susWait", LooksStopped(t)
  PROVE  Stays(t)
<1>1. suspendCount[t] # 0 /\ t \in Thread
  BY DEF GcInv, GcStopInv, AskedInv, Others
<1>2. pc[t] \in GcPoint /\ pc[t] \notin SusPoint \cup StopPoint \cup TracePoint
  BY <1>1 DEF GcInv, GcCtlInv, GcTypeOK, GcStopInv, StopperFree, RoleInv
<1>3. status[t] # "RUNNING"
  BY DEF LooksStopped
<1>4. pc[t] \notin {"run", "vmWant", "vmHold", "gcBegin", "gcWaited"}
  BY <1>1, <1>3 DEF GcInv, GcCtlInv, StatusInv, Where, OwnStatus, BlockedPoint
<1>5. pc[t] \in {"hpLock", "hpHave", "hpUnlock"} => t \in Daemon
  BY <1>1, <1>3 DEF GcInv, GcCtlInv, StatusInv, Where, OwnStatus, BlockedPoint
<1>6. pc[t] \in {"resUnlock", "resWake"} => pause[t] > 0 /\ IsConcurrent(t)
  BY <1>1, <1>3 DEF GcInv, GcCtlInv, StatusInv, Where, OwnStatus, BlockedPoint, ResumePoint
<1> QED
  BY <1>2, <1>4, <1>5, <1>6
     DEF Stays, GcPoint, Point, GcReturnPoint, ReturnPoint, SusPoint, StopPoint, TracePoint,
         ScanPoint, SweepPoint

\* A pause does not meet the end of another collection.
LEMMA FinishIsExcused ==
  ASSUME GcInv, NEW s \in Thread, NEW t \in Others(s), At(t, "gcFinish")
  PROVE  Excused(s, t)
<1>1. t \in Thread /\ pause[t] > 0 /\ IsConcurrent(t)
  BY DEF At, Others, GcInv, GcCtlInv, HeapInv, Where, SweepPoint
<1>2. pause[s] = 0
  BY <1>1 DEF GcInv, OneCollection, Others
<1>3. t \in Daemon \/ t \in Explicit
  BY <1>1 DEF IsConcurrent, GcInv, GcCtlInv, RoleInv
<1> QED
  BY <1>2, <1>3 DEF Excused

\* No step lets a thread that has been seen stopped go.
LEMMA StaysStep ==
  ASSUME GcInv, StaysInv, [GcNext]_allVars
  PROVE  StaysInv'
<1> USE DEF At, Goto, SetStatus, savedVars, threadVars, countVars, lockVars, gcVars,
            CallCheck, GcPoint, Point, GcReturnPoint, ReturnPoint, SuspendPoint, SusPoint,
            ResumePoint, ScanPoint, SweepPoint,
            GcInv, GcCtlInv, GcTypeOK, RoleInv, HeapInv, GcStopInv, AskedInv, StopperFree,
            SuspendLockHeld, Where, IsConcurrent, Others, StopPoint, StaysInv, Stays,
            Excused, TracePoint
<1>1. CASE UNCHANGED allVars
  BY <1>1 DEF allVars, vars, ctlVars
<1>2. ASSUME NEW t \in Thread, LockThreadSuspend(t, "susLock", "susVm"), UNCHANGED gcVars
      PROVE  StaysInv'
  BY <1>2 DEF LockThreadSuspend
<1>3. ASSUME NEW t \in Thread, TakeVmLocks(t), UNCHANGED gcVars
      PROVE  StaysInv'
  BY <1>3 DEF TakeVmLocks
<1>4. ASSUME NEW t \in Thread, YieldToSuspend(t), UNCHANGED gcVars
      PROVE  StaysInv'
  BY <1>4 DEF YieldToSuspend
<1>5. ASSUME NEW t \in Thread, LockThreadSuspend(t, "susRelock", "susSelf"),
            UNCHANGED gcVars
      PROVE  StaysInv'
  BY <1>5 DEF LockThreadSuspend
<1>6. ASSUME NEW t \in Thread, LockThreadList(t, "susList", "susListWait", "susCount"),
            UNCHANGED gcVars
      PROVE  StaysInv'
  BY <1>6 DEF LockThreadList, SaveState
<1>7. ASSUME NEW t \in Thread, GotThreadList(t, "susListWait", "susCount"), UNCHANGED gcVars
      PROVE  StaysInv'
  BY <1>7 DEF GotThreadList
<1>8. ASSUME NEW t \in Thread, SuspendOthers(t), UNCHANGED gcVars
      PROVE  StaysInv'
  BY <1>8 DEF SuspendOthers, AddToSuspendCounts
<1>9. ASSUME NEW t \in Thread, SeeStopped(t), UNCHANGED gcVars
      PROVE  StaysInv'
  BY <1>9, LooksStoppedStays DEF SeeStopped
<1>10. ASSUME NEW t \in Thread, LockThreadSuspend(t, "resLock", "resList"), UNCHANGED gcVars
      PROVE  StaysInv'
  BY <1>10 DEF LockThreadSuspend
<1>11. ASSUME NEW t \in Thread, LockThreadList(t, "resList", "resListWait", "resCount"),
            UNCHANGED gcVars
      PROVE  StaysInv'
  BY <1>11 DEF LockThreadList, SaveState
<1>12. ASSUME NEW t \in Thread, GotThreadList(t, "resListWait", "resCount"),
            UNCHANGED gcVars
      PROVE  StaysInv'
  BY <1>12 DEF GotThreadList
<1>13. ASSUME NEW t \in Thread, ResumeOthers(t), UNCHANGED gcVars
      PROVE  StaysInv'
  BY <1>13 DEF ResumeOthers, TakeFromSuspendCounts
<1>14. ASSUME NEW t \in Thread, UnlockThreadSuspend(t), UNCHANGED gcVars
      PROVE  StaysInv'
  BY <1>14 DEF UnlockThreadSuspend
<1>15. ASSUME NEW t \in Thread, pause[t] = 0, Inspect(t), UNCHANGED gcVars
      PROVE  StaysInv'
  BY <1>15 DEF Inspect
<1>16. ASSUME NEW t \in Thread, pause[t] = 0, WakeOthers(t, "run"), UNCHANGED gcVars
      PROVE  StaysInv'
  BY <1>16 DEF WakeOthers
<1>17. ASSUME NEW t \in Thread, CheckSuspendPending(t), UNCHANGED gcVars
      PROVE  StaysInv'
  BY <1>17 DEF CheckSuspendPending
<1>18. ASSUME NEW t \in Thread, SafePoint(t), UNCHANGED gcVars
      PROVE  StaysInv'
  BY <1>18 DEF SafePoint
<1>19. ASSUME NEW t \in Thread, FullSuspendCheck(t), UNCHANGED gcVars
      PROVE  StaysInv'
  BY <1>19 DEF FullSuspendCheck, SaveState
<1>20. ASSUME NEW t \in Thread, WakeUp(t), UNCHANGED gcVars
      PROVE  StaysInv'
  BY <1>20 DEF WakeUp
<1>21. ASSUME NEW t \in Thread, TakeVmLock(t), UNCHANGED gcVars
      PROVE  StaysInv'
  BY <1>21 DEF TakeVmLock
<1>22. ASSUME NEW t \in Thread, DropVmLock(t), UNCHANGED gcVars
      PROVE  StaysInv'
  BY <1>22 DEF DropVmLock
<1>23. ASSUME NEW t \in Thread, EnterNative(t), UNCHANGED gcVars
      PROVE  StaysInv'
  BY <1>23 DEF EnterNative
<1>24. ASSUME NEW t \in Thread, LeaveNative(t), t \in Daemon => kind[t] # "none",
            UNCHANGED gcVars
      PROVE  StaysInv'
  BY <1>24 DEF LeaveNative
<1>25. ASSUME NEW t \in Thread, WantVmLock(t), kind[t] = "none", UNCHANGED gcVars
      PROVE  StaysInv'
  BY <1>25 DEF WantVmLock
<1>26. ASSUME NEW t \in Thread, StartSuspendAll(t), kind[t] = "none", UNCHANGED gcVars
      PROVE  StaysInv'
  BY <1>26 DEF StartSuspendAll
<1>27. ASSUME NEW t \in Thread, LockHeap(t, "hpLock", "hpBlocked", "hpHave")
      PROVE  StaysInv'
  BY <1>27 DEF LockHeap, SaveState
<1>28. ASSUME NEW t \in Thread, GotHeap(t, "hpBlocked", "hpHave")
      PROVE  StaysInv'
  BY <1>28 DEF GotHeap, BackToRunning, StatusInv, OwnStatus, BlockedPoint
<1>29. ASSUME NEW t \in Thread, LockHeap(t, "gcScan", "gcScanBlocked", "gcRelocked")
      PROVE  StaysInv'
  BY <1>29 DEF LockHeap, SaveState
<1>30. ASSUME NEW t \in Thread, GotHeap(t, "gcScanBlocked", "gcRelocked")
      PROVE  StaysInv'
  BY <1>30 DEF GotHeap, BackToRunning, StatusInv, OwnStatus, BlockedPoint
<1>31. ASSUME NEW t \in Thread, LockHeap(t, "gcSweep", "gcSweepBlocked", "gcFinish")
      PROVE  StaysInv'
  BY <1>31 DEF LockHeap, SaveState
<1>32. ASSUME NEW t \in Thread, GotHeap(t, "gcSweepBlocked", "gcFinish")
      PROVE  StaysInv'
  BY <1>32 DEF GotHeap, BackToRunning, StatusInv, OwnStatus, BlockedPoint
<1>33. ASSUME NEW t \in Thread, AllocSucceeds(t)
      PROVE  StaysInv'
  BY <1>33 DEF AllocSucceeds
<1>34. ASSUME NEW t \in Thread, AllocCollects(t)
      PROVE  StaysInv'
  BY <1>34, GcRolesAssumption DEF AllocCollects
<1>35. ASSUME NEW t \in Thread, DaemonCollects(t)
      PROVE  StaysInv'
  BY <1>35 DEF DaemonCollects, BackToRunning
<1>36. ASSUME NEW t \in Thread, StartWaitForGc(t)
      PROVE  StaysInv'
  BY <1>36 DEF StartWaitForGc
<1>37. ASSUME NEW t \in Thread, WaitForConcurrentGc(t)
      PROVE  StaysInv'
  BY <1>37 DEF WaitForConcurrentGc, BackToRunning
<1>38. ASSUME NEW t \in Thread, GcCondWakes(t)
      PROVE  StaysInv'
  BY <1>38 DEF GcCondWakes
<1>39. ASSUME NEW t \in Thread, GcWaited(t)
      PROVE  StaysInv'
  BY <1>39 DEF GcWaited
<1>40. ASSUME NEW t \in Thread, BeginGc(t)
      PROVE  StaysInv'
  BY <1>40 DEF BeginGc
<1>41. ASSUME NEW t \in Thread, ConcurrentPause(t)
      PROVE  StaysInv'
  BY <1>41 DEF ConcurrentPause
<1>42. ASSUME NEW t \in Thread, ForegroundPause(t)
      PROVE  StaysInv'
  BY <1>42 DEF ForegroundPause
<1>43. ASSUME NEW t \in Thread, AfterPause(t)
      PROVE  StaysInv'
  BY <1>43 DEF AfterPause, WakeOthers, AfterGc
<1>44. ASSUME NEW t \in Thread, SecondPause(t)
      PROVE  StaysInv'
  BY <1>44 DEF SecondPause
<1>45. ASSUME NEW t \in Thread, FinishGc(t)
      PROVE  StaysInv'
  BY <1>45, FinishIsExcused DEF FinishGc, AfterGc
<1>46. ASSUME NEW t \in Thread, ParkDaemon(t)
      PROVE  StaysInv'
  BY <1>46 DEF ParkDaemon
<1>47. ASSUME NEW t \in Thread, UnlockHeap(t)
      PROVE  StaysInv'
  BY <1>47 DEF UnlockHeap
<1>48. ASSUME NEW t \in Thread, NEW k \in Kind, StartHeapOp(t, k)
      PROVE  StaysInv'
  BY <1>48 DEF StartHeapOp
<1>49. ASSUME NEW t \in Thread, EnqueueReturns(t)
      PROVE  StaysInv'
  BY <1>49 DEF EnqueueReturns, AfterGc
<1> HIDE DEF GcInv, StaysInv, Stays, Excused
<1> QED
  BY <1>1, <1>2, <1>3, <1>4, <1>5, <1>6, <1>7, <1>8, <1>9, <1>10, <1>11, <1>12, <1>13,
     <1>14, <1>15, <1>16, <1>17, <1>18, <1>19, <1>20, <1>21, <1>22, <1>23, <1>24, <1>25,
     <1>26, <1>27, <1>28, <1>29, <1>30, <1>31, <1>32, <1>33, <1>34, <1>35, <1>36, <1>37,
     <1>38, <1>39, <1>40, <1>41, <1>42, <1>43, <1>44, <1>45, <1>46, <1>47, <1>48, <1>49
     DEF GcNext, GcObliged, GcChosen, ProtocolStep, GcStep, CheckStep, SuspendAllStep,
         ResumeAllStep

\* With collections of every kind and any number of dumpers, a pause of a
\* collection finds nobody in managed code, and a dump only threads that come from
\* the end of a concurrent collection, with a request to stop: that end makes its
\* thread RUNNING without looking at suspendCount.
THEOREM CollectionsStopTheWorld == GcSpec => []OnlyCollectorsReturn
<1>1. GcInit => StaysInv
  BY DEF GcInit, StaysInv, StopPoint
<1>2. GcInv /\ StaysInv => OnlyCollectorsReturn
  <2> SUFFICES ASSUME GcInv, StaysInv, NEW s \in Thread, WorldStoppedBy(s),
                      NEW t \in Others(s), pc[t] = "run"
               PROVE  pause[s] = 0 /\ t \in Explicit \cup Daemon /\ suspendCount[t] # 0
    BY DEF OnlyCollectorsReturn
  <2>1. pc[s] \in StopPoint
    BY DEF GcInv, GcCtlInv, GcTypeOK, GcStopInv, StopperFree, WorldStoppedBy, Where,
           StopPoint,
           GcReturnPoint, ReturnPoint
  <2>2. ~Stays(t)
    BY DEF Stays, ScanPoint, SweepPoint
  <2>3. suspendCount[t] # 0
    BY <2>1 DEF GcInv, GcStopInv, AskedInv
  <2> QED
    BY <2>1, <2>2, <2>3 DEF StaysInv, Excused
<1>3. GcInv /\ StaysInv /\ [GcNext]_allVars => StaysInv'
  BY StaysStep
<1> QED
  BY <1>1, <1>2, <1>3, GcInvariant, PTL DEF GcSpec

\* So a dump, too, stops everybody else where only the thread that dumps collects
\* concurrently, as where nobody does.
THEOREM LoneCollectorsStopTheWorld ==
  (\A d \in Dumper : \A e \in Explicit \cup Daemon : d = e) => (GcSpec => []WorldStopped)
<1> SUFFICES ASSUME \A d \in Dumper : \A e \in Explicit \cup Daemon : d = e
             PROVE  GcSpec => []WorldStopped
  OBVIOUS
<1>1. GcInv /\ OnlyCollectorsReturn => WorldStopped
  <2> SUFFICES ASSUME GcInv, OnlyCollectorsReturn, NEW s \in Thread, WorldStoppedBy(s),
                      NEW t \in Others(s), pc[t] = "run"
               PROVE  FALSE
    BY DEF WorldStopped
  <2>1. pause[s] = 0 /\ t \in Explicit \cup Daemon
    BY DEF OnlyCollectorsReturn
  <2>2. s \in Dumper
    BY <2>1 DEF GcInv, GcCtlInv, RoleInv, WorldStoppedBy, ResumePoint
  <2> QED
    BY <2>1, <2>2 DEF Others
<1> QED
  BY <1>1, GcInvariant, CollectionsStopTheWorld, PTL

-----------------------------------------------------------------------------
(* The pauses of collections implement StopTheWorld, next to dumps.        *)

PausedManaged == {t \in Thread : pc[t] = "run"}
Pauser == IF \E s \in Thread : PausedBy(s)
          THEN CHOOSE s \in Thread : PausedBy(s) ELSE NoThread

\* As WorldStep of ThreadSuspendProofs, for the pauses only.
PauseStep(t) ==
  /\ \A x \in Others(t) : /\ pc'[x] = "run" <=> pc[x] = "run"
                          /\ PausedBy(x)' <=> PausedBy(x)
  /\ \/ PausedBy(t)' <=> PausedBy(t)
     \/ pc[t] # "run" /\ pc'[t] # "run"

\* A step of the collector's, too, is seen by its clients as one thing at a time.
LEMMA PauseSteps ==
  ASSUME GcTypeOK, GcNext
  PROVE  \E t \in Thread : PauseStep(t)
<1> USE DEF GcTypeOK, PauseStep, PausedBy, WorldStoppedBy, Where, At, Goto, CallCheck,
            BackToRunning,
            GcPoint, GcReturnPoint, Point, ReturnPoint, Others, threadVars, savedVars,
            countVars, lockVars, ctlVars, gcVars
<1>2. ASSUME NEW t \in Thread, LockThreadSuspend(t, "susLock", "susVm"), UNCHANGED gcVars
      PROVE  PauseStep(t)
  BY <1>2 DEF LockThreadSuspend
<1>3. ASSUME NEW t \in Thread, TakeVmLocks(t), UNCHANGED gcVars
      PROVE  PauseStep(t)
  BY <1>3 DEF TakeVmLocks
<1>4. ASSUME NEW t \in Thread, YieldToSuspend(t), UNCHANGED gcVars
      PROVE  PauseStep(t)
  BY <1>4 DEF YieldToSuspend
<1>5. ASSUME NEW t \in Thread, LockThreadSuspend(t, "susRelock", "susSelf"),
            UNCHANGED gcVars
      PROVE  PauseStep(t)
  BY <1>5 DEF LockThreadSuspend
<1>6. ASSUME NEW t \in Thread, LockThreadList(t, "susList", "susListWait", "susCount"),
            UNCHANGED gcVars
      PROVE  PauseStep(t)
  BY <1>6 DEF LockThreadList
<1>7. ASSUME NEW t \in Thread, GotThreadList(t, "susListWait", "susCount"), UNCHANGED gcVars
      PROVE  PauseStep(t)
  BY <1>7 DEF GotThreadList
<1>8. ASSUME NEW t \in Thread, SuspendOthers(t), UNCHANGED gcVars
      PROVE  PauseStep(t)
  BY <1>8 DEF SuspendOthers, AddToSuspendCounts
<1>9. ASSUME NEW t \in Thread, SeeStopped(t), UNCHANGED gcVars
      PROVE  PauseStep(t)
  BY <1>9 DEF SeeStopped
<1>10. ASSUME NEW t \in Thread, LockThreadSuspend(t, "resLock", "resList"), UNCHANGED gcVars
      PROVE  PauseStep(t)
  BY <1>10 DEF LockThreadSuspend
<1>11. ASSUME NEW t \in Thread, LockThreadList(t, "resList", "resListWait", "resCount"),
            UNCHANGED gcVars
      PROVE  PauseStep(t)
  BY <1>11 DEF LockThreadList
<1>12. ASSUME NEW t \in Thread, GotThreadList(t, "resListWait", "resCount"),
            UNCHANGED gcVars
      PROVE  PauseStep(t)
  BY <1>12 DEF GotThreadList
<1>13. ASSUME NEW t \in Thread, ResumeOthers(t), UNCHANGED gcVars
      PROVE  PauseStep(t)
  BY <1>13 DEF ResumeOthers, TakeFromSuspendCounts
<1>14. ASSUME NEW t \in Thread, UnlockThreadSuspend(t), UNCHANGED gcVars
      PROVE  PauseStep(t)
  BY <1>14 DEF UnlockThreadSuspend
<1>15. ASSUME NEW t \in Thread, pause[t] = 0, Inspect(t), UNCHANGED gcVars
      PROVE  PauseStep(t)
  BY <1>15 DEF Inspect
<1>16. ASSUME NEW t \in Thread, pause[t] = 0, WakeOthers(t, "run"), UNCHANGED gcVars
      PROVE  PauseStep(t)
  BY <1>16 DEF WakeOthers
<1>17. ASSUME NEW t \in Thread, CheckSuspendPending(t), UNCHANGED gcVars
      PROVE  PauseStep(t)
  BY <1>17 DEF CheckSuspendPending
<1>18. ASSUME NEW t \in Thread, SafePoint(t), UNCHANGED gcVars
      PROVE  PauseStep(t)
  BY <1>18 DEF SafePoint
<1>19. ASSUME NEW t \in Thread, FullSuspendCheck(t), UNCHANGED gcVars
      PROVE  PauseStep(t)
  BY <1>19 DEF FullSuspendCheck
<1>20. ASSUME NEW t \in Thread, WakeUp(t), UNCHANGED gcVars
      PROVE  PauseStep(t)
  BY <1>20 DEF WakeUp
<1>21. ASSUME NEW t \in Thread, TakeVmLock(t), UNCHANGED gcVars
      PROVE  PauseStep(t)
  BY <1>21 DEF TakeVmLock
<1>22. ASSUME NEW t \in Thread, DropVmLock(t), UNCHANGED gcVars
      PROVE  PauseStep(t)
  BY <1>22 DEF DropVmLock
<1>23. ASSUME NEW t \in Thread, EnterNative(t), UNCHANGED gcVars
      PROVE  PauseStep(t)
  BY <1>23 DEF EnterNative
<1>24. ASSUME NEW t \in Thread, LeaveNative(t), t \in Daemon => kind[t] # "none",
            UNCHANGED gcVars
      PROVE  PauseStep(t)
  BY <1>24 DEF LeaveNative
<1>25. ASSUME NEW t \in Thread, WantVmLock(t), kind[t] = "none", UNCHANGED gcVars
      PROVE  PauseStep(t)
  BY <1>25 DEF WantVmLock
<1>26. ASSUME NEW t \in Thread, StartSuspendAll(t), kind[t] = "none", UNCHANGED gcVars
      PROVE  PauseStep(t)
  BY <1>26 DEF StartSuspendAll
<1>27. ASSUME NEW t \in Thread, LockHeap(t, "hpLock", "hpBlocked", "hpHave")
      PROVE  PauseStep(t)
  BY <1>27 DEF LockHeap
<1>28. ASSUME NEW t \in Thread, GotHeap(t, "hpBlocked", "hpHave")
      PROVE  PauseStep(t)
  BY <1>28 DEF GotHeap, BackToRunning
<1>29. ASSUME NEW t \in Thread, LockHeap(t, "gcScan", "gcScanBlocked", "gcRelocked")
      PROVE  PauseStep(t)
  BY <1>29 DEF LockHeap
<1>30. ASSUME NEW t \in Thread, GotHeap(t, "gcScanBlocked", "gcRelocked")
      PROVE  PauseStep(t)
  BY <1>30 DEF GotHeap, BackToRunning
<1>31. ASSUME NEW t \in Thread, LockHeap(t, "gcSweep", "gcSweepBlocked", "gcFinish")
      PROVE  PauseStep(t)
  BY <1>31 DEF LockHeap
<1>32. ASSUME NEW t \in Thread, GotHeap(t, "gcSweepBlocked", "gcFinish")
      PROVE  PauseStep(t)
  BY <1>32 DEF GotHeap, BackToRunning
<1>33. ASSUME NEW t \in Thread, AllocSucceeds(t)
      PROVE  PauseStep(t)
  BY <1>33 DEF AllocSucceeds
<1>34. ASSUME NEW t \in Thread, AllocCollects(t)
      PROVE  PauseStep(t)
  BY <1>34 DEF AllocCollects
<1>35. ASSUME NEW t \in Thread, DaemonCollects(t)
      PROVE  PauseStep(t)
  BY <1>35 DEF DaemonCollects, BackToRunning
<1>36. ASSUME NEW t \in Thread, StartWaitForGc(t)
      PROVE  PauseStep(t)
  BY <1>36 DEF StartWaitForGc
<1>37. ASSUME NEW t \in Thread, WaitForConcurrentGc(t)
      PROVE  PauseStep(t)
  BY <1>37 DEF WaitForConcurrentGc, BackToRunning
<1>38. ASSUME NEW t \in Thread, GcCondWakes(t)
      PROVE  PauseStep(t)
  BY <1>38 DEF GcCondWakes
<1>39. ASSUME NEW t \in Thread, GcWaited(t)
      PROVE  PauseStep(t)
  BY <1>39 DEF GcWaited
<1>40. ASSUME NEW t \in Thread, BeginGc(t)
      PROVE  PauseStep(t)
  BY <1>40 DEF BeginGc
<1>41. ASSUME NEW t \in Thread, ConcurrentPause(t)
      PROVE  PauseStep(t)
  BY <1>41 DEF ConcurrentPause
<1>42. ASSUME NEW t \in Thread, ForegroundPause(t)
      PROVE  PauseStep(t)
  BY <1>42 DEF ForegroundPause
<1>43. ASSUME NEW t \in Thread, AfterPause(t)
      PROVE  PauseStep(t)
  BY <1>43 DEF AfterPause, WakeOthers, AfterGc
<1>44. ASSUME NEW t \in Thread, SecondPause(t)
      PROVE  PauseStep(t)
  BY <1>44 DEF SecondPause
<1>45. ASSUME NEW t \in Thread, FinishGc(t)
      PROVE  PauseStep(t)
  BY <1>45 DEF FinishGc, AfterGc
<1>46. ASSUME NEW t \in Thread, ParkDaemon(t)
      PROVE  PauseStep(t)
  BY <1>46 DEF ParkDaemon
<1>47. ASSUME NEW t \in Thread, UnlockHeap(t)
      PROVE  PauseStep(t)
  BY <1>47 DEF UnlockHeap
<1>48. ASSUME NEW t \in Thread, NEW k \in Kind, StartHeapOp(t, k)
      PROVE  PauseStep(t)
  BY <1>48 DEF StartHeapOp
<1>49. ASSUME NEW t \in Thread, EnqueueReturns(t)
      PROVE  PauseStep(t)
  BY <1>49 DEF EnqueueReturns, AfterGc
<1> HIDE DEF PauseStep
<1> QED
  BY <1>2, <1>3, <1>4, <1>5, <1>6, <1>7, <1>8, <1>9, <1>10, <1>11, <1>12, <1>13, <1>14,
     <1>15, <1>16, <1>17, <1>18, <1>19, <1>20, <1>21, <1>22, <1>23, <1>24, <1>25, <1>26,
     <1>27, <1>28, <1>29, <1>30, <1>31, <1>32, <1>33, <1>34, <1>35, <1>36, <1>37, <1>38,
     <1>39, <1>40, <1>41, <1>42, <1>43, <1>44, <1>45, <1>46, <1>47, <1>48, <1>49
     DEF GcNext, GcObliged, GcChosen, ProtocolStep, GcStep, CheckStep, SuspendAllStep,
         ResumeAllStep

\* The world is stopped for one collection at a time, and that one is Pauser's.
PauserIsOne ==
  /\ \A s \in Thread : PausedBy(s) => Pauser = s
  /\ (\A s \in Thread : ~PausedBy(s)) => Pauser = NoThread

LEMMA OnePauser == GcInv => PauserIsOne
<1> SUFFICES ASSUME GcInv PROVE PauserIsOne
  OBVIOUS
<1>1. ASSUME NEW s \in Thread, PausedBy(s), NEW t \in Thread, PausedBy(t)
      PROVE  s = t
  BY <1>1 DEF PausedBy, GcInv, OneCollection, GcCtlInv, GcTypeOK, Others
<1> QED
  BY <1>1 DEF Pauser, PauserIsOne

\* While a collection has the world stopped nobody is in managed code.
PausesExclude == \A s \in Thread : PausedBy(s) => \A t \in Thread : pc[t] # "run"

\* What the abstract steps and variables are.
LEMMA PausingIs ==
  /\ Pausing!Init <=> PausedManaged \subseteq Thread /\ Pauser = NoThread
  /\ \A t \in Thread :
       /\ Pausing!Enter(t) <=> /\ Pauser = NoThread /\ t \notin PausedManaged
                               /\ PausedManaged' = PausedManaged \cup {t}
                               /\ Pauser' = Pauser
       /\ Pausing!Leave(t) <=> /\ t \in PausedManaged
                               /\ PausedManaged' = PausedManaged \ {t}
                               /\ Pauser' = Pauser
       /\ Pausing!Stop(t) <=> /\ Pauser = NoThread /\ PausedManaged = {}
                              /\ Pauser' = t /\ PausedManaged' = PausedManaged
       /\ Pausing!Resume(t) <=> /\ Pauser = t /\ Pauser' = NoThread
                                /\ PausedManaged' = PausedManaged
BY DEF Pausing!Init, Pausing!Enter, Pausing!Leave, Pausing!Stop, Pausing!Resume,
       PausedManaged, Pauser

\* A step maps to a step of StopTheWorld or to none.
LEMMA PauseStepImplements ==
  ASSUME PauserIsOne, PauserIsOne', PausesExclude, PausesExclude',
         NEW t \in Thread, PauseStep(t)
  PROVE  \/ Pausing!Enter(t) \/ Pausing!Leave(t) \/ Pausing!Stop(t) \/ Pausing!Resume(t)
         \/ PausedManaged' = PausedManaged /\ Pauser' = Pauser
<1>1. /\ \A s \in Thread : PausedBy(s) => Pauser = s
      /\ (\A s \in Thread : ~PausedBy(s)) => Pauser = NoThread
      /\ \A s \in Thread : PausedBy(s) => PausedManaged = {}
  BY DEF PauserIsOne, PausesExclude, PausedManaged
<1>2. /\ \A s \in Thread : PausedBy(s)' => Pauser' = s
      /\ (\A s \in Thread : ~PausedBy(s)') => Pauser' = NoThread
      /\ \A s \in Thread : PausedBy(s)' => PausedManaged' = {}
  BY DEF PauserIsOne, PausesExclude, PausedManaged
<1>3. \A x \in Thread : x # t => /\ x \in PausedManaged' <=> x \in PausedManaged
                                 /\ PausedBy(x)' <=> PausedBy(x)
  BY DEF PauseStep, Others, PausedManaged
<1>4. PausedManaged \subseteq Thread /\ PausedManaged' \subseteq Thread
  BY DEF PausedManaged
<1>5. (t \in PausedManaged' <=> t \in PausedManaged) => PausedManaged' = PausedManaged
  BY <1>3, <1>4
<1>6. (PausedBy(t)' <=> PausedBy(t)) => Pauser' = Pauser
  BY <1>1, <1>2, <1>3
<1>7. CASE (PausedBy(t)' <=> PausedBy(t)) /\ (t \in PausedManaged' <=> t \in PausedManaged)
  BY <1>5, <1>6, <1>7
<1>8. CASE (PausedBy(t)' <=> PausedBy(t)) /\ t \in PausedManaged /\ t \notin PausedManaged'
  <2>1. PausedManaged' = PausedManaged \ {t}
    BY <1>3, <1>4, <1>8
  <2>2. Pausing!Leave(t)
    BY <1>6, <1>8, <2>1, PausingIs
  <2> QED
    BY <2>2
<1>9. CASE (PausedBy(t)' <=> PausedBy(t)) /\ t \notin PausedManaged /\ t \in PausedManaged'
  <2>1. PausedManaged' = PausedManaged \cup {t}
    BY <1>3, <1>4, <1>9
  <2>2. Pauser' = NoThread
    BY <1>2, <1>9
  <2>3. Pausing!Enter(t)
    BY <1>6, <1>9, <2>1, <2>2, PausingIs
  <2> QED
    BY <2>3
<1>10. CASE ~PausedBy(t) /\ PausedBy(t)' /\ pc[t] # "run" /\ pc'[t] # "run"
  <2>1. PausedManaged' = PausedManaged /\ PausedManaged' = {}
    BY <1>2, <1>5, <1>10 DEF PausedManaged
  <2>2. \A s \in Thread : ~PausedBy(s)
    BY <1>2, <1>3, <1>10
  <2>3. Pauser = NoThread /\ Pauser' = t
    BY <1>1, <1>2, <1>10, <2>2
  <2>4. Pausing!Stop(t)
    BY <2>1, <2>3, PausingIs
  <2> QED
    BY <2>4
<1>11. CASE PausedBy(t) /\ ~PausedBy(t)' /\ pc[t] # "run" /\ pc'[t] # "run"
  <2>1. PausedManaged' = PausedManaged
    BY <1>5, <1>11 DEF PausedManaged
  <2>2. \A s \in Thread : ~PausedBy(s)'
    BY <1>1, <1>3, <1>11
  <2>3. Pauser = t /\ Pauser' = NoThread
    BY <1>1, <1>2, <1>11, <2>2
  <2>4. Pausing!Resume(t)
    BY <2>1, <2>3, PausingIs
  <2> QED
    BY <2>4
<1> QED
  BY <1>7, <1>8, <1>9, <1>10, <1>11 DEF PauseStep

\* So the pauses of the collector, with threads that dump, allocate, block on the
\* heap lock and go in and out of native code between them, keep what the notes
\* at the top of vm/Thread.cpp promise: every step stops the world for a pause
\* when nobody runs, lets it go on, lets one thread into managed code while no
\* pause lasts, or one out, or does none of that.
THEOREM CollectionsImplementStop == GcSpec => PausesStopTheWorld
<1>1. GcInit => Pausing!Init
  <2> SUFFICES ASSUME GcInit PROVE PausedManaged \subseteq Thread /\ Pauser = NoThread
    BY PausingIs
  <2>1. \A s \in Thread : ~PausedBy(s)
    BY DEF GcInit, PausedBy
  <2> QED
    BY <2>1 DEF PausedManaged, Pauser
<1>2. GcInv /\ OnlyCollectorsReturn => PauserIsOne /\ PausesExclude
  <2> SUFFICES ASSUME GcInv, OnlyCollectorsReturn PROVE PausesExclude
    BY OnePauser
  <2> SUFFICES ASSUME NEW s \in Thread, PausedBy(s), NEW t \in Thread, pc[t] = "run"
               PROVE  FALSE
    BY DEF PausesExclude
  <2>1. pause[s] > 0 /\ WorldStoppedBy(s) /\ pause[s] # 0
    BY DEF PausedBy, GcInv, GcCtlInv, GcTypeOK
  <2>2. CASE t = s
    BY <2>1, <2>2 DEF WorldStoppedBy, Where
  <2>3. CASE t # s
    BY <2>1, <2>3 DEF OnlyCollectorsReturn, Others
  <2> QED
    BY <2>2, <2>3
<1>3. GcInv /\ PauserIsOne /\ PausesExclude /\ PauserIsOne' /\ PausesExclude' /\ [GcNext]_allVars
        => [Pausing!Next]_<<{t \in Thread : pc[t] = "run"},
                           IF \E s \in Thread : PausedBy(s)
                           THEN CHOOSE s \in Thread : PausedBy(s) ELSE NoThread>>
  <2> SUFFICES ASSUME GcInv, PauserIsOne, PausesExclude, PauserIsOne', PausesExclude',
                      [GcNext]_allVars
               PROVE  Pausing!Next \/ (PausedManaged' = PausedManaged /\ Pauser' = Pauser)
    BY DEF PausedManaged, Pauser
  <2>1. CASE GcNext
    <3>1. GcTypeOK
      BY DEF GcInv, GcCtlInv
    <3>2. PICK t \in Thread : PauseStep(t)
      BY <2>1, <3>1, PauseSteps
    <3> QED
      BY <3>2, PauseStepImplements DEF Pausing!Next
  <2>2. CASE UNCHANGED allVars
    <3>1. UNCHANGED <<pc, ret, pause>>
      BY <2>2 DEF allVars, vars, ctlVars, gcVars
    <3> QED
      BY <3>1 DEF PausedManaged, Pauser, PausedBy, WorldStoppedBy, Where
  <2> QED
    BY <2>1, <2>2
<1> QED
  BY <1>1, <1>2, <1>3, GcInvariant, CollectionsStopTheWorld, PTL
     DEF GcSpec, PausesStopTheWorld, Pausing!Spec

=============================================================================
