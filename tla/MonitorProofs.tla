--------------------------- MODULE MonitorProofs ---------------------------
(***************************************************************************)
(* Proofs about module Monitor: mutual exclusion and the lock count, for   *)
(* any number of threads, any nesting and any width of the count, and what *)
(* becomes of an interrupt.                                                *)
(***************************************************************************)
EXTENDS Monitor, TLAPS

\* The mutex, the owner and the count of a lock word agree at the start.
LEMMA MonitorStart == Init => MonitorInv
<1> USE MonitorAssumption DEF MonitorAssumption
<1> SUFFICES ASSUME Init PROVE MonitorInv
  OBVIOUS
<1>0. 0 \in 0..(CountMask - 1)
  OBVIOUS
<1>1. LockTypeOK
  <2>1. fat \in BOOLEAN /\ thinCount \in 0..(CountMask - 1) /\ count \in Nat
    BY <1>0 DEF Init
  <2>2. /\ thinOwner \in Thread \cup {NoThread}
        /\ owner \in Thread \cup {NoThread} /\ mutex \in Thread \cup {NoThread}
    BY DEF Init
  <2>3. /\ pc \in [Thread -> Point]
        /\ saved \in [Thread -> Nat] /\ held \in [Thread -> Nat]
    BY DEF Init, Point
  <2> QED
    BY <2>1, <2>2, <2>3 DEF LockTypeOK
<1>2. ShapeInv /\ OwnerInv /\ PointInv
  BY
  DEF Init, ShapeInv, OwnerInv, PointInv, Inside, InMonitor, HoldsLock, OwnsThin, OwnsFat,
         WaitPoint
<1> QED
  BY <1>1, <1>2 DEF MonitorInv

\* Every step keeps the types of the lock.
LEMMA LockTypeStep == MonitorInv /\ [Next]_vars => LockTypeOK'
<1> USE MonitorAssumption DEF MonitorAssumption
<1> SUFFICES ASSUME MonitorInv, [Next]_vars PROVE LockTypeOK'
  OBVIOUS
<1>t. LockTypeOK
  BY DEF MonitorInv
<1>h. \A t \in Thread : pc[t] = "run" /\ HoldsLock(t) => held[t] > 0
  BY <1>t DEF MonitorInv, OwnerInv, Inside, InMonitor, LockTypeOK
<1> USE <1>t
<1> USE DEF LockTypeOK, Point, WaitPoint, vars, lockVars, thinVars, fatVars, waitVars, callVars
<1>u. CASE UNCHANGED vars
  BY <1>u
<1>1. ASSUME NEW t \in Thread, StartLock(t) PROVE LockTypeOK'
  BY <1>1 DEF At, Goto, StartLock
<1>2. ASSUME NEW t \in Thread, LockAgain(t) PROVE LockTypeOK'
  <2>1. CASE thinCount + 1 = CountMask
    BY <1>2, <2>1
    DEF At, LockAgain, OwnsThin, InflateMonitor, DropThin, Entered, Returns, Goto
  <2>2. CASE thinCount + 1 # CountMask
    <3>1. thinCount' \in 0..(CountMask - 1) /\ UNCHANGED <<fat, thinOwner, fatVars>>
      BY <1>2, <2>2 DEF LockAgain
    <3> QED
      BY <1>2, <3>1 DEF At, LockAgain, Entered, Returns, Goto
  <2> QED
    BY <2>1, <2>2
<1>3. ASSUME NEW t \in Thread, ReadThin(t) PROVE LockTypeOK'
  BY <1>3 DEF At, Goto, ReadThin
<1>4. ASSUME NEW t \in Thread, AcquireThin(t) PROVE LockTypeOK'
  BY <1>4 DEF At, Goto, AcquireThin, InstallOwner, CasFails, Entered, Returns
<1>5. ASSUME NEW t \in Thread, Spin(t) PROVE LockTypeOK'
  BY <1>5 DEF At, Goto, Spin
<1>6. ASSUME NEW t \in Thread, SpinAcquire(t) PROVE LockTypeOK'
  BY <1>6 DEF At, Goto, SpinAcquire, InstallOwner, CasFails
<1>7. ASSUME NEW t \in Thread, Fatten(t) PROVE LockTypeOK'
  BY <1>7 DEF At, Goto, Fatten, InflateMonitor, DropThin, Entered, Returns
<1>8. ASSUME NEW t \in Thread, LockMonitor(t) PROVE LockTypeOK'
  <2>1. CASE owner = t
    BY <1>8, <2>1 DEF At, LockMonitor, TakeMutex, Entered, Returns, Goto
  <2>2. CASE owner # t /\ TakeMutex(t) /\ Entered(t)
    BY <1>8, <2>2 DEF At, LockMonitor, TakeMutex, Entered, Returns, Goto
  <2>3. CASE owner # t /\ Goto(t, "blocked") /\ UNCHANGED <<lockVars, held>>
    BY <1>8, <2>3 DEF At, LockMonitor, Goto
  <2> QED
    BY <1>8, <2>1, <2>2, <2>3 DEF LockMonitor
<1>9. ASSUME NEW t \in Thread, GotMutex(t) PROVE LockTypeOK'
  BY <1>9 DEF At, Goto, GotMutex, TakeMutex, Entered, Returns
<1>10. ASSUME NEW t \in Thread, UnlockThin(t) PROVE LockTypeOK'
  BY <1>10, <1>h DEF At, Goto, UnlockThin, HoldsLock, OwnsThin, Left, Returns
<1>11. ASSUME NEW t \in Thread, UnlockMonitor(t) PROVE LockTypeOK'
  BY <1>11, <1>h DEF At, Goto, UnlockMonitor, HoldsLock, OwnsFat, Left, Returns
<1>12. ASSUME NEW t \in Thread, UnlockFails(t) PROVE LockTypeOK'
  BY <1>12 DEF At, Goto, UnlockFails, HoldsLock, OwnsThin, OwnsFat, Returns
<1>13. ASSUME NEW t \in Thread, ObjectWait(t) PROVE LockTypeOK'
  BY <1>13 DEF At, Goto, ObjectWait, HoldsLock, OwnsThin, OwnsFat, DropThin
<1>14. ASSUME NEW t \in Thread, PrepareWait(t) PROVE LockTypeOK'
  BY <1>14 DEF At, Goto, PrepareWait
<1>15. ASSUME NEW t \in Thread, CondWakes(t) PROVE LockTypeOK'
  BY <1>15 DEF At, Goto, CondWakes
<1>16. ASSUME NEW t \in Thread, Relock(t) PROVE LockTypeOK'
  BY <1>16 DEF At, Goto, Relock, TakeMutex
<1>17. ASSUME NEW t \in Thread, RestoreMonitor(t) PROVE LockTypeOK'
  BY <1>17 DEF At, Goto, RestoreMonitor
<1>18. ASSUME NEW t \in Thread, WaitReturns(t) PROVE LockTypeOK'
  BY <1>18 DEF At, Goto, WaitReturns, Returns
<1>19. ASSUME NEW t \in Thread, WaitOutOfRange(t) PROVE LockTypeOK'
  <2>1. CASE OwnsThin(t) /\ InflateMonitor(t, thinCount)
    BY <1>19, <2>1
    DEF At, Goto, WaitOutOfRange, OwnsThin, OwnsFat, InflateMonitor, DropThin, Returns
  <2>2. CASE UNCHANGED lockVars
    BY <1>19, <2>2 DEF At, Goto, WaitOutOfRange, Returns
  <2> QED
    BY <1>19, <2>1, <2>2 DEF WaitOutOfRange
<1>20. ASSUME NEW t \in Thread, IllegalCall(t) PROVE LockTypeOK'
  BY <1>20 DEF At, Goto, IllegalCall, HoldsLock, OwnsThin, OwnsFat, Returns
<1>21. ASSUME NEW t \in Thread, NotifyThin(t) PROVE LockTypeOK'
  BY <1>21 DEF At, Goto, NotifyThin, OwnsThin, Returns
<1>22. ASSUME NEW t \in Thread, StartNotify(t) PROVE LockTypeOK'
  BY <1>22 DEF At, Goto, StartNotify, OwnsFat
<1>23. ASSUME NEW t \in Thread, NotifyStep(t) PROVE LockTypeOK'
  BY <1>23 DEF At, Goto, NotifyStep, Signal, Returns
<1>24. ASSUME NEW t \in Thread, NotifyAllStep(t) PROVE LockTypeOK'
  BY <1>24 DEF At, Goto, NotifyAllStep, Signal, Returns
<1>25. ASSUME NEW t \in Thread, NEW u \in Thread, ThreadInterrupt(t, u) PROVE LockTypeOK'
  BY <1>25 DEF At, Goto, ThreadInterrupt, Signal, Returns
<1>26. ASSUME NEW t \in Thread, QueryInterrupted(t) PROVE LockTypeOK'
  BY <1>26 DEF At, Goto, QueryInterrupted
<1>27. ASSUME NEW t \in Thread, ClearInterrupted(t) PROVE LockTypeOK'
  BY <1>27 DEF At, Goto, ClearInterrupted, Returns
<1> QED
  BY <1>u, <1>1, <1>2, <1>3, <1>4, <1>5, <1>6, <1>7, <1>8, <1>9, <1>10, <1>11, <1>12,
     <1>13, <1>14, <1>15, <1>16, <1>17, <1>18, <1>19, <1>20, <1>21, <1>22, <1>23, <1>24,
     <1>25, <1>26, <1>27
  DEF Next, Continue, Call, GetMutex, Unlock

\* Every step keeps the invariant: the lock word, the mutex and the point
\* each thread has got to stay in agreement.
LEMMA MonitorStep == MonitorInv /\ [Next]_vars => MonitorInv'
<1> USE MonitorAssumption DEF MonitorAssumption
<1> SUFFICES ASSUME MonitorInv, [Next]_vars PROVE ShapeInv' /\ OwnerInv' /\ PointInv'
  BY LockTypeStep DEF MonitorInv
<1>t. LockTypeOK /\ LockTypeOK'
  BY LockTypeStep DEF MonitorInv
<1>i. ShapeInv /\ OwnerInv /\ PointInv
  BY DEF MonitorInv
<1> USE <1>t, <1>i
<1> USE DEF LockTypeOK, Point, WaitPoint, ShapeInv, OwnerInv, PointInv, Inside, InMonitor,
            Holds, HoldsLock, OwnsThin, OwnsFat
<1> USE DEF vars, lockVars, thinVars, fatVars, waitVars, callVars
<1>u. CASE UNCHANGED vars
  BY <1>u
<1>1. ASSUME NEW t \in Thread, StartLock(t) PROVE ShapeInv' /\ OwnerInv' /\ PointInv'
  BY <1>1, SMTT(30) DEF At, Goto, StartLock
<1>2. ASSUME NEW t \in Thread, LockAgain(t) PROVE ShapeInv' /\ OwnerInv' /\ PointInv'
  <2>1. ShapeInv'
    BY <1>2, SMTT(30) DEF At, Goto, LockAgain, InflateMonitor, DropThin, Entered, Returns
  <2>2. OwnerInv'
    BY <1>2, SMTT(30) DEF At, Goto, LockAgain, InflateMonitor, DropThin, Entered, Returns
  <2>3. PointInv'
    BY <1>2, SMTT(30) DEF At, Goto, LockAgain, InflateMonitor, DropThin, Entered, Returns
  <2> QED
    BY <2>1, <2>2, <2>3
<1>3. ASSUME NEW t \in Thread, ReadThin(t) PROVE ShapeInv' /\ OwnerInv' /\ PointInv'
  BY <1>3, SMTT(30) DEF At, Goto, ReadThin
<1>4. ASSUME NEW t \in Thread, AcquireThin(t) PROVE ShapeInv' /\ OwnerInv' /\ PointInv'
  <2>1. ShapeInv'
    BY <1>4, SMTT(30) DEF At, Goto, AcquireThin, InstallOwner, CasFails, Entered, Returns
  <2>2. OwnerInv'
    BY <1>4, SMTT(30) DEF At, Goto, AcquireThin, InstallOwner, CasFails, Entered, Returns
  <2>3. PointInv'
    BY <1>4, SMTT(30) DEF At, Goto, AcquireThin, InstallOwner, CasFails, Entered, Returns
  <2> QED
    BY <2>1, <2>2, <2>3
<1>5. ASSUME NEW t \in Thread, Spin(t) PROVE ShapeInv' /\ OwnerInv' /\ PointInv'
  BY <1>5, SMTT(30) DEF At, Goto, Spin
<1>6. ASSUME NEW t \in Thread, SpinAcquire(t) PROVE ShapeInv' /\ OwnerInv' /\ PointInv'
  <2>1. ShapeInv'
    BY <1>6, SMTT(30) DEF At, Goto, SpinAcquire, InstallOwner, CasFails
  <2>2. OwnerInv'
    BY <1>6, SMTT(30) DEF At, Goto, SpinAcquire, InstallOwner, CasFails
  <2>3. PointInv'
    BY <1>6, SMTT(30) DEF At, Goto, SpinAcquire, InstallOwner, CasFails
  <2> QED
    BY <2>1, <2>2, <2>3
<1>7. ASSUME NEW t \in Thread, Fatten(t) PROVE ShapeInv' /\ OwnerInv' /\ PointInv'
  <2>1. ShapeInv'
    BY <1>7, SMTT(30) DEF At, Goto, Fatten, InflateMonitor, DropThin, Entered, Returns
  <2>2. OwnerInv'
    BY <1>7, SMTT(30) DEF At, Goto, Fatten, InflateMonitor, DropThin, Entered, Returns
  <2>3. PointInv'
    BY <1>7, SMTT(30) DEF At, Goto, Fatten, InflateMonitor, DropThin, Entered, Returns
  <2> QED
    BY <2>1, <2>2, <2>3
<1>8. ASSUME NEW t \in Thread, LockMonitor(t) PROVE ShapeInv' /\ OwnerInv' /\ PointInv'
  <2>1. CASE owner = t
    BY <1>8, <2>1, SMTT(30) DEF At, LockMonitor, Entered, Returns, TakeMutex, Goto
  <2>2. CASE owner # t /\ TakeMutex(t) /\ Entered(t)
    BY <1>8, <2>2, SMTT(30) DEF At, LockMonitor, Entered, Returns, TakeMutex, Goto
  <2>3. CASE owner # t /\ Goto(t, "blocked") /\ UNCHANGED <<lockVars, held>>
    <3>1. held[t] = 0
      BY <1>8, <2>3 DEF At, LockMonitor
    <3> QED
      BY <1>8, <2>3, <3>1, SMTT(30) DEF At, LockMonitor, Goto
  <2> QED
    BY <1>8, <2>1, <2>2, <2>3 DEF LockMonitor
<1>9. ASSUME NEW t \in Thread, GotMutex(t) PROVE ShapeInv' /\ OwnerInv' /\ PointInv'
  <2>1. ShapeInv'
    BY <1>9, SMTT(30) DEF At, Goto, GotMutex, TakeMutex, Entered, Returns
  <2>2. OwnerInv'
    BY <1>9, SMTT(30) DEF At, Goto, GotMutex, TakeMutex, Entered, Returns
  <2>3. PointInv'
    BY <1>9, SMTT(30) DEF At, Goto, GotMutex, TakeMutex, Entered, Returns
  <2> QED
    BY <2>1, <2>2, <2>3
<1>10. ASSUME NEW t \in Thread, UnlockThin(t) PROVE ShapeInv' /\ OwnerInv' /\ PointInv'
  <2>1. ShapeInv'
    BY <1>10, SMTT(30) DEF At, Goto, UnlockThin, Left, Returns
  <2>2. OwnerInv'
    BY <1>10, SMTT(30) DEF At, Goto, UnlockThin, Left, Returns
  <2>3. PointInv'
    BY <1>10, SMTT(30) DEF At, Goto, UnlockThin, Left, Returns
  <2> QED
    BY <2>1, <2>2, <2>3
<1>11. ASSUME NEW t \in Thread, UnlockMonitor(t) PROVE ShapeInv' /\ OwnerInv' /\ PointInv'
  <2>1. ShapeInv'
    BY <1>11, SMTT(30) DEF At, Goto, UnlockMonitor, Left, Returns
  <2>2. OwnerInv'
    BY <1>11, SMTT(30) DEF At, Goto, UnlockMonitor, Left, Returns
  <2>3. PointInv'
    BY <1>11, SMTT(30) DEF At, Goto, UnlockMonitor, Left, Returns
  <2> QED
    BY <2>1, <2>2, <2>3
<1>12. ASSUME NEW t \in Thread, UnlockFails(t) PROVE ShapeInv' /\ OwnerInv' /\ PointInv'
  BY <1>12, SMTT(30) DEF At, Goto, UnlockFails, Returns
<1>13. ASSUME NEW t \in Thread, ObjectWait(t) PROVE ShapeInv' /\ OwnerInv' /\ PointInv'
  <2>1. ShapeInv'
    BY <1>13, SMTT(30) DEF At, Goto, ObjectWait, DropThin
  <2>2. OwnerInv'
    BY <1>13, SMTT(30) DEF At, Goto, ObjectWait, DropThin
  <2>3. PointInv'
    BY <1>13, SMTT(30) DEF At, Goto, ObjectWait, DropThin
  <2> QED
    BY <2>1, <2>2, <2>3
<1>14. ASSUME NEW t \in Thread, PrepareWait(t) PROVE ShapeInv' /\ OwnerInv' /\ PointInv'
  <2>1. ShapeInv'
    BY <1>14, SMTT(30) DEF At, Goto, PrepareWait
  <2>2. OwnerInv'
    BY <1>14, SMTT(30) DEF At, Goto, PrepareWait
  <2>3. PointInv'
    BY <1>14, SMTT(30) DEF At, Goto, PrepareWait
  <2> QED
    BY <2>1, <2>2, <2>3
<1>15. ASSUME NEW t \in Thread, CondWakes(t) PROVE ShapeInv' /\ OwnerInv' /\ PointInv'
  BY <1>15, SMTT(30) DEF At, Goto, CondWakes
<1>16. ASSUME NEW t \in Thread, Relock(t) PROVE ShapeInv' /\ OwnerInv' /\ PointInv'
  <2>1. ShapeInv'
    BY <1>16, SMTT(30) DEF At, Goto, Relock, TakeMutex
  <2>2. OwnerInv'
    BY <1>16, SMTT(30) DEF At, Goto, Relock, TakeMutex
  <2>3. PointInv'
    BY <1>16, SMTT(30) DEF At, Goto, Relock, TakeMutex
  <2> QED
    BY <2>1, <2>2, <2>3
<1>17. ASSUME NEW t \in Thread, RestoreMonitor(t) PROVE ShapeInv' /\ OwnerInv' /\ PointInv'
  <2>1. ShapeInv'
    BY <1>17, SMTT(30) DEF At, Goto, RestoreMonitor
  <2>2. OwnerInv'
    BY <1>17, SMTT(30) DEF At, Goto, RestoreMonitor
  <2>3. PointInv'
    BY <1>17, SMTT(30) DEF At, Goto, RestoreMonitor
  <2> QED
    BY <2>1, <2>2, <2>3
<1>18. ASSUME NEW t \in Thread, WaitReturns(t) PROVE ShapeInv' /\ OwnerInv' /\ PointInv'
  BY <1>18, SMTT(30) DEF At, Goto, WaitReturns, Returns
<1>19. ASSUME NEW t \in Thread, WaitOutOfRange(t) PROVE ShapeInv' /\ OwnerInv' /\ PointInv'
  <2>1. ShapeInv'
    BY <1>19, SMTT(30) DEF At, Goto, WaitOutOfRange, InflateMonitor, DropThin, Returns
  <2>2. OwnerInv'
    BY <1>19, SMTT(30) DEF At, Goto, WaitOutOfRange, InflateMonitor, DropThin, Returns
  <2>3. PointInv'
    BY <1>19, SMTT(30) DEF At, Goto, WaitOutOfRange, InflateMonitor, DropThin, Returns
  <2> QED
    BY <2>1, <2>2, <2>3
<1>20. ASSUME NEW t \in Thread, IllegalCall(t) PROVE ShapeInv' /\ OwnerInv' /\ PointInv'
  BY <1>20, SMTT(30) DEF At, Goto, IllegalCall, Returns
<1>21. ASSUME NEW t \in Thread, NotifyThin(t) PROVE ShapeInv' /\ OwnerInv' /\ PointInv'
  BY <1>21, SMTT(30) DEF At, Goto, NotifyThin, Returns
<1>22. ASSUME NEW t \in Thread, StartNotify(t) PROVE ShapeInv' /\ OwnerInv' /\ PointInv'
  BY <1>22, SMTT(30) DEF At, Goto, StartNotify
<1>23. ASSUME NEW t \in Thread, NotifyStep(t) PROVE ShapeInv' /\ OwnerInv' /\ PointInv'
  BY <1>23, SMTT(30) DEF At, Goto, NotifyStep, Signal, Returns
<1>24. ASSUME NEW t \in Thread, NotifyAllStep(t) PROVE ShapeInv' /\ OwnerInv' /\ PointInv'
  BY <1>24, SMTT(30) DEF At, Goto, NotifyAllStep, Signal, Returns
<1>25. ASSUME NEW t \in Thread, NEW u \in Thread, ThreadInterrupt(t, u)
       PROVE ShapeInv' /\ OwnerInv' /\ PointInv'
  BY <1>25, SMTT(30) DEF At, Goto, ThreadInterrupt, Signal, Returns
<1>26. ASSUME NEW t \in Thread, QueryInterrupted(t)
       PROVE ShapeInv' /\ OwnerInv' /\ PointInv'
  BY <1>26, SMTT(30) DEF At, Goto, QueryInterrupted
<1>27. ASSUME NEW t \in Thread, ClearInterrupted(t)
       PROVE ShapeInv' /\ OwnerInv' /\ PointInv'
  BY <1>27, SMTT(30) DEF At, Goto, ClearInterrupted, Returns
<1> QED
  BY <1>u, <1>1, <1>2, <1>3, <1>4, <1>5, <1>6, <1>7, <1>8, <1>9, <1>10, <1>11, <1>12,
     <1>13, <1>14, <1>15, <1>16, <1>17, <1>18, <1>19, <1>20, <1>21, <1>22, <1>23, <1>24,
     <1>25, <1>26, <1>27
  DEF Next, Continue, Call, GetMutex, Unlock

\* The invariant holds in every reachable state, whatever the threads, the
\* nesting and the width of the count (dvmLockObject to dvmObjectNotifyAll).
THEOREM MonitorInvariant == Spec => []MonitorInv
BY MonitorStart, MonitorStep, PTL DEF Spec

\* Two threads are never in the monitor at once: thin or fat, during the
\* inflation and across waits, for any number of threads.
THEOREM MonitorIsExclusive == Spec => []MutualExclusion
<1>1. MonitorInv => MutualExclusion
  BY MonitorAssumption
  DEF MonitorAssumption, MonitorInv, LockTypeOK, ShapeInv, OwnerInv, Inside, HoldsLock,
     OwnsThin, OwnsFat,
      MutualExclusion
<1> QED
  BY <1>1, MonitorInvariant, PTL

\* The lock word counts the enters of the thread that owns it, whatever the
\* width of the count.
THEOREM MonitorCounts == Spec => []CountsEnters
<1>1. MonitorInv => CountsEnters
  BY MonitorAssumption
  DEF MonitorInv, LockTypeOK, OwnerInv, PointInv, Inside, InMonitor, WaitPoint, CountsEnters
<1> QED
  BY <1>1, MonitorInvariant, PTL

\* A thread asleep in wait has its waitMonitor set, so an interrupt finds it.
SleepInv ==
  /\ \A t \in Thread : pc[t] = "asleep" => t \in waitMonitor
  /\ InterruptWakes

\* A step leaves nobody asleep whom an interrupt could not find, or did find
\* and did not signal.
LEMMA SleepStep == MonitorInv /\ SleepInv /\ [Next]_vars => SleepInv'
<1> SUFFICES ASSUME LockTypeOK, SleepInv, [Next]_vars PROVE SleepInv'
  BY DEF MonitorInv
<1> USE DEF LockTypeOK, SleepInv, InterruptWakes, vars, waitVars, callVars
<1>u. CASE UNCHANGED vars
  BY <1>u
<1>1. ASSUME NEW t \in Thread, StartLock(t) PROVE SleepInv'
  BY <1>1 DEF At, Goto, StartLock
<1>2. ASSUME NEW t \in Thread, LockAgain(t) PROVE SleepInv'
  BY <1>2 DEF At, Goto, LockAgain, Entered, Returns
<1>3. ASSUME NEW t \in Thread, ReadThin(t) PROVE SleepInv'
  BY <1>3 DEF At, Goto, ReadThin
<1>4. ASSUME NEW t \in Thread, AcquireThin(t) PROVE SleepInv'
  BY <1>4 DEF At, Goto, AcquireThin, Entered, Returns
<1>5. ASSUME NEW t \in Thread, Spin(t) PROVE SleepInv'
  BY <1>5 DEF At, Goto, Spin
<1>6. ASSUME NEW t \in Thread, SpinAcquire(t) PROVE SleepInv'
  BY <1>6 DEF At, Goto, SpinAcquire
<1>7. ASSUME NEW t \in Thread, Fatten(t) PROVE SleepInv'
  BY <1>7 DEF At, Goto, Fatten, Entered, Returns
<1>8. ASSUME NEW t \in Thread, LockMonitor(t) PROVE SleepInv'
  BY <1>8 DEF At, Goto, LockMonitor, Entered, Returns
<1>9. ASSUME NEW t \in Thread, GotMutex(t) PROVE SleepInv'
  BY <1>9 DEF At, Goto, GotMutex, Entered, Returns
<1>10. ASSUME NEW t \in Thread, UnlockThin(t) PROVE SleepInv'
  BY <1>10 DEF At, Goto, UnlockThin, Left, Returns
<1>11. ASSUME NEW t \in Thread, UnlockMonitor(t) PROVE SleepInv'
  BY <1>11 DEF At, Goto, UnlockMonitor, Left, Returns
<1>12. ASSUME NEW t \in Thread, UnlockFails(t) PROVE SleepInv'
  BY <1>12 DEF At, Goto, UnlockFails, Returns
<1>13. ASSUME NEW t \in Thread, ObjectWait(t) PROVE SleepInv'
  BY <1>13 DEF At, Goto, ObjectWait
<1>14. ASSUME NEW t \in Thread, PrepareWait(t) PROVE SleepInv'
  BY <1>14 DEF At, Goto, PrepareWait
<1>15. ASSUME NEW t \in Thread, CondWakes(t) PROVE SleepInv'
  BY <1>15 DEF At, Goto, CondWakes
<1>16. ASSUME NEW t \in Thread, Relock(t) PROVE SleepInv'
  BY <1>16 DEF At, Goto, Relock
<1>17. ASSUME NEW t \in Thread, RestoreMonitor(t) PROVE SleepInv'
  BY <1>17 DEF At, Goto, RestoreMonitor
<1>18. ASSUME NEW t \in Thread, WaitReturns(t) PROVE SleepInv'
  BY <1>18 DEF At, Goto, WaitReturns, Returns
<1>19. ASSUME NEW t \in Thread, WaitOutOfRange(t) PROVE SleepInv'
  BY <1>19 DEF At, Goto, WaitOutOfRange, Returns
<1>20. ASSUME NEW t \in Thread, IllegalCall(t) PROVE SleepInv'
  BY <1>20 DEF At, Goto, IllegalCall, Returns
<1>21. ASSUME NEW t \in Thread, NotifyThin(t) PROVE SleepInv'
  BY <1>21 DEF At, Goto, NotifyThin, Returns
<1>22. ASSUME NEW t \in Thread, StartNotify(t) PROVE SleepInv'
  BY <1>22 DEF At, Goto, StartNotify
<1>23. ASSUME NEW t \in Thread, NotifyStep(t) PROVE SleepInv'
  BY <1>23 DEF At, Goto, NotifyStep, Signal, Returns
<1>24. ASSUME NEW t \in Thread, NotifyAllStep(t) PROVE SleepInv'
  BY <1>24 DEF At, Goto, NotifyAllStep, Signal, Returns
<1>25. ASSUME NEW t \in Thread, NEW u \in Thread, ThreadInterrupt(t, u) PROVE SleepInv'
  BY <1>25 DEF At, Goto, ThreadInterrupt, Signal, Returns
<1>26. ASSUME NEW t \in Thread, QueryInterrupted(t) PROVE SleepInv'
  BY <1>26 DEF At, Goto, QueryInterrupted
<1>27. ASSUME NEW t \in Thread, ClearInterrupted(t) PROVE SleepInv'
  BY <1>27 DEF At, Goto, ClearInterrupted, Returns
<1> QED
  BY <1>u, <1>1, <1>2, <1>3, <1>4, <1>5, <1>6, <1>7, <1>8, <1>9, <1>10, <1>11, <1>12,
     <1>13, <1>14, <1>15, <1>16, <1>17, <1>18, <1>19, <1>20, <1>21, <1>22, <1>23, <1>24,
     <1>25, <1>26, <1>27
  DEF Next, Continue, Call, GetMutex, Unlock

\* Nobody sleeps on in wait with the interrupted flag set, however the
\* interrupt raced with the way into wait.
THEOREM InterruptsWakeSleepers == Spec => []InterruptWakes
<1>1. Init => SleepInv
  BY DEF Init, SleepInv, InterruptWakes
<1>2. SleepInv => InterruptWakes
  BY DEF SleepInv
<1> QED
  BY <1>1, <1>2, SleepStep, MonitorInvariant, PTL DEF Spec

\* Only a thread that polls the flag may take it back without an exception.
PollInv == \A t \in Thread : pc[t] = "query" => t \in Querier

\* Where waits throw and nobody polls the flag, an interrupt stays raised until
\* an exception tells the thread of it.
LEMMA RaisedStep ==
  MonitorInv /\ PollInv /\ InterruptStaysRaised /\ [Next]_vars
    => InterruptStaysRaised' /\ PollInv'
<1> DEFINE Raised == InterruptStaysRaised /\ PollInv
<1> SUFFICES ASSUME LockTypeOK, Raised, [Next]_vars
             PROVE Raised'
  BY DEF MonitorInv
<1> USE DEF LockTypeOK, InterruptStaysRaised, PollInv, vars, waitVars, callVars
<1>u. CASE UNCHANGED vars
  BY <1>u
<1>1. ASSUME NEW t \in Thread, StartLock(t) PROVE Raised'
  BY <1>1 DEF At, Goto, StartLock
<1>2. ASSUME NEW t \in Thread, LockAgain(t) PROVE Raised'
  BY <1>2 DEF At, Goto, LockAgain, Entered, Returns
<1>3. ASSUME NEW t \in Thread, ReadThin(t) PROVE Raised'
  BY <1>3 DEF At, Goto, ReadThin
<1>4. ASSUME NEW t \in Thread, AcquireThin(t) PROVE Raised'
  BY <1>4 DEF At, Goto, AcquireThin, Entered, Returns
<1>5. ASSUME NEW t \in Thread, Spin(t) PROVE Raised'
  BY <1>5 DEF At, Goto, Spin
<1>6. ASSUME NEW t \in Thread, SpinAcquire(t) PROVE Raised'
  BY <1>6 DEF At, Goto, SpinAcquire
<1>7. ASSUME NEW t \in Thread, Fatten(t) PROVE Raised'
  BY <1>7 DEF At, Goto, Fatten, Entered, Returns
<1>8. ASSUME NEW t \in Thread, LockMonitor(t) PROVE Raised'
  BY <1>8 DEF At, Goto, LockMonitor, Entered, Returns
<1>9. ASSUME NEW t \in Thread, GotMutex(t) PROVE Raised'
  BY <1>9 DEF At, Goto, GotMutex, Entered, Returns
<1>10. ASSUME NEW t \in Thread, UnlockThin(t) PROVE Raised'
  BY <1>10 DEF At, Goto, UnlockThin, Left, Returns
<1>11. ASSUME NEW t \in Thread, UnlockMonitor(t) PROVE Raised'
  BY <1>11 DEF At, Goto, UnlockMonitor, Left, Returns
<1>12. ASSUME NEW t \in Thread, UnlockFails(t) PROVE Raised'
  BY <1>12 DEF At, Goto, UnlockFails, Returns
<1>13. ASSUME NEW t \in Thread, ObjectWait(t) PROVE Raised'
  BY <1>13 DEF At, Goto, ObjectWait
<1>14. ASSUME NEW t \in Thread, PrepareWait(t) PROVE Raised'
  BY <1>14 DEF At, Goto, PrepareWait
<1>15. ASSUME NEW t \in Thread, CondWakes(t) PROVE Raised'
  BY <1>15 DEF At, Goto, CondWakes
<1>16. ASSUME NEW t \in Thread, Relock(t) PROVE Raised'
  BY <1>16 DEF At, Goto, Relock
<1>17. ASSUME NEW t \in Thread, RestoreMonitor(t) PROVE Raised'
  BY <1>17 DEF At, Goto, RestoreMonitor
<1>18. ASSUME NEW t \in Thread, WaitReturns(t) PROVE Raised'
  BY <1>18 DEF At, Goto, WaitReturns, Returns
<1>19. ASSUME NEW t \in Thread, WaitOutOfRange(t) PROVE Raised'
  BY <1>19 DEF At, Goto, WaitOutOfRange, Returns
<1>20. ASSUME NEW t \in Thread, IllegalCall(t) PROVE Raised'
  BY <1>20 DEF At, Goto, IllegalCall, Returns
<1>21. ASSUME NEW t \in Thread, NotifyThin(t) PROVE Raised'
  BY <1>21 DEF At, Goto, NotifyThin, Returns
<1>22. ASSUME NEW t \in Thread, StartNotify(t) PROVE Raised'
  BY <1>22 DEF At, Goto, StartNotify
<1>23. ASSUME NEW t \in Thread, NotifyStep(t) PROVE Raised'
  BY <1>23 DEF At, Goto, NotifyStep, Signal, Returns
<1>24. ASSUME NEW t \in Thread, NotifyAllStep(t) PROVE Raised'
  BY <1>24 DEF At, Goto, NotifyAllStep, Signal, Returns
<1>25. ASSUME NEW t \in Thread, NEW u \in Thread, ThreadInterrupt(t, u) PROVE Raised'
  BY <1>25 DEF At, Goto, ThreadInterrupt, Signal, Returns
<1>26. ASSUME NEW t \in Thread, QueryInterrupted(t) PROVE Raised'
  BY <1>26 DEF At, Goto, QueryInterrupted
<1>27. ASSUME NEW t \in Thread, ClearInterrupted(t) PROVE Raised'
  BY <1>27 DEF At, Goto, ClearInterrupted, Returns
<1> QED
  BY <1>u, <1>1, <1>2, <1>3, <1>4, <1>5, <1>6, <1>7, <1>8, <1>9, <1>10, <1>11, <1>12,
     <1>13, <1>14, <1>15, <1>16, <1>17, <1>18, <1>19, <1>20, <1>21, <1>22, <1>23, <1>24,
     <1>25, <1>26, <1>27
  DEF Next, Continue, Call, GetMutex, Unlock

\* So for callers that pass interruptShouldThrow (Object.wait, sleep) and do not
\* poll it the flag keeps the promise of vm/Thread.h, whatever others do.
THEOREM InterruptIsKept == Spec => []InterruptStaysRaised
<1>1. Init => InterruptStaysRaised /\ PollInv
  BY DEF Init, InterruptStaysRaised, PollInv
<1> QED
  BY <1>1, RaisedStep, MonitorInvariant, PTL DEF Spec

-----------------------------------------------------------------------------
(* The monitor implements JavaMonitor.  What a step does is first told     *)
(* without the mapping: a thread enters, leaves, waits, comes back from    *)
(* wait, or none of these.                                                 *)

Waiting(t) == pc[t] \in WaitPoint

\* No thread but t changes what it holds or whether it waits.
OthersStay(t) ==
  \A u \in Thread \ {t} : held'[u] = held[u] /\ (Waiting(u)' <=> Waiting(u))

Enters(t) ==
  /\ ~Waiting(t) /\ ~Waiting(t)' /\ held'[t] = held[t] + 1
  /\ \A u \in Thread \ {t} : ~InMonitor(u)
  /\ OthersStay(t)

Leaves(t) ==
  /\ InMonitor(t) /\ ~Waiting(t)' /\ held'[t] = held[t] - 1
  /\ OthersStay(t)

Waits(t) ==
  /\ InMonitor(t) /\ Waiting(t)' /\ held'[t] = held[t]
  /\ OthersStay(t)

ComesBack(t) ==
  /\ Waiting(t) /\ ~Waiting(t)' /\ held'[t] = held[t] /\ held[t] > 0
  /\ \A u \in Thread : ~InMonitor(u)
  /\ OthersStay(t)

Stays == \A u \in Thread : held'[u] = held[u] /\ (Waiting(u)' <=> Waiting(u))

\* Every step is one of the five.
LEMMA StepKinds ==
  MonitorInv /\ [Next]_vars =>
    \/ Stays
    \/ \E t \in Thread : Enters(t) \/ Leaves(t) \/ Waits(t) \/ ComesBack(t)
<1> USE MonitorAssumption DEF MonitorAssumption
<1> SUFFICES ASSUME MonitorInv, [Next]_vars
             PROVE  \/ Stays
                    \/ \E t \in Thread : Enters(t) \/ Leaves(t) \/ Waits(t) \/ ComesBack(t)
  OBVIOUS
<1>i. LockTypeOK /\ ShapeInv /\ OwnerInv /\ PointInv
  BY DEF MonitorInv
<1> USE <1>i
<1> USE DEF LockTypeOK, Point, WaitPoint, ShapeInv, OwnerInv, PointInv, Inside, InMonitor,
            HoldsLock, OwnsThin, OwnsFat
<1> USE DEF vars, lockVars, thinVars, fatVars, waitVars, callVars
<1> USE DEF Enters, Leaves, Waits, ComesBack, Stays, OthersStay, Waiting
<1>u. CASE UNCHANGED vars
  BY <1>u
<1>1. ASSUME NEW t \in Thread, StartLock(t) PROVE Stays
  BY <1>1, SMTT(30) DEF At, Goto, StartLock
<1>2. ASSUME NEW t \in Thread, LockAgain(t) PROVE Enters(t)
  BY <1>2, SMTT(30) DEF At, Goto, LockAgain, InflateMonitor, DropThin, Entered, Returns
<1>3. ASSUME NEW t \in Thread, ReadThin(t) PROVE Stays
  BY <1>3, SMTT(30) DEF At, Goto, ReadThin
<1>4. ASSUME NEW t \in Thread, AcquireThin(t) PROVE Enters(t) \/ Stays
  BY <1>4, SMTT(30) DEF At, Goto, AcquireThin, InstallOwner, CasFails, Entered, Returns
<1>5. ASSUME NEW t \in Thread, Spin(t) PROVE Stays
  BY <1>5, SMTT(30) DEF At, Goto, Spin
<1>6. ASSUME NEW t \in Thread, SpinAcquire(t) PROVE Stays
  BY <1>6, SMTT(30) DEF At, Goto, SpinAcquire, InstallOwner, CasFails
<1>7. ASSUME NEW t \in Thread, Fatten(t) PROVE Enters(t)
  BY <1>7, SMTT(30) DEF At, Goto, Fatten, InflateMonitor, DropThin, Entered, Returns
<1>8. ASSUME NEW t \in Thread, LockMonitor(t) PROVE Enters(t) \/ Stays
  <2>1. CASE owner = t
    BY <1>8, <2>1 DEF At, LockMonitor, Entered, Returns, TakeMutex, Goto
  <2>2. CASE owner # t /\ TakeMutex(t) /\ Entered(t)
    BY <1>8, <2>2 DEF At, LockMonitor, Entered, Returns, TakeMutex, Goto
  <2>3. CASE owner # t /\ Goto(t, "blocked") /\ UNCHANGED <<lockVars, held>>
    BY <1>8, <2>3 DEF At, LockMonitor, Goto
  <2> HIDE DEF Enters, Stays
  <2> QED
    BY <1>8, <2>1, <2>2, <2>3 DEF LockMonitor
<1>9. ASSUME NEW t \in Thread, GotMutex(t) PROVE Enters(t)
  BY <1>9, SMTT(30) DEF At, Goto, GotMutex, TakeMutex, Entered, Returns
<1>10. ASSUME NEW t \in Thread, UnlockThin(t) PROVE Leaves(t)
  BY <1>10, SMTT(30) DEF At, Goto, UnlockThin, Left, Returns
<1>11. ASSUME NEW t \in Thread, UnlockMonitor(t) PROVE Leaves(t)
  BY <1>11, SMTT(30) DEF At, Goto, UnlockMonitor, Left, Returns
<1>12. ASSUME NEW t \in Thread, UnlockFails(t) PROVE Stays
  BY <1>12, SMTT(30) DEF At, Goto, UnlockFails, Returns
<1>13. ASSUME NEW t \in Thread, ObjectWait(t) PROVE Waits(t)
  BY <1>13, SMTT(30) DEF At, Goto, ObjectWait, DropThin
<1>14. ASSUME NEW t \in Thread, PrepareWait(t) PROVE Stays
  BY <1>14, SMTT(30) DEF At, Goto, PrepareWait
<1>15. ASSUME NEW t \in Thread, CondWakes(t) PROVE Stays
  BY <1>15, SMTT(30) DEF At, Goto, CondWakes
<1>16. ASSUME NEW t \in Thread, Relock(t) PROVE Stays
  BY <1>16, SMTT(30) DEF At, Goto, Relock, TakeMutex
<1>17. ASSUME NEW t \in Thread, RestoreMonitor(t) PROVE ComesBack(t)
  BY <1>17, SMTT(30) DEF At, Goto, RestoreMonitor
<1>18. ASSUME NEW t \in Thread, WaitReturns(t) PROVE Stays
  BY <1>18, SMTT(30) DEF At, Goto, WaitReturns, Returns
<1>19. ASSUME NEW t \in Thread, WaitOutOfRange(t) PROVE Stays
  BY <1>19, SMTT(30) DEF At, Goto, WaitOutOfRange, InflateMonitor, DropThin, Returns
<1>20. ASSUME NEW t \in Thread, IllegalCall(t) PROVE Stays
  BY <1>20, SMTT(30) DEF At, Goto, IllegalCall, Returns
<1>21. ASSUME NEW t \in Thread, NotifyThin(t) PROVE Stays
  BY <1>21, SMTT(30) DEF At, Goto, NotifyThin, Returns
<1>22. ASSUME NEW t \in Thread, StartNotify(t) PROVE Stays
  BY <1>22, SMTT(30) DEF At, Goto, StartNotify
<1>23. ASSUME NEW t \in Thread, NotifyStep(t) PROVE Stays
  BY <1>23, SMTT(30) DEF At, Goto, NotifyStep, Signal, Returns
<1>24. ASSUME NEW t \in Thread, NotifyAllStep(t) PROVE Stays
  BY <1>24, SMTT(30) DEF At, Goto, NotifyAllStep, Signal, Returns
<1>25. ASSUME NEW t \in Thread, NEW u \in Thread, ThreadInterrupt(t, u) PROVE Stays
  BY <1>25, SMTT(30) DEF At, Goto, ThreadInterrupt, Signal, Returns
<1>26. ASSUME NEW t \in Thread, QueryInterrupted(t) PROVE Stays
  BY <1>26, SMTT(30) DEF At, Goto, QueryInterrupted
<1>27. ASSUME NEW t \in Thread, ClearInterrupted(t) PROVE Stays
  BY <1>27, SMTT(30) DEF At, Goto, ClearInterrupted, Returns
<1> HIDE DEF Enters, Leaves, Waits, ComesBack, Stays
<1> QED
  BY <1>u, <1>1, <1>2, <1>3, <1>4, <1>5, <1>6, <1>7, <1>8, <1>9, <1>10, <1>11, <1>12,
     <1>13, <1>14, <1>15, <1>16, <1>17, <1>18, <1>19, <1>20, <1>21, <1>22, <1>23, <1>24,
     <1>25, <1>26, <1>27
  DEF Next, Continue, Call, GetMutex, Unlock

\* The mapping, by the names of JavaMonitor.
Holder == IF \E t \in Thread : InMonitor(t)
          THEN CHOOSE t \in Thread : InMonitor(t) ELSE NoThread
Depth == IF \E t \in Thread : InMonitor(t)
         THEN held[CHOOSE t \in Thread : InMonitor(t)] ELSE 0
WaitDepth == [t \in Thread |-> IF pc[t] \in WaitPoint THEN held[t] ELSE 0]

MappingIs ==
  /\ \A t \in Thread : InMonitor(t) => Holder = t /\ Depth = held[t]
  /\ (\A t \in Thread : ~InMonitor(t)) => Holder = NoThread /\ Depth = 0
  /\ WaitDepth = [t \in Thread |-> IF Waiting(t) THEN held[t] ELSE 0]
  /\ NoThread \notin Thread /\ held \in [Thread -> Nat]

\* The mapping is what its names say, since one thread at most is inside.
LEMMA MappingHolds == MonitorInv => MappingIs
<1> SUFFICES ASSUME MonitorInv PROVE MappingIs
  OBVIOUS
<1>1. NoThread \notin Thread /\ held \in [Thread -> Nat]
  BY MonitorAssumption DEF MonitorAssumption, MonitorInv, LockTypeOK
<1>2. \A s, t \in Thread : InMonitor(s) /\ InMonitor(t) => s = t
  BY MonitorAssumption
  DEF MonitorAssumption, MonitorInv, LockTypeOK, ShapeInv, OwnerInv, Inside, HoldsLock,
      OwnsThin, OwnsFat
<1>3. ASSUME NEW t \in Thread, InMonitor(t) PROVE Holder = t /\ Depth = held[t]
  <2>1. t = CHOOSE u \in Thread : InMonitor(u)
    BY <1>2, <1>3
  <2> QED
    BY <1>3, <2>1 DEF Holder, Depth
<1>4. (\A t \in Thread : ~InMonitor(t)) => Holder = NoThread /\ Depth = 0
  BY DEF Holder, Depth
<1> QED
  BY <1>1, <1>3, <1>4 DEF MappingIs, WaitDepth, Waiting

\* What a step does to the monitor is a step of JavaMonitor.
LEMMA StepImplements ==
  MonitorInv /\ MonitorInv' /\ [Next]_vars =>
    Abstract!Next \/ UNCHANGED <<Holder, Depth, WaitDepth>>
<1> SUFFICES ASSUME MonitorInv, MonitorInv', [Next]_vars
             PROVE  Abstract!Next \/ UNCHANGED <<Holder, Depth, WaitDepth>>
  OBVIOUS
<1>m. MappingIs /\ MappingIs'
  BY MappingHolds, PTL
<1>k. \/ Stays
      \/ \E t \in Thread : Enters(t) \/ Leaves(t) \/ Waits(t) \/ ComesBack(t)
  BY StepKinds
<1> USE <1>m DEF MappingIs, InMonitor, OthersStay
<1>1. ASSUME Stays PROVE UNCHANGED <<Holder, Depth, WaitDepth>>
  <2>1. \A t \in Thread : InMonitor(t)' <=> InMonitor(t)
    BY <1>1 DEF Stays, Waiting
  <2>2. WaitDepth' = WaitDepth
    BY <1>1 DEF Stays
  <2> QED
    BY <1>1, <2>1, <2>2 DEF Stays
<1>2. ASSUME NEW t \in Thread, Enters(t) PROVE Abstract!Next
  <2>1. /\ \/ Holder = NoThread /\ WaitDepth[t] = 0
           \/ Holder = t
        /\ Holder' = t /\ Depth' = Depth + 1
    BY <1>2 DEF Enters, Waiting
  <2>2. WaitDepth' = WaitDepth
    BY <1>2 DEF Enters, Waiting
  <2>3. Abstract!Enter(t)
    BY <2>1, <2>2 DEF Abstract!Enter, Holder, Depth, WaitDepth
  <2> QED
    BY <2>3 DEF Abstract!Next
<1>3. ASSUME NEW t \in Thread, Leaves(t) PROVE Abstract!Next
  <2>1. Holder = t /\ Depth = held[t] /\ \A u \in Thread \ {t} : ~InMonitor(u)
    BY <1>3 DEF Leaves
  <2>2. Depth' = Depth - 1 /\ Holder' = IF Depth = 1 THEN NoThread ELSE t
    BY <1>3, <2>1 DEF Leaves, Waiting
  <2>3. WaitDepth' = WaitDepth
    BY <1>3 DEF Leaves, Waiting
  <2>4. Abstract!Exit(t)
    BY <2>1, <2>2, <2>3 DEF Abstract!Exit, Holder, Depth, WaitDepth
  <2> QED
    BY <2>4 DEF Abstract!Next
<1>4. ASSUME NEW t \in Thread, Waits(t) PROVE Abstract!Next
  <2>1. Holder = t /\ Depth = held[t] /\ \A u \in Thread \ {t} : ~InMonitor(u)
    BY <1>4 DEF Waits
  <2>2. Holder' = NoThread /\ Depth' = 0
    BY <1>4, <2>1 DEF Waits, Waiting
  <2>3. WaitDepth' = [WaitDepth EXCEPT ![t] = Depth]
    BY <1>4, <2>1 DEF Waits, Waiting
  <2>4. Abstract!Wait(t)
    BY <2>1, <2>2, <2>3 DEF Abstract!Wait, Holder, Depth, WaitDepth
  <2> QED
    BY <2>4 DEF Abstract!Next
<1>5. ASSUME NEW t \in Thread, ComesBack(t) PROVE Abstract!Next
  <2>1. WaitDepth[t] = held[t] /\ held[t] > 0 /\ Holder = NoThread
    BY <1>5 DEF ComesBack
  <2>2. Holder' = t /\ Depth' = held[t]
    BY <1>5 DEF ComesBack, Waiting
  <2>3. WaitDepth' = [WaitDepth EXCEPT ![t] = 0]
    BY <1>5 DEF ComesBack, Waiting
  <2>4. Abstract!Return(t)
    BY <2>1, <2>2, <2>3 DEF Abstract!Return, Holder, Depth, WaitDepth
  <2> QED
    BY <2>4 DEF Abstract!Next
<1> QED
  BY <1>k, <1>1, <1>2, <1>3, <1>4, <1>5

\* At the start nobody is inside and nobody waits.
LEMMA MappingStarts ==
  Init => Holder = NoThread /\ Depth = 0 /\ WaitDepth = [t \in Thread |-> 0]
<1> SUFFICES ASSUME Init
             PROVE  Holder = NoThread /\ Depth = 0 /\ WaitDepth = [t \in Thread |-> 0]
  OBVIOUS
<1>1. \A u \in Thread : ~InMonitor(u) /\ pc[u] \notin WaitPoint
  BY MonitorAssumption DEF MonitorAssumption, Init, InMonitor, WaitPoint
<1> QED
  BY <1>1 DEF Holder, Depth, WaitDepth

\* The monitor, thin and fat, with waits and interrupts, behaves like the
\* abstract one, for any number of threads, nesting and width of the count.
THEOREM MonitorIsJavaMonitor == Spec => IsJavaMonitor
<1>1. Init => Abstract!Init
  BY MappingStarts DEF Abstract!Init, Holder, Depth, WaitDepth
<1>2. MonitorInv /\ MonitorInv' /\ [Next]_vars =>
        [Abstract!Next]_<<Holder, Depth, WaitDepth>>
  BY StepImplements
<1> QED
  BY <1>1, <1>2, MonitorInvariant, PTL
  DEF Spec, IsJavaMonitor, Abstract!Spec, Holder, Depth, WaitDepth

=============================================================================
