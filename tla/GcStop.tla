------------------------------- MODULE GcStop -------------------------------
(***************************************************************************)
(* The collector as a client of the suspension protocol: the heap lock and *)
(* the pauses of vm/alloc/Heap.cpp, on top of module ThreadSuspend.        *)
(* A foreground collection (GC_FOR_MALLOC) stops the world once; a         *)
(* concurrent one (GC_CONCURRENT, GC_EXPLICIT) twice, and lets go of the   *)
(* heap lock while it traces and while it sweeps.  Before it lets go of    *)
(* the heap lock at the end it hands the references it cleared to Java, in *)
(* managed code.  What is marked and what is swept is left out here.       *)
(***************************************************************************)
EXTENDS ThreadSuspend

CONSTANTS
  Allocator,   \* threads whose allocations may fail and collect
  Explicit,    \* threads that may call System.gc()
  Daemon       \* the GC daemon thread, which runs Java code only to enqueue
               \* cleared references

ASSUME GcRolesAssumption ==
  /\ Allocator \subseteq Thread /\ Explicit \subseteq Thread
  /\ Daemon \subseteq Thread
  /\ Daemon \cap (Allocator \cup Explicit \cup Dumper \cup Tracer) = {}

VARIABLES
  heapOwner,   \* owner of gcHeapLock
  gcRunning,   \* gcHeap->gcRunning
  gcWaiters,   \* threads asleep on gcHeapCond, not yet woken
  kind,        \* why this thread is in the heap code
  pause        \* which pause of its collection the thread is at

gcVars == <<heapOwner, gcRunning, gcWaiters, kind, pause>>
allVars == <<vars, gcVars>>

Kind == {"none", "alloc", "explicit", "daemon"}

GcReturnPoint == ReturnPoint \cup {"hpHave", "gcBegin", "gcWaited"}
GcPoint == Point \cup GcReturnPoint \cup
  { "hpLock", "hpBlocked", "hpUnlock", "gcWait", "gcCond",
    "gcScan", "gcScanBlocked", "gcRelocked",
    "gcSweep", "gcSweepBlocked", "gcFinish", "gcPark" }

IsConcurrent(t) == kind[t] \in {"explicit", "daemon"}

\* Everybody is in managed code but the daemon, which waits for work.
GcInit ==
  /\ status = [t \in Thread |-> IF t \in Daemon THEN "VMWAIT" ELSE "RUNNING"]
  /\ closed = [t \in Thread |-> t \in Daemon]
  /\ oldStatus = [t \in Thread |-> "RUNNING"]
  /\ oldClosed = [t \in Thread |-> FALSE]
  /\ suspendCount = [t \in Thread |-> 0]
  /\ waiters = {}
  /\ susOwner = NoThread /\ listOwner = NoThread /\ vmOwner = NoThread
  /\ pc = [t \in Thread |-> IF t \in Daemon THEN "native" ELSE "run"]
  /\ ret = [t \in Thread |-> "run"]
  /\ await = [t \in Thread |-> {}]
  /\ heapOwner = NoThread /\ gcRunning = FALSE /\ gcWaiters = {}
  /\ kind = [t \in Thread |-> "none"]
  /\ pause = [t \in Thread |-> 0]

SetStatus(t, s, c) ==
  /\ status' = [status EXCEPT ![t] = s]
  /\ closed' = [closed EXCEPT ![t] = c]

\* dvmChangeStatus(self, THREAD_RUNNING), to go on at "next".
BackToRunning(t, next) ==
  /\ SetStatus(t, "RUNNING", FALSE)
  /\ CallCheck(t, "check", next)

-----------------------------------------------------------------------------
(* The heap lock.                                                          *)

\* dvmLockHeap: try; else close the stack and block as VMWAIT ...
LockHeap(t, here, wait, next) ==
  /\ At(t, here)
  /\ \/ /\ heapOwner = NoThread
        /\ heapOwner' = t
        /\ Goto(t, next)
        /\ UNCHANGED threadVars
     \/ /\ heapOwner # NoThread
        /\ SaveState(t)
        /\ SetStatus(t, "VMWAIT", TRUE)
        /\ Goto(t, wait)
        /\ UNCHANGED heapOwner
  /\ UNCHANGED <<countVars, lockVars, ret, await, gcRunning, gcWaiters, kind, pause>>

\* Mutant: the old status is restored with a plain store.
GotHeapUnchecked(t, wait, next) ==
  /\ At(t, wait) /\ heapOwner = NoThread
  /\ heapOwner' = t
  /\ SetStatus(t, oldStatus[t], oldClosed[t])
  /\ Goto(t, next)
  /\ UNCHANGED <<savedVars, countVars, lockVars, ret, await,
                 gcRunning, gcWaiters, kind, pause>>

\* ... and come back through dvmChangeStatus with the heap lock held.
GotHeap(t, wait, next) ==
  /\ At(t, wait) /\ heapOwner = NoThread
  /\ heapOwner' = t
  /\ \/ /\ oldStatus[t] = "RUNNING"
        /\ BackToRunning(t, next)
     \/ /\ oldStatus[t] # "RUNNING"
        /\ SetStatus(t, oldStatus[t], oldClosed[t])
        /\ Goto(t, next)
        /\ UNCHANGED ret
  /\ UNCHANGED <<savedVars, countVars, lockVars, await, gcRunning, gcWaiters, kind, pause>>

\* Where a collection goes on when it is over.
AfterGc(t) == IF t \in Daemon THEN "gcPark" ELSE "hpUnlock"

UnlockHeap(t) ==
  /\ At(t, "hpUnlock")
  /\ heapOwner' = NoThread
  /\ kind' = [kind EXCEPT ![t] = "none"]
  /\ Goto(t, IF t \in Daemon THEN "native" ELSE "run")
  /\ UNCHANGED <<threadVars, countVars, lockVars, ret, await, gcRunning, gcWaiters, pause>>

-----------------------------------------------------------------------------
(* Entering the heap code: dvmMalloc, dvmCollectGarbage, gcDaemonThread.   *)

StartHeapOp(t, k) ==
  /\ kind[t] = "none"
  /\ \/ k = "alloc" /\ t \in Allocator /\ At(t, "run")
     \/ k = "explicit" /\ t \in Explicit /\ At(t, "run")
     \/ k = "daemon" /\ t \in Daemon /\ At(t, "native")
  /\ kind' = [kind EXCEPT ![t] = k]
  /\ Goto(t, "hpLock")
  /\ UNCHANGED <<threadVars, countVars, lockVars, ret, await,
                 heapOwner, gcRunning, gcWaiters, pause>>

\* tryMalloc found room: nothing to collect.
AllocSucceeds(t) ==
  /\ At(t, "hpHave") /\ kind[t] = "alloc"
  /\ Goto(t, "hpUnlock")
  /\ UNCHANGED <<threadVars, countVars, lockVars, ret, await, gcVars>>

\* tryMalloc found none and nobody collects: collect here.
AllocCollects(t) ==
  /\ At(t, "hpHave") /\ kind[t] = "alloc" /\ ~gcRunning
  /\ Goto(t, "gcBegin")
  /\ UNCHANGED <<threadVars, countVars, lockVars, ret, await, gcVars>>

\* The daemon collects as a RUNNING thread, unless a collection is under way.
DaemonCollects(t) ==
  /\ At(t, "hpHave") /\ kind[t] = "daemon"
  /\ \/ ~gcRunning /\ BackToRunning(t, "gcBegin")
     \/ gcRunning /\ Goto(t, "hpUnlock") /\ UNCHANGED <<status, closed, ret>>
  /\ UNCHANGED <<savedVars, countVars, lockVars, await, gcVars>>

\* dvmWaitForConcurrentGcToComplete, by a failed allocation that met a
\* collection and by every explicit one.
StartWaitForGc(t) ==
  /\ At(t, "hpHave")
  /\ kind[t] = "explicit" \/ (kind[t] = "alloc" /\ gcRunning)
  /\ SetStatus(t, "VMWAIT", TRUE)
  /\ Goto(t, "gcWait")
  /\ UNCHANGED <<savedVars, countVars, lockVars, ret, await, gcVars>>

WaitForConcurrentGc(t) ==
  /\ At(t, "gcWait")
  /\ \/ /\ gcRunning
        /\ gcWaiters' = gcWaiters \cup {t}
        /\ heapOwner' = NoThread
        /\ Goto(t, "gcCond")
        /\ UNCHANGED <<status, closed, ret>>
     \/ /\ ~gcRunning
        /\ BackToRunning(t, "gcWaited")
        /\ UNCHANGED <<gcWaiters, heapOwner>>
  /\ UNCHANGED <<savedVars, countVars, lockVars, await, gcRunning, kind, pause>>

\* The wait on gcHeapCond ends with the heap lock taken again.
GcCondWakes(t) ==
  /\ At(t, "gcCond") /\ t \notin gcWaiters /\ heapOwner = NoThread
  /\ heapOwner' = t
  /\ Goto(t, "gcWait")
  /\ UNCHANGED <<threadVars, countVars, lockVars, ret, await,
                 gcRunning, gcWaiters, kind, pause>>

GcWaited(t) ==
  /\ At(t, "gcWaited")
  /\ Goto(t, IF kind[t] = "explicit" THEN "gcBegin" ELSE "hpUnlock")
  /\ UNCHANGED <<threadVars, countVars, lockVars, ret, await, gcVars>>

-----------------------------------------------------------------------------
(* dvmCollectGarbageInternal.                                              *)

\* Mutant: gcRunning is not set.
BeginGcUnmarked(t) ==
  /\ At(t, "gcBegin")
  /\ SetStatus(t, "NATIVE", TRUE)
  /\ pause' = [pause EXCEPT ![t] = 1]
  /\ Goto(t, "susLock")
  /\ UNCHANGED <<savedVars, countVars, lockVars, ret, await,
                 heapOwner, gcRunning, gcWaiters, kind>>

\* Close the stack, become NATIVE with a plain store, stop the world.
BeginGc(t) ==
  /\ At(t, "gcBegin")
  /\ \/ /\ gcRunning           \* "Attempted recursive GC"
        /\ Goto(t, "hpUnlock")
        /\ UNCHANGED <<status, closed, gcRunning, pause>>
     \/ /\ ~gcRunning
        /\ SetStatus(t, "NATIVE", TRUE)
        /\ gcRunning' = TRUE
        /\ pause' = [pause EXCEPT ![t] = 1]
        /\ Goto(t, "susLock")
  /\ UNCHANGED <<savedVars, countVars, lockVars, ret, await, heapOwner, gcWaiters, kind>>

\* A pause of a concurrent collection: mark or re-mark the roots (which takes
\* the VM-internal locks), unlock the heap, let the world go on.
ConcurrentPause(t) ==
  /\ At(t, "stopped") /\ pause[t] > 0 /\ IsConcurrent(t) /\ vmOwner = NoThread
  /\ heapOwner' = NoThread
  /\ Goto(t, "resLock")
  /\ UNCHANGED <<threadVars, countVars, lockVars, ret, await,
                 gcRunning, gcWaiters, kind, pause>>

\* The only pause of a foreground collection does all the work and restores
\* the thread's status with a plain store before the world is resumed.
ForegroundPause(t) ==
  /\ At(t, "stopped") /\ pause[t] > 0 /\ ~IsConcurrent(t) /\ vmOwner = NoThread
  /\ gcRunning' = FALSE
  /\ SetStatus(t, "RUNNING", FALSE)
  /\ Goto(t, "resLock")
  /\ UNCHANGED <<savedVars, countVars, lockVars, ret, await,
                 heapOwner, gcWaiters, kind, pause>>

\* dvmResumeAllThreads returns into the collection; a foreground one is over,
\* and has cleared references or none.
AfterPause(t) ==
  /\ pause[t] > 0
  /\ IF ~IsConcurrent(t) THEN \E next \in {"run", AfterGc(t)} : WakeOthers(t, next)
     ELSE IF pause[t] = 1 THEN WakeOthers(t, "gcScan") ELSE WakeOthers(t, "gcSweep")
  /\ pause' = IF IsConcurrent(t) THEN pause ELSE [pause EXCEPT ![t] = 0]
  /\ UNCHANGED <<heapOwner, gcRunning, gcWaiters, kind>>

SecondPause(t) ==
  /\ At(t, "gcRelocked")
  /\ pause' = [pause EXCEPT ![t] = 2]
  /\ Goto(t, "susLock")
  /\ UNCHANGED <<threadVars, countVars, lockVars, ret, await,
                 heapOwner, gcRunning, gcWaiters, kind>>

\* Mutants: the end without the broadcast, and without clearing gcRunning.
FinishGcSilently(t) ==
  /\ At(t, "gcFinish")
  /\ gcRunning' = FALSE
  /\ pause' = [pause EXCEPT ![t] = 0]
  /\ SetStatus(t, "RUNNING", FALSE)
  /\ Goto(t, "run") \/ Goto(t, AfterGc(t))
  /\ UNCHANGED <<savedVars, countVars, lockVars, ret, await, heapOwner, gcWaiters, kind>>

FinishGcStillRunning(t) ==
  /\ At(t, "gcFinish")
  /\ gcWaiters' = {}
  /\ pause' = [pause EXCEPT ![t] = 0]
  /\ SetStatus(t, "RUNNING", FALSE)
  /\ Goto(t, "run") \/ Goto(t, AfterGc(t))
  /\ UNCHANGED <<savedVars, countVars, lockVars, ret, await, heapOwner, gcRunning, kind>>

\* The end of a concurrent collection: the status is restored with a plain
\* store although the world may have been stopped by somebody else, and the
\* thread goes on in managed code if there are references to enqueue.
FinishGc(t) ==
  /\ At(t, "gcFinish")
  /\ gcRunning' = FALSE
  /\ gcWaiters' = {}
  /\ pause' = [pause EXCEPT ![t] = 0]
  /\ SetStatus(t, "RUNNING", FALSE)
  /\ Goto(t, "run") \/ Goto(t, AfterGc(t))
  /\ UNCHANGED <<savedVars, countVars, lockVars, ret, await, heapOwner, kind>>

\* ReferenceQueue.add has returned.  Until then the thread is in managed code
\* with the heap lock, and meets safe points and leaves managed code as usual.
EnqueueReturns(t) ==
  /\ At(t, "run") /\ kind[t] # "none"
  /\ Goto(t, AfterGc(t))
  /\ UNCHANGED <<threadVars, countVars, lockVars, ret, await, gcVars>>

\* The daemon closes its stack and goes back to VMWAIT.
ParkDaemon(t) ==
  /\ At(t, "gcPark")
  /\ SetStatus(t, "VMWAIT", TRUE)
  /\ Goto(t, "hpUnlock")
  /\ UNCHANGED <<savedVars, countVars, lockVars, ret, await, gcVars>>

-----------------------------------------------------------------------------
GcStep(t) ==
  \/ LockHeap(t, "hpLock", "hpBlocked", "hpHave")
  \/ GotHeap(t, "hpBlocked", "hpHave")
  \/ AllocSucceeds(t) \/ AllocCollects(t) \/ DaemonCollects(t)
  \/ StartWaitForGc(t) \/ WaitForConcurrentGc(t) \/ GcCondWakes(t) \/ GcWaited(t)
  \/ BeginGc(t) \/ ConcurrentPause(t) \/ ForegroundPause(t) \/ AfterPause(t)
  \/ LockHeap(t, "gcScan", "gcScanBlocked", "gcRelocked")
  \/ GotHeap(t, "gcScanBlocked", "gcRelocked")
  \/ SecondPause(t)
  \/ LockHeap(t, "gcSweep", "gcSweepBlocked", "gcFinish")
  \/ GotHeap(t, "gcSweepBlocked", "gcFinish")
  \/ FinishGc(t) \/ EnqueueReturns(t) \/ ParkDaemon(t) \/ UnlockHeap(t)

\* The steps of a thread in the suspension protocol, collections included.
ProtocolStep(t) ==
  /\ \/ CheckStep(t) \/ TakeVmLock(t) \/ DropVmLock(t)
     \/ SuspendAllStep(t) \/ ResumeAllStep(t)
     \/ pause[t] = 0 /\ (Inspect(t) \/ WakeOthers(t, "run"))
  /\ UNCHANGED gcVars

GcObliged(t) == ProtocolStep(t) \/ GcStep(t)

\* The daemon leaves its wait for work only to collect.  While it enqueues
\* references a thread takes no other lock of the VM and stops nobody.
GcChosen(t) ==
  \/ /\ \/ EnterNative(t)
        \/ LeaveNative(t) /\ (t \in Daemon => kind[t] # "none")
        \/ (WantVmLock(t) \/ StartSuspendAll(t)) /\ kind[t] = "none"
     /\ UNCHANGED gcVars
  \/ \E k \in Kind : StartHeapOp(t, k)

GcNext == \E t \in Thread : GcObliged(t) \/ GcChosen(t)

GcSpec == GcInit /\ [][GcNext]_allVars

\* As in ThreadSuspend; gcHeapLock, too, does not starve who waits for it.
GetsLock(t) ==
  \/ (TakeVmLock(t) \/ TakeVmLocks(t)) /\ UNCHANGED gcVars
  \/ GotHeap(t, "gcScanBlocked", "gcRelocked")
  \/ GotHeap(t, "gcSweepBlocked", "gcFinish")

GcFairness == \A t \in Thread :
  /\ WF_allVars(GcObliged(t))
  /\ SF_allVars(SafePoint(t) /\ UNCHANGED gcVars)
  /\ SF_allVars(GetsLock(t))

GcFairSpec == GcSpec /\ GcFairness

-----------------------------------------------------------------------------
(* Properties; CountsRequests and NoLostWakeUp of module ThreadSuspend are *)
(* checked here again, for collections.                                    *)

GcTypeOK ==
  /\ status \in [Thread -> Status]
  /\ closed \in [Thread -> BOOLEAN]
  /\ oldStatus \in [Thread -> Status]
  /\ oldClosed \in [Thread -> BOOLEAN]
  /\ suspendCount \in [Thread -> Nat]
  /\ waiters \subseteq Thread /\ gcWaiters \subseteq Thread
  /\ {susOwner, listOwner, vmOwner, heapOwner} \subseteq Thread \cup {NoThread}
  /\ pc \in [Thread -> GcPoint]
  /\ ret \in [Thread -> GcReturnPoint]
  /\ await \in [Thread -> SUBSET Thread]
  /\ gcRunning \in BOOLEAN
  /\ kind \in [Thread -> Kind]
  /\ pause \in [Thread -> 0..2]

\* At most one thread collects at a time, also while a concurrent collection
\* has let go of the heap lock, and gcRunning covers its whole length
\* (dvmCollectGarbageInternal, "Attempted recursive GC").
OneCollection ==
  \A t \in Thread : pause[t] > 0 =>
    /\ \A u \in Others(t) : pause[u] = 0
    /\ gcRunning \/ (pc[t] \in {"resLock", "resList", "resListWait", "resCount",
                                "resUnlock", "resWake"} /\ heapOwner = t)

\* A thread asleep on gcHeapCond sleeps only as long as a collection runs
\* (dvmBroadcastCond at the end of dvmCollectGarbageInternal).
GcWaitersAreWoken == gcWaiters # {} => gcRunning

\* Every collection ends: its pauses and its waits for the heap lock, which
\* it gives up to the threads that allocate meanwhile, do not lock up.
CollectionEnds == gcRunning ~> ~gcRunning

\* A collector's pause stops everybody.  The only thread that is ever in managed
\* code while a dumper has the world stopped is one that comes from the end of a
\* concurrent collection, and it has a request against it, so it stops at its
\* next safe point (dvmCollectGarbageInternal, dvmSuspendAllThreads).
OnlyCollectorsReturn ==
  \A s \in Thread : WorldStoppedBy(s) => \A t \in Others(s) : pc[t] = "run" =>
    pause[s] = 0 /\ t \in Explicit \cup Daemon /\ suspendCount[t] # 0

\* The abstract view of the pauses, next to dumps that stop the world too: they
\* alone make nobody enter managed code from their stop to their resume.
PausedBy(s) == pause[s] > 0 /\ WorldStoppedBy(s)

Pausing == INSTANCE StopTheWorld WITH
  managed <- {t \in Thread : pc[t] = "run"},
  stopper <- IF \E s \in Thread : PausedBy(s)
             THEN CHOOSE s \in Thread : PausedBy(s) ELSE NoThread

PausesStopTheWorld == Pausing!Spec

\* The comment in dvmSuspendAllThreads: "Any attempt to transition back to
\* THREAD_RUNNING will cause a check for suspension, so it should be
\* impossible for anything to execute interpreted code".
NothingRunsWhileStopped == WorldStopped

=============================================================================
