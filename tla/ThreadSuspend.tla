--------------------------- MODULE ThreadSuspend ---------------------------
(***************************************************************************)
(* The thread suspension protocol of vm/Thread.cpp: how a thread that      *)
(* wants the world stopped (the SIGQUIT dump, the debugger, the profiler   *)
(* and, in module GcStop, the collector) makes every other thread stop at  *)
(* a safe point, and how the stopped threads come back.                    *)
(*                                                                         *)
(* One pc per thread names the point of the code the thread is at.  The    *)
(* critical sections under threadSuspendCountLock contain no blocking call *)
(* other than the wait that releases it, so each is one action and the     *)
(* lock itself is not a variable.  Time is abstracted: a spin loop that    *)
(* the code aborts after some seconds is here a step that stays disabled.  *)
(***************************************************************************)
EXTENDS Naturals, FiniteSets

CONSTANTS
  Thread,       \* the attached threads, all on gDvm.threadList
  Dumper,       \* those that may stop the world (SIGQUIT, debugger, profiler)
  Tracer,       \* those that may take another thread's stack trace
  LockUser,     \* those that take VM-internal locks (internLock and the like)
  NoThread      \* "nobody owns the mutex"

ASSUME RolesAssumption ==
  /\ IsFiniteSet(Thread)
  /\ Dumper \subseteq Thread /\ Tracer \subseteq Thread
  /\ LockUser \subseteq Thread /\ NoThread \notin Thread

VARIABLES
  status,       \* Thread.status, the states the protocol tells apart
  closed,       \* m_pNativeStackPointer # NULL: the stack may be scanned
  oldStatus,    \* the status a blocked thread will restore
  oldClosed,    \* and whether its stack was closed (old_sp)
  suspendCount, \* Thread.suspendCount
  waiters,      \* threads asleep on threadSuspendCountCond, not yet woken
  susOwner,     \* owner of _threadSuspendLock
  listOwner,    \* owner of threadListLock
  vmOwner,      \* owner of internLock, jniGlobalRefLock, ..., as one lock
  pc,           \* where the thread is
  ret,          \* where a suspend check returns to
  await         \* threads this thread still has to see stopped

savedVars == <<oldStatus, oldClosed>>
threadVars == <<status, closed, savedVars>>
countVars == <<suspendCount, waiters>>
lockVars == <<susOwner, listOwner, vmOwner>>
ctlVars == <<pc, ret, await>>
vars == <<threadVars, countVars, lockVars, ctlVars>>

Status == {"RUNNING", "NATIVE", "VMWAIT", "SUSPENDED"}

\* The points a thread can be at, and those a suspend check returns to.
ReturnPoint == {"run", "susLock", "susRelock", "resLock"}
Point == ReturnPoint \cup
  { "native", "check", "full", "asleep", "vmWant", "vmHold",
    "susVm", "susSelf", "susList", "susListWait", "susCount", "susWait",
    "stopped",
    "resList", "resListWait", "resCount", "resUnlock", "resWake",
    "trList", "trListWait", "trFind", "trWait", "trLook", "trUnlock" }

Init ==
  /\ status = [t \in Thread |-> "RUNNING"]
  /\ closed = [t \in Thread |-> FALSE]
  /\ oldStatus = [t \in Thread |-> "RUNNING"]
  /\ oldClosed = [t \in Thread |-> FALSE]
  /\ suspendCount = [t \in Thread |-> 0]
  /\ waiters = {}
  /\ susOwner = NoThread /\ listOwner = NoThread /\ vmOwner = NoThread
  /\ pc = [t \in Thread |-> "run"]
  /\ ret = [t \in Thread |-> "run"]
  /\ await = [t \in Thread |-> {}]

At(t, here) == pc[t] = here
Goto(t, there) == pc' = [pc EXCEPT ![t] = there]

\* Call the suspend check from "from", to come back to that point.
CallCheck(t, where, from) ==
  /\ Goto(t, where)
  /\ ret' = [ret EXCEPT ![t] = from]

\* Remember the status and the stack to restore after blocking.
SaveState(t) ==
  /\ oldStatus' = [oldStatus EXCEPT ![t] = status[t]]
  /\ oldClosed' = [oldClosed EXCEPT ![t] = closed[t]]

Others(t) == Thread \ {t}

\* dvmAddToSuspendCounts for every thread of a set.
AddToSuspendCounts(S, delta) ==
  suspendCount' = [t \in Thread |-> IF t \in S THEN suspendCount[t] + delta
                                    ELSE suspendCount[t]]

\* A resume takes one request back from the threads that have one.
TakeFromSuspendCounts(S) ==
  suspendCount' = [t \in Thread |-> IF t \in S /\ suspendCount[t] > 0
                                    THEN suspendCount[t] - 1
                                    ELSE suspendCount[t]]

-----------------------------------------------------------------------------
(* Leaving and re-entering managed code: dvmChangeStatus.                  *)

\* Close the stack and leave managed code for native code.
EnterNative(t) ==
  /\ At(t, "run")
  /\ closed' = [closed EXCEPT ![t] = TRUE]
  /\ status' = [status EXCEPT ![t] = "NATIVE"]
  /\ Goto(t, "native")
  /\ UNCHANGED <<savedVars, countVars, lockVars, ret, await>>

\* Coming back: RUNNING and open first, only then the suspend check.
LeaveNative(t) ==
  /\ At(t, "native")
  /\ status' = [status EXCEPT ![t] = "RUNNING"]
  /\ closed' = [closed EXCEPT ![t] = FALSE]
  /\ CallCheck(t, "check", "run")
  /\ UNCHANGED <<savedVars, countVars, lockVars, await>>

-----------------------------------------------------------------------------
(* Safe points: dvmCheckSuspendPending and fullSuspendCheck.               *)

\* The unlocked read of suspendCount.
CheckSuspendPending(t) ==
  /\ At(t, "check")
  /\ Goto(t, IF suspendCount[t] = 0 THEN ret[t] ELSE "full")
  /\ UNCHANGED <<threadVars, countVars, lockVars, ret, await>>

\* Mutant: the safe point compares with one instead of zero.
SafePointAboveOne(t) ==
  /\ At(t, "run") /\ suspendCount[t] > 1
  /\ CallCheck(t, "full", "run")
  /\ UNCHANGED <<threadVars, countVars, lockVars, await>>

\* A safe point of running code that finds a request.
SafePoint(t) ==
  /\ At(t, "run") /\ suspendCount[t] # 0
  /\ CallCheck(t, "full", "run")
  /\ UNCHANGED <<threadVars, countVars, lockVars, await>>

\* Under threadSuspendCountLock: nothing to do, or go to sleep.
FullSuspendCheck(t) ==
  /\ At(t, "full")
  /\ \/ /\ suspendCount[t] = 0
        /\ Goto(t, ret[t])
        /\ UNCHANGED <<threadVars, waiters>>
     \/ /\ suspendCount[t] # 0
        /\ SaveState(t)
        /\ status' = [status EXCEPT ![t] = "SUSPENDED"]
        /\ closed' = [closed EXCEPT ![t] = TRUE]
        /\ waiters' = waiters \cup {t}
        /\ Goto(t, "asleep")
  /\ UNCHANGED <<suspendCount, lockVars, ret, await>>

\* The condition was signalled: revive, or wait again.
WakeUp(t) ==
  /\ At(t, "asleep") /\ t \notin waiters
  /\ \/ /\ suspendCount[t] # 0
        /\ waiters' = waiters \cup {t}
        /\ UNCHANGED <<status, closed, pc>>
     \/ /\ suspendCount[t] = 0
        /\ status' = [status EXCEPT ![t] = oldStatus[t]]
        /\ closed' = [closed EXCEPT ![t] = oldClosed[t]]
        /\ Goto(t, ret[t])
        /\ UNCHANGED waiters
  /\ UNCHANGED <<savedVars, suspendCount, lockVars, ret, await>>

-----------------------------------------------------------------------------
(* The mutexes.                                                            *)

\* VM-internal code that takes a plain mutex (interning a string, adding a
\* global reference, looking a class up) without changing its status.
WantVmLock(t) ==
  /\ t \in LockUser /\ At(t, "run")
  /\ Goto(t, "vmWant")
  /\ UNCHANGED <<threadVars, countVars, lockVars, ret, await>>

TakeVmLock(t) ==
  /\ At(t, "vmWant") /\ vmOwner = NoThread
  /\ vmOwner' = t
  /\ Goto(t, "vmHold")
  /\ UNCHANGED <<threadVars, countVars, susOwner, listOwner, ret, await>>

DropVmLock(t) ==
  /\ At(t, "vmHold")
  /\ vmOwner' = NoThread
  /\ Goto(t, "run")
  /\ UNCHANGED <<threadVars, countVars, susOwner, listOwner, ret, await>>

\* lockThreadSuspend: try the lock; a failure makes us check for a request,
\* and with none pending we spin (the code gives up after three seconds).
LockThreadSuspend(t, here, next) ==
  /\ At(t, here)
  /\ \/ /\ susOwner = NoThread
        /\ susOwner' = t
        /\ Goto(t, next)
        /\ UNCHANGED ret
     \/ /\ susOwner # NoThread /\ suspendCount[t] # 0
        /\ CallCheck(t, "full", here)
        /\ UNCHANGED susOwner
  /\ UNCHANGED <<threadVars, countVars, listOwner, vmOwner, await>>

\* dvmLockThreadList: try; else block as a closed VMWAIT thread ...
LockThreadList(t, here, wait, next) ==
  /\ At(t, here)
  /\ \/ /\ listOwner = NoThread
        /\ listOwner' = t
        /\ Goto(t, next)
        /\ UNCHANGED threadVars
     \/ /\ listOwner # NoThread
        /\ SaveState(t)
        /\ status' = [status EXCEPT ![t] = "VMWAIT"]
        /\ closed' = [closed EXCEPT ![t] = TRUE]
        /\ Goto(t, wait)
        /\ UNCHANGED listOwner
  /\ UNCHANGED <<countVars, susOwner, vmOwner, ret, await>>

\* ... and restore the old status with a plain store, without the check.
GotThreadList(t, wait, next) ==
  /\ At(t, wait) /\ listOwner = NoThread
  /\ listOwner' = t
  /\ status' = [status EXCEPT ![t] = oldStatus[t]]
  /\ closed' = [closed EXCEPT ![t] = oldClosed[t]]
  /\ Goto(t, next)
  /\ UNCHANGED <<savedVars, countVars, susOwner, vmOwner, ret, await>>

\* What waitForThreadSuspend polls.
LooksStopped(t) == status[t] # "RUNNING" /\ closed[t]

-----------------------------------------------------------------------------
(* dvmSuspendAllThreads.                                                   *)

StartSuspendAll(t) ==
  /\ t \in Dumper /\ At(t, "run")
  /\ Goto(t, "susLock")
  /\ UNCHANGED <<threadVars, countVars, lockVars, ret, await>>

TakeVmLocks(t) ==
  /\ At(t, "susVm") /\ vmOwner = NoThread
  /\ vmOwner' = t
  /\ Goto(t, "susSelf")
  /\ UNCHANGED <<threadVars, countVars, susOwner, listOwner, ret, await>>

\* "while (self->suspendCount != 0)": step aside for a request against us,
\* giving _threadSuspendLock up but keeping the VM-internal locks.
YieldToSuspend(t) ==
  /\ At(t, "susSelf")
  /\ \/ /\ suspendCount[t] = 0
        /\ Goto(t, "susList")
        /\ UNCHANGED <<susOwner, ret>>
     \/ /\ suspendCount[t] # 0
        /\ susOwner' = NoThread
        /\ CallCheck(t, "check", "susRelock")
  /\ UNCHANGED <<threadVars, countVars, listOwner, vmOwner, await>>

\* Mutant: no request for a thread that is in native code already.
SuspendRunning(t) ==
  /\ At(t, "susCount")
  /\ AddToSuspendCounts({u \in Others(t) : ~LooksStopped(u)}, 1)
  /\ vmOwner' = NoThread
  /\ await' = [await EXCEPT ![t] = Others(t)]
  /\ Goto(t, "susWait")
  /\ UNCHANGED <<threadVars, waiters, susOwner, listOwner, ret>>

\* One request for everybody else, then release the VM-internal locks.
SuspendOthers(t) ==
  /\ At(t, "susCount")
  /\ AddToSuspendCounts(Others(t), 1)
  /\ vmOwner' = NoThread
  /\ await' = [await EXCEPT ![t] = Others(t)]
  /\ Goto(t, "susWait")
  /\ UNCHANGED <<threadVars, waiters, susOwner, listOwner, ret>>

\* Mutant: the wait ends with the first thread seen stopped.
SeeOneStopped(t) ==
  /\ At(t, "susWait")
  /\ \E u \in await[t] : LooksStopped(u)
  /\ susOwner' = NoThread /\ listOwner' = NoThread
  /\ Goto(t, "stopped")
  /\ UNCHANGED <<threadVars, countVars, vmOwner, ret, await>>

\* waitForThreadSuspend on each thread of the list, then drop both locks.
SeeStopped(t) ==
  /\ At(t, "susWait")
  /\ \/ \E u \in await[t] :
          /\ LooksStopped(u)
          /\ await' = [await EXCEPT ![t] = @ \ {u}]
          /\ UNCHANGED <<susOwner, listOwner, pc>>
     \/ /\ await[t] = {}
        /\ susOwner' = NoThread /\ listOwner' = NoThread
        /\ Goto(t, "stopped")
        /\ UNCHANGED await
  /\ UNCHANGED <<threadVars, countVars, vmOwner, ret>>

\* The work done with the world stopped takes the VM-internal locks itself.
Inspect(t) ==
  /\ At(t, "stopped") /\ vmOwner = NoThread
  /\ Goto(t, "resLock")
  /\ UNCHANGED <<threadVars, countVars, lockVars, ret, await>>

-----------------------------------------------------------------------------
(* dvmResumeAllThreads.                                                    *)

ResumeOthers(t) ==
  /\ At(t, "resCount")
  /\ TakeFromSuspendCounts(Others(t))
  /\ listOwner' = NoThread
  /\ Goto(t, "resUnlock")
  /\ UNCHANGED <<threadVars, waiters, susOwner, vmOwner, ret, await>>

UnlockThreadSuspend(t) ==
  /\ At(t, "resUnlock")
  /\ susOwner' = NoThread
  /\ Goto(t, "resWake")
  /\ UNCHANGED <<threadVars, countVars, listOwner, vmOwner, ret, await>>

\* Mutant: the broadcast is forgotten.
WakeNobody(t, next) ==
  /\ At(t, "resWake")
  /\ Goto(t, next)
  /\ UNCHANGED <<threadVars, countVars, lockVars, ret, await>>

\* The broadcast, and the return of dvmResumeAllThreads to point "next".
WakeOthers(t, next) ==
  /\ At(t, "resWake")
  /\ waiters' = {}
  /\ Goto(t, next)
  /\ UNCHANGED <<threadVars, suspendCount, lockVars, ret, await>>

-----------------------------------------------------------------------------
(* One thread's stack trace: getTraceBuf, with dvmSuspendThread and        *)
(* dvmResumeThread, all under threadListLock.                              *)

StartTrace(t) ==
  /\ t \in Tracer /\ At(t, "run")
  /\ Goto(t, "trList")
  /\ UNCHANGED <<threadVars, countVars, lockVars, ret, await>>

\* Search the list: found, or no longer there.
SuspendThread(t) ==
  /\ At(t, "trFind")
  /\ \/ \E u \in Others(t) :
          /\ AddToSuspendCounts({u}, 1)
          /\ await' = [await EXCEPT ![t] = {u}]
          /\ Goto(t, "trWait")
     \/ /\ Goto(t, "trUnlock")
        /\ UNCHANGED <<suspendCount, await>>
  /\ UNCHANGED <<threadVars, waiters, lockVars, ret>>

WaitForThreadSuspend(t) ==
  /\ At(t, "trWait") /\ \A u \in await[t] : LooksStopped(u)
  /\ Goto(t, "trLook")
  /\ UNCHANGED <<threadVars, countVars, lockVars, ret, await>>

\* Take the request back; the last one to do so wakes the sleepers.
ResumeThread(t) ==
  /\ At(t, "trLook")
  /\ TakeFromSuspendCounts(await[t])
  /\ waiters' = IF \E u \in await[t] : suspendCount'[u] = 0 THEN {} ELSE waiters
  /\ await' = [await EXCEPT ![t] = {}]
  /\ Goto(t, "trUnlock")
  /\ UNCHANGED <<threadVars, lockVars, ret>>

UnlockThreadList(t) ==
  /\ At(t, "trUnlock")
  /\ listOwner' = NoThread
  /\ Goto(t, "run")
  /\ UNCHANGED <<threadVars, countVars, susOwner, vmOwner, ret, await>>

-----------------------------------------------------------------------------
\* The steps between a call of dvmSuspendAllThreads and its return.
SuspendAllStep(t) ==
  \/ LockThreadSuspend(t, "susLock", "susVm")
  \/ TakeVmLocks(t)
  \/ YieldToSuspend(t)
  \/ LockThreadSuspend(t, "susRelock", "susSelf")
  \/ LockThreadList(t, "susList", "susListWait", "susCount")
  \/ GotThreadList(t, "susListWait", "susCount")
  \/ SuspendOthers(t)
  \/ SeeStopped(t)

\* The steps between a call of dvmResumeAllThreads and its broadcast.
ResumeAllStep(t) ==
  \/ LockThreadSuspend(t, "resLock", "resList")
  \/ LockThreadList(t, "resList", "resListWait", "resCount")
  \/ GotThreadList(t, "resListWait", "resCount")
  \/ ResumeOthers(t)
  \/ UnlockThreadSuspend(t)

TraceStep(t) ==
  \/ LockThreadList(t, "trList", "trListWait", "trFind")
  \/ GotThreadList(t, "trListWait", "trFind")
  \/ SuspendThread(t)
  \/ WaitForThreadSuspend(t)
  \/ ResumeThread(t)
  \/ UnlockThreadList(t)

CheckStep(t) == CheckSuspendPending(t) \/ SafePoint(t) \/ FullSuspendCheck(t) \/ WakeUp(t)

\* What a thread does because the code obliges it to go on.
Obliged(t) ==
  \/ CheckStep(t) \/ TakeVmLock(t) \/ DropVmLock(t)
  \/ SuspendAllStep(t) \/ Inspect(t) \/ ResumeAllStep(t) \/ WakeOthers(t, "run")
  \/ TraceStep(t)

\* What a thread may choose to do.
Chosen(t) ==
  EnterNative(t) \/ LeaveNative(t) \/ WantVmLock(t) \/ StartSuspendAll(t) \/ StartTrace(t)

Next == \E t \in Thread : Obliged(t) \/ Chosen(t)

Spec == Init /\ [][Next]_vars

\* Every thread that is not blocked is scheduled eventually, and one that is
\* in managed code again and again meets a safe point (the compiled code
\* checks at loop back edges); a mutex does not starve who waits for it;
\* nothing obliges a thread to leave native code or to start an operation.
Fairness == \A t \in Thread :
  /\ WF_vars(Obliged(t))
  /\ SF_vars(SafePoint(t))
  /\ SF_vars(TakeVmLock(t) \/ TakeVmLocks(t))

FairSpec == Spec /\ Fairness

-----------------------------------------------------------------------------
(* Properties.                                                             *)

TypeOK ==
  /\ status \in [Thread -> Status]
  /\ closed \in [Thread -> BOOLEAN]
  /\ oldStatus \in [Thread -> Status]
  /\ oldClosed \in [Thread -> BOOLEAN]
  /\ suspendCount \in [Thread -> Nat]
  /\ waiters \subseteq Thread
  /\ susOwner \in Thread \cup {NoThread}
  /\ listOwner \in Thread \cup {NoThread}
  /\ vmOwner \in Thread \cup {NoThread}
  /\ pc \in [Thread -> Point]
  /\ ret \in [Thread -> ReturnPoint]
  /\ await \in [Thread -> SUBSET Thread]

\* Where a thread is in its operation, seen through a suspend check.
Where(t) == IF pc[t] \in {"check", "full", "asleep"} THEN ret[t] ELSE pc[t]

\* dvmSuspendAllThreads has returned to s and s has not undone it yet.
WorldStoppedBy(s) ==
  Where(s) \in {"stopped", "resLock", "resList", "resListWait", "resCount"}

\* s has asked every other thread to stop.
HasSuspendedAll(s) == pc[s] = "susWait" \/ WorldStoppedBy(s)

\* s has asked t to stop in order to read its stack.
HasSuspended(s, t) == pc[s] \in {"trWait", "trLook"} /\ t \in await[s]

\* While the world is stopped for a thread no other thread is in managed
\* code, though threads come back from native code at any time and read
\* their suspendCount without a lock (dvmSuspendAllThreads, dvmChangeStatus).
WorldStopped ==
  \A s \in Thread : WorldStoppedBy(s) => \A t \in Others(s) : pc[t] # "run"

\* A thread's suspendCount is exactly the number of requests outstanding
\* against it: no resume takes away a request that is not its own, and no
\* request is lost (dvmAddToSuspendCounts and its callers).
CountsRequests ==
  \A t \in Thread :
    suspendCount[t] = Cardinality({s \in Others(t) : HasSuspendedAll(s)})
                      + Cardinality({s \in Others(t) : HasSuspended(s, t)})

\* A thread asleep with no request against it has its wake-up on the way:
\* dvmResumeAllThreads lets go of threadSuspendCountLock, and of
\* _threadSuspendLock, between the decrement and the broadcast.
NoLostWakeUp ==
  \A t \in waiters : suspendCount[t] = 0 =>
    \E s \in Thread : pc[s] \in {"resUnlock", "resWake"}

\* Why WorldStopped holds when nobody takes stack traces: the inductive
\* invariant of its proof.  _threadSuspendLock is held where the code says,
\* a thread that stops the world has no request against itself, and whoever
\* it has seen stopped has its request and cannot get past the suspend check.
StopPoint == {"stopped", "resLock", "resList", "resListWait", "resCount"}
SusPoint == {"susList", "susListWait", "susCount", "susWait"}
Parked(t) == pc[t] \in {"native", "check", "full", "asleep"}

SuspendLockHeld ==
  \A t \in Thread :
    pc[t] \in SusPoint \cup {"susVm", "susSelf", "resList", "resListWait",
                             "resCount", "resUnlock"} => susOwner = t

StatusShown ==
  \A t \in Thread :
    /\ status[t] = "RUNNING" \/ pc[t] \in {"native", "asleep", "susListWait", "resListWait"}
    /\ pc[t] \in {"asleep", "susListWait", "resListWait"} => oldStatus[t] = "RUNNING"

StopperFree ==
  \A t \in Thread :
    /\ pc[t] \in SusPoint \cup StopPoint => suspendCount[t] = 0
    /\ pc[t] \in {"check", "full", "asleep"} => ret[t] # "resLock"

SeenAreParked ==
  \A s \in Thread : \A t \in Others(s) :
    /\ pc[s] \in StopPoint \cup {"susWait"} => suspendCount[t] # 0
    /\ pc[s] \in StopPoint => Parked(t)
    /\ pc[s] = "susWait" /\ t \notin await[s] => Parked(t)

NoTraces ==
  \A t \in Thread :
    pc[t] \notin {"trList", "trListWait", "trFind", "trWait", "trLook", "trUnlock"}

StopInv ==
  /\ TypeOK
  /\ SuspendLockHeld /\ StatusShown /\ StopperFree /\ SeenAreParked /\ NoTraces

\* A thread that has asked the others to stop sees them stopped in the end,
\* and the world is not left stopped: it gets through to the broadcast
\* (dvmSuspendAllThreads, dvmResumeAllThreads).
StopCompletes ==
  \A s \in Thread : HasSuspendedAll(s) ~> ~HasSuspendedAll(s)

\* The abstract view: who is in managed code, and for whom the world stands.
Abstract == INSTANCE StopTheWorld WITH
  managed <- {t \in Thread : pc[t] = "run"},
  stopper <- IF \E s \in Thread : WorldStoppedBy(s)
             THEN CHOOSE s \in Thread : WorldStoppedBy(s) ELSE NoThread

StopsTheWorld == Abstract!Spec

\* vm/Thread.cpp says of dvmLockThreadList that once a thread has the list
\* lock "by definition there isn't a GC in progress".
ListLockExcludesStop ==
  \A t \in Thread : pc[t] = "trFind" =>
    ~ \E s \in Others(t) : WorldStoppedBy(s)

=============================================================================
