------------------------------ MODULE Monitor ------------------------------
(***************************************************************************)
(* The monitor of one object, vm/Sync.cpp: a thin lock (owner and count in *)
(* the object's lock word, taken with a compare-and-swap, waited for by    *)
(* polling) that is inflated, for good, to a fat one (a mutex, an owner, a *)
(* count and a wait set), with wait, notify, notifyAll and interrupt.      *)
(*                                                                         *)
(* The critical sections under a thread's waitMutex contain no blocking    *)
(* call but the wait that releases it and are one action each.  Left out:  *)
(* the hash bits of the lock word, lock contention sampling, the status    *)
(* changes around blocking (module ThreadSuspend), freeing the monitors of *)
(* dead objects.                                                           *)
(***************************************************************************)
EXTENDS Naturals, Sequences

CONSTANTS
  Thread,
  NoThread,     \* thread id 0: unowned
  CountMask,    \* LW_LOCK_COUNT_MASK: 8191 in the code
  MaxHolds,     \* bound: how deep callers nest (the code has none)
  Timed,        \* threads whose waits have a timeout
  Throwing,     \* threads whose waits pass interruptShouldThrow
  Interrupter,  \* threads that call Thread.interrupt
  Querier       \* threads that call Thread.interrupted

ASSUME MonitorAssumption ==
  /\ NoThread \notin Thread
  /\ CountMask \in Nat \ {0} /\ MaxHolds \in Nat

VARIABLES
  fat,          \* the shape bit of the lock word
  thinOwner,    \* LW_LOCK_OWNER of a thin word
  thinCount,    \* LW_LOCK_COUNT of a thin word
  owner,        \* Monitor.owner
  count,        \* Monitor.lockCount
  mutex,        \* who has Monitor.lock
  waitSet,      \* Monitor.waitSet
  waitMonitor,  \* threads whose waitMonitor is set
  interrupted,  \* threads whose interrupted flag is set
  signalled,    \* threads whose waitCond was signalled since they slept
  pc,
  saved,        \* prevLockCount of a waiting thread
  seen,         \* threads that read their interrupted flag as set
  pending,      \* the exception the last operation left
  result,       \* what dvmUnlockObject returned, if it came last
  held,         \* history: how often the caller has entered and not left
  owed          \* history: threads interrupted, and not told so yet

thinVars == <<thinOwner, thinCount>>
fatVars == <<owner, count, mutex>>
lockVars == <<fat, thinVars, fatVars>>
waitVars == <<waitMonitor, interrupted, signalled, seen, owed>>
callVars == <<pending, result>>
vars == <<lockVars, waitSet, waitVars, callVars, pc, saved, held>>

WaitPoint == {"prep", "asleep", "relock", "done"}
Point == WaitPoint \cup
  {"run", "enter", "cas", "spin", "spinCas", "fatten", "blocked",
   "woke", "notify", "notifyAll", "query"}

Init ==
  /\ fat = FALSE /\ thinOwner = NoThread /\ thinCount = 0
  /\ owner = NoThread /\ count = 0 /\ mutex = NoThread
  /\ waitSet = <<>>
  /\ waitMonitor = {} /\ interrupted = {} /\ signalled = {} /\ seen = {} /\ owed = {}
  /\ pc = [t \in Thread |-> "run"]
  /\ saved = [t \in Thread |-> 0]
  /\ pending = [t \in Thread |-> "none"]
  /\ result = [t \in Thread |-> "void"]
  /\ held = [t \in Thread |-> 0]

At(t, here) == pc[t] = here
Goto(t, there) == pc' = [pc EXCEPT ![t] = there]

\* The operation returns: with a value (or "void") and maybe an exception.
Returns(t, value, exception) ==
  /\ Goto(t, "run")
  /\ result' = [result EXCEPT ![t] = value]
  /\ pending' = [pending EXCEPT ![t] = exception]

OwnsThin(t) == ~fat /\ thinOwner = t
OwnsFat(t) == fat /\ owner = t

\* dvmHoldsLock for the thread itself.
HoldsLock(t) == OwnsThin(t) \/ OwnsFat(t)

Entered(t) ==
  /\ held' = [held EXCEPT ![t] = @ + 1]
  /\ Returns(t, "void", "none")

\* The lock word of a thin lock that is, or becomes, a fat one's.
DropThin == thinOwner' = NoThread /\ thinCount' = 0

\* Mutant: the recursion count is lost.
InflateUncounted(t, n) ==
  /\ fat' = TRUE /\ DropThin
  /\ mutex' = t /\ owner' = t /\ count' = 0

\* inflateMonitor: a fresh monitor, locked, takes the count over and is
\* published; nobody else has seen it before.
InflateMonitor(t, n) ==
  /\ fat' = TRUE /\ DropThin
  /\ mutex' = t /\ owner' = t /\ count' = n

-----------------------------------------------------------------------------
(* dvmLockObject and lockMonitor.                                          *)

StartLock(t) ==
  /\ At(t, "run") /\ held[t] < MaxHolds
  /\ Goto(t, "enter")
  /\ UNCHANGED <<lockVars, waitSet, waitVars, callVars, saved, held>>

\* Our own thin lock: count, and inflate before the count can overflow.
LockAgain(t) ==
  /\ At(t, "enter") /\ OwnsThin(t)
  /\ IF thinCount + 1 = CountMask
     THEN InflateMonitor(t, CountMask)
     ELSE thinCount' = thinCount + 1 /\ UNCHANGED <<fat, thinOwner, fatVars>>
  /\ Entered(t)
  /\ UNCHANGED <<waitSet, waitVars, saved>>

\* A thin lock of nobody's or of somebody else's.
ReadThin(t) ==
  /\ At(t, "enter") /\ ~fat /\ thinOwner # t
  /\ Goto(t, IF thinOwner = NoThread THEN "cas" ELSE "spin")
  /\ UNCHANGED <<lockVars, waitSet, waitVars, callVars, saved, held>>

\* Mutant: a plain store where the code compares and swaps.
StoreOwner(t) ==
  /\ ~fat
  /\ thinOwner' = t
  /\ UNCHANGED <<fat, thinCount, fatVars>>

\* The compare-and-swap of the lock word read as thin and unowned.
InstallOwner(t) ==
  /\ ~fat /\ thinOwner = NoThread
  /\ thinOwner' = t
  /\ UNCHANGED <<fat, thinCount, fatVars>>

CasFails == fat \/ thinOwner # NoThread

AcquireThin(t) ==
  /\ At(t, "cas")
  /\ \/ InstallOwner(t) /\ Entered(t)
     \/ CasFails /\ Goto(t, "enter") /\ UNCHANGED <<lockVars, callVars, held>>
  /\ UNCHANGED <<waitSet, waitVars, saved>>

\* One poll of the spinning thread: released, or inflated meanwhile.
Spin(t) ==
  /\ At(t, "spin")
  /\ \/ ~fat /\ thinOwner = NoThread /\ Goto(t, "spinCas")
     \/ fat /\ Goto(t, "enter")
  /\ UNCHANGED <<lockVars, waitSet, waitVars, callVars, saved, held>>

SpinAcquire(t) ==
  /\ At(t, "spinCas")
  /\ \/ InstallOwner(t) /\ Goto(t, "fatten")
     \/ CasFails /\ Goto(t, "spin") /\ UNCHANGED lockVars
  /\ UNCHANGED <<waitSet, waitVars, callVars, saved, held>>

\* Who had to spin fattens the lock.
Fatten(t) ==
  /\ At(t, "fatten")
  /\ InflateMonitor(t, thinCount)
  /\ Entered(t)
  /\ UNCHANGED <<waitSet, waitVars, saved>>

TakeMutex(t) ==
  /\ mutex = NoThread
  /\ mutex' = t /\ owner' = t
  /\ UNCHANGED <<fat, thinVars, count>>

\* lockMonitor: again, at once, or after blocking on the mutex.
LockMonitor(t) ==
  /\ At(t, "enter") /\ fat
  /\ \/ /\ owner = t
        /\ count' = count + 1
        /\ Entered(t)
        /\ UNCHANGED <<fat, thinVars, owner, mutex>>
     \/ owner # t /\ TakeMutex(t) /\ Entered(t)
     \/ /\ owner # t /\ mutex # NoThread
        /\ Goto(t, "blocked")
        /\ UNCHANGED <<lockVars, callVars, held>>
  /\ UNCHANGED <<waitSet, waitVars, saved>>

GotMutex(t) ==
  /\ At(t, "blocked") /\ TakeMutex(t) /\ Entered(t)
  /\ UNCHANGED <<waitSet, waitVars, saved>>

-----------------------------------------------------------------------------
(* dvmUnlockObject and unlockMonitor.                                      *)

Left(t) ==
  /\ held' = [held EXCEPT ![t] = @ - 1]
  /\ Returns(t, "true", "none")

UnlockThin(t) ==
  /\ At(t, "run") /\ OwnsThin(t)
  /\ \/ thinCount = 0 /\ thinOwner' = NoThread /\ UNCHANGED thinCount
     \/ thinCount > 0 /\ thinCount' = thinCount - 1 /\ UNCHANGED thinOwner
  /\ Left(t)
  /\ UNCHANGED <<fat, fatVars, waitSet, waitVars, saved>>

\* Mutants: every unlock releases; the mutex is not released.
UnlockAtOnce(t) ==
  /\ At(t, "run") /\ OwnsFat(t)
  /\ owner' = NoThread /\ mutex' = NoThread /\ count' = 0
  /\ Left(t)
  /\ UNCHANGED <<fat, thinVars, waitSet, waitVars, saved>>

UnlockOwnerOnly(t) ==
  /\ At(t, "run") /\ OwnsFat(t)
  /\ owner' = NoThread
  /\ Left(t)
  /\ UNCHANGED <<fat, thinVars, count, mutex, waitSet, waitVars, saved>>

UnlockMonitor(t) ==
  /\ At(t, "run") /\ OwnsFat(t)
  /\ \/ count = 0 /\ owner' = NoThread /\ mutex' = NoThread /\ UNCHANGED count
     \/ count > 0 /\ count' = count - 1 /\ UNCHANGED <<owner, mutex>>
  /\ Left(t)
  /\ UNCHANGED <<fat, thinVars, waitSet, waitVars, saved>>

\* Not the owner: the thin case throws but falls through to "return true".
UnlockFails(t) ==
  /\ At(t, "run") /\ ~HoldsLock(t)
  /\ Returns(t, IF fat THEN "false" ELSE "true", "IllegalMonitorState")
  /\ UNCHANGED <<lockVars, waitSet, waitVars, saved, held>>

-----------------------------------------------------------------------------
(* dvmObjectWait and waitMonitor.                                          *)

\* Append to the wait set, remember the count, give the ownership up; the
\* mutex is still ours.  A thin lock is inflated first.
ObjectWait(t) ==
  /\ At(t, "run") /\ HoldsLock(t)
  /\ waitSet' = Append(waitSet, t)
  /\ saved' = [saved EXCEPT ![t] = IF fat THEN count ELSE thinCount]
  /\ fat' = TRUE /\ DropThin
  /\ mutex' = t /\ owner' = NoThread /\ count' = 0
  /\ Goto(t, "prep")
  /\ UNCHANGED <<waitVars, callVars, held>>

\* Mutant: the flag is not read on the way into wait.
PrepareWaitUnchecked(t) ==
  /\ At(t, "prep")
  /\ waitMonitor' = waitMonitor \cup {t}
  /\ mutex' = NoThread
  /\ Goto(t, "asleep")
  /\ UNCHANGED <<fat, thinVars, owner, count, waitSet, interrupted, signalled, seen,
                 owed, callVars, saved, held>>

\* Under waitMutex: bail out of the wait if interrupted already, else
\* release the mutex and sleep.
PrepareWait(t) ==
  /\ At(t, "prep")
  /\ \/ /\ t \in interrupted
        /\ seen' = seen \cup {t}
        /\ Goto(t, "done")
        /\ UNCHANGED <<waitMonitor, mutex>>
     \/ /\ t \notin interrupted
        /\ waitMonitor' = waitMonitor \cup {t}
        /\ mutex' = NoThread
        /\ Goto(t, "asleep")
        /\ UNCHANGED seen
  /\ UNCHANGED <<fat, thinVars, owner, count, waitSet, interrupted, signalled, owed,
                 callVars, saved, held>>

\* Mutant: the flag is cleared before it is read.
CondWakesUnread(t) ==
  /\ At(t, "asleep") /\ (t \in signalled \/ t \in Timed)
  /\ interrupted' = interrupted \ {t}
  /\ waitMonitor' = waitMonitor \ {t}
  /\ signalled' = signalled \ {t}
  /\ Goto(t, "relock")
  /\ UNCHANGED <<lockVars, waitSet, seen, owed, callVars, saved, held>>

\* The wait ends by a signal or a timeout, with waitMutex taken again.
CondWakes(t) ==
  /\ At(t, "asleep") /\ (t \in signalled \/ t \in Timed)
  /\ seen' = IF t \in interrupted THEN seen \cup {t} ELSE seen
  /\ interrupted' = interrupted \ {t}
  /\ waitMonitor' = waitMonitor \ {t}
  /\ signalled' = signalled \ {t}
  /\ Goto(t, "relock")
  /\ UNCHANGED <<lockVars, waitSet, owed, callVars, saved, held>>

Relock(t) ==
  /\ At(t, "relock") /\ TakeMutex(t)
  /\ Goto(t, "done")
  /\ UNCHANGED <<waitSet, waitVars, callVars, saved, held>>

\* Owner and count restored, only then out of the wait set.
RestoreMonitor(t) ==
  /\ At(t, "done")
  /\ owner' = t /\ count' = saved[t]
  /\ waitSet' = SelectSeq(waitSet, LAMBDA u : u # t)
  /\ Goto(t, "woke")
  /\ UNCHANGED <<fat, thinVars, mutex, waitVars, callVars, saved, held>>

\* After the suspend check: clear the flag once more, without waitMutex, and
\* throw if the caller asked for it.
WaitReturns(t) ==
  /\ At(t, "woke")
  /\ \/ /\ t \in seen
        /\ interrupted' = interrupted \ {t}
        /\ seen' = seen \ {t}
        /\ \/ t \in Throwing /\ Returns(t, "void", "Interrupted") /\ owed' = owed \ {t}
           \/ t \notin Throwing /\ Returns(t, "void", "none") /\ UNCHANGED owed
     \/ /\ t \notin seen
        /\ Returns(t, "void", "none")
        /\ UNCHANGED <<interrupted, seen, owed>>
  /\ UNCHANGED <<lockVars, waitSet, waitMonitor, signalled, saved, held>>

\* A timeout out of range is only seen after the inflation.
WaitOutOfRange(t) ==
  /\ At(t, "run")
  /\ \/ OwnsThin(t) /\ InflateMonitor(t, thinCount)
     \/ OwnsFat(t) /\ UNCHANGED lockVars
  /\ Returns(t, "void", "IllegalArgument")
  /\ UNCHANGED <<waitSet, waitVars, saved, held>>

\* wait, notify and notifyAll without the lock.
IllegalCall(t) ==
  /\ At(t, "run") /\ ~HoldsLock(t)
  /\ Returns(t, "void", "IllegalMonitorState")
  /\ UNCHANGED <<lockVars, waitSet, waitVars, saved, held>>

-----------------------------------------------------------------------------
(* dvmObjectNotify and dvmObjectNotifyAll.                                 *)

\* A thin lock has no waiters.
NotifyThin(t) ==
  /\ At(t, "run") /\ OwnsThin(t)
  /\ Returns(t, "void", "none")
  /\ UNCHANGED <<lockVars, waitSet, waitVars, saved, held>>

StartNotify(t) ==
  /\ At(t, "run") /\ OwnsFat(t)
  /\ Goto(t, "notify") \/ Goto(t, "notifyAll")
  /\ UNCHANGED <<lockVars, waitSet, waitVars, callVars, saved, held>>

Signal(u) ==
  signalled' = IF u \in waitMonitor THEN signalled \cup {u} ELSE signalled

\* notifyMonitor: unlink the first waiter; if it still waits, signal it and
\* be done, else go on with the next.
NotifyStep(t) ==
  /\ At(t, "notify")
  /\ \/ /\ waitSet = <<>>
        /\ Returns(t, "void", "none")
        /\ UNCHANGED <<waitSet, signalled>>
     \/ /\ waitSet # <<>>
        /\ waitSet' = Tail(waitSet)
        /\ Signal(Head(waitSet))
        /\ IF Head(waitSet) \in waitMonitor
           THEN Returns(t, "void", "none")
           ELSE UNCHANGED <<pc, callVars>>
  /\ UNCHANGED <<lockVars, waitMonitor, interrupted, seen, owed, saved, held>>

NotifyAllStep(t) ==
  /\ At(t, "notifyAll")
  /\ \/ /\ waitSet = <<>>
        /\ Returns(t, "void", "none")
        /\ UNCHANGED <<waitSet, signalled>>
     \/ /\ waitSet # <<>>
        /\ waitSet' = Tail(waitSet)
        /\ Signal(Head(waitSet))
        /\ UNCHANGED <<pc, callVars>>
  /\ UNCHANGED <<lockVars, waitMonitor, interrupted, seen, owed, saved, held>>

-----------------------------------------------------------------------------
(* dvmThreadInterrupt, and Thread.interrupted.                             *)

ThreadInterrupt(t, u) ==
  /\ t \in Interrupter /\ At(t, "run") /\ u \notin interrupted
  /\ interrupted' = interrupted \cup {u}
  /\ owed' = owed \cup {u}
  /\ Signal(u)
  /\ Returns(t, "void", "none")
  /\ UNCHANGED <<lockVars, waitSet, waitMonitor, seen, saved, held>>

\* Read the flag, then clear it, both without waitMutex.
QueryInterrupted(t) ==
  /\ t \in Querier /\ At(t, "run")
  /\ seen' = IF t \in interrupted THEN seen \cup {t} ELSE seen
  /\ Goto(t, "query")
  /\ UNCHANGED <<lockVars, waitSet, waitMonitor, interrupted, signalled, owed,
                 callVars, saved, held>>

ClearInterrupted(t) ==
  /\ At(t, "query")
  /\ interrupted' = interrupted \ {t}
  /\ seen' = seen \ {t}
  /\ owed' = IF t \in seen THEN owed \ {t} ELSE owed
  /\ Returns(t, "void", "none")
  /\ UNCHANGED <<lockVars, waitSet, waitMonitor, signalled, saved, held>>

-----------------------------------------------------------------------------
Unlock(t) == UnlockThin(t) \/ UnlockMonitor(t)

GetMutex(t) == GotMutex(t) \/ Relock(t)

\* The steps inside an operation that has begun.
Continue(t) ==
  \/ LockAgain(t) \/ ReadThin(t) \/ AcquireThin(t)
  \/ Spin(t) \/ SpinAcquire(t) \/ Fatten(t) \/ LockMonitor(t) \/ GetMutex(t)
  \/ PrepareWait(t) \/ CondWakes(t) \/ RestoreMonitor(t) \/ WaitReturns(t)
  \/ NotifyStep(t) \/ NotifyAllStep(t) \/ ClearInterrupted(t)

Call(t) ==
  \/ StartLock(t) \/ Unlock(t) \/ UnlockFails(t) \/ IllegalCall(t) \/ WaitOutOfRange(t)
  \/ ObjectWait(t) \/ NotifyThin(t) \/ StartNotify(t)
  \/ QueryInterrupted(t) \/ \E u \in Thread : ThreadInterrupt(t, u)

Next == \E t \in Thread : Continue(t) \/ Call(t)

Spec == Init /\ [][Next]_vars

\* Threads in an operation are scheduled, the mutex does not starve who
\* blocks on it, and callers leave the monitor in the end.
Fairness == \A t \in Thread :
  WF_vars(Continue(t)) /\ SF_vars(GetMutex(t)) /\ SF_vars(Unlock(t))

FairSpec == Spec /\ Fairness

-----------------------------------------------------------------------------
(* Properties.                                                             *)

LockTypeOK ==
  /\ fat \in BOOLEAN
  /\ thinOwner \in Thread \cup {NoThread}
  /\ owner \in Thread \cup {NoThread} /\ mutex \in Thread \cup {NoThread}
  /\ thinCount \in 0..(CountMask - 1) /\ count \in Nat
  /\ pc \in [Thread -> Point]
  /\ saved \in [Thread -> Nat] /\ held \in [Thread -> Nat]

TypeOK ==
  /\ LockTypeOK
  /\ waitSet \in Seq(Thread)
  /\ waitMonitor \subseteq Thread /\ interrupted \subseteq Thread
  /\ signalled \subseteq Thread /\ seen \subseteq Thread /\ owed \subseteq Thread
  /\ pending \in [Thread ->
       {"none", "Interrupted", "IllegalMonitorState", "IllegalArgument"}]
  /\ result \in [Thread -> {"void", "true", "false"}]

\* The caller is between an enter and its exit and not in wait.
InMonitor(t) == held[t] > 0 /\ pc[t] \notin WaitPoint

\* Two threads are never in the monitor at once, while it is thin, while it
\* is inflated under a spinning thread, and across waits (dvmLockObject).
MutualExclusion ==
  \A s, t \in Thread : InMonitor(s) /\ InMonitor(t) => s = t

\* Why: the inductive invariant of the proofs.  A thread in the monitor, or
\* about to fatten the lock it spun for, owns the lock word, and whoever owns
\* it is such a thread or comes back from wait; the mutex goes with the owner.
Inside(t) == InMonitor(t) \/ pc[t] = "fatten"

Holds == 1 + IF fat THEN count ELSE thinCount

ShapeInv ==
  /\ fat => thinOwner = NoThread
  /\ ~fat => owner = NoThread
  /\ thinOwner = NoThread => thinCount = 0
  /\ owner = NoThread => count = 0
  /\ owner # NoThread => mutex = owner

OwnerInv ==
  \A t \in Thread :
    /\ Inside(t) => HoldsLock(t)
    /\ HoldsLock(t) => Inside(t) \/ pc[t] = "done"
    /\ InMonitor(t) => held[t] = Holds

PointInv ==
  \A t \in Thread :
    /\ pc[t] \in {"cas", "spin", "spinCas", "fatten", "blocked"} => held[t] = 0
    /\ pc[t] = "fatten" => ~fat /\ thinCount = 0
    /\ pc[t] = "blocked" => fat
    /\ pc[t] \in WaitPoint => fat /\ held[t] = saved[t] + 1
    /\ pc[t] \in {"prep", "done"} => mutex = t
    /\ pc[t] \in {"woke", "notify", "notifyAll"} => held[t] > 0

MonitorInv == LockTypeOK /\ ShapeInv /\ OwnerInv /\ PointInv

\* The lock word, thin or fat, counts exactly the caller's enters, also
\* across inflation at the count's limit and after a wait.
CountsEnters ==
  \A t \in Thread : pc[t] = "run" =>
    /\ HoldsLock(t) <=> held[t] > 0
    /\ HoldsLock(t) => held[t] = Holds

\* Nobody sleeps on with the interrupted flag set, however the interrupt
\* races with the thread's way into wait (dvmThreadInterrupt).
InterruptWakes ==
  \A t \in Thread : pc[t] = "asleep" /\ t \in interrupted => t \in signalled

\* vm/Thread.h of the interrupted flag: "stays raised until queried or
\* thrown".  So it does for threads whose waits throw and that never poll it.
InterruptStaysRaised == (owed \cap Throwing) \ Querier \subseteq interrupted \cup seen

\* vm/Sync.h of dvmUnlockObject: "Returns true if the unlock succeeded.  If
\* the unlock failed, an exception will be pending."
UnlockReportsFailure ==
  \A t \in Thread : result[t] = "true" => pending[t] = "none"

\* A thread that was signalled in wait gets the monitor back and returns.
SignalledReturns ==
  \A t \in Thread : pc[t] = "asleep" /\ t \in signalled ~> pc[t] = "run"

\* The monitor, thin and fat, implements the abstract one.
Abstract == INSTANCE JavaMonitor WITH
  holder <- IF \E t \in Thread : InMonitor(t)
            THEN CHOOSE t \in Thread : InMonitor(t) ELSE NoThread,
  depth <- IF \E t \in Thread : InMonitor(t)
           THEN held[CHOOSE t \in Thread : InMonitor(t)] ELSE 0,
  waiting <- [t \in Thread |-> IF pc[t] \in WaitPoint THEN held[t] ELSE 0]

IsJavaMonitor == Abstract!Spec

=============================================================================
