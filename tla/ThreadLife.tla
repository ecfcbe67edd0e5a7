----------------------------- MODULE ThreadLife -----------------------------
(***************************************************************************)
(* The life of a thread in vm/Thread.cpp and vm/Jni.cpp: the handshake by  *)
(* which a parent starts a Java thread, the attachment of native and of    *)
(* internal threads, Thread.join, the detachment of a dying thread and     *)
(* DestroyJavaVM, next to a collector that stops the world.                *)
(*                                                                         *)
(* A critical section under threadListLock is one action; the lock is a    *)
(* variable because the collector holds it while it waits for the others.  *)
(* The suspend check is taken as atomic with the change to RUNNING: module *)
(* ThreadSuspend has its steps.  A Java Thread object is named by the      *)
(* thread that runs it.  java.lang.Thread, which is not part of the tree,  *)
(* refuses a second start() itself, so the test of vmThread in             *)
(* dvmCreateInterpThread finds it clear.  Left out: the "thread start      *)
(* hijack" of dvmAttachCurrentThread (vm/Thread.cpp 2036-2056), where      *)
(* somebody started the new Thread object of an attaching thread before it *)
(* set the vmThread field itself: the attachment is reported as failed     *)
(* while the thread stays listed.                                          *)
(***************************************************************************)
EXTENDS Naturals, FiniteSets

CONSTANTS
  Main,        \* the thread that created the VM
  Child,       \* Java threads some thread may start
  Attacher,    \* native threads that may attach through JNI
  Internal,    \* threads dvmCreateInternalThread may create
  Daemon,      \* the daemons; every internal thread is one
  MayFail,     \* attaching threads for which an allocation may fail
  BadVersion,  \* native threads that may ask for a JNI version there is not
  Throwing,    \* threads that die of an uncaught exception
  MaxStops,    \* bound on the collections
  NoThread,    \* "nobody"
  Collector    \* the collecting thread

Thread == {Main} \cup Child \cup Attacher \cup Internal

ASSUME ThreadLifeAssumption ==
  /\ IsFiniteSet(Thread)
  /\ Internal \subseteq Daemon /\ Main \notin Daemon
  /\ Daemon \subseteq Thread /\ Throwing \subseteq Thread
  /\ MayFail \subseteq Attacher \cup Internal /\ BadVersion \subseteq Attacher
  /\ Child \cap (Attacher \cup Internal) = {} /\ Attacher \cap Internal = {}
  /\ Main \notin Child \cup Attacher \cup Internal
  /\ NoThread \notin Thread /\ Collector \notin Thread
  /\ NoThread # Collector /\ MaxStops \in Nat

VARIABLES
  status,       \* Thread.status
  threadList,   \* the threads on gDvm.threadList
  suspendCount, \* Thread.suspendCount
  nonDaemonThreadCount,
  listOwner,    \* owner of threadListLock
  startWait,    \* asleep on threadStartCond, not yet woken
  exitWait,     \* asleep on vmExitCond, not yet woken
  vmThread,     \* threads whose Thread.vmThread field is set
  joinWait,     \* asleep in Object.wait on their partner's VMThread
  traceEnabled, \* methodTrace.traceEnabled
  traceWait,    \* asleep on threadExitCond, not yet woken
  gc,           \* what the collector is doing; it has gcHeapLock unless idle
  stops,        \* collections so far
  createStatus, \* what an internal thread reported to its parent
  partner,      \* the thread this one starts or joins
  pc            \* where a thread is

listVars == <<threadList, nonDaemonThreadCount>>
condVars == <<startWait, exitWait, joinWait>>
traceVars == <<traceEnabled, traceWait>>
gcVars == <<gc, stops, suspendCount>>
ctlVars == <<createStatus, partner, pc>>
vars == <<status, listVars, listOwner, condVars, vmThread, traceVars, gcVars,
          ctlVars>>

Status == {"NONE", "INITIALIZING", "STARTING", "VMWAIT", "RUNNING", "NATIVE",
           "SUSPENDED", "ZOMBIE"}

\* The points at which a thread is about to take threadListLock.
ListPoint == {"create", "handshake", "release", "born", "wait", "reserve",
              "link", "unlink", "restore", "await", "report", "leave",
              "destroy", "exit"}

Point == ListPoint \cup
  {"unborn", "run", "native", "spawn", "spawned", "refused", "adopted",
   "enter", "pulse", "pulsed", "objects", "awaited", "join", "joining",
   "detach", "notify", "trace", "down", "rejected", "dead"}

TypeOK ==
  /\ status \in [Thread -> Status]
  /\ threadList \subseteq Thread
  /\ suspendCount \in [Thread -> Nat]
  /\ nonDaemonThreadCount \in Nat
  /\ listOwner \in Thread \cup {NoThread, Collector}
  /\ startWait \subseteq Thread /\ exitWait \subseteq {Main}
  /\ vmThread \subseteq Thread
  /\ joinWait \subseteq Thread /\ traceWait \subseteq Thread
  /\ traceEnabled \in BOOLEAN
  /\ gc \in {"idle", "stopping", "stopped"} /\ stops \in 0..MaxStops
  /\ createStatus \in [Internal -> {0, 1, 2}]
  /\ partner \in [Thread -> Thread \cup {NoThread}]
  /\ pc \in [Thread -> Point]

Init ==
  /\ status = [t \in Thread |-> IF t = Main THEN "RUNNING" ELSE "NONE"]
  /\ threadList = {Main} /\ nonDaemonThreadCount = 1
  /\ suspendCount = [t \in Thread |-> 0]
  /\ listOwner = NoThread
  /\ startWait = {} /\ exitWait = {} /\ joinWait = {}
  /\ vmThread = {Main}
  /\ traceEnabled = FALSE /\ traceWait = {}
  /\ gc = "idle" /\ stops = 0
  /\ createStatus = [t \in Internal |-> 0]
  /\ partner = [t \in Thread |-> NoThread]
  /\ pc = [t \in Thread |-> IF t = Main THEN "run" ELSE "unborn"]

At(t, here) == pc[t] = here
Goto(t, there) == pc' = [pc EXCEPT ![t] = there]
SetStatus(t, s) == status' = [status EXCEPT ![t] = s]
Managed(t) == At(t, "run") /\ status[t] = "RUNNING"
ListFree == listOwner = NoThread

\* Insert into, or take out of, the list, and count the thread with it.
Link(t) ==
  /\ threadList' = threadList \cup {t}
  /\ nonDaemonThreadCount' =
       nonDaemonThreadCount + (IF t \in Daemon THEN 0 ELSE 1)
Unlink(t) ==
  /\ threadList' = threadList \ {t}
  /\ nonDaemonThreadCount' =
       nonDaemonThreadCount - (IF t \in Daemon THEN 0 ELSE 1)

\* Mutant: a thread that fails to attach is not counted down.
UnlinkOnly(t) == threadList' = threadList \ {t} /\ UNCHANGED nonDaemonThreadCount

\* dvmLockThreadList finds the lock taken: VMWAIT until it is free.
BlockOnList(t) ==
  /\ pc[t] \in ListPoint /\ ~ListFree /\ status[t] = "RUNNING"
  /\ SetStatus(t, "VMWAIT")
  /\ UNCHANGED <<listVars, listOwner, condVars, vmThread, traceVars, gcVars,
                 ctlVars>>

\* dvmChangeStatus(RUNNING), which waits for the pending suspension to end.
BecomeRunning(t, here, there) ==
  /\ At(t, here) /\ suspendCount[t] = 0
  /\ SetStatus(t, "RUNNING")
  /\ Goto(t, there)
  /\ UNCHANGED <<listVars, listOwner, condVars, vmThread, traceVars, gcVars,
                 createStatus, partner>>

\* A safe point, and the end of the suspension.
Park(t) ==
  /\ pc[t] \in {"run", "objects", "detach"}
  /\ status[t] = "RUNNING" /\ suspendCount[t] > 0
  /\ SetStatus(t, "SUSPENDED")
  /\ UNCHANGED <<listVars, listOwner, condVars, vmThread, traceVars, gcVars,
                 ctlVars>>

Unpark(t) ==
  /\ status[t] = "SUSPENDED"
  /\ BecomeRunning(t, pc[t], pc[t])

-----------------------------------------------------------------------------
(* Starting a Java thread: dvmCreateInterpThread and interpThreadStart.    *)

\* Thread.start(): a new Thread struct for c, in INITIALIZING.
Start(p, c) ==
  /\ Managed(p) /\ At(c, "unborn") /\ \A t \in Thread : partner[t] # c
  /\ status' = [status EXCEPT ![c] = "INITIALIZING"]
  /\ partner' = [partner EXCEPT ![p] = c]
  /\ Goto(p, "create")
  /\ UNCHANGED <<listVars, listOwner, condVars, vmThread, traceVars, gcVars,
                 createStatus>>

\* Mark the object as started, leave managed code.
SetVmThread(p) ==
  /\ At(p, "create") /\ ListFree
  /\ vmThread' = vmThread \cup {partner[p]}
  /\ SetStatus(p, "VMWAIT")
  /\ Goto(p, "spawn")
  /\ UNCHANGED <<listVars, listOwner, condVars, traceVars, gcVars,
                 createStatus, partner>>

\* pthread_create, which may fail.
PthreadCreate(p) ==
  /\ At(p, "spawn")
  /\ \/ pc' = [pc EXCEPT ![p] = "spawned", ![partner[p]] = "born"]
     \/ Goto(p, "refused")
  /\ UNCHANGED <<status, listVars, listOwner, condVars, vmThread, traceVars,
                 gcVars, createStatus, partner>>

\* The failed start: vmThread is cleared, OutOfMemoryError is thrown.
StartRefused(p) ==
  /\ At(p, "refused") /\ suspendCount[p] = 0
  /\ vmThread' = vmThread \ {partner[p]}
  /\ status' = [status EXCEPT ![p] = "RUNNING", ![partner[p]] = "NONE"]
  /\ pc' = [pc EXCEPT ![p] = "run", ![partner[p]] = "dead"]
  /\ partner' = [partner EXCEPT ![p] = NoThread]
  /\ UNCHANGED <<listVars, listOwner, condVars, traceVars, gcVars,
                 createStatus>>

\* Mutant: the child forgets to wake its parent.
PrepareThreadQuietly(c) ==
  /\ At(c, "born") /\ ListFree
  /\ SetStatus(c, "STARTING")
  /\ startWait' = startWait \cup {c}
  /\ Goto(c, "wait")
  /\ UNCHANGED <<listVars, listOwner, exitWait, joinWait, vmThread, traceVars,
                 gcVars, createStatus, partner>>

\* The child introduces itself, wakes the parents and sleeps.
PrepareThread(c) ==
  /\ At(c, "born") /\ ListFree
  /\ SetStatus(c, "STARTING")
  /\ startWait' = {c}
  /\ Goto(c, "wait")
  /\ UNCHANGED <<listVars, listOwner, exitWait, joinWait, vmThread, traceVars,
                 gcVars, createStatus, partner>>

\* The parent, in VMWAIT, sleeps until its child is STARTING, then lists it.
Handshake(p) ==
  /\ At(p, "handshake") /\ p \notin startWait /\ ListFree
  /\ SetStatus(p, "VMWAIT")
  /\ IF status[partner[p]] = "STARTING"
     THEN /\ Link(partner[p]) /\ Goto(p, "adopted")
          /\ UNCHANGED startWait
     ELSE /\ startWait' = startWait \cup {p}
          /\ UNCHANGED <<listVars, pc>>
  /\ UNCHANGED <<listOwner, exitWait, joinWait, vmThread, traceVars, gcVars,
                 createStatus, partner>>

\* Back in RUNNING, the parent lets the child go.
Release(p) ==
  /\ At(p, "release") /\ ListFree
  /\ status' = [status EXCEPT ![p] = "RUNNING", ![partner[p]] = "VMWAIT"]
  /\ startWait' = {}
  /\ partner' = [partner EXCEPT ![p] = NoThread]
  /\ Goto(p, "run")
  /\ UNCHANGED <<listVars, listOwner, exitWait, joinWait, vmThread, traceVars,
                 gcVars, createStatus>>

\* The child sleeps until its parent has put it in VMWAIT.
AwaitRelease(c) ==
  /\ At(c, "wait") /\ c \notin startWait /\ ListFree
  /\ IF status[c] = "VMWAIT"
     THEN Goto(c, "enter") /\ UNCHANGED startWait
     ELSE startWait' = startWait \cup {c} /\ UNCHANGED pc
  /\ UNCHANGED <<status, listVars, listOwner, exitWait, joinWait, vmThread,
                 traceVars, gcVars, createStatus, partner>>

-----------------------------------------------------------------------------
(* Attaching: AttachCurrentThread of vm/Jni.cpp, dvmAttachCurrentThread,   *)
(* and dvmCreateInternalThread with internalThreadStart.                   *)

\* The native thread calls AttachCurrentThread.
Attach(t) ==
  /\ At(t, "unborn")
  /\ Goto(t, "reserve")
  /\ UNCHANGED <<status, listVars, listOwner, condVars, vmThread, traceVars,
                 gcVars, createStatus, partner>>

\* Refused when the VM is going down, else the VM is kept from going down.
Reserve(t) ==
  /\ At(t, "reserve") /\ ListFree
  /\ IF nonDaemonThreadCount = 0
     THEN Goto(t, "dead") /\ UNCHANGED nonDaemonThreadCount
     ELSE Goto(t, "link") /\ nonDaemonThreadCount' = nonDaemonThreadCount + 1
  /\ UNCHANGED <<status, threadList, listOwner, condVars, vmThread, traceVars,
                 gcVars, createStatus, partner>>

\* A bad JNI version is an error, returned before the count is given back.
RejectVersion(t) ==
  /\ At(t, "link") /\ t \in BadVersion
  /\ Goto(t, "rejected")
  /\ UNCHANGED <<status, listVars, listOwner, condVars, vmThread, traceVars,
                 gcVars, createStatus, partner>>

\* Where an attachment goes on once dvmAttachCurrentThread has returned.
AttachReturns(t) == IF t \in Internal THEN "report" ELSE "restore"

\* No Thread struct: nothing has been listed.
AttachFails(t) ==
  /\ At(t, "link") /\ t \in MayFail
  /\ Goto(t, AttachReturns(t))
  /\ UNCHANGED <<status, listVars, listOwner, condVars, vmThread, traceVars,
                 gcVars, createStatus, partner>>

\* On the list, then from INITIALIZING to VMWAIT.
LinkSelf(t) ==
  /\ At(t, "link") /\ ListFree
  /\ Link(t)
  /\ SetStatus(t, "VMWAIT")
  /\ Goto(t, "pulse")
  /\ UNCHANGED <<listOwner, condVars, vmThread, traceVars, gcVars,
                 createStatus, partner>>

\* Mutant: the heap lock is not pulsed.
SkipHeapLock(t) ==
  /\ At(t, "pulse")
  /\ Goto(t, "pulsed")
  /\ UNCHANGED <<status, listVars, listOwner, condVars, vmThread, traceVars,
                 gcVars, createStatus, partner>>

\* Lock and unlock gcHeapLock: a collection under way is waited for.
PulseHeapLock(t) ==
  /\ At(t, "pulse") /\ gc = "idle"
  /\ Goto(t, "pulsed")
  /\ UNCHANGED <<status, listVars, listOwner, condVars, vmThread, traceVars,
                 gcVars, createStatus, partner>>

\* The Thread and VMThread objects: made, or not for lack of memory.
CreateThreadObject(t) ==
  /\ At(t, "objects") /\ status[t] = "RUNNING"
  /\ \/ vmThread' = vmThread \cup {t} /\ Goto(t, AttachReturns(t))
     \/ t \in MayFail /\ Goto(t, "unlink") /\ UNCHANGED vmThread
  /\ UNCHANGED <<status, listVars, listOwner, condVars, traceVars, gcVars,
                 createStatus, partner>>

\* Mutant: fail_unlink without the decrement.
UnlinkSelfUncounted(t) ==
  /\ At(t, "unlink") /\ ListFree
  /\ UnlinkOnly(t)
  /\ SetStatus(t, "NONE")
  /\ Goto(t, AttachReturns(t))
  /\ UNCHANGED <<listOwner, condVars, vmThread, traceVars, gcVars,
                 createStatus, partner>>

\* fail_unlink.
UnlinkSelf(t) ==
  /\ At(t, "unlink") /\ ListFree
  /\ Unlink(t)
  /\ SetStatus(t, "NONE")
  /\ Goto(t, AttachReturns(t))
  /\ UNCHANGED <<listOwner, condVars, vmThread, traceVars, gcVars,
                 createStatus, partner>>

\* AttachCurrentThread gives the count back and leaves for native code.
RestoreCount(t) ==
  /\ At(t, "restore") /\ ListFree
  /\ nonDaemonThreadCount' = nonDaemonThreadCount - 1
  /\ IF t \in threadList
     THEN SetStatus(t, "NATIVE") /\ Goto(t, "native")
     ELSE Goto(t, "dead") /\ UNCHANGED status
  /\ UNCHANGED <<threadList, listOwner, condVars, vmThread, traceVars, gcVars,
                 createStatus, partner>>

\* The parent of an internal thread creates it and goes to VMWAIT.
CreateInternal(p, c) ==
  /\ Managed(p) /\ At(c, "unborn")
  /\ SetStatus(p, "VMWAIT")
  /\ partner' = [partner EXCEPT ![p] = c]
  /\ pc' = [pc EXCEPT ![p] = "await", ![c] = "link"]
  /\ UNCHANGED <<listVars, listOwner, condVars, vmThread, traceVars, gcVars,
                 createStatus>>

\* It sleeps until createStatus is set.  When the child failed to attach this
\* build returns without unlocking the list.
AwaitInternal(p) ==
  /\ At(p, "await") /\ p \notin startWait /\ ListFree
  /\ IF createStatus[partner[p]] = 0
     THEN /\ startWait' = startWait \cup {p}
          /\ UNCHANGED <<listOwner, partner, pc>>
     ELSE /\ listOwner' = IF createStatus[partner[p]] = 2 THEN p ELSE NoThread
          /\ partner' = [partner EXCEPT ![p] = NoThread]
          /\ Goto(p, "awaited")
          /\ UNCHANGED startWait
  /\ UNCHANGED <<status, listVars, exitWait, joinWait, vmThread, traceVars,
                 gcVars, createStatus>>

\* The internal thread reports: 1 for success, 2 for the code's -1.
Report(c) ==
  /\ At(c, "report") /\ ListFree
  /\ createStatus' =
       [createStatus EXCEPT ![c] = IF c \in threadList THEN 1 ELSE 2]
  /\ startWait' = {}
  /\ IF c \in threadList
     THEN SetStatus(c, "RUNNING") /\ Goto(c, "run")
     ELSE Goto(c, "dead") /\ UNCHANGED status
  /\ UNCHANGED <<listVars, listOwner, exitWait, joinWait, vmThread, traceVars,
                 gcVars, partner>>

-----------------------------------------------------------------------------
(* Dying and being waited for: dvmDetachCurrentThread, Thread.join (a loop *)
(* of Object.wait on the VMThread while vmThread is set), DestroyJavaVM.   *)

\* Thread.join on a thread whose vmThread field is set.
Join(j, u) ==
  /\ Managed(j) /\ u # j /\ u \in vmThread
  /\ partner' = [partner EXCEPT ![j] = u]
  /\ Goto(j, "joining")
  /\ UNCHANGED <<status, listVars, listOwner, condVars, vmThread, traceVars,
                 gcVars, createStatus>>

\* With the monitor: wait while the thread is alive.
JoinTest(j) ==
  /\ At(j, "joining") /\ status[j] = "RUNNING"
  /\ IF partner[j] \in vmThread
     THEN /\ joinWait' = joinWait \cup {j}
          /\ SetStatus(j, "VMWAIT")
          /\ UNCHANGED <<partner, pc>>
     ELSE /\ partner' = [partner EXCEPT ![j] = NoThread]
          /\ Goto(j, "run")
          /\ UNCHANGED <<status, joinWait>>
  /\ UNCHANGED <<listVars, listOwner, startWait, exitWait, vmThread,
                 traceVars, gcVars, createStatus>>

\* A thread other than main ends.  If of an uncaught exception,
\* threadExitUncaughtException takes all of its suspensions back.
Exit(t) ==
  /\ Managed(t) /\ t # Main
  /\ suspendCount' = IF t \in Throwing THEN [suspendCount EXCEPT ![t] = 0]
                     ELSE suspendCount
  /\ Goto(t, "detach")
  /\ UNCHANGED <<status, listVars, listOwner, condVars, vmThread, traceVars,
                 gc, stops, createStatus, partner>>

\* ThreadGroup.removeThread, which is managed code, blocks on a monitor.
BlockOnGroup(t) ==
  /\ At(t, "detach") /\ status[t] = "RUNNING"
  /\ SetStatus(t, "VMWAIT")
  /\ UNCHANGED <<listVars, listOwner, condVars, vmThread, traceVars, gcVars,
                 ctlVars>>

\* Clear Thread.vmThread ...
ClearVmThread(t) ==
  /\ At(t, "detach") /\ status[t] = "RUNNING"
  /\ vmThread' = vmThread \ {t}
  /\ Goto(t, "notify")
  /\ UNCHANGED <<status, listVars, listOwner, condVars, traceVars, gcVars,
                 createStatus, partner>>

\* Mutant: notify where notifyAll is needed.
NotifyOneJoiner(t) ==
  /\ At(t, "notify")
  /\ LET joiners == {j \in joinWait : partner[j] = t} IN
       IF joiners = {} THEN UNCHANGED joinWait
       ELSE \E j \in joiners : joinWait' = joinWait \ {j}
  /\ SetStatus(t, "VMWAIT")
  /\ Goto(t, "trace")
  /\ UNCHANGED <<listVars, listOwner, startWait, exitWait, vmThread,
                 traceVars, gcVars, createStatus, partner>>

\* ... then wake the joiners, and leave managed code for good.
NotifyJoiners(t) ==
  /\ At(t, "notify")
  /\ joinWait' = {j \in joinWait : partner[j] # t}
  /\ SetStatus(t, "VMWAIT")
  /\ Goto(t, "trace")
  /\ UNCHANGED <<listVars, listOwner, startWait, exitWait, vmThread,
                 traceVars, gcVars, createStatus, partner>>

\* Not to leave while methods are traced.
AwaitTrace(t) ==
  /\ At(t, "trace") /\ t \notin traceWait
  /\ IF traceEnabled
     THEN traceWait' = traceWait \cup {t} /\ UNCHANGED pc
     ELSE Goto(t, "leave") /\ UNCHANGED traceWait
  /\ UNCHANGED <<status, listVars, listOwner, condVars, vmThread, traceEnabled,
                 gcVars, createStatus, partner>>

\* dvmMethodTraceStart and dvmMethodTraceStop, under startStopLock.
StartTrace ==
  /\ ~ traceEnabled /\ traceEnabled' = TRUE
  /\ UNCHANGED <<status, listVars, listOwner, condVars, vmThread, traceWait,
                 gcVars, ctlVars>>
StopTrace ==
  /\ traceEnabled /\ traceEnabled' = FALSE
  /\ traceWait' = {}
  /\ UNCHANGED <<status, listVars, listOwner, condVars, vmThread, gcVars,
                 ctlVars>>

\* ZOMBIE, off the list; the last one but the daemons signals vmExitCond.
Leave(t) ==
  /\ At(t, "leave") /\ ListFree
  /\ Unlink(t)
  /\ SetStatus(t, "ZOMBIE")
  /\ exitWait' = IF t \notin Daemon /\ nonDaemonThreadCount = 1
                 THEN {} ELSE exitWait
  /\ Goto(t, "dead")
  /\ UNCHANGED <<listOwner, startWait, joinWait, vmThread, traceVars, gcVars,
                 createStatus, partner>>

\* DestroyJavaVM: main no longer counts.
DestroyJavaVM ==
  /\ At(Main, "destroy") /\ ListFree
  /\ nonDaemonThreadCount' = nonDaemonThreadCount - 1
  /\ IF nonDaemonThreadCount > 1
     THEN exitWait' = {Main} /\ Goto(Main, "exit")
     ELSE UNCHANGED exitWait /\ Goto(Main, "down")
  /\ UNCHANGED <<status, threadList, listOwner, startWait, joinWait, vmThread,
                 traceVars, gcVars, createStatus, partner>>

CallDestroy ==
  /\ Managed(Main)
  /\ SetStatus(Main, "VMWAIT")
  /\ Goto(Main, "destroy")
  /\ UNCHANGED <<listVars, listOwner, condVars, vmThread, traceVars, gcVars,
                 createStatus, partner>>

\* Woken, it looks at the count again.
ExitTest ==
  /\ At(Main, "exit") /\ exitWait = {} /\ ListFree
  /\ IF nonDaemonThreadCount > 0
     THEN exitWait' = {Main} /\ UNCHANGED pc
     ELSE Goto(Main, "down") /\ UNCHANGED exitWait
  /\ UNCHANGED <<status, listVars, listOwner, startWait, joinWait, vmThread,
                 traceVars, gcVars, createStatus, partner>>

-----------------------------------------------------------------------------
(* The collector: dvmSuspendAllThreads with gcHeapLock held, and back.     *)

StopAll ==
  /\ gc = "idle" /\ stops < MaxStops /\ ListFree
  /\ suspendCount' = [t \in Thread |-> IF t \in threadList
                                       THEN suspendCount[t] + 1
                                       ELSE suspendCount[t]]
  /\ listOwner' = Collector /\ gc' = "stopping"
  /\ UNCHANGED <<status, listVars, condVars, vmThread, traceVars, stops,
                 ctlVars>>

AllStopped ==
  /\ gc = "stopping" /\ \A t \in threadList : status[t] # "RUNNING"
  /\ gc' = "stopped" /\ listOwner' = NoThread
  /\ UNCHANGED <<status, listVars, condVars, vmThread, traceVars, stops,
                 suspendCount, ctlVars>>

ResumeAll ==
  /\ gc = "stopped" /\ ListFree
  /\ suspendCount' = [t \in Thread |->
       IF t \in threadList /\ suspendCount[t] > 0 THEN suspendCount[t] - 1
       ELSE suspendCount[t]]
  /\ gc' = "idle" /\ stops' = stops + 1
  /\ UNCHANGED <<status, listVars, listOwner, condVars, vmThread, traceVars,
                 ctlVars>>

-----------------------------------------------------------------------------
(* The whole.                                                              *)

\* The returns to RUNNING.
Return(t) ==
  \/ Unpark(t)
  \/ BecomeRunning(t, "spawned", "handshake")
  \/ BecomeRunning(t, "adopted", "release")
  \/ BecomeRunning(t, "enter", "run")
  \/ BecomeRunning(t, "pulsed", "objects")
  \/ BecomeRunning(t, "awaited", "run")
  \/ BecomeRunning(t, "native", "run")
  \/ /\ t \notin joinWait /\ status[t] = "VMWAIT"
     /\ \/ BecomeRunning(t, "joining", "joining")
        \/ BecomeRunning(t, "detach", "detach")

\* What a thread goes on to do by itself ...
Proceed(t) ==
  \/ BlockOnList(t) \/ Park(t) \/ Return(t)
  \/ SetVmThread(t) \/ PthreadCreate(t) \/ StartRefused(t) \/ PrepareThread(t)
  \/ Handshake(t) \/ Release(t) \/ AwaitRelease(t)
  \/ Reserve(t) \/ RejectVersion(t) \/ AttachFails(t) \/ LinkSelf(t) \/ PulseHeapLock(t)
  \/ CreateThreadObject(t) \/ UnlinkSelf(t) \/ RestoreCount(t)
  \/ AwaitInternal(t) \/ Report(t)
  \/ JoinTest(t) \/ ClearVmThread(t) \/ NotifyJoiners(t) \/ AwaitTrace(t)
  \/ Leave(t)

\* ... and what it may choose to.
Choose(t) ==
  \/ \E c \in Child : Start(t, c)
  \/ \E c \in Internal : CreateInternal(t, c)
  \/ \E u \in Thread : Join(t, u)
  \/ Exit(t) \/ BlockOnGroup(t)

Next ==
  \/ \E t \in Thread : Proceed(t) \/ Choose(t)
  \/ \E t \in Attacher : Attach(t)
  \/ CallDestroy \/ DestroyJavaVM \/ ExitTest
  \/ StartTrace \/ StopTrace
  \/ StopAll \/ AllStopped \/ ResumeAll

Spec == Init /\ [][Next]_vars

-----------------------------------------------------------------------------
(* Properties.                                                             *)

\* A thread that holds a reservation of AttachCurrentThread.  One that was
\* refused for its JNI version holds it for ever.
Attaching(t) ==
  t \in Attacher /\ pc[t] \in {"link", "pulse", "pulsed", "objects", "unlink",
                               "restore", "rejected"}

\* The count DestroyJavaVM waits on is the number of listed threads that are
\* not daemons, plus the reservations of attachments under way and those a bad
\* JNI version left behind, less main once it has given its own share back.
\* What else may happen to a thread, a failure to attach included, balances; a
\* bad version does not, and keeps the count from ever falling to 0.
CountIsExact ==
  nonDaemonThreadCount
    + (IF pc[Main] \in {"exit", "down"} THEN 1 ELSE 0)
  = Cardinality(threadList \ Daemon) + Cardinality({t \in Thread : Attaching(t)})

\* Once the world is stopped, a thread the collector has not counted (one that
\* was started or attached meanwhile, or is not listed yet) is not RUNNING.
UncountedStall ==
  gc = "stopped" =>
    \A t \in Thread : suspendCount[t] = 0 => status[t] # "RUNNING"

\* Nobody sleeps in join on a thread that has died and has already notified.
\* (A thread whose start failed, status NONE, has never lived: vmThread is
\* cleared without a notification, and who joined it early sleeps on.)
JoinersAreWoken ==
  \A j \in joinWait : \/ partner[j] \in vmThread \/ At(partner[j], "notify")
                      \/ status[partner[j]] = "NONE"

\* A destroyer that has not been signalled has something to wait for: "wait
\* until the current thread is the only non-daemon user-level thread".
ExitIsSignalled == exitWait # {} => nonDaemonThreadCount > 0

\* No wake-up of the start handshakes, which share one condition, is lost: who
\* sleeps on threadStartCond still has its child, or its parent, to wait for;
\* and a dying thread sleeps on threadExitCond only while methods are traced.
SleepersAreOwed ==
  /\ \A t \in startWait :
       \/ At(t, "handshake") /\ status[partner[t]] # "STARTING"
       \/ At(t, "wait") /\ status[t] = "STARTING"
       \/ At(t, "await") /\ createStatus[partner[t]] = 0
  /\ traceWait # {} => traceEnabled
=============================================================================
