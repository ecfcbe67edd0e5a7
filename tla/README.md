# A TLA+ model of the fastiva VM

fastiva (`src/dalvik-fm`) is a Dalvik virtual machine changed so that Java
code compiled ahead of time to C++ runs beside interpreted code. Such code
keeps object references on the native stack, so a thread may only be scanned
by the collector when it has "closed" its stack (`m_pNativeStackPointer` set,
`fastiva_lockStack`). The change reaches into the oldest and least testable
part of the VM, the way threads stop each other, and that is where this
project starts. The modules are translated from the source; where a comment in
the source and the source disagree, the module follows the source and the
disagreement is a run of its own.

## 1. The system

| part | state it keeps | operations | hard about it |
|---|---|---|---|
| thread suspension (`vm/Thread.cpp`, `interp/Interp.cpp`, `fastiva/`) | per thread `status`, `suspendCount`, closed stack; `_threadSuspendLock`, `threadListLock`, `threadSuspendCountLock` and its condition | suspend/resume all, suspend/resume one, the suspend check, status changes | unlocked reads against counted requests, three locks and a set of VM-internal ones, several stoppers at once |
| monitors (`vm/Sync.cpp`) | a lock word per object: thin (owner, count) or a pointer to a fat monitor with owner, count, wait set | lock, unlock, wait, notify, notifyAll, interrupt, sleep, sweep | inflation by the owner while others spin on the thin word, notify racing interrupt and timeout |
| thread lifecycle (`vm/Thread.cpp`) | the thread list, thread id bitmap, `vmThread` links, count of non-daemon threads | create, start, attach, detach, uncaught exceptions, shutdown | a thread joins the list during a stop; handshakes between parent and child |
| collector control (`alloc/Heap.cpp`, `alloc/HeapSource.cpp`) | `gcHeapLock`, `gcRunning`, `gcHeapCond` | allocate, foreground/concurrent/explicit collection, wait for a collection, daemon | the heap lock is given up between pauses; collectors are clients of the suspension protocol |
| marking (`alloc/MarkSweep.cpp`, `CardTable.cpp`, `WriteBarrier.h`, `HeapBitmap.cpp`) | live and mark bitmaps, mark stack, card table, reference lists | mark roots, scan, re-mark, process references, sweep | mutators change the graph while it is traced |
| class linking (`oo/Class.cpp`) | class status, `initThreadId`, the class's monitor, `loadedClasses` | load, link, verify, initialize | recursive and concurrent initialization, errors half way |
| JNI tables (`Jni.cpp`, `IndirectRefTable.cpp`, `ReferenceTable.cpp`) | tables with holes, segment cookies, serial numbers | add, remove, push/pop frame, pin, weak globals | stale references, holes across segments |
| debugger and JDWP (`Debugger.cpp`, `jdwp/`) | `dbgSuspendCount`, `debugThreadId`, `invokeNeeded`, event list, handshake state | suspend/resume VM, events, single step, invoke in thread, disconnect | the JDWP thread, the event thread and the target thread take turns |
| interpreter control (`interp/Interp.cpp`, `interp/Jit.cpp`) | break flags and subModes, JIT state per thread, the JIT table | breakpoints, single step, callbacks, trace selection | flags changed by other threads with CAS |
| JIT compiler thread (`compiler/Compiler.cpp`) | work queue, `compilerLock`, code cache, `codeCacheVersion` | enqueue, compile, drain, reset at a safe point | queue limits, reset against running traces |
| hash tables, interning (`Hash.cpp`, `Intern.cpp`) | open addressing table with tombstones | lookup/add, remove, foreach, GC of weak interns | tombstones and growth; a string promoted from weak to literal |
| per-class caches (`AtomicCache.cpp`) | entries versioned with a counter | lookup, update | torn entry seen without a lock |
| linear allocator (`LinearAlloc.cpp`) | `curOffset`, page reference counts | alloc, realloc, free, set read-only | page boundaries |
| native libraries (`Native.cpp`) | table of `SharedLib`, `onLoadResult`, condition | load, wait for another thread's `JNI_OnLoad` | recursion and waiting on the loading thread |
| allocation tracker, DDM, profiling (`AllocTracker.cpp`, `Ddm.cpp`, `Profile.cpp`) | circular buffer, lock, trace state | start, stop, record, dump | stop against concurrent records |
| signal catcher, stdio converter (`SignalCatcher.cpp`, `StdioConverter.cpp`) | a thread, a pipe | SIGQUIT dump, SIGUSR1 collection | client of the suspension protocol |
| dex format (`libdex/`) | none (pure) | LEB128, checksums, catch handlers, class lookup, optimized-header checks | widths, ends of buffers |
| verifier, optimizer (`analysis/`) | register types per address, liveness | dataflow to a fixpoint, instruction rewriting | merges, loops |
| interpreters (`mterp/`, `interp/`), code generators (`compiler/codegen`), JNI natives (`native/`), reflection (`reflect/`), hprof, `dexdump`, `dexlist`, `dexopt`, `tools` | | | |

How they meet. A collection takes `gcHeapLock`, closes the collector's stack
and stops the world through `dvmSuspendAllThreads`; allocating threads that
meet a concurrent collection wait on `gcHeapCond`. A monitor that blocks a
thread changes its status, so it looks stopped to a stopper, and comes back
through the suspend check. SIGQUIT, the debugger and the profiler stop the world
as well, so several stoppers meet. Interning, JNI references and class
lookup use plain mutexes that `dvmSuspendAllThreads` also takes in this fork.
Class initialization holds and waits on the class's monitor. The JIT thread is
drained at safe points by the collector.

## 2. Plan

1. `ThreadSuspend`, with `StopTheWorld` as the abstract specification it
   implements, and its proofs. Done.
2. `GcStop`: the collector as a client of the protocol. Done.
3. `Monitor`, with `JavaMonitor` as what it implements, and its proofs. Done.
4. `ClassInit`: concurrent and recursive class initialization, and its proofs.
   Done.
5. `ThreadLife`: create, start, attach, join, detach, uncaught exceptions and
   `DestroyJavaVM`; the thread list is a variable, and a thread may join it
   during a stop. Done, but for the killing of daemons (`dvmSlayDaemons`).
6. `ConcurrentMark`: bitmaps, mark stack, dirty cards and mutators, shown to
   implement `ManagedHeap` (what is reachable is kept), and its proofs; the
   tricolour invariant is one of the theorems. Done.
7. `ClassLoad`: the race to define a class, the class lock held while the
   superclass is found, failed links, and its proofs. Done.
8. `CompilerQueue`, `AtomicCache`, `IndirectRef` with `RefStack`, `NativeLib`:
   small state machines, and their proofs. Done.
9. `DebugSuspend`: `dbgSuspendCount` beside the collector's counts,
   `dvmSuspendSelf`, `dvmUndoDebuggerSuspensions`, the event token, on top of
   `ThreadSuspend`, and its proofs. Done, but for the methods a debugger has a
   thread invoke (`dvmDbgInvokeMethod`).

Left:

10. Algorithms as operators, checked over bounded inputs: probing with
    tombstones (`Hash.cpp`), LEB128 (`libdex/Leb128.h`), the merge of register
    types (`analysis/CodeVerify.cpp`).

Proved: every safety property of a passing run, and with them the refinements
of `StopTheWorld`, `JavaMonitor`, `ManagedHeap` and `RefStack` (section 6).
Properties still worth stating and proving: nobody is in the wait set of a
monitor twice; nobody stays suspended for a debugger that has gone; two stops
do not lock each other out where no VM lock is held.

## 3. The modules

`M.tla` holds a component; `MCM.tla` instantiates it for TLC with threads and
classes as model values and the sets of roles; `MProofs.tla` holds its
theorems, but for the small ones: `ServicesProofs` holds those of the services
of `MCServices`, and `ThreadsProofs` those of `ThreadLife` and of the debugger
of `MCThreads`. `MCSuspend`, `MCThreads`, `MCClasses` and `MCServices` put several
instances side by side: the initial state picks one and the others do not
move, so the state graph is the sum of theirs and one run asks its question of
all of them. A line `\* Mutant:` before a definition marks a plausible bug in the
definition that follows it; the properties must tell the two apart, and no
specification uses it. What is only recorded to state a property is marked
`history` where it is declared.

**ThreadSuspend** (`vm/Thread.cpp`, `vm/fastiva/`). A `pc` per thread names
the point it has got to in `dvmSuspendAllThreads` (`sus...`),
`dvmResumeAllThreads` (`res...`), `getTraceBuf` (`tr...`), the suspend check
(`check`, `full`, `asleep`), or out of them (`run` in managed code, `native`).
`closed` is `m_pNativeStackPointer # NULL`, the condition this fork adds to the
status before a thread may be scanned. A section under
`threadSuspendCountLock` is one action, since nothing in it blocks but the
wait that releases it. The three other locks are variables. `internLock`,
`jniGlobalRefLock` and the rest, which `dvmSuspendAllThreads` takes together,
are one lock, `vmOwner`. The thread list is fixed (`ThreadLife` has it change).

| action | code |
|---|---|
| `EnterNative`, `LeaveNative` | `dvmChangeStatus`, with the unlocked read of `suspendCount` on the way back as a step of its own (`CheckSuspendPending`) |
| `SafePoint`, `FullSuspendCheck`, `WakeUp` | the check in compiled code and `fullSuspendCheck` |
| `StartSuspendAll`, `TakeVmLocks`, `YieldToSuspend`, `LockThreadSuspend`, `LockThreadList`, `SuspendOthers`, `SeeStopped` | `dvmSuspendAllThreads`, in its order |
| `Inspect` | what the stopper does meanwhile, where it needs the VM locks again |
| `ResumeOthers`, `UnlockThreadSuspend`, `WakeOthers` | `dvmResumeAllThreads`; the broadcast comes after the unlock |
| `StartTrace`, `SuspendThread`, `WaitForThreadSuspend`, `ResumeThread`, `UnlockThreadList` | the stack trace of one thread |

**StopTheWorld** is what the notes at the top of `vm/Thread.cpp` promise:
between stop and resume nobody but the stopper is in managed code.

**GcStop** (`vm/alloc/Heap.cpp`, `HeapSource.cpp`) extends `ThreadSuspend`
with `gcHeapLock`, `gcRunning` and `gcHeapCond`. A collection is a walk over
the same steps: `BeginGc` goes to `susLock`, and when the broadcast of a pause
is done `AfterPause` goes on with the collection. Foreground collections pause
once with the heap lock held; explicit and daemon ones pause twice and give
the heap lock up between (`LockHeap` and `GotHeap` are `dvmLockHeap`, which
blocks as a stopped thread). `FinishGc` makes its thread RUNNING with a plain
store, as the code does. The thread, the daemon included, may then run Java code
with the heap lock held, to enqueue references (`EnqueueReturns`), before
`UnlockHeap` or, for the daemon, `ParkDaemon`. What is marked is `ConcurrentMark`.

**Monitor** (`vm/Sync.cpp`, `vm/native/java_lang_VMThread.cpp`) is the monitor
of one object. The lock word is `fat`, `thinOwner`, `thinCount`; the fat
monitor `owner`, `count`, `mutex`, `waitSet`. Locking reads the word
(`ReadThin`), swaps it (`AcquireThin`, or `CasFails`), polls (`Spin`,
`SpinAcquire`) and inflates (`Fatten`); `LockAgain` inflates at the limit of
the count. A wait is `ObjectWait` (append to the wait set), `PrepareWait` (the
flag is read under `waitMutex`), `CondWakes`, `Relock`, `RestoreMonitor` (the
owner's depth, unlinking) and `WaitReturns` (which exception). Notify and
interrupt signal a sleeper; both run against every point of the wait.

**JavaMonitor** is what a monitor promises: one owner, recursion, a wait that
gives the monitor up whole and returns to the same depth.

**ClassInit** (`vm/oo/Class.cpp`, `dvmInitClass`). The monitor of a class is an
atomic lock with a wait set, which `Monitor` justifies. The native stack of
recursive calls is a chain: `top` is the class a thread is initializing
innermost and `outer` the one that asked for it; `at` is the point in the
innermost call. Whatever can fail (verification, the check against the
superclass, the initializer) may do so for the classes in `Faulty`, and need
not. `FailSuper` stores `ERROR` before `NotifyFailed` takes the monitor, as
the code does, and the result of a call is read after the unlock.

**ThreadLife** (`vm/Thread.cpp`, `vm/Jni.cpp`). `Start`, `SetVmThread`,
`PthreadCreate`, `PrepareThread`, `Handshake`, `Release` and `AwaitRelease` are
`dvmCreateInterpThread` and `interpThreadStart`: the child waits for `STARTING`
to become `VMWAIT`, the parent for the child to be on the list, both on
`threadStartCond`, which all starts share. `Attach` to `AttachReturns` are
`dvmAttachCurrentThread` with its failure paths, of which `RejectVersion`, for a
bad JNI version, keeps the reservation of the count; `CreateInternal`,
`AwaitInternal`, `Report` are `dvmCreateInternalThread`; `Exit` to `Leave` are
`threadExitUncaughtException` and `dvmDetachCurrentThread`; `Join` and
`JoinTest` are `Thread.join`, and `CallDestroy`, `ExitTest` `DestroyJavaVM`. The
collector (`StopAll`, `AllStopped`, `ResumeAll`) counts whoever is on the list
when it starts; a thread that arrives later meets it at `gcHeapLock`
(`PulseHeapLock`, or at `AwaitRelease`).

**ConcurrentMark** (`vm/alloc/MarkSweep.cpp`, `HeapSource.cpp`, `HeapBitmap.cpp`,
`CardTable.cpp`, `WriteBarrier.h`). An object is a place of the heap with one
reference; its kind says whether the collector follows it. `BeginCollection`
is pause A, `WalkWord`, `WalkObject` and `PopMarkStack` the trace (the finger
moves by words of the bitmap; an object behind it goes to the mark stack),
`RescanDirtyCards`, `ReMarkRoots`, `ProcessReferences` and `SweepSystemWeaks`,
which ends with the swap of the bitmaps, pause B, `SweepWord` and
`FinishCollection` what follows the restart of the world. `WorldRuns` says when
mutators may step. `Alloc` sets a live bit and no mark bit; `Store` writes and
then dirties the card of the object written to.

**ManagedHeap** is what a collector promises to the program: `Free` takes only
what no thread, finalizer or table can get at, `Clear` clears a reference only
when its referent is not strongly reachable, and before it is freed.

**ClassLoad** (`vm/oo/Class.cpp`, `findClassNoInit`, `dvmLinkClass`). A thread
has a stack of lookups (a superclass is found in the middle of linking).
`LookupClass`, `AddClassToHash`, `GrabWinner`, `GotClass`, `WaitForClass` are
the branches of `findClassNoInit`; `ResolveParent`, `LinkClass`, `PublishClass`
the successful link; `RemoveClassFromHash` and `GiveUp` the failed one, in two
steps since others may look the name up between them. `LoadFails` is a name no
dex file has, or a class that cannot be read; nothing of it gets into the table.
The collector is there only as the set `Free` of objects nobody can name any
more.

**CompilerQueue** (`vm/compiler/Compiler.cpp`, and the installation of a
translation in `codegen/arm/Assemble.cpp`). The compiler thread is
`CompilerLoop`, `DoWork`, `AssembleLIR`, `SetCodeAddr`, `NextOrder`; `DoWork`
drops an order also when the JitTable cannot grow, which makes the cache full,
or when the compiler bails out. It is not stopped with the world (blocking mode
leaves its suspend check out), so `ResetCodeCache`, run by a collector or by the
start of method tracing, may meet it at every step. Interpreting threads ask for
translations (`WorkEnqueue`), wait for the queue (`DrainQueue`, `DrainTimeout`),
run translations and call native methods from them. A translation is known by
`gen`, how often the cache had been wiped when it was made.

**AtomicCache** (`vm/AtomicCache.h`, `AtomicCache.cpp`, `oo/TypeCheck.cpp`).
The version of an entry is read, the fields in any order, the version again; an
update locks, makes the version odd, writes the fields in any order, makes it
even, unlocks. The order of the fields is free because the code has barriers
only around the version.

**IndirectRef** (`vm/IndirectRefTable.cpp`, `Jni.cpp`). A table with holes and
frames (`Add`, `DeleteLocal`, `DeleteWeak`, `PushFrame`, `PopFrame`, `Get`) and
the collector's `SweepWeak`. **RefStack** is what it implements: a stack of
bags of objects, where additions and deletions reach the top frame only.

**NativeLib** (`vm/Native.cpp`). A thread has a stack of calls of
`dvmLoadNativeCode`, since a `JNI_OnLoad` loads libraries too. The table is
searched (`FindSharedLibEntry`) and added to (`Probe`, `AddSharedLibEntry`)
without its lock, as in the code, so a library may get an entry, and a
`JNI_OnLoad`, from each of two threads. `CheckRecursion` and `WaitForResult` are
`checkOnLoadResult`, `StoreOnLoadResult` and `Broadcast` what the thread that ran
`JNI_OnLoad` does afterwards. The status changes around the waits belong to
`ThreadSuspend` and are not here.

**DebugSuspend** (`vm/jdwp/JdwpEvent.cpp`, `JdwpHandler.cpp`, `JdwpMain.cpp`,
`Debugger.cpp`, `Thread.cpp`) extends `ThreadSuspend` with `dbgSuspendCount`,
the event token and the JDWP thread. `PostEvent`, `SetWaitForEventThread`,
`EventFinish`, `SuspendSelf`, `ReviveSelf` and `EventPosted` are a thread at a
breakpoint or any other event that suspends; where the event suspends everybody
the thread goes through the steps of `dvmSuspendAllThreads` before
`SuspendSelf`, with `DbgSuspendOthers` and `DbgSeeStopped` in place of
`SuspendOthers` and `SeeStopped`, since the JDWP thread is left out and the
requests are the debugger's. The JDWP thread takes a request (`Receive`), waits
for the token to be free without taking it (`ProcessRequest`), and serves it:
suspend or resume one thread (`DbgSuspendThread`, `WaitForThread`,
`DbgResumeThread`) or all. `Drop`, `UndoSuspensions`, `UndoWake` and `Attach`
are the end of a connection and the next one. The other threads take part as in
`ThreadSuspend`, stoppers of the world included. The two settings of a debugger
in `MCThreads` are one instance of this module with every event and command, of
whose steps `InSetting` says which are left out. `Sensible` says what a debugger
asks for: it resumes only what it has suspended or has heard of (section 7).

## 4. The runs

| run | instance | states | shows |
|---|---|---|---|
| `suspend` | one of five setups: two threads stop the world while two use VM locks; one stops the world, two read stack traces; an allocator and the daemon collect; a debugger suspends a thread at its events next to a stopper; it suspends all threads at an event | 31 683 | that a stop (`StopCompletes`), a collection (`CollectionEnds`) and the posting of an event (`PostersReturn`) come to an end; no deadlock |
| `gc_collect` | 2 allocators, 1 of them also calls System.gc and dumps, the daemon | 1 857 116 | the pauses stop the world and with that implement `StopTheWorld` (`PausesStopTheWorld`); during a dump nobody is in managed code but, with a request to stop, who has just ended a concurrent collection (`OnlyCollectorsReturn`); requests are counted, nobody is left asleep, one collection at a time |
| `monitors` | 2 threads up to 4 deep with a count that is full at 2; both wait with timeouts and interrupt, one polls its flag | 596 341 | the word counts the enters, across inflation and waits; interrupts wake sleepers and are kept; the refinement `IsJavaMonitor` |
| `monitor_live` | 3 threads contend, wait and notify, one of them with a timeout | 73 772 | exclusion, and that a signalled waiter returns |
| `class_race` | 3 threads, a class and its subclass that use each other, both faulty | 312 765 | one start of each initializer, one view of the outcome, an exception for each caller of a failed class |
| `classes` | 2 threads look up a diamond of 3 classes, 2 of which may fail to link, to be found or to be read, one thread twice; or initialize 3 classes | 95 904 | one linked object per name, what is returned is linked to the top, every lookup and every call returns |
| `mark` | 4 objects in 2 words and 2 cards, of the kinds data, soft, weak, final; one immune; 2 roots; all four kinds of collection | 1 584 392 | the tricolour invariant, what was garbage when a full collection began is freed; the refinement `HeapSpec` |
| `threads` | one of: main, a Java child, an attaching daemon whose allocation may fail and whose JNI version may be bad, an internal thread, one collection; two threads that post events, one of which stops the world as well, and a debugger that suspends all, suspends or resumes one, and goes away; one that posts, with events that may suspend all, a stopper, and a debugger that resumes all and goes away | 1 648 589 | the count of non-daemons, no thread runs uncounted, no joiner or starter is left asleep; a request finds who had sent an event suspended (`AnswersFindSuspended`); the debugger takes only its own share of a count (`SharesAreKept`) |
| `services` | one of: compiler thread, 2 interpreting threads, 2 traces, a queue and a cache of 1; a cache entry with 2 x 2 keys and 2 threads; a table of 4 references with 3 frames; 2 threads load 2 libraries for 2 class loaders, one of which loads the other and itself, and both may fail | 307 060 | no stale code, the drain returns; answers are right; `IsRefStack`, stale weak references are refused; a load that succeeds has a ready library, and every load returns |
| `class_null`, `thread_exit`, `gc_restore` | | | disagreements of code and comment, section 7 |

Bounds. Three threads are the least with which two stoppers meet a bystander,
two tracers a stopper, or two waiters a notifier, and each hazard in the list of
`PROJECT.json` involves at most three parties; where a theorem covers a
property, it holds for any number. `CountMask = 2` makes the count of a thin
lock (13 bits in the code) overflow at the third enter, and `MaxHolds = 4` goes
one past that. No state is cut off by a constraint; counters are bounded in
guards: `MaxHolds`, `Calls` (lookups of a thread), `MaxObj` (class objects: the
three linked ones, and one more for each of the two threads), `MaxStops`
(collections), `MaxGen` (resets of the code cache: two, so that a translation
can be two generations old), `MaxVersion` (updates of a cache entry: the version
is even, odd and even again under a reader), `MaxFrames`, `MaxLoads` (loads from
outside of a `JNI_OnLoad`), `MaxSuspends = 1` (a debugger or an event starts a
new suspension while nobody is suspended deeper than that; a thread then reaches
a count of two from the debugger, for an event of its own may follow), `Serials
= 2` (of 4096: a serial number wraps, and `WeakRefsResolve` is claimed until it
does), `MaxRoots`. `N = 4` objects with words and cards of two are the least
where an object is in another word and on another card than what refers to it,
with a chain of two behind a finalizable object. In `classes` one thread looks
up twice, so that it may meet a class that failed before.

Deadlock is checked in `suspend` and `mark`. It is off where the system really
may stop: in `gc_collect` a collector and a dump may lock up over the VM locks
(section 7), in the monitor runs everyone may wait with nobody to notify,
`class_race` has the deadlock over initializers in a circle that the comment of
`dvmInitClass` describes and accepts, `classes` and `services` end when the
bounds are reached, `threads` when the VM is down or a debugger leaves it
suspended.

Configurations were chosen knowing what fails. `OnlyCollectorsReturn` and
`PausesStopTheWorld` are claimed without stack traces, because of the list-lock
hole of section 7, and so are `WorldStopped` and `StopsTheWorld`, which are
proved (section 6) and not run: where a thread dumps, `WorldStopped` holds only
if no other thread collects concurrently, and in `gc_collect` the daemon does;
the traces of `suspend` are read without users of the VM locks, because of the
lock-up there; in `threads` nobody dies of an exception and the thread whose
attachment may fail is a daemon, because of the items on `ThreadLife`;
`PostersReturn` is claimed for one poster, and for events that suspend all
without another stopper, because of the items on `DebugSuspend`. `LookupsReturn`
ends at the null pointer of `class_null`, which kills the VM.

## 5. Fairness

* `ThreadSuspend`, `GcStop`: a thread that is inside an operation is scheduled
  (weak fairness of its next step); one that runs managed code meets safe
  points (the compiler puts a check at each loop back edge and method entry):
  strong fairness of `SafePoint`, since leaving to native code may disable it
  in between; a pthread mutex does not starve who waits for it. Nothing
  obliges a thread to return from native code, to call anything, or to start a
  collection.
* `Monitor`: the same for steps inside an operation and for the mutex, and
  callers leave a monitor they have entered (strong fairness of `Unlock`),
  without which no waiter returns. Nobody is obliged to notify. `CondWakes`
  takes a thread out of its sleep only for a signal or, in a thread in
  `Timed`, at any time. That also stands for a spurious wake-up, which the
  code treats as a timeout.
* `ClassLoad`: weak fairness of each thread's steps; that is enough, for the
  lock of a class is free again for good once the class is settled.
* `ClassInit`: initializers end, and the monitor of a class does not starve
  who enters it.
* `CompilerQueue`: the compiler thread and whoever stops the world are
  scheduled, a thread parks at a safe point when it is asked to, and a timed
  wait ends. Nobody is obliged to leave a translation, to return from a native
  method or to ask for anything, and no signal is assumed to reach the thread
  it was meant for: `DrainReturns` rests on the timeout of the wait, and fails
  without it (that is its mutant). It is claimed when the compiler does not bail
  out of wanted orders for ever, which the property says itself (section 7).

* `DebugSuspend`: as `ThreadSuspend`; who was woken looks at its count in the
  end when that is zero again and again; and the debugger answers, that is, it
  asks again and again to resume as long as there is something to (strong
  fairness of `Receive`; without it a suspended thread rightly stays so).

* `NativeLib`: a `JNI_OnLoad` ends, and a thread inside a load is scheduled.
  `LoadsReturn` needs libraries that do not load each other in a circle
  (section 7).

`ThreadLife`, `ConcurrentMark`, `AtomicCache` and `IndirectRef` promise safety
only.

## 6. What is proved

Proved by TLAPS for every value of the constants that satisfies the named
assumptions (`RolesAssumption`, `GcRolesAssumption`, `MonitorAssumption`,
`ClassAssumption`, `ClassLoadAssumption`, `ThreadLifeAssumption`,
`ThreadsAssumption`, `ServicesAssumption`, `NAssumption` and `MarkAssumption`).
They say which sets roles come from, and that the set of threads is finite where
suspensions or threads are counted: the thread list is.

Suspension (`ThreadSuspendProofs`):

* `TypeCorrect`, `WakeUpsAreNotLost`, for any roles. That nobody is left asleep
  is inductive with the types alone, because every step that takes the last
  request of a thread away is followed by a broadcast that has not happened
  yet, or broadcasts itself.
* `StopIsSafe`: `WorldStopped` when `Tracer = {}`. `WorldStopped` is not
  inductive: it does not say why a thread that returns from native code does
  not run on. `StopInv` adds that `_threadSuspendLock` is held at the points
  of a stop, that a stopper has no request against itself, and that whoever it
  has seen stopped is parked with a request against it, so the suspend check
  keeps it. The step that matters is `SuspendOthers`: nobody else can be
  stopping then, since two of them would both hold `_threadSuspendLock`.
* `CountsAreRequests`, for any roles: `suspendCount[t]` is a cardinality, so
  the proof first shows that each step of a thread does one of five things
  (`RequestStep`: keeps its requests, asks all or one, frees all or one) and
  touches no request of another, and then counts. `TracesOthers` is the
  strengthening: a trace is of another thread.
* `ProtocolStopsTheWorld`: with `Tracer = {}`, every behaviour is one of
  `StopTheWorld`. Besides `StopInv` it needs that at most one thread has the
  world stopped, and that no step changes what two threads show of themselves.

Collections (`GcStopProofs`):

* `GcInvariant`: at each point, which thread has the heap lock and
  `gcRunning` (`HeapInv`), which roles lead there (`RoleInv`), and which status
  a thread has on its own account, that is, will restore if it is blocked
  (`StatusInv`); and that who has asked for a stop has asked everyone
  (`AskedInv`).
* `OneCollectionAtATime`, `GcSleepersWakeUp` from it. The first has to follow
  a concurrent collection through the two stretches where it does not hold the
  heap lock; the second needs that a foreground collection starts only when
  nobody waits.
* `GcCountsAreRequests`, `GcWakeUpsAreNotLost`: the properties of the protocol
  with the steps of collections in between; the proofs use the lemmas of
  `ThreadSuspendProofs` about counts.
* `CollectionsStopTheWorld` states `OnlyCollectorsReturn`, for any roles without
  stack traces: a pause of a collection finds nobody in managed code, and a
  dump only threads that come from the end of a concurrent collection, with a
  request to stop that they meet at their next safe point. `StaysInv` lists where
  a thread seen stopped may be: it blocks, it meets its suspend check before it
  can be in managed code, or it is `Excused`, a collector between its second
  pause and the end. That nobody is excused in a pause is `OneCollectionAtATime`.
* `LoneCollectorsStopTheWorld`: the whole of `WorldStopped`, if who dumps is the
  only thread that collects concurrently. The hypothesis is needed: `FinishGc`
  makes its thread RUNNING by a plain store, and only the absence of another
  stop at that time keeps it harmless (run `gc_restore`).
* `CollectionsImplementStop` states `PausesStopTheWorld`: seen by its pauses,
  every behaviour of the collector, with any number of dumpers beside it, is one
  of `StopTheWorld`. No step changes what two threads show of themselves
  (`PauseSteps`), one thread at most has paused the world (`OnePauser`, from
  `AskedInv`), and each step then enters managed code or leaves it, stops or
  resumes, or shows nothing (`PauseStepImplements`).

Monitors (`MonitorProofs`):

* `MonitorInvariant`, `MonitorIsExclusive`, `MonitorCounts`.
  `MonitorInv` relates the shape of the lock word, the owner, the mutex and
  the point of each thread: who spins or blocks has entered nothing, who is
  about to fatten the lock owns the thin word, who waits remembers its depth.
  Exclusion follows because the owner of the word is a function of it.
* `InterruptsWakeSleepers`, and `InterruptIsKept` for every thread whose waits
  throw and that does not poll its flag, whatever the others do.
* `MonitorIsJavaMonitor`: each step is one of `JavaMonitor` (enter, leave,
  wait, come back) or changes nothing that shows, inflation included.

Class initialization (`ClassInitProofs`), for any hierarchy and any use of
classes by initializers, circles included:

* `InitInvariant`, `ClinitRunsOnce`, `InitializingIsTrue`, `StatusIsFinal`.
  That an initializer starts once needs the
  whole chain of classes a thread has in progress (`ChainInv`): a call that
  returns resumes the class on `top`, and that must be one this thread has
  begun and not finished, and no other class of its chain.
* `FailureThrown`, `ViewsAgree`. `AnswerInv` ties what a call is about to
  answer, and the pending exception, to the status of the class at the point of
  the call, and what was told before to a status that is final. A call that
  finds its own thread at work on the class answers without a final result.
* `SleepersAreCaredFor`: who sleeps on a class has its initializer, or one that
  has stored the error and not yet notified, to wake it.
* `SuperIsFirst`. That the superclass is ready when the initializer runs is
  not a matter of one class: a superclass in progress further out in the same
  thread counts as ready, so the chain is a stack whose lower part cannot end
  before the upper (`StackInv`), which is said with a function from classes to
  the set below them, for no induction over the chain is available.

Threads (`ThreadsProofs`):

* `LifeInvariant`: which threads are listed, their status, role and the stage
  of their handshake at each point (`CtlInv`), and the count.
* `CountsAreExact`: every step links, unlinks, reserves, restores or leaves
  alone (`ShareStep`), and `HasShare` says that who gives a share back has one,
  so the count does not go below zero. A thread whose JNI version is bad keeps the
  share it reserved; `CountIsExact` counts these (`Attaching`), for the code does.
* `JoinersWakeUp`, `HandshakesWakeUp`: the first with `JoinInv`, which says
  what a sleeper in join still sees; the second rests on `CtlInv`.
* `UncountedThreadsStall`, when `Throwing = {}`: `UncountedInv` says that who
  was listed after the count waits for the end of the collection in one of two
  places. With a thread that dies of an uncaught exception the property is
  false (section 7), hence the hypothesis.

The debugger (`ThreadsProofs`), for any threads, in both settings:

* `DebuggerIsConsistent`: who has the event token, and that a thread that sent
  an event keeps it until it has suspended itself (`TokenIsHeld`); where
  `_threadSuspendLock` is held (`SusLockHeld`); that what the JDWP thread is
  to resume has been suspended for it, or is about to be (`RequestInHand`); and
  that it is parked, with a request against it, while a collector has stopped
  the world (`JdwpStops`), so that it resumes nobody then.
* `AnswersComeLate` states `AnswersFindSuspended`. `early` is empty as soon as
  the JDWP thread has seen the token free, and who gives the token back has
  suspended itself in the same step.
* `DebuggerTakesItsOwn` states `SharesAreKept`: a count less the debugger's
  share is a cardinality, the number of other threads that stop the world, so
  the proof shows first that each step begins a stop, ends one or does neither
  (`AskStep`), and then what the counts tell of stoppers (`SharesTell`).

Class loading (`ClassLoadProofs`), for any hierarchy and any faults:

* `LoadingIsConsistent`: the lookups of a thread are a chain, each but the
  last resolving a parent, and define different objects (`Chain`); the object
  under definition is owned, and in the table from its insertion until it
  fails; what is linked stays in the table with all its parents (`LinkedInv`).
* `NamesAreUnique` (`OneClassPerName`) and `LookupsFindLinked`
  (`ReturnedIsLinked`). Neither is inductive: an object that failed keeps its
  name after it has left the table, and another may be defined under that
  name before the first lookup ends, so it is the table that must say which
  object a name stands for.

Marking (`ConcurrentMarkProofs`), for any number of objects, any layout, any
size of words and cards and any immune prefix:

* `GraysAreOnDirtyCards`, `BitmapsAgree`, `NothingDangles`, `CollectorIsSafe`.
  `IInv` has the tricolour invariant
  phase by phase: while the trace runs, a scanned object that refers to an
  unmarked one is on a dirty card or waits on a list; after the re-mark no
  marked object strongly refers to an unmarked one, and the roots are marked;
  after the references are treated the same holds of referents; in the sweep,
  what is used and not marked before the swap is neither referred to nor
  reachable, and stays so while threads allocate, because the mutators can
  only get at what is marked. `CollectorIsSafe` is the refinement: every step
  of the collector is a `Clear`, a `Free` or a stutter of `ManagedHeap`.
  Reachability is the least closed set, so no induction is needed.
* `GarbageIsFreed`, the other direction: `DoomedInv` says that what was garbage
  at the start of a collection is referred to by nothing that is not, that
  marking never gets there, and that the swapped bitmaps leave it to the words
  the sweep has yet to visit.

Small state machines (`ServicesProofs`):

* `CacheIsConsistent`, `AnswersAreAlwaysRight`, for any
  threads and keys. The version is a sequence lock: even means that the entry
  belongs together, odd that the one thread that holds the lock flag is
  writing, and what a reader has collected is the entry's as long as the
  version is the one it began with.
* `TranslationsAreKnown`, `CodeIsAlwaysLive`, for any
  threads, traces and sizes. `CodeIsLive` is not inductive: it does not say why
  what the compiler thread installs is current. `JitInv` adds that an order whose
  version is the current one has no translation, or one of the current cache,
  which holds because a reset changes the version and wipes the cache in one
  step under `compilerLock`, and that a thread outside of translations and the
  native methods they call keeps no address.
* `LoadsAreNested`, `LoadedIsAlwaysReady`, for any libraries and whatever they
  load. All calls of a thread but the last run the `JNI_OnLoad`s of different
  libraries, the class loader guard of an entry is up only during its
  `JNI_OnLoad`, and the result of an entry is `okay` once a call has been told
  so (`LibsInv`), also when a race has given the library a second entry.
* `TableIsSound`, `WeakRefsAlwaysResolve`, for any size of the table. `RefsInv`:
  a frame knows how many holes it has and its last slot is not one of them; for
  weak references, a slot's serial number is that of its last use.
  `WeakRefsResolve` is claimed as long as the serial numbers of a slot do not
  wrap.
* `ReferencesAreAStack` is the refinement `IsRefStack`: every step adds to the
  top bag, takes one reference out of it, pushes or pops a frame, or shows
  nothing. A deletion at the top takes the holes below with it; how many is the
  greatest number for which all are holes, and that there is one is shown with
  the library's well-founded order of finite sets (`Greatest`), since an
  induction over the loop is not available.
Each proof is Init, one step per action, and a temporal step that combines
them. The inductive invariants were checked with TLC on small instances before
they were proved.

Model-checked only: everything under fairness (`StopCompletes`,
`CollectionEnds`, `PostersReturn`, `SignalledReturns`, `LookupsReturn`,
`CallsReturn`, `DrainReturns`, `LoadsReturn`), which is out of the prover's
reach.

## 7. Where code and comments disagree

With a run that shows it:

* `gc_restore`: a concurrent collection ends with a plain store of its old
  status (`Heap.cpp` 735), also if another thread has stopped the world since:
  its thread is back in managed code during a stop. That is an explicit caller,
  or the GC daemon, which runs `ReferenceQueue.add` to enqueue what was cleared
  (766). The run has an explicit caller and a dumper; with a daemon and a
  dumper, and nobody who calls `System.gc`, `NothingRunsWhileStopped` fails as
  well.
* `class_null`: the loser of the race to define a class looks the winner up
  again and asserts that it is there; the winner may have failed to link and
  left the table in between.
* `thread_exit`: an attaching daemon takes a reservation of the count of
  non-daemons, and gives it back without signalling `vmExitCond` when the
  attachment fails or the thread turns out to be a daemon: `DestroyJavaVM`
  sleeps on with nothing to wait for.

Seen with the same modules while choosing the instances above:

* The list-lock hole: `dvmLockThreadList` blocks as a thread that counts as
  stopped and restores its status with a plain store, so it runs on with the
  list lock while the world is stopped. `ListLockExcludesStop`
  (`ThreadSuspend`) states the opposite and does not hold when somebody reads
  stack traces.
* `dvmSuspendAllThreads` takes the VM-internal locks before it yields to a
  pending request and before it waits for `_threadSuspendLock` and
  `threadListLock` (`Thread.cpp` 2719 to 2758). Two stoppers can each hold
  what the other wants (the code aborts after its timeout); a stopper, a
  tracer with the list lock, and a traced thread that is after a VM lock wait
  in a circle; and a collector that another stop counts as stopped can go to
  sleep with the VM locks, against the note at line 121.
* `dvmUnlockObject` on a thin lock the thread does not own throws and returns
  true (`Sync.cpp` 1112); `Sync.h` promises false. `UnlockReportsFailure`
  (`Monitor`) states the promise and does not hold.
* `waitMonitor` clears the interrupted flag also when the caller asked not to
  throw (`Sync.cpp` 795), so class initialization swallows interrupts; the
  comment in `Thread.h` says the flag stays raised until queried or thrown.
  `Thread.interrupted` reads and clears the flag in two steps without
  `waitMutex`: an interrupt between them is lost. `InterruptStaysRaised`
  leaves both kinds of thread out.
* `notifyMonitor` may pick a waiter that an interrupt has woken already; the
  notify is then lost for the others (`Sync.cpp` 824).
* `ThreadLife`: a thread that dies of an uncaught exception subtracts its own
  `suspendCount` from itself (`Thread.cpp` 1727) and so runs `removeThread` also
  while the collector has stopped the world; with `Throwing # {}`
  `UncountedStall` fails. When `pthread_create` fails the parent clears
  `vmThread` and notifies nobody, so who joined early sleeps on (the exception
  in `JoinersAreWoken`). When the creation of an internal thread fails the
  parent returns with `threadListLock` held. `attachThread` reserves a place in
  the count (`Jni.cpp` 3048) and returns `JNI_EVERSION` (3069) before the line
  that gives it back (3085): after one attachment with a bad version the count
  never falls to 0, and `DestroyJavaVM` does not return (`RejectVersion`; the
  count is then what `CountIsExact` says, one too many for ever).
* `CompilerQueue`: an order for a trace that is queued already is reported as
  taken although nobody keeps its `info`; a reset for method tracing that finds
  a thread in translations is given up and not tried again;
  `dvmCompilerForceWorkEnqueue` has no caller; the signal that `workDequeue`
  sends from a reset meets nobody. `Utility.cpp` 358 to 367 says of a
  compilation that bails out "force to interpret-only for this trace", and
  nothing does: the trace is asked for again, so with a compiler that bails out
  each time a thread may wait in `dvmCompilerDrainQueue` as long as others go on
  asking. `DrainReturns` without its premise fails in this way.
* `AtomicCache`: only answers of 0 go to the cache
  (`ATOMIC_CACHE_NULL_ALLOWED`), so a positive answer is computed every time.
  The overflow of the version, which a note in the code describes, is left out.
* `IndirectRefTable.cpp` 109 checks `table_` for null after a `realloc` whose
  result is in another variable.
* `NativeLib`: the table of libraries is looked up and added to without its
  lock, so two threads may both run the `JNI_OnLoad` of one library, against
  the comment at line 235; the loser of that race (454) does not compare class
  loaders; with `Loads` in a circle, two threads wait for each other for ever
  and `LoadsReturn` fails. From reading: a waiter restores its status while it
  holds `onLoadLock` (310), so a stop of the world may put it to sleep with the
  lock, and a thread that is RUNNING and wants that lock (538) never reaches a
  safe point, which the stop waits for.
* `DebugSuspend`, checked with other instances. (1) An event that suspends all
  goes through the yield loop this fork has put into `dvmSuspendAllThreads`
  (`Thread.cpp` 2736) with the event token: with two such posters
  `token # NoThread => pc[token] # "asleep"` is violated, against
  `JdwpEvent.cpp` 88, "Suspending while holding the event token is very bad,
  because it prevents the JDWP thread from processing incoming messages"; the
  JDWP thread then waits for the token (`JdwpHandler.cpp` 1909) and nobody is
  resumed. (2) `dvmJdwpClearWaitForEventThread` signals one waiter; if that is
  the JDWP thread, which only looks at the token, a second poster sleeps on with
  the token free: `PostersReturn` fails with two posters. (3) A poster that
  another stopper counts as stopped can go to sleep in the yield loop with the
  VM locks, the lock-up above: `PostersReturn` fails with events that suspend
  all and a stopper. (4) When the debugger goes away while an event is being
  posted, `dvmUndoDebuggerSuspensions` comes before `dvmSuspendSelf`, which
  then sleeps until the next debugger resumes it; `JdwpMain.cpp` 202 only warns.
  (5) `dvmResumeThread` takes a request without looking at `dbgSuspendCount`, so
  a debugger that resumes a thread it has not suspended takes a collector's,
  against `Thread.h` 144 to 147: hence `Sensible`. From reading:
  `suspendByPolicy` waits for the token while RUNNING after a method invocation
  (`JdwpEvent.cpp` 617), against the comment at line 655.

## 8. Not modelled

The map covers a small share of the repository's lines, and will: most of the
tree is generated interpreters, code generators, the verifier's rules for each
instruction, parsers of dex files and of the debugger's wire format, conversion
code of the natives, and tools. That is sequential code over large data, where
unit tests reach and a model would be a transliteration. What is modelled is
the part where threads meet.

The components marked `not_modelled` in `PROJECT.json` carry their reason; the
plan says which are next. Inside the modelled ones: methods invoked for a
debugger, events that suspend nobody and the filters that choose events,
`dvmSlayDaemons`, the hook of thread starts
(`Thread.cpp` 2036 to 2056), thread ids and
priorities, heap growth, trimming and the last attempts before an
OutOfMemoryError, phantom references and class objects in the collector, the
sleep monitor, the sweep of dead monitors, lock contention sampling, static
values from the dex file, late optimization of a class, class loaders and their
lists of initiated classes, chaining and patching in the JIT, the growth of the
reference tables and global references. Build options that the fork does not
use (`FASTIVA_SUSPEND_BY_SIGNAL`, the copying collector, preimported classes)
are not followed.
