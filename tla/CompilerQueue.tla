--------------------------- MODULE CompilerQueue ---------------------------
(***************************************************************************)
(* The compiler thread of the trace JIT, its work queue and its code cache *)
(* (vm/compiler/Compiler.cpp; the installation of a translation is that of *)
(* codegen/arm/Assemble.cpp).  Interpreting threads ask for translations   *)
(* and run them; the compiler thread is not stopped with the world, so the *)
(* cache may be reset behind its back; cacheVersion tells it.              *)
(*                                                                         *)
(* A translation is known by the generation of the cache it is in.  What   *)
(* is compiled, chaining and the inline cache are left out.                *)
(***************************************************************************)
EXTENDS Naturals, Sequences

CONSTANTS
  Thread,      \* interpreting threads
  Trace,       \* heads of traces
  QueueSize,   \* COMPILER_WORK_QUEUE_SIZE
  CacheSize,   \* translations the code cache can hold
  MaxGen,      \* bound: resets of the cache
  Blocking,    \* gDvmJit.blockingMode
  None

VARIABLES
  queue,    \* compilerWorkQueue, from the dequeue to the enqueue index
  version,  \* cacheVersion
  full,     \* codeCacheFull
  used,     \* codeCacheByteUsed, in translations
  table,    \* the JitTable: the code of a trace
  gen,      \* how often the cache was wiped
  work,     \* the order the compiler thread has taken
  jit,      \* where the compiler thread is
  halt,     \* haltCompilerThread
  at,       \* where each interpreting thread is
  code,     \* translation it runs, or returns to from a native method
  asleep,   \* threads in the timed wait for compilerQueueEmpty
  stop,     \* "no", or why the world is being stopped
  parked,   \* threads suspended for it
  traced    \* methodTraceSupport

cacheVars == <<version, full, used, table, gen>>
compilerVars == <<work, jit, halt>>
threadVars == <<at, code, asleep, parked>>
stopVars == <<stop, traced>>
vars == <<queue, cacheVars, compilerVars, threadVars, stopVars>>

Order == [pc : Trace, version : Nat, addr : Nat \cup {None}]

Init ==
  /\ queue = <<>> /\ version = 0 /\ full = FALSE /\ used = 0 /\ gen = 0
  /\ table = [p \in Trace |-> None]
  /\ work = None /\ jit = "loop" /\ halt = FALSE
  /\ at = [t \in Thread |-> "interp"] /\ code = [t \in Thread |-> None]
  /\ asleep = {} /\ stop = "no" /\ parked = {} /\ traced = FALSE

-----------------------------------------------------------------------------
(* Interpreting threads.                                                   *)

Runs(t, place) == at[t] = place /\ t \notin parked
Goto(t, place) == at' = [at EXCEPT ![t] = place]

\* pthread_cond_signal(compilerQueueActivity): the compiler thread sleeps on
\* it alone.
Activity == jit' = IF jit = "sleep" THEN "loop" ELSE jit

\* pthread_cond_signal(compilerQueueEmpty): one of the sleepers, if any.
SignalEmpty ==
  IF asleep = {} THEN UNCHANGED asleep
  ELSE \E t \in asleep : asleep' = asleep \ {t}

\* A trace was selected that has no translation: dvmCompilerWorkEnqueue.  An
\* order for the trace that is queued already will do.
WorkEnqueue(t, p) ==
  /\ Runs(t, "interp") /\ table[p] = None
  /\ Len(queue) < QueueSize /\ ~full
  /\ IF \E i \in 1..Len(queue) : queue[i].pc = p
     THEN UNCHANGED <<queue, jit>>
     ELSE /\ queue' = Append(queue, [pc |-> p, version |-> version, addr |-> None])
          /\ Activity
  /\ IF Blocking THEN Goto(t, "drain") ELSE UNCHANGED at
  /\ UNCHANGED <<cacheVars, work, halt, code, asleep, parked, stopVars>>

\* dvmCompilerDrainQueue: the test, ...
DrainQueue(t) ==
  /\ Runs(t, "drain") /\ t \notin asleep
  /\ IF queue # <<>> /\ ~halt /\ stop = "no"
     THEN asleep' = asleep \cup {t} /\ UNCHANGED at
     ELSE Goto(t, "interp") /\ UNCHANGED asleep
  /\ UNCHANGED <<queue, cacheVars, compilerVars, code, parked, stopVars>>

\* Mutant: the wait has no timeout.
DrainTimeoutNever(t) == t \in asleep /\ FALSE

\* ... and the end of the second it sleeps at most.
DrainTimeout(t) ==
  /\ t \in asleep
  /\ asleep' = asleep \ {t}
  /\ UNCHANGED <<queue, cacheVars, compilerVars, at, code, parked, stopVars>>

\* dvmJitGetTraceAddr, unless dvmJitHideTranslation.
EnterCode(t, p) ==
  /\ Runs(t, "interp") /\ table[p] # None /\ ~full /\ stop = "no"
  /\ Goto(t, "code")
  /\ code' = [code EXCEPT ![t] = table[p]]
  /\ UNCHANGED <<queue, cacheVars, compilerVars, asleep, parked, stopVars>>

LeaveCode(t) ==
  /\ Runs(t, "code")
  /\ Goto(t, "interp") /\ code' = [code EXCEPT ![t] = None]
  /\ UNCHANGED <<queue, cacheVars, compilerVars, asleep, parked, stopVars>>

\* A translation calls a native method; returnAddr leads back into it.
CallNative(t) ==
  /\ Runs(t, "code") /\ Goto(t, "native")
  /\ UNCHANGED <<queue, cacheVars, compilerVars, code, asleep, parked, stopVars>>

ReturnFromNative(t) ==
  /\ at[t] = "native" /\ stop = "no"
  /\ Goto(t, IF code[t] = None THEN "interp" ELSE "code")
  /\ UNCHANGED <<queue, cacheVars, compilerVars, code, asleep, parked, stopVars>>

\* At a safe point, in the interpreter or in a helper that a translation called.
Park(t) ==
  /\ stop # "no" /\ at[t] \in {"interp", "code"} /\ t \notin parked
  /\ parked' = parked \cup {t}
  /\ UNCHANGED <<queue, cacheVars, compilerVars, at, code, asleep, stopVars>>

-----------------------------------------------------------------------------
(* Stops of the world.                                                     *)

\* A collection, and the start of method tracing: "invalidate compilations in
\* flight", then a reset if anything has been compiled.
StartGc ==
  /\ stop = "no" /\ gen < MaxGen
  /\ stop' = "gc"
  /\ UNCHANGED <<queue, cacheVars, compilerVars, threadVars, traced>>

UpdateGlobalState ==
  /\ stop = "no" /\ ~traced
  /\ traced' = TRUE /\ version' = version + 1
  /\ stop' = IF used > 0 THEN "trace" ELSE stop
  /\ UNCHANGED <<queue, full, used, table, gen, compilerVars, threadVars>>

Stopped == stop # "no" /\ \A t \in Thread : t \in parked \/ at[t] = "native"

\* resetCodeCache, and the world goes on.  The return addresses are cleared
\* even if the reset is then put off.
ResetCodeCache ==
  /\ Stopped /\ (full \/ stop = "trace")
  /\ code' = [t \in Thread |-> IF at[t] = "native" THEN None ELSE code[t]]
  /\ \/ /\ \E t \in Thread : at[t] = "code"
        /\ UNCHANGED <<queue, cacheVars>>
     \/ /\ \A t \in Thread : at[t] # "code"
        /\ version' = version + 1 /\ gen' = gen + 1
        /\ queue' = <<>> /\ used' = 0 /\ full' = FALSE
        /\ table' = [p \in Trace |-> None]
  /\ stop' = "no" /\ parked' = {}
  /\ UNCHANGED <<compilerVars, at, asleep, traced>>

EndGc ==
  /\ Stopped /\ stop = "gc" /\ ~full
  /\ stop' = "no" /\ parked' = {}
  /\ UNCHANGED <<queue, cacheVars, compilerVars, at, code, asleep, traced>>

-----------------------------------------------------------------------------
(* The compiler thread.                                                    *)

WorkDequeue ==
  /\ work' = Head(queue) /\ queue' = Tail(queue)
  /\ jit' = "taken"
  /\ IF Len(queue) = 1 THEN SignalEmpty ELSE UNCHANGED asleep

\* compilerThreadStart: the outer loop, with compilerLock held.
CompilerLoop ==
  /\ jit = "loop"
  /\ \/ /\ halt
        /\ jit' = "done" /\ SignalEmpty /\ UNCHANGED <<queue, work>>
     \/ /\ ~halt /\ queue = <<>>
        /\ jit' = "sleep" /\ SignalEmpty /\ UNCHANGED <<queue, work>>
     \/ /\ ~halt /\ queue # <<>>
        /\ WorkDequeue
  /\ UNCHANGED <<cacheVars, halt, at, code, parked, stopVars>>

\* The order is still to be translated.
Wanted == ~halt /\ ~full /\ table[work.pc] = None /\ work.version = version

\* The suspend check, which blocking mode leaves out.  Then the order is dropped:
\* the cache is called full because the JitTable cannot grow or there is no room
\* for the translation, or the order is not wanted, or the compiler bails out.
\* Or dvmCompilerDoWork gets to the point where the translation is ready.
DoWork ==
  /\ jit = "taken"
  /\ stop = "no" \/ Blocking
  /\ \/ jit' = "drop" /\ full' \in {full, TRUE}
     \/ Wanted /\ used < CacheSize /\ jit' = "ready" /\ UNCHANGED full
  /\ UNCHANGED <<queue, version, used, table, gen, work, halt, threadVars, stopVars>>

\* dvmCompilerAssembleLIR: "acquire lock and check version", copy the code.
AssembleLIR ==
  /\ jit = "ready"
  /\ \/ /\ work.version = version
        /\ used' = used + 1
        /\ work' = [work EXCEPT !.addr = gen]
     \/ /\ work.version # version
        /\ UNCHANGED <<used, work>>
  /\ jit' = "compiled"
  /\ UNCHANGED <<queue, version, full, table, gen, halt, threadVars, stopVars>>

\* Mutant: the version is not looked at a second time.
SetCodeAddrAnyway ==
  /\ jit = "compiled"
  /\ table' = IF work.addr # None
              THEN [table EXCEPT ![work.pc] = work.addr] ELSE table
  /\ jit' = "drop"
  /\ UNCHANGED <<queue, version, full, used, gen, work, halt, threadVars, stopVars>>

\* "Make sure we are still operating with the same translation cache version",
\* then dvmJitSetCodeAddr.
SetCodeAddr ==
  /\ jit = "compiled"
  /\ table' = IF work.version = version /\ work.addr # None
              THEN [table EXCEPT ![work.pc] = work.addr] ELSE table
  /\ jit' = "drop"
  /\ UNCHANGED <<queue, version, full, used, gen, work, halt, threadVars, stopVars>>

\* The order is done: the next one, or back to the outer loop.
NextOrder ==
  /\ jit = "drop"
  /\ \/ queue # <<>> /\ WorkDequeue
     \/ /\ queue = <<>>
        /\ jit' = "loop" /\ work' = None /\ UNCHANGED <<queue, asleep>>
  /\ UNCHANGED <<cacheVars, halt, at, code, parked, stopVars>>

\* dvmCompilerShutdown: the flag is stored, then the thread is woken.
Shutdown ==
  /\ ~halt
  /\ halt' = TRUE
  /\ UNCHANGED <<queue, cacheVars, work, jit, threadVars, stopVars>>

ShutdownSignal ==
  /\ halt /\ jit = "sleep"
  /\ Activity
  /\ UNCHANGED <<queue, cacheVars, work, halt, threadVars, stopVars>>

-----------------------------------------------------------------------------
Compiler ==
  CompilerLoop \/ DoWork \/ AssembleLIR \/ SetCodeAddr \/ NextOrder

World == ResetCodeCache \/ EndGc

Obliged(t) == DrainQueue(t) \/ Park(t)

Request(t) == \E p \in Trace : WorkEnqueue(t, p) \/ EnterCode(t, p)

Next ==
  \/ Compiler \/ World \/ StartGc \/ UpdateGlobalState \/ Shutdown \/ ShutdownSignal
  \/ \E t \in Thread :
       \/ Request(t) \/ Obliged(t) \/ DrainTimeout(t)
       \/ LeaveCode(t) \/ CallNative(t) \/ ReturnFromNative(t)

Spec == Init /\ [][Next]_vars

\* The threads run; a timed wait ends; a stop of the world ends as well, since
\* translations poll for it (Park).  Nobody has to leave a translation, return
\* from a native method or be signalled.
FairSpec ==
  /\ Spec /\ WF_vars(Compiler) /\ WF_vars(World)
  /\ \A t \in Thread : WF_vars(Obliged(t)) /\ WF_vars(DrainTimeout(t))

-----------------------------------------------------------------------------
(* Properties.                                                             *)

CompilerTypeOK ==
  /\ queue \in Seq(Order) /\ Len(queue) <= QueueSize /\ version \in Nat /\ gen \in Nat
  /\ full \in BOOLEAN /\ halt \in BOOLEAN /\ used \in 0..CacheSize
  /\ table \in [Trace -> Nat \cup {None}]
  /\ work = None \/ work \in Order
  /\ code \in [Thread -> Nat \cup {None}]

\* Nobody can reach code of a cache that was wiped: not through the table, not
\* in a translation, and not on the way back from a native method.
CodeIsLive ==
  /\ \A p \in Trace : table[p] \in {None, gen}
  /\ \A t \in Thread : code[t] \in {None, gen}

\* The compiler bails out of an order that was wanted (dvmCompilerAbort).
BailOut == jit = "taken" /\ Wanted /\ jit' = "drop" /\ ~full'

\* A thread that waits for the queue to drain gets on, also if the compiler
\* thread halts, its only signal goes to somebody else, or the world stops:
\* unless the compiler bails out for ever, since others may ask again for what
\* it gave up and find the queue empty before this thread looks.
DrainReturns ==
  <>[][~BailOut]_vars => \A t \in Thread : at[t] = "drain" ~> at[t] # "drain"
=============================================================================
