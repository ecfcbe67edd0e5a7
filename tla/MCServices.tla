----------------------------- MODULE MCServices -----------------------------
(***************************************************************************)
(* Four services of the VM that have no state in common: the cache of      *)
(* dvmInstanceof (AtomicCache), the compiler thread (CompilerQueue), a     *)
(* table of JNI references (IndirectRef) and the loading of native         *)
(* libraries (NativeLib).  A behaviour is one of one of them: the state    *)
(* graph is the sum of theirs, not the product.                            *)
(***************************************************************************)
EXTENDS AtomicCache, TLC

CONSTANTS
  t1, t2, a1, a2, b1, b2, o1, o2, p1, p2,
  Trace, QueueSize, CacheSize, MaxGen, Blocking, None,     \* the JIT
  Obj, MaxEntries, Serials, MaxFrames, Null, Cleared,      \* references
  Path, Loader, Loads, Faulty, MaxLoads, Nobody            \* libraries

ASSUME ServicesAssumption ==
  /\ Loads \in [Path -> SUBSET Path]
  /\ Nobody \notin Thread
  /\ MaxEntries \in Nat /\ Serials \in Nat \ {0}
  /\ Null \notin Obj /\ Cleared \notin Obj /\ Null # Cleared

VARIABLES
  service,                                                \* whose turn it is
  queue, cacheVersion, full, used, table, gen, work, jit, halt,
  interp, code, asleep, parked, stop, traced,
  kind, slot, top, holes, cookies, held, dropped, uses,
  libs, lib, calls, waiting, outcome, loads

TwoThreads == {t1, t2}
P1P2 == {p1, p2}
O1O2 == {o1, o2}
A1A2 == {a1, a2}
B1B2 == {b1, b2}

\* An instance of a1 is one of b2; no other answer is yes.
OnlyA1B2 == {<<a1, b2>>}

\* The JNI_OnLoad of p1 loads p2, and p1 itself again.
P1LoadsBoth == (p1 :> {p1, p2}) @@ (p2 :> {})

Jit == INSTANCE CompilerQueue WITH version <- cacheVersion, at <- interp
Refs == INSTANCE IndirectRef
Libs == INSTANCE NativeLib

jitVars == <<queue, cacheVersion, full, used, table, gen, work, jit, halt,
             interp, code, asleep, parked, stop, traced>>
refVars == <<kind, slot, top, holes, cookies, held, dropped, uses>>
libVars == <<libs, lib, calls, waiting, outcome, loads>>
all == <<service, vars, jitVars, refVars, libVars>>

ServiceInit ==
  /\ service \in {"jit", "cache", "refs", "libs"}
  /\ Init /\ Jit!Init /\ Refs!Init /\ Libs!Init
  /\ service # "refs" => kind = "weak"

ServiceNext ==
  /\ UNCHANGED service
  /\ \/ service = "cache" /\ Next /\ UNCHANGED <<jitVars, refVars, libVars>>
     \/ service = "jit" /\ Jit!Next /\ UNCHANGED <<vars, refVars, libVars>>
     \/ service = "refs" /\ Refs!Next /\ UNCHANGED <<vars, jitVars, libVars>>
     \/ service = "libs" /\ Libs!Next /\ UNCHANGED <<vars, jitVars, refVars>>

\* The fairness of CompilerQueue and NativeLib; the other two promise no
\* progress.
JitAlone(A) == service = "jit" /\ A /\ UNCHANGED <<service, vars, refVars, libVars>>
LibAlone(A) == service = "libs" /\ A /\ UNCHANGED <<service, vars, jitVars, refVars>>

ServiceFairness ==
  /\ WF_all(JitAlone(Jit!Compiler)) /\ WF_all(JitAlone(Jit!World))
  /\ \A u \in Thread :
       /\ WF_all(JitAlone(Jit!Obliged(u))) /\ WF_all(JitAlone(Jit!DrainTimeout(u)))
       /\ WF_all(LibAlone(Libs!Step(u)))

ServiceSpec == ServiceInit /\ [][ServiceNext]_all /\ ServiceFairness

-----------------------------------------------------------------------------
\* Nobody reaches code of a cache that was wiped, and a thread that waits for
\* the compiler's queue to drain gets on (vm/compiler/Compiler.cpp).
CodeIsLive == Jit!CodeIsLive
DrainReturns == Jit!DrainReturns

\* The table of references is a stack of frames, and weak references resolve to
\* their objects (IndirectRefTable).
IsRefStack == Refs!IsRefStack
WeakRefsResolve == Refs!WeakRefsResolve

\* A load says that a library is there only when its JNI_OnLoad has ended well,
\* and every load returns (dvmLoadNativeCode, checkOnLoadResult).
LoadedIsReady == Libs!LoadedIsReady
LoadsReturn == Libs!LoadsReturn
=============================================================================
