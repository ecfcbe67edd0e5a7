----------------------------- MODULE NativeLib -----------------------------
(***************************************************************************)
(* Loading native libraries: dvmLoadNativeCode and checkOnLoadResult of    *)
(* vm/Native.cpp.  The first thread to load a library runs its JNI_OnLoad, *)
(* which may load others, or the library itself again; the threads that    *)
(* come later wait for the outcome.  gDvm.nativeLibs is searched and       *)
(* changed without its lock, so two threads may both add an entry for one  *)
(* library, each with a JNI_OnLoad of its own; the later entry stays.      *)
(*                                                                         *)
(* An entry is known by its path and the thread that made it.  The status  *)
(* changes around the waits are those of ThreadSuspend.                    *)
(***************************************************************************)
EXTENDS Naturals, Sequences, SequencesExt

CONSTANTS
  Thread,
  Path,        \* libraries
  Loader,      \* class loaders
  Loads,       \* Loads[p]: libraries the JNI_OnLoad of p loads
  Faulty,      \* libraries that may fail to open, or whose JNI_OnLoad may
  MaxLoads,    \* bound: loads a thread asks for outside of a JNI_OnLoad
  Nobody

VARIABLES
  libs,      \* gDvm.nativeLibs: who made the entry a path leads to
  lib,       \* the entries: SharedLib
  calls,     \* per thread, the calls of dvmLoadNativeCode under way
  waiting,   \* asleep on an onLoadCond, not yet woken
  outcome,   \* what the last load from outside of a JNI_OnLoad returned,
             \* and for which entry
  loads      \* loads so far

vars == <<libs, lib, calls, waiting, outcome, loads>>

\* onLoadResult, classLoader, and whether onLoadThreadId is the maker's.
NoLib ==
  [result |-> "none", loader |-> Nobody, guard |-> FALSE]

NoOutcome == [ok |-> FALSE, path |-> Nobody, maker |-> Nobody]

Init ==
  /\ libs = [p \in Path |-> Nobody]
  /\ lib = [p \in Path |-> [t \in Thread |-> NoLib]]
  /\ calls = [t \in Thread |-> <<>>]
  /\ waiting = {}
  /\ outcome = [t \in Thread |-> NoOutcome]
  /\ loads = [t \in Thread |-> 0]

Busy(t) == calls[t] # <<>>
Top(t) == Last(calls[t])
At(t, place) == Busy(t) /\ Top(t).at = place

SetTop(t, call) == calls' = [calls EXCEPT ![t] = Front(@) \o <<call>>]
Goto(t, place) == SetTop(t, [Top(t) EXCEPT !.at = place])

Push(t, p, cl) ==
  calls' = [calls EXCEPT ![t] = Append(@,
    [path |-> p, loader |-> cl, at |-> "find", maker |-> Nobody, todo |-> {}])]

\* dvmLoadNativeCode returns.  JNI_OnLoad goes on whatever it is told.
Returns(t, ok, maker) ==
  /\ calls' = [calls EXCEPT ![t] = Front(@)]
  /\ outcome' = IF Len(calls[t]) > 1 THEN outcome
       ELSE [outcome EXCEPT ![t] =
              [ok |-> ok, path |-> Top(t).path, maker |-> maker]]

-----------------------------------------------------------------------------
LoadNativeCode(t, p, cl) ==
  /\ ~Busy(t) /\ loads[t] < MaxLoads
  /\ loads' = [loads EXCEPT ![t] = @ + 1]
  /\ outcome' = [outcome EXCEPT ![t] = NoOutcome]
  /\ Push(t, p, cl)
  /\ UNCHANGED <<libs, lib, waiting>>

\* findSharedLibEntry; an entry of another class loader will not do.
FindSharedLibEntry(t) ==
  /\ At(t, "find")
  /\ LET maker == libs[Top(t).path] IN
       \/ /\ maker = Nobody
          /\ Goto(t, "open") /\ UNCHANGED outcome
       \/ /\ maker # Nobody
          /\ IF lib[Top(t).path][maker].loader # Top(t).loader
             THEN Returns(t, FALSE, maker)
             ELSE /\ SetTop(t, [Top(t) EXCEPT !.at = "check", !.maker = maker])
                  /\ UNCHANGED outcome
  /\ UNCHANGED <<libs, lib, waiting, loads>>

\* dlopen.
Open(t) ==
  /\ At(t, "open")
  /\ \/ Goto(t, "probe") /\ UNCHANGED outcome
     \/ Top(t).path \in Faulty /\ Returns(t, FALSE, Nobody)
  /\ UNCHANGED <<libs, lib, waiting, loads>>

\* addSharedLibEntry: the search for the place, ...
Probe(t) ==
  /\ At(t, "probe")
  /\ LET maker == libs[Top(t).path] IN
       IF maker = Nobody THEN Goto(t, "add")
       ELSE SetTop(t, [Top(t) EXCEPT !.at = "check", !.maker = maker])
  /\ UNCHANGED <<libs, lib, waiting, outcome, loads>>

\* ... and the store of the new entry there.
AddSharedLibEntry(t) ==
  /\ At(t, "add")
  /\ LET name == Top(t).path IN
       /\ libs' = [libs EXCEPT ![name] = t]
       /\ lib' = [lib EXCEPT ![name][t] =
            [result |-> "pending", loader |-> Top(t).loader, guard |-> TRUE]]
       /\ SetTop(t, [Top(t) EXCEPT !.at = "onload", !.todo = Loads[name]])
  /\ UNCHANGED <<waiting, outcome, loads>>

-----------------------------------------------------------------------------
(* JNI_OnLoad, and its result.                                             *)

LoadFromOnLoad(t) ==
  /\ At(t, "onload")
  /\ \E p \in Top(t).todo :
       calls' = [calls EXCEPT ![t] =
         Front(@) \o << [Top(t) EXCEPT !.todo = Top(t).todo \ {p}],
           [path |-> p, loader |-> Top(t).loader, at |-> "find",
            maker |-> Nobody, todo |-> {}] >>]
  /\ UNCHANGED <<libs, lib, waiting, outcome, loads>>

\* The result is stored, and the guard against recursion dropped, without the
\* lock.
StoreOnLoadResult(t) ==
  /\ At(t, "onload") /\ Top(t).todo = {}
  /\ LET name == Top(t).path IN
       \E r \in {"okay"} \cup (IF name \in Faulty THEN {"failed"} ELSE {}) :
         lib' = [lib EXCEPT ![name][t].result = r, ![name][t].guard = FALSE]
  /\ Goto(t, "wake")
  /\ UNCHANGED <<libs, waiting, outcome, loads>>

WaitsFor(u, p, maker) == u \in waiting /\ Top(u).path = p /\ Top(u).maker = maker

\* Mutant: those who wait are woken only if the library is there.
BroadcastSuccess(t) ==
  /\ At(t, "wake")
  /\ LET name == Top(t).path
         ok == lib[name][t].result = "okay"
     IN  /\ waiting' = waiting \ {u \in Thread : ok /\ WaitsFor(u, name, t)}
         /\ Returns(t, ok, t)
  /\ UNCHANGED <<libs, lib, loads>>

\* pthread_cond_broadcast, with the lock.
Broadcast(t) ==
  /\ At(t, "wake")
  /\ LET name == Top(t).path
     IN  /\ waiting' = waiting \ {u \in Thread : WaitsFor(u, name, t)}
         /\ Returns(t, lib[name][t].result = "okay", t)
  /\ UNCHANGED <<libs, lib, loads>>

-----------------------------------------------------------------------------
(* checkOnLoadResult.                                                      *)

Entry(t) == lib[Top(t).path][Top(t).maker]

\* Mutant: a library that is being loaded will do.
CheckAnyLoading(t) ==
  /\ At(t, "check")
  /\ IF Entry(t).guard
     THEN Returns(t, TRUE, Top(t).maker)
     ELSE Goto(t, "wait") /\ UNCHANGED outcome
  /\ UNCHANGED <<libs, lib, waiting, loads>>

\* "Check this so we don't end up waiting for ourselves."
CheckRecursion(t) ==
  /\ At(t, "check")
  /\ IF Top(t).maker = t /\ Entry(t).guard
     THEN Returns(t, TRUE, t)
     ELSE Goto(t, "wait") /\ UNCHANGED outcome
  /\ UNCHANGED <<libs, lib, waiting, loads>>

\* With onLoadLock: sleep until JNI_OnLoad has ended.
WaitForResult(t) ==
  /\ At(t, "wait") /\ t \notin waiting
  /\ IF Entry(t).result = "pending"
     THEN waiting' = waiting \cup {t} /\ UNCHANGED <<calls, outcome>>
     ELSE Returns(t, Entry(t).result = "okay", Top(t).maker) /\ UNCHANGED waiting
  /\ UNCHANGED <<libs, lib, loads>>

-----------------------------------------------------------------------------
Step(t) ==
  \/ FindSharedLibEntry(t) \/ Open(t) \/ Probe(t) \/ AddSharedLibEntry(t)
  \/ LoadFromOnLoad(t) \/ StoreOnLoadResult(t) \/ Broadcast(t)
  \/ CheckRecursion(t) \/ WaitForResult(t)

Next == \E t \in Thread :
  Step(t) \/ \E p \in Path, cl \in Loader : LoadNativeCode(t, p, cl)

Spec == Init /\ [][Next]_vars

\* A JNI_OnLoad ends, and the locks are free again soon.
FairSpec == Spec /\ \A t \in Thread : WF_vars(Step(t))

-----------------------------------------------------------------------------
(* Properties.                                                             *)

\* Who was told that a library is there, outside of every JNI_OnLoad, can use
\* it: the JNI_OnLoad of the entry it was told of has ended well.
LoadedIsReady ==
  \A t \in Thread : ~Busy(t) /\ outcome[t].ok =>
    lib[outcome[t].path][outcome[t].maker].result = "okay"

\* If the libraries do not load each other in a circle, every load returns,
\* whoever runs the JNI_OnLoad, as many as fail, and however many entries a
\* library has got.
LoadsReturn == \A t \in Thread : Busy(t) ~> ~Busy(t)
=============================================================================
