---------------------------- MODULE AtomicCache ----------------------------
(***************************************************************************)
(* An entry of a lock-free cache (vm/AtomicCache.h and .cpp), with the     *)
(* answers of dvmInstanceof: threads read it and replace it at the same    *)
(* time, guarded by its version.  The fields are read and written in any   *)
(* order between the accesses to the version, as the barriers allow.       *)
(*                                                                         *)
(* The version does not wrap, and its lock flag is a field of its own.      *)
(***************************************************************************)
EXTENDS Naturals

CONSTANTS
  Thread,
  Key1, Key2,   \* classes of an instance, classes asked for
  Subclass,     \* pairs of them for which the answer is 1
  NoKey,        \* null, the key of an entry that was never filled
  MaxVersion    \* bound: no lookup starts beyond

VARIABLES
  entry,     \* the fields of the entry
  version,   \* its version
  locked,    \* ATOMIC_LOCK_FLAG of the version
  at,        \* where each thread is
  want,      \* the keys it looks up
  first,     \* firstVersion, and whether the lock flag was in it
  got,       \* fields it has read, ...
  seen,      \* ... and what it read; while it updates: fields not yet written
  result     \* what the lookup returned

shared == <<entry, version, locked>>
local == <<want, first, got, seen, result>>
vars == <<shared, at, local>>

Field == {"key1", "key2", "value"}
Value == {0, 1}

\* The pairs that are looked up: dvmInstanceof asserts that neither is null.
Pair == (Key1 \ {NoKey}) \X (Key2 \ {NoKey})

\* ATOMIC_CACHE_CALC.
Calc(k) == IF k \in Subclass THEN 1 ELSE 0

Wanted(k) ==
  [f \in Field |-> CASE f = "key1" -> k[1] [] f = "key2" -> k[2] [] OTHER -> Calc(k)]

Blank == [f \in Field |-> IF f = "value" THEN 0 ELSE NoKey]

Unlocked(n) == [version |-> n, locked |-> FALSE]

Goto(t, place) == at' = [at EXCEPT ![t] = place]

Init ==
  /\ entry = Blank /\ version = 0 /\ locked = FALSE
  /\ at = [t \in Thread |-> "idle"]
  /\ want = [t \in Thread |-> <<NoKey, NoKey>>]
  /\ first = [t \in Thread |-> Unlocked(0)]
  /\ got = [t \in Thread |-> {}] /\ seen = [t \in Thread |-> Blank]
  /\ result = [t \in Thread |-> 0]

-----------------------------------------------------------------------------
(* ATOMIC_CACHE_LOOKUP.                                                    *)

Lookup(t) ==
  /\ at[t] = "idle" /\ version <= MaxVersion
  /\ \E k \in Pair : want' = [want EXCEPT ![t] = k]
  /\ first' = [first EXCEPT ![t] = [version |-> version, locked |-> locked]]
  /\ Goto(t, "read")
  /\ UNCHANGED <<shared, got, seen, result>>

ReadField(t, f) ==
  /\ at[t] = "read" /\ f \notin got[t]
  /\ got' = [got EXCEPT ![t] = @ \cup {f}]
  /\ seen' = [seen EXCEPT ![t][f] = entry[f]]
  /\ UNCHANGED <<shared, at, want, first, result>>

\* What was read is not used again.
Forget(t) ==
  got' = [got EXCEPT ![t] = {}] /\ seen' = [seen EXCEPT ![t] = Blank]

Mismatch(t) ==
  \/ "key1" \in got[t] /\ seen[t]["key1"] # want[t][1]
  \/ "key2" \in got[t] /\ seen[t]["key2"] # want[t][2]

\* The entry is for other keys.  Only an answer of 0 goes to the cache
\* (ATOMIC_CACHE_NULL_ALLOWED is true).
Miss(t) ==
  /\ at[t] = "read" /\ Mismatch(t)
  /\ result' = [result EXCEPT ![t] = Calc(want[t])]
  /\ Goto(t, IF Calc(want[t]) = 0 THEN "update" ELSE "done")
  /\ Forget(t)
  /\ UNCHANGED <<shared, want, first>>

\* Mutant: the version is not read a second time.
HitUnchecked(t) ==
  /\ at[t] = "read" /\ got[t] = Field /\ ~Mismatch(t)
  /\ result' = [result EXCEPT ![t] =
       IF first[t].version % 2 = 0 THEN seen[t]["value"] ELSE Calc(want[t])]
  /\ Goto(t, "done")
  /\ Forget(t)
  /\ UNCHANGED <<shared, want, first>>

\* "Get the value, then read the version a second time to verify that we
\* didn't catch a partial update."
Hit(t) ==
  /\ at[t] = "read" /\ got[t] = Field /\ ~Mismatch(t)
  /\ result' = [result EXCEPT ![t] =
       IF first[t] = [version |-> version, locked |-> locked] /\ version % 2 = 0
       THEN seen[t]["value"] ELSE Calc(want[t])]
  /\ Goto(t, "done")
  /\ Forget(t)
  /\ UNCHANGED <<shared, want, first>>

\* The caller has the answer.
Done(t) ==
  /\ at[t] = "done" /\ Goto(t, "idle")
  /\ want' = [want EXCEPT ![t] = <<NoKey, NoKey>>]
  /\ first' = [first EXCEPT ![t] = Unlocked(0)]
  /\ result' = [result EXCEPT ![t] = 0]
  /\ UNCHANGED <<shared, got, seen>>

-----------------------------------------------------------------------------
(* dvmUpdateAtomicCache.                                                   *)

\* "If the lock flag was already set in firstVersion, somebody else was in
\* mid-update"; otherwise a compare-and-swap sets it.
Lock(t) ==
  /\ at[t] = "update"
  /\ IF first[t].locked \/ locked \/ version # first[t].version
     THEN Goto(t, "done") /\ UNCHANGED locked
     ELSE locked' = TRUE /\ Goto(t, "begin")
  /\ UNCHANGED <<entry, version, local>>

Begin(t) ==
  /\ at[t] = "begin"
  /\ version' = first[t].version + 1
  /\ got' = [got EXCEPT ![t] = Field]
  /\ Goto(t, "write")
  /\ UNCHANGED <<entry, locked, want, first, seen, result>>

WriteField(t, f) ==
  /\ at[t] = "write" /\ f \in got[t]
  /\ entry' = [entry EXCEPT ![f] = Wanted(want[t])[f]]
  /\ got' = [got EXCEPT ![t] = @ \ {f}]
  /\ UNCHANGED <<version, locked, at, want, first, seen, result>>

Publish(t) ==
  /\ at[t] = "write" /\ got[t] = {}
  /\ version' = first[t].version + 2
  /\ Goto(t, "unlock")
  /\ UNCHANGED <<entry, locked, local>>

Unlock(t) ==
  /\ at[t] = "unlock"
  /\ locked' = FALSE /\ Goto(t, "done")
  /\ UNCHANGED <<entry, version, local>>

-----------------------------------------------------------------------------
Step(t) ==
  \/ Lookup(t) \/ Miss(t) \/ Hit(t) \/ Done(t)
  \/ Lock(t) \/ Begin(t) \/ Publish(t) \/ Unlock(t)
  \/ \E f \in Field : ReadField(t, f) \/ WriteField(t, f)

Next == \E t \in Thread : Step(t)

Spec == Init /\ [][Next]_vars

-----------------------------------------------------------------------------
(* Properties.                                                             *)

CacheTypeOK ==
  /\ entry \in [Field -> Key1 \cup Key2 \cup Value \cup {NoKey}]
  /\ version \in Nat /\ locked \in BOOLEAN
  /\ at \in [Thread -> {"idle", "read", "done", "update", "begin", "write", "unlock"}]
  /\ want \in [Thread -> (Key1 \cup {NoKey}) \X (Key2 \cup {NoKey})]
  /\ first \in [Thread -> [version : Nat, locked : BOOLEAN]]
  /\ got \in [Thread -> SUBSET Field] /\ result \in [Thread -> Value]
  /\ seen \in [Thread -> [Field -> Key1 \cup Key2 \cup Value \cup {NoKey}]]

\* A lookup answers what the computation would, whatever other threads did to
\* the entry while it read: keys of one update and an answer of another never
\* meet.
AnswersAreRight == \A t \in Thread : at[t] = "done" => result[t] = Calc(want[t])
=============================================================================
