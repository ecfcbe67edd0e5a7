--------------------------- MODULE ServicesProofs ---------------------------
(***************************************************************************)
(* Proofs about the services of MCServices, for any threads, classes,      *)
(* traces, objects, libraries and sizes: an answer from a cache is right,  *)
(* no code of a wiped cache is reached, a library that was reported as     *)
(* loaded is ready, a weak reference resolves to its object, and a table   *)
(* of references is a stack of frames.                                     *)
(***************************************************************************)
EXTENDS MCServices, Integers, SequenceTheorems, FiniteSetTheorems, WellFoundedInduction, TLAPS

-----------------------------------------------------------------------------
(* Sequences whose last element is replaced, dropped or followed.          *)

LEMMA Prefix ==
  ASSUME NEW S, NEW s \in Seq(S), NEW d \in Nat, \A k \in 1..d : s[k] \in S
  PROVE  /\ SubSeq(s, 1, d) \in Seq(S) /\ Len(SubSeq(s, 1, d)) = d
         /\ \A k \in 1..d : SubSeq(s, 1, d)[k] = s[k]
<1>1. /\ SubSeq(s, 1, d) \in Seq(S) /\ Len(SubSeq(s, 1, d)) = IF 1 <= d THEN d - 1 + 1 ELSE 0
      /\ \A k \in 1..(d - 1 + 1) : SubSeq(s, 1, d)[k] = s[1 + k - 1]
  BY SubSeqProperties
<1> QED
  BY <1>1

LEMMA FrontOf ==
  ASSUME NEW S, NEW s \in Seq(S), s # <<>>
  PROVE  /\ Len(s) \in Nat /\ Len(s) \in 1..Len(s) /\ Libs!Last(s) = s[Len(s)] /\ Libs!Last(s) \in S
         /\ Libs!Front(s) \in Seq(S) /\ Len(Libs!Front(s)) = Len(s) - 1 /\ Len(s) - 1 \in Nat
         /\ \A k \in 1..(Len(s) - 1) : k \in 1..Len(s) /\ k # Len(s) /\ Libs!Front(s)[k] = s[k]
<1>1. Len(s) \in Nat /\ Len(s) # 0
  BY EmptySeq, LenProperties
<1>2. Len(s) - 1 \in Nat /\ Len(s) \in 1..Len(s)
  BY <1>1
<1>3. \A k \in 1..(Len(s) - 1) : k \in 1..Len(s) /\ k # Len(s)
  BY <1>1
<1>4. \A k \in 1..Len(s) : s[k] \in S
  BY ElementOfSeq
<1> DEFINE d == Len(s) - 1
<1>5. d \in Nat
  BY <1>2
<1>6. SubSeq(s, 1, d) \in Seq(S) /\ Len(SubSeq(s, 1, d)) = d
      /\ \A k \in 1..d : SubSeq(s, 1, d)[k] = s[k]
  <2>1. \A k \in 1..d : s[k] \in S
    BY <1>3, <1>4
  <2> HIDE DEF d
  <2> QED
    BY <1>5, <2>1, Prefix
<1> QED
  BY <1>1, <1>2, <1>3, <1>4, <1>6 DEF Libs!Front, Libs!Last

LEMMA LastReplaced ==
  ASSUME NEW S, NEW s \in Seq(S), s # <<>>, NEW c \in S
  PROVE  /\ Libs!Front(s) \o <<c>> \in Seq(S) /\ Len(Libs!Front(s) \o <<c>>) = Len(s)
         /\ \A k \in 1..Len(s) : (Libs!Front(s) \o <<c>>)[k] = IF k = Len(s) THEN c ELSE s[k]
<1> DEFINE f == Libs!Front(s)
<1>1. f \in Seq(S) /\ Len(f) = Len(s) - 1 /\ Len(s) \in Nat /\ Len(s) - 1 \in Nat
      /\ \A k \in 1..(Len(s) - 1) : f[k] = s[k]
  BY FrontOf
<1>2. <<c>> \in Seq(S) /\ Len(<<c>>) = 1 /\ <<c>>[1] = c
  OBVIOUS
<1> HIDE DEF f
<1>3. /\ f \o <<c>> \in Seq(S) /\ Len(f \o <<c>>) = Len(f) + 1
      /\ \A k \in 1..(Len(f) + 1) :
           (f \o <<c>>)[k] = IF k <= Len(f) THEN f[k] ELSE <<c>>[k - Len(f)]
  BY <1>1, <1>2, ConcatProperties
<1>4. Len(f \o <<c>>) = Len(s)
  BY <1>1, <1>3
<1>5. \A k \in 1..Len(s) : (f \o <<c>>)[k] = IF k = Len(s) THEN c ELSE s[k]
  <2> SUFFICES ASSUME NEW k \in 1..Len(s)
               PROVE  (f \o <<c>>)[k] = IF k = Len(s) THEN c ELSE s[k]
    OBVIOUS
  <2>1. k \in 1..(Len(f) + 1)
    BY <1>1
  <2>2. CASE k = Len(s)
    <3>1. ~ (k <= Len(f)) /\ k - Len(f) = 1
      BY <1>1, <2>2
    <3> QED
      BY <1>2, <1>3, <2>1, <2>2, <3>1
  <2>3. CASE k # Len(s)
    <3>1. k <= Len(f) /\ k \in 1..(Len(s) - 1)
      BY <1>1, <2>3
    <3> QED
      BY <1>1, <1>3, <2>1, <2>3, <3>1
  <2> QED
    BY <2>2, <2>3
<1> QED
  BY <1>3, <1>4, <1>5 DEF f

LEMMA OneMore ==
  ASSUME NEW S, NEW s \in Seq(S), NEW c \in S
  PROVE  /\ Append(s, c) \in Seq(S) /\ Len(Append(s, c)) = Len(s) + 1
         /\ Len(s) \in Nat /\ Append(s, c)[Len(s) + 1] = c
         /\ \A k \in 1..Len(s) : Append(s, c)[k] = s[k]
         /\ \A k \in 1..(Len(s) + 1) : k # Len(s) + 1 => k \in 1..Len(s)
<1>1. Len(s) \in Nat
  BY LenProperties
<1> QED
  BY <1>1, AppendProperties

LEMMA ConcatTwo ==
  ASSUME NEW S, NEW s \in Seq(S), NEW c \in S, NEW d \in S
  PROVE  s \o <<c, d>> = Append(s \o <<c>>, d)
<1>1. <<c>> \in Seq(S) /\ <<d>> \in Seq(S)
  OBVIOUS
<1>5. <<c>> \o <<d>> = <<c, d>>
  <2> DEFINE x == <<c>> \o <<d>>
             y == <<c, d>>
  <2>1. y \in Seq(S) /\ Len(y) = 2 /\ y[1] = c /\ y[2] = d
    OBVIOUS
  <2>2. Len(<<c>>) = 1 /\ Len(<<d>>) = 1 /\ <<c>>[1] = c /\ <<d>>[1] = d
    OBVIOUS
  <2>3. x \in Seq(S) /\ Len(x) = 2 /\ x[1] = c /\ x[2] = d
    BY <1>1, <2>2, ConcatProperties
  <2> HIDE DEF x, y
  <2>4. \A i \in 1..Len(x) : x[i] = y[i]
    BY <2>1, <2>3
  <2>5. x = y
    BY <2>1, <2>3, <2>4, SeqEqual
  <2> QED
    BY <2>5 DEF x, y
<1>2. (s \o <<c>>) \o <<d>> = s \o (<<c>> \o <<d>>)
  BY <1>1, ConcatAssociative
<1>3. s \o <<c>> \in Seq(S)
  BY <1>1, ConcatProperties
<1>4. Append(s \o <<c>>, d) = (s \o <<c>>) \o <<d>>
  BY <1>3
<1> QED
  BY <1>2, <1>4, <1>5

-----------------------------------------------------------------------------
(* The cache of dvmInstanceof.                                             *)

Updating == {"begin", "write", "unlock"}
Even(n) == n % 2 = 0

\* One thread updates at a time, and the version says how far it is.
OneUpdate ==
  /\ \A t \in Thread : at[t] \in Updating => locked
  /\ \A t, u \in Thread : at[t] \in Updating /\ at[u] \in Updating => t = u
  /\ ~locked => Even(version)
  /\ \A t \in Thread :
       /\ at[t] = "begin" => version = first[t].version /\ Even(version)
       /\ at[t] = "write" => version = first[t].version + 1 /\ Even(first[t].version)
       /\ at[t] = "unlock" => version = first[t].version + 2 /\ Even(version)

\* The entry belongs together while its version is even, and becomes what the
\* updating thread wants while it is odd.
EntryBelongs ==
  /\ Even(version) => entry = Blank \/ \E k \in Pair : entry = Wanted(k)
  /\ \A t \in Thread :
       at[t] = "write" => \A f \in Field \ got[t] : entry[f] = Wanted(want[t])[f]

\* What a thread has read is what the entry holds, unless the version has changed.
ReadIsCurrent ==
  \A t \in Thread : at[t] = "read" =>
    /\ first[t].version <= version
    /\ first[t].version = version /\ Even(version) =>
         \A f \in got[t] : seen[t][f] = entry[f]

Looking ==
  \A t \in Thread :
    /\ at[t] # "idle" => want[t] \in Pair
    /\ at[t] \notin {"read", "write"} => got[t] = {}

\* The result is there before the update begins.
Answered ==
  \A t \in Thread :
    at[t] \notin {"idle", "read"} => result[t] = Calc(want[t])

CacheInv ==
  CacheTypeOK /\ Looking /\ OneUpdate /\ EntryBelongs /\ ReadIsCurrent /\ Answered

-----------------------------------------------------------------------------
(* Parity.                                                                 *)

LEMMA EvenZero == Even(0)
  BY DEF Even

LEMMA EvenOdd ==
  ASSUME NEW n \in Nat, Even(n)
  PROVE  ~Even(n + 1) /\ Even(n + 2)
  BY DEF Even

\* Two pairs of keys are equal if their parts are, and an entry has the answer
\* for its own keys.
LEMMA WantedIsTyped ==
  ASSUME NEW k \in Pair
  PROVE  /\ Wanted(k) \in [Field -> Key1 \cup Key2 \cup Value \cup {NoKey}]
         /\ Wanted(k)["key1"] = k[1] /\ Wanted(k)["key2"] = k[2]
         /\ Wanted(k)["value"] = Calc(k)
  BY DEF Wanted, Field, Value, Calc, Pair

LEMMA InitCacheInv == Init => CacheInv
<1> SUFFICES ASSUME Init PROVE CacheInv
  OBVIOUS
<1>1. CacheTypeOK
  BY DEF Init, CacheTypeOK, Blank, Unlocked, Field, Value
<1>2. Looking /\ ReadIsCurrent /\ Answered
  BY DEF Init, Looking, ReadIsCurrent, Answered
<1>3. OneUpdate /\ EntryBelongs
  BY EvenZero DEF Init, OneUpdate, EntryBelongs, Updating
<1> QED BY <1>1, <1>2, <1>3 DEF CacheInv

-----------------------------------------------------------------------------
(* Each step of the reader ...                                             *)

LEMMA LookupKeeps ==
  ASSUME CacheInv, NEW t \in Thread, Lookup(t)
  PROVE  CacheInv'
<1> USE DEF CacheInv, CacheTypeOK, Lookup, Goto, shared
<1>1. CacheTypeOK' /\ Looking'
  BY DEF Looking, Pair
<1>2. OneUpdate' /\ EntryBelongs'
  BY DEF OneUpdate, EntryBelongs, Updating
<1>3. ReadIsCurrent' /\ Answered'
  BY DEF Looking, ReadIsCurrent, Answered
<1> QED BY <1>1, <1>2, <1>3

LEMMA ReadKeeps ==
  ASSUME CacheInv, NEW t \in Thread, NEW f \in Field, ReadField(t, f)
  PROVE  CacheInv'
<1> USE DEF CacheInv, CacheTypeOK, ReadField, shared
<1>1. CacheTypeOK' /\ Looking'
  BY DEF Looking
<1>2. OneUpdate' /\ EntryBelongs'
  BY DEF OneUpdate, EntryBelongs, Updating
<1>3. ReadIsCurrent' /\ Answered'
  BY DEF ReadIsCurrent, Answered
<1> QED BY <1>1, <1>2, <1>3

LEMMA MissKeeps ==
  ASSUME CacheInv, NEW t \in Thread, Miss(t)
  PROVE  CacheInv'
<1> USE DEF CacheInv, CacheTypeOK, Miss, Goto, Forget, shared
<1>1. CacheTypeOK' /\ Looking'
  BY DEF Looking, Calc, Value, Blank, Field
<1>2. OneUpdate' /\ EntryBelongs'
  BY DEF OneUpdate, EntryBelongs, Updating
<1>3. ReadIsCurrent' /\ Answered'
  BY DEF ReadIsCurrent, Answered
<1> QED BY <1>1, <1>2, <1>3

\* The keys match and the version is the first one, and even: the fields are
\* those of the entry, hence of one update for the same keys.
LEMMA HitIsRight ==
  ASSUME CacheInv, NEW t \in Thread, Hit(t),
         first[t] = [version |-> version, locked |-> locked], version % 2 = 0
  PROVE  seen[t]["value"] = Calc(want[t])
<1>1. want[t] \in Pair /\ Even(version) /\ first[t].version = version
  BY DEF CacheInv, Looking, Hit, Even
<1>2. \A f \in Field : seen[t][f] = entry[f]
  BY <1>1 DEF CacheInv, ReadIsCurrent, Hit
<1>3. entry["key1"] = want[t][1] /\ entry["key2"] = want[t][2]
  BY <1>2 DEF Hit, Mismatch, Field
<1>4. entry # Blank
  BY <1>1, <1>3 DEF Blank, Field, Pair
<1>5. PICK k \in Pair : entry = Wanted(k)
  BY <1>1, <1>4 DEF CacheInv, EntryBelongs
<1>6. k = want[t]
  BY <1>1, <1>3, <1>5, WantedIsTyped DEF Pair
<1> QED BY <1>2, <1>5, <1>6, WantedIsTyped DEF Field

LEMMA HitKeeps ==
  ASSUME CacheInv, NEW t \in Thread, Hit(t)
  PROVE  CacheInv'
<1>1. result'[t] = Calc(want[t])
  BY HitIsRight DEF Hit, CacheInv, CacheTypeOK
<1> USE DEF CacheInv, CacheTypeOK, Hit, Goto, Forget, shared
<1>2. CacheTypeOK' /\ Looking'
  BY <1>1 DEF Looking, Calc, Value, Blank, Field
<1>3. OneUpdate' /\ EntryBelongs'
  BY DEF OneUpdate, EntryBelongs, Updating
<1>4. ReadIsCurrent' /\ Answered'
  BY <1>1 DEF ReadIsCurrent, Answered
<1> QED BY <1>2, <1>3, <1>4

LEMMA DoneKeeps ==
  ASSUME CacheInv, NEW t \in Thread, Done(t)
  PROVE  CacheInv'
<1> USE DEF CacheInv, CacheTypeOK, Done, Goto, shared
<1>1. CacheTypeOK' /\ Looking'
  BY DEF Looking, Unlocked, Blank, Field, Value
<1>2. OneUpdate' /\ EntryBelongs'
  BY DEF OneUpdate, EntryBelongs, Updating
<1>3. ReadIsCurrent' /\ Answered'
  BY DEF ReadIsCurrent, Answered
<1> QED BY <1>1, <1>2, <1>3

-----------------------------------------------------------------------------
(* ... and of the update.                                                  *)

LEMMA LockKeeps ==
  ASSUME CacheInv, NEW t \in Thread, Lock(t)
  PROVE  CacheInv'
<1> USE DEF CacheInv, CacheTypeOK, Lock, Goto, local
<1>1. CacheTypeOK' /\ Looking'
  BY DEF Looking
<1>2. OneUpdate'
  BY DEF OneUpdate, Updating
<1>3. EntryBelongs'
  BY DEF EntryBelongs
<1>4. ReadIsCurrent'
  BY DEF ReadIsCurrent
<1>5. Answered'
  BY DEF Answered
<1> QED BY <1>1, <1>2, <1>3, <1>4, <1>5

LEMMA BeginKeeps ==
  ASSUME CacheInv, NEW t \in Thread, Begin(t)
  PROVE  CacheInv'
<1>1. version' = version + 1 /\ ~Even(version') /\ Even(first[t].version)
  BY EvenOdd DEF CacheInv, CacheTypeOK, OneUpdate, Begin
<1> USE DEF CacheInv, CacheTypeOK, Begin, Goto
<1>2. CacheTypeOK' /\ Looking'
  BY DEF Looking
<1>3. OneUpdate' /\ EntryBelongs'
  BY <1>1 DEF OneUpdate, EntryBelongs, Updating
<1>4. ReadIsCurrent' /\ Answered'
  BY <1>1 DEF ReadIsCurrent, Answered
<1> QED BY <1>2, <1>3, <1>4

LEMMA WriteKeeps ==
  ASSUME CacheInv, NEW t \in Thread, NEW f \in Field, WriteField(t, f)
  PROVE  CacheInv'
<1>1. ~Even(version)
  BY EvenOdd DEF CacheInv, CacheTypeOK, OneUpdate, WriteField
<1> USE DEF CacheInv, CacheTypeOK, WriteField
<1>2. Wanted(want[t])[f] \in Key1 \cup Key2 \cup Value \cup {NoKey}
  BY WantedIsTyped DEF Looking
<1>3. CacheTypeOK' /\ Looking'
  BY <1>2 DEF Looking
<1>4. OneUpdate' /\ EntryBelongs'
  BY <1>1, <1>2 DEF OneUpdate, EntryBelongs, Updating
<1>5. ReadIsCurrent' /\ Answered'
  BY <1>1 DEF ReadIsCurrent, Answered
<1> QED BY <1>3, <1>4, <1>5

LEMMA PublishKeeps ==
  ASSUME CacheInv, NEW t \in Thread, Publish(t)
  PROVE  CacheInv'
<1>1. version' = version + 1 /\ version' = first[t].version + 2 /\ Even(version')
  BY EvenOdd DEF CacheInv, CacheTypeOK, OneUpdate, Publish
<1>2. want[t] \in Pair
  BY DEF CacheInv, Looking, Publish
<1>3. entry = Wanted(want[t])
  BY <1>2, WantedIsTyped DEF CacheInv, CacheTypeOK, EntryBelongs, Publish
<1> USE DEF CacheInv, CacheTypeOK, Publish, Goto, local
<1>4. CacheTypeOK' /\ Looking'
  BY DEF Looking
<1>5. OneUpdate' /\ EntryBelongs'
  BY <1>1, <1>2, <1>3 DEF OneUpdate, EntryBelongs, Updating
<1>6. ReadIsCurrent' /\ Answered'
  BY <1>1 DEF ReadIsCurrent, Answered
<1> QED BY <1>4, <1>5, <1>6

LEMMA UnlockKeeps ==
  ASSUME CacheInv, NEW t \in Thread, Unlock(t)
  PROVE  CacheInv'
<1> USE DEF CacheInv, CacheTypeOK, Unlock, Goto, local
<1>1. CacheTypeOK' /\ Looking'
  BY DEF Looking
<1>2. OneUpdate' /\ EntryBelongs'
  BY DEF OneUpdate, EntryBelongs, Updating
<1>3. ReadIsCurrent' /\ Answered'
  BY DEF ReadIsCurrent, Answered
<1> QED BY <1>1, <1>2, <1>3

-----------------------------------------------------------------------------
LEMMA CacheStep == CacheInv /\ [Next]_vars => CacheInv'
<1> SUFFICES ASSUME CacheInv, [Next]_vars PROVE CacheInv'
  OBVIOUS
<1>1. CASE Next
  BY <1>1, LookupKeeps, ReadKeeps, MissKeeps, HitKeeps, DoneKeeps, LockKeeps,
     BeginKeeps, WriteKeeps, PublishKeeps, UnlockKeeps DEF Next, Step
<1>2. CASE UNCHANGED vars
  BY <1>2 DEF vars, shared, local, CacheInv, CacheTypeOK, Looking, OneUpdate, EntryBelongs,
     ReadIsCurrent, Answered
<1> QED BY <1>1, <1>2

\* The invariant holds in every state, whatever the number of threads and of
\* updates: the version is a sequence lock.
THEOREM CacheIsConsistent == Spec => []CacheInv
<1>1. Init => CacheInv
  BY InitCacheInv
<1>2. CacheInv /\ [Next]_vars => CacheInv'
  BY CacheStep
<1> QED BY <1>1, <1>2, PTL DEF Spec

\* dvmInstanceof answers from the cache as it would without.
THEOREM AnswersAreAlwaysRight == Spec => []AnswersAreRight
<1>1. CacheInv => AnswersAreRight
  BY DEF CacheInv, Answered, AnswersAreRight
<1> QED BY <1>1, CacheIsConsistent, PTL

-----------------------------------------------------------------------------
(* The compiler thread.                                                    *)

\* The compiler thread has an order.
HasOrder == jit \in {"taken", "ready", "compiled", "drop"}

JitTypes ==
  /\ cacheVersion \in Nat /\ gen \in Nat
  /\ queue \in Seq(Jit!Order)
  /\ table \in [Trace -> Nat \cup {None}]
  /\ interp \in [Thread -> {"interp", "drain", "code", "native"}]
  /\ code \in [Thread -> Nat \cup {None}]
  /\ HasOrder => work \in Jit!Order

\* An order knows the version of the cache it was made for, or an older one.
OrdersAreKnown ==
  /\ \A i \in 1..Len(queue) : queue[i].version <= cacheVersion /\ queue[i].addr = None
  /\ HasOrder => work.version <= cacheVersion

\* A translation the compiler thread has under way is for this cache, or its
\* order is out of date.
WorkIsLive ==
  HasOrder /\ work.addr # None /\ work.version = cacheVersion => work.addr = gen

\* Only translations, and native methods they called, lead into the cache.
OutsideIsOut == \A t \in Thread : interp[t] \in {"interp", "drain"} => code[t] = None

JitInv == JitTypes /\ OrdersAreKnown /\ WorkIsLive /\ OutsideIsOut /\ Jit!CodeIsLive

-----------------------------------------------------------------------------
LEMMA InitJitInv == Jit!Init => JitInv
  BY DEF Jit!Init, JitInv, JitTypes, OrdersAreKnown, WorkIsLive, OutsideIsOut, Jit!CodeIsLive, HasOrder

\* Taking the next order off the queue.
LEMMA Dequeue ==
  ASSUME JitInv, queue # <<>>, Jit!WorkDequeue
  PROVE  /\ queue' \in Seq(Jit!Order) /\ work' \in Jit!Order
         /\ work'.version <= cacheVersion /\ work'.addr = None
         /\ \A i \in 1..Len(queue') : queue'[i].version <= cacheVersion /\ queue'[i].addr = None
<1> USE DEF JitInv, JitTypes, OrdersAreKnown
<1>1. Len(queue) \in Nat /\ Len(queue) > 0 /\ \A i \in 1..Len(queue) : queue[i] \in Jit!Order
  OBVIOUS
<1>2. work' = queue[1] /\ queue' = Tail(queue)
  BY <1>1 DEF Jit!WorkDequeue
<1>3. /\ queue' \in Seq(Jit!Order) /\ Len(queue') = Len(queue) - 1
      /\ \A i \in 1..Len(queue') : queue'[i] = queue[i + 1]
  BY <1>1, <1>2
<1>4. 1 \in 1..Len(queue) /\ \A i \in 1..Len(queue') : i + 1 \in 1..Len(queue)
  BY <1>1, <1>3
<1> QED
  BY <1>1, <1>2, <1>3, <1>4

\* The steps of interpreting threads.
LEMMA InterpreterStep ==
  ASSUME JitInv, NEW t \in Thread,
         Jit!Request(t) \/ Jit!Obliged(t) \/ Jit!DrainTimeout(t)
           \/ Jit!LeaveCode(t) \/ Jit!CallNative(t) \/ Jit!ReturnFromNative(t)
  PROVE  JitInv'
<1> USE DEF JitInv, JitTypes, OrdersAreKnown, WorkIsLive, OutsideIsOut, Jit!CodeIsLive, HasOrder,
            Jit!cacheVars, Jit!compilerVars, Jit!stopVars, Jit!Runs, Jit!Goto
<1>1. ASSUME NEW p \in Trace, Jit!WorkEnqueue(t, p) PROVE JitInv'
  <2> DEFINE order == [pc |-> p, version |-> cacheVersion, addr |-> None]
  <2>1. order \in Jit!Order
    BY DEF Jit!Order
  <2>2. HasOrder' => HasOrder
    BY <1>1 DEF Jit!WorkEnqueue, Jit!Activity
  <2>3. queue' = queue \/ queue' = Append(queue, order)
    BY <1>1 DEF Jit!WorkEnqueue
  <2>4. /\ queue' \in Seq(Jit!Order)
        /\ \A i \in 1..Len(queue') : queue'[i].version <= cacheVersion /\ queue'[i].addr = None
    <3>1. CASE queue' = queue
      BY <3>1
    <3>2. CASE queue' = Append(queue, order)
      <4> HIDE DEF order
      <4>1. /\ queue' \in Seq(Jit!Order) /\ Len(queue') = Len(queue) + 1
            /\ \A i \in 1..Len(queue') :
                 queue'[i] = IF i <= Len(queue) THEN queue[i] ELSE order
        BY <3>2, <2>1
      <4>2. order.version <= cacheVersion /\ order.addr = None
        BY DEF order
      <4> QED
        BY <4>1, <4>2
    <3> QED
      BY <2>3, <3>1, <3>2
  <2>5. UNCHANGED <<cacheVersion, gen, table, work, code>>
    BY <1>1 DEF Jit!WorkEnqueue
  <2>6. interp' = interp \/ (interp[t] = "interp" /\ interp' = [interp EXCEPT ![t] = "drain"])
    BY <1>1 DEF Jit!WorkEnqueue
  <2>7. /\ interp' \in [Thread -> {"interp", "drain", "code", "native"}]
        /\ \A u \in Thread : interp'[u] \in {"interp", "drain"} => code[u] = None
    BY <2>6
  <2> QED
    BY <2>2, <2>4, <2>5, <2>7
<1>2. ASSUME NEW p \in Trace, Jit!EnterCode(t, p) PROVE JitInv'
  BY <1>2 DEF Jit!EnterCode
<1>3. CASE Jit!DrainQueue(t)
  BY <1>3 DEF Jit!DrainQueue
<1>4. CASE Jit!Park(t)
  BY <1>4 DEF Jit!Park
<1>5. CASE Jit!DrainTimeout(t)
  BY <1>5 DEF Jit!DrainTimeout
<1>6. CASE Jit!LeaveCode(t)
  BY <1>6 DEF Jit!LeaveCode
<1>7. CASE Jit!CallNative(t)
  BY <1>7 DEF Jit!CallNative
<1>8. CASE Jit!ReturnFromNative(t)
  BY <1>8 DEF Jit!ReturnFromNative
<1> QED
  BY <1>1, <1>2, <1>3, <1>4, <1>5, <1>6, <1>7, <1>8 DEF Jit!Request, Jit!Obliged

\* The steps of whoever stops the world.  A reset makes the version of every
\* order out of date in the same step that wipes the cache.
LEMMA WorldStep ==
  ASSUME JitInv, Jit!World \/ Jit!StartGc \/ Jit!UpdateGlobalState \/ Jit!Shutdown \/ Jit!ShutdownSignal
  PROVE  JitInv'
<1> USE DEF JitInv, JitTypes, OrdersAreKnown, WorkIsLive, OutsideIsOut, Jit!CodeIsLive, HasOrder,
            Jit!cacheVars, Jit!compilerVars, Jit!threadVars, Jit!stopVars
<1>1. CASE Jit!ResetCodeCache
  <2>1. CASE \E t \in Thread : interp[t] = "code"
    BY <1>1, <2>1 DEF Jit!ResetCodeCache
  <2>2. CASE \A t \in Thread : interp[t] # "code"
    <3>1. \A t \in Thread : code'[t] = None
      BY <1>1, <2>2 DEF Jit!ResetCodeCache
    <3>2. code' \in [Thread -> Nat \cup {None}]
      BY <1>1 DEF Jit!ResetCodeCache
    <3>3. /\ cacheVersion' = cacheVersion + 1 /\ gen' = gen + 1 /\ queue' = <<>>
          /\ table' = [p \in Trace |-> None] /\ UNCHANGED <<work, jit, interp>>
      BY <1>1, <2>2 DEF Jit!ResetCodeCache
    <3>4. OrdersAreKnown' /\ WorkIsLive'
      <4>1. HasOrder => work.version \in Nat
        BY DEF Jit!Order
      <4> QED
        BY <3>3, <4>1
    <3> QED
      BY <3>1, <3>2, <3>3, <3>4
  <2> QED
    BY <2>1, <2>2
<1>2. CASE Jit!EndGc
  BY <1>2 DEF Jit!EndGc
<1>3. CASE Jit!StartGc
  BY <1>3 DEF Jit!StartGc
<1>4. CASE Jit!UpdateGlobalState
  <2>1. cacheVersion' = cacheVersion + 1 /\ UNCHANGED <<gen, queue, table, work, jit, interp, code>>
    BY <1>4 DEF Jit!UpdateGlobalState
  <2>2. /\ HasOrder => work.version \in Nat
        /\ \A i \in 1..Len(queue) : queue[i].version \in Nat
    <3>1. \A i \in 1..Len(queue) : queue[i] \in Jit!Order
      OBVIOUS
    <3> QED
      BY <3>1 DEF Jit!Order
  <2> QED
    BY <2>1, <2>2
<1>5. CASE Jit!Shutdown
  BY <1>5 DEF Jit!Shutdown
<1>6. CASE Jit!ShutdownSignal
  BY <1>6 DEF Jit!ShutdownSignal, Jit!Activity
<1> QED
  BY <1>1, <1>2, <1>3, <1>4, <1>5, <1>6 DEF Jit!World

\* The steps of the compiler thread.
LEMMA CompilerStep ==
  ASSUME JitInv, Jit!Compiler
  PROVE  JitInv'
<1> USE DEF JitInv, JitTypes, OrdersAreKnown, WorkIsLive, OutsideIsOut, Jit!CodeIsLive,
            Jit!cacheVars, Jit!threadVars, Jit!stopVars
<1>1. ASSUME queue # <<>>, Jit!WorkDequeue, UNCHANGED <<cacheVersion, gen, table, interp, code>>
      PROVE  JitInv'
  BY <1>1, Dequeue DEF Jit!WorkDequeue
<1>2. CASE Jit!CompilerLoop
  BY <1>1, <1>2 DEF Jit!CompilerLoop, HasOrder
<1>3. CASE Jit!DoWork
  BY <1>3 DEF Jit!DoWork, HasOrder
<1>4. CASE Jit!AssembleLIR
  <2>1. CASE work.version = cacheVersion /\ work' = [work EXCEPT !.addr = gen]
    BY <1>4, <2>1 DEF Jit!AssembleLIR, HasOrder, Jit!Order
  <2>2. CASE work' = work
    BY <1>4, <2>2 DEF Jit!AssembleLIR, HasOrder
  <2> QED
    BY <1>4, <2>1, <2>2 DEF Jit!AssembleLIR
<1>5. CASE Jit!SetCodeAddr
  BY <1>5 DEF Jit!SetCodeAddr, HasOrder, Jit!Order
<1>6. CASE Jit!NextOrder
  BY <1>1, <1>6 DEF Jit!NextOrder, HasOrder
<1> QED
  BY <1>2, <1>3, <1>4, <1>5, <1>6 DEF Jit!Compiler

LEMMA JitStep ==
  ASSUME JitInv, Jit!Next \/ UNCHANGED jitVars
  PROVE  JitInv'
<1>1. CASE Jit!Compiler
  BY <1>1, CompilerStep
<1>2. CASE Jit!World \/ Jit!StartGc \/ Jit!UpdateGlobalState \/ Jit!Shutdown \/ Jit!ShutdownSignal
  BY <1>2, WorldStep
<1>3. ASSUME NEW t \in Thread,
             Jit!Request(t) \/ Jit!Obliged(t) \/ Jit!DrainTimeout(t)
               \/ Jit!LeaveCode(t) \/ Jit!CallNative(t) \/ Jit!ReturnFromNative(t)
      PROVE  JitInv'
  BY <1>3, InterpreterStep
<1>4. CASE UNCHANGED jitVars
  BY <1>4 DEF jitVars, JitInv, JitTypes, OrdersAreKnown, WorkIsLive, OutsideIsOut,
              Jit!CodeIsLive, HasOrder
<1> QED
  BY <1>1, <1>2, <1>3, <1>4 DEF Jit!Next

-----------------------------------------------------------------------------
(* Native libraries.                                                       *)

Call == [path : Path, loader : Loader, maker : Thread \cup {Nobody}, todo : SUBSET Path,
         at : {"find", "open", "probe", "add", "onload", "wake", "check", "wait"}]

SharedLib == [result : {"none", "pending", "okay", "failed"},
              loader : Loader \cup {Nobody}, guard : BOOLEAN]

LibTypes ==
  /\ libs \in [Path -> Thread \cup {Nobody}]
  /\ lib \in [Path -> [Thread -> SharedLib]]
  /\ calls \in [Thread -> Seq(Call)]
  /\ outcome \in [Thread -> [ok : BOOLEAN, path : Path \cup {Nobody},
                             maker : Thread \cup {Nobody}]]

\* The k-th call of t: the entry is made when its JNI_OnLoad is to be run, and
\* has a result when that has ended.
CallOK(t, k) ==
  LET c == calls[t][k] IN
    /\ c.at \in {"open", "probe", "add"} => lib[c.path][t].result = "none"
    /\ c.at = "onload" => lib[c.path][t].result = "pending"
    /\ c.at = "wake" => lib[c.path][t].result \in {"okay", "failed"}
    /\ c.at \in {"check", "wait"} => c.maker \in Thread

\* All calls but the last run the JNI_OnLoad of a library, each of another one.
Nested(t) ==
  /\ \A k \in 1..(Len(calls[t]) - 1) : calls[t][k].at = "onload"
  /\ \A k, l \in 1..Len(calls[t]) :
       calls[t][k].at = "onload" /\ calls[t][l].at = "onload" /\ k # l =>
         calls[t][k].path # calls[t][l].path

\* The guard is up while the JNI_OnLoad runs, and an entry is in the table.
Guarded(t) ==
  \A p \in Path :
    /\ lib[p][t].guard =>
         \E k \in 1..Len(calls[t]) : calls[t][k].at = "onload" /\ calls[t][k].path = p
    /\ lib[p][t].result # "none" => libs[p] # Nobody

\* Whoever has been told that a library is there can use it.
Ready(t) ==
  outcome[t].ok =>
    /\ outcome[t].path \in Path /\ outcome[t].maker \in Thread
    /\ lib[outcome[t].path][outcome[t].maker].result = "okay"

LibsInv ==
  /\ LibTypes
  /\ \A t \in Thread : /\ \A k \in 1..Len(calls[t]) : CallOK(t, k)
                       /\ Nested(t) /\ Guarded(t) /\ Ready(t)

\* The calls agree but for those of t at k.
CallsKept(t, k) ==
  /\ \A u \in Thread : u # t => calls'[u] = calls[u]
  /\ \A l \in 1..Len(calls'[t]) : l # k => l \in 1..Len(calls[t]) /\ calls'[t][l] = calls[t][l]

CallsType == calls \in [Thread -> Seq(Call)]

LEMMA CallsAreCalls ==
  ASSUME CallsType, NEW t \in Thread, NEW k \in 1..Len(calls[t])
  PROVE  calls[t][k] \in Call /\ calls[t][k].path \in Path
<1>1. calls[t] \in Seq(Call)
  BY DEF CallsType
<1>2. calls[t][k] \in Call
  BY <1>1, ElementOfSeq
<1> QED
  BY <1>2 DEF Call

LEMMA TopCall ==
  ASSUME CallsType, NEW t \in Thread, Libs!Busy(t)
  PROVE  /\ calls[t] \in Seq(Call) /\ calls[t] # <<>>
         /\ Len(calls[t]) \in Nat /\ Len(calls[t]) \in 1..Len(calls[t])
         /\ Libs!Top(t) = calls[t][Len(calls[t])] /\ Libs!Top(t) \in Call
<1>1. calls[t] \in Seq(Call) /\ calls[t] # <<>>
  BY DEF CallsType, Libs!Busy
<1> QED
  BY <1>1, FrontOf DEF Libs!Top

LEMMA SettingTop ==
  ASSUME CallsType, NEW t \in Thread, Libs!Busy(t), NEW c \in Call, Libs!SetTop(t, c)
  PROVE  /\ CallsType' /\ CallsKept(t, Len(calls[t]))
         /\ Len(calls'[t]) = Len(calls[t]) /\ calls'[t][Len(calls[t])] = c
<1> DEFINE r == Libs!Front(calls[t]) \o <<c>>
<1>1. /\ calls[t] \in Seq(Call) /\ calls[t] # <<>>
      /\ Len(calls[t]) \in 1..Len(calls[t]) /\ calls' = [calls EXCEPT ![t] = r]
  BY TopCall DEF Libs!SetTop
<1>2. /\ r \in Seq(Call) /\ Len(r) = Len(calls[t])
      /\ \A k \in 1..Len(calls[t]) : r[k] = IF k = Len(calls[t]) THEN c ELSE calls[t][k]
  BY <1>1, LastReplaced
<1> HIDE DEF r
<1>3. CallsType' /\ calls'[t] = r /\ \A u \in Thread : u # t => calls'[u] = calls[u]
  BY <1>1, <1>2 DEF CallsType
<1> QED
  BY <1>1, <1>2, <1>3 DEF CallsKept

LEMMA Popping ==
  ASSUME CallsType, NEW t \in Thread, Libs!Busy(t),
         calls' = [calls EXCEPT ![t] = Libs!Front(calls[t])]
  PROVE  /\ CallsType' /\ CallsKept(t, Len(calls[t])) /\ Len(calls'[t]) = Len(calls[t]) - 1
         /\ \A l \in 1..Len(calls'[t]) : l \in 1..(Len(calls[t]) - 1) /\ l # Len(calls[t])
<1> DEFINE r == Libs!Front(calls[t])
<1>1. /\ calls[t] \in Seq(Call) /\ calls[t] # <<>> /\ calls' = [calls EXCEPT ![t] = r]
  BY TopCall
<1>2. /\ r \in Seq(Call) /\ Len(r) = Len(calls[t]) - 1
      /\ \A k \in 1..(Len(calls[t]) - 1) :
           k \in 1..Len(calls[t]) /\ k # Len(calls[t]) /\ r[k] = calls[t][k]
  BY <1>1, FrontOf
<1> HIDE DEF r
<1>3. CallsType' /\ calls'[t] = r /\ \A u \in Thread : u # t => calls'[u] = calls[u]
  BY <1>1, <1>2 DEF CallsType
<1> QED
  BY <1>2, <1>3 DEF CallsKept

LEMMA Starting ==
  ASSUME CallsType, NEW t \in Thread, NEW c \in Call,
         calls' = [calls EXCEPT ![t] = Append(calls[t], c)]
  PROVE  /\ CallsType' /\ CallsKept(t, Len(calls[t]) + 1) /\ Len(calls[t]) \in Nat
         /\ Len(calls'[t]) = Len(calls[t]) + 1 /\ calls'[t][Len(calls[t]) + 1] = c
<1> DEFINE r == Append(calls[t], c)
<1>1. calls[t] \in Seq(Call) /\ calls' = [calls EXCEPT ![t] = r]
  BY DEF CallsType
<1>2. /\ r \in Seq(Call) /\ Len(r) = Len(calls[t]) + 1 /\ Len(calls[t]) \in Nat
      /\ r[Len(calls[t]) + 1] = c /\ \A k \in 1..Len(calls[t]) : r[k] = calls[t][k]
      /\ \A k \in 1..(Len(calls[t]) + 1) : k # Len(calls[t]) + 1 => k \in 1..Len(calls[t])
  BY <1>1, OneMore
<1> HIDE DEF r
<1>3. CallsType' /\ calls'[t] = r /\ \A u \in Thread : u # t => calls'[u] = calls[u]
  BY <1>1, <1>2 DEF CallsType
<1> QED
  BY <1>2, <1>3 DEF CallsKept

\* What the invariant says of one thread.
LibsOf(t) ==
  /\ \A k \in 1..Len(calls[t]) : CallOK(t, k)
  /\ Nested(t) /\ Guarded(t) /\ Ready(t)

\* The other threads keep their part of it, if their entries and calls stay and
\* no entry disappears.
LEMMA OthersKeep ==
  ASSUME LibsInv, NEW t \in Thread,
         \A u \in Thread : u # t => calls'[u] = calls[u] /\ outcome'[u] = outcome[u],
         \A p \in Path : \A u \in Thread : u # t => lib'[p][u] = lib[p][u],
         \A p \in Path : libs[p] # Nobody => libs'[p] # Nobody,
         \A p \in Path : \A u \in Thread :
           lib[p][u].result = "okay" => lib'[p][u].result = "okay"
  PROVE  \A u \in Thread : u # t => LibsOf(u)'
<1> SUFFICES ASSUME NEW u \in Thread, u # t PROVE LibsOf(u)'
  OBVIOUS
<1>1. calls'[u] = calls[u] /\ outcome'[u] = outcome[u] /\ \A p \in Path : lib'[p][u] = lib[p][u]
  OBVIOUS
<1>2. \A k \in 1..Len(calls[u]) : CallOK(u, k) /\ calls[u][k].path \in Path
  <2>1. CallsType
    BY DEF LibsInv, LibTypes, CallsType
  <2> QED
    BY <2>1, CallsAreCalls DEF LibsInv
<1>3. Nested(u) /\ Guarded(u) /\ Ready(u)
  BY DEF LibsInv
<1>4. \A k \in 1..Len(calls'[u]) : CallOK(u, k)'
  BY <1>1, <1>2 DEF CallOK
<1>5. Nested(u)'
  BY <1>1, <1>3 DEF Nested
<1>6. Guarded(u)'
  BY <1>1, <1>3 DEF Guarded
<1>7. Ready(u)'
  BY <1>1, <1>3 DEF Ready
<1> QED
  BY <1>4, <1>5, <1>6, <1>7 DEF LibsOf

LEMMA CallFacts ==
  ASSUME LibsInv, NEW t \in Thread, Libs!Busy(t)
  PROVE  /\ CallsType /\ Len(calls[t]) \in Nat /\ Len(calls[t]) \in 1..Len(calls[t])
         /\ Libs!Top(t) = calls[t][Len(calls[t])] /\ Libs!Top(t) \in Call
         /\ CallOK(t, Len(calls[t])) /\ Libs!Top(t).path \in Path
         /\ \A k \in 1..Len(calls[t]) : CallOK(t, k) /\ calls[t][k].path \in Path
<1>1. CallsType
  BY DEF LibsInv, LibTypes, CallsType
<1>2. \A k \in 1..Len(calls[t]) : CallOK(t, k) /\ calls[t][k].path \in Path
  BY <1>1, CallsAreCalls DEF LibsInv
<1> QED
  BY <1>1, <1>2, TopCall

\* A call goes on outside of a JNI_OnLoad.
LEMMA MovingKeeps ==
  ASSUME LibsInv, NEW t \in Thread, Libs!Busy(t), Libs!Top(t).at # "onload",
         NEW c \in Call, Libs!SetTop(t, c), c.at \notin {"onload", "wake"},
         c.at \in {"open", "probe", "add"} => lib[c.path][t].result = "none",
         c.at \in {"check", "wait"} => c.maker \in Thread,
         UNCHANGED <<libs, lib, outcome>>
  PROVE  LibsInv'
<1> DEFINE n == Len(calls[t])
<1>1. /\ CallsType' /\ CallsKept(t, n) /\ Len(calls'[t]) = n /\ calls'[t][n] = c
      /\ n \in Nat /\ n \in 1..n /\ Libs!Top(t) = calls[t][n]
  BY CallFacts, SettingTop
<1>2. \A k \in 1..n : k # n => calls'[t][k] = calls[t][k]
  BY <1>1 DEF CallsKept
<1>3. Nested(t) /\ Guarded(t) /\ Ready(t) /\ \A k \in 1..n : CallOK(t, k)
  BY DEF LibsInv
<1>4. ASSUME NEW k \in 1..Len(calls'[t]) PROVE CallOK(t, k)'
  <2>1. CASE k = n
    BY <1>1, <2>1 DEF CallOK
  <2>2. CASE k # n
    BY <1>1, <1>2, <1>3, <2>2 DEF CallOK
  <2> QED
    BY <2>1, <2>2
<1>5. \A k \in 1..n : calls[t][k].at = "onload" <=> calls'[t][k].at = "onload"
  BY <1>1, <1>2
<1>6. Nested(t)'
  <2>1. \A k \in 1..(n - 1) : k \in 1..n /\ k # n
    BY <1>1
  <2>2. \A k \in 1..(n - 1) : calls'[t][k].at = "onload"
    BY <1>2, <1>3, <2>1 DEF Nested
  <2>3. \A k, l \in 1..n :
          calls'[t][k].at = "onload" /\ calls'[t][l].at = "onload" /\ k # l =>
            calls'[t][k].path # calls'[t][l].path
    BY <1>1, <1>2, <1>3, <1>5 DEF Nested
  <2> QED
    BY <1>1, <2>2, <2>3 DEF Nested
<1>7. Guarded(t)'
  <2>1. \A k \in 1..n : calls[t][k].at = "onload" => calls'[t][k] = calls[t][k]
    BY <1>1, <1>2
  <2> QED
    BY <1>1, <1>3, <1>5, <2>1 DEF Guarded
<1>8. Ready(t)'
  BY <1>3 DEF Ready
<1>9. \A u \in Thread : u # t => LibsOf(u)'
  BY <1>1, OthersKeep DEF CallsKept
<1>10. LibTypes'
  BY <1>1 DEF LibsInv, LibTypes, CallsType
<1>11. LibsOf(t)'
  BY <1>4, <1>6, <1>7, <1>8 DEF LibsOf
<1> QED
  BY <1>9, <1>10, <1>11 DEF LibsInv, LibsOf

\* A call returns.  No JNI_OnLoad of the thread runs when its first call does.
LEMMA ReturnsKeep ==
  ASSUME LibsInv, NEW t \in Thread, Libs!Busy(t), Libs!Top(t).at # "onload",
         NEW ok \in BOOLEAN, NEW m \in Thread \cup {Nobody}, Libs!Returns(t, ok, m),
         ok /\ Len(calls[t]) <= 1 => m \in Thread /\ lib[Libs!Top(t).path][m].result = "okay",
         UNCHANGED <<libs, lib>>
  PROVE  LibsInv'
<1> DEFINE n == Len(calls[t])
<1>1. /\ CallsType' /\ CallsKept(t, n) /\ Len(calls'[t]) = n - 1
      /\ n \in Nat /\ n \in 1..n /\ Libs!Top(t) = calls[t][n] /\ Libs!Top(t).path \in Path
      /\ \A l \in 1..Len(calls'[t]) : l \in 1..(n - 1) /\ l # n
  BY CallFacts, Popping DEF Libs!Returns
<1>2. \A k \in 1..Len(calls'[t]) : k \in 1..n /\ k \in 1..(n - 1) /\ calls'[t][k] = calls[t][k]
  BY <1>1 DEF CallsKept
<1>3. Nested(t) /\ Guarded(t) /\ Ready(t) /\ \A k \in 1..n : CallOK(t, k)
  BY DEF LibsInv
<1>4. \A k \in 1..Len(calls'[t]) : CallOK(t, k)'
  BY <1>2, <1>3 DEF CallOK
<1>5. Nested(t)'
  <2>1. \A k \in 1..(Len(calls'[t]) - 1) : k \in 1..Len(calls'[t])
    BY <1>1
  <2> QED
    BY <1>2, <1>3, <2>1 DEF Nested
<1>6. Guarded(t)'
  <2>1. \A k \in 1..n : calls[t][k].at = "onload" => k \in 1..Len(calls'[t])
    BY <1>1
  <2> QED
    BY <1>2, <1>3, <2>1 DEF Guarded
<1>7. \/ outcome' = outcome
      \/ /\ n <= 1
         /\ outcome' = [outcome EXCEPT ![t] =
                          [ok |-> ok, path |-> Libs!Top(t).path, maker |-> m]]
  BY <1>1 DEF Libs!Returns
<1>8. outcome \in [Thread -> [ok : BOOLEAN, path : Path \cup {Nobody}, maker : Thread \cup {Nobody}]]
  BY DEF LibsInv, LibTypes
<1>9. Ready(t)'
  BY <1>1, <1>3, <1>7, <1>8 DEF Ready
<1>10. \A u \in Thread : u # t => LibsOf(u)'
  <2>1. \A u \in Thread : u # t => calls'[u] = calls[u] /\ outcome'[u] = outcome[u]
    BY <1>1, <1>7, <1>8 DEF CallsKept
  <2> QED
    BY <2>1, OthersKeep
<1>11. LibTypes'
  <2>1. outcome' \in [Thread -> [ok : BOOLEAN, path : Path \cup {Nobody},
                                maker : Thread \cup {Nobody}]]
    BY <1>1, <1>7, <1>8
  <2> QED
    BY <1>1, <2>1 DEF LibsInv, LibTypes, CallsType
<1>12. LibsOf(t)'
  BY <1>4, <1>5, <1>6, <1>9 DEF LibsOf
<1> QED
  BY <1>10, <1>11, <1>12 DEF LibsInv, LibsOf

\* A load from outside of a JNI_OnLoad.
LEMMA LoadKeeps ==
  ASSUME LibsInv, NEW t \in Thread, NEW p \in Path, NEW cl \in Loader,
         Libs!LoadNativeCode(t, p, cl)
  PROVE  LibsInv'
<1> DEFINE n == Len(calls[t])
           c == [path |-> p, loader |-> cl, at |-> "find", maker |-> Nobody, todo |-> {}]
<1>1. /\ outcome' = [outcome EXCEPT ![t] = Libs!NoOutcome] /\ UNCHANGED <<libs, lib>>
      /\ calls' = [calls EXCEPT ![t] = Append(calls[t], c)] /\ calls[t] = <<>>
  BY DEF Libs!LoadNativeCode, Libs!Push, Libs!Busy
<1>2. CallsType /\ c \in Call /\ c.at = "find"
  BY DEF LibsInv, LibTypes, CallsType, Call
<1>3. n = 0
  BY <1>1, EmptySeq
<1> HIDE DEF c
<1>4. CallsType' /\ CallsKept(t, n + 1) /\ Len(calls'[t]) = n + 1 /\ calls'[t][n + 1] = c
  BY <1>1, <1>2, Starting
<1>5. Len(calls'[t]) = 1 /\ calls'[t][1].at = "find" /\ 1..0 = {} /\ 1..1 = {1}
  BY <1>2, <1>3, <1>4
<1>6. \A k \in 1..Len(calls'[t]) : CallOK(t, k)'
  BY <1>5 DEF CallOK
<1>7. Nested(t)'
  BY <1>5 DEF Nested
<1>8. Guarded(t)'
  <2>1. \A q \in Path : ~ lib[q][t].guard
    <3>1. Guarded(t)
      BY DEF LibsInv
    <3> QED
      BY <1>3, <1>5, <3>1 DEF Guarded
  <2> QED
    BY <1>1, <2>1 DEF LibsInv, Guarded
<1>9. /\ outcome' \in [Thread -> [ok : BOOLEAN, path : Path \cup {Nobody},
                                  maker : Thread \cup {Nobody}]]
      /\ ~ outcome'[t].ok /\ \A u \in Thread : u # t => outcome'[u] = outcome[u]
  BY <1>1 DEF LibsInv, LibTypes, Libs!NoOutcome
<1>10. \A u \in Thread : u # t => LibsOf(u)'
  BY <1>1, <1>4, <1>9, OthersKeep DEF CallsKept
<1>11. LibsOf(t)'
  BY <1>6, <1>7, <1>8, <1>9 DEF LibsOf, Ready
<1>12. LibTypes'
  BY <1>1, <1>4, <1>9 DEF LibsInv, LibTypes, CallsType
<1> QED
  BY <1>10, <1>11, <1>12 DEF LibsInv, LibsOf

\* A load by a JNI_OnLoad: its call stays where it is under a new one.
LEMMA NestedLoadKeeps ==
  ASSUME LibsInv, NEW t \in Thread, Libs!LoadFromOnLoad(t)
  PROVE  LibsInv'
<1>1. PICK p \in Libs!Top(t).todo :
        calls' = [calls EXCEPT ![t] =
          Libs!Front(calls[t]) \o << [Libs!Top(t) EXCEPT !.todo = Libs!Top(t).todo \ {p}],
            [path |-> p, loader |-> Libs!Top(t).loader, at |-> "find",
             maker |-> Nobody, todo |-> {}] >>]
  BY DEF Libs!LoadFromOnLoad
<1>2. /\ Libs!Busy(t) /\ Libs!Top(t).at = "onload" /\ UNCHANGED <<libs, lib, outcome>>
  BY DEF Libs!LoadFromOnLoad, Libs!At
<1> DEFINE n == Len(calls[t])
           b == [Libs!Top(t) EXCEPT !.todo = Libs!Top(t).todo \ {p}]
           c == [path |-> p, loader |-> Libs!Top(t).loader, at |-> "find",
                 maker |-> Nobody, todo |-> {}]
           r == Libs!Front(calls[t]) \o <<b>>
<1>3. /\ CallsType /\ n \in Nat /\ n \in 1..n /\ Libs!Top(t) = calls[t][n]
      /\ Libs!Top(t) \in Call /\ calls[t] \in Seq(Call) /\ calls[t] # <<>>
  BY <1>2, CallFacts, TopCall
<1>4. /\ b \in Call /\ b.at = "onload" /\ b.path = calls[t][n].path
      /\ c \in Call /\ c.at = "find"
  BY <1>1, <1>2, <1>3 DEF Call
<1> HIDE DEF b, c
<1>5. /\ r \in Seq(Call) /\ Len(r) = n
      /\ \A k \in 1..n : r[k] = IF k = n THEN b ELSE calls[t][k]
  BY <1>3, <1>4, LastReplaced
<1>6. calls' = [calls EXCEPT ![t] = Append(r, c)]
  <2>1. Libs!Front(calls[t]) \in Seq(Call)
    BY <1>3, FrontOf
  <2>2. Libs!Front(calls[t]) \o <<b, c>> = Append(r, c)
    BY <1>4, <2>1, ConcatTwo
  <2>3. calls' = [calls EXCEPT ![t] = Libs!Front(calls[t]) \o <<b, c>>]
    BY <1>1 DEF b, c
  <2> QED
    BY <2>2, <2>3
<1> HIDE DEF r
<1>7. /\ Append(r, c) \in Seq(Call) /\ Len(Append(r, c)) = n + 1 /\ Append(r, c)[n + 1] = c
      /\ \A k \in 1..n : Append(r, c)[k] = r[k]
      /\ \A k \in 1..(n + 1) : k # n + 1 => k \in 1..n
  BY <1>4, <1>5, OneMore
<1>8. /\ CallsType' /\ calls'[t] = Append(r, c)
      /\ \A u \in Thread : u # t => calls'[u] = calls[u]
  BY <1>3, <1>6, <1>7 DEF CallsType
<1>9. /\ \A k \in 1..n : /\ calls'[t][k].at = calls[t][k].at
                         /\ calls'[t][k].path = calls[t][k].path
                         /\ k # n => calls'[t][k] = calls[t][k]
      /\ calls'[t][n + 1].at = "find" /\ Len(calls'[t]) = n + 1
  BY <1>2, <1>3, <1>4, <1>5, <1>7, <1>8
<1>10. Nested(t) /\ Guarded(t) /\ Ready(t) /\ \A k \in 1..n : CallOK(t, k)
  BY DEF LibsInv
<1>11. ASSUME NEW k \in 1..Len(calls'[t]) PROVE CallOK(t, k)'
  <2>1. CASE k = n + 1
    BY <1>9, <2>1 DEF CallOK
  <2>2. CASE k = n
    BY <1>2, <1>3, <1>9, <1>10, <2>2 DEF CallOK
  <2>3. CASE k # n + 1 /\ k # n
    BY <1>2, <1>7, <1>9, <1>10, <2>3 DEF CallOK
  <2> QED
    BY <2>1, <2>2, <2>3
<1>12. Nested(t)'
  <2>1. \A k \in 1..n : calls'[t][k].at = "onload"
    <3>1. \A k \in 1..n : k = n \/ k \in 1..(n - 1)
      BY <1>3
    <3> QED
      BY <1>2, <1>3, <1>9, <1>10, <3>1 DEF Nested
  <2>2. \A k \in 1..(Len(calls'[t]) - 1) : k \in 1..n
    BY <1>3, <1>9
  <2>3. \A k \in 1..Len(calls'[t]) : calls'[t][k].at = "onload" => k \in 1..n
    BY <1>7, <1>9
  <2>4. \A k, l \in 1..n : k # l /\ calls[t][k].at = "onload" /\ calls[t][l].at = "onload" =>
          calls[t][k].path # calls[t][l].path
    BY <1>10 DEF Nested
  <2>5. \A k \in 1..(Len(calls'[t]) - 1) : calls'[t][k].at = "onload"
    BY <2>1, <2>2
  <2>6. ASSUME NEW k \in 1..Len(calls'[t]), NEW l \in 1..Len(calls'[t]), k # l,
               calls'[t][k].at = "onload", calls'[t][l].at = "onload"
        PROVE  calls'[t][k].path # calls'[t][l].path
    <3>1. k \in 1..n /\ l \in 1..n
      BY <2>3, <2>6
    <3>2. calls'[t][k].path = calls[t][k].path /\ calls'[t][l].path = calls[t][l].path
      BY <1>9, <3>1
    <3>3. calls[t][k].at = "onload" /\ calls[t][l].at = "onload"
      BY <1>9, <2>6, <3>1
    <3> QED
      BY <2>4, <2>6, <3>1, <3>2, <3>3
  <2> QED
    BY <2>5, <2>6 DEF Nested
<1>13. Guarded(t)'
  <2>1. \A k \in 1..n : k \in 1..Len(calls'[t])
    BY <1>3, <1>9
  <2> QED
    BY <1>2, <1>9, <1>10, <2>1 DEF Guarded
<1>14. \A u \in Thread : u # t => LibsOf(u)'
  BY <1>2, <1>8, OthersKeep
<1>15. LibsOf(t)'
  BY <1>2, <1>10, <1>11, <1>12, <1>13 DEF LibsOf, Ready
<1>16. LibTypes'
  BY <1>2, <1>8 DEF LibsInv, LibTypes, CallsType
<1> QED
  BY <1>14, <1>15, <1>16 DEF LibsInv, LibsOf

\* A library is put into the table: its JNI_OnLoad starts, and no other call of
\* the thread runs the JNI_OnLoad of an entry it had not made before.
LEMMA AddKeeps ==
  ASSUME LibsInv, NEW t \in Thread, Libs!AddSharedLibEntry(t)
  PROVE  LibsInv'
<1> DEFINE n == Len(calls[t])
           p == Libs!Top(t).path
           c == [Libs!Top(t) EXCEPT !.at = "onload", !.todo = Loads[p]]
           e == [result |-> "pending", loader |-> Libs!Top(t).loader, guard |-> TRUE]
<1>1. /\ Libs!Busy(t) /\ Libs!Top(t).at = "add" /\ Libs!SetTop(t, c) /\ outcome' = outcome
      /\ libs' = [libs EXCEPT ![p] = t] /\ lib' = [lib EXCEPT ![p][t] = e]
  BY DEF Libs!AddSharedLibEntry, Libs!At
<1>2. /\ CallsType /\ n \in Nat /\ n \in 1..n /\ Libs!Top(t) = calls[t][n]
      /\ Libs!Top(t) \in Call /\ p \in Path /\ CallOK(t, n)
      /\ \A k \in 1..n : CallOK(t, k) /\ calls[t][k].path \in Path
  BY <1>1, CallFacts
<1>3. c \in Call /\ c.at = "onload" /\ c.path = p
  BY <1>2, ServicesAssumption DEF Call
<1>4. e \in SharedLib /\ e.result = "pending" /\ e.guard
  BY <1>2 DEF Call, SharedLib
<1> HIDE DEF c, e
<1>5. /\ CallsType' /\ CallsKept(t, n) /\ Len(calls'[t]) = n /\ calls'[t][n] = c
  BY <1>1, <1>2, <1>3, SettingTop
<1>6. \A k \in 1..n : k # n => calls'[t][k] = calls[t][k]
  BY <1>5 DEF CallsKept
<1>7. Nested(t) /\ Guarded(t) /\ Ready(t)
  BY DEF LibsInv
<1>8. calls[t][n].at = "add" /\ calls[t][n].path = p
  BY <1>1, <1>2
<1> HIDE DEF p
<1>9. lib[p][t].result = "none"
  BY <1>2, <1>8 DEF CallOK
<1>10. libs \in [Path -> Thread \cup {Nobody}] /\ lib \in [Path -> [Thread -> SharedLib]]
  BY DEF LibsInv, LibTypes
<1>11. /\ lib'[p][t] = e /\ libs'[p] = t
       /\ \A q \in Path : \A u \in Thread : q # p \/ u # t => lib'[q][u] = lib[q][u]
       /\ \A q \in Path : q # p => libs'[q] = libs[q]
  BY <1>1, <1>2, <1>10
<1>12. ASSUME NEW k \in 1..n, k # n
       PROVE  calls[t][k].at = "onload" /\ calls[t][k].path # p
  <2>1. k \in 1..(n - 1)
    BY <1>2, <1>12
  <2>2. calls[t][k].at = "onload"
    BY <1>7, <2>1 DEF Nested
  <2>3. lib[calls[t][k].path][t].result = "pending"
    BY <1>2, <2>2 DEF CallOK
  <2> QED
    BY <1>9, <2>2, <2>3
<1>13. ASSUME NEW k \in 1..Len(calls'[t]) PROVE CallOK(t, k)'
  <2>1. CASE k = n
    BY <1>3, <1>4, <1>5, <1>11, <2>1 DEF CallOK
  <2>2. CASE k # n
    <3>1. k \in 1..n /\ calls'[t][k] = calls[t][k]
      BY <1>5, <1>6, <2>2
    <3>2. lib'[calls[t][k].path][t] = lib[calls[t][k].path][t]
      BY <1>2, <1>11, <1>12, <2>2, <3>1
    <3>3. CallOK(t, k)
      BY <1>2, <3>1
    <3> QED
      BY <3>1, <3>2, <3>3 DEF CallOK
  <2> QED
    BY <2>1, <2>2
<1>14. Nested(t)'
  <2>1. \A k \in 1..(Len(calls'[t]) - 1) : k \in 1..n /\ k # n
    BY <1>2, <1>5
  <2>2. \A k \in 1..(Len(calls'[t]) - 1) : calls'[t][k].at = "onload"
    BY <1>6, <1>12, <2>1
  <2>3. ASSUME NEW k \in 1..Len(calls'[t]), NEW l \in 1..Len(calls'[t]), k # l
        PROVE  calls'[t][k].path # calls'[t][l].path
    <3>1. k \in 1..n /\ l \in 1..n
      BY <1>5
    <3>2. CASE k = n
      BY <1>3, <1>5, <1>6, <1>12, <2>3, <3>1, <3>2
    <3>3. CASE l = n
      BY <1>3, <1>5, <1>6, <1>12, <2>3, <3>1, <3>3
    <3>4. CASE k # n /\ l # n
      <4>1. calls'[t][k] = calls[t][k] /\ calls'[t][l] = calls[t][l]
        BY <1>6, <3>1, <3>4
      <4>2. calls[t][k].at = "onload" /\ calls[t][l].at = "onload"
        BY <1>12, <3>1, <3>4
      <4> QED
        BY <1>7, <2>3, <3>1, <4>1, <4>2 DEF Nested
    <3> QED
      BY <3>2, <3>3, <3>4
  <2> QED
    BY <2>2, <2>3 DEF Nested
<1>15. Guarded(t)'
  <2> SUFFICES ASSUME NEW q \in Path
               PROVE  /\ lib'[q][t].guard =>
                           \E k \in 1..Len(calls'[t]) :
                             calls'[t][k].at = "onload" /\ calls'[t][k].path = q
                      /\ lib'[q][t].result # "none" => libs'[q] # Nobody
    BY DEF Guarded
  <2>1. CASE q = p
    BY <1>2, <1>3, <1>5, <1>11, <2>1, ServicesAssumption
  <2>2. CASE q # p
    <3>1. lib'[q][t] = lib[q][t] /\ libs'[q] = libs[q]
      BY <1>11, <2>2
    <3>2. \A k \in 1..n : calls[t][k].at = "onload" => calls'[t][k] = calls[t][k]
      BY <1>6, <1>8
    <3> QED
      BY <1>5, <1>7, <3>1, <3>2 DEF Guarded
  <2> QED
    BY <2>1, <2>2
<1>16. \A q \in Path : \A u \in Thread :
         lib[q][u].result = "okay" => lib'[q][u].result = "okay"
  BY <1>9, <1>11
<1>17. Ready(t)'
  BY <1>1, <1>7, <1>16 DEF Ready
<1>18. \A u \in Thread : u # t => LibsOf(u)'
  <2>1. \A u \in Thread : u # t => calls'[u] = calls[u] /\ outcome'[u] = outcome[u]
    BY <1>1, <1>5 DEF CallsKept
  <2>2. \A q \in Path : libs[q] # Nobody => libs'[q] # Nobody
    BY <1>11, ServicesAssumption
  <2>3. \A q \in Path : \A u \in Thread : u # t => lib'[q][u] = lib[q][u]
    BY <1>11
  <2> QED
    BY <1>16, <2>1, <2>2, <2>3, OthersKeep
<1>19. LibTypes'
  <2>1. libs' \in [Path -> Thread \cup {Nobody}] /\ lib' \in [Path -> [Thread -> SharedLib]]
    BY <1>1, <1>4, <1>10
  <2> QED
    BY <1>1, <1>5, <2>1 DEF LibsInv, LibTypes, CallsType
<1>20. LibsOf(t)'
  BY <1>13, <1>14, <1>15, <1>17 DEF LibsOf
<1> QED
  BY <1>18, <1>19, <1>20 DEF LibsInv, LibsOf

\* A JNI_OnLoad ends.
LEMMA StoreKeeps ==
  ASSUME LibsInv, NEW t \in Thread, Libs!StoreOnLoadResult(t)
  PROVE  LibsInv'
<1> DEFINE n == Len(calls[t])
           p == Libs!Top(t).path
           c == [Libs!Top(t) EXCEPT !.at = "wake"]
<1>1. /\ Libs!Busy(t) /\ Libs!Top(t).at = "onload" /\ Libs!SetTop(t, c)
      /\ UNCHANGED <<libs, outcome>>
  BY DEF Libs!StoreOnLoadResult, Libs!At, Libs!Goto
<1>2. PICK r \in {"okay", "failed"} :
        lib' = [lib EXCEPT ![p][t].result = r, ![p][t].guard = FALSE]
  BY DEF Libs!StoreOnLoadResult
<1>3. /\ CallsType /\ n \in Nat /\ n \in 1..n /\ Libs!Top(t) = calls[t][n]
      /\ Libs!Top(t) \in Call /\ p \in Path /\ CallOK(t, n)
      /\ \A k \in 1..n : CallOK(t, k) /\ calls[t][k].path \in Path
  BY <1>1, CallFacts
<1>4. c \in Call /\ c.at = "wake" /\ c.path = p
  BY <1>3 DEF Call
<1> HIDE DEF c
<1>5. /\ CallsType' /\ CallsKept(t, n) /\ Len(calls'[t]) = n /\ calls'[t][n] = c
  BY <1>1, <1>3, <1>4, SettingTop
<1>6. \A k \in 1..n : k # n => calls'[t][k] = calls[t][k]
  BY <1>5 DEF CallsKept
<1>7. Nested(t) /\ Guarded(t) /\ Ready(t)
  BY DEF LibsInv
<1>8. calls[t][n].at = "onload" /\ calls[t][n].path = p
  BY <1>1, <1>3
<1> HIDE DEF p
<1>9. lib[p][t].result = "pending"
  BY <1>3, <1>8 DEF CallOK
<1>10. libs \in [Path -> Thread \cup {Nobody}] /\ lib \in [Path -> [Thread -> SharedLib]]
  BY DEF LibsInv, LibTypes
<1>11. /\ lib'[p][t].result = r /\ lib'[p][t].guard = FALSE /\ lib'[p][t] \in SharedLib
       /\ \A q \in Path : \A u \in Thread : q # p \/ u # t => lib'[q][u] = lib[q][u]
       /\ lib' \in [Path -> [Thread -> SharedLib]]
  <2> DEFINE m == [lib EXCEPT ![p][t].result = r]
             x == [result |-> r, loader |-> lib[p][t].loader, guard |-> lib[p][t].guard]
             e == [x EXCEPT !.guard = FALSE]
  <2>1. lib' = [m EXCEPT ![p][t].guard = FALSE]
    BY <1>2
  <2>2. lib[p][t] \in SharedLib /\ x \in SharedLib /\ x.result = r
    BY <1>3, <1>10 DEF SharedLib
  <2>3. m = [lib EXCEPT ![p][t] = x]
    <3>1. [lib[p][t] EXCEPT !.result = r] = x
      BY <2>2 DEF SharedLib
    <3> QED
      BY <3>1
  <2> HIDE DEF m, x
  <2>4. m \in [Path -> [Thread -> SharedLib]] /\ m[p][t] = x
        /\ \A q \in Path : \A u \in Thread : q # p \/ u # t => m[q][u] = lib[q][u]
    BY <1>3, <1>10, <2>2, <2>3
  <2>5. lib' = [m EXCEPT ![p][t] = e]
    BY <2>1, <2>4
  <2>6. e \in SharedLib /\ e.result = r /\ e.guard = FALSE
    BY <2>2 DEF SharedLib
  <2> HIDE DEF e
  <2>7. lib' \in [Path -> [Thread -> SharedLib]] /\ lib'[p][t] = e
        /\ \A q \in Path : \A u \in Thread : q # p \/ u # t => lib'[q][u] = m[q][u]
    BY <1>3, <2>4, <2>5, <2>6
  <2> QED
    BY <2>4, <2>6, <2>7
<1>12. \A k \in 1..n :
         k # n /\ calls[t][k].at = "onload" => calls[t][k].path # p
  BY <1>3, <1>7, <1>8 DEF Nested
<1>13. \A k \in 1..n : k # n => calls[t][k].at = "onload"
  <2>1. \A k \in 1..n : k # n => k \in 1..(n - 1)
    BY <1>3
  <2> QED
    BY <1>7, <2>1 DEF Nested
<1>14. ASSUME NEW k \in 1..Len(calls'[t]) PROVE CallOK(t, k)'
  <2>1. CASE k = n
    BY <1>4, <1>5, <1>11, <2>1 DEF CallOK
  <2>2. CASE k # n
    <3>1. k \in 1..n /\ calls'[t][k] = calls[t][k]
      BY <1>5, <1>6, <2>2
    <3>2. lib'[calls[t][k].path][t] = lib[calls[t][k].path][t]
      BY <1>3, <1>11, <1>12, <1>13, <2>2, <3>1
    <3>3. CallOK(t, k)
      BY <1>3, <3>1
    <3> QED
      BY <3>1, <3>2, <3>3 DEF CallOK
  <2> QED
    BY <2>1, <2>2
<1>15. Nested(t)'
  <2>1. \A k \in 1..(Len(calls'[t]) - 1) : k \in 1..n /\ k # n
    BY <1>3, <1>5
  <2>2. \A k \in 1..(Len(calls'[t]) - 1) : calls'[t][k].at = "onload"
    BY <1>6, <1>13, <2>1
  <2>3. ASSUME NEW k \in 1..Len(calls'[t]), NEW l \in 1..Len(calls'[t]), k # l,
               calls'[t][k].at = "onload", calls'[t][l].at = "onload"
        PROVE  calls'[t][k].path # calls'[t][l].path
    <3>1. k \in 1..n /\ l \in 1..n /\ k # n /\ l # n
      BY <1>4, <1>5, <2>3
    <3>2. calls'[t][k] = calls[t][k] /\ calls'[t][l] = calls[t][l]
      BY <1>6, <3>1
    <3> QED
      BY <1>7, <2>3, <3>1, <3>2 DEF Nested
  <2> QED
    BY <2>2, <2>3 DEF Nested
<1>16. Guarded(t)'
  <2> SUFFICES ASSUME NEW q \in Path
               PROVE  /\ lib'[q][t].guard =>
                           \E k \in 1..Len(calls'[t]) :
                             calls'[t][k].at = "onload" /\ calls'[t][k].path = q
                      /\ lib'[q][t].result # "none" => libs'[q] # Nobody
    BY DEF Guarded
  <2>1. CASE q = p
    BY <1>1, <1>7, <1>9, <1>11, <2>1 DEF Guarded
  <2>2. CASE q # p
    <3>1. lib'[q][t] = lib[q][t]
      BY <1>11, <2>2
    <3>2. \A k \in 1..n : calls[t][k].path = q => calls'[t][k] = calls[t][k]
      BY <1>6, <1>8, <2>2
    <3> QED
      BY <1>1, <1>5, <1>7, <3>1, <3>2 DEF Guarded
  <2> QED
    BY <2>1, <2>2
<1>17. \A q \in Path : \A u \in Thread :
         lib[q][u].result = "okay" => lib'[q][u].result = "okay"
  BY <1>9, <1>11
<1>18. Ready(t)'
  BY <1>1, <1>7, <1>17 DEF Ready
<1>19. \A u \in Thread : u # t => LibsOf(u)'
  <2>1. \A u \in Thread : u # t => calls'[u] = calls[u] /\ outcome'[u] = outcome[u]
    BY <1>1, <1>5 DEF CallsKept
  <2>2. \A q \in Path : \A u \in Thread : u # t => lib'[q][u] = lib[q][u]
    BY <1>11
  <2> QED
    BY <1>1, <1>17, <2>1, <2>2, OthersKeep
<1>20. LibTypes'
  BY <1>1, <1>5, <1>10, <1>11 DEF LibsInv, LibTypes, CallsType
<1>21. LibsOf(t)'
  BY <1>14, <1>15, <1>16, <1>18 DEF LibsOf
<1> QED
  BY <1>19, <1>20, <1>21 DEF LibsInv, LibsOf

LEMMA FindKeeps ==
  ASSUME LibsInv, NEW t \in Thread, Libs!FindSharedLibEntry(t)
  PROVE  LibsInv'
<1> DEFINE n == Len(calls[t])
           p == Libs!Top(t).path
           m == libs[p]
<1>1. Libs!Busy(t) /\ Libs!Top(t).at = "find" /\ UNCHANGED <<libs, lib>>
  BY DEF Libs!FindSharedLibEntry, Libs!At
<1>2. p \in Path /\ Libs!Top(t) \in Call /\ m \in Thread \cup {Nobody}
  <2>1. p \in Path /\ Libs!Top(t) \in Call
    BY <1>1, CallFacts
  <2> QED
    BY <2>1 DEF LibsInv, LibTypes
<1>3. CASE m = Nobody /\ Libs!Goto(t, "open") /\ UNCHANGED outcome
  <2> DEFINE c == [Libs!Top(t) EXCEPT !.at = "open"]
  <2>1. c \in Call /\ c.at = "open" /\ c.path = p /\ Libs!SetTop(t, c)
    BY <1>2, <1>3 DEF Call, Libs!Goto
  <2>2. lib[p][t].result = "none"
    BY <1>2, <1>3 DEF LibsInv, Guarded
  <2> HIDE DEF c
  <2> QED
    BY <1>1, <1>3, <2>1, <2>2, MovingKeeps
<1>4. CASE Libs!Returns(t, FALSE, m)
  BY <1>1, <1>2, <1>4, ReturnsKeep
<1>5. CASE /\ m # Nobody /\ UNCHANGED outcome
           /\ Libs!SetTop(t, [Libs!Top(t) EXCEPT !.at = "check", !.maker = m])
  <2> DEFINE c == [Libs!Top(t) EXCEPT !.at = "check", !.maker = m]
  <2>1. c \in Call /\ c.at = "check" /\ c.maker \in Thread /\ Libs!SetTop(t, c)
    BY <1>2, <1>5 DEF Call
  <2> HIDE DEF c
  <2> QED
    BY <1>1, <1>5, <2>1, MovingKeeps
<1> QED
  BY <1>3, <1>4, <1>5 DEF Libs!FindSharedLibEntry

LEMMA ProbeKeeps ==
  ASSUME LibsInv, NEW t \in Thread, Libs!Open(t) \/ Libs!Probe(t)
  PROVE  LibsInv'
<1> DEFINE n == Len(calls[t])
           p == Libs!Top(t).path
           m == libs[p]
<1>1. Libs!Busy(t) /\ Libs!Top(t).at \in {"open", "probe"} /\ UNCHANGED <<libs, lib>>
  BY DEF Libs!Open, Libs!Probe, Libs!At
<1>2. /\ p \in Path /\ Libs!Top(t) \in Call /\ CallOK(t, n) /\ Libs!Top(t) = calls[t][n]
      /\ m \in Thread \cup {Nobody}
  <2>1. p \in Path /\ Libs!Top(t) \in Call /\ CallOK(t, n) /\ Libs!Top(t) = calls[t][n]
    BY <1>1, CallFacts
  <2> QED
    BY <2>1 DEF LibsInv, LibTypes
<1>3. lib[p][t].result = "none"
  BY <1>1, <1>2 DEF CallOK
<1>4. ASSUME NEW place \in {"probe", "add"}, Libs!Goto(t, place), UNCHANGED outcome
      PROVE  LibsInv'
  <2> DEFINE c == [Libs!Top(t) EXCEPT !.at = place]
  <2>1. c \in Call /\ c.at \in {"probe", "add"} /\ c.path = p /\ Libs!SetTop(t, c)
    BY <1>2, <1>4 DEF Call, Libs!Goto
  <2> HIDE DEF c
  <2> QED
    BY <1>1, <1>3, <1>4, <2>1, MovingKeeps
<1>5. CASE Libs!Returns(t, FALSE, Nobody)
  BY <1>1, <1>5, ReturnsKeep
<1>6. CASE /\ m # Nobody /\ UNCHANGED outcome
           /\ Libs!SetTop(t, [Libs!Top(t) EXCEPT !.at = "check", !.maker = m])
  <2> DEFINE c == [Libs!Top(t) EXCEPT !.at = "check", !.maker = m]
  <2>1. c \in Call /\ c.at = "check" /\ c.maker \in Thread /\ Libs!SetTop(t, c)
    BY <1>2, <1>6 DEF Call
  <2> HIDE DEF c
  <2> QED
    BY <1>1, <1>6, <2>1, MovingKeeps
<1> QED
  BY <1>4, <1>5, <1>6 DEF Libs!Open, Libs!Probe

LEMMA BroadcastKeeps ==
  ASSUME LibsInv, NEW t \in Thread, Libs!Broadcast(t)
  PROVE  LibsInv'
<1> DEFINE p == Libs!Top(t).path
           ok == lib[p][t].result = "okay"
<1>1. /\ Libs!Busy(t) /\ Libs!Top(t).at = "wake" /\ UNCHANGED <<libs, lib>>
      /\ Libs!Returns(t, ok, t)
  BY DEF Libs!Broadcast, Libs!At
<1> HIDE DEF ok
<1>2. ok \in BOOLEAN /\ (ok => lib[p][t].result = "okay")
  BY DEF ok
<1> QED
  BY <1>1, <1>2, ReturnsKeep

\* A load of a library that the thread itself is loading is told that it is
\* there: there is a JNI_OnLoad under it, so nobody outside of one hears that.
LEMMA CheckKeeps ==
  ASSUME LibsInv, NEW t \in Thread, Libs!CheckRecursion(t)
  PROVE  LibsInv'
<1> DEFINE n == Len(calls[t])
           p == Libs!Top(t).path
<1>1. Libs!Busy(t) /\ Libs!Top(t).at = "check" /\ UNCHANGED <<libs, lib>>
  BY DEF Libs!CheckRecursion, Libs!At
<1>2. /\ p \in Path /\ Libs!Top(t) \in Call /\ CallOK(t, n) /\ Libs!Top(t) = calls[t][n]
      /\ n \in Nat /\ n \in 1..n
  BY <1>1, CallFacts
<1>3. CASE Libs!Returns(t, TRUE, t) /\ Libs!Top(t).maker = t /\ Libs!Entry(t).guard
  <2>1. lib[p][t].guard
    BY <1>3 DEF Libs!Entry
  <2>2. PICK k \in 1..n : calls[t][k].at = "onload"
    BY <1>2, <2>1 DEF LibsInv, Guarded
  <2>3. ~ (n <= 1)
    <3>1. k # n
      BY <1>1, <1>2, <2>2
    <3> QED
      BY <1>2, <3>1
  <2> QED
    BY <1>1, <1>3, <2>3, ReturnsKeep
<1>4. CASE Libs!Goto(t, "wait") /\ UNCHANGED outcome
  <2> DEFINE c == [Libs!Top(t) EXCEPT !.at = "wait"]
  <2>1. c \in Call /\ c.at = "wait" /\ c.maker = Libs!Top(t).maker /\ Libs!SetTop(t, c)
    BY <1>2, <1>4 DEF Call, Libs!Goto
  <2>2. c.maker \in Thread
    BY <1>1, <1>2, <2>1 DEF CallOK
  <2> HIDE DEF c
  <2> QED
    BY <1>1, <1>4, <2>1, <2>2, MovingKeeps
<1> QED
  BY <1>3, <1>4 DEF Libs!CheckRecursion

LEMMA LibsStutter ==
  ASSUME LibsInv, UNCHANGED <<libs, lib, calls, outcome>>
  PROVE  LibsInv'
BY DEF LibsInv, LibTypes, CallOK, Nested, Guarded, Ready

LEMMA WaitKeeps ==
  ASSUME LibsInv, NEW t \in Thread, Libs!WaitForResult(t)
  PROVE  LibsInv'
<1> DEFINE n == Len(calls[t])
           p == Libs!Top(t).path
           m == Libs!Top(t).maker
           ok == Libs!Entry(t).result = "okay"
<1>1. Libs!Busy(t) /\ Libs!Top(t).at = "wait" /\ UNCHANGED <<libs, lib>>
  BY DEF Libs!WaitForResult, Libs!At
<1>2. CallOK(t, n) /\ Libs!Top(t) = calls[t][n]
  BY <1>1, CallFacts
<1>3. m \in Thread
  BY <1>1, <1>2 DEF CallOK
<1>4. CASE UNCHANGED <<calls, outcome>>
  BY <1>1, <1>4, LibsStutter
<1>5. CASE Libs!Returns(t, ok, m)
  <2>1. ok \in BOOLEAN /\ (ok => lib[p][m].result = "okay")
    BY DEF Libs!Entry
  <2> HIDE DEF ok
  <2> QED
    BY <1>1, <1>3, <1>5, <2>1, ReturnsKeep
<1> QED
  BY <1>4, <1>5 DEF Libs!WaitForResult

LEMMA LibsStep ==
  ASSUME LibsInv, Libs!Next \/ UNCHANGED libVars
  PROVE  LibsInv'
<1>1. CASE UNCHANGED libVars
  BY <1>1, LibsStutter DEF libVars
<1>2. ASSUME NEW t \in Thread, Libs!Step(t) PROVE LibsInv'
  BY <1>2, FindKeeps, ProbeKeeps, AddKeeps, NestedLoadKeeps, StoreKeeps, BroadcastKeeps,
     CheckKeeps, WaitKeeps DEF Libs!Step
<1>3. ASSUME NEW t \in Thread, NEW p \in Path, NEW cl \in Loader, Libs!LoadNativeCode(t, p, cl)
      PROVE  LibsInv'
  BY <1>3, LoadKeeps
<1> QED
  BY <1>1, <1>2, <1>3 DEF Libs!Next

LEMMA InitLibsInv ==
  ASSUME Libs!Init
  PROVE  LibsInv
<1>1. /\ libs = [p \in Path |-> Nobody] /\ lib = [p \in Path |-> [t \in Thread |-> Libs!NoLib]]
      /\ calls = [t \in Thread |-> <<>>] /\ outcome = [t \in Thread |-> Libs!NoOutcome]
  BY DEF Libs!Init
<1>2. <<>> \in Seq(Call) /\ Len(<<>>) = 0 /\ 1..0 = {} /\ 1..(0 - 1) = {}
  BY EmptySeq
<1>3. LibTypes
  BY <1>1, <1>2 DEF LibTypes, SharedLib, Libs!NoLib, Libs!NoOutcome
<1>4. ASSUME NEW t \in Thread
      PROVE  (\A k \in 1..Len(calls[t]) : CallOK(t, k)) /\ Nested(t)
  BY <1>1, <1>2 DEF Nested
<1>5. ASSUME NEW t \in Thread PROVE Guarded(t) /\ Ready(t)
  BY <1>1 DEF Guarded, Ready, Libs!NoLib, Libs!NoOutcome
<1> QED
  BY <1>3, <1>4, <1>5 DEF LibsInv

-----------------------------------------------------------------------------
(* The table of JNI references.                                            *)

Slot == [obj : Obj \cup {Null, Cleared}, serial : 0..(Serials - 1)]

Frame == [top : 0..MaxEntries, holes : Nat]

TableTypes ==
  /\ kind \in {"local", "weak"}
  /\ slot \in [Refs!Index -> Slot]
  /\ top \in 0..MaxEntries /\ holes \in Nat
  /\ cookies \in Seq(Frame) /\ cookies # <<>>

HeldTypes ==
  /\ uses \in [Refs!Index -> 0..Serials]
  /\ DOMAIN held \subseteq Refs!Ref /\ dropped \subseteq Refs!Ref

\* Where o is among the slots of s from b up to e, and how often.
Places(s, o, b, e) == {i \in b..(e - 1) : s[i].obj = o}
Many(s, o, b, e) == Cardinality(Places(s, o, b, e))

\* Of the slots from b up to e, only i is another in z than in s.
OnlyAt(s, z, b, e, i) == i \in b..(e - 1) /\ \A j \in b..(e - 1) : j # i => z[j].obj = s[j].obj

\* Of the slots from b up to e, all that have x in s have y in z.
Turned(s, z, x, y, b, e) ==
  \A i \in b..(e - 1) : z[i].obj = IF s[i].obj = x THEN y ELSE s[i].obj

\* The slots of s from b up to e are a frame with h holes, none of them on top.
FrameIn(s, b, e, h) ==
  /\ b <= e /\ Many(s, Null, b, e) = h
  /\ e > b => s[e - 1].obj # Null

\* How many holes may go with the last slot of such a frame.
Edible(s, b, e, h) ==
  {n \in 0..h : e - 1 - n >= b /\ \A i \in (e - 1 - n)..(e - 2) : s[i].obj = Null}

\* The frames lie one on another; each knows how many holes are below it.
HolesUpTo(k) == IF k = Len(cookies) THEN holes ELSE cookies[k + 1].holes

FramesInv ==
  /\ cookies[1].top = 0 /\ cookies[1].holes = 0
  /\ \A j, k \in 1..Len(cookies) : j <= k => cookies[j].top <= cookies[k].top
  /\ \A k \in 1..Len(cookies) :
       FrameIn(slot, cookies[k].top, Refs!FrameEnd(k), HolesUpTo(k) - cookies[k].holes)

\* How often o is in the k-th frame.
InFrame(k, o) == Many(slot, o, cookies[k].top, Refs!FrameEnd(k))

\* A weak reference that is held is at its slot, and one that was dropped is
\* not found: the serial numbers of a slot count how often it was given out.
WeakInv ==
  /\ Len(cookies) = 1
  /\ \A i \in Refs!Index :
       slot[i].serial = IF uses[i] = 0 THEN Serials - 1 ELSE uses[i] - 1
  /\ \A r \in DOMAIN held \cup dropped : r.serial < uses[r.index]
  /\ \A r \in DOMAIN held : r.index < top /\ slot[r.index].serial = r.serial
                            /\ slot[r.index].obj = held[r] /\ held[r] # Null
  /\ \A r \in dropped : Refs!Get(r) = Null

RefsInv ==
  /\ TableTypes /\ HeldTypes /\ FramesInv
  /\ kind = "local" => DOMAIN held = {} /\ dropped = {}
  /\ kind = "weak" => WeakInv

-----------------------------------------------------------------------------
(* How many slots of a part of the table hold an object.                   *)

LEMMA PlacesAreFinite ==
  ASSUME NEW s, NEW o, NEW b \in Int, NEW e \in Int
  PROVE  IsFiniteSet(Places(s, o, b, e)) /\ Many(s, o, b, e) \in Nat
<1>1. IsFiniteSet(b..(e - 1))
  BY FS_Interval
<1>2. Places(s, o, b, e) \in SUBSET (b..(e - 1))
  BY DEF Places
<1>3. IsFiniteSet(Places(s, o, b, e))
  BY <1>1, <1>2, FS_Subset
<1> QED
  BY <1>3, FS_CardinalityType DEF Many

LEMMA NoPlaces ==
  ASSUME NEW s, NEW o, NEW b \in Int, NEW e \in Int
  PROVE  (\A i \in b..(e - 1) : s[i].obj # o) <=> Many(s, o, b, e) = 0
<1>1. Many(s, o, b, e) = 0 <=> Places(s, o, b, e) = {}
  BY PlacesAreFinite, FS_EmptySet DEF Many
<1> QED
  BY <1>1 DEF Places

LEMMA SamePlaces ==
  ASSUME NEW s, NEW z, NEW o, NEW b, NEW e,
         \A i \in b..(e - 1) : s[i].obj = o <=> z[i].obj = o
  PROVE  Many(z, o, b, e) = Many(s, o, b, e)
<1>1. Places(z, o, b, e) = Places(s, o, b, e)
  BY DEF Places
<1> QED
  BY <1>1 DEF Many

\* A slot gets another object.
LEMMA OnePlaceMore ==
  ASSUME NEW s, NEW z, NEW o, NEW b \in Int, NEW e \in Int, NEW i, OnlyAt(s, z, b, e, i),
         s[i].obj # o, z[i].obj = o
  PROVE  Many(z, o, b, e) = Many(s, o, b, e) + 1
<1>1. Places(z, o, b, e) = Places(s, o, b, e) \cup {i} /\ i \notin Places(s, o, b, e)
  BY DEF Places, OnlyAt
<1> QED
  BY <1>1, PlacesAreFinite, FS_AddElement DEF Many

\* A frame gets another slot.
LEMMA OneSlotMore ==
  ASSUME NEW s, NEW o, NEW b \in Int, NEW e \in Int, b <= e
  PROVE  Many(s, o, b, e + 1) = Many(s, o, b, e) + (IF s[e].obj = o THEN 1 ELSE 0)
<1>1. e \in b..((e + 1) - 1) /\ \A j \in Int : j \in b..((e + 1) - 1) <=> j = e \/ j \in b..(e - 1)
  OBVIOUS
<1>2. e \notin Places(s, o, b, e) /\ Many(s, o, b, e) \in Nat
  <2>1. e \notin Places(s, o, b, e)
    BY DEF Places
  <2> QED
    BY <2>1, PlacesAreFinite
<1>3. CASE s[e].obj = o
  <2>1. Places(s, o, b, e + 1) = Places(s, o, b, e) \cup {e}
    BY <1>1, <1>3 DEF Places
  <2> QED
    BY <1>2, <1>3, <2>1, PlacesAreFinite, FS_AddElement DEF Many
<1>4. CASE s[e].obj # o
  <2>1. Places(s, o, b, e + 1) = Places(s, o, b, e)
    BY <1>1, <1>4 DEF Places
  <2> QED
    BY <1>2, <1>4, <2>1 DEF Many
<1> QED
  BY <1>3, <1>4

\* A frame loses its last n slots, which are holes.
LEMMA FewerSlots ==
  ASSUME NEW s, NEW o, NEW b \in Int, NEW e \in Int, NEW n \in Nat, b <= e - n,
         \A i \in (e - n)..(e - 1) : s[i].obj = Null
  PROVE  Many(s, o, b, e) = Many(s, o, b, e - n) + (IF o = Null THEN n ELSE 0)
<1> DEFINE h == (e - n)..(e - 1)
<1>1. \A j \in Int : j \in b..(e - 1) <=> j \in h \/ j \in b..((e - n) - 1)
  OBVIOUS
<1>2. h \cap Places(s, o, b, e - n) = {} /\ h \subseteq Int
  BY DEF Places
<1>3. IsFiniteSet(h) /\ Cardinality(h) = n
  BY FS_Interval
<1>4. IsFiniteSet(Places(s, o, b, e - n)) /\ Many(s, o, b, e - n) \in Nat
  BY PlacesAreFinite
<1>5. CASE o = Null
  <2>1. Places(s, o, b, e) = Places(s, o, b, e - n) \cup h
    BY <1>1, <1>5 DEF Places
  <2> HIDE DEF h
  <2>2. Cardinality({}) = 0
    BY FS_EmptySet
  <2>3. Cardinality(Places(s, o, b, e - n) \cap h) = 0
    BY <1>2, <2>2
  <2> QED
    BY <1>3, <1>4, <1>5, <2>1, <2>3, FS_Union DEF Many
<1>6. CASE o # Null
  <2>1. Places(s, o, b, e) = Places(s, o, b, e - n)
    BY <1>1, <1>6 DEF Places
  <2> QED
    BY <1>4, <1>6, <2>1 DEF Many
<1> QED
  BY <1>5, <1>6

\* Every place of x becomes one of y.
LEMMA PlacesJoined ==
  ASSUME NEW s, NEW z, NEW x, NEW y, x # y, NEW b \in Int, NEW e \in Int,
         Turned(s, z, x, y, b, e)
  PROVE  Many(z, x, b, e) = 0 /\ Many(z, y, b, e) = Many(s, y, b, e) + Many(s, x, b, e)
<1>1. Many(z, x, b, e) = 0
  BY NoPlaces DEF Turned
<1>2. /\ Places(z, y, b, e) = Places(s, y, b, e) \cup Places(s, x, b, e)
      /\ Places(s, y, b, e) \cap Places(s, x, b, e) = {}
  BY DEF Places, Turned
<1>3. Cardinality({}) = 0
  BY FS_EmptySet
<1>4. /\ IsFiniteSet(Places(s, y, b, e)) /\ IsFiniteSet(Places(s, x, b, e))
      /\ Many(s, y, b, e) \in Nat /\ Many(s, x, b, e) \in Nat
  BY PlacesAreFinite
<1>5. Many(z, y, b, e) = Many(s, y, b, e) + Many(s, x, b, e) - Cardinality({})
  BY <1>2, <1>4, FS_Union DEF Many
<1> QED
  BY <1>1, <1>3, <1>4, <1>5

\* A set of numbers that is bounded has a greatest one.
LEMMA Greatest ==
  ASSUME NEW S \in SUBSET Nat, NEW m \in Nat, \A x \in S : x <= m, S # {}
  PROVE  Refs!Max(S) \in S /\ \A y \in S : Refs!Max(S) >= y
<1> DEFINE Above(x) == {y \in S : y > x}
           T == {Above(x) : x \in S}
<1>1. IsFiniteSet(S)
  BY FS_BoundedSetOfNaturals
<1>2. T \subseteq FiniteSubsetsOf(S)
  <2>1. ASSUME NEW x \in S PROVE Above(x) \in FiniteSubsetsOf(S)
    <3>1. Above(x) \in SUBSET S
      OBVIOUS
    <3> QED
      BY <1>1, <3>1, FS_Subset DEF FiniteSubsetsOf
  <2> QED
    BY <2>1
<1>3. T # {}
  OBVIOUS
<1>4. IsWellFoundedOn(StrictSubsetOrdering(S), FiniteSubsetsOf(S))
  BY FS_StrictSubsetOrderingWellFounded
<1>5. PICK A \in T : \A B \in T : ~ (<<B, A>> \in StrictSubsetOrdering(S))
  <2> HIDE DEF T
  <2> QED
    BY <1>2, <1>3, <1>4, WFMin
<1>6. PICK x \in S : A = Above(x)
  OBVIOUS
<1>7. \A y \in S : x >= y
  <2> SUFFICES ASSUME NEW y \in S, ~ (x >= y) PROVE FALSE
    OBVIOUS
  <2>1. Above(y) \in T /\ Above(y) \in SUBSET S /\ Above(x) \in SUBSET S
    OBVIOUS
  <2>2. Above(y) \subseteq Above(x) /\ Above(y) # Above(x)
    <3>1. x \in Nat /\ y \in Nat /\ y > x
      OBVIOUS
    <3>2. \A w \in S : w \in Nat /\ (w > y => w > x)
      BY <3>1
    <3>3. y \in Above(x) /\ y \notin Above(y)
      BY <3>1
    <3> QED
      BY <3>2, <3>3
  <2>3. <<Above(y), Above(x)>> \in StrictSubsetOrdering(S)
    <3> HIDE DEF Above
    <3> QED
      BY <2>1, <2>2 DEF StrictSubsetOrdering
  <2> QED
    BY <1>5, <1>6, <2>1, <2>3
<1> QED
  BY <1>7 DEF Refs!Max

LEMMA Least ==
  ASSUME NEW S \in SUBSET Nat, NEW m \in Nat, \A x \in S : x <= m, S # {}
  PROVE  Refs!Min(S) \in S
<1> DEFINE T == {m - x : x \in S}
<1>1. T \in SUBSET Nat /\ T # {} /\ \A y \in T : y <= m
  <2>1. \A x \in S : m - x \in Nat /\ m - x <= m
    OBVIOUS
  <2> QED
    BY <2>1
<1>2. PICK g \in T : \A y \in T : g >= y
  <2> HIDE DEF T
  <2> QED
    BY <1>1, Greatest
<1>3. PICK x \in S : g = m - x
  OBVIOUS
<1>4. \A y \in S : x =< y
  <2> SUFFICES ASSUME NEW y \in S PROVE x =< y
    OBVIOUS
  <2>1. g >= m - y
    BY <1>2
  <2> QED
    BY <1>3, <2>1
<1> QED
  BY <1>4 DEF Refs!Min

\* One slot of a frame changes.
LEMMA PlaceChanged ==
  ASSUME NEW s, NEW z, NEW b \in Int, NEW e \in Int, NEW i, OnlyAt(s, z, b, e, i),
         s[i].obj # z[i].obj
  PROVE  /\ Many(z, z[i].obj, b, e) = Many(s, z[i].obj, b, e) + 1
         /\ Many(z, s[i].obj, b, e) = Many(s, s[i].obj, b, e) - 1
         /\ \A o : o # z[i].obj /\ o # s[i].obj => Many(z, o, b, e) = Many(s, o, b, e)
<1> DEFINE x == s[i].obj
           y == z[i].obj
<1>0. x # y /\ s[i].obj = x /\ z[i].obj = y
  OBVIOUS
<1> HIDE DEF x, y
<1>1. Many(z, y, b, e) = Many(s, y, b, e) + 1
  BY <1>0, OnePlaceMore
<1>2. Many(s, x, b, e) = Many(z, x, b, e) + 1
  <2>1. OnlyAt(z, s, b, e, i)
    BY DEF OnlyAt
  <2> QED
    BY <1>0, <2>1, OnePlaceMore
<1>3. Many(z, x, b, e) \in Nat
  BY PlacesAreFinite
<1>4. ASSUME NEW o, o # y, o # x
      PROVE  Many(z, o, b, e) = Many(s, o, b, e)
  <2>1. \A j \in b..(e - 1) : s[j].obj = o <=> z[j].obj = o
    BY <1>0, <1>4 DEF OnlyAt
  <2> QED
    BY <2>1, SamePlaces
<1> QED
  BY <1>0, <1>1, <1>2, <1>3, <1>4

\* A hole of the current frame is found.
LEMMA HoleIsThere ==
  ASSUME NEW s, NEW b \in Nat, NEW e \in Nat, NEW h \in Nat, FrameIn(s, b, e, h), h > 0
  PROVE  LET i == Refs!Max({j \in 0..(e - 2) : s[j].obj = Null})
         IN  i \in b..(e - 2) /\ s[i].obj = Null
<1> DEFINE F == {j \in 0..(e - 2) : s[j].obj = Null}
<1>1. PICK k \in b..(e - 1) : s[k].obj = Null
  <2>1. Many(s, Null, b, e) # 0
    BY DEF FrameIn
  <2> QED
    BY <2>1, NoPlaces
<1>2. k # e - 1
  BY <1>1 DEF FrameIn
<1>3. k \in F
  BY <1>1, <1>2
<1>4. F \in SUBSET Nat /\ \A x \in F : x <= e
  OBVIOUS
<1>5. Refs!Max(F) \in F /\ Refs!Max(F) >= k
  <2> HIDE DEF F
  <2> QED
    BY <1>3, <1>4, Greatest
<1> QED
  BY <1>5

\* The last slot of a frame goes, with the holes next to it.
LEMMA HolesAreEaten ==
  ASSUME NEW s, NEW b \in Nat, NEW e \in Nat, NEW h \in Nat, FrameIn(s, b, e, h), e > b
  PROVE  LET m == Refs!Max(Edible(s, b, e, h))
         IN  /\ m \in 0..h /\ e - 1 - m >= b /\ FrameIn(s, b, e - 1 - m, h - m)
             /\ \A i \in (e - 1 - m)..(e - 2) : s[i].obj = Null
             /\ \A o : o # Null => Many(s, o, b, e - 1 - m) =
                                     Many(s, o, b, e) - (IF s[e - 1].obj = o THEN 1 ELSE 0)
<1> DEFINE Eatable(n) == e - 1 - n >= b /\ \A i \in (e - 1 - n)..(e - 2) : s[i].obj = Null
           E == Edible(s, b, e, h)
           m == Refs!Max(E)
<1>0. E = {n \in 0..h : Eatable(n)}
  BY DEF Edible
<1> HIDE DEF E
<1>1. 0 \in E
  BY <1>0
<1>2. m \in E /\ \A n \in E : m >= n
  <2>1. E \in SUBSET Nat /\ \A n \in E : n <= h
    BY <1>0
  <2> QED
    BY <1>1, <2>1, Greatest
<1> HIDE DEF m
<1>3. m \in 0..h /\ m \in Nat /\ Eatable(m)
  BY <1>0, <1>2
<1>4. e - 1 \in Int /\ (e - 1) + 1 = e /\ b <= e - 1
  OBVIOUS
<1>5. \A o : Many(s, o, b, e) = Many(s, o, b, e - 1) + (IF s[e - 1].obj = o THEN 1 ELSE 0)
  BY <1>4, OneSlotMore
<1>6. ASSUME NEW n \in Nat, Eatable(n)
      PROVE  \A o : Many(s, o, b, e - 1) = Many(s, o, b, e - 1 - n) + (IF o = Null THEN n ELSE 0)
  <2> DEFINE d == e - 1
  <2>1. d \in Int /\ b <= d - n /\ \A i \in (d - n)..(d - 1) : s[i].obj = Null
    BY <1>6
  <2> HIDE DEF d
  <2>2. \A o : Many(s, o, b, d) = Many(s, o, b, d - n) + (IF o = Null THEN n ELSE 0)
    BY <2>1, FewerSlots
  <2> QED
    BY <2>2 DEF d
<1>7. \A o : /\ Many(s, o, b, e - 1 - m) \in Nat /\ Many(s, o, b, e - 1) \in Nat
             /\ Many(s, o, b, e) \in Nat
  BY <1>3, PlacesAreFinite
<1>8. s[e - 1].obj # Null /\ Many(s, Null, b, e) = h
  BY DEF FrameIn
<1>9. Many(s, Null, b, e - 1) = h
  BY <1>5, <1>7, <1>8
<1>10. Many(s, Null, b, e - 1 - m) = h - m
  <2>1. Many(s, Null, b, e - 1) = Many(s, Null, b, e - 1 - m) + m
    BY <1>3, <1>6
  <2>2. Many(s, Null, b, e - 1 - m) \in Nat /\ Many(s, Null, b, e - 1) = h
    BY <1>7, <1>9
  <2> QED
    BY <1>3, <2>1, <2>2
<1>11. ASSUME e - 1 - m > b, s[(e - 1 - m) - 1].obj = Null PROVE FALSE
  <2>1. m + 1 \in Nat /\ Eatable(m + 1)
    <3>1. e - 1 - (m + 1) >= b
      BY <1>3, <1>11
    <3>2. \A i \in (e - 1 - (m + 1))..(e - 2) : i = (e - 1 - m) - 1 \/ i \in (e - 1 - m)..(e - 2)
      BY <1>3
    <3> QED
      BY <1>3, <1>11, <3>1, <3>2
  <2>2. Many(s, Null, b, e - 1 - (m + 1)) \in Nat
    BY <1>3, PlacesAreFinite
  <2>3. Many(s, Null, b, e - 1) = Many(s, Null, b, e - 1 - (m + 1)) + (m + 1)
    BY <1>6, <2>1
  <2>4. m + 1 \in 0..h
    BY <1>3, <1>9, <2>2, <2>3
  <2> QED
    BY <1>0, <1>2, <1>3, <2>1, <2>4
<1>12. FrameIn(s, b, e - 1 - m, h - m)
  BY <1>3, <1>10, <1>11 DEF FrameIn
<1>13. \A o : o # Null => Many(s, o, b, e - 1 - m) =
                            Many(s, o, b, e) - (IF s[e - 1].obj = o THEN 1 ELSE 0)
  <2> SUFFICES ASSUME NEW o, o # Null
               PROVE  Many(s, o, b, e - 1 - m) =
                        Many(s, o, b, e) - (IF s[e - 1].obj = o THEN 1 ELSE 0)
    OBVIOUS
  <2>1. Many(s, o, b, e - 1) = Many(s, o, b, e - 1 - m) + 0
    BY <1>3, <1>6
  <2> QED
    BY <1>5, <1>7, <2>1
<1> QED
  BY <1>3, <1>12, <1>13 DEF m, E

-----------------------------------------------------------------------------
(* Each operation, on the slots and the frames.                            *)

LEMMA CookieIs ==
  ASSUME TableTypes, FramesInv
  PROVE  /\ Len(cookies) \in Nat /\ Len(cookies) \in 1..Len(cookies)
         /\ Refs!Cookie = cookies[Len(cookies)] /\ Refs!Cookie \in Frame
         /\ Refs!Cookie.top \in Nat /\ Refs!Cookie.holes \in Nat /\ top \in Nat /\ holes \in Nat
         /\ Refs!Cookie.top <= top /\ Refs!OwnHoles = holes - Refs!Cookie.holes
         /\ Refs!OwnHoles \in Nat /\ FrameIn(slot, Refs!Cookie.top, top, Refs!OwnHoles)
<1> DEFINE n == Len(cookies)
<1>1. cookies \in Seq(Frame) /\ cookies # <<>> /\ top \in Nat /\ holes \in Nat
  BY ServicesAssumption DEF TableTypes
<1>2. n \in Nat /\ n \in 1..n /\ cookies[n] \in Frame
  BY <1>1, FrontOf, ElementOfSeq
<1>3. Refs!Cookie = cookies[n]
  BY DEF Refs!Cookie, Refs!Last
<1>4. cookies[n].top \in Nat /\ cookies[n].holes \in Nat
  BY <1>2, ServicesAssumption DEF Frame
<1>5. FrameIn(slot, cookies[n].top, top, holes - cookies[n].holes)
  BY <1>2 DEF FramesInv, Refs!FrameEnd, HolesUpTo
<1>6. holes - cookies[n].holes \in Nat /\ cookies[n].top <= top
  BY <1>1, <1>4, <1>5, PlacesAreFinite DEF FrameIn
<1> QED
  BY <1>1, <1>2, <1>3, <1>4, <1>5, <1>6 DEF Refs!OwnHoles

\* The older frames stay as they are, if only the current one is changed.
LEMMA TopFrameKeeps ==
  ASSUME TableTypes, FramesInv, cookies' = cookies,
         \A i \in 0..(Refs!Cookie.top - 1) : slot'[i].obj = slot[i].obj,
         FrameIn(slot', Refs!Cookie.top, top', holes' - Refs!Cookie.holes)
  PROVE  /\ FramesInv'
         /\ \A k \in 1..(Len(cookies) - 1) : \A o : InFrame(k, o)' = InFrame(k, o)
         /\ \A o : InFrame(Len(cookies), o)' = Many(slot', o, Refs!Cookie.top, top')
         /\ \A o : InFrame(Len(cookies), o) = Many(slot, o, Refs!Cookie.top, top)
<1> DEFINE n == Len(cookies)
<1>1. n \in Nat /\ n \in 1..n /\ Refs!Cookie = cookies[n] /\ cookies[n].top \in Nat
  BY CookieIs
<1>2. cookies \in Seq(Frame)
  BY DEF TableTypes
<1> DEFINE c == cookies[n].top
<1>0. c \in Nat /\ \A i \in 0..(c - 1) : slot'[i].obj = slot[i].obj
  BY <1>1
<1> HIDE DEF c
<1>3. ASSUME NEW k \in 1..n, k # n
      PROVE  /\ Refs!FrameEnd(k) = cookies[k + 1].top /\ Refs!FrameEnd(k)' = cookies[k + 1].top
             /\ HolesUpTo(k) = cookies[k + 1].holes /\ HolesUpTo(k)' = cookies[k + 1].holes
             /\ cookies[k].top \in Nat /\ cookies[k + 1].top \in Nat
             /\ cookies[k + 1].top <= cookies[n].top
             /\ \A o : Many(slot', o, cookies[k].top, cookies[k + 1].top) =
                         Many(slot, o, cookies[k].top, cookies[k + 1].top)
  <2>1. k + 1 \in 1..n /\ k + 1 <= n
    BY <1>1, <1>3
  <2>2. cookies[k] \in Frame /\ cookies[k + 1] \in Frame
    BY <1>2, <2>1, ElementOfSeq
  <2>3. cookies[k].top \in Nat /\ cookies[k + 1].top \in Nat
    BY <2>2, ServicesAssumption DEF Frame
  <2>4. cookies[k + 1].top <= cookies[n].top
    BY <1>1, <2>1 DEF FramesInv
  <2>5. \A i \in cookies[k].top..(cookies[k + 1].top - 1) : slot'[i].obj = slot[i].obj
    <3> DEFINE b == cookies[k].top
               e == cookies[k + 1].top
    <3>1. b \in Nat /\ e \in Nat /\ e <= c
      BY <2>3, <2>4 DEF c
    <3> HIDE DEF b, e
    <3>2. \A i \in b..(e - 1) : slot'[i].obj = slot[i].obj
      BY <1>0, <3>1
    <3> QED
      BY <3>2 DEF b, e
  <2>6. \A o : Many(slot', o, cookies[k].top, cookies[k + 1].top) =
                 Many(slot, o, cookies[k].top, cookies[k + 1].top)
    BY <2>5, SamePlaces
  <2>7. /\ Refs!FrameEnd(k) = cookies[k + 1].top /\ Refs!FrameEnd(k)' = cookies[k + 1].top
        /\ HolesUpTo(k) = cookies[k + 1].holes /\ HolesUpTo(k)' = cookies[k + 1].holes
    BY <1>3 DEF Refs!FrameEnd, HolesUpTo
  <2> QED
    BY <2>3, <2>4, <2>6, <2>7
<1>4. Refs!FrameEnd(n)' = top' /\ HolesUpTo(n)' = holes' /\ Refs!FrameEnd(n) = top
  BY DEF Refs!FrameEnd, HolesUpTo
<1>5. ASSUME NEW k \in 1..n
      PROVE  FrameIn(slot', cookies[k].top, Refs!FrameEnd(k)', HolesUpTo(k)' - cookies[k].holes)
  <2>1. CASE k = n
    BY <1>1, <1>4, <2>1
  <2>2. CASE k # n
    <3>1. FrameIn(slot, cookies[k].top, cookies[k + 1].top, cookies[k + 1].holes - cookies[k].holes)
      BY <1>3, <2>2 DEF FramesInv
    <3>2. cookies[k + 1].top > cookies[k].top =>
            slot'[cookies[k + 1].top - 1].obj = slot[cookies[k + 1].top - 1].obj
      <4> DEFINE b == cookies[k].top
                 e == cookies[k + 1].top
      <4>1. b \in Nat /\ e \in Nat /\ e <= c
        BY <1>3, <2>2 DEF c
      <4> HIDE DEF b, e
      <4>2. e > b => slot'[e - 1].obj = slot[e - 1].obj
        BY <1>0, <4>1
      <4> QED
        BY <4>2 DEF b, e
    <3> QED
      BY <1>3, <2>2, <3>1, <3>2 DEF FrameIn
  <2> QED
    BY <2>1, <2>2
<1>6. FramesInv'
  BY <1>5 DEF FramesInv
<1>7. \A k \in 1..(n - 1) : k \in 1..n /\ k # n
  BY <1>1
<1>8. \A k \in 1..(n - 1) : \A o : InFrame(k, o)' = InFrame(k, o)
  BY <1>3, <1>7 DEF InFrame
<1> QED
  BY <1>1, <1>4, <1>6, <1>8 DEF InFrame

\* A reference is added: to a hole of the current frame, or on top.
LEMMA AddEffect ==
  ASSUME TableTypes, FramesInv, NEW o \in Obj, Refs!Add(o)
  PROVE  /\ TableTypes' /\ FramesInv' /\ cookies' = cookies
         /\ top' \in Nat /\ top <= top'
         /\ Refs!FreeSlot \in Refs!Index /\ Refs!FreeSlot < top'
         /\ Refs!FreeSlot < top => slot[Refs!FreeSlot].obj = Null
         /\ \A j \in Refs!Index : j # Refs!FreeSlot /\ j < top' => j < top
         /\ \A k \in 1..(Len(cookies) - 1) : \A p : InFrame(k, p)' = InFrame(k, p)
         /\ \A p : p # Null => InFrame(Len(cookies), p)' =
                                 InFrame(Len(cookies), p) + (IF p = o THEN 1 ELSE 0)
<1> DEFINE i == Refs!FreeSlot
           b == Refs!Cookie.top
           h == Refs!OwnHoles
           new == [obj |-> o, serial |-> Refs!NextSerial(slot[i].serial)]
<1>1. /\ h > 0 \/ top < MaxEntries
      /\ slot' = [slot EXCEPT ![i] = new] /\ cookies' = cookies /\ kind' = kind
      /\ IF i < top THEN holes' = holes - 1 /\ top' = top
                    ELSE top' = top + 1 /\ holes' = holes
  BY DEF Refs!Add
<1>2. /\ b \in Nat /\ top \in Nat /\ holes \in Nat /\ h \in Nat /\ b <= top
      /\ Refs!Cookie.holes \in Nat /\ h = holes - Refs!Cookie.holes
      /\ FrameIn(slot, b, top, h)
  BY CookieIs
<1>3. i = IF h > 0 THEN Refs!Max({j \in 0..(top - 2) : slot[j].obj = Null}) ELSE top
  BY DEF Refs!FreeSlot, Refs!Hole
<1>4. h > 0 => i \in b..(top - 2) /\ slot[i].obj = Null
  BY <1>2, <1>3, HoleIsThere
<1>5. MaxEntries \in Nat /\ Serials \in Nat \ {0} /\ o # Null
  BY ServicesAssumption
<1>6. slot \in [Refs!Index -> Slot] /\ top <= MaxEntries
  BY <1>5 DEF TableTypes
<1> HIDE DEF i, b, h
<1>7. i \in Refs!Index /\ i \in Nat
  BY <1>1, <1>2, <1>3, <1>4, <1>5, <1>6 DEF Refs!Index
<1>8. new \in Slot /\ new.obj = o
  <2>1. slot[i].serial \in Nat
    BY <1>5, <1>6, <1>7 DEF Slot
  <2>2. (slot[i].serial + 1) % Serials \in 0..(Serials - 1)
    BY <1>5, <2>1
  <2> QED
    BY <2>2 DEF Slot, Refs!NextSerial
<1> HIDE DEF new
<1>9. /\ slot' \in [Refs!Index -> Slot] /\ slot'[i].obj = o
      /\ \A j \in Refs!Index : j # i => slot'[j] = slot[j]
  BY <1>1, <1>6, <1>7, <1>8
<1>10. /\ FrameIn(slot', b, top', holes' - Refs!Cookie.holes)
       /\ top' \in 0..MaxEntries /\ holes' \in Nat /\ top <= top' /\ i < top' /\ b <= i
       /\ i < top => slot[i].obj = Null
       /\ i < top \/ top' = i + 1
       /\ top' = top \/ i = top
       /\ \A p : p # Null =>
            Many(slot', p, b, top') = Many(slot, p, b, top) + (IF p = o THEN 1 ELSE 0)
  <2>1. CASE h > 0
    <3>1. i < top /\ top' = top /\ holes' = holes - 1 /\ i # top - 1
      BY <1>1, <1>2, <1>4, <2>1
    <3>2. \A j \in b..(top - 1) : j \in Refs!Index
      BY <1>2, <1>5, <1>6 DEF Refs!Index
    <3>3. OnlyAt(slot, slot', b, top, i)
      BY <1>2, <1>4, <1>9, <2>1, <3>2 DEF OnlyAt
    <3>4. /\ Many(slot', o, b, top) = Many(slot, o, b, top) + 1
          /\ Many(slot', Null, b, top) = Many(slot, Null, b, top) - 1
          /\ \A p : p # o /\ p # Null => Many(slot', p, b, top) = Many(slot, p, b, top)
      <4>1. slot[i].obj = Null /\ slot[i].obj # slot'[i].obj
        BY <1>4, <1>5, <1>9, <2>1
      <4> QED
        BY <1>2, <1>9, <3>3, <4>1, PlaceChanged
    <3>5. \A p : Many(slot, p, b, top) \in Nat
      BY <1>2, PlacesAreFinite
    <3>6. FrameIn(slot', b, top, h - 1)
      <4>1. top > b => slot'[top - 1].obj # Null
        <5>1. top > b => top - 1 \in b..(top - 1) /\ slot[top - 1].obj # Null
          BY <1>2 DEF FrameIn
        <5> QED
          BY <1>2, <1>9, <3>1, <3>2, <5>1
      <4> QED
        BY <1>2, <3>4, <4>1 DEF FrameIn
    <3>7. h - 1 = holes' - Refs!Cookie.holes /\ holes' \in Nat
      BY <1>2, <2>1, <3>1
    <3>8. \A p : p # Null =>
            Many(slot', p, b, top) = Many(slot, p, b, top) + (IF p = o THEN 1 ELSE 0)
      BY <3>4, <3>5
    <3> QED
      BY <1>2, <1>4, <1>5, <1>6, <2>1, <3>1, <3>6, <3>7, <3>8
  <2>2. CASE ~ (h > 0)
    <3>1. i = top /\ top' = top + 1 /\ holes' = holes /\ top < MaxEntries
      BY <1>1, <1>2, <1>3, <2>2
    <3>2. \A j \in b..(top - 1) : j \in Refs!Index /\ j # i
      BY <1>2, <1>5, <1>6, <3>1 DEF Refs!Index
    <3>3. \A p : Many(slot', p, b, top) = Many(slot, p, b, top)
      <4>1. \A j \in b..(top - 1) : slot'[j] = slot[j]
        BY <1>9, <3>2
      <4> QED
        BY <4>1, SamePlaces
    <3>4. \A p : Many(slot', p, b, top + 1) =
                   Many(slot', p, b, top) + (IF slot'[top].obj = p THEN 1 ELSE 0)
      BY <1>2, OneSlotMore
    <3>5. \A p : Many(slot', p, b, top) \in Nat
      BY <1>2, PlacesAreFinite
    <3>6. slot'[top].obj = o
      BY <1>9, <3>1
    <3>7. \A p : Many(slot', p, b, top + 1) =
                   Many(slot, p, b, top) + (IF p = o THEN 1 ELSE 0)
      BY <3>3, <3>4, <3>6
    <3>8. Many(slot', Null, b, top + 1) = h
      <4>1. Many(slot', Null, b, top + 1) = Many(slot', Null, b, top) + 0
        BY <1>5, <3>4, <3>6
      <4> QED
        BY <1>2, <3>3, <4>1 DEF FrameIn
    <3>9. FrameIn(slot', b, top + 1, h)
      BY <1>2, <1>5, <3>6, <3>8 DEF FrameIn
    <3> QED
      BY <1>2, <1>5, <3>1, <3>7, <3>9
  <2> QED
    BY <2>1, <2>2
<1>11. \A j \in 0..(b - 1) : slot'[j].obj = slot[j].obj
  <2>1. \A j \in 0..(b - 1) : j \in Refs!Index /\ j # i
    BY <1>2, <1>5, <1>6, <1>7, <1>10 DEF Refs!Index
  <2> QED
    BY <1>9, <2>1
<1>12. TableTypes'
  BY <1>1, <1>9, <1>10 DEF TableTypes
<1>13. /\ FramesInv'
       /\ \A k \in 1..(Len(cookies) - 1) : \A p : InFrame(k, p)' = InFrame(k, p)
       /\ \A p : InFrame(Len(cookies), p)' = Many(slot', p, Refs!Cookie.top, top')
       /\ \A p : InFrame(Len(cookies), p) = Many(slot, p, Refs!Cookie.top, top)
  <2>1. \A j \in 0..(Refs!Cookie.top - 1) : slot'[j].obj = slot[j].obj
    BY <1>11 DEF b
  <2>2. FrameIn(slot', Refs!Cookie.top, top', holes' - Refs!Cookie.holes)
    BY <1>10 DEF b
  <2> QED
    BY <1>1, <2>1, <2>2, TopFrameKeeps
<1>14. \A p : p # Null => InFrame(Len(cookies), p)' =
                           InFrame(Len(cookies), p) + (IF p = o THEN 1 ELSE 0)
  BY <1>10, <1>13 DEF b
<1>15. top' \in Nat
  BY <1>5, <1>10
<1>16. \A j \in Refs!Index : j # i /\ j < top' => j < top
  <2> SUFFICES ASSUME NEW j \in Refs!Index, j # i, j < top', ~ (j < top)
               PROVE  FALSE
    OBVIOUS
  <2>1. j \in Nat /\ top' \in Nat /\ top \in Nat /\ i \in Nat
    BY <1>2, <1>5, <1>7, <1>15 DEF Refs!Index
  <2>2. (i < top \/ top' = i + 1) /\ (top' = top \/ i = top)
    BY <1>10
  <2> QED
    BY <2>1, <2>2
<1> QED
  BY <1>1, <1>7, <1>10, <1>12, <1>13, <1>14, <1>15, <1>16 DEF i

\* A slot of the current frame is given up.
LEMMA ZapEffect ==
  ASSUME TableTypes, FramesInv, NEW i \in Refs!Cookie.top..(top - 1), slot[i].obj # Null,
         Refs!ZapSlot(i)
  PROVE  /\ TableTypes' /\ FramesInv' /\ cookies' = cookies
         /\ top' \in Nat /\ top' <= top /\ i \in Refs!Index
         /\ i >= top' \/ slot'[i].obj = Null
         /\ \A j \in Refs!Index : slot'[j].serial = slot[j].serial
         /\ \A j \in Refs!Index : j # i => slot'[j].obj = slot[j].obj
         /\ \A j \in Refs!Index : j # i /\ j < top /\ slot[j].obj # Null => j < top'
         /\ \A k \in 1..(Len(cookies) - 1) : \A p : InFrame(k, p)' = InFrame(k, p)
         /\ \A p : p # Null => InFrame(Len(cookies), p)' =
                     InFrame(Len(cookies), p) - (IF p = slot[i].obj THEN 1 ELSE 0)
<1> DEFINE b == Refs!Cookie.top
           h == Refs!OwnHoles
<1>1. /\ b \in Nat /\ top \in Nat /\ holes \in Nat /\ h \in Nat /\ b <= top
      /\ Refs!Cookie.holes \in Nat /\ h = holes - Refs!Cookie.holes
      /\ FrameIn(slot, b, top, h)
  BY CookieIs
<1>2. MaxEntries \in Nat /\ Serials \in Nat \ {0}
  BY ServicesAssumption
<1>3. slot \in [Refs!Index -> Slot] /\ top <= MaxEntries
  BY <1>2 DEF TableTypes
<1>4. i \in b..(top - 1) /\ i \in Nat /\ b < top
  BY <1>1
<1>5. cookies' = cookies /\ kind' = kind
  BY DEF Refs!ZapSlot
<1>6. Refs!Eaten = Refs!Max(Edible(slot, b, top, h))
  BY DEF Refs!Eaten, Refs!Hole, Edible
<1>7. IF i = top - 1
      THEN top' = top - 1 - Refs!Eaten /\ holes' = holes - Refs!Eaten /\ slot' = slot
      ELSE slot' = [slot EXCEPT ![i].obj = Null] /\ holes' = holes + 1 /\ top' = top
  BY DEF Refs!ZapSlot
<1> HIDE DEF b, h
<1>8. \A j \in b..(top - 1) : j \in Refs!Index
  BY <1>1, <1>2, <1>3 DEF Refs!Index
<1>9. i \in Refs!Index
  BY <1>4, <1>8
<1>10. /\ FrameIn(slot', b, top', holes' - Refs!Cookie.holes)
       /\ slot' \in [Refs!Index -> Slot] /\ top' \in 0..MaxEntries /\ holes' \in Nat
       /\ top' <= top /\ b <= top' /\ (i >= top' \/ slot'[i].obj = Null)
       /\ \A j \in Refs!Index : slot'[j].serial = slot[j].serial
       /\ \A j \in Refs!Index : j # i => slot'[j].obj = slot[j].obj
       /\ \A j \in Refs!Index : j # i /\ j < top /\ slot[j].obj # Null => j < top'
       /\ \A p : p # Null =>
            Many(slot', p, b, top') = Many(slot, p, b, top) - (IF p = slot[i].obj THEN 1 ELSE 0)
  <2>1. CASE i = top - 1
    <3> DEFINE m == Refs!Eaten
    <3>1. /\ m \in 0..h /\ top - 1 - m >= b /\ FrameIn(slot, b, top - 1 - m, h - m)
          /\ \A j \in (top - 1 - m)..(top - 2) : slot[j].obj = Null
          /\ \A p : p # Null => Many(slot, p, b, top - 1 - m) =
                                  Many(slot, p, b, top) - (IF slot[top - 1].obj = p THEN 1 ELSE 0)
      BY <1>1, <1>4, <1>6, HolesAreEaten
    <3>2. top' = top - 1 - m /\ holes' = holes - m /\ slot' = slot
      BY <1>7, <2>1
    <3> HIDE DEF m
    <3>3. top' \in 0..MaxEntries /\ holes' \in Nat /\ top' <= top /\ b <= top' /\ i >= top'
      BY <1>1, <1>2, <1>3, <2>1, <3>1, <3>2
    <3>4. holes' - Refs!Cookie.holes = h - m
      BY <1>1, <3>1, <3>2
    <3>5. \A j \in Refs!Index : j # i /\ j < top /\ slot[j].obj # Null => j < top'
      <4> SUFFICES ASSUME NEW j \in Refs!Index, j # i, j < top, slot[j].obj # Null, ~ (j < top')
                   PROVE  FALSE
        OBVIOUS
      <4>1. j \in Nat
        BY <1>2 DEF Refs!Index
      <4>2. j \in (top - 1 - m)..(top - 2)
        BY <1>1, <2>1, <3>1, <3>2, <4>1
      <4> QED
        BY <3>1, <4>2
    <3>6. \A p : p # Null => Many(slot', p, b, top') =
                               Many(slot, p, b, top) - (IF p = slot[i].obj THEN 1 ELSE 0)
      BY <2>1, <3>1, <3>2
    <3>7. FrameIn(slot', b, top', holes' - Refs!Cookie.holes)
      BY <3>1, <3>2, <3>4
    <3> QED
      BY <1>3, <3>2, <3>3, <3>5, <3>6, <3>7
  <2>2. CASE i # top - 1
    <3> DEFINE x == slot[i].obj
    <3>1. slot' = [slot EXCEPT ![i].obj = Null] /\ holes' = holes + 1 /\ top' = top
      BY <1>7, <2>2
    <3>2. slot[i] \in Slot
      BY <1>3, <1>9
    <3>3. /\ slot' \in [Refs!Index -> Slot] /\ slot'[i].obj = Null
          /\ slot'[i].serial = slot[i].serial
          /\ \A j \in Refs!Index : j # i => slot'[j] = slot[j]
      <4> DEFINE new == [slot[i] EXCEPT !.obj = Null]
      <4>1. new \in Slot /\ new.obj = Null /\ new.serial = slot[i].serial
        BY <3>2 DEF Slot
      <4>2. slot' = [slot EXCEPT ![i] = new]
        BY <3>1
      <4> HIDE DEF new
      <4> QED
        BY <1>3, <1>9, <4>1, <4>2
    <3>4. OnlyAt(slot, slot', b, top, i)
      BY <1>4, <1>8, <3>3 DEF OnlyAt
    <3>5. slot[i].obj = x /\ x # Null
      OBVIOUS
    <3> HIDE DEF x
    <3>6. /\ Many(slot', Null, b, top) = Many(slot, Null, b, top) + 1
          /\ Many(slot', x, b, top) = Many(slot, x, b, top) - 1
          /\ \A p : p # Null /\ p # x => Many(slot', p, b, top) = Many(slot, p, b, top)
      BY <1>1, <3>3, <3>4, <3>5, PlaceChanged
    <3>7. \A p : Many(slot, p, b, top) \in Nat
      BY <1>1, PlacesAreFinite
    <3>8. FrameIn(slot', b, top, h + 1)
      <4>1. top - 1 \in b..(top - 1) /\ slot[top - 1].obj # Null
        BY <1>1, <1>4 DEF FrameIn
      <4>2. slot'[top - 1].obj # Null
        BY <1>8, <2>2, <3>3, <4>1
      <4> QED
        BY <1>1, <3>6, <4>2 DEF FrameIn
    <3>9. \A p : p # Null => Many(slot', p, b, top') =
                               Many(slot, p, b, top) - (IF p = slot[i].obj THEN 1 ELSE 0)
      <4> SUFFICES ASSUME NEW p, p # Null
                   PROVE  Many(slot', p, b, top) =
                            Many(slot, p, b, top) - (IF p = x THEN 1 ELSE 0)
        BY <3>1, <3>5
      <4>1. CASE p = x
        BY <3>6, <4>1
      <4>2. CASE p # x
        BY <3>6, <3>7, <4>2
      <4> QED
        BY <4>1, <4>2
    <3>10. h + 1 = holes' - Refs!Cookie.holes /\ holes' \in Nat
      BY <1>1, <3>1
    <3>11. FrameIn(slot', b, top', holes' - Refs!Cookie.holes)
      BY <3>1, <3>8, <3>10
    <3>12. /\ \A j \in Refs!Index : slot'[j].serial = slot[j].serial
           /\ \A j \in Refs!Index : j # i => slot'[j].obj = slot[j].obj
      BY <3>3
    <3>13. top' \in 0..MaxEntries /\ top' <= top /\ b <= top'
      BY <1>1, <1>2, <1>3, <3>1
    <3> QED
      BY <3>1, <3>3, <3>9, <3>10, <3>11, <3>12, <3>13
  <2> QED
    BY <2>1, <2>2
<1>11. \A j \in 0..(b - 1) : slot'[j].obj = slot[j].obj
  <2>1. \A j \in 0..(b - 1) : j \in Refs!Index /\ j # i
    BY <1>1, <1>2, <1>3, <1>4 DEF Refs!Index
  <2> QED
    BY <1>10, <2>1
<1>12. TableTypes'
  BY <1>5, <1>10 DEF TableTypes
<1>13. /\ FramesInv'
       /\ \A k \in 1..(Len(cookies) - 1) : \A p : InFrame(k, p)' = InFrame(k, p)
       /\ \A p : InFrame(Len(cookies), p)' = Many(slot', p, Refs!Cookie.top, top')
       /\ \A p : InFrame(Len(cookies), p) = Many(slot, p, Refs!Cookie.top, top)
  <2>1. \A j \in 0..(Refs!Cookie.top - 1) : slot'[j].obj = slot[j].obj
    BY <1>11 DEF b
  <2>2. FrameIn(slot', Refs!Cookie.top, top', holes' - Refs!Cookie.holes)
    BY <1>10 DEF b
  <2> QED
    BY <1>5, <2>1, <2>2, TopFrameKeeps
<1>14. \A p : p # Null => InFrame(Len(cookies), p)' =
                  InFrame(Len(cookies), p) - (IF p = slot[i].obj THEN 1 ELSE 0)
  BY <1>10, <1>13 DEF b
<1>15. top' \in Nat
  BY <1>2, <1>10
<1> QED
  BY <1>5, <1>9, <1>10, <1>12, <1>13, <1>14, <1>15

\* A frame is put on top: it is empty.
LEMMA PushEffect ==
  ASSUME TableTypes, FramesInv, Refs!PushFrame
  PROVE  /\ TableTypes' /\ FramesInv' /\ Len(cookies') = Len(cookies) + 1
         /\ \A k \in 1..Len(cookies) : \A p : InFrame(k, p)' = InFrame(k, p)
         /\ \A k \in 1..Len(cookies') : k > Len(cookies) => \A p : InFrame(k, p)' = 0
<1> DEFINE n == Len(cookies)
           c == [top |-> top, holes |-> holes]
<1>1. cookies' = Append(cookies, c) /\ UNCHANGED <<kind, slot, top, holes>>
  BY DEF Refs!PushFrame, Refs!segment
<1>2. n \in Nat /\ n \in 1..n /\ top \in Nat /\ holes \in Nat /\ Refs!Cookie = cookies[n]
      /\ Refs!Cookie.top <= top
  BY CookieIs
<1>3. c \in Frame /\ c.top = top /\ c.holes = holes /\ cookies \in Seq(Frame)
  BY <1>2 DEF TableTypes, Frame
<1> HIDE DEF c
<1>4. /\ cookies' \in Seq(Frame) /\ Len(cookies') = n + 1 /\ cookies'[n + 1] = c
      /\ \A k \in 1..n : cookies'[k] = cookies[k]
      /\ \A k \in 1..(n + 1) : k # n + 1 => k \in 1..n
  BY <1>1, <1>3, OneMore
<1>5. TableTypes'
  <2>1. cookies' # <<>>
    BY <1>2, <1>4, EmptySeq
  <2> QED
    BY <1>1, <1>4, <2>1 DEF TableTypes
<1>6. ASSUME NEW k \in 1..n
      PROVE  /\ Refs!FrameEnd(k)' = Refs!FrameEnd(k) /\ HolesUpTo(k)' = HolesUpTo(k)
             /\ cookies'[k] = cookies[k]
  <2>1. CASE k = n
    BY <1>1, <1>2, <1>3, <1>4, <2>1 DEF Refs!FrameEnd, HolesUpTo
  <2>2. CASE k # n
    <3>1. k + 1 \in 1..n /\ k # n + 1
      BY <1>2, <2>2
    <3> QED
      BY <1>4, <2>2, <3>1 DEF Refs!FrameEnd, HolesUpTo
  <2> QED
    BY <2>1, <2>2
<1>7. \A k \in Nat : k = n + 1 => Refs!FrameEnd(k)' = top /\ HolesUpTo(k)' = holes
  BY <1>1, <1>4 DEF Refs!FrameEnd, HolesUpTo
<1>8. \A p : Many(slot, p, top, top) = 0
  <2>1. \A p : \A i \in top..(top - 1) : slot[i].obj # p
    BY <1>2
  <2> QED
    BY <1>2, <2>1, NoPlaces
<1>9. FramesInv'
  <2>1. ASSUME NEW k \in 1..Len(cookies')
        PROVE  FrameIn(slot', cookies'[k].top, Refs!FrameEnd(k)', HolesUpTo(k)' - cookies'[k].holes)
    <3>1. CASE k = n + 1
      <4>1. /\ Refs!FrameEnd(k)' = top /\ HolesUpTo(k)' = holes
            /\ cookies'[k].top = top /\ cookies'[k].holes = holes
        BY <1>2, <1>3, <1>4, <1>7, <3>1
      <4>2. FrameIn(slot, top, top, holes - holes)
        BY <1>2, <1>8 DEF FrameIn
      <4> QED
        BY <1>1, <4>1, <4>2
    <3>2. CASE k # n + 1
      BY <1>1, <1>4, <1>6, <3>2 DEF FramesInv
    <3> QED
      BY <3>1, <3>2
  <2>2. ASSUME NEW j \in 1..Len(cookies'), NEW k \in 1..Len(cookies'), j <= k
        PROVE  cookies'[j].top <= cookies'[k].top
    <3>1. CASE k # n + 1
      <4>1. k \in 1..n /\ j \in 1..n
        BY <1>2, <1>4, <2>2, <3>1
      <4> QED
        BY <1>4, <2>2, <4>1 DEF FramesInv
    <3>2. CASE k = n + 1 /\ j # n + 1
      <4>1. j \in 1..n /\ j <= n
        BY <1>2, <1>4, <3>2
      <4>2. cookies[j].top <= cookies[n].top /\ cookies[j] \in Frame /\ cookies[n] \in Frame
        BY <1>2, <1>3, <4>1, ElementOfSeq DEF FramesInv
      <4>3. cookies[j].top \in Nat /\ cookies[n].top \in Nat /\ cookies[n].top <= top
        BY <1>2, <4>2, ServicesAssumption DEF Frame
      <4> QED
        BY <1>2, <1>3, <1>4, <3>2, <4>1, <4>2, <4>3
    <3>3. CASE k = n + 1 /\ j = n + 1
      BY <1>2, <1>3, <1>4, <3>3
    <3> QED
      BY <3>1, <3>2, <3>3
  <2>3. cookies'[1] = cookies[1]
    BY <1>2, <1>4
  <2> QED
    BY <2>1, <2>2, <2>3 DEF FramesInv
<1>10. \A k \in 1..n : \A p : InFrame(k, p)' = InFrame(k, p)
  BY <1>1, <1>6 DEF InFrame
<1>11. ASSUME NEW k \in 1..Len(cookies'), k > n PROVE \A p : InFrame(k, p)' = 0
  <2>1. k = n + 1 /\ k \in Nat
    BY <1>2, <1>4, <1>11
  <2> QED
    BY <1>1, <1>3, <1>4, <1>7, <1>8, <2>1 DEF InFrame
<1> QED
  BY <1>4, <1>5, <1>9, <1>10, <1>11

\* A frame is taken off: the one below is as it was left.
LEMMA PopEffect ==
  ASSUME TableTypes, FramesInv, Refs!PopFrame
  PROVE  /\ TableTypes' /\ FramesInv' /\ Len(cookies') = Len(cookies) - 1
         /\ \A k \in 1..(Len(cookies) - 1) : \A p : InFrame(k, p)' = InFrame(k, p)
<1> DEFINE n == Len(cookies)
<1>1. /\ n > 1 /\ cookies' = Libs!Front(cookies) /\ UNCHANGED <<kind, slot>>
      /\ top' = Refs!Cookie.top /\ holes' = Refs!Cookie.holes
  BY DEF Refs!PopFrame, Refs!Front, Libs!Front
<1>2. n \in Nat /\ n \in 1..n /\ Refs!Cookie = cookies[n] /\ Refs!Cookie \in Frame
  BY CookieIs
<1>3. /\ cookies' \in Seq(Frame) /\ Len(cookies') = n - 1
      /\ \A k \in 1..(n - 1) : k \in 1..n /\ k # n /\ cookies'[k] = cookies[k]
  BY <1>1, FrontOf DEF TableTypes
<1>4. TableTypes'
  <2>1. cookies' # <<>>
    BY <1>1, <1>2, <1>3, EmptySeq
  <2>2. top' \in 0..MaxEntries /\ holes' \in Nat
    BY <1>1, <1>2 DEF Frame
  <2> QED
    BY <1>1, <1>3, <2>1, <2>2 DEF TableTypes
<1>5. ASSUME NEW k \in 1..(n - 1)
      PROVE  /\ Refs!FrameEnd(k)' = Refs!FrameEnd(k) /\ HolesUpTo(k)' = HolesUpTo(k)
             /\ cookies'[k] = cookies[k]
  <2>1. CASE k = n - 1
    BY <1>1, <1>2, <1>3, <2>1 DEF Refs!FrameEnd, HolesUpTo
  <2>2. CASE k # n - 1
    <3>1. k + 1 \in 1..(n - 1) /\ k # n
      BY <1>2, <2>2
    <3> QED
      BY <1>3, <2>2, <3>1 DEF Refs!FrameEnd, HolesUpTo
  <2> QED
    BY <2>1, <2>2
<1>6. FramesInv'
  <2>1. ASSUME NEW k \in 1..Len(cookies')
        PROVE  FrameIn(slot', cookies'[k].top, Refs!FrameEnd(k)', HolesUpTo(k)' - cookies'[k].holes)
    BY <1>1, <1>3, <1>5 DEF FramesInv
  <2>2. ASSUME NEW j \in 1..Len(cookies'), NEW k \in 1..Len(cookies'), j <= k
        PROVE  cookies'[j].top <= cookies'[k].top
    BY <1>3, <2>2 DEF FramesInv
  <2>3. cookies'[1] = cookies[1]
    BY <1>1, <1>2, <1>3
  <2> QED
    BY <2>1, <2>2, <2>3 DEF FramesInv
<1>7. \A k \in 1..(n - 1) : \A p : InFrame(k, p)' = InFrame(k, p)
  BY <1>1, <1>5 DEF InFrame
<1> QED
  BY <1>3, <1>4, <1>6, <1>7

\* The weak references to a dead object are cleared.
LEMMA SweepEffect ==
  ASSUME TableTypes, FramesInv, Len(cookies) = 1, NEW o \in Obj, Refs!SweepWeak(o)
  PROVE  /\ TableTypes' /\ FramesInv' /\ cookies' = cookies
         /\ \A i \in Refs!Index : slot'[i].serial = slot[i].serial
         /\ \A i \in Refs!Index : i < top =>
              slot'[i].obj = IF slot[i].obj = o THEN Cleared ELSE slot[i].obj
         /\ InFrame(1, o)' = 0 /\ InFrame(1, Cleared)' = InFrame(1, Cleared) + InFrame(1, o)
         /\ \A p : p # o /\ p # Cleared => InFrame(1, p)' = InFrame(1, p)
<1>1. /\ slot' = [i \in Refs!Index |->
                    IF i < top THEN [slot[i] EXCEPT !.obj = IF @ = o THEN Cleared ELSE @]
                    ELSE slot[i]]
      /\ UNCHANGED <<kind, top, holes, cookies>>
  BY DEF Refs!SweepWeak, Refs!segment
<1>2. /\ Refs!Cookie = cookies[1] /\ cookies[1].top = 0 /\ top \in Nat /\ holes \in Nat
      /\ cookies[1].holes = 0 /\ FrameIn(slot, 0, top, holes)
  BY CookieIs DEF FramesInv, Refs!OwnHoles
<1>3. slot \in [Refs!Index -> Slot] /\ MaxEntries \in Nat /\ top <= MaxEntries
  BY ServicesAssumption DEF TableTypes
<1>4. o # Null /\ o # Cleared /\ Cleared # Null
  BY ServicesAssumption
<1>5. ASSUME NEW i \in Refs!Index
      PROVE  /\ slot'[i] \in Slot /\ slot'[i].serial = slot[i].serial
             /\ slot'[i].obj = IF i < top /\ slot[i].obj = o THEN Cleared ELSE slot[i].obj
  <2>1. slot[i] \in Slot
    BY <1>3
  <2>2. CASE i < top
    <3>1. slot'[i] = [slot[i] EXCEPT !.obj = IF slot[i].obj = o THEN Cleared ELSE slot[i].obj]
      BY <1>1, <2>2
    <3> QED
      BY <2>1, <2>2, <3>1 DEF Slot
  <2>3. CASE ~ (i < top)
    BY <1>1, <2>1, <2>3
  <2> QED
    BY <2>2, <2>3
<1>6. slot' \in [Refs!Index -> Slot]
  BY <1>1, <1>5
<1>7. \A i \in 0..(top - 1) :
        i \in Refs!Index /\ slot'[i].obj = IF slot[i].obj = o THEN Cleared ELSE slot[i].obj
  <2>1. \A i \in 0..(top - 1) : i \in Refs!Index /\ i < top
    BY <1>2, <1>3 DEF Refs!Index
  <2> QED
    BY <1>5, <2>1
<1>8. \A p : p # o /\ p # Cleared => Many(slot', p, 0, top) = Many(slot, p, 0, top)
  <2> SUFFICES ASSUME NEW p, p # o, p # Cleared
               PROVE  Many(slot', p, 0, top) = Many(slot, p, 0, top)
    OBVIOUS
  <2>1. \A i \in 0..(top - 1) : slot[i].obj = p <=> slot'[i].obj = p
    BY <1>7
  <2> QED
    BY <2>1, SamePlaces
<1>9. Many(slot', o, 0, top) = 0
      /\ Many(slot', Cleared, 0, top) = Many(slot, Cleared, 0, top) + Many(slot, o, 0, top)
  <2>1. Turned(slot, slot', o, Cleared, 0, top)
    BY <1>7 DEF Turned
  <2>2. 0 \in Int /\ top \in Int
    BY <1>2
  <2> QED
    BY <1>4, <2>1, <2>2, PlacesJoined
<1>10. FrameIn(slot', 0, top, holes)
  <2>1. top > 0 => slot'[top - 1].obj # Null
    <3>1. top > 0 => slot[top - 1].obj # Null /\ top - 1 \in 0..(top - 1)
      BY <1>2 DEF FrameIn
    <3> QED
      BY <1>4, <1>7, <3>1
  <2> QED
    BY <1>2, <1>4, <1>8, <2>1 DEF FrameIn
<1>11. /\ FramesInv' /\ \A p : InFrame(1, p)' = Many(slot', p, 0, top)
       /\ \A p : InFrame(1, p) = Many(slot, p, 0, top)
  <2>1. \A i \in 0..(0 - 1) : FALSE
    OBVIOUS
  <2>2. FrameIn(slot', Refs!Cookie.top, top', holes' - Refs!Cookie.holes)
    BY <1>1, <1>2, <1>10
  <2> QED
    BY <1>1, <1>2, <2>1, <2>2, TopFrameKeeps
<1>12. TableTypes'
  BY <1>1, <1>6 DEF TableTypes
<1>13. /\ InFrame(1, o)' = 0 /\ InFrame(1, Cleared)' = InFrame(1, Cleared) + InFrame(1, o)
       /\ \A p : p # o /\ p # Cleared => InFrame(1, p)' = InFrame(1, p)
  BY <1>8, <1>9, <1>11
<1>14. \A i \in Refs!Index : i < top =>
         slot'[i].obj = IF slot[i].obj = o THEN Cleared ELSE slot[i].obj
  BY <1>5
<1> QED
  BY <1>1, <1>5, <1>11, <1>12, <1>13, <1>14

-----------------------------------------------------------------------------
(* ... and on the weak references that were handed out.                    *)

\* The serial number of a slot that is given out once more.
LEMMA SerialsGoOn ==
  ASSUME NEW u \in Nat, NEW S \in Nat \ {0}, u < S
  PROVE  ((IF u = 0 THEN S - 1 ELSE u - 1) + 1) % S = u
<1>1. CASE u = 0
  BY <1>1
<1>2. CASE u # 0
  BY <1>2
<1> QED
  BY <1>1, <1>2

LEMMA RefsAddKeeps ==
  ASSUME RefsInv, NEW o \in Obj, Refs!Add(o)
  PROVE  RefsInv'
<1> DEFINE i == Refs!FreeSlot
           new == [obj |-> o, serial |-> Refs!NextSerial(slot[i].serial)]
           r == [index |-> i, serial |-> new.serial]
<1>1. TableTypes /\ FramesInv /\ HeldTypes
  BY DEF RefsInv
<1>2. /\ TableTypes' /\ FramesInv' /\ cookies' = cookies /\ top' \in Nat /\ top <= top'
      /\ i \in Refs!Index /\ i < top' /\ (i < top => slot[i].obj = Null)
      /\ \A j \in Refs!Index : j # i /\ j < top' => j < top
  BY <1>1, AddEffect
<1>3. /\ slot' = [slot EXCEPT ![i] = new] /\ kind' = kind /\ dropped' = dropped
      /\ kind # "weak" => UNCHANGED <<held, uses>>
      /\ kind = "weak" => /\ uses[i] < Serials /\ uses' = [uses EXCEPT ![i] = @ + 1]
                          /\ held' = [x \in DOMAIN held \cup {r} |-> IF x = r THEN o ELSE held[x]]
  BY DEF Refs!Add
<1>4. MaxEntries \in Nat /\ Serials \in Nat \ {0} /\ o # Null
  BY ServicesAssumption
<1>5. CASE kind # "weak"
  BY <1>1, <1>2, <1>3, <1>5 DEF RefsInv, HeldTypes, TableTypes
<1>6. CASE kind = "weak"
  <2>1. WeakInv
    BY <1>6 DEF RefsInv
  <2>2. uses \in [Refs!Index -> 0..Serials] /\ slot \in [Refs!Index -> Slot] /\ top \in Nat
    BY <1>1, <1>4 DEF HeldTypes, TableTypes
  <2>3. new.serial = uses[i] /\ new.obj = o
    <3>1. uses[i] \in Nat /\ uses[i] < Serials
      BY <1>2, <1>3, <1>4, <1>6, <2>2
    <3>2. slot[i].serial = IF uses[i] = 0 THEN Serials - 1 ELSE uses[i] - 1
      BY <1>2, <2>1 DEF WeakInv
    <3>3. (slot[i].serial + 1) % Serials = uses[i]
      BY <1>4, <3>1, <3>2, SerialsGoOn
    <3> QED
      BY <3>3 DEF Refs!NextSerial
  <2> HIDE DEF i, new
  <2>4. /\ slot'[i].obj = o /\ slot'[i].serial = uses[i] /\ uses'[i] = uses[i] + 1
        /\ \A j \in Refs!Index : j # i => slot'[j] = slot[j] /\ uses'[j] = uses[j]
        /\ uses[i] \in Nat /\ uses' \in [Refs!Index -> 0..Serials]
    BY <1>2, <1>3, <1>4, <1>6, <2>2, <2>3
  <2>5. r \in Refs!Ref /\ r.index = i /\ r.serial = uses[i]
    BY <1>2, <1>3, <1>4, <1>6, <2>3, <2>4 DEF Refs!Ref
  <2> HIDE DEF r
  <2>6. \A x \in DOMAIN held \cup dropped : x.index \in Refs!Index /\ x.serial \in Nat /\ x # r
    <3>1. \A x \in DOMAIN held \cup dropped : x \in Refs!Ref /\ x.serial < uses[x.index]
      BY <1>1, <2>1 DEF HeldTypes, WeakInv
    <3>2. \A x \in Refs!Ref : x.index \in Refs!Index /\ x.serial \in Nat
      BY <1>4 DEF Refs!Ref
    <3> QED
      BY <2>4, <2>5, <3>1, <3>2
  <2>7. HeldTypes'
    BY <1>1, <1>3, <1>6, <2>4, <2>5 DEF HeldTypes
  <2>8. \A j \in Refs!Index :
          slot'[j].serial = IF uses'[j] = 0 THEN Serials - 1 ELSE uses'[j] - 1
    BY <1>2, <2>1, <2>4 DEF WeakInv
  <2>9. \A x \in DOMAIN held' \cup dropped' : x.serial < uses'[x.index]
    <3> SUFFICES ASSUME NEW x \in DOMAIN held \cup {r} \cup dropped PROVE x.serial < uses'[x.index]
      BY <1>3, <1>6
    <3>1. CASE x = r
      BY <2>4, <2>5, <3>1
    <3>2. CASE x # r
      <4>1. x.serial < uses[x.index] /\ x.index \in Refs!Index /\ x.serial \in Nat
        BY <2>1, <2>6, <3>2 DEF WeakInv
      <4> QED
        BY <2>4, <4>1
    <3> QED
      BY <3>1, <3>2
  <2>10. \A x \in DOMAIN held' : x.index < top' /\ slot'[x.index].serial = x.serial
                                 /\ slot'[x.index].obj = held'[x] /\ held'[x] # Null
    <3> SUFFICES ASSUME NEW x \in DOMAIN held \cup {r}
                 PROVE  x.index < top' /\ slot'[x.index].serial = x.serial
                        /\ slot'[x.index].obj = held'[x] /\ held'[x] # Null
      BY <1>3, <1>6
    <3>1. CASE x = r
      <4>1. held'[x] = o
        BY <1>3, <1>6, <3>1
      <4> QED
        BY <1>2, <1>4, <2>4, <2>5, <3>1, <4>1
    <3>2. CASE x # r
      <4>1. /\ x.index < top /\ slot[x.index].serial = x.serial
            /\ slot[x.index].obj = held[x] /\ held[x] # Null /\ x.index \in Refs!Index
        BY <2>1, <2>6, <3>2 DEF WeakInv
      <4>2. x.index # i
        BY <1>2, <4>1
      <4>3. held'[x] = held[x] /\ slot'[x.index] = slot[x.index]
        BY <1>3, <1>6, <2>4, <3>2, <4>1, <4>2
      <4>4. x.index < top'
        BY <1>2, <1>4, <2>2, <4>1 DEF Refs!Index
      <4> QED
        BY <4>1, <4>3, <4>4
    <3> QED
      BY <3>1, <3>2
  <2>11. \A x \in dropped' : Refs!Get(x)' = Null
    <3> SUFFICES ASSUME NEW x \in dropped PROVE Refs!Get(x)' = Null
      BY <1>3
    <3>1. Refs!Get(x) = Null /\ x.index \in Refs!Index /\ x.serial < uses[x.index]
      BY <2>1, <2>6 DEF WeakInv
    <3>2. CASE x.index = i
      <4>1. slot'[x.index].serial # x.serial
        BY <2>4, <2>6, <3>1, <3>2
      <4> QED
        BY <4>1 DEF Refs!Get
    <3>3. CASE x.index # i
      <4>1. slot'[x.index] = slot[x.index] /\ (x.index < top' => x.index < top)
        BY <1>2, <2>4, <3>1, <3>3
      <4> QED
        BY <3>1, <4>1 DEF Refs!Get
    <3> QED
      BY <3>2, <3>3
  <2>12. Len(cookies') = 1
    BY <1>2, <2>1 DEF WeakInv
  <2>13. WeakInv'
    BY <2>8, <2>9, <2>10, <2>11, <2>12 DEF WeakInv
  <2> QED
    BY <1>2, <1>3, <1>6, <2>7, <2>13 DEF RefsInv
<1> QED
  BY <1>5, <1>6

LEMMA DeleteWeakKeeps ==
  ASSUME RefsInv, NEW r \in Refs!Ref, Refs!DeleteWeak(r)
  PROVE  /\ RefsInv' /\ r.index \in Refs!Cookie.top..(top - 1) /\ slot[r.index].obj # Null
         /\ Refs!ZapSlot(r.index)
<1> DEFINE i == r.index
<1>1. TableTypes /\ FramesInv /\ HeldTypes
  BY DEF RefsInv
<1>2. /\ r \in DOMAIN held \cup dropped /\ Refs!Get(r) # Null /\ Refs!ZapSlot(i)
      /\ held' = [x \in DOMAIN held \ {r} |-> held[x]] /\ dropped' = dropped \cup {r}
      /\ uses' = uses
  BY DEF Refs!DeleteWeak
<1>3. kind' = kind
  BY <1>2 DEF Refs!ZapSlot
<1>4. kind = "weak" /\ WeakInv
  BY <1>1, <1>2 DEF RefsInv, TableTypes
<1>5. r \in DOMAIN held
  BY <1>2, <1>4 DEF WeakInv
<1>6. MaxEntries \in Nat /\ Serials \in Nat \ {0}
  BY ServicesAssumption
<1>7. \A x \in DOMAIN held \cup dropped :
        x \in Refs!Ref /\ x.index \in Refs!Index /\ x.index \in Nat
  <2>1. \A x \in Refs!Ref : x.index \in Refs!Index /\ x.index \in Nat
    BY <1>6 DEF Refs!Ref, Refs!Index
  <2> QED
    BY <1>1, <2>1 DEF HeldTypes
<1>8. /\ i \in Refs!Index /\ i \in Nat /\ i < top /\ slot[i].serial = r.serial
      /\ slot[i].obj = held[r] /\ held[r] # Null
  BY <1>4, <1>5, <1>7 DEF WeakInv
<1>9. Refs!Cookie.top = 0 /\ top \in Nat
  BY <1>1, <1>4, CookieIs DEF FramesInv, WeakInv
<1>10. i \in Refs!Cookie.top..(top - 1)
  BY <1>8, <1>9
<1> HIDE DEF i
<1>11. /\ TableTypes' /\ FramesInv' /\ cookies' = cookies
       /\ top' \in Nat /\ top' <= top /\ (i >= top' \/ slot'[i].obj = Null)
       /\ \A j \in Refs!Index : slot'[j].serial = slot[j].serial
       /\ \A j \in Refs!Index : j # i => slot'[j].obj = slot[j].obj
       /\ \A j \in Refs!Index : j # i /\ j < top /\ slot[j].obj # Null => j < top'
  BY <1>1, <1>2, <1>8, <1>10, ZapEffect
<1>12. HeldTypes'
  BY <1>1, <1>2 DEF HeldTypes
<1>13. \A x \in DOMAIN held' : x.index < top' /\ slot'[x.index].serial = x.serial
                               /\ slot'[x.index].obj = held'[x] /\ held'[x] # Null
  <2> SUFFICES ASSUME NEW x \in DOMAIN held, x # r
               PROVE  x.index < top' /\ slot'[x.index].serial = x.serial
                      /\ slot'[x.index].obj = held[x] /\ held[x] # Null
    BY <1>2
  <2>1. /\ x.index < top /\ slot[x.index].serial = x.serial
        /\ slot[x.index].obj = held[x] /\ held[x] # Null /\ x.index \in Refs!Index
        /\ x \in Refs!Ref
    BY <1>4, <1>7 DEF WeakInv
  <2>2. x.index # i
    <3>1. x.index = i => x.serial = r.serial /\ x.index = r.index
      BY <1>8, <2>1 DEF i
    <3> QED
      BY <2>1, <3>1 DEF Refs!Ref
  <2> QED
    BY <1>11, <2>1, <2>2
<1>14. \A x \in dropped' : Refs!Get(x)' = Null
  <2>1. Refs!Get(r)' = Null
    <3>1. r.index = i
      BY DEF i
    <3> QED
      BY <1>8, <1>11, <3>1 DEF Refs!Get
  <2>2. ASSUME NEW x \in dropped PROVE Refs!Get(x)' = Null
    <3>1. Refs!Get(x) = Null /\ x.index \in Refs!Index /\ x.index \in Nat
      BY <1>4, <1>7 DEF WeakInv
    <3>2. CASE x.index = i
      <4>1. slot[i].serial # x.serial
        BY <1>8, <3>1, <3>2 DEF Refs!Get
      <4> QED
        BY <1>8, <1>11, <3>2, <4>1 DEF Refs!Get
    <3>3. CASE x.index # i
      <4>1. x.index < top' => x.index < top
        BY <1>9, <1>11, <3>1
      <4> QED
        BY <1>11, <3>1, <3>3, <4>1 DEF Refs!Get
    <3> QED
      BY <3>2, <3>3
  <2> QED
    BY <1>2, <2>1, <2>2
<1>15. WeakInv'
  <2>1. Len(cookies') = 1
    BY <1>4, <1>11 DEF WeakInv
  <2>2. \A j \in Refs!Index :
          slot'[j].serial = IF uses'[j] = 0 THEN Serials - 1 ELSE uses'[j] - 1
    BY <1>2, <1>4, <1>11 DEF WeakInv
  <2>3. \A x \in DOMAIN held' \cup dropped' : x.serial < uses'[x.index]
    BY <1>2, <1>4 DEF WeakInv
  <2> QED
    BY <1>13, <1>14, <2>1, <2>2, <2>3 DEF WeakInv
<1>16. RefsInv'
  BY <1>3, <1>4, <1>11, <1>12, <1>15 DEF RefsInv
<1> QED
  BY <1>2, <1>8, <1>10, <1>16 DEF i

LEMMA DeleteLocalKeeps ==
  ASSUME RefsInv, NEW o \in Obj, Refs!DeleteLocal(o)
  PROVE  /\ RefsInv'
         /\ \E i \in Refs!Cookie.top..(top - 1) :
              slot[i].obj = o /\ slot[i].obj # Null /\ Refs!ZapSlot(i)
<1> DEFINE found == {i \in Refs!Cookie.top..(top - 1) : slot[i].obj = o}
           i == Refs!Min(found)
<1>1. TableTypes /\ FramesInv /\ HeldTypes /\ kind = "local" /\ held = held
      /\ DOMAIN held = {} /\ dropped = {} /\ UNCHANGED <<held, dropped, uses>>
  BY DEF RefsInv, Refs!DeleteLocal, Refs!given
<1>2. found # {} /\ Refs!ZapSlot(i)
  BY DEF Refs!DeleteLocal
<1>3. Refs!Cookie.top \in Nat /\ top \in Nat
  BY <1>1, CookieIs
<1>4. i \in found
  <2>1. found \in SUBSET Nat /\ \A x \in found : x <= top
    BY <1>3
  <2> HIDE DEF found
  <2> QED
    BY <1>2, <1>3, <2>1, Least
<1>5. o # Null
  BY ServicesAssumption
<1> HIDE DEF i
<1>6. i \in Refs!Cookie.top..(top - 1) /\ slot[i].obj = o /\ slot[i].obj # Null
  BY <1>4, <1>5
<1>7. TableTypes' /\ FramesInv'
  BY <1>1, <1>2, <1>6, ZapEffect
<1>8. kind' = kind
  BY <1>2 DEF Refs!ZapSlot
<1>9. RefsInv'
  BY <1>1, <1>7, <1>8 DEF RefsInv, HeldTypes
<1> QED
  BY <1>2, <1>6, <1>9

LEMMA SweepWeakKeeps ==
  ASSUME RefsInv, NEW o \in Obj, Refs!SweepWeak(o)
  PROVE  RefsInv' /\ Len(cookies) = 1
<1>1. /\ kind = "weak" /\ UNCHANGED <<kind, top, holes, cookies, dropped, uses>>
      /\ held' = [r \in DOMAIN held |-> IF held[r] = o THEN Cleared ELSE held[r]]
  BY DEF Refs!SweepWeak, Refs!segment
<1>2. TableTypes /\ FramesInv /\ HeldTypes /\ WeakInv /\ Len(cookies) = 1
  BY <1>1 DEF RefsInv, WeakInv
<1>3. /\ TableTypes' /\ FramesInv'
      /\ \A i \in Refs!Index : slot'[i].serial = slot[i].serial
      /\ \A i \in Refs!Index : i < top =>
           slot'[i].obj = IF slot[i].obj = o THEN Cleared ELSE slot[i].obj
  BY <1>2, SweepEffect
<1>4. o # Null /\ Cleared # Null /\ MaxEntries \in Nat
  BY ServicesAssumption
<1>5. HeldTypes'
  BY <1>1, <1>2 DEF HeldTypes
<1>6. \A x \in DOMAIN held \cup dropped : x.index \in Refs!Index
  BY <1>2 DEF HeldTypes, Refs!Ref
<1>7. \A x \in DOMAIN held' : x.index < top' /\ slot'[x.index].serial = x.serial
                              /\ slot'[x.index].obj = held'[x] /\ held'[x] # Null
  <2> SUFFICES ASSUME NEW x \in DOMAIN held
               PROVE  x.index < top' /\ slot'[x.index].serial = x.serial
                      /\ slot'[x.index].obj = held'[x] /\ held'[x] # Null
    BY <1>1
  <2>1. /\ x.index < top /\ slot[x.index].serial = x.serial
        /\ slot[x.index].obj = held[x] /\ held[x] # Null /\ x.index \in Refs!Index
    BY <1>2, <1>6 DEF WeakInv
  <2> QED
    BY <1>1, <1>3, <1>4, <2>1
<1>8. \A x \in dropped' : Refs!Get(x)' = Null
  <2> SUFFICES ASSUME NEW x \in dropped PROVE Refs!Get(x)' = Null
    BY <1>1
  <2>1. Refs!Get(x) = Null /\ x.index \in Refs!Index
    BY <1>2, <1>6 DEF WeakInv
  <2> QED
    BY <1>1, <1>3, <1>4, <2>1 DEF Refs!Get
<1>9. WeakInv'
  BY <1>1, <1>2, <1>3, <1>7, <1>8 DEF WeakInv
<1> QED
  BY <1>1, <1>2, <1>3, <1>5, <1>9 DEF RefsInv

LEMMA RefsStutter ==
  ASSUME RefsInv, UNCHANGED refVars
  PROVE  RefsInv'
<1>1. /\ kind' = kind /\ slot' = slot /\ top' = top /\ holes' = holes /\ cookies' = cookies
      /\ held' = held /\ dropped' = dropped /\ uses' = uses
  BY DEF refVars
<1>2. TableTypes' /\ HeldTypes'
  BY <1>1 DEF RefsInv, TableTypes, HeldTypes
<1>3. FramesInv'
  BY <1>1 DEF RefsInv, FramesInv, HolesUpTo, Refs!FrameEnd
<1>4. WeakInv => WeakInv'
  BY <1>1 DEF WeakInv, Refs!Get
<1> QED
  BY <1>1, <1>2, <1>3, <1>4 DEF RefsInv

LEMMA RefsStep ==
  ASSUME RefsInv, Refs!Next \/ UNCHANGED refVars
  PROVE  RefsInv'
<1>1. TableTypes /\ FramesInv /\ HeldTypes
  BY DEF RefsInv
<1>2. CASE Refs!PushFrame
  <2>1. kind = "local" /\ kind' = kind /\ UNCHANGED <<held, dropped, uses>>
    BY <1>2 DEF Refs!PushFrame, Refs!given
  <2> QED
    BY <1>1, <1>2, <2>1, PushEffect DEF RefsInv, HeldTypes
<1>3. CASE Refs!PopFrame
  <2>1. kind' = kind /\ UNCHANGED <<held, dropped, uses>> /\ Len(cookies) > 1
    BY <1>3 DEF Refs!PopFrame, Refs!given
  <2>2. kind = "weak" => Len(cookies) = 1
    BY DEF RefsInv, WeakInv
  <2>3. kind # "weak"
    BY <1>1, <2>1, <2>2, CookieIs
  <2> QED
    BY <1>1, <1>3, <2>1, <2>3, PopEffect DEF RefsInv, HeldTypes
<1>4. CASE UNCHANGED refVars
  BY <1>4, RefsStutter
<1> QED
  BY <1>2, <1>3, <1>4, RefsAddKeeps, DeleteLocalKeeps, DeleteWeakKeeps, SweepWeakKeeps
  DEF Refs!Next

LEMMA InitRefsInv ==
  ASSUME Refs!Init
  PROVE  RefsInv
<1> DEFINE c == [top |-> 0, holes |-> 0]
<1>1. /\ kind \in {"local", "weak"} /\ cookies = <<c>> /\ top = 0 /\ holes = 0
      /\ slot = [i \in Refs!Index |-> [obj |-> Null, serial |-> Serials - 1]]
      /\ held = << >> /\ dropped = {} /\ uses = [i \in Refs!Index |-> 0]
  BY DEF Refs!Init
<1>2. MaxEntries \in Nat /\ Serials \in Nat \ {0}
  BY ServicesAssumption
<1>3. c \in Frame /\ c.top = 0 /\ c.holes = 0
  BY <1>2 DEF Frame
<1> HIDE DEF c
<1>4. /\ cookies \in Seq(Frame) /\ cookies # <<>> /\ Len(cookies) = 1 /\ cookies[1] = c
  BY <1>1, <1>3
<1>5. DOMAIN held = {}
  BY <1>1
<1>6. TableTypes
  BY <1>1, <1>2, <1>4 DEF TableTypes, Slot
<1>7. HeldTypes
  BY <1>1, <1>2, <1>5 DEF HeldTypes
<1>8. FramesInv
  <2>1. Many(slot, Null, 0, 0) = 0
    <3>1. \A i \in 0..(0 - 1) : slot[i].obj # Null
      OBVIOUS
    <3> QED
      BY <3>1, NoPlaces
  <2>2. FrameIn(slot, 0, 0, 0)
    BY <2>1 DEF FrameIn
  <2>3. 1..1 = {1}
    OBVIOUS
  <2> QED
    BY <1>1, <1>3, <1>4, <2>2, <2>3 DEF FramesInv, Refs!FrameEnd, HolesUpTo
<1>9. WeakInv
  BY <1>1, <1>4, <1>5 DEF WeakInv
<1> QED
  BY <1>1, <1>5, <1>6, <1>7, <1>8, <1>9 DEF RefsInv

-----------------------------------------------------------------------------
(* The table as RefStack sees it.                                          *)

Referent == Obj \cup {Cleared}
Count == [Referent -> Nat]
FramesOf == [k \in 1..Len(cookies) |-> Refs!Contents(k)]

StackFacts ==
  /\ Len(cookies) \in Nat /\ Len(cookies) \in 1..Len(cookies)
  /\ FramesOf \in Seq(Count) /\ FramesOf # <<>> /\ Len(FramesOf) = Len(cookies)
  /\ \A k \in 1..Len(cookies) :
       FramesOf[k] \in Count /\ \A p \in Referent : FramesOf[k][p] = InFrame(k, p)

\* The cardinality that IndirectRef takes from FiniteSets is this module's.
LEMMA SameCardinality == \A S : Refs!Cardinality(S) = Cardinality(S)
BY DEF Refs!Cardinality, Cardinality

LEMMA StackIs == TableTypes /\ FramesInv => StackFacts
<1> SUFFICES ASSUME TableTypes, FramesInv PROVE StackFacts
  OBVIOUS
<1> DEFINE n == Len(cookies)
<1>1. n \in Nat /\ n \in 1..n /\ top \in Nat /\ cookies \in Seq(Frame)
  BY CookieIs DEF TableTypes
<1>2. ASSUME NEW k \in 1..n
      PROVE  /\ FramesOf[k] \in Count /\ \A p \in Referent : FramesOf[k][p] = InFrame(k, p)
  <2>1. cookies[k].top \in Nat /\ Refs!FrameEnd(k) \in Nat
    <3>1. cookies[k] \in Frame
      BY <1>1, ElementOfSeq
    <3>2. CASE k = n
      BY <1>1, <3>1, <3>2, ServicesAssumption DEF Frame, Refs!FrameEnd
    <3>3. CASE k # n
      <4>1. cookies[k + 1] \in Frame
        BY <1>1, <3>3, ElementOfSeq
      <4> QED
        BY <3>1, <3>3, <4>1, ServicesAssumption DEF Frame, Refs!FrameEnd
    <3> QED
      BY <3>2, <3>3
  <2>2. \A p : InFrame(k, p) \in Nat
    BY <2>1, PlacesAreFinite DEF InFrame
  <2>3. \A p \in Referent :
          Cardinality({i \in cookies[k].top..(Refs!FrameEnd(k) - 1) : slot[i].obj = p})
            = InFrame(k, p)
    BY DEF InFrame, Many, Places
  <2> DEFINE c(p) == Cardinality({i \in cookies[k].top..(Refs!FrameEnd(k) - 1) : slot[i].obj = p})
  <2>4. FramesOf[k] = [p \in Referent |-> c(p)]
    <3>1. FramesOf[k] = Refs!Contents(k)
      BY DEF FramesOf
    <3>2. Refs!Contents(k) = [p \in Referent |-> c(p)]
      BY SameCardinality DEF Refs!Contents, Referent
    <3> HIDE DEF c
    <3> QED
      BY <3>1, <3>2
  <2>5. \A p \in Referent : c(p) = InFrame(k, p)
    BY <2>3
  <2> HIDE DEF c
  <2> QED
    BY <2>2, <2>4, <2>5 DEF Count
<1>3. FramesOf \in [1..n -> Count]
  BY <1>2 DEF FramesOf
<1>4. FramesOf \in Seq(Count)
  BY <1>1, <1>3, SeqDef
<1>5. Len(FramesOf) = n
  BY <1>1, <1>3, <1>4, LenProperties
<1>6. FramesOf # <<>>
  BY <1>1, <1>5, EmptySeq
<1> QED
  BY <1>1, <1>2, <1>4, <1>5, <1>6 DEF StackFacts

LEMMA TopChanges ==
  ASSUME StackFacts, StackFacts', cookies' = cookies,
         \A k \in 1..(Len(cookies) - 1) : \A p : InFrame(k, p)' = InFrame(k, p),
         NEW f \in Count, \A p \in Referent : InFrame(Len(cookies), p)' = f[p]
  PROVE  FramesOf' = [FramesOf EXCEPT ![Len(FramesOf)] = f]
<1> DEFINE n == Len(cookies)
           g == [FramesOf EXCEPT ![Len(FramesOf)] = f]
<1>1. /\ n \in Nat /\ n \in 1..n /\ FramesOf \in Seq(Count) /\ Len(FramesOf) = n
      /\ FramesOf' \in Seq(Count) /\ Len(FramesOf') = n
  BY DEF StackFacts
<1>2. /\ g \in Seq(Count) /\ Len(g) = n
      /\ \A k \in 1..n : g[k] = IF k = n THEN f ELSE FramesOf[k]
  BY <1>1, ExceptSeq
<1> HIDE DEF g
<1>3. \A k \in 1..n : FramesOf'[k] \in Count /\ \A p \in Referent : FramesOf'[k][p] = InFrame(k, p)'
  BY DEF StackFacts
<1>4. ASSUME NEW k \in 1..n PROVE FramesOf'[k] = g[k]
  <2>1. CASE k = n
    <3>1. \A p \in Referent : FramesOf'[k][p] = f[p]
      BY <1>3, <2>1
    <3> QED
      BY <1>2, <1>3, <2>1, <3>1 DEF Count
  <2>2. CASE k # n
    <3>1. k \in 1..(n - 1)
      BY <1>1, <2>2
    <3>2. \A p \in Referent : FramesOf'[k][p] = FramesOf[k][p]
      BY <1>3, <3>1 DEF StackFacts
    <3>3. FramesOf[k] \in Count
      BY DEF StackFacts
    <3> QED
      BY <1>2, <1>3, <2>2, <3>2, <3>3 DEF Count
  <2> QED
    BY <2>1, <2>2
<1>5. FramesOf' = g
  BY <1>1, <1>2, <1>4, SeqEqual
<1> QED
  BY <1>5 DEF g

LEMMA StackAdds ==
  ASSUME RefsInv, RefsInv', StackFacts, StackFacts', NEW o \in Obj, Refs!Add(o)
  PROVE  Refs!Stack!Add(o)
<1> DEFINE n == Len(cookies)
           f == FramesOf[n]
           g == [f EXCEPT ![o] = f[o] + 1]
<1>1. /\ cookies' = cookies
      /\ \A k \in 1..(n - 1) : \A p : InFrame(k, p)' = InFrame(k, p)
      /\ \A p : p # Null => InFrame(Len(cookies), p)' = InFrame(n, p) + (IF p = o THEN 1 ELSE 0)
  BY AddEffect DEF RefsInv
<1>2. /\ n \in 1..n /\ f \in Count /\ Len(FramesOf) = n
      /\ \A p \in Referent : f[p] = InFrame(n, p) /\ p # Null
  BY ServicesAssumption DEF StackFacts, Referent
<1>3. g \in Count /\ \A p \in Referent : g[p] = f[p] + (IF p = o THEN 1 ELSE 0)
  BY <1>2 DEF Count, Referent
<1> HIDE DEF f, g
<1>4. \A p \in Referent : InFrame(Len(cookies), p)' = g[p]
  BY <1>1, <1>2, <1>3
<1>5. FramesOf' = [FramesOf EXCEPT ![Len(FramesOf)] = g]
  BY <1>1, <1>3, <1>4, TopChanges
<1> QED
  BY <1>2, <1>5 DEF Refs!Stack!Add, Refs!Stack!InTop, Refs!Stack!Last, FramesOf, f, g

LEMMA StackDeletes ==
  ASSUME RefsInv, RefsInv', StackFacts, StackFacts', NEW i \in Refs!Cookie.top..(top - 1),
         slot[i].obj # Null, Refs!ZapSlot(i)
  PROVE  \E o \in Obj \cup {Cleared} : Refs!Stack!Delete(o)
<1> DEFINE n == Len(cookies)
           o == slot[i].obj
           f == FramesOf[n]
           g == [f EXCEPT ![o] = f[o] - 1]
<1>1. /\ cookies' = cookies /\ i \in Refs!Index
      /\ \A k \in 1..(n - 1) : \A p : InFrame(k, p)' = InFrame(k, p)
      /\ \A p : p # Null => InFrame(Len(cookies), p)' = InFrame(n, p) - (IF p = o THEN 1 ELSE 0)
  BY ZapEffect DEF RefsInv
<1>2. slot[i] \in Slot
  BY <1>1 DEF RefsInv, TableTypes
<1>3. o \in Referent
  BY <1>2 DEF Slot, Referent
<1> HIDE DEF o
<1>4. /\ n \in 1..n /\ f \in Count /\ Len(FramesOf) = n
      /\ \A p \in Referent : f[p] = InFrame(n, p) /\ p # Null
  BY ServicesAssumption DEF StackFacts, Referent
<1>5. f[o] > 0
  <2> SUFFICES ASSUME NEW p \in Referent, p = o PROVE f[p] > 0
    BY <1>3
  <2>1. /\ Len(cookies') \in 1..Len(cookies')
        /\ \A k \in 1..Len(cookies') :
             FramesOf'[k] \in Count /\ FramesOf'[k][p] = InFrame(k, p)'
    BY DEF StackFacts
  <2>2. FramesOf'[Len(cookies')] \in Count
        /\ FramesOf'[Len(cookies')][p] = InFrame(Len(cookies), p)'
    BY <2>1
  <2>3. \A h \in Count : h[p] \in Nat
    BY DEF Count
  <2>4. InFrame(Len(cookies), p)' \in Nat
    BY <2>2, <2>3
  <2>5. p # Null /\ f[p] = InFrame(n, p) /\ f[p] \in Nat
    BY <1>4, <2>3
  <2>6. InFrame(Len(cookies), p)' = InFrame(n, p) - 1
    BY <1>1, <2>5
  <2> QED
    BY <2>4, <2>5, <2>6
<1>6. g \in Count /\ \A p \in Referent : g[p] = f[p] - (IF p = o THEN 1 ELSE 0)
  BY <1>3, <1>4, <1>5 DEF Count
<1> HIDE DEF f, g
<1>7. \A p \in Referent : InFrame(Len(cookies), p)' = g[p]
  BY <1>1, <1>4, <1>6
<1>8. FramesOf' = [FramesOf EXCEPT ![Len(FramesOf)] = g]
  BY <1>1, <1>6, <1>7, TopChanges
<1>9. Refs!Stack!Delete(o)
  BY <1>4, <1>5, <1>8 DEF Refs!Stack!Delete, Refs!Stack!InTop, Refs!Stack!Last, FramesOf, f, g
<1> QED
  BY <1>3, <1>9 DEF Referent

LEMMA StackClears ==
  ASSUME RefsInv, RefsInv', StackFacts, StackFacts', NEW o \in Obj, Refs!SweepWeak(o)
  PROVE  Refs!Stack!Clear(o)
<1> DEFINE f == FramesOf[1]
           g == [f EXCEPT ![o] = 0, ![Cleared] = f[Cleared] + f[o]]
<1>1. Len(cookies) = 1
  BY SweepWeakKeeps
<1>2. /\ cookies' = cookies
      /\ InFrame(1, o)' = 0 /\ InFrame(1, Cleared)' = InFrame(1, Cleared) + InFrame(1, o)
      /\ \A p : p # o /\ p # Cleared => InFrame(1, p)' = InFrame(1, p)
  BY <1>1, SweepEffect DEF RefsInv
<1>3. /\ f \in Count /\ Len(FramesOf) = 1 /\ \A p \in Referent : f[p] = InFrame(1, p)
      /\ o \in Referent /\ Cleared \in Referent /\ o # Cleared
  BY <1>1, ServicesAssumption DEF StackFacts, Referent
<1>4. /\ g \in Count /\ g[o] = 0 /\ g[Cleared] = f[Cleared] + f[o]
      /\ \A p \in Referent : p # o /\ p # Cleared => g[p] = f[p]
  BY <1>3 DEF Count
<1> HIDE DEF f, g
<1>5. \A p \in Referent : InFrame(1, p)' = g[p]
  BY <1>2, <1>3, <1>4
<1>6. FramesOf' = [FramesOf EXCEPT ![Len(FramesOf)] = g]
  <2>1. \A p \in Referent : InFrame(Len(cookies), p)' = g[p]
    BY <1>1, <1>2, <1>5
  <2>2. \A k \in 1..(Len(cookies) - 1) : \A p : InFrame(k, p)' = InFrame(k, p)
    BY <1>1
  <2> QED
    BY <1>2, <1>4, <2>1, <2>2, TopChanges
<1> QED
  BY <1>3, <1>6 DEF Refs!Stack!Clear, Refs!Stack!InTop, Refs!Stack!Last, FramesOf, f, g

LEMMA StackPushes ==
  ASSUME RefsInv, StackFacts, StackFacts', Refs!PushFrame
  PROVE  Refs!Stack!Push
<1> DEFINE n == Len(cookies)
           e == Refs!Stack!Empty
           g == Append(FramesOf, e)
<1>1. /\ Len(cookies') = n + 1
      /\ \A k \in 1..n : \A p : InFrame(k, p)' = InFrame(k, p)
      /\ \A k \in 1..Len(cookies') : k > n => \A p : InFrame(k, p)' = 0
  BY PushEffect DEF RefsInv
<1>2. e \in Count /\ \A p \in Referent : e[p] = 0
  BY DEF Refs!Stack!Empty, Count, Referent
<1> HIDE DEF e
<1>3. n \in Nat /\ FramesOf \in Seq(Count) /\ Len(FramesOf) = n
      /\ \A k \in 1..n : FramesOf[k] \in Count /\ \A p \in Referent : FramesOf[k][p] = InFrame(k, p)
  BY DEF StackFacts
<1>4. /\ g \in Seq(Count) /\ Len(g) = n + 1 /\ g[n + 1] = e
      /\ \A k \in 1..n : g[k] = FramesOf[k]
      /\ \A k \in 1..(n + 1) : k # n + 1 => k \in 1..n
  BY <1>2, <1>3, OneMore
<1> HIDE DEF g
<1>5. /\ FramesOf' \in Seq(Count) /\ Len(FramesOf') = n + 1
      /\ \A k \in 1..(n + 1) :
           FramesOf'[k] \in Count /\ \A p \in Referent : FramesOf'[k][p] = InFrame(k, p)'
  BY <1>1 DEF StackFacts
<1>6. ASSUME NEW k \in 1..(n + 1) PROVE FramesOf'[k] = g[k]
  <2>1. CASE k = n + 1
    <3>1. \A p \in Referent : FramesOf'[k][p] = e[p]
      BY <1>1, <1>2, <1>3, <1>5, <2>1
    <3> QED
      BY <1>2, <1>4, <1>5, <2>1, <3>1 DEF Count
  <2>2. CASE k # n + 1
    <3>1. \A p \in Referent : FramesOf'[k][p] = FramesOf[k][p]
      BY <1>1, <1>3, <1>4, <1>5, <2>2
    <3>2. FramesOf[k] \in Count /\ g[k] = FramesOf[k]
      BY <1>3, <1>4, <2>2
    <3> QED
      BY <1>5, <3>1, <3>2 DEF Count
  <2> QED
    BY <2>1, <2>2
<1>7. FramesOf' = g
  BY <1>4, <1>5, <1>6, SeqEqual
<1> QED
  BY <1>7 DEF Refs!Stack!Push, FramesOf, e, g

LEMMA StackPops ==
  ASSUME RefsInv, StackFacts, StackFacts', Refs!PopFrame
  PROVE  Refs!Stack!Pop
<1> DEFINE n == Len(cookies)
           g == Libs!Front(FramesOf)
<1>1. /\ Len(cookies') = n - 1
      /\ \A k \in 1..(n - 1) : \A p : InFrame(k, p)' = InFrame(k, p)
  BY PopEffect DEF RefsInv
<1>2. /\ n \in Nat /\ FramesOf \in Seq(Count) /\ Len(FramesOf) = n /\ FramesOf # <<>>
      /\ \A k \in 1..n : FramesOf[k] \in Count /\ \A p \in Referent : FramesOf[k][p] = InFrame(k, p)
  BY DEF StackFacts
<1>3. /\ g \in Seq(Count) /\ Len(g) = n - 1
      /\ \A k \in 1..(n - 1) : k \in 1..n /\ g[k] = FramesOf[k]
  BY <1>2, FrontOf
<1> HIDE DEF g
<1>4. /\ FramesOf' \in Seq(Count) /\ Len(FramesOf') = n - 1
      /\ \A k \in 1..(n - 1) :
           FramesOf'[k] \in Count /\ \A p \in Referent : FramesOf'[k][p] = InFrame(k, p)'
  BY <1>1 DEF StackFacts
<1>5. ASSUME NEW k \in 1..(n - 1) PROVE FramesOf'[k] = g[k]
  <2>1. \A p \in Referent : FramesOf'[k][p] = FramesOf[k][p]
    BY <1>1, <1>2, <1>3, <1>4
  <2>2. FramesOf[k] \in Count /\ g[k] = FramesOf[k]
    BY <1>2, <1>3
  <2> QED
    BY <1>4, <2>1, <2>2 DEF Count
<1>6. FramesOf' = g
  BY <1>3, <1>4, <1>5, SeqEqual
<1>7. Len(FramesOf) > 1
  BY <1>2 DEF Refs!PopFrame
<1>8. FramesOf' = SubSeq(FramesOf, 1, Len(FramesOf) - 1)
  BY <1>6 DEF Libs!Front, g
<1> QED
  BY <1>7, <1>8 DEF Refs!Stack!Pop, Refs!Stack!Front, FramesOf

LEMMA StackKept ==
  ASSUME UNCHANGED refVars
  PROVE  FramesOf' = FramesOf
<1>1. slot' = slot /\ top' = top /\ cookies' = cookies
  BY DEF refVars
<1> QED
  BY <1>1 DEF FramesOf, Refs!Contents, Refs!FrameEnd

LEMMA StackKnown == RefsInv => StackFacts
BY StackIs DEF RefsInv

LEMMA StackSteps ==
  RefsInv /\ RefsInv' /\ (Refs!Next \/ UNCHANGED refVars) =>
    Refs!Stack!Next \/ FramesOf' = FramesOf
<1> SUFFICES ASSUME RefsInv, RefsInv', Refs!Next \/ UNCHANGED refVars
             PROVE  Refs!Stack!Next \/ FramesOf' = FramesOf
  OBVIOUS
<1>1. StackFacts /\ StackFacts'
  BY StackKnown, PTL
<1>2. CASE Refs!PushFrame \/ Refs!PopFrame
  BY <1>1, <1>2, StackPushes, StackPops DEF Refs!Stack!Next
<1>3. ASSUME NEW o \in Obj, Refs!Add(o) \/ Refs!SweepWeak(o) PROVE Refs!Stack!Next
  BY <1>1, <1>3, StackAdds, StackClears DEF Refs!Stack!Next
<1>4. ASSUME NEW o \in Obj, Refs!DeleteLocal(o) PROVE Refs!Stack!Next
  BY <1>1, <1>4, DeleteLocalKeeps, StackDeletes DEF Refs!Stack!Next
<1>5. ASSUME NEW r \in Refs!Ref, Refs!DeleteWeak(r) PROVE Refs!Stack!Next
  BY <1>1, <1>5, DeleteWeakKeeps, StackDeletes DEF Refs!Stack!Next
<1>6. CASE UNCHANGED refVars
  BY <1>6, StackKept
<1> QED
  BY <1>2, <1>3, <1>4, <1>5, <1>6 DEF Refs!Next

LEMMA StackStarts ==
  ASSUME Refs!Init
  PROVE  Refs!Stack!Init
<1> DEFINE n == Len(cookies)
           e == Refs!Stack!Empty
<1>1. StackFacts
  BY InitRefsInv, StackIs DEF RefsInv
<1>2. Len(cookies) = 1 /\ cookies[1].top = 0 /\ top = 0
  BY DEF Refs!Init
<1>3. e \in Count /\ \A p \in Referent : e[p] = 0
  BY DEF Refs!Stack!Empty, Count, Referent
<1> HIDE DEF e
<1>4. \A p \in Referent : InFrame(1, p) = 0
  <2>1. Refs!FrameEnd(1) = 0
    BY <1>2 DEF Refs!FrameEnd
  <2>2. \A p : Many(slot, p, 0, 0) = 0
    <3>1. \A p : \A i \in 0..(0 - 1) : slot[i].obj # p
      OBVIOUS
    <3> QED
      BY <3>1, NoPlaces
  <2> QED
    BY <1>2, <2>1, <2>2 DEF InFrame
<1>5. FramesOf[1] = e
  <2>1. FramesOf[1] \in Count /\ \A p \in Referent : FramesOf[1][p] = e[p]
    BY <1>1, <1>2, <1>3, <1>4 DEF StackFacts
  <2> QED
    BY <1>3, <2>1 DEF Count
<1>6. FramesOf = <<e>>
  <2>1. FramesOf \in Seq(Count) /\ <<e>> \in Seq(Count) /\ Len(FramesOf) = 1 /\ Len(<<e>>) = 1
        /\ <<e>>[1] = e
    BY <1>1, <1>2, <1>3 DEF StackFacts
  <2>2. \A k \in 1..Len(FramesOf) : FramesOf[k] = <<e>>[k]
    BY <1>5, <2>1
  <2> QED
    BY <2>1, <2>2, SeqEqual
<1> QED
  BY <1>6 DEF Refs!Stack!Init, FramesOf, e

-----------------------------------------------------------------------------
(* The services side by side.                                              *)

\* A step of the services is one of each of them, or leaves it alone.
LEMMA ServiceSteps ==
  ASSUME [ServiceNext]_all
  PROVE  /\ Jit!Next \/ UNCHANGED jitVars
         /\ Refs!Next \/ UNCHANGED refVars
         /\ Libs!Next \/ UNCHANGED libVars
BY DEF ServiceNext, all

LEMMA ServiceSpecIs == ServiceSpec => ServiceInit /\ [][ServiceNext]_all
BY PTL DEF ServiceSpec

\* The table, the threads and the compiler thread agree on which code cache is
\* the current one, whatever the threads, the traces and the sizes
\* (vm/compiler/Compiler.cpp).
THEOREM TranslationsAreKnown == ServiceSpec => []JitInv
<1>1. ServiceInit => JitInv
  BY InitJitInv DEF ServiceInit
<1>2. JitInv /\ [ServiceNext]_all => JitInv'
  BY JitStep, ServiceSteps
<1> QED
  BY <1>1, <1>2, ServiceSpecIs, PTL

\* No thread ever runs, returns to or finds code of a cache that was wiped,
\* although the compiler thread is not stopped with the world (resetCodeCache,
\* dvmCompilerAssembleLIR, compilerThreadStart).
THEOREM CodeIsAlwaysLive == ServiceSpec => []CodeIsLive
<1>1. JitInv => CodeIsLive
  BY DEF JitInv, CodeIsLive
<1> QED
  BY <1>1, TranslationsAreKnown, PTL

\* Every call of dvmLoadNativeCode under way knows its library: the calls of a
\* thread are the JNI_OnLoads of different libraries, and what a call goes by is
\* in the table, whatever the libraries load and however many entries one has
\* got (vm/Native.cpp).
THEOREM LoadsAreNested == ServiceSpec => []LibsInv
<1>1. ServiceInit => LibsInv
  BY InitLibsInv DEF ServiceInit
<1>2. LibsInv /\ [ServiceNext]_all => LibsInv'
  BY LibsStep, ServiceSteps
<1> QED
  BY <1>1, <1>2, ServiceSpecIs, PTL

\* Nobody is told outside of a JNI_OnLoad that a library is there before the
\* JNI_OnLoad of the entry it was told of has ended well (checkOnLoadResult).
THEOREM LoadedIsAlwaysReady == ServiceSpec => []LoadedIsReady
<1>1. LibsInv => LoadedIsReady
  BY DEF LibsInv, Ready, LoadedIsReady, Libs!LoadedIsReady
<1> QED
  BY <1>1, LoadsAreNested, PTL

\* The table of references is well formed in every state: each frame knows its
\* holes, and the serial number of a slot counts how often it was given out
\* (IndirectRefTable::add, remove).
THEOREM TableIsSound == ServiceSpec => []RefsInv
<1>1. ServiceInit => RefsInv
  BY InitRefsInv DEF ServiceInit
<1>2. RefsInv /\ [ServiceNext]_all => RefsInv'
  BY RefsStep, ServiceSteps
<1> QED
  BY <1>1, <1>2, ServiceSpecIs, PTL

\* A weak reference resolves to its object until it is deleted, or to the mark
\* once the object died, and a deleted one is refused, however large the table
\* and wherever the holes are (IndirectRefTable::get).
THEOREM WeakRefsAlwaysResolve == ServiceSpec => []WeakRefsResolve
<1>1. RefsInv => WeakRefsResolve
  <2> SUFFICES ASSUME RefsInv PROVE WeakRefsResolve
    OBVIOUS
  <2>1. kind \in {"local", "weak"}
    BY DEF RefsInv, TableTypes
  <2>2. CASE kind = "local"
    BY <2>2 DEF RefsInv, WeakRefsResolve, Refs!WeakRefsResolve
  <2>3. CASE kind = "weak"
    BY <2>3 DEF RefsInv, WeakInv, WeakRefsResolve, Refs!WeakRefsResolve, Refs!Get
  <2> QED
    BY <2>1, <2>2, <2>3
<1> QED
  BY <1>1, TableIsSound, PTL

\* The table, with its holes, its cookies and two ways to find a slot, is a
\* stack of frames of references: it implements RefStack, whatever the size of
\* the table and the number of frames (vm/IndirectRefTable.cpp).
THEOREM ReferencesAreAStack == ServiceSpec => IsRefStack
<1>1. ServiceInit => Refs!Stack!Init
  BY StackStarts DEF ServiceInit
<1>2. RefsInv /\ RefsInv' /\ [ServiceNext]_all => [Refs!Stack!Next]_FramesOf
  BY StackSteps, ServiceSteps
<1> QED
  BY <1>1, <1>2, TableIsSound, ServiceSpecIs, PTL
  DEF IsRefStack, Refs!IsRefStack, Refs!Stack!Spec, FramesOf
=============================================================================
