--------------------------- MODULE ConcurrentMark ---------------------------
(***************************************************************************)
(* Marking and sweeping of vm/alloc/MarkSweep.cpp against running mutators.*)
(* A collection is the body of dvmCollectGarbageInternal: pause A marks    *)
(* what is immune, the trace walks the mark bitmap with a finger, pause B  *)
(* rescans the dirty cards and the roots, treats references and swaps the  *)
(* bitmaps, and the sweep frees batch by batch.  Threads run between the   *)
(* pauses of a concurrent collection; how they are stopped is GcStop's.    *)
(* One object has one reference; the words of the bitmaps and the cards    *)
(* cover a fixed number of objects.                                        *)
(***************************************************************************)
EXTENDS ManagedHeap, FiniteSets

CONSTANTS
  WordSize,   \* objects to a word of a heap bitmap (HB_BITS_PER_WORD)
  CardSize,   \* objects to a card (GC_CARD_SIZE)
  Immune,     \* objects of the zygote heap, below the active one
  Layouts,    \* which kinds the places may hold
  Interned,   \* places whose data a system weak table may hold
  MaxRoots    \* bound: local variables in use at a time

ASSUME MarkAssumption ==
  /\ WordSize \in Nat \ {0} /\ CardSize \in Nat \ {0}
  /\ \E k \in 0..N : Immune = 1..k
  /\ Layouts \subseteq [Obj -> Kind]
  /\ Interned \subseteq Obj
  /\ MaxRoots \in Nat

VARIABLES
  live,      \* HeapSource.liveBits
  mark,      \* HeapSource.markBits, which is the mark context's bitmap
  dirty,     \* dirty cards
  phase,     \* where the collector is
  spec,      \* the GcSpec of the collection
  finger,    \* number of the first word not yet visited
  word,      \* marked objects of the visited word still to scan
  stack,     \* mark stack
  listed,    \* references on the soft, weak and finalizer lists
  doomed     \* history: garbage when the collection began

gcVars == <<live, mark, dirty, phase, spec, finger, word, stack, listed, doomed>>
vars == <<heapVars, gcVars>>

\* kGcForMallocSpec, kGcConcurrentSpec, kGcExplicitSpec, kGcBeforeOomSpec.
GcSpec ==
  { [partial |-> TRUE,  concurrent |-> FALSE, preserve |-> TRUE],
    [partial |-> TRUE,  concurrent |-> TRUE,  preserve |-> TRUE],
    [partial |-> FALSE, concurrent |-> TRUE,  preserve |-> TRUE],
    [partial |-> FALSE, concurrent |-> FALSE, preserve |-> FALSE] }

\* Between collections.
NoSpec == [partial |-> FALSE, concurrent |-> FALSE, preserve |-> TRUE]

Phase == {"idle", "walk", "rescan", "remark", "refs", "weaks", "sweep"}

WordOf(o) == (o - 1) \div WordSize
CardOf(o) == (o - 1) \div CardSize
Card == {CardOf(o) : o \in Obj}

\* The finger is above every word of the bitmap.
PastEnd == \A o \in Obj : WordOf(o) < finger

Finalizable(o) == kindOf[o] = "final"
Reference(o) == kindOf[o] \in {"weak", "soft", "final"}

Init ==
  /\ kindOf \in Layouts
  /\ used = Immune /\ live = Immune /\ roots = Immune
  /\ field = [o \in Obj |-> Null] /\ zombie = [o \in Obj |-> Null]
  /\ table = {} /\ mark = {} /\ dirty = {}
  /\ phase = "idle" /\ spec = NoSpec /\ finger = 0 /\ word = {}
  /\ stack = {} /\ listed = {} /\ doomed = {}

-----------------------------------------------------------------------------
(* The mutators.                                                           *)

\* No pause, and if the collection is not concurrent no collection.
WorldRuns ==
  \/ phase = "idle"
  \/ spec.concurrent /\ phase \in {"walk", "sweep"}

HasRoom == Cardinality({o \in roots : ~Finalizable(o)}) < MaxRoots

\* dvmHeapSourceAlloc: a free place of the active heap gets its live bit, and
\* no mark bit.
Alloc(o, v) ==
  /\ WorldRuns /\ HasRoom /\ o \notin Immune
  /\ IF v = Null THEN ~Finalizable(o) ELSE ~Finalizable(v)
  /\ New(o, v)
  /\ live' = live \cup {o}
  /\ dirty' = IF v = Null THEN dirty ELSE dirty \cup {CardOf(o)}
  /\ UNCHANGED <<mark, phase, spec, finger, word, stack, listed, doomed>>

\* Mutant: the card of the object stored, not of the one stored into.
StoreDirtiesValue(o, v) ==
  /\ WorldRuns /\ kindOf[o] = "data" /\ (v # Null => ~Finalizable(v))
  /\ Write(o, v)
  /\ dirty' = IF v = Null THEN dirty ELSE dirty \cup {CardOf(v)}
  /\ UNCHANGED <<live, mark, phase, spec, finger, word, stack, listed, doomed>>

\* dvmSetFieldObject: the store and its barrier, between two safe points.
Store(o, v) ==
  /\ WorldRuns /\ kindOf[o] = "data" /\ (v # Null => ~Finalizable(v))
  /\ Write(o, v)
  /\ dirty' = IF v = Null THEN dirty ELSE dirty \cup {CardOf(o)}
  /\ UNCHANGED <<live, mark, phase, spec, finger, word, stack, listed, doomed>>

\* Reference.clear().
ClearReferent(o) ==
  /\ WorldRuns /\ kindOf[o] \in {"weak", "soft"}
  /\ Write(o, Null)
  /\ UNCHANGED gcVars

\* A field, a referent (Reference.get) or a weak table is read: no barrier.
Load(v) ==
  /\ WorldRuns /\ HasRoom
  /\ v \in ({field[o] : o \in {p \in roots : ~Finalizable(p)}} \cup table) \ {Null}
  /\ Read(v)
  /\ UNCHANGED gcVars

\* A local variable dies.  FinalizerReference keeps its instances in a list.
Drop(o) ==
  /\ WorldRuns /\ ~Finalizable(o)
  /\ Forget(o)
  /\ UNCHANGED gcVars

\* String.intern, NewWeakGlobalRef.
Intern(o) ==
  /\ WorldRuns /\ o \in Interned /\ kindOf[o] = "data"
  /\ Register(o)
  /\ UNCHANGED gcVars

\* The finalizer thread takes a reference off its queue and drops it.
RunFinalizer(r) ==
  /\ WorldRuns
  /\ Finalize(r)
  /\ UNCHANGED gcVars

-----------------------------------------------------------------------------
(* Marking.                                                                *)

\* What a collection that begins now may not keep: what cannot be reached
\* even through referents.
GarbageNow(sp) ==
  LET from == roots \cup table \cup (IF sp.partial THEN Immune ELSE {})
  IN  {o \in used : \E c \in SUBSET (Obj \ {o}) : from \subseteq c /\ Referred(c) \subseteq c}

\* Pause A: dvmHeapBeginMarkStep, dvmHeapMarkRootSet, and for a concurrent
\* collection dvmClearCardTable, which may leave some cards as they are.
BeginCollection(sp) ==
  /\ phase = "idle"
  /\ spec' = sp
  /\ mark' = IF sp.partial THEN live \cap Immune ELSE {}
  /\ IF sp.concurrent THEN dirty' \in {{}, dirty} ELSE dirty' = dirty
  /\ doomed' = GarbageNow(sp)
  /\ phase' = "walk" /\ finger' = 0 /\ word' = {}
  /\ UNCHANGED <<heapVars, live, stack, listed>>

\* delayReferenceReferent, against mark bits m.
Delayed(s, m) ==
  {o \in s : Reference(o) /\ field[o] # Null /\ field[o] \notin m}

\* dvmHeapBitmapScanWalk: the next word is read, and the finger passes it.
WalkWord ==
  /\ phase = "walk" /\ word = {} /\ ~PastEnd
  /\ word' = {o \in mark : WordOf(o) = finger}
  /\ finger' = finger + 1
  /\ UNCHANGED <<heapVars, live, mark, dirty, phase, spec, stack, listed, doomed>>

\* scanObject with markObject: children become marked, those below the finger
\* are pushed, and a reference with a white referent is put on its list.
ScanObject(o, m, st) ==
  /\ mark' = m \cup Strong(o)
  /\ stack' = st \cup {c \in Strong(o) \ m : WordOf(c) < finger}
  /\ listed' = listed \cup Delayed({o}, m \cup Strong(o))

\* scanBitmapCallback on the lowest object left of the word.
WalkObject ==
  /\ phase = "walk" /\ word # {}
  /\ \E o \in word :
       /\ \A p \in word : o <= p
       /\ ScanObject(o, mark, stack)
       /\ word' = word \ {o}
  /\ UNCHANGED <<heapVars, live, dirty, phase, spec, finger, doomed>>

\* processMarkStack at the end of dvmHeapScanMarkedObjects.
PopMarkStack ==
  /\ phase = "walk" /\ word = {} /\ PastEnd /\ stack # {}
  /\ \E o \in stack : ScanObject(o, mark, stack \ {o})
  /\ UNCHANGED <<heapVars, live, dirty, phase, spec, finger, word, doomed>>

\* The trace is over: pause B of a concurrent collection begins.
EndTrace ==
  /\ phase = "walk" /\ word = {} /\ PastEnd /\ stack = {}
  /\ phase' = IF spec.concurrent THEN "rescan" ELSE "remark"
  /\ UNCHANGED <<heapVars, live, mark, dirty, spec, finger, word, stack, listed, doomed>>

-----------------------------------------------------------------------------
(* The pause that ends marking: nothing interleaves, so a mark stack is    *)
(* processed at once.                                                      *)

\* What marking s and processing the stack adds to mark bits m.
Blackened(s, m) ==
  {o \in Obj \ m : \A c \in SUBSET (Obj \ m) :
     (s \subseteq c \cup m /\ Successors(c) \subseteq c \cup m) => o \in c}

MarkAndProcess(s, next) ==
  /\ mark' = mark \cup Blackened(s, mark)
  /\ listed' = listed \cup Delayed(Blackened(s, mark), mark')
  /\ phase' = next

\* dvmHeapReScanMarkedObjects: marked objects on dirty cards are scanned anew.
RescanDirtyCards ==
  /\ phase = "rescan"
  /\ LET gray == {o \in mark : CardOf(o) \in dirty}
         new == Blackened(Successors(gray), mark)
     IN  /\ mark' = mark \cup new
         /\ listed' = listed \cup Delayed(gray \cup new, mark')
  /\ phase' = "remark"
  /\ UNCHANGED <<heapVars, live, dirty, spec, finger, word, stack, doomed>>

\* dvmHeapReMarkRootSet: dvmVisitRoots, and the statics.
ReMarkRoots ==
  /\ phase = "remark"
  /\ MarkAndProcess(roots, "refs")
  /\ UNCHANGED <<heapVars, live, dirty, spec, finger, word, stack, doomed>>

White(s, m) == {o \in s : field[o] # Null /\ field[o] \notin m}

\* preserveSomeSoftReferences: of the white referents every other one found
\* is marked.
Preserved(p) ==
  LET white == {field[o] : o \in White({q \in listed : kindOf[q] = "soft"}, mark)}
  IN  IF spec.preserve
      THEN p \in SUBSET white /\ 2 * Cardinality(p) >= Cardinality(white)
      ELSE p = {}

\* Mutant: the lists are not cleared again after the finalizer references.
ProcessReferencesOnce ==
  /\ phase = "refs"
  /\ \E p \in SUBSET Obj :
       /\ Preserved(p)
       /\ LET saved == mark \cup Blackened(p, mark)
              l1 == listed \cup Delayed(saved \ mark, saved)
              clear == {o \in White(l1, saved) : ~Finalizable(o)}
              handed == {o \in White(l1, saved) : Finalizable(o)}
              final == saved \cup Blackened({field[o] : o \in handed}, saved)
          IN  /\ field' = [o \in Obj |-> IF o \in clear \cup handed
                                         THEN Null ELSE field[o]]
              /\ zombie' = [o \in Obj |-> IF o \in handed THEN field[o] ELSE zombie[o]]
              /\ mark' = final
  /\ listed' = {} /\ phase' = "weaks"
  /\ UNCHANGED <<kindOf, used, roots, table, live, dirty, spec, finger, word,
                 stack, doomed>>

\* dvmHeapProcessReferences: soft references are preserved or not, white
\* referents are cleared, finalizable ones marked and handed over, and what
\* was only reached from those is cleared in a second turn.
ProcessReferences ==
  /\ phase = "refs"
  /\ \E p \in SUBSET Obj :
       /\ Preserved(p)
       /\ LET saved == mark \cup Blackened(p, mark)
              l1 == listed \cup Delayed(saved \ mark, saved)
              clear1 == {o \in White(l1, saved) : ~Finalizable(o)}
              handed == {o \in White(l1, saved) : Finalizable(o)}
              final == saved \cup Blackened({field[o] : o \in handed}, saved)
              clear2 == {o \in Delayed(final \ saved, final) : ~Finalizable(o)}
          IN  /\ field' = [o \in Obj |-> IF o \in clear1 \cup handed \cup clear2
                                         THEN Null ELSE field[o]]
              /\ zombie' = [o \in Obj |-> IF o \in handed THEN field[o] ELSE zombie[o]]
              /\ mark' = final
  /\ listed' = {} /\ phase' = "weaks"
  /\ UNCHANGED <<kindOf, used, roots, table, live, dirty, spec, finger, word,
                 stack, doomed>>

\* dvmHeapSweepSystemWeaks, then dvmHeapSourceSwapBitmaps: the mark bits are
\* now the old live bits, and the threads of a concurrent collection go on.
SweepSystemWeaks ==
  /\ phase = "weaks"
  /\ table' = table \cap mark
  /\ live' = mark /\ mark' = live
  /\ phase' = "sweep" /\ finger' = 0
  /\ UNCHANGED <<kindOf, used, field, zombie, roots, dirty, spec, word, stack,
                 listed, doomed>>

-----------------------------------------------------------------------------
(* Sweeping.  "garbage" is what the two bitmaps tell: the sweep reads both *)
(* while threads allocate and set live bits.                               *)

\* Mutant: every collection sweeps the active heap only.
SweepActiveOnly == Obj \ Immune

SweepRegion == IF spec.partial THEN Obj \ Immune ELSE Obj

\* dvmHeapBitmapSweepWalk and sweepBitmapCallback on the next word: freed
\* under the heap lock, and countFree clears the live bits.
SweepWord ==
  /\ phase = "sweep" /\ ~PastEnd
  /\ LET garbage == {o \in (mark \ live) \cap SweepRegion : WordOf(o) = finger}
     IN  /\ used' = used \ garbage
         /\ live' = live \ garbage
         /\ doomed' = doomed \ garbage
  /\ finger' = finger + 1
  /\ UNCHANGED <<kindOf, field, zombie, roots, table, mark, dirty, phase, spec,
                 word, stack, listed>>

\* dvmHeapFinishMarkStep, and the end of the collection.
FinishCollection ==
  /\ phase = "sweep" /\ PastEnd
  /\ mark' = {} /\ finger' = 0 /\ phase' = "idle" /\ spec' = NoSpec /\ doomed' = {}
  /\ UNCHANGED <<heapVars, live, dirty, word, stack, listed>>

-----------------------------------------------------------------------------
Mutator ==
  \/ \E o \in Obj, v \in Ref : Alloc(o, v) \/ Store(o, v)
  \/ \E o \in Obj : ClearReferent(o) \/ Load(o) \/ Drop(o) \/ Intern(o) \/ RunFinalizer(o)

Collector ==
  \/ WalkWord \/ WalkObject \/ PopMarkStack \/ EndTrace
  \/ RescanDirtyCards \/ ReMarkRoots \/ ProcessReferences \/ SweepSystemWeaks
  \/ SweepWord \/ FinishCollection

Next == Mutator \/ Collector \/ \E sp \in GcSpec : BeginCollection(sp)

Spec == Init /\ [][Next]_vars

-----------------------------------------------------------------------------
(* Properties.                                                             *)

MarkTypeOK ==
  /\ kindOf \in [Obj -> Kind] /\ field \in [Obj -> Ref] /\ zombie \in [Obj -> Ref]
  /\ used \subseteq Obj /\ roots \subseteq Obj /\ table \subseteq Obj
  /\ live \subseteq Obj /\ mark \subseteq Obj /\ dirty \subseteq Card
  /\ phase \in Phase /\ spec \in GcSpec \cup {NoSpec} /\ finger \in Nat
  /\ word \subseteq Obj /\ stack \subseteq Obj /\ listed \subseteq Obj
  /\ doomed \subseteq Obj

\* The trace has scanned o.
Scanned(o) == WordOf(o) < finger /\ o \notin word \cup stack

\* What dvmVerifyCardTable aborts on: a marked object the trace is done with
\* that refers to a white one, while its card does not say that it was
\* written to since the threads run.
GrayOnDirtyCard ==
  phase \in {"walk", "rescan"} =>
    \A o \in mark : Scanned(o) =>
      Strong(o) \subseteq mark \/ (spec.concurrent /\ CardOf(o) \in dirty)

\* The two bitmaps say together which memory is taken, at every step of a
\* sweep that runs while threads allocate.
LiveBitsAreUsed ==
  used = IF phase = "sweep"
         THEN live \cup {o \in (mark \ live) \cap SweepRegion : WordOf(o) >= finger}
         ELSE live

\* Nothing a thread may follow leads to memory given back or about to be: not
\* a field, not a referent, not a zombie, not a weak table.
NoDanglingReference ==
  /\ roots \cup table \subseteq live
  /\ Referred(live) \subseteq live

\* A collection takes all that was garbage when it began.
GarbageFreed ==
  phase = "sweep" /\ PastEnd => doomed = {}

=============================================================================
