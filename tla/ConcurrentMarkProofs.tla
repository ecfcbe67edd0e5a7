------------------------ MODULE ConcurrentMarkProofs ------------------------
(***************************************************************************)
(* Proofs about ConcurrentMark for every heap: the tricolour invariant on  *)
(* dirty cards, the agreement of the bitmaps, that nothing dangles, that   *)
(* the collector implements ManagedHeap, and that garbage is freed.        *)
(***************************************************************************)
EXTENDS ConcurrentMark, TLAPS

\* Between pause A and the swap of the bitmaps.
Marking == phase \in {"walk", "rescan", "remark", "refs", "weaks"}

\* Only finalizer references have zombies, and such a reference has given up
\* its referent; it is in the list of the library as long as it has one.
HeapShape ==
  /\ \A o \in Obj : zombie[o] # Null => Finalizable(o) /\ field[o] = Null
  /\ \A o \in Obj : kindOf[o] = "none" => field[o] = Null
  /\ \A o \in live : Finalizable(o) => o \in roots \/ field[o] = Null

\* Mark bits are live bits; the mark stack and the word read are marked.
MarkShape ==
  /\ Marking => mark \cup listed \subseteq live
  /\ \A o \in listed : Reference(o)
  /\ phase \in {"weaks", "sweep", "idle"} => listed = {}
  /\ Marking /\ spec.partial => live \cap Immune \subseteq mark
  /\ phase = "walk" => word \cup stack \subseteq mark
  /\ phase # "walk" => word \cup stack = {}
  /\ phase = "rescan" => PastEnd

WhiteReferent(o) == Reference(o) /\ field[o] # Null /\ field[o] \notin mark

\* A reference that was scanned while its referent was white is on a list.
ListedInv ==
  /\ phase \in {"walk", "rescan"} =>
       \A o \in mark : Scanned(o) /\ WhiteReferent(o) => o \in listed
  /\ phase \in {"remark", "refs"} =>
       \A o \in mark : WhiteReferent(o) => o \in listed

\* What the pause that ends marking has closed so far.
ClosedInv ==
  /\ phase \in {"remark", "refs"} => Successors(mark) \subseteq mark
  /\ phase \in {"refs", "weaks"} => roots \subseteq mark
  /\ phase = "weaks" => Referred(mark) \subseteq mark

IInv ==
  /\ MarkTypeOK /\ LiveBitsAreUsed /\ GrayOnDirtyCard /\ NoDanglingReference
  /\ HeapShape /\ MarkShape /\ ListedInv /\ ClosedInv

-----------------------------------------------------------------------------
(* Facts about the operators.                                              *)

\* The strong references of an object are objects.
LEMMA StrongType ==
  ASSUME MarkTypeOK, NEW o \in Obj
  PROVE  Strong(o) \subseteq Obj
  BY DEF MarkTypeOK, Strong, Obj, Ref, Null

\* A set is closed under Successors when it has what each member refers to.
LEMMA SuccessorsIn ==
  ASSUME NEW c, NEW d
  PROVE  Successors(c) \subseteq d <=> \A o \in c : Strong(o) \subseteq d
  BY DEF Successors

LEMMA ReferredIn ==
  ASSUME NEW c, NEW d
  PROVE  Referred(c) \subseteq d
           <=> \A o \in c : (field[o] # Null => field[o] \in d)
                            /\ (zombie[o] # Null => zombie[o] \in d)
  BY DEF Referred

\* Strong references are references.
LEMMA StrongReferred ==
  ASSUME NEW c, NEW d, Referred(c) \subseteq d
  PROVE  Successors(c) \subseteq d
  <1>1. \A o \in c : Strong(o) \subseteq d BY ReferredIn DEF Strong
  <1> QED BY <1>1, SuccessorsIn

\* processMarkStack leaves nothing grey, and marks nothing it need not.
LEMMA BlackenedClosed ==
  ASSUME MarkTypeOK, NEW s \in SUBSET Obj, NEW m \in SUBSET Obj
  PROVE  /\ Blackened(s, m) \subseteq Obj \ m
         /\ s \subseteq m \cup Blackened(s, m)
         /\ Successors(Blackened(s, m)) \subseteq m \cup Blackened(s, m)
  <1> DEFINE b == Blackened(s, m)
             Closed(c) == s \subseteq c \cup m /\ Successors(c) \subseteq c \cup m
  <1>1. b = {o \in Obj \ m : \A c \in SUBSET (Obj \ m) : Closed(c) => o \in c}
    BY DEF Blackened
  <1>2. b \subseteq Obj \ m BY <1>1
  <1>3. s \subseteq m \cup b BY <1>1
  <1>4. ASSUME NEW o \in b PROVE Strong(o) \subseteq m \cup b
    <2>1. SUFFICES ASSUME NEW x \in Strong(o), x \notin m PROVE x \in b OBVIOUS
    <2>2. x \in Obj \ m BY <2>1, <1>2, <1>4, StrongType
    <2>3. ASSUME NEW c \in SUBSET (Obj \ m), Closed(c) PROVE x \in c
      <3>1. o \in c BY <1>1, <1>4, <2>3
      <3>2. Strong(o) \subseteq c \cup m BY <3>1, <2>3, SuccessorsIn
      <3> QED BY <3>2, <2>1
    <2> QED BY <1>1, <2>2, <2>3
  <1>5. \A o \in b : Strong(o) \subseteq m \cup b BY <1>4
  <1>6. Successors(b) \subseteq m \cup b
    <2> HIDE DEF b
    <2> QED BY <1>5, SuccessorsIn
  <1>7. QED BY <1>6, <1>2, <1>3, <1>5

LEMMA BlackenedLeast ==
  ASSUME NEW s, NEW m, NEW c \in SUBSET Obj,
         s \subseteq c \cup m, Successors(c) \subseteq c
  PROVE  Blackened(s, m) \subseteq c
  <1>1. c \ m \in SUBSET (Obj \ m) OBVIOUS
  <1>2. s \subseteq (c \ m) \cup m OBVIOUS
  <1>3. Successors(c \ m) \subseteq (c \ m) \cup m
    <2>1. \A o \in c : Strong(o) \subseteq c BY SuccessorsIn
    <2>2. \A o \in c \ m : Strong(o) \subseteq (c \ m) \cup m BY <2>1
    <2> QED BY <2>2, SuccessorsIn
  <1> QED BY <1>1, <1>2, <1>3 DEF Blackened

\* A closed set with the roots has all that is strongly reachable.
LEMMA StronglyIn ==
  ASSUME NEW c \in SUBSET Obj, roots \subseteq c, Successors(c) \subseteq c
  PROVE  Strongly \subseteq c
  BY DEF Strongly, ReachFrom

-----------------------------------------------------------------------------
LEMMA InitInv == Init => IInv
  <1> SUFFICES ASSUME Init PROVE IInv OBVIOUS
  <1>1. Immune \subseteq Obj BY MarkAssumption, NAssumption DEF Obj
  <1>2. kindOf \in [Obj -> Kind] BY MarkAssumption DEF Init
  <1>3. MarkTypeOK
    BY <1>1, <1>2, NAssumption DEF Init, MarkTypeOK, Ref, Null, Phase
  <1>4. NoDanglingReference BY <1>1 DEF Init, NoDanglingReference, Referred
  <1> QED BY <1>1, <1>3, <1>4
       DEF Init, IInv, LiveBitsAreUsed, GrayOnDirtyCard, HeapShape, MarkShape,
           ListedInv, ClosedInv, Marking

-----------------------------------------------------------------------------
(* Mutators: they leave the mark bits and everything of the collector      *)
(* alone, so that each conjunct is about the object that is touched.       *)

LEMMA AllocInv ==
  ASSUME IInv, NEW o \in Obj, NEW v \in Ref, Alloc(o, v)
  PROVE  IInv'
  <1> USE DEF Alloc, New, IInv
  <1>1. MarkTypeOK'
    BY NAssumption DEF MarkTypeOK, Card, Ref, Null
  <1>2. o \notin used /\ live' = live \cup {o} /\ used' = used \cup {o} OBVIOUS
  <1>3. LiveBitsAreUsed' BY DEF LiveBitsAreUsed, SweepRegion
  <1>4. live \subseteq used BY DEF LiveBitsAreUsed
  <1>5. \A p \in live : p # o BY <1>2, <1>4
  <1>6. \A p \in Obj : p # o => field'[p] = field[p] /\ zombie'[p] = zombie[p]
    BY DEF MarkTypeOK
  <1>7. field'[o] = v /\ zombie'[o] = Null BY DEF MarkTypeOK
  <1>8. live \subseteq Obj BY DEF MarkTypeOK
  <1>9. v # Null => v \in live BY DEF NoDanglingReference
  <1>10. NoDanglingReference'
    <2>1. \A p \in live : (field[p] # Null => field[p] \in live)
                         /\ (zombie[p] # Null => zombie[p] \in live)
      BY ReferredIn DEF NoDanglingReference
    <2>2. \A p \in live' : (field'[p] # Null => field'[p] \in live')
                          /\ (zombie'[p] # Null => zombie'[p] \in live')
      BY <2>1, <1>2, <1>5, <1>6, <1>7, <1>8, <1>9
    <2> QED BY <2>2 DEF NoDanglingReference, Referred
  <1>11. HeapShape'
    BY <1>2, <1>5, <1>6, <1>7, <1>8 DEF HeapShape, Finalizable
  <1>12. MarkShape' BY DEF MarkShape, Marking, PastEnd, Reference
  <1>13. Marking => mark \subseteq live BY DEF MarkShape
  <1>14. Marking => \A p \in mark : p # o /\ p \in Obj BY <1>13, <1>5, <1>8
  <1>15. Marking => \A p \in mark : Strong(p)' = Strong(p)
    BY <1>6, <1>14 DEF Strong
  <1>16. GrayOnDirtyCard'
    BY <1>15 DEF GrayOnDirtyCard, Scanned, Marking
  <1>17. ListedInv'
    BY <1>14, <1>6 DEF ListedInv, Scanned, WhiteReferent, Reference, Marking
  <1>18. ClosedInv'
    BY DEF ClosedInv, WorldRuns
  <1> QED BY <1>1, <1>3, <1>10, <1>11, <1>12, <1>16, <1>17, <1>18

LEMMA WriteInv ==
  ASSUME IInv, NEW o \in Obj, NEW v \in Ref, Store(o, v) \/ (ClearReferent(o) /\ v = Null)
  PROVE  IInv'
  <1>1. /\ Write(o, v) /\ WorldRuns
        /\ UNCHANGED <<live, mark, phase, spec, finger, word, stack, listed, doomed>>
        /\ dirty' = IF v = Null THEN dirty ELSE dirty \cup {CardOf(o)}
    BY DEF Store, ClearReferent, gcVars
  <1>2. ~Finalizable(o) /\ kindOf[o] # "none" /\ (v # Null => kindOf[o] = "data")
    BY DEF Store, ClearReferent, Finalizable, Write
  <1> USE <1>1 DEF Write, IInv
  <1>3. MarkTypeOK' BY DEF MarkTypeOK, Card
  <1>4. \A p \in Obj : p # o => field'[p] = field[p] BY DEF MarkTypeOK
  <1>5. field'[o] = v BY DEF MarkTypeOK
  <1>6. live \subseteq Obj /\ mark \subseteq Obj BY DEF MarkTypeOK
  <1>7. LiveBitsAreUsed' BY DEF LiveBitsAreUsed, SweepRegion
  <1>8. NoDanglingReference'
    <2>1. v # Null => v \in live BY DEF NoDanglingReference
    <2>2. \A p \in live : (field[p] # Null => field[p] \in live)
                         /\ (zombie[p] # Null => zombie[p] \in live)
      BY ReferredIn DEF NoDanglingReference
    <2>3. \A p \in live' : (field'[p] # Null => field'[p] \in live')
                          /\ (zombie'[p] # Null => zombie'[p] \in live')
      BY <2>1, <2>2, <1>4, <1>5, <1>6
    <2> QED BY <2>3 DEF NoDanglingReference, Referred
  <1>9. HeapShape' BY <1>2, <1>4, <1>5, <1>6 DEF HeapShape, Finalizable
  <1>10. MarkShape' BY DEF MarkShape, Marking, PastEnd, Reference
  <1>11. \A p \in mark : p # o => Strong(p)' = Strong(p)
    BY <1>4, <1>6 DEF Strong
  <1>12. v # Null => CardOf(o) \in dirty' /\ (phase = "walk" => spec.concurrent)
    BY DEF WorldRuns
  <1>13. v = Null => Strong(o)' \subseteq Strong(o)
    BY <1>5 DEF Strong
  <1>14. GrayOnDirtyCard'
    BY <1>11, <1>12, <1>13 DEF GrayOnDirtyCard, Scanned, WorldRuns
  <1>15. \A p \in mark : WhiteReferent(p)' => WhiteReferent(p)
    BY <1>2, <1>4, <1>5, <1>6 DEF WhiteReferent, Reference
  <1>16. ListedInv' BY <1>15 DEF ListedInv, Scanned
  <1>17. ClosedInv' BY DEF ClosedInv, WorldRuns
  <1> QED BY <1>3, <1>7, <1>8, <1>9, <1>10, <1>14, <1>16, <1>17

\* Roots and tables change, the heap does not.
LEMMA RootsInv ==
  ASSUME IInv, NEW o \in Obj, Load(o) \/ Drop(o) \/ Intern(o)
  PROVE  IInv'
  <1> USE DEF IInv
  <1>1. /\ WorldRuns /\ UNCHANGED gcVars
        /\ UNCHANGED <<kindOf, used, field, zombie>>
        /\ roots' \subseteq roots \cup {o} /\ table' \subseteq table \cup {o}
        /\ o \in Referred(roots) \cup table \cup roots
        /\ \A r \in roots : Finalizable(r) => r \in roots'
    BY DEF Load, Drop, Intern, Read, Forget, Register
  <1>2. o \in live
    BY <1>1, ReferredIn DEF NoDanglingReference, Referred
  <1>3. NoDanglingReference'
    BY <1>1, <1>2 DEF NoDanglingReference, Referred, gcVars
  <1>4. HeapShape' BY <1>1 DEF HeapShape, Finalizable, gcVars
  <1>5. /\ LiveBitsAreUsed' /\ GrayOnDirtyCard' /\ MarkShape' /\ ListedInv'
    BY <1>1 DEF LiveBitsAreUsed, SweepRegion, GrayOnDirtyCard, Scanned, Strong,
       MarkShape, Marking, PastEnd, ListedInv, WhiteReferent, Reference, gcVars
  <1>6. MarkTypeOK' BY <1>1 DEF MarkTypeOK, gcVars
  <1>7. ClosedInv' BY <1>1 DEF ClosedInv, WorldRuns, gcVars
  <1> QED BY <1>3, <1>4, <1>5, <1>6, <1>7

LEMMA RunFinalizerInv ==
  ASSUME IInv, NEW o \in Obj, RunFinalizer(o)
  PROVE  IInv'
  <1> USE DEF IInv, RunFinalizer, Finalize, gcVars
  <1>1. o \in roots /\ o \in live /\ zombie[o] # Null /\ field[o] = Null
    BY DEF NoDanglingReference, HeapShape, MarkTypeOK
  <1>2. zombie[o] \in live BY <1>1, ReferredIn DEF NoDanglingReference
  <1>3. MarkTypeOK' BY <1>1, <1>2 DEF MarkTypeOK, Ref, Obj, Null
  <1>4. /\ zombie'[o] = Null
        /\ \A p \in Obj : p # o => zombie'[p] = zombie[p]
    BY DEF MarkTypeOK
  <1>5. \A p \in Obj : Strong(p)' \subseteq Strong(p)
    BY <1>4 DEF Strong
  <1>6. live \subseteq Obj /\ mark \subseteq Obj BY DEF MarkTypeOK
  <1>7. NoDanglingReference'
    <2>1. \A p \in live : (field[p] # Null => field[p] \in live)
                         /\ (zombie[p] # Null => zombie[p] \in live)
      BY ReferredIn DEF NoDanglingReference
    <2>2. \A p \in live' : (field'[p] # Null => field'[p] \in live')
                          /\ (zombie'[p] # Null => zombie'[p] \in live')
      BY <2>1, <1>4, <1>6
    <2> QED BY <2>2, <1>2 DEF NoDanglingReference, Referred
  <1>8. HeapShape' BY <1>1, <1>4, <1>6 DEF HeapShape, Finalizable
  <1>9. GrayOnDirtyCard' BY <1>5, <1>6 DEF GrayOnDirtyCard, Scanned
  <1>10. LiveBitsAreUsed' /\ MarkShape' /\ ListedInv'
    BY DEF LiveBitsAreUsed, SweepRegion, MarkShape, Marking, PastEnd, ListedInv,
       WhiteReferent, Reference, Scanned
  <1>11. ClosedInv' BY DEF ClosedInv, WorldRuns
  <1> QED BY <1>3, <1>7, <1>8, <1>9, <1>10, <1>11

-----------------------------------------------------------------------------
(* The trace.                                                              *)

LEMMA BeginInv ==
  ASSUME IInv, NEW sp \in GcSpec, BeginCollection(sp)
  PROVE  IInv'
  <1> USE DEF IInv, BeginCollection, heapVars
  <1>1. phase = "idle" /\ phase' = "walk" OBVIOUS
  <1>2. MarkTypeOK'
    BY DEF MarkTypeOK, Phase, GarbageNow, Card
  <1>3. LiveBitsAreUsed' BY DEF LiveBitsAreUsed
  <1>4. \A o \in Obj : WordOf(o) \in Nat BY MarkAssumption DEF Obj, WordOf
  <1>5. \A o \in mark' : ~(WordOf(o) < finger')
    BY <1>2, <1>4 DEF MarkTypeOK
  <1>6. GrayOnDirtyCard' /\ ListedInv'
    BY <1>5 DEF GrayOnDirtyCard, ListedInv, Scanned
  <1>7. NoDanglingReference' /\ HeapShape'
    BY DEF NoDanglingReference, Referred, HeapShape, Finalizable
  <1>8. stack = {} /\ word = {} BY DEF MarkShape
  <1>9. listed \subseteq live BY DEF MarkShape
  <1>10. MarkShape' BY <1>8, <1>9 DEF MarkShape, Marking, Reference
  <1>11. ClosedInv' BY DEF ClosedInv
  <1> QED BY <1>2, <1>3, <1>6, <1>7, <1>10, <1>11

LEMMA WalkWordInv == ASSUME IInv, WalkWord PROVE IInv'
  <1> USE DEF IInv, WalkWord, heapVars
  <1>1. MarkTypeOK' BY DEF MarkTypeOK
  <1>2. \A o \in Obj : WordOf(o) \in Nat BY MarkAssumption DEF Obj, WordOf
  <1>3. finger' = finger + 1 /\ finger \in Nat BY DEF MarkTypeOK
  <1>4. \A o \in Obj : WordOf(o) < finger' => WordOf(o) < finger \/ WordOf(o) = finger
    BY <1>2, <1>3
  <1>5. \A o \in mark : Scanned(o)' => Scanned(o)
    BY <1>4 DEF MarkTypeOK, Scanned
  <1>6. GrayOnDirtyCard' BY <1>5 DEF GrayOnDirtyCard, Strong
  <1>7. ListedInv' BY <1>5 DEF ListedInv, WhiteReferent, Reference
  <1>8. NoDanglingReference' /\ HeapShape' /\ LiveBitsAreUsed'
    BY DEF NoDanglingReference, Referred, HeapShape, Finalizable, LiveBitsAreUsed
  <1>9. MarkShape' /\ ClosedInv'
    BY DEF MarkShape, ClosedInv, Marking, Reference
  <1> QED BY <1>1, <1>6, <1>7, <1>8, <1>9

\* Scanning one marked object keeps the invariant: its children are marked,
\* and those the walk has passed are pushed.
LEMMA ScanInv ==
  ASSUME IInv, phase = "walk", NEW o \in mark, NEW st \in SUBSET stack,
         ScanObject(o, mark, st), word' \in SUBSET word,
         word \cup stack \subseteq word' \cup st \cup {o},
         UNCHANGED <<heapVars, live, dirty, phase, spec, finger, doomed>>
  PROVE  IInv'
  <1> USE DEF IInv, ScanObject, heapVars
  <1>1. mark \subseteq live /\ mark \subseteq Obj /\ live \subseteq Obj
    BY DEF MarkShape, Marking, MarkTypeOK
  <1>2. Successors(live) \subseteq live BY StrongReferred DEF NoDanglingReference
  <1>3. Strong(o) \subseteq live BY <1>1, <1>2, SuccessorsIn
  <1>4. mark' \subseteq live /\ mark \cup Strong(o) = mark' BY <1>1, <1>3
  <1>5. MarkTypeOK' BY <1>1, <1>4 DEF MarkTypeOK, Delayed
  <1>6. \A p : Strong(p)' = Strong(p) BY DEF Strong
  <1>7. word' \cup stack' \subseteq mark' BY <1>4 DEF MarkShape
  <1>8. \A p \in mark' : Scanned(p)' => p = o \/ (p \in mark /\ Scanned(p))
    BY DEF Scanned
  <1>9. GrayOnDirtyCard' BY <1>4, <1>6, <1>8 DEF GrayOnDirtyCard
  <1>10. Delayed({o}, mark') \subseteq listed' BY <1>4
  <1>11. ListedInv'
    <2>1. ASSUME NEW p \in mark', Scanned(p)', WhiteReferent(p)' PROVE p \in listed'
      <3>1. CASE p = o
        BY <2>1, <3>1, <1>10 DEF WhiteReferent, Delayed, Reference
      <3>2. CASE p \in mark /\ Scanned(p)
        BY <2>1, <3>2, <1>4 DEF WhiteReferent, Reference, ListedInv
      <3> QED BY <2>1, <1>8, <3>1, <3>2
    <2> QED BY <2>1 DEF ListedInv
  <1>12. NoDanglingReference' /\ HeapShape' /\ LiveBitsAreUsed'
    BY DEF NoDanglingReference, Referred, HeapShape, Finalizable, LiveBitsAreUsed
  <1>13. \A p \in listed' : p \in live /\ Reference(p)
    BY <1>1 DEF MarkShape, Marking, Delayed, Reference
  <1>14. MarkShape'
    BY <1>4, <1>7, <1>13 DEF MarkShape, Marking, Reference
  <1>15. ClosedInv' BY DEF ClosedInv
  <1> QED BY <1>5, <1>9, <1>11, <1>12, <1>14, <1>15

LEMMA WalkObjectInv == ASSUME IInv, WalkObject PROVE IInv'
  <1>1. PICK o \in word : ScanObject(o, mark, stack) /\ word' = word \ {o}
    BY DEF WalkObject
  <1>2. o \in mark BY DEF WalkObject, IInv, MarkShape
  <1> QED BY <1>1, <1>2, ScanInv DEF WalkObject

LEMMA PopInv == ASSUME IInv, PopMarkStack PROVE IInv'
  <1>1. PICK o \in stack : ScanObject(o, mark, stack \ {o}) BY DEF PopMarkStack
  <1>2. o \in mark BY DEF PopMarkStack, IInv, MarkShape
  <1> QED BY <1>1, <1>2, ScanInv DEF PopMarkStack

LEMMA EndTraceInv == ASSUME IInv, EndTrace PROVE IInv'
  <1> USE DEF IInv, EndTrace, heapVars
  <1>1. MarkTypeOK' BY DEF MarkTypeOK, Phase
  <1>2. mark \subseteq Obj BY DEF MarkTypeOK
  <1>3. \A o \in mark : Scanned(o) BY <1>2 DEF PastEnd, Scanned
  <1>4. ~spec.concurrent => \A o \in mark : Strong(o) \subseteq mark
    BY <1>3 DEF GrayOnDirtyCard
  <1>5. ~spec.concurrent => Successors(mark) \subseteq mark BY <1>4, SuccessorsIn
  <1>6. Successors(mark)' = Successors(mark) BY DEF Successors, Strong
  <1>7. ClosedInv' BY <1>5, <1>6 DEF ClosedInv
  <1>8. ListedInv' BY <1>3 DEF ListedInv, Scanned, WhiteReferent, Reference
  <1>9. GrayOnDirtyCard' BY DEF GrayOnDirtyCard, Scanned, Strong
  <1>10. NoDanglingReference' /\ HeapShape' /\ LiveBitsAreUsed'
    BY DEF NoDanglingReference, Referred, HeapShape, Finalizable, LiveBitsAreUsed
  <1>11. MarkShape' BY DEF MarkShape, Marking, Reference, PastEnd
  <1> QED BY <1>1, <1>7, <1>8, <1>9, <1>10, <1>11

-----------------------------------------------------------------------------
(* The pause that ends marking.                                            *)

\* Marking from a set of live objects stays within the live ones.
LEMMA BlackenedLive ==
  ASSUME IInv, NEW s \in SUBSET live, NEW m \in SUBSET live
  PROVE  Blackened(s, m) \subseteq live
  <1>1. live \in SUBSET Obj BY DEF IInv, MarkTypeOK
  <1>2. Successors(live) \subseteq live
    BY StrongReferred DEF IInv, NoDanglingReference
  <1> QED BY <1>1, <1>2, BlackenedLeast

LEMMA RescanInv == ASSUME IInv, RescanDirtyCards PROVE IInv'
  <1> DEFINE gray == {o \in mark : CardOf(o) \in dirty}
             new == Blackened(Successors(gray), mark)
  <1>1. /\ mark' = mark \cup new
        /\ listed' = listed \cup Delayed(gray \cup new, mark')
        /\ phase = "rescan" /\ phase' = "remark"
        /\ UNCHANGED <<heapVars, live, dirty, spec, finger, word, stack, doomed>>
    BY DEF RescanDirtyCards
  <1>2. MarkTypeOK /\ mark \subseteq live /\ mark \subseteq Obj /\ live \subseteq Obj
    BY <1>1 DEF IInv, MarkTypeOK, MarkShape, Marking
  <1>3. Successors(live) \subseteq live
    BY StrongReferred DEF IInv, NoDanglingReference
  <1>4. Successors(gray) \subseteq live
    <2>1. \A o \in live : Strong(o) \subseteq live BY <1>3, SuccessorsIn
    <2>2. \A o \in gray : Strong(o) \subseteq live BY <2>1, <1>2
    <2> HIDE DEF gray
    <2> QED BY <2>2, SuccessorsIn
  <1>5. /\ new \subseteq live \ mark
        /\ Successors(gray) \subseteq mark \cup new
        /\ Successors(new) \subseteq mark \cup new
    <2> HIDE DEF gray
    <2>1. new \subseteq live BY <1>2, <1>4, BlackenedLive
    <2>2. Successors(gray) \in SUBSET Obj BY <1>2, <1>4
    <2> QED BY <1>2, <2>1, <2>2, BlackenedClosed
  <1>6. \A o \in mark : Scanned(o)
    BY <1>1, <1>2 DEF IInv, MarkShape, PastEnd, Scanned
  <1>7. \A o \in mark \ gray : Strong(o) \subseteq mark
    BY <1>1, <1>6 DEF IInv, GrayOnDirtyCard
  <1> HIDE DEF gray, new
  <1>8. \A o \in gray \cup new : Strong(o) \subseteq mark \cup new
    BY <1>5, SuccessorsIn
  <1>9. \A o \in mark' : Strong(o) \subseteq mark' BY <1>1, <1>7, <1>8
  <1>10. Successors(mark') \subseteq mark' BY <1>9, SuccessorsIn
  <1>11. Successors(mark)' = Successors(mark')
    BY <1>1 DEF Successors, Strong, heapVars
  <1>12. ClosedInv' BY <1>1, <1>10, <1>11 DEF ClosedInv
  <1>13. \A o \in listed' : o \in live /\ Reference(o)
    BY <1>1, <1>2, <1>5 DEF IInv, MarkShape, Marking, Delayed, gray
  <1>14. ListedInv'
    <2>1. ASSUME NEW o \in mark', WhiteReferent(o)' PROVE o \in listed'
      <3>1. Reference(o) /\ field[o] # Null /\ field[o] \notin mark' /\ WhiteReferent(o)
        BY <2>1, <1>1 DEF WhiteReferent, Reference, heapVars
      <3>2. CASE o \in new BY <3>1, <3>2, <1>1 DEF Delayed
      <3>3. CASE o \in mark BY <3>1, <3>3, <1>1, <1>6 DEF IInv, ListedInv
      <3> QED BY <2>1, <3>2, <3>3, <1>1
    <2> QED BY <2>1, <1>1 DEF ListedInv
  <1>15. MarkTypeOK'
    BY <1>1, <1>2, <1>5, <1>13 DEF MarkTypeOK, heapVars, Phase
  <1>16. /\ NoDanglingReference' /\ HeapShape' /\ LiveBitsAreUsed'
         /\ GrayOnDirtyCard'
    BY <1>1 DEF IInv, NoDanglingReference, Referred, HeapShape, Finalizable,
       LiveBitsAreUsed, GrayOnDirtyCard, heapVars
  <1>17. MarkShape'
    BY <1>1, <1>2, <1>5, <1>13 DEF IInv, MarkShape, Marking, Reference, heapVars
  <1> QED BY <1>12, <1>14, <1>15, <1>16, <1>17 DEF IInv

LEMMA ReMarkInv == ASSUME IInv, ReMarkRoots PROVE IInv'
  <1> DEFINE new == Blackened(roots, mark)
  <1>1. /\ mark' = mark \cup new
        /\ listed' = listed \cup Delayed(new, mark')
        /\ phase = "remark" /\ phase' = "refs"
        /\ UNCHANGED <<heapVars, live, dirty, spec, finger, word, stack, doomed>>
    BY DEF ReMarkRoots, MarkAndProcess
  <1>2. /\ MarkTypeOK /\ mark \subseteq live /\ mark \subseteq Obj
        /\ live \subseteq Obj /\ roots \subseteq live
    BY <1>1 DEF IInv, MarkTypeOK, MarkShape, Marking, NoDanglingReference
  <1>3. /\ new \subseteq live \ mark
        /\ roots \subseteq mark \cup new
        /\ Successors(new) \subseteq mark \cup new
    <2>1. new \subseteq live BY <1>2, BlackenedLive
    <2>2. roots \in SUBSET Obj BY <1>2
    <2> QED BY <1>2, <2>1, <2>2, BlackenedClosed
  <1> HIDE DEF new
  <1>4. \A o \in mark' : Strong(o) \subseteq mark'
    BY <1>1, <1>3, SuccessorsIn DEF IInv, ClosedInv
  <1>5. Successors(mark') \subseteq mark' BY <1>4, SuccessorsIn
  <1>6. Successors(mark)' = Successors(mark')
    BY <1>1 DEF Successors, Strong, heapVars
  <1>7. ClosedInv' BY <1>1, <1>3, <1>5, <1>6 DEF ClosedInv, heapVars
  <1>8. \A o \in listed' : o \in live /\ Reference(o)
    BY <1>1, <1>2, <1>3 DEF IInv, MarkShape, Marking, Delayed
  <1>9. ListedInv'
    <2>1. ASSUME NEW o \in mark', WhiteReferent(o)' PROVE o \in listed'
      <3>1. Reference(o) /\ field[o] # Null /\ field[o] \notin mark' /\ WhiteReferent(o)
        BY <2>1, <1>1 DEF WhiteReferent, Reference, heapVars
      <3>2. CASE o \in new BY <3>1, <3>2, <1>1 DEF Delayed
      <3>3. CASE o \in mark BY <3>1, <3>3, <1>1 DEF IInv, ListedInv
      <3> QED BY <2>1, <3>2, <3>3, <1>1
    <2> QED BY <2>1, <1>1 DEF ListedInv
  <1>10. MarkTypeOK'
    BY <1>1, <1>2, <1>3, <1>8 DEF MarkTypeOK, heapVars, Phase
  <1>11. /\ NoDanglingReference' /\ HeapShape' /\ LiveBitsAreUsed'
         /\ GrayOnDirtyCard'
    BY <1>1 DEF IInv, NoDanglingReference, Referred, HeapShape, Finalizable,
       LiveBitsAreUsed, GrayOnDirtyCard, heapVars
  <1>12. MarkShape'
    BY <1>1, <1>2, <1>3, <1>8 DEF IInv, MarkShape, Marking, Reference, heapVars
  <1> QED BY <1>7, <1>9, <1>10, <1>11, <1>12 DEF IInv

\* What dvmHeapProcessReferences does, in terms of what it clears and hands
\* over: nothing strongly reachable, and everything that would dangle.
Processed(saved, cleared, handed) ==
  /\ mark \subseteq saved /\ saved \subseteq mark' /\ mark' \subseteq live
  /\ Successors(saved) \subseteq saved
  /\ \A o \in cleared : Reference(o) /\ ~Finalizable(o)
  /\ \A o \in handed : Finalizable(o)
  /\ \A o \in cleared \cup handed : field[o] # Null /\ field[o] \notin saved
  /\ \A o \in handed : field[o] \in mark'
  /\ \A o \in mark' : Strong(o) \subseteq mark'
  /\ \A o \in mark' : Reference(o) /\ field[o] # Null /\ field[o] \notin mark'
                       => o \in cleared \cup handed
  /\ field' = [o \in Obj |-> IF o \in cleared \cup handed THEN Null ELSE field[o]]
  /\ zombie' = [o \in Obj |-> IF o \in handed THEN field[o] ELSE zombie[o]]

LEMMA ProcessFacts ==
  ASSUME IInv, ProcessReferences
  PROVE  \E saved, cleared, handed \in SUBSET live : Processed(saved, cleared, handed)
  <1> USE DEF IInv
  <1>1. PICK p \in SUBSET Obj :
       /\ Preserved(p)
       /\ LET saved == mark \cup Blackened(p, mark)
              l1 == listed \cup Delayed(saved \ mark, saved)
              clear1 == {o \in White(l1, saved) : ~Finalizable(o)}
              handed == {o \in White(l1, saved) : Finalizable(o)}
              final == saved \cup Blackened({field[o] : o \in handed}, saved)
              clear2 == {o \in Delayed(final \ saved, final) : ~Finalizable(o)}
          IN  /\ field' = [o \in Obj |-> IF o \in clear1 \cup handed \cup clear2
                                         THEN Null ELSE field[o]]
              /\ zombie' = [o \in Obj |-> IF o \in handed THEN field[o] ELSE zombie[o]]
              /\ mark' = final
    BY DEF ProcessReferences
  <1> DEFINE saved == mark \cup Blackened(p, mark)
             l1 == listed \cup Delayed(saved \ mark, saved)
             clear1 == {o \in White(l1, saved) : ~Finalizable(o)}
             handed == {o \in White(l1, saved) : Finalizable(o)}
             given == {field[o] : o \in handed}
             final == saved \cup Blackened(given, saved)
             clear2 == {o \in Delayed(final \ saved, final) : ~Finalizable(o)}
             cleared == clear1 \cup clear2
  <1>2. /\ mark' = final
        /\ field' = [o \in Obj |-> IF o \in cleared \cup handed THEN Null ELSE field[o]]
        /\ zombie' = [o \in Obj |-> IF o \in handed THEN field[o] ELSE zombie[o]]
    BY <1>1
  <1>3. /\ phase = "refs" /\ MarkTypeOK /\ mark \subseteq live /\ mark \subseteq Obj
        /\ live \subseteq Obj /\ listed \subseteq live /\ roots \subseteq mark
        /\ Successors(mark) \subseteq mark
        /\ \A o \in listed : Reference(o)
    BY DEF ProcessReferences, MarkTypeOK, MarkShape, Marking, ClosedInv
  <1>4. \A o \in live : field[o] # Null => field[o] \in live
    BY ReferredIn DEF NoDanglingReference
  <1>5. p \subseteq live
    BY <1>1, <1>3, <1>4 DEF Preserved, White
  <1>6. /\ Blackened(p, mark) \subseteq live
        /\ Successors(Blackened(p, mark)) \subseteq saved
    BY <1>3, <1>5, BlackenedLive, BlackenedClosed
  <1>7. \A o \in mark : Strong(o) \subseteq mark BY <1>3, SuccessorsIn
  <1>8. \A o \in Blackened(p, mark) : Strong(o) \subseteq saved
    <2> HIDE DEF saved
    <2> QED BY <1>6, SuccessorsIn
  <1>9. mark \subseteq saved /\ saved \subseteq live BY <1>3, <1>6
  <1>10. \A o \in saved : Strong(o) \subseteq saved BY <1>7, <1>8
  <1> HIDE DEF saved
  <1>11. \A o \in l1 : o \in live /\ Reference(o) BY <1>3, <1>9 DEF Delayed
  <1> HIDE DEF l1
  <1>12. /\ clear1 \subseteq l1 /\ handed \subseteq l1
         /\ \A o \in handed : Finalizable(o)
         /\ \A o \in clear1 : ~Finalizable(o)
         /\ \A o \in clear1 \cup handed : field[o] # Null /\ field[o] \notin saved
    BY DEF White
  <1>13. \A o \in l1 : field[o] # Null /\ field[o] \notin saved => o \in clear1 \cup handed
    BY DEF White
  <1> HIDE DEF clear1, handed
  <1>14. given \subseteq live /\ \A o \in handed : field[o] \in given
    BY <1>4, <1>11, <1>12
  <1> HIDE DEF given
  <1>15. /\ Blackened(given, saved) \subseteq live
         /\ Blackened(given, saved) \subseteq Obj \ saved
         /\ given \subseteq final
         /\ Successors(Blackened(given, saved)) \subseteq final
    <2>1. saved \in SUBSET Obj /\ given \in SUBSET Obj BY <1>3, <1>9, <1>14
    <2> QED BY <1>3, <1>9, <1>14, <2>1, BlackenedLive, BlackenedClosed
  <1>16. \A o \in Blackened(given, saved) : Strong(o) \subseteq final
    <2> HIDE DEF final
    <2> QED BY <1>15, SuccessorsIn
  <1>17. saved \subseteq final /\ final \subseteq live BY <1>9, <1>15
  <1>18. \A o \in final : Strong(o) \subseteq final BY <1>10, <1>16
  <1> HIDE DEF final
  <1>19. \A o \in final : Reference(o) /\ field[o] # Null /\ field[o] \notin final
           => o \in cleared \cup handed
    <2>1. SUFFICES ASSUME NEW o \in final, Reference(o), field[o] # Null,
                          field[o] \notin final
                   PROVE  o \in cleared \cup handed
      OBVIOUS
    <2>2. field[o] \notin saved /\ field[o] \notin mark BY <2>1, <1>9, <1>17
    <2>3. CASE o \in mark
      <3>1. o \in listed BY <2>1, <2>2, <2>3, <1>3 DEF ListedInv, WhiteReferent
      <3> QED BY <3>1, <2>1, <2>2, <1>13 DEF l1
    <2>4. CASE o \in saved \ mark
      <3>1. o \in l1 BY <2>1, <2>2, <2>4 DEF l1, Delayed
      <3> QED BY <3>1, <2>1, <2>2, <1>13
    <2>5. CASE o \in final \ saved
      <3>1. ~Finalizable(o)
        BY <2>1, <2>5, <1>3, <1>9, <1>17 DEF HeapShape
      <3> QED BY <3>1, <2>1, <2>5 DEF Delayed
    <2> QED BY <2>1, <2>3, <2>4, <2>5
  <1>20. \A o \in clear2 : /\ o \in live /\ Reference(o) /\ ~Finalizable(o)
                          /\ field[o] # Null /\ field[o] \notin saved
    BY <1>17 DEF Delayed
  <1>21. cleared \in SUBSET live /\ handed \in SUBSET live
         /\ saved \in SUBSET live
    BY <1>9, <1>11, <1>12, <1>20
  <1>22. Successors(saved) \subseteq saved BY <1>10, SuccessorsIn
  <1>23. \A o \in handed : field[o] \in final BY <1>14, <1>15
  <1>24. \A o \in cleared : Reference(o) /\ ~Finalizable(o)
    BY <1>11, <1>12, <1>20
  <1>25. \A o \in cleared \cup handed : field[o] # Null /\ field[o] \notin saved
    BY <1>12, <1>20
  <1> HIDE DEF cleared
  <1> USE <1>21
  <1> WITNESS saved \in SUBSET live, cleared \in SUBSET live, handed \in SUBSET live
  <1> QED
    BY <1>2, <1>9, <1>12, <1>17, <1>18, <1>19, <1>22, <1>23, <1>24, <1>25
       DEF Processed

LEMMA ProcessInv == ASSUME IInv, ProcessReferences PROVE IInv'
  <1> USE DEF IInv
  <1>0. PICK saved, cleared, handed \in SUBSET live : Processed(saved, cleared, handed)
    BY ProcessFacts
  <1>1. /\ mark \subseteq saved /\ saved \subseteq mark' /\ mark' \subseteq live
        /\ \A o \in handed : Finalizable(o) /\ field[o] \in mark'
        /\ \A o \in mark' : Strong(o) \subseteq mark'
        /\ \A o \in mark' : Reference(o) /\ field[o] # Null /\ field[o] \notin mark'
                             => o \in cleared \cup handed
        /\ field' = [o \in Obj |-> IF o \in cleared \cup handed THEN Null ELSE field[o]]
        /\ zombie' = [o \in Obj |-> IF o \in handed THEN field[o] ELSE zombie[o]]
    BY <1>0 DEF Processed
  <1>2. /\ phase = "refs" /\ phase' = "weaks" /\ listed' = {}
        /\ UNCHANGED <<kindOf, used, roots, table, live, dirty, spec, finger, word,
                       stack, doomed>>
    BY DEF ProcessReferences
  <1>3. /\ MarkTypeOK /\ live \subseteq Obj /\ roots \subseteq mark
    BY <1>2 DEF MarkTypeOK, ClosedInv
  <1>4. /\ \A o \in Obj : field'[o] = IF o \in cleared \cup handed THEN Null ELSE field[o]
        /\ \A o \in Obj : zombie'[o] = IF o \in handed THEN field[o] ELSE zombie[o]
    BY <1>1
  <1>5. MarkTypeOK'
    <2>1. field' \in [Obj -> Ref] /\ zombie' \in [Obj -> Ref]
      BY <1>1, <1>3, NAssumption DEF MarkTypeOK, Ref, Null
    <2> QED BY <1>1, <1>2, <1>3, <2>1 DEF MarkTypeOK, Phase
  <1>6. NoDanglingReference'
    <2>1. \A o \in live : (field[o] # Null => field[o] \in live)
                         /\ (zombie[o] # Null => zombie[o] \in live)
      BY ReferredIn DEF NoDanglingReference
    <2>2. \A o \in live : (field'[o] # Null => field'[o] \in live)
                         /\ (zombie'[o] # Null => zombie'[o] \in live)
      BY <2>1, <1>3, <1>4
    <2> QED BY <2>2, <1>2 DEF NoDanglingReference, Referred
  <1>7. HeapShape'
    BY <1>1, <1>2, <1>3, <1>4 DEF HeapShape, Finalizable
  <1>8. MarkShape' BY <1>1, <1>2 DEF MarkShape, Marking, Reference
  <1>9. \A o \in mark' : (field'[o] # Null => field'[o] \in mark')
                        /\ (zombie'[o] # Null => zombie'[o] \in mark')
    <2>1. SUFFICES ASSUME NEW o \in mark'
                   PROVE  (field'[o] # Null => field'[o] \in mark')
                          /\ (zombie'[o] # Null => zombie'[o] \in mark')
      OBVIOUS
    <2>2. o \in Obj /\ Strong(o) \subseteq mark' BY <1>1, <1>3, <2>1
    <2>3. zombie'[o] # Null => zombie'[o] \in mark'
      BY <1>1, <1>4, <2>2 DEF Strong, HeapShape, Finalizable
    <2>4. field'[o] # Null => field'[o] = field[o] /\ o \notin cleared \cup handed
      BY <1>4, <2>2
    <2>5. CASE kindOf[o] = "data" BY <2>2, <2>4, <2>5, <2>3 DEF Strong
    <2>6. CASE kindOf[o] = "none" BY <2>2, <2>4, <2>6, <2>3 DEF HeapShape
    <2>7. CASE Reference(o) BY <1>1, <2>1, <2>3, <2>4, <2>7
    <2> QED BY <1>3, <2>2, <2>5, <2>6, <2>7 DEF MarkTypeOK, Kind, Reference
  <1>10. Referred(mark)' \subseteq mark' BY <1>9 DEF Referred
  <1>11. ClosedInv' BY <1>1, <1>2, <1>3, <1>10 DEF ClosedInv
  <1>12. LiveBitsAreUsed' /\ GrayOnDirtyCard' /\ ListedInv'
    BY <1>2 DEF LiveBitsAreUsed, GrayOnDirtyCard, ListedInv
  <1> QED BY <1>5, <1>6, <1>7, <1>8, <1>11, <1>12

LEMMA SwapInv == ASSUME IInv, SweepSystemWeaks PROVE IInv'
  <1> USE DEF IInv, SweepSystemWeaks
  <1>1. /\ mark \subseteq live /\ live \subseteq Obj /\ roots \subseteq mark
        /\ Referred(mark) \subseteq mark /\ listed = {}
    BY DEF MarkShape, Marking, MarkTypeOK, ClosedInv
  <1>2. \A o \in Obj : WordOf(o) >= 0 BY MarkAssumption DEF Obj, WordOf
  <1>3. live \ mark \subseteq SweepRegion
    BY <1>1 DEF MarkShape, Marking, SweepRegion
  <1>4. used = mark \cup {o \in (live \ mark) \cap SweepRegion : WordOf(o) >= 0}
    BY <1>1, <1>2, <1>3 DEF LiveBitsAreUsed
  <1>5. LiveBitsAreUsed' BY <1>4 DEF LiveBitsAreUsed, SweepRegion
  <1>6. MarkTypeOK' BY DEF MarkTypeOK, Phase
  <1>7. NoDanglingReference' BY <1>1 DEF NoDanglingReference, Referred
  <1>8. HeapShape' BY <1>1 DEF HeapShape, Finalizable
  <1>9. MarkShape' /\ ClosedInv' /\ ListedInv' /\ GrayOnDirtyCard'
    BY DEF MarkShape, Marking, ClosedInv, ListedInv, GrayOnDirtyCard, Reference
  <1> QED BY <1>5, <1>6, <1>7, <1>8, <1>9

LEMMA SweepInv == ASSUME IInv, SweepWord PROVE IInv'
  <1> USE DEF IInv, SweepWord
  <1> DEFINE garbage == {o \in (mark \ live) \cap SweepRegion : WordOf(o) = finger}
  <1>1. live' = live OBVIOUS
  <1>2. \A o \in Obj : WordOf(o) \in Nat BY MarkAssumption DEF Obj, WordOf
  <1>3. finger \in Nat /\ mark \subseteq Obj /\ live \subseteq Obj BY DEF MarkTypeOK
  <1>4. LiveBitsAreUsed' BY <1>1, <1>2, <1>3 DEF LiveBitsAreUsed, SweepRegion
  <1>5. MarkTypeOK' BY <1>1, <1>3 DEF MarkTypeOK
  <1>6. NoDanglingReference' /\ HeapShape'
    BY <1>1 DEF NoDanglingReference, Referred, HeapShape, Finalizable
  <1>7. MarkShape' /\ ClosedInv' /\ ListedInv' /\ GrayOnDirtyCard'
    BY <1>1 DEF MarkShape, Marking, ClosedInv, ListedInv, GrayOnDirtyCard, Reference
  <1> QED BY <1>4, <1>5, <1>6, <1>7

LEMMA FinishInv == ASSUME IInv, FinishCollection PROVE IInv'
  <1> USE DEF IInv, FinishCollection, heapVars
  <1>1. \A o \in Obj : WordOf(o) \in Nat BY MarkAssumption DEF Obj, WordOf
  <1>2. finger \in Nat /\ mark \subseteq Obj BY DEF MarkTypeOK
  <1>3. \A o \in mark : ~(WordOf(o) >= finger) BY <1>1, <1>2 DEF PastEnd
  <1>4. LiveBitsAreUsed' BY <1>3 DEF LiveBitsAreUsed
  <1>5. MarkTypeOK' BY DEF MarkTypeOK, Phase
  <1>6. NoDanglingReference' /\ HeapShape'
    BY DEF NoDanglingReference, Referred, HeapShape, Finalizable
  <1>7. MarkShape' /\ ClosedInv' /\ ListedInv' /\ GrayOnDirtyCard'
    BY DEF MarkShape, Marking, ClosedInv, ListedInv, GrayOnDirtyCard, Reference
  <1> QED BY <1>4, <1>5, <1>6, <1>7

-----------------------------------------------------------------------------
(* The theorems.                                                           *)

LEMMA StepInv == IInv /\ [Next]_vars => IInv'
  <1> SUFFICES ASSUME IInv, [Next]_vars PROVE IInv' OBVIOUS
  <1>1. CASE UNCHANGED vars
    BY <1>1 DEF vars, heapVars, gcVars, IInv, MarkTypeOK, LiveBitsAreUsed, SweepRegion,
       GrayOnDirtyCard, Scanned, Strong, NoDanglingReference, Referred, HeapShape,
       Finalizable, MarkShape, Marking, PastEnd, Reference, ListedInv,
       WhiteReferent, ClosedInv, Successors
  <1>2. CASE Mutator
    <2>1. ASSUME NEW o \in Obj, NEW v \in Ref, Alloc(o, v) PROVE IInv'
      BY <2>1, AllocInv
    <2>2. ASSUME NEW o \in Obj, NEW v \in Ref, Store(o, v) PROVE IInv'
      BY <2>2, WriteInv
    <2>3. ASSUME NEW o \in Obj, ClearReferent(o) PROVE IInv'
      BY <2>3, WriteInv, NAssumption DEF Ref, Null
    <2>4. ASSUME NEW o \in Obj, Load(o) \/ Drop(o) \/ Intern(o) PROVE IInv'
      BY <2>4, RootsInv
    <2>5. ASSUME NEW o \in Obj, RunFinalizer(o) PROVE IInv'
      BY <2>5, RunFinalizerInv
    <2> QED BY <1>2, <2>1, <2>2, <2>3, <2>4, <2>5 DEF Mutator
  <1>3. CASE Collector
    BY <1>3, WalkWordInv, WalkObjectInv, PopInv, EndTraceInv, RescanInv, ReMarkInv,
       ProcessInv, SwapInv, SweepInv, FinishInv DEF Collector
  <1>4. CASE \E sp \in GcSpec : BeginCollection(sp)
    BY <1>4, BeginInv
  <1> QED BY <1>1, <1>2, <1>3, <1>4 DEF Next

\* The invariant holds in every heap of any size.
THEOREM MarkInvariant == Spec => []IInv
  BY InitInv, StepInv, PTL DEF Spec

\* The variables keep their types; the mark stack never holds what is no object.
THEOREM MarkTypeCorrect == Spec => []MarkTypeOK
  <1>1. IInv => MarkTypeOK BY DEF IInv
  <1> QED BY <1>1, MarkInvariant, PTL

\* A grey object the trace is done with is on a dirty card.
THEOREM GraysAreOnDirtyCards == Spec => []GrayOnDirtyCard
  <1>1. IInv => GrayOnDirtyCard BY DEF IInv
  <1> QED BY <1>1, MarkInvariant, PTL

\* The bitmaps agree on what is in use.
THEOREM BitmapsAgree == Spec => []LiveBitsAreUsed
  <1>1. IInv => LiveBitsAreUsed BY DEF IInv
  <1> QED BY <1>1, MarkInvariant, PTL

\* No reference, referent, zombie or weak table entry dangles.
THEOREM NothingDangles == Spec => []NoDanglingReference
  <1>1. IInv => NoDanglingReference BY DEF IInv
  <1> QED BY <1>1, MarkInvariant, PTL

\* Every step of marking and sweeping is one ManagedHeap allows.
LEMMA StepRefines == IInv /\ IInv' /\ [Next]_vars => [HeapNext]_heapVars
  <1> SUFFICES ASSUME IInv, [Next]_vars PROVE HeapNext \/ UNCHANGED heapVars OBVIOUS
  <1>1. CASE UNCHANGED vars BY <1>1 DEF vars
  <1>2. CASE Mutator
    <2>1. ASSUME NEW o \in Obj, NEW v \in Ref, Alloc(o, v) \/ Store(o, v)
          PROVE  HeapNext
      BY <2>1 DEF Alloc, Store, HeapNext
    <2>2. ASSUME NEW o \in Obj, ClearReferent(o) PROVE HeapNext
      <3>1. Write(o, Null) /\ Null \in Ref
        BY <2>2, NAssumption DEF ClearReferent, Ref, Null
      <3> QED BY <3>1 DEF HeapNext
    <2>3. ASSUME NEW o \in Obj, Load(o) \/ Drop(o) \/ Intern(o) \/ RunFinalizer(o)
          PROVE  HeapNext
      BY <2>3 DEF Load, Drop, Intern, RunFinalizer, HeapNext
    <2> QED BY <1>2, <2>1, <2>2, <2>3 DEF Mutator
  <1>3. ASSUME ProcessReferences PROVE HeapNext
    <2>0. PICK saved, cleared, handed \in SUBSET live : Processed(saved, cleared, handed)
      BY <1>3, ProcessFacts
    <2>1. /\ mark \subseteq saved
          /\ Successors(saved) \subseteq saved
          /\ \A o \in cleared : Reference(o) /\ ~Finalizable(o)
          /\ \A o \in handed : Finalizable(o)
          /\ \A o \in cleared \cup handed : field[o] # Null /\ field[o] \notin saved
          /\ field' = [o \in Obj |-> IF o \in cleared \cup handed THEN Null ELSE field[o]]
          /\ zombie' = [o \in Obj |-> IF o \in handed THEN field[o] ELSE zombie[o]]
      BY <2>0 DEF Processed
    <2>2. /\ phase = "refs" /\ roots \subseteq mark /\ live = used /\ live \subseteq Obj
          /\ UNCHANGED <<kindOf, used, roots, table>>
      BY <1>3 DEF ProcessReferences, IInv, ClosedInv, LiveBitsAreUsed, MarkTypeOK
    <2>3. Strongly \subseteq saved BY <2>1, <2>2, StronglyIn
    <2>4. /\ handed \in SUBSET {r \in used : kindOf[r] = "final" /\ field[r] # Null
                                                 /\ field[r] \notin Strongly}
          /\ cleared \in SUBSET {r \in used : kindOf[r] \in {"weak", "soft"}
                                 /\ field[r] # Null /\ field[r] \notin Strongly}
      BY <2>1, <2>2, <2>3 DEF Reference, Finalizable
    <2>5. {} \in SUBSET (table \ Strongly) /\ table' = table \ {}
      BY <2>2
    <2>6. /\ zombie' = [o \in Obj |-> IF o \in handed THEN field[o] ELSE zombie[o]]
          /\ field' = [o \in Obj |-> IF o \in handed \cup cleared THEN Null ELSE field[o]]
      BY <2>1
    <2>7. Clear BY <2>2, <2>4, <2>5, <2>6 DEF Clear
    <2> QED BY <2>7 DEF HeapNext
  <1>4. ASSUME SweepSystemWeaks PROVE HeapNext
    <2>1. /\ roots \subseteq mark /\ Referred(mark) \subseteq mark /\ mark \subseteq Obj
          /\ field \in [Obj -> Ref] /\ zombie \in [Obj -> Ref]
      BY <1>4 DEF SweepSystemWeaks, IInv, ClosedInv, MarkTypeOK
    <2>2. Strongly \subseteq mark BY <2>1, StrongReferred, StronglyIn
    <2> DEFINE gone == table \ mark
    <2>3. gone \in SUBSET (table \ Strongly) /\ table' = table \ gone
      BY <1>4, <2>2 DEF SweepSystemWeaks
    <2>4. /\ {} \in SUBSET {r \in used : kindOf[r] = "final" /\ field[r] # Null
                                                 /\ field[r] \notin Strongly}
          /\ {} \in SUBSET {r \in used : kindOf[r] \in {"weak", "soft"}
                                 /\ field[r] # Null /\ field[r] \notin Strongly}
      OBVIOUS
    <2>5. /\ zombie' = [o \in Obj |-> IF o \in {} THEN field[o] ELSE zombie[o]]
          /\ field' = [o \in Obj |-> IF o \in {} \cup {} THEN Null ELSE field[o]]
          /\ UNCHANGED <<kindOf, used, roots>>
      BY <1>4, <2>1 DEF SweepSystemWeaks
    <2> HIDE DEF gone
    <2>6. Clear BY <2>3, <2>4, <2>5 DEF Clear
    <2> QED BY <2>6 DEF HeapNext
  <1>5. ASSUME SweepWord PROVE HeapNext \/ UNCHANGED heapVars
    <2> DEFINE gone == {o \in (mark \ live) \cap SweepRegion : WordOf(o) = finger}
    <2>1. /\ used' = used \ gone /\ UNCHANGED <<kindOf, field, zombie, roots, table>>
          /\ phase = "sweep"
      BY <1>5 DEF SweepWord
    <2>2. /\ roots \cup table \subseteq live /\ Referred(live) \subseteq live
          /\ live \subseteq Obj
      BY DEF IInv, NoDanglingReference, MarkTypeOK
    <2>3. Strongly \subseteq live BY <2>2, StrongReferred, StronglyIn
    <2>4. Referred(Strongly) \subseteq live
      <3>1. \A o \in live : (field[o] # Null => field[o] \in live)
                           /\ (zombie[o] # Null => zombie[o] \in live)
        BY <2>2, ReferredIn
      <3> QED BY <3>1, <2>3 DEF Referred
    <2>5. gone \cap (Strongly \cup table \cup Referred(Strongly)) = {}
      BY <2>2, <2>3, <2>4
    <2> HIDE DEF gone
    <2>6. CASE used \cap gone = {} BY <2>1, <2>6 DEF heapVars
    <2>7. CASE used \cap gone # {}
      <3>1. used \cap gone \in (SUBSET used) \ {{}} BY <2>7
      <3>2. used' = used \ (used \cap gone) BY <2>1
      <3>3. (used \cap gone) \cap (Strongly \cup table \cup Referred(Strongly)) = {}
        BY <2>5
      <3>4. Free BY <2>1, <3>1, <3>2, <3>3 DEF Free
      <3> QED BY <3>4 DEF HeapNext
    <2> QED BY <2>6, <2>7
  <1>6. CASE Collector
    BY <1>6, <1>3, <1>4, <1>5
       DEF Collector, WalkWord, WalkObject, PopMarkStack, EndTrace, RescanDirtyCards,
           ReMarkRoots, FinishCollection, heapVars
  <1>7. CASE \E sp \in GcSpec : BeginCollection(sp)
    BY <1>7 DEF BeginCollection, heapVars
  <1> QED BY <1>1, <1>2, <1>6, <1>7 DEF Next

\* The collector of any heap keeps the promise of ManagedHeap.
THEOREM CollectorIsSafe == Spec => HeapSpec
  <1>1. Init => HeapInit
    <2> SUFFICES ASSUME Init PROVE HeapInit OBVIOUS
    <2>1. Immune \subseteq Obj BY MarkAssumption, NAssumption DEF Obj
    <2>2. kindOf \in [Obj -> Kind] BY MarkAssumption DEF Init
    <2> QED BY <2>1, <2>2 DEF Init, HeapInit
  <1> QED BY <1>1, MarkInvariant, StepRefines, PTL DEF Spec, HeapSpec

-----------------------------------------------------------------------------
(* What was garbage when the collection began stays garbage, is not marked *)
(* and is freed by the sweep.                                              *)

\* No root and nothing that is kept refers to what is doomed; marking never gets
\* there, and the swapped bitmaps leave all of it to the words still to sweep.
DoomedInv ==
  /\ doomed \subseteq used /\ (roots \cup table) \cap doomed = {}
  /\ \A o \in used \ doomed : field[o] \notin doomed /\ zombie[o] \notin doomed
  /\ Marking => (mark \cup listed) \cap doomed = {}
  /\ phase = "sweep" => doomed \subseteq (mark \ live) \cap SweepRegion
  /\ phase = "sweep" => \A o \in doomed : WordOf(o) >= finger
  /\ spec.partial => doomed \cap Immune = {}
  /\ phase = "idle" => doomed = {}

\* What the collection that begins has doomed: the complement of what is led to
\* from the roots, the tables and, if they are not swept, the immune objects.
LEMMA GarbageIsApart ==
  ASSUME IInv, NEW sp \in GcSpec
  PROVE  LET g == GarbageNow(sp)
         IN  /\ g \subseteq used /\ (roots \cup table) \cap g = {}
             /\ \A o \in used \ g : field[o] \notin g /\ zombie[o] \notin g
             /\ sp.partial => g \cap Immune = {}
  <1> DEFINE from == roots \cup table \cup (IF sp.partial THEN Immune ELSE {})
             g == GarbageNow(sp)
  <1>1. /\ g \subseteq used
        /\ \A o \in used : o \in g <=> \E c \in SUBSET (Obj \ {o}) :
                                          from \subseteq c /\ Referred(c) \subseteq c
    BY DEF GarbageNow
  <1>2. used \subseteq Obj BY DEF IInv, MarkTypeOK
  <1> HIDE DEF g
  <1>3. from \cap g = {} BY <1>1
  <1>4. ASSUME NEW o \in used \ g PROVE field[o] \notin g /\ zombie[o] \notin g
    <2>1. SUFFICES ASSUME NEW x \in g, x = field[o] \/ x = zombie[o] PROVE FALSE OBVIOUS
    <2>2. PICK c \in SUBSET (Obj \ {x}) : from \subseteq c /\ Referred(c) \subseteq c
      BY <1>1
    <2>3. x # Null BY <1>1, <1>2 DEF Obj, Null
    <2>4. o \notin c BY <2>1, <2>2, <2>3, ReferredIn
    <2>5. c \in SUBSET (Obj \ {o}) BY <2>4
    <2> QED BY <1>1, <2>2, <2>5
  <1>5. (roots \cup table) \cap g = {} /\ (sp.partial => g \cap Immune = {}) BY <1>3
  <1> QED BY <1>1, <1>4, <1>5 DEF g

LEMMA DoomedBegin == ASSUME IInv, NEW sp \in GcSpec, BeginCollection(sp) PROVE DoomedInv'
  <1> DEFINE g == GarbageNow(sp)
  <1>1. /\ g \subseteq used /\ (roots \cup table) \cap g = {}
        /\ \A o \in used \ g : field[o] \notin g /\ zombie[o] \notin g
        /\ sp.partial => g \cap Immune = {}
    BY GarbageIsApart
  <1>2. doomed' = g /\ mark' = (IF sp.partial THEN live \cap Immune ELSE {}) /\ spec' = sp
        /\ phase' = "walk" /\ phase = "idle" /\ UNCHANGED <<heapVars, listed>>
    BY DEF BeginCollection
  <1>3. listed = {} BY <1>2 DEF IInv, MarkShape
  <1> HIDE DEF g
  <1> QED BY <1>1, <1>2, <1>3 DEF DoomedInv, Marking, heapVars

\* The mutators get hold of nothing doomed: whatever they read or are given is
\* led to from a root.
LEMMA DoomedMutator == ASSUME IInv, DoomedInv, Mutator PROVE DoomedInv'
  <1> USE DEF DoomedInv, Marking
  <1>0. /\ roots \cup table \subseteq used \ doomed /\ used \subseteq Obj /\ Null \notin used
        /\ \A o \in used \ doomed : field[o] \notin doomed /\ zombie[o] \notin doomed
    <2>1. live \subseteq used BY DEF IInv, LiveBitsAreUsed
    <2> QED BY <2>1 DEF IInv, NoDanglingReference, MarkTypeOK, Obj, Null
  <1>1. ASSUME NEW o \in Obj, NEW v \in Ref, Alloc(o, v) PROVE DoomedInv'
    <2>1. /\ o \notin used /\ used' = used \cup {o} /\ roots' = roots \cup {o}
          /\ v \in roots \cup {Null} /\ live' = live \cup {o} /\ table' = table
          /\ UNCHANGED <<mark, phase, spec, finger, listed, doomed>>
      BY <1>1 DEF Alloc, New
    <2>2. /\ field'[o] = v /\ zombie'[o] = Null
          /\ \A p \in used : field'[p] = field[p] /\ zombie'[p] = zombie[p]
      BY <1>1, <1>0, <2>1 DEF Alloc, New, IInv, MarkTypeOK
    <2>3. v \notin doomed /\ Null \notin doomed /\ o \notin doomed BY <1>0, <2>1
    <2>4. \A p \in used' \ doomed : field'[p] \notin doomed /\ zombie'[p] \notin doomed
      BY <1>0, <2>1, <2>2, <2>3
    <2> QED BY <2>1, <2>3, <2>4 DEF SweepRegion
  <1>2. ASSUME NEW o \in Obj, NEW v \in Ref, Store(o, v) \/ (ClearReferent(o) /\ v = Null)
        PROVE  DoomedInv'
    <2>1. /\ v \in roots \cup {Null} /\ field' = [field EXCEPT ![o] = v]
          /\ UNCHANGED <<used, zombie, roots, table, live, mark, phase, spec, finger,
                         listed, doomed>>
      BY <1>2 DEF Store, ClearReferent, Write, gcVars
    <2>2. v \notin doomed BY <1>0, <2>1
    <2>3. \A p \in used \ doomed : field'[p] \notin doomed
      BY <1>0, <2>1, <2>2 DEF IInv, MarkTypeOK
    <2> QED BY <1>0, <2>1, <2>3 DEF SweepRegion
  <1>3. ASSUME NEW o \in Obj, Load(o) \/ Drop(o) \/ Intern(o) PROVE DoomedInv'
    <2>1. /\ roots' \subseteq roots \cup {o} /\ table' \subseteq table \cup {o}
          /\ o \in Referred(roots) \cup table \cup roots
          /\ UNCHANGED <<used, field, zombie, gcVars>>
      BY <1>3 DEF Load, Drop, Intern, Read, Forget, Register
    <2>2. o \notin doomed BY <1>0, <2>1 DEF Referred
    <2> QED BY <1>0, <2>1, <2>2 DEF SweepRegion, gcVars
  <1>4. ASSUME NEW o \in Obj, RunFinalizer(o) PROVE DoomedInv'
    <2>1. /\ o \in roots /\ roots' = (roots \ {o}) \cup {zombie[o]}
          /\ zombie' = [zombie EXCEPT ![o] = Null]
          /\ UNCHANGED <<used, field, table, gcVars>>
      BY <1>4 DEF RunFinalizer, Finalize
    <2>2. zombie[o] \notin doomed /\ Null \notin doomed BY <1>0, <2>1
    <2>3. \A p \in used \ doomed : zombie'[p] \notin doomed
      BY <1>0, <2>1, <2>2 DEF IInv, MarkTypeOK
    <2> QED BY <1>0, <2>1, <2>2, <2>3 DEF SweepRegion, gcVars
  <1>5. ASSUME NEW o \in Obj, ClearReferent(o) PROVE DoomedInv'
    BY <1>2, <1>5, NAssumption DEF Ref, Null
  <1> QED BY <1>1, <1>2, <1>3, <1>4, <1>5 DEF Mutator

\* Marking stays within what is not doomed.
LEMMA KeptIsClosed ==
  ASSUME IInv, DoomedInv, Marking
  PROVE  /\ live = used /\ live \ doomed \in SUBSET Obj
         /\ \A o \in live \ doomed : Strong(o) \subseteq live \ doomed
         /\ Successors(live \ doomed) \subseteq live \ doomed
         /\ \A o \in live \ doomed : field[o] # Null => field[o] \in live \ doomed
         /\ mark \cup listed \cup roots \subseteq live \ doomed
  <1>1. live = used /\ live \subseteq Obj
    BY DEF Marking, IInv, LiveBitsAreUsed, MarkTypeOK
  <1>2. \A o \in live : (field[o] # Null => field[o] \in live)
                       /\ (zombie[o] # Null => zombie[o] \in live)
    BY ReferredIn DEF IInv, NoDanglingReference
  <1>3. \A o \in live \ doomed : field[o] \notin doomed /\ zombie[o] \notin doomed
    BY <1>1 DEF DoomedInv
  <1>4. \A o \in live \ doomed : Strong(o) \subseteq live \ doomed
    BY <1>2, <1>3 DEF Strong
  <1>5. Successors(live \ doomed) \subseteq live \ doomed
    <2> DEFINE kept == live \ doomed
    <2>1. \A o \in kept : Strong(o) \subseteq kept BY <1>4
    <2> HIDE DEF kept
    <2>2. Successors(kept) \subseteq kept BY <2>1, SuccessorsIn
    <2> QED BY <2>2 DEF kept
  <1>6. mark \cup listed \cup roots \subseteq live \ doomed
    BY DEF DoomedInv, IInv, MarkShape, NoDanglingReference
  <1> QED BY <1>1, <1>2, <1>3, <1>4, <1>5, <1>6

LEMMA DoomedMarking ==
  ASSUME IInv, DoomedInv,
         WalkWord \/ WalkObject \/ PopMarkStack \/ EndTrace \/ RescanDirtyCards \/ ReMarkRoots
  PROVE  DoomedInv'
  <1>1. Marking /\ Marking' /\ UNCHANGED <<heapVars, live, spec, doomed>>
        /\ phase' \notin {"sweep", "idle"}
    BY DEF WalkWord, WalkObject, PopMarkStack, EndTrace, RescanDirtyCards, ReMarkRoots,
           MarkAndProcess, Marking
  <1> DEFINE kept == live \ doomed
  <1>2. /\ kept \in SUBSET Obj /\ \A o \in kept : Strong(o) \subseteq kept
        /\ Successors(kept) \subseteq kept /\ mark \cup listed \cup roots \subseteq kept
    BY <1>1, KeptIsClosed
  <1> HIDE DEF kept
  <1> SUFFICES mark' \cup listed' \subseteq kept
    BY <1>1 DEF DoomedInv, heapVars, kept
  <1>3. CASE WalkWord \/ EndTrace
    BY <1>2, <1>3 DEF WalkWord, EndTrace
  <1>4. ASSUME NEW o \in mark, NEW st, ScanObject(o, mark, st)
        PROVE  mark' \cup listed' \subseteq kept
    BY <1>2, <1>4 DEF ScanObject, Delayed
  <1>5. CASE WalkObject
    <2>1. word \subseteq mark BY <1>5 DEF WalkObject, IInv, MarkShape
    <2> QED BY <1>4, <1>5, <2>1 DEF WalkObject
  <1>6. CASE PopMarkStack
    <2>1. stack \subseteq mark BY <1>6 DEF PopMarkStack, IInv, MarkShape
    <2> QED BY <1>4, <1>6, <2>1 DEF PopMarkStack
  <1>7. CASE RescanDirtyCards
    <2> DEFINE gray == {o \in mark : CardOf(o) \in dirty}
               new == Blackened(Successors(gray), mark)
    <2>1. mark' = mark \cup new /\ listed' = listed \cup Delayed(gray \cup new, mark')
      BY <1>7 DEF RescanDirtyCards
    <2>2. gray \subseteq mark OBVIOUS
    <2> HIDE DEF gray
    <2>3. \A o \in gray : Strong(o) \subseteq kept BY <1>2, <2>2
    <2>4. Successors(gray) \subseteq kept BY <2>3, SuccessorsIn
    <2>5. new \subseteq kept BY <1>2, <2>4, BlackenedLeast
    <2> HIDE DEF new
    <2> QED BY <1>2, <2>1, <2>2, <2>5 DEF Delayed
  <1>8. CASE ReMarkRoots
    <2> DEFINE new == Blackened(roots, mark)
    <2>1. mark' = mark \cup new /\ listed' = listed \cup Delayed(new, mark')
      BY <1>8 DEF ReMarkRoots, MarkAndProcess
    <2>2. new \subseteq kept BY <1>2, BlackenedLeast
    <2> HIDE DEF new
    <2> QED BY <1>2, <2>1, <2>2 DEF Delayed
  <1> QED BY <1>3, <1>5, <1>6, <1>7, <1>8

\* Treating the references keeps and hands over only what a kept reference
\* refers to.
LEMMA DoomedProcess == ASSUME IInv, DoomedInv, ProcessReferences PROVE DoomedInv'
  <1>1. /\ phase = "refs" /\ phase' = "weaks" /\ listed' = {}
        /\ UNCHANGED <<used, roots, table, live, spec, doomed>>
    BY DEF ProcessReferences
  <1>2. PICK p \in SUBSET Obj :
       /\ Preserved(p)
       /\ LET saved == mark \cup Blackened(p, mark)
              l1 == listed \cup Delayed(saved \ mark, saved)
              clear1 == {o \in White(l1, saved) : ~Finalizable(o)}
              handed == {o \in White(l1, saved) : Finalizable(o)}
              final == saved \cup Blackened({field[o] : o \in handed}, saved)
              clear2 == {o \in Delayed(final \ saved, final) : ~Finalizable(o)}
          IN  /\ field' = [o \in Obj |-> IF o \in clear1 \cup handed \cup clear2
                                         THEN Null ELSE field[o]]
              /\ zombie' = [o \in Obj |-> IF o \in handed THEN field[o] ELSE zombie[o]]
              /\ mark' = final
    BY DEF ProcessReferences
  <1> DEFINE saved == mark \cup Blackened(p, mark)
             l1 == listed \cup Delayed(saved \ mark, saved)
             clear1 == {o \in White(l1, saved) : ~Finalizable(o)}
             handed == {o \in White(l1, saved) : Finalizable(o)}
             given == {field[o] : o \in handed}
             final == saved \cup Blackened(given, saved)
             clear2 == {o \in Delayed(final \ saved, final) : ~Finalizable(o)}
             kept == live \ doomed
  <1>3. /\ mark' = final
        /\ field' = [o \in Obj |-> IF o \in clear1 \cup handed \cup clear2
                                   THEN Null ELSE field[o]]
        /\ zombie' = [o \in Obj |-> IF o \in handed THEN field[o] ELSE zombie[o]]
    BY <1>2
  <1>4. /\ live = used /\ kept \in SUBSET Obj /\ Successors(kept) \subseteq kept
        /\ mark \cup listed \cup roots \subseteq kept
        /\ \A o \in kept : field[o] # Null => field[o] \in kept
    BY <1>1, KeptIsClosed DEF Marking
  <1>5. \A o \in used \ doomed : field[o] \notin doomed /\ zombie[o] \notin doomed
    BY DEF DoomedInv
  <1>6. used \subseteq Obj BY DEF IInv, MarkTypeOK
  <1>7. doomed \subseteq used /\ Null \notin doomed BY <1>6 DEF DoomedInv, Obj, Null
  <1> DEFINE few == clear1 \cup handed \cup clear2
  <1> HIDE DEF kept
  <1>8. p \subseteq kept BY <1>2, <1>4 DEF Preserved, White
  <1>9. saved \subseteq kept BY <1>4, <1>8, BlackenedLeast
  <1> HIDE DEF saved
  <1>10. l1 \subseteq kept BY <1>4, <1>9 DEF Delayed
  <1>11. given \subseteq kept BY <1>4, <1>10 DEF White
  <1> HIDE DEF given
  <1>12. final \subseteq kept BY <1>4, <1>9, <1>11, BlackenedLeast
  <1>13. handed \subseteq kept BY <1>10 DEF White
  <1> HIDE DEF final, handed, few
  <1>14. \A o \in used \ doomed : field'[o] \notin doomed /\ zombie'[o] \notin doomed
    <2>1. SUFFICES ASSUME NEW o \in used \ doomed
                   PROVE  field'[o] \notin doomed /\ zombie'[o] \notin doomed
      OBVIOUS
    <2>2. /\ field'[o] = IF o \in few THEN Null ELSE field[o]
          /\ zombie'[o] = IF o \in handed THEN field[o] ELSE zombie[o]
      BY <1>3, <1>6 DEF few
    <2> QED BY <1>5, <1>7, <2>2
  <1>15. (mark' \cup listed') \cap doomed = {} BY <1>1, <1>3, <1>12 DEF kept
  <1> QED BY <1>1, <1>14, <1>15 DEF DoomedInv

\* The sweep takes every word of it.
LEMMA DoomedSweep ==
  ASSUME IInv, DoomedInv, SweepSystemWeaks \/ SweepWord \/ FinishCollection
  PROVE  DoomedInv'
  <1>0. MarkTypeOK BY DEF IInv
  <1>1. \A o \in Obj : WordOf(o) \in Nat BY MarkAssumption DEF Obj, WordOf
  <1>2. CASE SweepSystemWeaks
    <2>1. /\ phase = "weaks" /\ phase' = "sweep" /\ table' \subseteq table
          /\ live' = mark /\ mark' = live /\ finger' = 0
          /\ UNCHANGED <<used, field, zombie, roots, spec, doomed>>
      BY <1>2 DEF SweepSystemWeaks
    <2>2. used = live BY <2>1 DEF IInv, LiveBitsAreUsed
    <2>3. doomed \subseteq Obj /\ mark \cap doomed = {} /\ doomed \subseteq live
      BY <1>0, <2>1, <2>2 DEF DoomedInv, MarkTypeOK, Marking
    <2>4. doomed \subseteq SweepRegion'
      BY <2>1, <2>3 DEF SweepRegion, DoomedInv
    <2>5. \A o \in doomed : WordOf(o) >= 0 BY <1>1, <2>3
    <2> QED BY <2>1, <2>3, <2>4, <2>5 DEF DoomedInv, Marking
  <1>3. CASE SweepWord
    <2> DEFINE garbage == {o \in (mark \ live) \cap SweepRegion : WordOf(o) = finger}
    <2>1. /\ phase = "sweep" /\ used' = used \ garbage /\ live' = live \ garbage
          /\ doomed' = doomed \ garbage /\ finger' = finger + 1
          /\ UNCHANGED <<field, zombie, roots, table, mark, phase, spec>>
      BY <1>3 DEF SweepWord
    <2>2. doomed \subseteq Obj /\ finger \in Nat
      BY <1>0 DEF DoomedInv, MarkTypeOK
    <2>3. \A o \in doomed : /\ o \in (mark \ live) \cap SweepRegion
                            /\ WordOf(o) >= finger /\ WordOf(o) \in Nat
      BY <1>1, <2>1, <2>2 DEF DoomedInv
    <2>4. \A o \in doomed' : WordOf(o) >= finger'
      <3>1. \A o \in doomed' : o \in doomed /\ WordOf(o) # finger BY <2>1, <2>3
      <3> QED BY <2>1, <2>2, <2>3, <3>1
    <2> HIDE DEF garbage
    <2>5. SweepRegion' = SweepRegion BY <2>1 DEF SweepRegion
    <2>6. doomed' \subseteq (mark' \ live') \cap SweepRegion'
      BY <2>1, <2>3, <2>5
    <2>7. \A o \in used' \ doomed' : field'[o] \notin doomed' /\ zombie'[o] \notin doomed'
      BY <2>1 DEF DoomedInv
    <2> QED BY <2>1, <2>4, <2>6, <2>7 DEF DoomedInv, Marking
  <1>4. CASE FinishCollection
    BY <1>4 DEF FinishCollection, DoomedInv, Marking, NoSpec
  <1> QED BY <1>2, <1>3, <1>4

LEMMA DoomedStep == IInv /\ DoomedInv /\ [Next]_vars => DoomedInv'
  <1> SUFFICES ASSUME IInv, DoomedInv, [Next]_vars PROVE DoomedInv' OBVIOUS
  <1>1. CASE UNCHANGED vars
    BY <1>1 DEF vars, heapVars, gcVars, DoomedInv, Marking, SweepRegion
  <1>2. CASE Mutator BY <1>2, DoomedMutator
  <1>3. CASE Collector
    BY <1>3, DoomedMarking, DoomedProcess, DoomedSweep DEF Collector
  <1>4. CASE \E sp \in GcSpec : BeginCollection(sp) BY <1>4, DoomedBegin
  <1> QED BY <1>1, <1>2, <1>3, <1>4 DEF Next

\* A collection frees all that was garbage when it began, cycles and what only
\* garbage refers to included, in every heap and whatever the threads of a
\* concurrent collection do meanwhile (dvmCollectGarbageInternal).
THEOREM GarbageIsFreed == Spec => []GarbageFreed
  <1>1. Init => DoomedInv
    BY DEF Init, DoomedInv, Marking, NoSpec
  <1>2. IInv /\ DoomedInv => GarbageFreed
    <2> SUFFICES ASSUME IInv, DoomedInv, phase = "sweep", PastEnd, NEW o \in doomed
                 PROVE  FALSE
      BY DEF GarbageFreed
    <2>1. o \in Obj /\ finger \in Nat BY DEF IInv, MarkTypeOK
    <2>2. WordOf(o) \in Nat BY <2>1, MarkAssumption DEF Obj, WordOf
    <2>3. WordOf(o) >= finger BY DEF DoomedInv
    <2>4. WordOf(o) < finger BY <2>1 DEF PastEnd
    <2> QED BY <2>1, <2>2, <2>3, <2>4
  <1> QED BY <1>1, <1>2, MarkInvariant, DoomedStep, PTL DEF Spec

=============================================================================
