---------------------------- MODULE IndirectRef ----------------------------
(***************************************************************************)
(* A table of JNI references (vm/IndirectRefTable.cpp), as Jni.cpp uses it *)
(* with FASTIVA_FAST_JNI: a local reference is the object itself, and its  *)
(* deletion searches the slots of the current frame; a weak global one is  *)
(* the index and the serial number of its slot.  All calls for one table   *)
(* are made by one thread or under one lock.                               *)
(*                                                                         *)
(* The growth of the allocation up to the maximum is left out.             *)
(***************************************************************************)
EXTENDS Naturals, Sequences, FiniteSets, FiniteSetsExt, SequencesExt

CONSTANTS
  Obj,          \* objects
  MaxEntries,   \* max_entries_
  Serials,      \* number of serial numbers (0x1000)
  MaxFrames,    \* bound: frames
  Null,         \* of a hole; no object
  Cleared       \* kClearedJniWeakGlobal; no object either

VARIABLES
  kind,      \* kind_: "local" or "weak"
  slot,      \* table_
  top,       \* segmentState.parts.topIndex
  holes,     \* segmentState.parts.numHoles
  cookies,   \* localRefCookie of the frames, IRT_FIRST_SEGMENT first
  held,      \* weak references that were handed out, and what they refer to
  dropped,   \* weak references that were deleted
  uses       \* history: how often a slot was given out for one

segment == <<top, holes>>
given == <<held, dropped, uses>>
vars == <<kind, slot, segment, cookies, given>>

Index == 0..(MaxEntries - 1)
Ref == [index : Index, serial : 0..(Serials - 1)]

\* The slots are filled with 0xd1: any serial number will do.
Init ==
  /\ kind \in {"local", "weak"}
  /\ slot = [i \in Index |-> [obj |-> Null, serial |-> Serials - 1]]
  /\ top = 0 /\ holes = 0
  /\ cookies = << [top |-> 0, holes |-> 0] >>
  /\ held = << >> /\ dropped = {} /\ uses = [i \in Index |-> 0]

Cookie == Last(cookies)
OwnHoles == holes - Cookie.holes

-----------------------------------------------------------------------------
Hole(i) == slot[i].obj = Null

\* Mutant: the holes of all frames are counted.
FreeSlotAnywhere ==
  IF holes > 0 THEN Max({i \in 0..(top - 2) : Hole(i)}) ELSE top

\* IndirectRefTable::add: where.  "find the first hole; likely to be near the
\* end of the list".
FreeSlot ==
  IF OwnHoles > 0 THEN Max({i \in 0..(top - 2) : Hole(i)}) ELSE top

\* Mutant: the old serial number is good enough for a hole.
NextSerialOfTop(s) == IF OwnHoles > 0 THEN s ELSE (s + 1) % Serials

NextSerial(s) == (s + 1) % Serials

\* A full table refuses: NULL.  Bound: a slot serves Serials weak references;
\* then its serial numbers start again.
Add(o) ==
  LET i == FreeSlot
      new == [obj |-> o, serial |-> NextSerial(slot[i].serial)]
      r == [index |-> i, serial |-> new.serial]
  IN  /\ OwnHoles > 0 \/ top < MaxEntries
      /\ slot' = [slot EXCEPT ![i] = new]
      /\ IF i < top THEN holes' = holes - 1 /\ UNCHANGED top
                    ELSE top' = top + 1 /\ UNCHANGED holes
      /\ IF kind = "weak"
         THEN /\ uses[i] < Serials
              /\ uses' = [uses EXCEPT ![i] = @ + 1]
              /\ held' = [x \in DOMAIN held \cup {r} |-> IF x = r THEN o ELSE held[x]]
         ELSE UNCHANGED <<held, uses>>
      /\ UNCHANGED <<kind, cookies, dropped>>

\* IndirectRefTable::get: the object, or Null where it complains.
Get(r) ==
  IF r.index < top /\ slot[r.index].serial = r.serial
  THEN slot[r.index].obj ELSE Null

\* IndirectRefTable::remove, from where the index is known: "Top-most entry.
\* Scan up and consume holes", down to the bottom of the frame.
Eaten ==
  Max({n \in 0..OwnHoles :
         /\ top - 1 - n >= Cookie.top
         /\ \A i \in (top - 1 - n)..(top - 2) : Hole(i)})

ZapSlot(i) ==
  /\ IF i = top - 1
     THEN top' = top - 1 - Eaten /\ holes' = holes - Eaten /\ UNCHANGED slot
     ELSE /\ slot' = [slot EXCEPT ![i].obj = Null]
          /\ holes' = holes + 1 /\ UNCHANGED top
  /\ UNCHANGED <<kind, cookies>>

\* deleteLocalReference: the first slot of the frame that has the object.
DeleteLocal(o) ==
  /\ kind = "local"
  /\ LET found == {i \in Cookie.top..(top - 1) : slot[i].obj = o}
     IN  found # {} /\ ZapSlot(Min(found))
  /\ UNCHANGED given

\* deleteWeakGlobalReference, of a reference the program had at some time.
DeleteWeak(r) ==
  /\ r \in DOMAIN held \cup dropped
  /\ Get(r) # Null
  /\ ZapSlot(r.index)
  /\ held' = [x \in DOMAIN held \ {r} |-> held[x]]
  /\ dropped' = dropped \cup {r}
  /\ UNCHANGED uses

\* beginJniCall, dvmPushLocalFrame: the state becomes the new cookie.
PushFrame ==
  /\ kind = "local" /\ Len(cookies) < MaxFrames
  /\ cookies' = Append(cookies, [top |-> top, holes |-> holes])
  /\ UNCHANGED <<kind, slot, segment, given>>

\* dvmPopJniLocals: the cookie becomes the state.
PopFrame ==
  /\ Len(cookies) > 1
  /\ top' = Cookie.top /\ holes' = Cookie.holes
  /\ cookies' = Front(cookies)
  /\ UNCHANGED <<kind, slot, given>>

\* sweepWeakJniGlobals: an object died.
SweepWeak(o) ==
  LET sweep(x) == IF x = o THEN Cleared ELSE x
  IN  /\ kind = "weak"
      /\ slot' = [i \in Index |-> IF i < top THEN [slot[i] EXCEPT !.obj = sweep(@)]
                                  ELSE slot[i]]
      /\ held' = [r \in DOMAIN held |-> sweep(held[r])]
      /\ UNCHANGED <<kind, segment, cookies, dropped, uses>>

Next ==
  \/ PushFrame \/ PopFrame
  \/ \E o \in Obj : Add(o) \/ DeleteLocal(o) \/ SweepWeak(o)
  \/ \E r \in Ref : DeleteWeak(r)

Spec == Init /\ [][Next]_vars

-----------------------------------------------------------------------------
(* Properties.                                                             *)

RefTypeOK ==
  /\ slot \in [Index -> [obj : Obj \cup {Null, Cleared}, serial : 0..(Serials - 1)]]
  /\ top \in 0..MaxEntries /\ holes \in 0..top
  /\ DOMAIN held \subseteq Ref /\ dropped \subseteq Ref

\* What the slots of a frame hold, for RefStack.
FrameEnd(k) == IF k = Len(cookies) THEN top ELSE cookies[k + 1].top

Contents(k) ==
  [o \in Obj \cup {Cleared} |->
     Cardinality({i \in cookies[k].top..(FrameEnd(k) - 1) : slot[i].obj = o})]

\* The table with its holes, cookies and two ways to find a slot is a stack of
\* frames of references: an addition reuses no hole of an older frame, a
\* deletion takes one reference from the current frame, and a return from a
\* native method leaves the caller's references as they were.
Stack == INSTANCE RefStack WITH frames <- [k \in 1..Len(cookies) |-> Contents(k)]

IsRefStack == Stack!Spec

\* A weak reference resolves to its object until it is deleted, or to the mark
\* once the object died; a deleted one is refused although its slot was given
\* away again, as long as the serial numbers of the slot do not repeat.
WeakRefsResolve ==
  /\ \A r \in DOMAIN held : Get(r) = held[r]
  /\ \A r \in dropped : Get(r) = Null
=============================================================================
