------------------------------ MODULE RefStack ------------------------------
(***************************************************************************)
(* What a table of JNI references promises: a stack of frames, each with   *)
(* the references made in it and not yet deleted.  An object may be in a   *)
(* frame more than once; "Add/remove calls are paired".                    *)
(***************************************************************************)
EXTENDS Naturals, Sequences, SequencesExt

CONSTANTS Obj, Cleared   \* objects; the mark of a weak reference to a dead one

VARIABLE frames          \* how often each object is referred to, by frame

Empty == [o \in Obj \cup {Cleared} |-> 0]

Init == frames = <<Empty>>

\* References are made and deleted in the current frame only.
InTop(f) == frames' = [frames EXCEPT ![Len(frames)] = f]

Add(o) == LET f == Last(frames) IN InTop([f EXCEPT ![o] = @ + 1])

Delete(o) == LET f == Last(frames) IN f[o] > 0 /\ InTop([f EXCEPT ![o] = @ - 1])

Push == frames' = Append(frames, Empty)

Pop == Len(frames) > 1 /\ frames' = Front(frames)

Clear(o) ==
  LET f == Last(frames)
  IN  InTop([f EXCEPT ![o] = 0, ![Cleared] = @ + f[o]])

Next ==
  \/ Push \/ Pop
  \/ \E o \in Obj : Add(o) \/ Clear(o)
  \/ \E o \in Obj \cup {Cleared} : Delete(o)

Spec == Init /\ [][Next]_frames
=============================================================================
