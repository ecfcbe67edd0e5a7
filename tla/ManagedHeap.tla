---------------------------- MODULE ManagedHeap ----------------------------
(***************************************************************************)
(* What the garbage collector of vm/alloc promises to the program, without *)
(* bitmaps, cards and pauses: memory comes back only when no thread can    *)
(* reach it, a weak or soft reference is cleared only when its referent is *)
(* not strongly reachable and always before the referent's memory comes    *)
(* back, and a finalizable object that is not reachable is handed over     *)
(* instead of freed.                                                       *)
(***************************************************************************)
EXTENDS Naturals

CONSTANT N          \* places of the heap, one object each

ASSUME NAssumption == N \in Nat

Obj == 1..N         \* in address order
Null == 0
Ref == 0..N
Kind == {"data", "weak", "soft", "final", "none"}   \* "none": nothing starts there

VARIABLES
  kindOf,   \* what the place holds
  used,     \* places whose memory holds an object
  field,    \* the reference in it: a field of a data object, or a referent
  zombie,   \* the referent a finalizer reference hands over
  roots,    \* what threads and statics refer to
  table     \* system weak table: interned strings, JNI weak globals

heapVars == <<kindOf, used, field, zombie, roots, table>>

\* The references a collector follows: not the referents.
Strong(o) ==
  (IF kindOf[o] = "data" THEN {field[o]} ELSE {zombie[o]}) \ {Null}

Successors(s) == UNION {Strong(o) : o \in s}

\* What s leads to: the least set that has s and what it refers to.
ReachFrom(s) ==
  {o \in Obj : \A c \in SUBSET Obj : (s \subseteq c /\ Successors(c) \subseteq c) => o \in c}

Strongly == ReachFrom(roots)

\* Every reference there is, followed or not.
Referred(s) == ({field[o] : o \in s} \cup {zombie[o] : o \in s}) \ {Null}

-----------------------------------------------------------------------------
(* The program.                                                            *)

New(o, v) ==
  /\ o \notin used /\ kindOf[o] # "none" /\ v \in roots \cup {Null}
  /\ used' = used \cup {o}
  /\ roots' = roots \cup {o}
  /\ field' = [field EXCEPT ![o] = v]
  /\ zombie' = [zombie EXCEPT ![o] = Null]
  /\ UNCHANGED <<kindOf, table>>

Write(o, v) ==
  /\ o \in roots /\ (v = Null \/ (kindOf[o] = "data" /\ v \in roots))
  /\ field' = [field EXCEPT ![o] = v]
  /\ UNCHANGED <<kindOf, used, zombie, roots, table>>

\* A field is read, or a weak table is asked.
Read(v) ==
  /\ v \in Referred(roots) \cup table
  /\ roots' = roots \cup {v}
  /\ UNCHANGED <<kindOf, used, field, zombie, table>>

Forget(o) ==
  /\ o \in roots
  /\ roots' = roots \ {o}
  /\ UNCHANGED <<kindOf, used, field, zombie, table>>

Register(o) ==
  /\ o \in roots
  /\ table' = table \cup {o}
  /\ UNCHANGED <<kindOf, used, field, zombie, roots>>

Finalize(r) ==
  /\ r \in roots /\ zombie[r] # Null
  /\ roots' = (roots \ {r}) \cup {zombie[r]}
  /\ zombie' = [zombie EXCEPT ![r] = Null]
  /\ UNCHANGED <<kindOf, used, field, table>>

-----------------------------------------------------------------------------
(* The collector.                                                          *)

\* Finalizable objects nobody can reach are handed over, and references to
\* what cannot be reached strongly are cleared, in one step that the program
\* cannot look into.
Clear ==
  \E handed \in SUBSET {r \in used : kindOf[r] = "final" /\ field[r] # Null
                                     /\ field[r] \notin Strongly},
     cleared \in SUBSET {r \in used : kindOf[r] \in {"weak", "soft"}
                                     /\ field[r] # Null /\ field[r] \notin Strongly},
     gone \in SUBSET (table \ Strongly) :
    /\ zombie' = [o \in Obj |-> IF o \in handed THEN field[o] ELSE zombie[o]]
    /\ field' = [o \in Obj |-> IF o \in handed \cup cleared THEN Null ELSE field[o]]
    /\ table' = table \ gone
    /\ UNCHANGED <<kindOf, used, roots>>

\* Only what nobody reaches, and what nobody that stays refers to through a
\* path that starts at a root, comes back.
Free ==
  \E gone \in (SUBSET used) \ {{}} :
    /\ gone \cap (Strongly \cup table \cup Referred(Strongly)) = {}
    /\ used' = used \ gone
    /\ UNCHANGED <<kindOf, field, zombie, roots, table>>

HeapNext ==
  \/ \E o \in Obj, v \in Ref : New(o, v) \/ Write(o, v)
  \/ \E o \in Obj : Read(o) \/ Forget(o) \/ Register(o) \/ Finalize(o)
  \/ Clear
  \/ Free

HeapInit ==
  /\ kindOf \in [Obj -> Kind]
  /\ used \subseteq Obj
  /\ field = [o \in Obj |-> Null]
  /\ zombie = [o \in Obj |-> Null]
  /\ roots \subseteq used
  /\ table = {}

HeapSpec == HeapInit /\ [][HeapNext]_heapVars

=============================================================================
