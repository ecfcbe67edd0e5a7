----------------------------- MODULE ClassLoad -----------------------------
(***************************************************************************)
(* Defining and linking classes: findClassNoInit and dvmLinkClass of       *)
(* vm/oo/Class.cpp.  Threads that miss a class in gDvm.loadedClasses each  *)
(* load it; one wins the race to the table and links the class with its    *)
(* lock held, first finding the superclass and the interfaces the same     *)
(* way; the others wait for the lock or in Object.wait.  A class that does *)
(* not link is taken out of the table again.                               *)
(*                                                                         *)
(* Class loaders are left out: a name stands for a descriptor with its     *)
(* defining loader.  java.lang.Object is linked from the start.  The       *)
(* initialization of a linked class is module ClassInit.                   *)
(***************************************************************************)
EXTENDS Naturals, Sequences, FiniteSets

CONSTANTS
  Thread,     \* threads that look classes up
  Name,       \* classes other than java.lang.Object
  Parents,    \* Parents[n]: superclass and interfaces, in order of resolution
  MayFail,    \* classes that may not be found, or fail to load or to link
  MaxObj,     \* class objects the heap can hold at once
  Calls,      \* bound: lookups a thread starts
  NoThread,
  NoObj

Obj == 1..MaxObj

ASSUME ClassLoadAssumption ==
  /\ Parents \in [Name -> Seq(Name)] /\ MayFail \subseteq Name
  /\ MaxObj \in Nat /\ Calls \in [Thread -> Nat]
  /\ NoThread \notin Thread /\ NoObj \notin Obj

VARIABLES
  table,    \* gDvm.loadedClasses: the object a name leads to
  name,     \* ClassObject.descriptor
  status,   \* ClassObject.status
  owner,    \* owner of the object's lock, which is also initThreadId
  waiters,  \* asleep in Object.wait on the class, not yet woken
  stack,    \* per thread, the calls of findClassNoInit under way
  value,    \* what the thread's last call returned
  calls     \* lookups made

objVars == <<table, name, status, owner, waiters>>
vars == <<objVars, stack, value, calls>>

Status == {"NONE", "LOADED", "RESOLVED", "ERROR"}
Place == {"lookup", "define", "lost", "found", "lock", "link", "linked",
          "failed", "removed", "null"}
Frame == [n : Name, o : Obj \cup {NoObj}, at : Place, i : Nat]

TypeOK ==
  /\ table \in [Name -> Obj \cup {NoObj}]
  /\ name \in [Obj -> Name \cup {NoObj}]
  /\ status \in [Obj -> Status]
  /\ owner \in [Obj -> Thread \cup {NoThread}]
  /\ waiters \in [Obj -> SUBSET Thread]
  /\ stack \in [Thread -> Seq(Frame)]
  /\ value \in [Thread -> Obj \cup {NoObj}]
  /\ calls \in [Thread -> Nat] /\ \A t \in Thread : calls[t] <= Calls[t]

Init ==
  /\ table = [n \in Name |-> NoObj]
  /\ name = [o \in Obj |-> NoObj]
  /\ status = [o \in Obj |-> "NONE"]
  /\ owner = [o \in Obj |-> NoThread]
  /\ waiters = [o \in Obj |-> {}]
  /\ stack = [t \in Thread |-> <<>>]
  /\ value = [t \in Thread |-> NoObj]
  /\ calls = [t \in Thread |-> 0]

Busy(t) == stack[t] # <<>>
Top(t) == stack[t][Len(stack[t])]
At(t, place) == Busy(t) /\ Top(t).at = place

SetTop(t, f) == stack' = [stack EXCEPT ![t][Len(stack[t])] = f]
Goto(t, place) == SetTop(t, [Top(t) EXCEPT !.at = place])
Push(t, n) ==
  stack' = [stack EXCEPT ![t] =
              Append(@, [n |-> n, o |-> NoObj, at |-> "lookup", i |-> 1])]

\* A call further out once the one inside has returned o.
Told(f, o) == IF o = NoObj THEN [f EXCEPT !.at = "failed"] ELSE [f EXCEPT !.i = f.i + 1]

\* findClassNoInit returns o, or fails with NoObj and an exception pending:
\* then the class that is being linked fails as well.
Return(t, o) ==
  LET depth == Len(stack[t]) - 1
      rest == SubSeq(stack[t], 1, depth)
  IN /\ value' = [value EXCEPT ![t] = o]
     /\ stack' = [stack EXCEPT ![t] =
          IF depth = 0 THEN <<>> ELSE [rest EXCEPT ![depth] = Told(rest[depth], o)]]
     \* A class whose superclass was not found goes to CLASS_ERROR.
     /\ status' = IF depth > 0 /\ o = NoObj
                  THEN [status EXCEPT ![stack[t][depth].o] = "ERROR"]
                  ELSE status

\* dvmIsClassLinked, and what ends the wait for a class.
Linked(o) == status[o] = "RESOLVED"
Settled(o) == status[o] \in {"RESOLVED", "ERROR"}

\* Objects the collector has given back, or never handed out.
Free == {o \in Obj : /\ \A n \in Name : table[n] # o
                     /\ \A t \in Thread : /\ value[t] # o
                                          /\ \A k \in 1..Len(stack[t]) :
                                               stack[t][k].o # o}

-----------------------------------------------------------------------------
(* findClassNoInit.                                                        *)

FindClass(t, n) ==
  /\ ~ Busy(t) /\ calls[t] < Calls[t]
  /\ Push(t, n)
  /\ calls' = [calls EXCEPT ![t] = @ + 1]
  /\ UNCHANGED <<objVars, value>>

\* dvmLookupClass, then the dex file is searched if the name is not there.
LookupClass(t) ==
  /\ At(t, "lookup")
  /\ LET o == table[Top(t).n] IN
       SetTop(t, [Top(t) EXCEPT !.o = o,
                                !.at = IF o = NoObj THEN "define" ELSE "found"])
  /\ UNCHANGED <<objVars, value, calls>>

\* Mutant: the class goes into the table whoever was first.
AddAnyway(t) ==
  /\ At(t, "define")
  /\ \E o \in Free :
       /\ \A x \in Free : o <= x
       /\ table' = [table EXCEPT ![Top(t).n] = o]
       /\ name' = [name EXCEPT ![o] = Top(t).n]
       /\ status' = [status EXCEPT ![o] = "LOADED"]
       /\ owner' = [owner EXCEPT ![o] = t]
       /\ waiters' = [waiters EXCEPT ![o] = {}]
       /\ SetTop(t, [Top(t) EXCEPT !.o = o, !.at = "link"])
  /\ UNCHANGED <<value, calls>>

\* loadClassFromDex, lock the new object, dvmAddClassToHash: the loser of the
\* race discards its object.
AddClassToHash(t) ==
  /\ At(t, "define")
  /\ \/ /\ table[Top(t).n] = NoObj
        /\ \E o \in Free :
             /\ \A x \in Free : o <= x
             /\ table' = [table EXCEPT ![Top(t).n] = o]
             /\ name' = [name EXCEPT ![o] = Top(t).n]
             /\ status' = [status EXCEPT ![o] = "LOADED"]
             /\ owner' = [owner EXCEPT ![o] = t]
             /\ waiters' = [waiters EXCEPT ![o] = {}]
             /\ SetTop(t, [Top(t) EXCEPT !.o = o, !.at = "link"])
     \/ /\ table[Top(t).n] # NoObj
        /\ Goto(t, "lost")
        /\ UNCHANGED objVars
  /\ UNCHANGED <<value, calls>>

\* No such class in the dex file, or an exception from loadClassFromDex.
LoadFails(t) ==
  /\ At(t, "define") /\ Top(t).n \in MayFail
  /\ Return(t, NoObj)
  /\ UNCHANGED <<table, name, owner, waiters, calls>>

\* "Grab the winning class": which may have failed and gone meanwhile.
GrabWinner(t) ==
  /\ At(t, "lost")
  /\ LET o == table[Top(t).n] IN
       SetTop(t, [Top(t) EXCEPT !.o = o,
                                !.at = IF o = NoObj THEN "null" ELSE "found"])
  /\ UNCHANGED <<objVars, value, calls>>

\* Mutant: a class found in the table is taken as it is.
TakeUnlinked(t) ==
  /\ At(t, "found")
  /\ Return(t, IF status[Top(t).o] # "ERROR" THEN Top(t).o ELSE NoObj)
  /\ UNCHANGED <<table, name, owner, waiters, calls>>

\* got_class: linked, failed, or still to be waited for.
GotClass(t) ==
  /\ At(t, "found")
  /\ IF Settled(Top(t).o)
     THEN Return(t, IF Linked(Top(t).o) THEN Top(t).o ELSE NoObj)
     ELSE Goto(t, "lock") /\ UNCHANGED <<status, value>>
  /\ UNCHANGED <<table, name, owner, waiters, calls>>

\* With the class locked: a circularity if we are the one who links it, else
\* wait until it is settled.
WaitForClass(t) ==
  /\ At(t, "lock")
  /\ LET o == Top(t).o IN
       \/ /\ owner[o] = t /\ ~ Linked(o)
          /\ Return(t, NoObj)
          /\ UNCHANGED waiters
       \/ /\ owner[o] = NoThread /\ t \notin waiters[o]
          /\ IF Settled(o)
             THEN Goto(t, "found") /\ UNCHANGED waiters
             ELSE waiters' = [waiters EXCEPT ![o] = @ \cup {t}]
                  /\ UNCHANGED stack
          /\ UNCHANGED <<status, value>>
  /\ UNCHANGED <<table, name, owner, calls>>

-----------------------------------------------------------------------------
(* dvmLinkClass, called with the lock of the class held.                   *)

\* Resolve the superclass, then the interfaces.
ResolveParent(t) ==
  /\ At(t, "link") /\ Top(t).i <= Len(Parents[Top(t).n])
  /\ Push(t, Parents[Top(t).n][Top(t).i])
  /\ UNCHANGED <<objVars, value, calls>>

\* The tables and the layout are made, or something in them is wrong.
LinkClass(t) ==
  /\ At(t, "link") /\ Top(t).i > Len(Parents[Top(t).n])
  /\ \/ /\ status' = [status EXCEPT ![Top(t).o] = "RESOLVED"]
        /\ Goto(t, "linked")
     \/ /\ Top(t).n \in MayFail
        /\ status' = [status EXCEPT ![Top(t).o] = "ERROR"]
        /\ Goto(t, "failed")
  /\ UNCHANGED <<table, name, owner, waiters, value, calls>>

\* Back in findClassNoInit: wake the waiters, unlock, return the class.
PublishClass(t) ==
  /\ At(t, "linked")
  /\ waiters' = [waiters EXCEPT ![Top(t).o] = {}]
  /\ owner' = [owner EXCEPT ![Top(t).o] = NoThread]
  /\ Return(t, Top(t).o)
  /\ UNCHANGED <<table, name, calls>>

\* Or take the class out of the table ...
RemoveClassFromHash(t) ==
  /\ At(t, "failed")
  /\ table' = [table EXCEPT ![Top(t).n] = NoObj]
  /\ Goto(t, "removed")
  /\ UNCHANGED <<name, status, owner, waiters, value, calls>>

\* Mutant: the lock of a class that failed is kept.
GiveUpLocked(t) ==
  /\ At(t, "removed")
  /\ waiters' = [waiters EXCEPT ![Top(t).o] = {}]
  /\ Return(t, NoObj)
  /\ UNCHANGED <<table, name, owner, calls>>

\* ... and let the waiters know.
GiveUp(t) ==
  /\ At(t, "removed")
  /\ waiters' = [waiters EXCEPT ![Top(t).o] = {}]
  /\ owner' = [owner EXCEPT ![Top(t).o] = NoThread]
  /\ Return(t, NoObj)
  /\ UNCHANGED <<table, name, calls>>

-----------------------------------------------------------------------------
Step(t) ==
  \/ LookupClass(t) \/ LoadFails(t) \/ AddClassToHash(t) \/ GrabWinner(t)
  \/ GotClass(t) \/ WaitForClass(t) \/ ResolveParent(t) \/ LinkClass(t) \/ PublishClass(t)
  \/ RemoveClassFromHash(t) \/ GiveUp(t)

Next == \E t \in Thread : Step(t) \/ \E n \in Name : FindClass(t, n)

Spec == Init /\ [][Next]_vars
FairSpec == Spec /\ \A t \in Thread : WF_vars(Step(t))

-----------------------------------------------------------------------------
(* Properties.                                                             *)

\* Two linked objects never stand for one name, and what has been linked stays
\* in the table: every thread that gets a class gets the same one.
OneClassPerName ==
  \A o \in Obj \ Free : Linked(o) => table[name[o]] = o

\* What findClassNoInit returns is linked, with all it extends and implements.
ReturnedIsLinked ==
  \A t \in Thread : value[t] # NoObj =>
    /\ Linked(value[t])
    /\ \A i \in 1..Len(Parents[name[value[t]]]) :
         LET p == Parents[name[value[t]]][i] IN
           table[p] # NoObj /\ Linked(table[p])

\* A thread lost in the null pointer that GrabWinner may return.
Crashed(t) == At(t, "null")

\* With a hierarchy that has no cycle every lookup returns, whatever classes
\* fail and in whatever order the threads lock them.
LookupsReturn ==
  \A t \in Thread : Busy(t) ~> (~ Busy(t) \/ \E u \in Thread : Crashed(u))

\* "Grab the winning class": the assertion that it is there.
WinnerIsThere == \A t \in Thread : ~ Crashed(t)
=============================================================================
