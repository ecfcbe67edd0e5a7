--------------------------- MODULE ClassLoadProofs ---------------------------
(***************************************************************************)
(* Proofs about ClassLoad for any threads, any hierarchy, circular ones    *)
(* included, and any classes that fail: a name has one linked class, and   *)
(* what a lookup returns is linked, with all it extends and implements.    *)
(***************************************************************************)
EXTENDS ClassLoad, Integers, SequenceTheorems, TLAPS

-----------------------------------------------------------------------------
(* The inductive invariant, a statement about each call under way.         *)

\* Where a call has the class it defines.
Defining == {"link", "linked", "failed", "removed"}
Knowing == Defining \cup {"found", "lock"}

\* The object of class n is in the table, linked.
NameLinked(n) == table[n] # NoObj /\ Linked(table[n])

\* The k-th call of t, and what it knows of its class.
FrameOK(t, k) ==
  LET f == stack[t][k] IN
    /\ f.i >= 1 /\ (f.at \notin Defining => f.i = 1)
    /\ f.at \in Knowing => f.o \in Obj /\ name[f.o] = f.n
    /\ f.at \in Defining => owner[f.o] = t
    /\ f.at = "link" => /\ status[f.o] = "LOADED"
                        /\ \A i \in 1..Len(Parents[f.n]) : i < f.i => NameLinked(Parents[f.n][i])
    /\ f.at = "linked" => Linked(f.o)
    /\ f.at \in {"failed", "removed"} => status[f.o] = "ERROR"
    /\ f.at \in {"link", "failed"} => table[f.n] = f.o

\* A call further out is resolving the parent that the next one looks up.
Resolving(t, k) ==
  LET f == stack[t][k] IN
    /\ f.at = "link" /\ f.i <= Len(Parents[f.n])
    /\ stack[t][k + 1].n = Parents[f.n][f.i]

Frames == \A t \in Thread : \A k \in 1..Len(stack[t]) : FrameOK(t, k)

\* The calls of a thread resolve each other's classes, and define different ones.
Chain ==
  \A t \in Thread :
    /\ \A k \in 1..(Len(stack[t]) - 1) : Resolving(t, k)
    /\ \A k, l \in 1..Len(stack[t]) :
         stack[t][k].at \in Defining /\ stack[t][l].at \in Defining /\ k # l =>
           stack[t][k].o # stack[t][l].o

\* What is linked stays in the table, with its parents.
LinkedInv ==
  /\ \A o \in Obj : Linked(o) =>
       /\ name[o] \in Name /\ table[name[o]] = o
       /\ \A i \in 1..Len(Parents[name[o]]) : NameLinked(Parents[name[o]][i])
  /\ \A n \in Name : table[n] # NoObj => name[table[n]] = n
  /\ \A t \in Thread : value[t] # NoObj => Linked(value[t])

LoadInv == TypeOK /\ Frames /\ Chain /\ LinkedInv

LEMMA ParentsAreNames ==
  ASSUME NEW n \in Name
  PROVE  Len(Parents[n]) \in Nat /\ \A i \in 1..Len(Parents[n]) : Parents[n][i] \in Name
<1>1. Parents[n] \in Seq(Name)
  BY ClassLoadAssumption DEF ClassLoadAssumption
<1> QED
  BY <1>1, ElementOfSeq, LenProperties

-----------------------------------------------------------------------------
(* What the operations do to the stacks.                                   *)

StackType == stack \in [Thread -> Seq(Frame)]

\* The stacks agree but for the frame of t at k.
OnlyFrame(t, k) ==
  \A u \in Thread : \A l \in 1..Len(stack'[u]) :
    u # t \/ l # k => l \in 1..Len(stack[u]) /\ stack'[u][l] = stack[u][l]

\* Positions in a stack of n calls, and in one of n - 1 or n + 1.
LEMMA Positions ==
  ASSUME NEW n \in Nat
  PROVE  /\ \A k \in 1..(n - 1) : k \in 1..n /\ k + 1 \in 1..n /\ k # n
         /\ \A k \in 1..(n + 1) : k # n + 1 => k \in 1..n
         /\ \A k \in 1..n : k # n => k \in 1..(n - 1)
         /\ n - 1 \in Nat =>
              /\ n - 1 = 0 => 1..(n - 1) = {}
              /\ n - 1 # 0 => n - 1 \in 1..(n - 1) /\ n - 1 \in 1..n
OBVIOUS

LEMMA FramesAreFrames ==
  ASSUME StackType
  PROVE  \A t \in Thread :
           /\ Len(stack[t]) \in Nat
           /\ \A k \in 1..Len(stack[t]) : stack[t][k] \in Frame
           /\ Busy(t) => Len(stack[t]) \in 1..Len(stack[t]) /\ Top(t) \in Frame
<1> SUFFICES ASSUME NEW t \in Thread
             PROVE  /\ Len(stack[t]) \in Nat
                    /\ \A k \in 1..Len(stack[t]) : stack[t][k] \in Frame
                    /\ Busy(t) => Len(stack[t]) \in 1..Len(stack[t]) /\ Top(t) \in Frame
  OBVIOUS
<1>1. stack[t] \in Seq(Frame)
  BY DEF StackType
<1>2. Len(stack[t]) \in Nat /\ \A k \in 1..Len(stack[t]) : stack[t][k] \in Frame
  BY <1>1, ElementOfSeq, LenProperties
<1>3. Busy(t) => Len(stack[t]) # 0
  BY <1>1, EmptySeq DEF Busy
<1> QED
  BY <1>2, <1>3 DEF Top

LEMMA SettingTop ==
  ASSUME StackType, NEW t \in Thread, Busy(t), NEW f \in Frame, SetTop(t, f)
  PROVE  /\ StackType'
         /\ \A u \in Thread : Len(stack'[u]) = Len(stack[u])
         /\ OnlyFrame(t, Len(stack[t])) /\ stack'[t][Len(stack[t])] = f
<1> DEFINE n == Len(stack[t])
           s == [stack[t] EXCEPT ![n] = f]
<1>1. stack[t] \in Seq(Frame) /\ n \in 1..n /\ stack' = [stack EXCEPT ![t] = s]
  BY FramesAreFrames DEF StackType, SetTop
<1>2. s \in Seq(Frame) /\ Len(s) = n /\ \A k \in 1..n : s[k] = IF k = n THEN f ELSE stack[t][k]
  BY <1>1, ExceptSeq, LenProperties
<1>3. StackType' /\ stack'[t] = s /\ \A u \in Thread : u # t => stack'[u] = stack[u]
  BY <1>1, <1>2 DEF StackType
<1> QED
  BY <1>1, <1>2, <1>3 DEF OnlyFrame

LEMMA Pushing ==
  ASSUME StackType, NEW t \in Thread, NEW n \in Name, Push(t, n)
  PROVE  LET d == Len(stack[t]) + 1
         IN  /\ StackType'
             /\ \A u \in Thread : u # t => Len(stack'[u]) = Len(stack[u])
             /\ Len(stack'[t]) = d /\ OnlyFrame(t, d)
             /\ stack'[t][d] = [n |-> n, o |-> NoObj, at |-> "lookup", i |-> 1]
<1> DEFINE f == [n |-> n, o |-> NoObj, at |-> "lookup", i |-> 1]
           s == Append(stack[t], f)
<1>1. stack[t] \in Seq(Frame) /\ stack' = [stack EXCEPT ![t] = s] /\ f \in Frame
  BY DEF StackType, Push, Frame, Place
<1>2. /\ s \in Seq(Frame) /\ Len(s) = Len(stack[t]) + 1 /\ Len(stack[t]) \in Nat
      /\ s[Len(stack[t]) + 1] = f
      /\ \A k \in 1..Len(stack[t]) : s[k] = stack[t][k]
  BY <1>1, AppendProperties, LenProperties
<1>3. StackType' /\ stack'[t] = s /\ \A u \in Thread : u # t => stack'[u] = stack[u]
  BY <1>1, <1>2 DEF StackType
<1>4. OnlyFrame(t, Len(stack[t]) + 1)
  <2>1. /\ Len(stack[t]) \in Nat /\ stack'[t] = s /\ Len(s) = Len(stack[t]) + 1
        /\ \A k \in 1..Len(stack[t]) : s[k] = stack[t][k]
        /\ \A u \in Thread : u # t => stack'[u] = stack[u]
    BY <1>2, <1>3
  <2> HIDE DEF s
  <2>2. \A l \in 1..Len(s) : l # Len(stack[t]) + 1 => l \in 1..Len(stack[t])
    BY <2>1
  <2> QED
    BY <2>1, <2>2 DEF OnlyFrame
<1> QED
  BY <1>2, <1>3, <1>4

LEMMA Returning ==
  ASSUME StackType, NEW t \in Thread, Busy(t), NEW o \in Obj \cup {NoObj}, Return(t, o)
  PROVE  LET d == Len(stack[t]) - 1
         IN  /\ StackType'
             /\ \A u \in Thread : u # t => Len(stack'[u]) = Len(stack[u])
             /\ d \in Nat /\ Len(stack'[t]) = d /\ OnlyFrame(t, d)
             /\ d > 0 => d \in 1..Len(stack[t]) /\ stack'[t][d] = Told(stack[t][d], o)
<1> DEFINE d == Len(stack[t]) - 1
           r == SubSeq(stack[t], 1, d)
           s == IF d = 0 THEN <<>> ELSE [r EXCEPT ![d] = Told(r[d], o)]
<1>0. Len(stack[t]) \in Nat /\ d \in Nat
  BY FramesAreFrames
<1>1. stack[t] \in Seq(Frame) /\ Len(stack[t]) \in Nat /\ d \in Nat /\ d + 1 = Len(stack[t])
  BY FramesAreFrames DEF StackType
<1>n. /\ d = 0 => 1..d = {}
      /\ d # 0 => d \in 1..d /\ d \in 1..Len(stack[t])
  BY <1>0, Positions
<1>2. r \in Seq(Frame) /\ Len(r) = d /\ \A k \in 1..d : r[k] = stack[t][k]
  BY <1>1, SubSeqProperties
<1>3. stack' = [stack EXCEPT ![t] = s]
  BY DEF Return
<1>4. stack'[t] = s /\ \A u \in Thread : u # t => stack'[u] = stack[u]
  BY <1>3 DEF StackType
<1>5. /\ s \in Seq(Frame) /\ Len(s) = d
      /\ \A k \in 1..d : s[k] = IF k = d THEN Told(stack[t][k], o) ELSE stack[t][k]
  <2>1. CASE d = 0
    <3>1. s = <<>>
      BY <2>1
    <3>2. s \in Seq(Frame) /\ Len(s) = 0
      BY <3>1, EmptySeq
    <3> HIDE DEF s
    <3> QED
      BY <1>n, <2>1, <3>2
  <2>2. CASE d # 0
    <3> HIDE DEF r
    <3>1. d \in 1..d /\ d \in 1..Len(stack[t]) /\ r[d] = stack[t][d] /\ stack[t][d] \in Frame
      BY <1>2, <1>n, <2>2, FramesAreFrames
    <3>2. Told(r[d], o) \in Frame
      BY <3>1 DEF Frame, Place, Told
    <3>3. s = [r EXCEPT ![d] = Told(r[d], o)]
      BY <2>2
    <3> HIDE DEF s, r, d
    <3> QED
      BY <1>2, <3>1, <3>2, <3>3, ExceptSeq
  <2> QED
    BY <2>1, <2>2
<1> HIDE DEF s, r
<1>6. StackType'
  BY <1>3, <1>5 DEF StackType
<1>7. OnlyFrame(t, d)
  BY <1>1, <1>4, <1>5 DEF OnlyFrame
<1>8. d > 0 => d \in 1..Len(stack[t]) /\ stack'[t][d] = Told(stack[t][d], o)
  BY <1>1, <1>4, <1>5
<1> QED
  BY <1>1, <1>4, <1>5, <1>6, <1>7, <1>8

-----------------------------------------------------------------------------
(* What is left of the invariant when a step changes one call.             *)

\* A free object is nobody's.
LEMMA FreeIsUnknown ==
  ASSUME NEW o \in Free
  PROVE  /\ o \in Obj
         /\ \A n \in Name : table[n] # o
         /\ \A u \in Thread : value[u] # o
         /\ \A u \in Thread : \A k \in 1..Len(stack[u]) : stack[u][k].o # o
  BY DEF Free

\* The class a call defines, and its name in the table, are no other call's.
LEMMA DefinedIsOwn ==
  ASSUME LoadInv, NEW t \in Thread, NEW j \in 1..Len(stack[t]),
         NEW u \in Thread, NEW k \in 1..Len(stack[u]), u # t \/ k # j,
         stack[t][j].at \in Defining, stack[u][k].at \in Defining
  PROVE  /\ stack[u][k].o # stack[t][j].o
         /\ stack[t][j].at \in {"link", "failed"} /\ stack[u][k].at \in {"link", "failed"}
              => stack[u][k].n # stack[t][j].n
<1> USE DEF LoadInv
<1>1. FrameOK(t, j) /\ FrameOK(u, k)
  BY DEF Frames
<1>2. stack[u][k].o # stack[t][j].o
  <2>1. CASE u = t
    BY <2>1 DEF Chain
  <2>2. CASE u # t
    BY <1>1, <2>2 DEF FrameOK
  <2> QED
    BY <2>1, <2>2
<1> QED
  BY <1>1, <1>2 DEF FrameOK

\* A linked class stays linked and in the table.
NamesStay == \A n \in Name : NameLinked(n) => NameLinked(n)'

LEMMA FrameStays ==
  ASSUME StackType, NEW u \in Thread, NEW k \in 1..Len(stack[u]), FrameOK(u, k), NamesStay,
         stack'[u][k] = stack[u][k],
         stack[u][k].at \in Knowing => name'[stack[u][k].o] = name[stack[u][k].o],
         stack[u][k].at \in Defining => /\ owner'[stack[u][k].o] = owner[stack[u][k].o]
                                        /\ status'[stack[u][k].o] = status[stack[u][k].o],
         stack[u][k].at \in {"link", "failed"} => table'[stack[u][k].n] = table[stack[u][k].n]
  PROVE  FrameOK(u, k)'
<1>1. stack[u][k].n \in Name
  BY FramesAreFrames DEF Frame
<1>2. \A i \in 1..Len(Parents[stack[u][k].n]) : Parents[stack[u][k].n][i] \in Name
  BY <1>1, ParentsAreNames
<1> QED
  BY <1>2 DEF FrameOK, NamesStay, Defining, Knowing, Linked

\* A step that sets the top call keeps the chain, if it defines nothing but what
\* it did before, or what was free.
LEMMA TopKeepsChain ==
  ASSUME LoadInv, NEW t \in Thread, Busy(t), NEW f \in Frame, SetTop(t, f), f.n = Top(t).n,
         f.at \in Defining =>
           f.o \in Free \/ (Top(t).at \in Defining /\ f.o = Top(t).o)
  PROVE  Chain'
<1> DEFINE m == Len(stack[t])
<1>1. StackType
  BY DEF LoadInv, TypeOK, StackType
<1>2. /\ \A u \in Thread : Len(stack'[u]) = Len(stack[u])
      /\ OnlyFrame(t, m) /\ stack'[t][m] = f
  BY <1>1, SettingTop
<1>3. m \in 1..m /\ Top(t) = stack[t][m] /\ \A u \in Thread : Len(stack[u]) \in Nat
  BY <1>1, FramesAreFrames DEF Top
<1>4. \A u \in Thread : \A k \in 1..Len(stack[u]) :
        stack'[u][k] = IF u = t /\ k = m THEN f ELSE stack[u][k]
  BY <1>2 DEF OnlyFrame
<1>5. ASSUME NEW u \in Thread, NEW k \in 1..(Len(stack'[u]) - 1) PROVE Resolving(u, k)'
  <2>1. k \in 1..Len(stack[u]) /\ k + 1 \in 1..Len(stack[u]) /\ k \in 1..(Len(stack[u]) - 1)
        /\ (u = t => k # m)
    BY <1>2, <1>3, Positions
  <2>2. stack'[u][k] = stack[u][k] /\ stack'[u][k + 1].n = stack[u][k + 1].n
    BY <1>3, <1>4, <2>1
  <2>3. Resolving(u, k)
    BY <2>1 DEF LoadInv, Chain
  <2> QED
    BY <2>2, <2>3 DEF Resolving
<1>6. ASSUME NEW u \in Thread, NEW k \in 1..Len(stack'[u]), NEW l \in 1..Len(stack'[u]),
             stack'[u][k].at \in Defining, stack'[u][l].at \in Defining, k # l
      PROVE  stack'[u][k].o # stack'[u][l].o
  <2>1. k \in 1..Len(stack[u]) /\ l \in 1..Len(stack[u])
    BY <1>2
  <2>2. f.at \in Defining /\ f.o \in Free =>
          \A v \in Thread : \A j \in 1..Len(stack[v]) : stack[v][j].o # f.o
    BY FreeIsUnknown
  <2>3. stack[u][k].at \in Defining /\ stack[u][l].at \in Defining =>
          stack[u][k].o # stack[u][l].o
    BY <1>6, <2>1 DEF LoadInv, Chain
  <2>4. CASE u = t /\ k = m
    BY <1>3, <1>4, <1>6, <2>1, <2>2, <2>3, <2>4
  <2>5. CASE u = t /\ l = m
    BY <1>3, <1>4, <1>6, <2>1, <2>2, <2>3, <2>5
  <2> QED
    BY <1>4, <1>6, <2>1, <2>3, <2>4, <2>5
<1> QED
  BY <1>5, <1>6 DEF Chain

\* A call of the class that the last one waits for.
LEMMA PushKeepsChain ==
  ASSUME LoadInv, NEW t \in Thread, NEW n \in Name, Push(t, n),
         Busy(t) => /\ Top(t).at = "link" /\ Top(t).i <= Len(Parents[Top(t).n])
                    /\ n = Parents[Top(t).n][Top(t).i]
  PROVE  Chain'
<1> DEFINE m == Len(stack[t])
<1>1. StackType
  BY DEF LoadInv, TypeOK, StackType
<1>2. /\ \A u \in Thread : u # t => Len(stack'[u]) = Len(stack[u])
      /\ Len(stack'[t]) = m + 1 /\ OnlyFrame(t, m + 1)
      /\ stack'[t][m + 1].n = n /\ stack'[t][m + 1].at = "lookup"
  <2>1. stack'[t][m + 1] = [n |-> n, o |-> NoObj, at |-> "lookup", i |-> 1]
    BY <1>1, Pushing
  <2> HIDE DEF m
  <2>2. stack'[t][m + 1].n = n /\ stack'[t][m + 1].at = "lookup"
    BY <2>1
  <2> QED
    BY <1>1, <2>2, Pushing DEF m
<1>3. /\ \A u \in Thread : Len(stack[u]) \in Nat
      /\ m # 0 => Busy(t) /\ m \in 1..m /\ Top(t) = stack[t][m]
  <2>1. \A u \in Thread : Len(stack[u]) \in Nat
    BY <1>1, FramesAreFrames
  <2>2. m # 0 => Busy(t)
    BY EmptySeq DEF Busy
  <2> QED
    BY <1>1, <2>1, <2>2, FramesAreFrames DEF Top
<1>4. ASSUME NEW u \in Thread, NEW k \in 1..(Len(stack'[u]) - 1) PROVE Resolving(u, k)'
  <2>1. CASE u = t /\ k = m
    <3>1. m \in 1..m /\ Busy(t) /\ Top(t) = stack[t][m] /\ m # m + 1 /\ m \in 1..(m + 1)
      BY <1>2, <1>3, <1>4, <2>1
    <3>2. stack'[t][m] = stack[t][m]
      BY <1>2, <3>1 DEF OnlyFrame
    <3> QED
      BY <1>2, <2>1, <3>1, <3>2 DEF Resolving
  <2>2. CASE u # t \/ k # m
    <3>1. /\ k \in 1..Len(stack'[u]) /\ k + 1 \in 1..Len(stack'[u]) /\ k \in 1..(Len(stack[u]) - 1)
          /\ u = t => k # m + 1 /\ k + 1 # m + 1
      BY <1>2, <1>3, <1>4, <2>2
    <3>2. stack'[u][k] = stack[u][k] /\ stack'[u][k + 1] = stack[u][k + 1]
      BY <1>2, <3>1 DEF OnlyFrame
    <3>3. Resolving(u, k)
      BY <3>1 DEF LoadInv, Chain
    <3> QED
      BY <3>2, <3>3 DEF Resolving
  <2> QED
    BY <2>1, <2>2
<1>5. ASSUME NEW u \in Thread, NEW k \in 1..Len(stack'[u]), NEW l \in 1..Len(stack'[u]),
             stack'[u][k].at \in Defining, stack'[u][l].at \in Defining, k # l
      PROVE  stack'[u][k].o # stack'[u][l].o
  <2>1. u = t => k # m + 1 /\ l # m + 1
    BY <1>2, <1>5 DEF Defining
  <2>2. /\ k \in 1..Len(stack[u]) /\ stack'[u][k] = stack[u][k]
        /\ l \in 1..Len(stack[u]) /\ stack'[u][l] = stack[u][l]
    BY <1>2, <2>1 DEF OnlyFrame
  <2> QED
    BY <1>5, <2>2 DEF LoadInv, Chain
<1> QED
  BY <1>4, <1>5 DEF Chain

\* The call further out goes on with its class.
LEMMA ReturnKeepsChain ==
  ASSUME LoadInv, NEW t \in Thread, Busy(t), NEW o \in Obj \cup {NoObj}, Return(t, o)
  PROVE  Chain'
<1> DEFINE d == Len(stack[t]) - 1
<1>1. StackType
  BY DEF LoadInv, TypeOK, StackType
<1>2. /\ \A u \in Thread : u # t => Len(stack'[u]) = Len(stack[u])
      /\ d \in Nat /\ Len(stack'[t]) = d /\ OnlyFrame(t, d)
      /\ d > 0 => d \in 1..Len(stack[t]) /\ stack'[t][d] = Told(stack[t][d], o)
  BY <1>1, Returning
<1>3. \A u \in Thread : Len(stack[u]) \in Nat /\ Len(stack'[u]) \in Nat
  BY <1>1, <1>2, FramesAreFrames
<1>4. \A f \in Frame : Told(f, o).n = f.n /\ Told(f, o).o = f.o
  BY DEF Told, Frame
<1>5. \A u \in Thread : \A k \in 1..Len(stack'[u]) :
        /\ k \in 1..Len(stack[u]) /\ stack[u][k] \in Frame
        /\ stack'[u][k].n = stack[u][k].n /\ stack'[u][k].o = stack[u][k].o
        /\ u # t \/ k # d => stack'[u][k] = stack[u][k]
  <2> SUFFICES ASSUME NEW u \in Thread, NEW k \in 1..Len(stack'[u])
               PROVE  /\ k \in 1..Len(stack[u]) /\ stack[u][k] \in Frame
                      /\ stack'[u][k].n = stack[u][k].n /\ stack'[u][k].o = stack[u][k].o
                      /\ u # t \/ k # d => stack'[u][k] = stack[u][k]
    OBVIOUS
  <2>1. CASE u = t /\ k = d
    BY <1>1, <1>2, <1>4, <2>1, FramesAreFrames
  <2>2. CASE u # t \/ k # d
    BY <1>1, <1>2, <2>2, FramesAreFrames DEF OnlyFrame
  <2> QED
    BY <2>1, <2>2
<1>6. ASSUME NEW u \in Thread, NEW k \in 1..(Len(stack'[u]) - 1) PROVE Resolving(u, k)'
  <2>1. /\ k \in 1..Len(stack'[u]) /\ k + 1 \in 1..Len(stack'[u]) /\ (u # t \/ k # d)
        /\ k \in 1..(Len(stack[u]) - 1)
    BY <1>2, <1>3, <1>6
  <2>2. Resolving(u, k)
    BY <2>1 DEF LoadInv, Chain
  <2> QED
    BY <1>5, <2>1, <2>2 DEF Resolving
<1>7. d > 0 => stack[t][d].at = "link"
  <2>1. d > 0 => d \in 1..(Len(stack[t]) - 1)
    BY <1>2
  <2> QED
    BY <2>1 DEF LoadInv, Chain, Resolving
<1>8. ASSUME NEW u \in Thread, NEW k \in 1..Len(stack'[u]), NEW l \in 1..Len(stack'[u]),
             stack'[u][k].at \in Defining, stack'[u][l].at \in Defining, k # l
      PROVE  stack'[u][k].o # stack'[u][l].o
  <2>1. stack[u][k].at \in Defining /\ stack[u][l].at \in Defining
    BY <1>3, <1>5, <1>7, <1>8 DEF Defining
  <2> QED
    BY <1>5, <1>8, <2>1 DEF LoadInv, Chain
<1> QED
  BY <1>6, <1>8 DEF Chain

\* What a step owes LinkedInv when the classes and the table are as they were,
\* or some class that is being linked has failed.
LEMMA LinkedStays ==
  ASSUME LoadInv, UNCHANGED <<table, name>>,
         NEW t \in Thread,
         \A o \in Obj : Linked(o) <=> Linked(o)',
         value' = value \/ \E o \in Obj \cup {NoObj} :
                             value' = [value EXCEPT ![t] = o] /\ (o # NoObj => Linked(o))
  PROVE  NamesStay /\ LinkedInv'
<1> USE DEF LoadInv
<1>1. \A n \in Name : table[n] # NoObj => table[n] \in Obj
  BY DEF TypeOK
<1>2. \A n \in Name : NameLinked(n) => NameLinked(n)'
  BY <1>1 DEF NameLinked
<1>3. \A o \in Obj : Linked(o) =>
        \A i \in 1..Len(Parents[name[o]]) : Parents[name[o]][i] \in Name
  <2> SUFFICES ASSUME NEW o \in Obj, Linked(o)
               PROVE  \A i \in 1..Len(Parents[name[o]]) : Parents[name[o]][i] \in Name
    OBVIOUS
  <2>1. name[o] \in Name
    BY DEF LinkedInv
  <2>2. \A n \in Name : \A i \in 1..Len(Parents[n]) : Parents[n][i] \in Name
    BY ParentsAreNames
  <2> QED
    BY <2>1, <2>2
<1>4. \A u \in Thread : value'[u] # NoObj => value'[u] \in Obj /\ Linked(value'[u])
  <2>1. /\ value \in [Thread -> Obj \cup {NoObj}]
        /\ \A u \in Thread : value[u] # NoObj => Linked(value[u])
    BY DEF LinkedInv, TypeOK
  <2>2. \A u \in Thread : value[u] # NoObj => value[u] \in Obj /\ Linked(value[u])
    BY <2>1
  <2>3. CASE value' = value
    BY <2>2, <2>3
  <2>4. ASSUME NEW o \in Obj \cup {NoObj}, value' = [value EXCEPT ![t] = o],
               o # NoObj => Linked(o)
        PROVE  \A u \in Thread : value'[u] # NoObj => value'[u] \in Obj /\ Linked(value'[u])
    <3> HIDE DEF LoadInv
    <3>1. \A u \in Thread : value'[u] = IF u = t THEN o ELSE value[u]
      BY <2>1, <2>4
    <3> QED
      BY <2>2, <2>4, <3>1
  <2> QED
    BY <2>3, <2>4
<1>5. \A u \in Thread : value'[u] # NoObj => Linked(value[u])'
  BY <1>4
<1>6. ASSUME NEW o \in Obj, Linked(o)'
      PROVE  /\ name'[o] \in Name /\ table'[name'[o]] = o
             /\ \A i \in 1..Len(Parents[name'[o]]) : NameLinked(Parents[name[o]][i])'
  BY <1>2, <1>3, <1>6 DEF LinkedInv
<1> QED
  BY <1>2, <1>5, <1>6 DEF LinkedInv, NamesStay

\* A step that changes no class and no call, only who sleeps.
LEMMA SleepingKeeps ==
  ASSUME LoadInv, UNCHANGED <<table, name, status, owner, stack, value>>
  PROVE  Frames' /\ Chain' /\ LinkedInv'
<1>1. StackType
  BY DEF LoadInv, TypeOK, StackType
<1>2. NamesStay
  BY DEF NamesStay, NameLinked, Linked
<1>3. ASSUME NEW u \in Thread, NEW k \in 1..Len(stack'[u]) PROVE FrameOK(u, k)'
  <2>1. k \in 1..Len(stack[u]) /\ FrameOK(u, k)
    BY DEF LoadInv, Frames
  <2> QED
    BY <1>1, <1>2, <2>1, FrameStays
<1>4. ASSUME NEW u \in Thread, NEW k \in 1..(Len(stack'[u]) - 1) PROVE Resolving(u, k)'
  <2>1. k \in 1..(Len(stack[u]) - 1)
    BY <1>4
  <2>2. Resolving(u, k)
    BY <2>1 DEF LoadInv, Chain
  <2> QED
    BY <2>2 DEF Resolving
<1>5. ASSUME NEW u \in Thread, NEW k \in 1..Len(stack'[u]), NEW l \in 1..Len(stack'[u]),
             stack'[u][k].at \in Defining, stack'[u][l].at \in Defining, k # l
      PROVE  stack'[u][k].o # stack'[u][l].o
  <2>1. k \in 1..Len(stack[u]) /\ l \in 1..Len(stack[u]) /\ stack'[u] = stack[u]
    BY <1>5
  <2> QED
    BY <1>5, <2>1 DEF LoadInv, Chain
<1>6. LinkedInv'
  BY DEF LoadInv, LinkedInv, NameLinked, Linked
<1> QED
  BY <1>3, <1>4, <1>5, <1>6 DEF Frames, Chain

\* A step that moves a call to a place where it defines no class.
LEMMA QuietTop ==
  ASSUME LoadInv, NEW t \in Thread, Busy(t), NEW f \in Frame, SetTop(t, f),
         f.n = Top(t).n, f.i = 1, f.at \notin Defining,
         f.at \in Knowing => f.o \in Obj /\ name[f.o] = f.n,
         UNCHANGED <<table, name, status, owner, value>>
  PROVE  StackType' /\ Frames' /\ Chain' /\ LinkedInv'
<1> DEFINE m == Len(stack[t])
<1>1. StackType
  BY DEF LoadInv, TypeOK, StackType
<1>2. /\ StackType' /\ \A u \in Thread : Len(stack'[u]) = Len(stack[u])
      /\ OnlyFrame(t, m) /\ stack'[t][m] = f
  BY <1>1, SettingTop
<1>3. NamesStay /\ LinkedInv'
  BY LinkedStays DEF Linked
<1>4. Chain'
  BY TopKeepsChain
<1>5. ASSUME NEW u \in Thread, NEW k \in 1..Len(stack'[u]) PROVE FrameOK(u, k)'
  <2>1. CASE u = t /\ k = m
    BY <1>2, <2>1 DEF FrameOK, Defining
  <2>2. CASE u # t \/ k # m
    <3>1. k \in 1..Len(stack[u]) /\ stack'[u][k] = stack[u][k]
      BY <1>2, <2>2 DEF OnlyFrame
    <3>2. FrameOK(u, k)
      BY <3>1 DEF LoadInv, Frames
    <3> QED
      BY <1>1, <1>3, <3>1, <3>2, FrameStays
  <2> QED
    BY <2>1, <2>2
<1> QED
  BY <1>2, <1>3, <1>4, <1>5 DEF Frames

\* A call that returns what is linked, or fails.
LEMMA ReturnKeeps ==
  ASSUME LoadInv, NEW t \in Thread, Busy(t), NEW o \in Obj \cup {NoObj}, Return(t, o),
         o # NoObj => Linked(o) /\ name[o] = Top(t).n,
         UNCHANGED <<table, name>>,
         \/ owner' = owner
         \/ Top(t).at \in Defining /\ owner' = [owner EXCEPT ![Top(t).o] = NoThread]
  PROVE  /\ StackType' /\ Frames' /\ Chain' /\ LinkedInv'
         /\ status' \in [Obj -> Status] /\ value' \in [Thread -> Obj \cup {NoObj}]
<1> DEFINE m == Len(stack[t])
           d == Len(stack[t]) - 1
           g == stack[t][d]
           InTable(n) == table'[n] # NoObj /\ status'[table'[n]] = "RESOLVED"
<1>1. StackType
  BY DEF LoadInv, TypeOK, StackType
<1>2. /\ StackType' /\ \A u \in Thread : u # t => Len(stack'[u]) = Len(stack[u])
      /\ d \in Nat /\ Len(stack'[t]) = d /\ OnlyFrame(t, d)
      /\ d > 0 => d \in 1..Len(stack[t]) /\ stack'[t][d] = Told(stack[t][d], o)
  BY <1>1, Returning
<1>3. m \in 1..m /\ Top(t) = stack[t][m] /\ \A u \in Thread : Len(stack[u]) \in Nat
  BY <1>1, FramesAreFrames DEF Top
<1>4. d > 0 => /\ d \in 1..(Len(stack[t]) - 1) /\ d # m /\ d + 1 = m
               /\ g \in Frame /\ FrameOK(t, d) /\ g.at = "link" /\ g.o \in Obj
               /\ g.i \in 1..Len(Parents[g.n]) /\ Parents[g.n][g.i] = Top(t).n
  <2>1. SUFFICES ASSUME d > 0
                 PROVE  /\ d \in 1..(Len(stack[t]) - 1) /\ d # m /\ d + 1 = m
                        /\ g \in Frame /\ FrameOK(t, d) /\ g.at = "link" /\ g.o \in Obj
                        /\ g.i \in 1..Len(Parents[g.n]) /\ Parents[g.n][g.i] = Top(t).n
    OBVIOUS
  <2>2. d \in 1..(Len(stack[t]) - 1) /\ d # m /\ d + 1 = m
    BY <1>2, <1>3, <2>1
  <2>3. g \in Frame
    BY <1>1, <1>2, <2>1, FramesAreFrames
  <2>4. Resolving(t, d)
    BY <2>2 DEF LoadInv, Chain
  <2>5. FrameOK(t, d)
    BY <1>2, <2>1 DEF LoadInv, Frames
  <2>6. g.i \in Nat /\ g.n \in Name
    BY <2>3 DEF Frame
  <2>7. Len(Parents[g.n]) \in Nat
    BY <2>6, ParentsAreNames
  <2> QED
    BY <1>3, <2>2, <2>3, <2>4, <2>5, <2>6, <2>7 DEF Resolving, FrameOK, Knowing, Defining
<1> HIDE DEF m, d, g
<1>5. status' = IF d > 0 /\ o = NoObj THEN [status EXCEPT ![g.o] = "ERROR"] ELSE status
  BY DEF Return, d, g
<1>6. /\ value' = [value EXCEPT ![t] = o]
      /\ status \in [Obj -> Status] /\ value \in [Thread -> Obj \cup {NoObj}]
  BY DEF Return, LoadInv, TypeOK
<1>7. d > 0 => status[g.o] = "LOADED"
  BY <1>4 DEF FrameOK, g
<1>8. \A p \in Obj : Linked(p) <=> Linked(p)'
  BY <1>4, <1>5, <1>6, <1>7 DEF Linked
<1>9. NamesStay /\ LinkedInv'
  BY <1>6, <1>8, LinkedStays
<1>10. Chain'
  BY ReturnKeepsChain
<1>11. ASSUME NEW u \in Thread, NEW k \in 1..Len(stack'[u]) PROVE FrameOK(u, k)'
  <2>1. k \in 1..Len(stack[u]) /\ (u = t => k # m)
    BY <1>2, <1>3, <1>11 DEF m, d
  <2>2. FrameOK(u, k)
    BY <2>1 DEF LoadInv, Frames
  <2>3. stack[u][k].at \in Defining => owner'[stack[u][k].o] = owner[stack[u][k].o]
    <3>1. stack[u][k].at \in Defining /\ Top(t).at \in Defining => stack[u][k].o # Top(t).o
      BY <1>3, <2>1, DefinedIsOwn DEF m
    <3>2. stack[u][k].at \in Defining => stack[u][k].o \in Obj
      BY <2>2 DEF FrameOK, Knowing
    <3>3. owner \in [Obj -> Thread \cup {NoThread}]
      BY DEF LoadInv, TypeOK
    <3> QED
      BY <3>1, <3>2, <3>3
  <2>4. CASE u = t /\ k = d
    <3>1. d > 0
      BY <1>11, <2>4
    <3>2. stack'[t][d] = Told(g, o) /\ g = stack[t][d]
      BY <1>2, <3>1 DEF d, g
    <3>3. \A i \in 1..Len(Parents[g.n]) : Parents[g.n][i] \in Name
      BY <1>4, <3>1, ParentsAreNames DEF Frame
    <3>4. CASE o = NoObj
      <4>1. Told(g, o) = [g EXCEPT !.at = "failed"]
        BY <3>4 DEF Told
      <4>2. /\ stack'[t][d].n = g.n /\ stack'[t][d].o = g.o /\ stack'[t][d].i = g.i
            /\ stack'[t][d].at = "failed"
        BY <1>4, <3>1, <3>2, <4>1 DEF Frame
      <4>3. status'[g.o] = "ERROR"
        BY <1>4, <1>5, <1>6, <3>1, <3>4
      <4>4. /\ g.i >= 1 /\ name[g.o] = g.n /\ owner'[g.o] = t /\ table[g.n] = g.o
        BY <1>4, <2>2, <2>3, <2>4, <3>1, <3>2 DEF FrameOK, Knowing, Defining
      <4> QED
        BY <1>4, <2>4, <3>1, <4>2, <4>3, <4>4 DEF FrameOK, Knowing, Defining
    <3>5. CASE o # NoObj
      <4>1. Told(g, o) = [g EXCEPT !.i = g.i + 1]
        BY <3>5 DEF Told
      <4>2. /\ stack'[t][d].n = g.n /\ stack'[t][d].o = g.o /\ stack'[t][d].i = g.i + 1
            /\ stack'[t][d].at = "link"
        BY <1>4, <3>1, <3>2, <4>1 DEF Frame
      <4>3. NameLinked(Top(t).n)
        BY <3>5 DEF LoadInv, LinkedInv, NameLinked
      <4>4. /\ g.i >= 1 /\ name[g.o] = g.n /\ owner'[g.o] = t /\ table[g.n] = g.o
            /\ status[g.o] = "LOADED"
            /\ \A i \in 1..Len(Parents[g.n]) : i < g.i => NameLinked(Parents[g.n][i])
        BY <1>4, <2>2, <2>3, <2>4, <3>1, <3>2 DEF FrameOK, Knowing, Defining
      <4>5. \A i \in 1..Len(Parents[g.n]) : i < g.i + 1 => NameLinked(Parents[g.n][i])
        <5> SUFFICES ASSUME NEW i \in 1..Len(Parents[g.n]), i < g.i + 1
                     PROVE  NameLinked(Parents[g.n][i])
          OBVIOUS
        <5>1. i < g.i \/ i = g.i
          BY <1>4, <3>1 DEF Frame
        <5>2. CASE i < g.i
          BY <4>4, <5>2
        <5>3. CASE i = g.i
          <6>1. Parents[g.n][i] = Top(t).n
            BY <1>4, <3>1, <5>3
          <6> QED
            BY <4>3, <6>1
        <5> QED
          BY <5>1, <5>2, <5>3
      <4>6. \A i \in 1..Len(Parents[g.n]) : i < g.i + 1 => InTable(Parents[g.n][i])
        BY <1>9, <3>3, <4>5 DEF NamesStay, NameLinked, Linked
      <4>7. status'[g.o] = "LOADED" /\ g.i + 1 >= 1
        BY <1>4, <1>5, <3>1, <3>5, <4>4 DEF Frame
      <4> QED
        <5>1. /\ stack'[t][d].i >= 1 /\ name'[g.o] = g.n /\ owner'[g.o] = t
              /\ table'[g.n] = g.o /\ g.o \in Obj /\ status'[g.o] = "LOADED"
          BY <1>4, <3>1, <4>2, <4>4, <4>7
        <5>2. \A i \in 1..Len(Parents[g.n]) :
                i < stack'[t][d].i => InTable(Parents[g.n][i])
          BY <4>2, <4>6
        <5> QED
          BY <2>4, <4>2, <5>1, <5>2 DEF FrameOK, Knowing, Defining, NameLinked, Linked
    <3> QED
      BY <3>4, <3>5
  <2>5. CASE u # t \/ k # d
    <3>1. stack'[u][k] = stack[u][k]
      BY <1>2, <2>5 DEF OnlyFrame, d
    <3>2. stack[u][k].at \in Defining => status'[stack[u][k].o] = status[stack[u][k].o]
      <4>1. stack[u][k].at \in Defining /\ d > 0 => stack[u][k].o # g.o
        <5>1. d > 0 => g = stack[t][d] /\ d \in 1..Len(stack[t]) /\ g.at \in Defining
          BY <1>2, <1>4 DEF d, g, Defining
        <5> QED
          BY <2>1, <2>5, <5>1, DefinedIsOwn
      <4>2. stack[u][k].at \in Defining => stack[u][k].o \in Obj
        BY <2>2 DEF FrameOK, Knowing
      <4> QED
        BY <1>4, <1>5, <1>6, <4>1, <4>2
    <3> QED
      BY <1>1, <1>9, <2>1, <2>2, <2>3, <3>1, <3>2, FrameStays
  <2> QED
    BY <2>4, <2>5
<1>12. status' \in [Obj -> Status] /\ value' \in [Thread -> Obj \cup {NoObj}]
  BY <1>4, <1>5, <1>6 DEF Status
<1> QED
  BY <1>2, <1>9, <1>10, <1>11, <1>12 DEF Frames

\* A step that changes one call and nothing that the others know.
LEMMA TopKeepsFrames ==
  ASSUME LoadInv, NEW t \in Thread, Busy(t), NEW f \in Frame, SetTop(t, f), NamesStay,
         \A u \in Thread : \A k \in 1..Len(stack[u]) : u # t \/ k # Len(stack[t]) =>
           LET g == stack[u][k] IN
             /\ g.at \in Knowing => name'[g.o] = name[g.o]
             /\ g.at \in Defining => owner'[g.o] = owner[g.o] /\ status'[g.o] = status[g.o]
             /\ g.at \in {"link", "failed"} => table'[g.n] = table[g.n],
         FrameOK(t, Len(stack[t]))'
  PROVE  Frames'
<1>1. StackType
  BY DEF LoadInv, TypeOK, StackType
<1>2. /\ \A u \in Thread : Len(stack'[u]) = Len(stack[u])
      /\ OnlyFrame(t, Len(stack[t]))
  BY <1>1, SettingTop
<1>3. ASSUME NEW u \in Thread, NEW k \in 1..Len(stack'[u]) PROVE FrameOK(u, k)'
  <2>1. CASE u = t /\ k = Len(stack[t])
    BY <1>2, <2>1
  <2>2. CASE u # t \/ k # Len(stack[t])
    <3>1. k \in 1..Len(stack[u]) /\ stack'[u][k] = stack[u][k]
      BY <1>2, <2>2 DEF OnlyFrame
    <3>2. FrameOK(u, k)
      BY <3>1 DEF LoadInv, Frames
    <3> QED
      BY <1>1, <2>2, <3>1, <3>2, FrameStays
  <2> QED
    BY <2>1, <2>2
<1> QED
  BY <1>3 DEF Frames

-----------------------------------------------------------------------------
(* The steps.                                                              *)

LEMMA LoadInvInit == Init => LoadInv
<1> SUFFICES ASSUME Init PROVE LoadInv
  OBVIOUS
<1>1. \A t \in Thread : stack[t] = <<>> /\ Len(stack[t]) = 0
  BY EmptySeq DEF Init
<1>2. \A t \in Thread : 1..Len(stack[t]) = {} /\ 1..(Len(stack[t]) - 1) = {}
  BY <1>1
<1>3. TypeOK
  <2>1. stack \in [Thread -> Seq(Frame)]
    BY EmptySeq DEF Init
  <2>2. /\ table \in [Name -> Obj \cup {NoObj}] /\ name \in [Obj -> Name \cup {NoObj}]
        /\ status \in [Obj -> Status] /\ owner \in [Obj -> Thread \cup {NoThread}]
        /\ waiters \in [Obj -> SUBSET Thread] /\ value \in [Thread -> Obj \cup {NoObj}]
    BY DEF Init, Status
  <2>3. calls \in [Thread -> Nat] /\ \A t \in Thread : calls[t] <= Calls[t]
    BY ClassLoadAssumption DEF ClassLoadAssumption, Init
  <2> QED
    BY <2>1, <2>2, <2>3 DEF TypeOK
<1>4. Frames /\ Chain
  BY <1>2 DEF Frames, Chain
<1>5. LinkedInv
  BY DEF Init, LinkedInv, Linked
<1> QED
  BY <1>3, <1>4, <1>5 DEF LoadInv

\* Facts about the call that takes a step.
LEMMA TopFacts ==
  ASSUME LoadInv, NEW t \in Thread, Busy(t)
  PROVE  /\ StackType /\ Len(stack[t]) \in 1..Len(stack[t]) /\ Top(t) = stack[t][Len(stack[t])]
         /\ Top(t) \in Frame /\ Top(t).n \in Name /\ Top(t).i \in Nat
         /\ FrameOK(t, Len(stack[t]))
         /\ table[Top(t).n] # NoObj =>
              table[Top(t).n] \in Obj /\ name[table[Top(t).n]] = Top(t).n
<1>1. StackType
  BY DEF LoadInv, TypeOK, StackType
<1>2. Len(stack[t]) \in 1..Len(stack[t]) /\ Top(t) \in Frame
  BY <1>1, FramesAreFrames
<1>3. Top(t).n \in Name /\ Top(t).i \in Nat
  BY <1>2 DEF Frame
<1>4. FrameOK(t, Len(stack[t]))
  BY <1>2 DEF LoadInv, Frames
<1>5. table[Top(t).n] \in Obj \cup {NoObj}
  BY <1>3 DEF LoadInv, TypeOK
<1> QED
  BY <1>1, <1>2, <1>3, <1>4, <1>5 DEF Top, LoadInv, LinkedInv

\* The table says whether the class is there.
LEMMA FindsKeep ==
  ASSUME LoadInv, NEW t \in Thread, LookupClass(t) \/ GrabWinner(t)
  PROVE  LoadInv'
<1>1. Busy(t) /\ Top(t).at \in {"lookup", "lost"}
  BY DEF LookupClass, GrabWinner, At
<1> DEFINE o == table[Top(t).n]
<1>2. PICK place \in {"define", "null", "found"} :
        /\ SetTop(t, [Top(t) EXCEPT !.o = o, !.at = place])
        /\ place = "found" => o # NoObj
        /\ UNCHANGED <<objVars, value, calls>>
  BY DEF LookupClass, GrabWinner
<1> DEFINE f == [Top(t) EXCEPT !.o = o, !.at = place]
<1>3. o \in Obj \cup {NoObj} /\ Top(t) \in Frame
  BY <1>1, TopFacts
<1>4. f \in Frame /\ f.n = Top(t).n /\ f.o = o /\ f.at = place /\ f.i = Top(t).i
  BY <1>3 DEF Frame, Place
<1>5. Top(t).i = 1
  BY <1>1, TopFacts DEF FrameOK, Defining
<1>6. f.at \in Knowing => f.o \in Obj /\ name[f.o] = f.n
  BY <1>1, <1>2, <1>4, TopFacts DEF Knowing, Defining
<1>7. StackType' /\ Frames' /\ Chain' /\ LinkedInv'
  <2> HIDE DEF f
  <2> QED
    BY <1>1, <1>2, <1>4, <1>5, <1>6, QuietTop DEF objVars, Defining, f
<1> QED
  BY <1>2, <1>7 DEF LoadInv, TypeOK, StackType, objVars

\* A call that only goes to another place.
LEMMA GotoKeeps ==
  ASSUME LoadInv, NEW t \in Thread, Busy(t), NEW place \in {"lost", "lock", "found"},
         Top(t).at \in {"define", "lock", "found"}, place # "lost" => Top(t).at # "define",
         Goto(t, place), UNCHANGED <<table, name, status, owner, value>>
  PROVE  StackType' /\ Frames' /\ Chain' /\ LinkedInv'
<1> DEFINE f == [Top(t) EXCEPT !.at = place]
<1>1. /\ f \in Frame /\ f.n = Top(t).n /\ f.o = Top(t).o /\ f.at = place /\ f.i = Top(t).i
  BY TopFacts DEF Frame, Place
<1>2. f.i = 1
  BY <1>1, TopFacts DEF FrameOK, Defining
<1>3. f.at \in Knowing => f.o \in Obj /\ name[f.o] = f.n
  BY <1>1, TopFacts DEF FrameOK, Knowing, Defining
<1>4. SetTop(t, f)
  BY DEF Goto
<1>5. f.at \notin Defining
  BY <1>1 DEF Defining
<1> HIDE DEF f
<1> QED
  BY <1>1, <1>2, <1>3, <1>4, <1>5, QuietTop

LEMMA GotClassKeeps ==
  ASSUME LoadInv, NEW t \in Thread, GotClass(t)
  PROVE  LoadInv'
<1> DEFINE o == IF Linked(Top(t).o) THEN Top(t).o ELSE NoObj
<1>1. Busy(t) /\ Top(t).at = "found" /\ UNCHANGED <<table, name, owner, waiters, calls>>
  BY DEF GotClass, At
<1>2. Top(t).o \in Obj /\ name[Top(t).o] = Top(t).n
  BY <1>1, TopFacts DEF FrameOK, Knowing
<1>3. CASE Return(t, o)
  <2>1. o \in Obj \cup {NoObj} /\ (o # NoObj => Linked(o) /\ name[o] = Top(t).n)
    BY <1>2
  <2> HIDE DEF o
  <2>2. /\ StackType' /\ Frames' /\ Chain' /\ LinkedInv'
        /\ status' \in [Obj -> Status] /\ value' \in [Thread -> Obj \cup {NoObj}]
    <3>1. table' = table /\ name' = name /\ owner' = owner
      BY <1>1
    <3> QED
      BY <1>1, <1>3, <2>1, <3>1, ReturnKeeps
  <2> QED
    BY <1>1, <2>2 DEF LoadInv, TypeOK, StackType
<1>4. CASE Goto(t, "lock") /\ UNCHANGED <<status, value>>
  <2>1. StackType' /\ Frames' /\ Chain' /\ LinkedInv'
    BY <1>1, <1>4, GotoKeeps
  <2> QED
    BY <1>1, <1>4, <2>1 DEF LoadInv, TypeOK, StackType
<1> QED
  BY <1>3, <1>4 DEF GotClass

\* A class that is not there, or does not load, leaves nothing behind.
LEMMA LoadFailsKeeps ==
  ASSUME LoadInv, NEW t \in Thread, LoadFails(t)
  PROVE  LoadInv'
<1>1. /\ Busy(t) /\ Top(t).at = "define" /\ Return(t, NoObj)
      /\ UNCHANGED <<table, name, owner, waiters, calls>>
  BY DEF LoadFails, At
<1>2. /\ StackType' /\ Frames' /\ Chain' /\ LinkedInv'
      /\ status' \in [Obj -> Status] /\ value' \in [Thread -> Obj \cup {NoObj}]
  <2>1. table' = table /\ name' = name /\ owner' = owner /\ NoObj \in Obj \cup {NoObj}
    BY <1>1
  <2> QED
    BY <1>1, <2>1, ReturnKeeps
<1> QED
  BY <1>1, <1>2 DEF LoadInv, TypeOK, StackType

LEMMA WaitForClassKeeps ==
  ASSUME LoadInv, NEW t \in Thread, WaitForClass(t)
  PROVE  LoadInv'
<1> DEFINE o == Top(t).o
<1>1. Busy(t) /\ Top(t).at = "lock" /\ UNCHANGED <<table, name, owner, calls>>
  BY DEF WaitForClass, At
<1>2. o \in Obj
  BY <1>1, TopFacts DEF FrameOK, Knowing
<1>3. CASE Return(t, NoObj) /\ UNCHANGED waiters
  <2>1. /\ StackType' /\ Frames' /\ Chain' /\ LinkedInv'
        /\ status' \in [Obj -> Status] /\ value' \in [Thread -> Obj \cup {NoObj}]
    <3>1. table' = table /\ name' = name /\ owner' = owner /\ NoObj \in Obj \cup {NoObj}
      BY <1>1
    <3> QED
      BY <1>1, <1>3, <3>1, ReturnKeeps
  <2> QED
    BY <1>1, <1>3, <2>1 DEF LoadInv, TypeOK, StackType
<1>4. CASE Goto(t, "found") /\ UNCHANGED <<status, value, waiters>>
  <2>1. StackType' /\ Frames' /\ Chain' /\ LinkedInv'
    BY <1>1, <1>4, GotoKeeps
  <2> QED
    BY <1>1, <1>4, <2>1 DEF LoadInv, TypeOK, StackType
<1>5. CASE waiters' = [waiters EXCEPT ![o] = @ \cup {t}] /\ UNCHANGED <<stack, status, value>>
  <2>1. Frames' /\ Chain' /\ LinkedInv'
    <3>1. UNCHANGED <<table, name, owner, stack, status, value>>
      BY <1>1, <1>5
    <3> QED
      BY <3>1, SleepingKeeps
  <2>2. waiters' \in [Obj -> SUBSET Thread]
    BY <1>2, <1>5 DEF LoadInv, TypeOK
  <2> QED
    BY <1>1, <1>5, <2>1, <2>2 DEF LoadInv, TypeOK
<1> QED
  BY <1>3, <1>4, <1>5 DEF WaitForClass

\* The class is unlocked and its waiters are woken, whether it is linked or not.
LEMMA LeavingKeeps ==
  ASSUME LoadInv, NEW t \in Thread, PublishClass(t) \/ GiveUp(t)
  PROVE  LoadInv'
<1> DEFINE o == Top(t).o
<1>1. PICK r \in {o, NoObj} :
        /\ Busy(t) /\ Top(t).at \in {"linked", "removed"}
        /\ r # NoObj => Top(t).at = "linked"
        /\ waiters' = [waiters EXCEPT ![o] = {}] /\ owner' = [owner EXCEPT ![o] = NoThread]
        /\ Return(t, r) /\ UNCHANGED <<table, name, calls>>
  BY DEF PublishClass, GiveUp, At
<1>2. o \in Obj /\ name[o] = Top(t).n /\ (r # NoObj => Linked(r) /\ name[r] = Top(t).n)
  BY <1>1, TopFacts DEF FrameOK, Knowing, Defining
<1>3. r \in Obj \cup {NoObj} /\ Top(t).at \in Defining
  BY <1>1, <1>2 DEF Defining
<1>4. /\ StackType' /\ Frames' /\ Chain' /\ LinkedInv'
      /\ status' \in [Obj -> Status] /\ value' \in [Thread -> Obj \cup {NoObj}]
  BY <1>1, <1>2, <1>3, ReturnKeeps
<1>5. waiters' \in [Obj -> SUBSET Thread] /\ owner' \in [Obj -> Thread \cup {NoThread}]
  BY <1>1, <1>2 DEF LoadInv, TypeOK
<1> QED
  BY <1>1, <1>4, <1>5 DEF LoadInv, TypeOK, StackType

\* A call for a class, from outside or for a parent.
LEMMA PushKeeps ==
  ASSUME LoadInv, NEW t \in Thread, NEW n \in Name, Push(t, n), UNCHANGED <<objVars, value>>,
         Busy(t) => /\ Top(t).at = "link" /\ Top(t).i <= Len(Parents[Top(t).n])
                    /\ n = Parents[Top(t).n][Top(t).i]
  PROVE  StackType' /\ Frames' /\ Chain' /\ LinkedInv'
<1> DEFINE m == Len(stack[t])
           f == [n |-> n, o |-> NoObj, at |-> "lookup", i |-> 1]
<1>1. StackType
  BY DEF LoadInv, TypeOK, StackType
<1>2. /\ StackType' /\ \A u \in Thread : u # t => Len(stack'[u]) = Len(stack[u])
      /\ Len(stack'[t]) = m + 1 /\ OnlyFrame(t, m + 1) /\ stack'[t][m + 1] = f
  BY <1>1, Pushing
<1>3. Chain'
  BY PushKeepsChain
<1>4. UNCHANGED <<table, name, status, owner, value>>
  BY DEF objVars
<1>5. NamesStay /\ LinkedInv'
  BY <1>4, LinkedStays DEF Linked
<1>6. ASSUME NEW u \in Thread, NEW k \in 1..Len(stack'[u]) PROVE FrameOK(u, k)'
  <2>1. CASE u = t /\ k = m + 1
    <3>1. stack'[u][k] = f
      BY <1>2, <2>1
    <3>2. /\ stack'[u][k].i = 1
          /\ stack'[u][k].at \notin Knowing /\ stack'[u][k].at = "lookup"
      BY <3>1 DEF Knowing, Defining
    <3> HIDE DEF f
    <3> QED
      BY <3>2 DEF FrameOK, Knowing, Defining
  <2>2. CASE u # t \/ k # m + 1
    <3>1. k \in 1..Len(stack[u]) /\ stack'[u][k] = stack[u][k]
      BY <1>2, <2>2 DEF OnlyFrame
    <3>2. FrameOK(u, k)
      BY <3>1 DEF LoadInv, Frames
    <3> QED
      BY <1>1, <1>4, <1>5, <3>1, <3>2, FrameStays
  <2> QED
    BY <2>1, <2>2
<1> QED
  BY <1>2, <1>3, <1>5, <1>6 DEF Frames

LEMMA CallsKeep ==
  ASSUME LoadInv, NEW t \in Thread, ResolveParent(t) \/ \E n \in Name : FindClass(t, n)
  PROVE  LoadInv'
<1>1. CASE ResolveParent(t)
  <2> DEFINE n == Parents[Top(t).n][Top(t).i]
  <2>1. /\ Busy(t) /\ Top(t).at = "link" /\ Top(t).i <= Len(Parents[Top(t).n])
        /\ Push(t, n) /\ UNCHANGED <<objVars, value, calls>>
    BY <1>1 DEF ResolveParent, At
  <2>2. Top(t).n \in Name /\ Top(t).i \in Nat /\ Top(t).i >= 1
    BY <2>1, TopFacts DEF FrameOK
  <2>3. n \in Name
    <3>1. Len(Parents[Top(t).n]) \in Nat
      BY <2>2, ParentsAreNames
    <3>2. Top(t).i \in 1..Len(Parents[Top(t).n])
      BY <2>1, <2>2, <3>1
    <3> QED
      BY <2>2, <3>2, ParentsAreNames
  <2>4. StackType' /\ Frames' /\ Chain' /\ LinkedInv'
    BY <2>1, <2>3, PushKeeps
  <2> QED
    BY <2>1, <2>4 DEF LoadInv, TypeOK, StackType, objVars
<1>2. ASSUME NEW n \in Name, FindClass(t, n) PROVE LoadInv'
  <2>1. /\ ~ Busy(t) /\ calls[t] < Calls[t] /\ Push(t, n)
        /\ calls' = [calls EXCEPT ![t] = @ + 1] /\ UNCHANGED <<objVars, value>>
    BY <1>2 DEF FindClass
  <2>2. StackType' /\ Frames' /\ Chain' /\ LinkedInv'
    BY <2>1, PushKeeps
  <2>3. calls' \in [Thread -> Nat] /\ \A u \in Thread : calls'[u] <= Calls[u]
    <3>1. calls \in [Thread -> Nat] /\ \A u \in Thread : calls[u] <= Calls[u] /\ Calls[u] \in Nat
      BY ClassLoadAssumption DEF LoadInv, TypeOK, ClassLoadAssumption
    <3>2. calls[t] + 1 \in Nat /\ calls[t] + 1 <= Calls[t]
      BY <2>1, <3>1
    <3>3. \A u \in Thread : calls'[u] = IF u = t THEN calls[t] + 1 ELSE calls[u]
      BY <2>1, <3>1
    <3>4. calls' \in [Thread -> Nat]
      BY <2>1, <3>1, <3>2
    <3> QED
      BY <3>1, <3>2, <3>3, <3>4
  <2> QED
    BY <2>1, <2>2, <2>3 DEF LoadInv, TypeOK, StackType, objVars
<1> QED
  BY <1>1, <1>2

\* A new class is in nobody's hands, and the place in the table was empty.
LEMMA AddClassToHashKeeps ==
  ASSUME LoadInv, NEW t \in Thread, AddClassToHash(t)
  PROVE  LoadInv'
<1> DEFINE n == Top(t).n
<1>0. At(t, "define") /\ UNCHANGED <<value, calls>>
  BY Zenon DEF AddClassToHash
<1>1. Busy(t) /\ Top(t).at = "define" /\ UNCHANGED <<value, calls>>
  BY <1>0 DEF At
<1>2. CASE Goto(t, "lost") /\ UNCHANGED objVars
  <2>1. StackType' /\ Frames' /\ Chain' /\ LinkedInv'
    BY <1>1, <1>2, GotoKeeps DEF objVars
  <2> QED
    BY <1>1, <1>2, <2>1 DEF LoadInv, TypeOK, StackType, objVars
<1>3. ASSUME table[n] = NoObj, NEW o \in Free,
             /\ table' = [table EXCEPT ![n] = o]
             /\ name' = [name EXCEPT ![o] = n]
             /\ status' = [status EXCEPT ![o] = "LOADED"]
             /\ owner' = [owner EXCEPT ![o] = t]
             /\ waiters' = [waiters EXCEPT ![o] = {}],
             SetTop(t, [Top(t) EXCEPT !.o = o, !.at = "link"])
      PROVE  LoadInv'
  <2> DEFINE f == [Top(t) EXCEPT !.o = o, !.at = "link"]
  <2>1. /\ StackType /\ n \in Name /\ Top(t) \in Frame
        /\ FrameOK(t, Len(stack[t])) /\ Top(t) = stack[t][Len(stack[t])]
    BY <1>1, TopFacts
  <2>2. /\ o \in Obj /\ \A m \in Name : table[m] # o /\ \A u \in Thread : value[u] # o
        /\ \A u \in Thread : \A k \in 1..Len(stack[u]) : stack[u][k].o # o
    BY FreeIsUnknown
  <2>3. f \in Frame /\ f.n = n /\ f.o = o /\ f.at = "link" /\ f.i = 1
    BY <1>1, <2>1, <2>2 DEF Frame, Place, FrameOK, Defining
  <2>4. SetTop(t, f)
    BY <1>3
  <2> HIDE DEF f
  <2>5. StackType' /\ stack'[t][Len(stack[t])] = f /\ Len(stack'[t]) = Len(stack[t])
    BY <1>1, <2>1, <2>3, <2>4, SettingTop
  <2>6. /\ table \in [Name -> Obj \cup {NoObj}] /\ name \in [Obj -> Name \cup {NoObj}]
        /\ status \in [Obj -> Status] /\ owner \in [Obj -> Thread \cup {NoThread}]
        /\ waiters \in [Obj -> SUBSET Thread]
    BY DEF LoadInv, TypeOK
  <2>7. /\ \A m \in Name : table'[m] = IF m = n THEN o ELSE table[m]
        /\ \A p \in Obj : p # o => /\ name'[p] = name[p] /\ status'[p] = status[p]
                                   /\ owner'[p] = owner[p]
        /\ name'[o] = n /\ status'[o] = "LOADED" /\ owner'[o] = t
    BY <1>3, <2>1, <2>2, <2>6
  <2>8. NamesStay
    BY <1>3, <2>2, <2>6, <2>7 DEF NamesStay, NameLinked, Linked
  <2>9. Chain'
    BY <1>1, <2>3, <2>4, TopKeepsChain
  <2>10. FrameOK(t, Len(stack[t]))'
    <3>1. \A i \in 1..Len(Parents[n]) : ~ (i < 1)
      BY <2>1, ParentsAreNames
    <3> QED
      BY <2>1, <2>2, <2>3, <2>5, <2>7, <3>1 DEF FrameOK, Defining, Knowing
  <2>11. Frames'
    <3>1. ASSUME NEW u \in Thread, NEW k \in 1..Len(stack[u])
          PROVE  LET g == stack[u][k] IN
                   /\ g.at \in Knowing => name'[g.o] = name[g.o]
                   /\ g.at \in Defining => owner'[g.o] = owner[g.o] /\ status'[g.o] = status[g.o]
                   /\ g.at \in {"link", "failed"} => table'[g.n] = table[g.n]
      <4>1. FrameOK(u, k) /\ stack[u][k].o # o /\ stack[u][k].n \in Name
        BY <2>1, <2>2, FramesAreFrames DEF LoadInv, Frames, Frame
      <4>2. NoObj \notin Obj
        BY ClassLoadAssumption DEF ClassLoadAssumption
      <4> QED
        BY <1>3, <2>7, <4>1, <4>2 DEF FrameOK, Knowing, Defining
    <3> QED
      BY <1>1, <2>3, <2>4, <2>8, <2>10, <3>1, TopKeepsFrames
  <2>12. LinkedInv'
    <3>1. ASSUME NEW p \in Obj, Linked(p)'
          PROVE  /\ name'[p] \in Name /\ table'[name'[p]] = p
                 /\ \A i \in 1..Len(Parents[name'[p]]) :
                      LET m == Parents[name'[p]][i]
                      IN  table'[m] # NoObj /\ status'[table'[m]] = "RESOLVED"
      <4>1. p # o /\ Linked(p) /\ name'[p] = name[p]
        BY <2>7, <3>1 DEF Linked
      <4>2. /\ name[p] \in Name /\ table[name[p]] = p
            /\ \A i \in 1..Len(Parents[name[p]]) : NameLinked(Parents[name[p]][i])
        BY <4>1 DEF LoadInv, LinkedInv
      <4>3. name[p] # n
        BY <1>3, <4>2, ClassLoadAssumption DEF ClassLoadAssumption
      <4>4. \A i \in 1..Len(Parents[name[p]]) : Parents[name[p]][i] \in Name
        BY <4>2, ParentsAreNames
      <4> QED
        BY <2>7, <2>8, <4>1, <4>2, <4>3, <4>4 DEF NamesStay, NameLinked, Linked
    <3>2. \A m \in Name : table'[m] # NoObj => name'[table'[m]] = m
      BY <2>2, <2>6, <2>7 DEF LoadInv, LinkedInv
    <3>3. ASSUME NEW u \in Thread, value'[u] # NoObj PROVE Linked(value[u])'
      <4>1. value[u] \in Obj /\ value[u] # o /\ Linked(value[u])
        BY <1>1, <2>2, <3>3 DEF LoadInv, LinkedInv, TypeOK
      <4> QED
        BY <1>1, <2>7, <4>1 DEF Linked
    <3> QED
      BY <3>1, <3>2, <3>3 DEF LinkedInv, NameLinked, Linked
  <2>13. TypeOK'
    BY <1>1, <1>3, <2>1, <2>2, <2>5, <2>6 DEF LoadInv, TypeOK, StackType, Status
  <2> QED
    BY <2>9, <2>11, <2>12, <2>13 DEF LoadInv
<1> QED
  BY <1>2, <1>3, Zenon DEF AddClassToHash

\* The one who links a class is alone with it: nobody's class changes but its own.
LEMMA LinkClassKeeps ==
  ASSUME LoadInv, NEW t \in Thread, LinkClass(t)
  PROVE  LoadInv'
<1> DEFINE n == Top(t).n
           o == Top(t).o
<1>1. PICK s \in {"RESOLVED", "ERROR"} :
        /\ Busy(t) /\ Top(t).at = "link" /\ Top(t).i > Len(Parents[n])
        /\ status' = [status EXCEPT ![o] = s]
        /\ Goto(t, IF s = "RESOLVED" THEN "linked" ELSE "failed")
        /\ UNCHANGED <<table, name, owner, waiters, value, calls>>
  BY DEF LinkClass, At
<1> DEFINE f == [Top(t) EXCEPT !.at = IF s = "RESOLVED" THEN "linked" ELSE "failed"]
<1>2. /\ StackType /\ n \in Name /\ Top(t) \in Frame /\ Top(t).i \in Nat
      /\ FrameOK(t, Len(stack[t])) /\ Top(t) = stack[t][Len(stack[t])]
      /\ Len(stack[t]) \in 1..Len(stack[t])
  BY <1>1, TopFacts
<1>3. /\ o \in Obj /\ name[o] = n /\ owner[o] = t /\ status[o] = "LOADED" /\ table[n] = o
      /\ Top(t).i >= 1
      /\ \A i \in 1..Len(Parents[n]) : i < Top(t).i => NameLinked(Parents[n][i])
  BY <1>1, <1>2 DEF FrameOK, Knowing, Defining
<1>4. \A i \in 1..Len(Parents[n]) : NameLinked(Parents[n][i])
  <2>1. \A i \in 1..Len(Parents[n]) : i < Top(t).i
    BY <1>1, <1>2, ParentsAreNames
  <2> QED
    BY <1>3, <2>1
<1>5. /\ f \in Frame /\ f.n = n /\ f.o = o /\ f.i = Top(t).i
      /\ f.at = IF s = "RESOLVED" THEN "linked" ELSE "failed"
  BY <1>2 DEF Frame, Place
<1>6. SetTop(t, f)
  BY <1>1 DEF Goto
<1> HIDE DEF f
<1>7. StackType' /\ stack'[t][Len(stack[t])] = f /\ Len(stack'[t]) = Len(stack[t])
  BY <1>1, <1>2, <1>5, <1>6, SettingTop
<1>8. /\ \A p \in Obj : p # o => status'[p] = status[p]
      /\ status'[o] = s /\ status' \in [Obj -> Status]
  BY <1>1, <1>3 DEF LoadInv, TypeOK, Status
<1>9. /\ NamesStay
      /\ \A m \in Name : NameLinked(m) => table'[m] # NoObj /\ status'[table'[m]] = "RESOLVED"
  <2>1. ASSUME NEW m \in Name, NameLinked(m)
        PROVE  table'[m] # NoObj /\ status'[table'[m]] = "RESOLVED"
    <3>1. table[m] \in Obj /\ status[table[m]] = "RESOLVED"
      BY <2>1 DEF LoadInv, TypeOK, NameLinked, Linked
    <3> QED
      BY <1>1, <1>3, <1>8, <2>1, <3>1 DEF NameLinked
  <2> QED
    BY <2>1 DEF NamesStay, NameLinked, Linked
<1>10. Chain'
  BY <1>1, <1>5, <1>6, TopKeepsChain DEF Defining
<1>11. Frames'
  <2>1. FrameOK(t, Len(stack[t]))'
    <3>1. CASE s = "RESOLVED"
      BY <1>1, <1>2, <1>3, <1>5, <1>7, <1>8, <3>1 DEF FrameOK, Knowing, Defining, Linked
    <3>2. CASE s = "ERROR"
      BY <1>1, <1>2, <1>3, <1>5, <1>7, <1>8, <3>2 DEF FrameOK, Knowing, Defining, Linked
    <3> QED
      BY <3>1, <3>2
  <2>2. ASSUME NEW u \in Thread, NEW k \in 1..Len(stack[u]), u # t \/ k # Len(stack[t])
        PROVE  LET g == stack[u][k] IN
                 /\ g.at \in Knowing => name'[g.o] = name[g.o]
                 /\ g.at \in Defining => owner'[g.o] = owner[g.o] /\ status'[g.o] = status[g.o]
                 /\ g.at \in {"link", "failed"} => table'[g.n] = table[g.n]
    <3>1. stack[u][k].at \in Defining => stack[u][k].o # o
      BY <1>1, <1>2, <2>2, DefinedIsOwn DEF Defining
    <3>2. stack[u][k].at \in Defining => stack[u][k].o \in Obj
      BY DEF LoadInv, Frames, FrameOK, Knowing
    <3> QED
      BY <1>1, <1>8, <3>1, <3>2
  <2> QED
    BY <1>1, <1>5, <1>6, <1>9, <2>1, <2>2, TopKeepsFrames
<1>12. LinkedInv'
  <2>1. ASSUME NEW p \in Obj, Linked(p)'
        PROVE  /\ name'[p] \in Name /\ table'[name'[p]] = p
               /\ \A i \in 1..Len(Parents[name'[p]]) :
                    LET m == Parents[name'[p]][i]
                    IN  table'[m] # NoObj /\ status'[table'[m]] = "RESOLVED"
    <3>1. /\ name[p] \in Name /\ table[name[p]] = p
          /\ \A i \in 1..Len(Parents[name[p]]) : NameLinked(Parents[name[p]][i])
      <4>1. CASE p = o
        BY <1>2, <1>3, <1>4, <4>1
      <4>2. CASE p # o
        BY <1>8, <2>1, <4>2 DEF LoadInv, LinkedInv, Linked
      <4> QED
        BY <4>1, <4>2
    <3>2. \A i \in 1..Len(Parents[name[p]]) : Parents[name[p]][i] \in Name
      BY <3>1, ParentsAreNames
    <3> QED
      BY <1>1, <1>9, <3>1, <3>2
  <2>2. \A m \in Name : table'[m] # NoObj => name'[table'[m]] = m
    BY <1>1 DEF LoadInv, LinkedInv
  <2>3. ASSUME NEW u \in Thread, value'[u] # NoObj PROVE Linked(value[u])'
    <3>1. value[u] \in Obj /\ value[u] # o /\ Linked(value[u])
      BY <1>1, <1>3, <2>3 DEF LoadInv, LinkedInv, TypeOK, Linked
    <3> QED
      BY <1>1, <1>8, <3>1 DEF Linked
  <2> QED
    BY <2>1, <2>2, <2>3 DEF LinkedInv, NameLinked, Linked
<1> QED
  BY <1>1, <1>7, <1>8, <1>10, <1>11, <1>12 DEF LoadInv, TypeOK, StackType

\* A class that failed is the one its name leads to, until it is taken out.
LEMMA RemoveClassFromHashKeeps ==
  ASSUME LoadInv, NEW t \in Thread, RemoveClassFromHash(t)
  PROVE  LoadInv'
<1> DEFINE n == Top(t).n
           o == Top(t).o
           f == [Top(t) EXCEPT !.at = "removed"]
<1>1. /\ Busy(t) /\ Top(t).at = "failed"
      /\ table' = [table EXCEPT ![n] = NoObj] /\ SetTop(t, f)
      /\ UNCHANGED <<name, status, owner, waiters, value, calls>>
  BY DEF RemoveClassFromHash, At, Goto
<1>2. /\ StackType /\ n \in Name /\ Top(t) \in Frame /\ Top(t).i \in Nat
      /\ FrameOK(t, Len(stack[t])) /\ Top(t) = stack[t][Len(stack[t])]
      /\ Len(stack[t]) \in 1..Len(stack[t])
  BY <1>1, TopFacts
<1>3. /\ o \in Obj /\ name[o] = n /\ owner[o] = t /\ status[o] = "ERROR" /\ table[n] = o
      /\ Top(t).i >= 1
  BY <1>1, <1>2 DEF FrameOK, Knowing, Defining
<1>4. f \in Frame /\ f.n = n /\ f.o = o /\ f.i = Top(t).i /\ f.at = "removed"
  BY <1>2 DEF Frame, Place
<1> HIDE DEF f
<1>5. StackType' /\ stack'[t][Len(stack[t])] = f /\ Len(stack'[t]) = Len(stack[t])
  BY <1>1, <1>2, <1>4, SettingTop
<1>6. /\ \A m \in Name : m # n => table'[m] = table[m]
      /\ table'[n] = NoObj /\ table' \in [Name -> Obj \cup {NoObj}]
  BY <1>1, <1>2 DEF LoadInv, TypeOK
<1>7. /\ NamesStay
      /\ \A m \in Name : NameLinked(m) => table'[m] # NoObj /\ status'[table'[m]] = "RESOLVED"
  <2>1. ~ NameLinked(n)
    BY <1>3 DEF NameLinked, Linked
  <2> QED
    BY <1>1, <1>6, <2>1 DEF NamesStay, NameLinked, Linked
<1>8. Chain'
  BY <1>1, <1>4, TopKeepsChain DEF Defining
<1>9. Frames'
  <2>1. FrameOK(t, Len(stack[t]))'
    BY <1>1, <1>3, <1>4, <1>5 DEF FrameOK, Knowing, Defining
  <2>2. ASSUME NEW u \in Thread, NEW k \in 1..Len(stack[u]), u # t \/ k # Len(stack[t])
        PROVE  LET g == stack[u][k] IN
                 /\ g.at \in Knowing => name'[g.o] = name[g.o]
                 /\ g.at \in Defining => owner'[g.o] = owner[g.o] /\ status'[g.o] = status[g.o]
                 /\ g.at \in {"link", "failed"} => table'[g.n] = table[g.n]
    <3>1. stack[u][k].at \in {"link", "failed"} => stack[u][k].n # n
      BY <1>1, <1>2, <2>2, DefinedIsOwn DEF Defining
    <3>2. stack[u][k].n \in Name
      BY <1>2, FramesAreFrames DEF Frame
    <3> QED
      BY <1>1, <1>6, <3>1, <3>2
  <2> QED
    BY <1>1, <1>4, <1>7, <2>1, <2>2, TopKeepsFrames
<1>10. LinkedInv'
  <2>1. ASSUME NEW p \in Obj, Linked(p)'
        PROVE  /\ name'[p] \in Name /\ table'[name'[p]] = p
               /\ \A i \in 1..Len(Parents[name'[p]]) :
                    LET m == Parents[name'[p]][i]
                    IN  table'[m] # NoObj /\ status'[table'[m]] = "RESOLVED"
    <3>1. Linked(p)
      BY <1>1, <2>1 DEF Linked
    <3>2. /\ name[p] \in Name /\ table[name[p]] = p
          /\ \A i \in 1..Len(Parents[name[p]]) : NameLinked(Parents[name[p]][i])
      BY <3>1 DEF LoadInv, LinkedInv
    <3>3. \A i \in 1..Len(Parents[name[p]]) : Parents[name[p]][i] \in Name
      BY <3>2, ParentsAreNames
    <3>4. name[p] # n
      BY <1>3, <3>1, <3>2 DEF Linked
    <3> QED
      BY <1>1, <1>6, <1>7, <3>2, <3>3, <3>4
  <2>2. \A m \in Name : table'[m] # NoObj => name'[table'[m]] = m
    BY <1>1, <1>6 DEF LoadInv, LinkedInv
  <2>3. \A u \in Thread : value'[u] # NoObj => Linked(value[u])'
    BY <1>1 DEF LoadInv, LinkedInv, Linked
  <2> QED
    BY <2>1, <2>2, <2>3 DEF LinkedInv, NameLinked, Linked
<1> QED
  BY <1>1, <1>5, <1>6, <1>8, <1>9, <1>10 DEF LoadInv, TypeOK, StackType

LEMMA LoadInvStep == LoadInv /\ [Next]_vars => LoadInv'
<1> SUFFICES ASSUME LoadInv, [Next]_vars PROVE LoadInv'
  OBVIOUS
<1>1. ASSUME NEW t \in Thread, Step(t) \/ \E n \in Name : FindClass(t, n) PROVE LoadInv'
  BY <1>1, FindsKeep, LoadFailsKeeps, GotClassKeeps, WaitForClassKeeps, LeavingKeeps, CallsKeep,
     AddClassToHashKeeps, LinkClassKeeps, RemoveClassFromHashKeeps DEF Step
<1>2. CASE UNCHANGED vars
  <2>1. UNCHANGED <<table, name, status, owner, waiters, stack, value, calls>>
    BY <1>2 DEF vars, objVars
  <2>2. TypeOK'
    BY <2>1 DEF LoadInv, TypeOK
  <2>3. Frames' /\ Chain' /\ LinkedInv'
    BY <2>1, SleepingKeeps
  <2> QED
    BY <2>2, <2>3 DEF LoadInv
<1> QED
  BY <1>1, <1>2 DEF Next

-----------------------------------------------------------------------------
(* The theorems.                                                           *)

\* Each call under way knows its class, those that define one own it, and what
\* is linked stays in the table with all it extends: findClassNoInit and
\* dvmLinkClass whatever the hierarchy, the failures and the order of the threads.
THEOREM LoadingIsConsistent == Spec => []LoadInv
<1> QED
  BY LoadInvInit, LoadInvStep, PTL DEF Spec

\* dvmAddClassToHash and the removal of classes that failed: the name of a class
\* that is linked leads to it, so no other linked class has that name.
THEOREM NamesAreUnique == Spec => []OneClassPerName
<1>1. LoadInv => OneClassPerName
  BY DEF LoadInv, LinkedInv, OneClassPerName
<1> QED
  BY <1>1, LoadingIsConsistent, PTL

\* findClassNoInit: a class that a lookup returns is linked, and so are its
\* superclass and its interfaces, found in the table under their names.
THEOREM LookupsFindLinked == Spec => []ReturnedIsLinked
<1>1. ASSUME LoadInv, NEW t \in Thread, value[t] # NoObj
      PROVE  /\ Linked(value[t])
             /\ \A i \in 1..Len(Parents[name[value[t]]]) :
                  NameLinked(Parents[name[value[t]]][i])
  <2>1. value[t] \in Obj /\ Linked(value[t])
    BY <1>1 DEF LoadInv, TypeOK, LinkedInv
  <2> QED
    BY <1>1, <2>1 DEF LoadInv, LinkedInv
<1>2. LoadInv => ReturnedIsLinked
  BY <1>1 DEF ReturnedIsLinked, NameLinked
<1> QED
  BY <1>2, LoadingIsConsistent, PTL
=============================================================================
