--------------------------- MODULE ThreadsProofs ---------------------------
(***************************************************************************)
(* Proofs about ThreadLife for any set of threads: the count DestroyJavaVM *)
(* waits on is exact, no handshake and no joiner loses its wake-up, and a  *)
(* thread the collector has not counted does not run in a stopped world.   *)
(* And about DebugSuspend for any set of threads, in every setting of      *)
(* MCThreads: a request is worked on when whoever posted before it has     *)
(* suspended itself, and the debugger takes back only its own suspensions. *)
(***************************************************************************)
EXTENDS MCThreads, Integers, FiniteSetTheorems, TLAPS

-----------------------------------------------------------------------------
(* The inductive invariant.                                                *)

\* Which points have a listed thread.
UnlistedPoint == {"unborn", "born", "reserve", "link", "rejected", "dead"}
EitherPoint == {"wait", "restore", "report"}

ListedWhere ==
  \A t \in Thread :
    /\ pc[t] \in UnlistedPoint => t \notin threadList
    /\ pc[t] \notin UnlistedPoint \cup EitherPoint => t \in threadList

\* Which Thread.status a thread has at a point.
StatusWhere ==
  \A t \in Thread :
    /\ pc[t] = "unborn" => status[t] \in {"NONE", "INITIALIZING"}
    /\ pc[t] = "born" => status[t] = "INITIALIZING"
    /\ status[t] = "INITIALIZING" => t \in Child \/ pc[t] # "unborn"
    /\ pc[t] = "wait" => \/ status[t] = "STARTING"
                         \/ status[t] = "VMWAIT" /\ t \in threadList
    /\ pc[t] = "dead" => status[t] \in {"NONE", "ZOMBIE"}
    /\ pc[t] \in {"reserve", "link", "rejected"} => status[t] = "NONE"
    /\ pc[t] \in {"pulse", "pulsed", "enter"} => status[t] = "VMWAIT"
    /\ pc[t] \in {"restore", "report"} /\ t \notin threadList => status[t] = "NONE"
    /\ status[t] = "SUSPENDED" => pc[t] \in {"run", "objects", "detach"}
    /\ status[t] = "STARTING" => pc[t] = "wait"

\* Which threads come to a point.
RoleWhere ==
  \A t \in Thread :
    /\ pc[t] \in {"reserve", "restore", "rejected"} => t \in Attacher
    /\ pc[t] = "report" => t \in Internal
    /\ pc[t] \in {"link", "pulse", "pulsed", "objects", "unlink"} => t \in Attacher \cup Internal
    /\ pc[t] \in {"unborn", "detach", "notify", "trace", "leave"} => t # Main

\* A parent at work on its child: before pthread_create, before the child is
\* listed, before the child is let go.
Early == {"create", "spawn", "refused"}
Middle == {"spawned", "handshake"}
Late == {"adopted", "release"}
ParentPoint == Early \cup Middle \cup Late

ChildWhere ==
  \A p \in Thread :
    /\ pc[p] \in ParentPoint => partner[p] \in Child
    /\ pc[p] \in Early => pc[partner[p]] = "unborn" /\ status[partner[p]] = "INITIALIZING"
    /\ pc[p] \in Middle =>
         /\ pc[partner[p]] \in {"born", "wait"} /\ partner[p] \notin threadList
         /\ pc[partner[p]] = "wait" => status[partner[p]] = "STARTING"
    /\ pc[p] \in Late => /\ pc[partner[p]] = "wait" /\ partner[p] \in threadList
                         /\ status[partner[p]] = "STARTING"
    /\ pc[p] = "await" => partner[p] \in Internal

OneParent ==
  \A p, q \in Thread :
    pc[p] \in ParentPoint /\ pc[q] \in ParentPoint /\ partner[p] = partner[q] => p = q

\* The collector has the list while it waits for the others.
CollectorWhere ==
  /\ gc = "stopping" => listOwner = Collector
  /\ gc # "idle" => stops < MaxStops

CtlInv ==
  /\ ListedWhere /\ StatusWhere /\ RoleWhere /\ ChildWhere /\ OneParent
  /\ CollectorWhere

\* Who sleeps in join, and what for.
JoinInv ==
  \A j \in joinWait :
    /\ pc[j] = "joining" /\ status[j] = "VMWAIT" /\ partner[j] \in Thread
    /\ \/ partner[j] \in vmThread \/ pc[partner[j]] = "notify"
       \/ pc[partner[j]] = "dead" /\ status[partner[j]] = "NONE"

LifeInv == TypeOK /\ CtlInv /\ CountIsExact

-----------------------------------------------------------------------------
(* Counting.                                                               *)

Counted == threadList \ Daemon
AttachingNow == {t \in Thread : Attaching(t)}
Given == IF pc[Main] \in {"exit", "down"} THEN 1 ELSE 0

\* A finite set of threads grows and shrinks by one.
LEMMA CountingMembers ==
  ASSUME NEW S \in SUBSET Thread, NEW x \in Thread
  PROVE  /\ Cardinality(S) \in Nat
         /\ x \notin S => Cardinality(S \cup {x}) = Cardinality(S) + 1
         /\ x \in S => Cardinality(S) >= 1 /\ Cardinality(S \ {x}) = Cardinality(S) - 1
<1>1. IsFiniteSet(S)
  BY ThreadLifeAssumption, FS_Subset
<1>2. Cardinality(S) \in Nat
  BY <1>1, FS_CardinalityType
<1>3. x \notin S => Cardinality(S \cup {x}) = Cardinality(S) + 1
  BY <1>1, FS_AddElement
<1>4. ASSUME x \in S
      PROVE  Cardinality(S) >= 1 /\ Cardinality(S \ {x}) = Cardinality(S) - 1
  <2>1. Cardinality(S \ {x}) = Cardinality(S) - 1
    BY <1>1, <1>4, FS_RemoveElement
  <2>2. Cardinality(S) # 0
    BY <1>1, <1>4, FS_EmptySet
  <2> QED
    BY <1>2, <2>1, <2>2
<1> QED
  BY <1>2, <1>3, <1>4

\* Whoever gives a share of the count back has one, main's share not counted
\* twice.
LEMMA HasShare ==
  ASSUME LifeInv, NEW t \in Thread,
         \/ t \in Counted /\ (t = Main => Given = 0)
         \/ Attaching(t)
  PROVE  nonDaemonThreadCount >= 1
<1>1. /\ Counted \in SUBSET Thread /\ AttachingNow \in SUBSET Thread
      /\ nonDaemonThreadCount + Given = Cardinality(Counted) + Cardinality(AttachingNow)
      /\ nonDaemonThreadCount \in Nat
  BY DEF LifeInv, TypeOK, CountIsExact, Counted, AttachingNow, Given
<1>2. Cardinality(Counted) \in Nat /\ Cardinality(AttachingNow) \in Nat
  BY <1>1, CountingMembers
<1>3. Main \in Thread /\ (Given = 0 \/ (Given = 1 /\ Main \in Counted))
  BY ThreadLifeAssumption
     DEF Thread, Given, Counted, LifeInv, CtlInv, ListedWhere, UnlistedPoint, EitherPoint
<1>4. Given = 1 => Cardinality(Counted) >= 1
  <2> SUFFICES ASSUME Given = 1 PROVE Cardinality(Counted) >= 1
    OBVIOUS
  <2>1. Main \in Thread /\ Main \in Counted /\ Counted \in SUBSET Thread
    BY <1>1, <1>3
  <2> QED
    BY <2>1, CountingMembers
<1>5. CASE Attaching(t)
  <2>1. Cardinality(AttachingNow) >= 1
    BY <1>1, <1>5, CountingMembers DEF AttachingNow
  <2> QED
    BY <1>1, <1>2, <1>3, <1>4, <2>1
<1>6. CASE t \in Counted /\ (t = Main => Given = 0)
  <2>1. CASE Given = 0
    <3>1. Cardinality(Counted) >= 1
      BY <1>1, <1>6, CountingMembers
    <3> QED
      BY <1>1, <1>2, <2>1, <3>1
  <2>2. CASE Given = 1
    <3>1. t # Main /\ Counted \ {t} \in SUBSET Thread /\ Main \in Counted \ {t}
      BY <1>1, <1>3, <1>6, <2>2
    <3>2. Cardinality(Counted \ {t}) >= 1
      BY <1>3, <3>1, CountingMembers
    <3>3. Cardinality(Counted \ {t}) = Cardinality(Counted) - 1
      BY <1>1, <1>6, CountingMembers
    <3> QED
      BY <1>1, <1>2, <2>2, <3>2, <3>3
  <2> QED
    BY <1>3, <2>1, <2>2
<1> QED
  BY <1>5, <1>6

\* No step leaves the types; the count does not go below zero.
LEMMA LifeTypeStep == LifeInv /\ [Next]_vars => TypeOK'
<1> SUFFICES ASSUME LifeInv, [Next]_vars PROVE TypeOK'
  OBVIOUS
<1> USE DEF At, Goto, SetStatus, ListFree, Managed, Link, Unlink, listVars, condVars,
            traceVars, gcVars, ctlVars
<1> USE DEF TypeOK, Status, Point, ListPoint, LifeInv
<1>1. CASE UNCHANGED vars
  BY <1>1 DEF vars
<1>2. ASSUME NEW t \in Thread, BlockOnList(t)
      PROVE  TypeOK'
  BY <1>2 DEF BlockOnList
<1>3. ASSUME NEW t \in Thread, Park(t)
      PROVE  TypeOK'
  BY <1>3 DEF Park
<1>4. ASSUME NEW t \in Thread, Unpark(t)
      PROVE  TypeOK'
  BY <1>4 DEF Unpark, BecomeRunning
<1>5. ASSUME NEW t \in Thread, BecomeRunning(t, "spawned", "handshake")
      PROVE  TypeOK'
  BY <1>5 DEF BecomeRunning
<1>6. ASSUME NEW t \in Thread, BecomeRunning(t, "adopted", "release")
      PROVE  TypeOK'
  BY <1>6 DEF BecomeRunning
<1>7. ASSUME NEW t \in Thread, BecomeRunning(t, "enter", "run")
      PROVE  TypeOK'
  BY <1>7 DEF BecomeRunning
<1>8. ASSUME NEW t \in Thread, BecomeRunning(t, "pulsed", "objects")
      PROVE  TypeOK'
  BY <1>8 DEF BecomeRunning
<1>9. ASSUME NEW t \in Thread, BecomeRunning(t, "awaited", "run")
      PROVE  TypeOK'
  BY <1>9 DEF BecomeRunning
<1>10. ASSUME NEW t \in Thread, BecomeRunning(t, "native", "run")
      PROVE  TypeOK'
  BY <1>10 DEF BecomeRunning
<1>11. ASSUME NEW t \in Thread, t \notin joinWait, status[t] = "VMWAIT",
            BecomeRunning(t, "joining", "joining")
      PROVE  TypeOK'
  BY <1>11 DEF BecomeRunning
<1>12. ASSUME NEW t \in Thread, t \notin joinWait, status[t] = "VMWAIT",
            BecomeRunning(t, "detach", "detach")
      PROVE  TypeOK'
  BY <1>12 DEF BecomeRunning
<1>13. ASSUME NEW t \in Thread, SetVmThread(t)
      PROVE  TypeOK'
  BY <1>13 DEF SetVmThread, CtlInv, ChildWhere, ParentPoint, Early, Middle, Late, Thread
<1>14. ASSUME NEW t \in Thread, PthreadCreate(t)
      PROVE  TypeOK'
  BY <1>14 DEF PthreadCreate, CtlInv, ChildWhere, ParentPoint, Early, Middle, Late, Thread
<1>15. ASSUME NEW t \in Thread, StartRefused(t)
      PROVE  TypeOK'
  BY <1>15 DEF StartRefused, CtlInv, ChildWhere, ParentPoint, Early, Middle, Late, Thread
<1>16. ASSUME NEW t \in Thread, PrepareThread(t)
      PROVE  TypeOK'
  BY <1>16 DEF PrepareThread
<1>17. ASSUME NEW t \in Thread, Handshake(t)
      PROVE  TypeOK'
  BY <1>17 DEF Handshake, CtlInv, ChildWhere, ParentPoint, Early, Middle, Late, Thread
<1>18. ASSUME NEW t \in Thread, Release(t)
      PROVE  TypeOK'
  BY <1>18 DEF Release, CtlInv, ChildWhere, ParentPoint, Early, Middle, Late, Thread
<1>19. ASSUME NEW t \in Thread, AwaitRelease(t)
      PROVE  TypeOK'
  BY <1>19 DEF AwaitRelease
<1>20. ASSUME NEW t \in Thread, Reserve(t)
      PROVE  TypeOK'
  BY <1>20 DEF Reserve
<1>21. ASSUME NEW t \in Thread, AttachFails(t)
      PROVE  TypeOK'
  BY <1>21 DEF AttachFails, AttachReturns
<1>22. ASSUME NEW t \in Thread, LinkSelf(t)
      PROVE  TypeOK'
  BY <1>22 DEF LinkSelf
<1>23. ASSUME NEW t \in Thread, PulseHeapLock(t)
      PROVE  TypeOK'
  BY <1>23 DEF PulseHeapLock
<1>24. ASSUME NEW t \in Thread, CreateThreadObject(t)
      PROVE  TypeOK'
  BY <1>24 DEF CreateThreadObject, AttachReturns
<1>25. ASSUME NEW t \in Thread, UnlinkSelf(t)
      PROVE  TypeOK'
  <2>1. t \notin Daemon => t \in Counted /\ (t = Main => Given = 0)
    BY <1>25
       DEF UnlinkSelf, Counted, Given, LifeInv, CtlInv, ListedWhere, UnlistedPoint, EitherPoint
  <2>2. t \notin Daemon => nonDaemonThreadCount >= 1
    BY <2>1, HasShare
  <2> QED
    BY <1>25, <2>2 DEF UnlinkSelf, AttachReturns
<1>26. ASSUME NEW t \in Thread, RestoreCount(t)
      PROVE  TypeOK'
  <2>1. Attaching(t)
    BY <1>26 DEF RestoreCount, Attaching, LifeInv, CtlInv, RoleWhere
  <2>2. nonDaemonThreadCount >= 1
    BY <2>1, HasShare
  <2> QED
    BY <1>26, <2>2 DEF RestoreCount
<1>27. ASSUME NEW t \in Thread, AwaitInternal(t)
      PROVE  TypeOK'
  BY <1>27 DEF AwaitInternal
<1>28. ASSUME NEW t \in Thread, Report(t)
      PROVE  TypeOK'
  BY <1>28 DEF Report, CtlInv, RoleWhere
<1>29. ASSUME NEW t \in Thread, JoinTest(t)
      PROVE  TypeOK'
  BY <1>29 DEF JoinTest
<1>30. ASSUME NEW t \in Thread, ClearVmThread(t)
      PROVE  TypeOK'
  BY <1>30 DEF ClearVmThread
<1>31. ASSUME NEW t \in Thread, NotifyJoiners(t)
      PROVE  TypeOK'
  BY <1>31 DEF NotifyJoiners
<1>32. ASSUME NEW t \in Thread, AwaitTrace(t)
      PROVE  TypeOK'
  BY <1>32 DEF AwaitTrace
<1>33. ASSUME NEW t \in Thread, Leave(t)
      PROVE  TypeOK'
  <2>1. t \notin Daemon => t \in Counted /\ (t = Main => Given = 0)
    BY <1>33
       DEF Leave, Counted, Given, LifeInv, CtlInv, ListedWhere, UnlistedPoint, EitherPoint
  <2>2. t \notin Daemon => nonDaemonThreadCount >= 1
    BY <2>1, HasShare
  <2> QED
    BY <1>33, <2>2 DEF Leave, AttachReturns
<1>34. ASSUME NEW t \in Thread, NEW c \in Child, Start(t, c)
      PROVE  TypeOK'
  BY <1>34 DEF Start, Thread
<1>35. ASSUME NEW t \in Thread, NEW c \in Internal, CreateInternal(t, c)
      PROVE  TypeOK'
  BY <1>35 DEF CreateInternal, Thread
<1>36. ASSUME NEW t \in Thread, NEW u \in Thread, Join(t, u)
      PROVE  TypeOK'
  BY <1>36 DEF Join
<1>37. ASSUME NEW t \in Thread, Exit(t)
      PROVE  TypeOK'
  BY <1>37 DEF Exit
<1>38. ASSUME NEW t \in Thread, BlockOnGroup(t)
      PROVE  TypeOK'
  BY <1>38 DEF BlockOnGroup
<1>39. ASSUME NEW t \in Attacher, Attach(t)
      PROVE  TypeOK'
  BY <1>39 DEF Attach, Thread
<1>40. ASSUME CallDestroy
      PROVE  TypeOK'
  BY <1>40 DEF CallDestroy, Thread
<1>41. ASSUME DestroyJavaVM
      PROVE  TypeOK'
  <2>1. Main \in Counted /\ Given = 0 /\ Main \in Thread
    BY <1>41, ThreadLifeAssumption
       DEF DestroyJavaVM, Thread, Counted, Given, LifeInv, CtlInv, ListedWhere, UnlistedPoint,
           EitherPoint
  <2>2. nonDaemonThreadCount >= 1
    BY <2>1, HasShare
  <2> QED
    BY <1>41, <2>2 DEF DestroyJavaVM
<1>42. ASSUME ExitTest
      PROVE  TypeOK'
  BY <1>42 DEF ExitTest, Thread
<1>43. ASSUME StartTrace
      PROVE  TypeOK'
  BY <1>43 DEF StartTrace
<1>44. ASSUME StopTrace
      PROVE  TypeOK'
  BY <1>44 DEF StopTrace
<1>45. ASSUME StopAll
      PROVE  TypeOK'
  BY <1>45 DEF StopAll
<1>46. ASSUME AllStopped
      PROVE  TypeOK'
  BY <1>46 DEF AllStopped
<1>47. ASSUME ResumeAll
      PROVE  TypeOK'
  BY <1>47, ThreadLifeAssumption DEF ResumeAll, CtlInv, CollectorWhere
<1>48. ASSUME NEW t \in Thread, RejectVersion(t)
      PROVE  TypeOK'
  BY <1>48 DEF RejectVersion
<1> QED
  BY <1>1, <1>2, <1>3, <1>4, <1>5, <1>6, <1>7, <1>8, <1>9, <1>10, <1>11, <1>12, <1>13,
     <1>14, <1>15, <1>16, <1>17, <1>18, <1>19, <1>20, <1>21, <1>22, <1>23, <1>24, <1>25,
     <1>26, <1>27, <1>28, <1>29, <1>30, <1>31, <1>32, <1>33, <1>34, <1>35, <1>36, <1>37,
     <1>38, <1>39, <1>40, <1>41, <1>42, <1>43, <1>44, <1>45, <1>46, <1>47, <1>48
     DEF Next, Proceed, Return, Choose

\* The points, the statuses and the families stay in step.
LEMMA CtlStep == LifeInv /\ [Next]_vars => CtlInv'
<1> SUFFICES ASSUME LifeInv, [Next]_vars PROVE CtlInv'
  OBVIOUS
<1> USE DEF At, Goto, SetStatus, ListFree, Managed, Link, Unlink, listVars, condVars,
            traceVars, gcVars, ctlVars
<1> USE DEF LifeInv, CtlInv, TypeOK, UnlistedPoint, EitherPoint, Early, Middle, Late,
            ParentPoint, Thread, ListedWhere, StatusWhere, RoleWhere, ChildWhere, OneParent,
            CollectorWhere
<1>1. CASE UNCHANGED vars
  BY <1>1 DEF vars
<1>2. ASSUME NEW t \in Thread, BlockOnList(t)
      PROVE  CtlInv'
  BY <1>2, ThreadLifeAssumption DEF BlockOnList
<1>3. ASSUME NEW t \in Thread, Park(t)
      PROVE  CtlInv'
  BY <1>3, ThreadLifeAssumption DEF Park
<1>4. ASSUME NEW t \in Thread, Unpark(t)
      PROVE  CtlInv'
  BY <1>4, ThreadLifeAssumption DEF Unpark, BecomeRunning
<1>5. ASSUME NEW t \in Thread, BecomeRunning(t, "spawned", "handshake")
      PROVE  CtlInv'
  BY <1>5, ThreadLifeAssumption DEF BecomeRunning
<1>6. ASSUME NEW t \in Thread, BecomeRunning(t, "adopted", "release")
      PROVE  CtlInv'
  BY <1>6, ThreadLifeAssumption DEF BecomeRunning
<1>7. ASSUME NEW t \in Thread, BecomeRunning(t, "enter", "run")
      PROVE  CtlInv'
  BY <1>7, ThreadLifeAssumption DEF BecomeRunning
<1>8. ASSUME NEW t \in Thread, BecomeRunning(t, "pulsed", "objects")
      PROVE  CtlInv'
  BY <1>8, ThreadLifeAssumption DEF BecomeRunning
<1>9. ASSUME NEW t \in Thread, BecomeRunning(t, "awaited", "run")
      PROVE  CtlInv'
  BY <1>9, ThreadLifeAssumption DEF BecomeRunning
<1>10. ASSUME NEW t \in Thread, BecomeRunning(t, "native", "run")
      PROVE  CtlInv'
  BY <1>10, ThreadLifeAssumption DEF BecomeRunning
<1>11. ASSUME NEW t \in Thread, t \notin joinWait, status[t] = "VMWAIT",
            BecomeRunning(t, "joining", "joining")
      PROVE  CtlInv'
  BY <1>11, ThreadLifeAssumption DEF BecomeRunning
<1>12. ASSUME NEW t \in Thread, t \notin joinWait, status[t] = "VMWAIT",
            BecomeRunning(t, "detach", "detach")
      PROVE  CtlInv'
  BY <1>12, ThreadLifeAssumption DEF BecomeRunning
<1>13. ASSUME NEW t \in Thread, SetVmThread(t)
      PROVE  CtlInv'
  BY <1>13, ThreadLifeAssumption DEF SetVmThread
<1>14. ASSUME NEW t \in Thread, PthreadCreate(t)
      PROVE  CtlInv'
  BY <1>14, ThreadLifeAssumption DEF PthreadCreate
<1>15. ASSUME NEW t \in Thread, StartRefused(t)
      PROVE  CtlInv'
  BY <1>15, ThreadLifeAssumption DEF StartRefused
<1>16. ASSUME NEW t \in Thread, PrepareThread(t)
      PROVE  CtlInv'
  BY <1>16, ThreadLifeAssumption DEF PrepareThread
<1>17. ASSUME NEW t \in Thread, Handshake(t)
      PROVE  CtlInv'
  BY <1>17, ThreadLifeAssumption DEF Handshake
<1>18. ASSUME NEW t \in Thread, Release(t)
      PROVE  CtlInv'
  BY <1>18, ThreadLifeAssumption DEF Release
<1>19. ASSUME NEW t \in Thread, AwaitRelease(t)
      PROVE  CtlInv'
  BY <1>19, ThreadLifeAssumption DEF AwaitRelease
<1>20. ASSUME NEW t \in Thread, Reserve(t)
      PROVE  CtlInv'
  BY <1>20, ThreadLifeAssumption DEF Reserve
<1>21. ASSUME NEW t \in Thread, AttachFails(t)
      PROVE  CtlInv'
  BY <1>21, ThreadLifeAssumption DEF AttachFails, AttachReturns
<1>22. ASSUME NEW t \in Thread, LinkSelf(t)
      PROVE  CtlInv'
  BY <1>22, ThreadLifeAssumption DEF LinkSelf
<1>23. ASSUME NEW t \in Thread, PulseHeapLock(t)
      PROVE  CtlInv'
  BY <1>23, ThreadLifeAssumption DEF PulseHeapLock
<1>24. ASSUME NEW t \in Thread, CreateThreadObject(t)
      PROVE  CtlInv'
  BY <1>24, ThreadLifeAssumption DEF CreateThreadObject, AttachReturns
<1>25. ASSUME NEW t \in Thread, UnlinkSelf(t)
      PROVE  CtlInv'
  BY <1>25, ThreadLifeAssumption DEF UnlinkSelf, AttachReturns
<1>26. ASSUME NEW t \in Thread, RestoreCount(t)
      PROVE  CtlInv'
  BY <1>26, ThreadLifeAssumption DEF RestoreCount
<1>27. ASSUME NEW t \in Thread, AwaitInternal(t)
      PROVE  CtlInv'
  BY <1>27, ThreadLifeAssumption DEF AwaitInternal
<1>28. ASSUME NEW t \in Thread, Report(t)
      PROVE  CtlInv'
  BY <1>28, ThreadLifeAssumption DEF Report
<1>29. ASSUME NEW t \in Thread, JoinTest(t)
      PROVE  CtlInv'
  BY <1>29, ThreadLifeAssumption DEF JoinTest
<1>30. ASSUME NEW t \in Thread, ClearVmThread(t)
      PROVE  CtlInv'
  BY <1>30, ThreadLifeAssumption DEF ClearVmThread
<1>31. ASSUME NEW t \in Thread, NotifyJoiners(t)
      PROVE  CtlInv'
  BY <1>31, ThreadLifeAssumption DEF NotifyJoiners
<1>32. ASSUME NEW t \in Thread, AwaitTrace(t)
      PROVE  CtlInv'
  BY <1>32, ThreadLifeAssumption DEF AwaitTrace
<1>33. ASSUME NEW t \in Thread, Leave(t)
      PROVE  CtlInv'
  BY <1>33, ThreadLifeAssumption DEF Leave
<1>34. ASSUME NEW t \in Thread, NEW c \in Child, Start(t, c)
      PROVE  CtlInv'
  BY <1>34, ThreadLifeAssumption DEF Start
<1>35. ASSUME NEW t \in Thread, NEW c \in Internal, CreateInternal(t, c)
      PROVE  CtlInv'
  BY <1>35, ThreadLifeAssumption DEF CreateInternal
<1>36. ASSUME NEW t \in Thread, NEW u \in Thread, Join(t, u)
      PROVE  CtlInv'
  BY <1>36, ThreadLifeAssumption DEF Join
<1>37. ASSUME NEW t \in Thread, Exit(t)
      PROVE  CtlInv'
  BY <1>37, ThreadLifeAssumption DEF Exit
<1>38. ASSUME NEW t \in Thread, BlockOnGroup(t)
      PROVE  CtlInv'
  BY <1>38, ThreadLifeAssumption DEF BlockOnGroup
<1>39. ASSUME NEW t \in Attacher, Attach(t)
      PROVE  CtlInv'
  BY <1>39, ThreadLifeAssumption DEF Attach
<1>40. ASSUME CallDestroy
      PROVE  CtlInv'
  BY <1>40, ThreadLifeAssumption DEF CallDestroy
<1>41. ASSUME DestroyJavaVM
      PROVE  CtlInv'
  BY <1>41, ThreadLifeAssumption DEF DestroyJavaVM
<1>42. ASSUME ExitTest
      PROVE  CtlInv'
  BY <1>42, ThreadLifeAssumption DEF ExitTest
<1>43. ASSUME StartTrace
      PROVE  CtlInv'
  BY <1>43, ThreadLifeAssumption DEF StartTrace
<1>44. ASSUME StopTrace
      PROVE  CtlInv'
  BY <1>44, ThreadLifeAssumption DEF StopTrace
<1>45. ASSUME StopAll
      PROVE  CtlInv'
  BY <1>45, ThreadLifeAssumption DEF StopAll
<1>46. ASSUME AllStopped
      PROVE  CtlInv'
  BY <1>46, ThreadLifeAssumption DEF AllStopped
<1>47. ASSUME ResumeAll
      PROVE  CtlInv'
  BY <1>47, ThreadLifeAssumption DEF ResumeAll
<1>48. ASSUME NEW t \in Thread, RejectVersion(t)
      PROVE  CtlInv'
  BY <1>48, ThreadLifeAssumption DEF RejectVersion
<1> HIDE DEF LifeInv, CtlInv
<1> QED
  BY <1>1, <1>2, <1>3, <1>4, <1>5, <1>6, <1>7, <1>8, <1>9, <1>10, <1>11, <1>12, <1>13,
     <1>14, <1>15, <1>16, <1>17, <1>18, <1>19, <1>20, <1>21, <1>22, <1>23, <1>24, <1>25,
     <1>26, <1>27, <1>28, <1>29, <1>30, <1>31, <1>32, <1>33, <1>34, <1>35, <1>36, <1>37,
     <1>38, <1>39, <1>40, <1>41, <1>42, <1>43, <1>44, <1>45, <1>46, <1>47, <1>48
     DEF Next, Proceed, Return, Choose

-----------------------------------------------------------------------------
(* The count.                                                              *)

\* What a step does to the threads that count and to the count: nothing, list a
\* thread, take one off the list, reserve, give a reservation back, give main's
\* share back.
SameShares ==
  /\ threadList' = threadList /\ nonDaemonThreadCount' = nonDaemonThreadCount
  /\ AttachingNow' = AttachingNow /\ Given' = Given

Links(t) ==
  /\ t \notin threadList /\ Link(t)
  /\ AttachingNow' = AttachingNow /\ Given' = Given

Unlinks(t) ==
  /\ t \in threadList /\ Unlink(t)
  /\ AttachingNow' = AttachingNow /\ Given' = Given

Reserves(t) ==
  /\ t \notin AttachingNow /\ AttachingNow' = AttachingNow \cup {t}
  /\ nonDaemonThreadCount' = nonDaemonThreadCount + 1
  /\ threadList' = threadList /\ Given' = Given

Restores(t) ==
  /\ t \in AttachingNow /\ AttachingNow' = AttachingNow \ {t}
  /\ nonDaemonThreadCount' = nonDaemonThreadCount - 1
  /\ threadList' = threadList /\ Given' = Given

Gives ==
  /\ Given = 0 /\ Given' = 1 /\ nonDaemonThreadCount' = nonDaemonThreadCount - 1
  /\ threadList' = threadList /\ AttachingNow' = AttachingNow

ShareStep ==
  \/ SameShares \/ Gives
  \/ \E t \in Thread : Links(t) \/ Unlinks(t) \/ Reserves(t) \/ Restores(t)

\* Every step is of one of those kinds.
LEMMA ShareSteps == LifeInv /\ [Next]_vars => ShareStep
<1> SUFFICES ASSUME LifeInv, [Next]_vars PROVE ShareStep
  OBVIOUS
<1> USE DEF At, Goto, SetStatus, ListFree, Managed, Link, Unlink, listVars, condVars,
            traceVars, gcVars, ctlVars
<1> USE DEF LifeInv, CtlInv, TypeOK, UnlistedPoint, EitherPoint, Early, Middle, Late, ParentPoint,
            Thread, ListedWhere, RoleWhere, ChildWhere, ShareStep, AttachingNow, Attaching, Given
<1>1. CASE UNCHANGED vars
  BY <1>1 DEF vars, SameShares
<1>2. ASSUME NEW t \in Thread, BlockOnList(t)
      PROVE  ShareStep
  BY <1>2, ThreadLifeAssumption DEF BlockOnList, SameShares
<1>3. ASSUME NEW t \in Thread, Park(t)
      PROVE  ShareStep
  BY <1>3, ThreadLifeAssumption DEF Park, SameShares
<1>4. ASSUME NEW t \in Thread, Unpark(t)
      PROVE  ShareStep
  BY <1>4, ThreadLifeAssumption DEF Unpark, BecomeRunning, SameShares
<1>5. ASSUME NEW t \in Thread, BecomeRunning(t, "spawned", "handshake")
      PROVE  ShareStep
  BY <1>5, ThreadLifeAssumption DEF BecomeRunning, SameShares
<1>6. ASSUME NEW t \in Thread, BecomeRunning(t, "adopted", "release")
      PROVE  ShareStep
  BY <1>6, ThreadLifeAssumption DEF BecomeRunning, SameShares
<1>7. ASSUME NEW t \in Thread, BecomeRunning(t, "enter", "run")
      PROVE  ShareStep
  BY <1>7, ThreadLifeAssumption DEF BecomeRunning, SameShares
<1>8. ASSUME NEW t \in Thread, BecomeRunning(t, "pulsed", "objects")
      PROVE  ShareStep
  BY <1>8, ThreadLifeAssumption DEF BecomeRunning, SameShares
<1>9. ASSUME NEW t \in Thread, BecomeRunning(t, "awaited", "run")
      PROVE  ShareStep
  BY <1>9, ThreadLifeAssumption DEF BecomeRunning, SameShares
<1>10. ASSUME NEW t \in Thread, BecomeRunning(t, "native", "run")
      PROVE  ShareStep
  BY <1>10, ThreadLifeAssumption DEF BecomeRunning, SameShares
<1>11. ASSUME NEW t \in Thread, t \notin joinWait, status[t] = "VMWAIT",
            BecomeRunning(t, "joining", "joining")
      PROVE  ShareStep
  BY <1>11, ThreadLifeAssumption DEF BecomeRunning, SameShares
<1>12. ASSUME NEW t \in Thread, t \notin joinWait, status[t] = "VMWAIT",
            BecomeRunning(t, "detach", "detach")
      PROVE  ShareStep
  BY <1>12, ThreadLifeAssumption DEF BecomeRunning, SameShares
<1>13. ASSUME NEW t \in Thread, SetVmThread(t)
      PROVE  ShareStep
  BY <1>13, ThreadLifeAssumption DEF SetVmThread, SameShares
<1>14. ASSUME NEW t \in Thread, PthreadCreate(t)
      PROVE  ShareStep
  BY <1>14, ThreadLifeAssumption DEF PthreadCreate, SameShares
<1>15. ASSUME NEW t \in Thread, StartRefused(t)
      PROVE  ShareStep
  BY <1>15, ThreadLifeAssumption DEF StartRefused, SameShares
<1>16. ASSUME NEW t \in Thread, PrepareThread(t)
      PROVE  ShareStep
  BY <1>16, ThreadLifeAssumption DEF PrepareThread, SameShares
<1>17. ASSUME NEW t \in Thread, Handshake(t)
      PROVE  ShareStep
  <2>1. CASE status[partner[t]] = "STARTING"
    <3>1. partner[t] \in Thread /\ partner[t] \notin threadList
      BY <1>17 DEF Handshake
    <3>2. AttachingNow' = AttachingNow /\ Given' = Given
      BY <1>17, <2>1, ThreadLifeAssumption DEF Handshake
    <3>3. PICK c \in Thread : c = partner[t] /\ c \notin threadList
      BY <3>1
    <3>4. Links(c)
      BY <1>17, <2>1, <3>2, <3>3 DEF Handshake, Links
    <3> QED
      BY <3>4
  <2>2. CASE status[partner[t]] # "STARTING"
    BY <1>17, <2>2 DEF Handshake, SameShares
  <2> QED
    BY <2>1, <2>2
<1>18. ASSUME NEW t \in Thread, Release(t)
      PROVE  ShareStep
  BY <1>18, ThreadLifeAssumption DEF Release, SameShares
<1>19. ASSUME NEW t \in Thread, AwaitRelease(t)
      PROVE  ShareStep
  BY <1>19, ThreadLifeAssumption DEF AwaitRelease, SameShares
<1>20. ASSUME NEW t \in Thread, Reserve(t)
      PROVE  ShareStep
  <2>1. CASE nonDaemonThreadCount = 0
    BY <1>20, <2>1 DEF Reserve, SameShares
  <2>2. CASE nonDaemonThreadCount # 0
    <3>1. Reserves(t)
      BY <1>20, <2>2 DEF Reserve, Reserves
    <3> QED
      BY <3>1
  <2> QED
    BY <2>1, <2>2
<1>21. ASSUME NEW t \in Thread, AttachFails(t)
      PROVE  ShareStep
  BY <1>21, ThreadLifeAssumption DEF AttachFails, AttachReturns, SameShares
<1>22. ASSUME NEW t \in Thread, LinkSelf(t)
      PROVE  ShareStep
  <2>1. Links(t)
    BY <1>22, ThreadLifeAssumption DEF LinkSelf, Links
  <2> QED
    BY <2>1
<1>23. ASSUME NEW t \in Thread, PulseHeapLock(t)
      PROVE  ShareStep
  BY <1>23, ThreadLifeAssumption DEF PulseHeapLock, SameShares
<1>24. ASSUME NEW t \in Thread, CreateThreadObject(t)
      PROVE  ShareStep
  BY <1>24, ThreadLifeAssumption DEF CreateThreadObject, AttachReturns, SameShares
<1>25. ASSUME NEW t \in Thread, UnlinkSelf(t)
      PROVE  ShareStep
  <2>1. Unlinks(t)
    BY <1>25, ThreadLifeAssumption DEF UnlinkSelf, AttachReturns, Unlinks
  <2> QED
    BY <2>1
<1>26. ASSUME NEW t \in Thread, RestoreCount(t)
      PROVE  ShareStep
  <2>1. Restores(t)
    BY <1>26, ThreadLifeAssumption DEF RestoreCount, Restores
  <2> QED
    BY <2>1
<1>27. ASSUME NEW t \in Thread, AwaitInternal(t)
      PROVE  ShareStep
  BY <1>27, ThreadLifeAssumption DEF AwaitInternal, SameShares
<1>28. ASSUME NEW t \in Thread, Report(t)
      PROVE  ShareStep
  BY <1>28, ThreadLifeAssumption DEF Report, SameShares
<1>29. ASSUME NEW t \in Thread, JoinTest(t)
      PROVE  ShareStep
  BY <1>29, ThreadLifeAssumption DEF JoinTest, SameShares
<1>30. ASSUME NEW t \in Thread, ClearVmThread(t)
      PROVE  ShareStep
  BY <1>30, ThreadLifeAssumption DEF ClearVmThread, SameShares
<1>31. ASSUME NEW t \in Thread, NotifyJoiners(t)
      PROVE  ShareStep
  BY <1>31, ThreadLifeAssumption DEF NotifyJoiners, SameShares
<1>32. ASSUME NEW t \in Thread, AwaitTrace(t)
      PROVE  ShareStep
  BY <1>32, ThreadLifeAssumption DEF AwaitTrace, SameShares
<1>33. ASSUME NEW t \in Thread, Leave(t)
      PROVE  ShareStep
  <2>1. Unlinks(t)
    BY <1>33, ThreadLifeAssumption DEF Leave, Unlinks
  <2> QED
    BY <2>1
<1>34. ASSUME NEW t \in Thread, NEW c \in Child, Start(t, c)
      PROVE  ShareStep
  BY <1>34, ThreadLifeAssumption DEF Start, SameShares
<1>35. ASSUME NEW t \in Thread, NEW c \in Internal, CreateInternal(t, c)
      PROVE  ShareStep
  BY <1>35, ThreadLifeAssumption DEF CreateInternal, SameShares
<1>36. ASSUME NEW t \in Thread, NEW u \in Thread, Join(t, u)
      PROVE  ShareStep
  BY <1>36, ThreadLifeAssumption DEF Join, SameShares
<1>37. ASSUME NEW t \in Thread, Exit(t)
      PROVE  ShareStep
  BY <1>37, ThreadLifeAssumption DEF Exit, SameShares
<1>38. ASSUME NEW t \in Thread, BlockOnGroup(t)
      PROVE  ShareStep
  BY <1>38, ThreadLifeAssumption DEF BlockOnGroup, SameShares
<1>39. ASSUME NEW t \in Attacher, Attach(t)
      PROVE  ShareStep
  BY <1>39, ThreadLifeAssumption DEF Attach, SameShares
<1>40. ASSUME CallDestroy
      PROVE  ShareStep
  BY <1>40, ThreadLifeAssumption DEF CallDestroy, SameShares
<1>41. ASSUME DestroyJavaVM
      PROVE  ShareStep
  <2>1. Gives
    BY <1>41, ThreadLifeAssumption DEF DestroyJavaVM, Gives
  <2> QED
    BY <2>1
<1>42. ASSUME ExitTest
      PROVE  ShareStep
  BY <1>42, ThreadLifeAssumption DEF ExitTest, SameShares
<1>43. ASSUME StartTrace
      PROVE  ShareStep
  BY <1>43, ThreadLifeAssumption DEF StartTrace, SameShares
<1>44. ASSUME StopTrace
      PROVE  ShareStep
  BY <1>44, ThreadLifeAssumption DEF StopTrace, SameShares
<1>45. ASSUME StopAll
      PROVE  ShareStep
  BY <1>45, ThreadLifeAssumption DEF StopAll, SameShares
<1>46. ASSUME AllStopped
      PROVE  ShareStep
  BY <1>46, ThreadLifeAssumption DEF AllStopped, SameShares
<1>47. ASSUME ResumeAll
      PROVE  ShareStep
  BY <1>47, ThreadLifeAssumption DEF ResumeAll, SameShares
<1>48. ASSUME NEW t \in Thread, RejectVersion(t)
      PROVE  ShareStep
  BY <1>48, ThreadLifeAssumption DEF RejectVersion, SameShares
<1> QED
  BY <1>1, <1>2, <1>3, <1>4, <1>5, <1>6, <1>7, <1>8, <1>9, <1>10, <1>11, <1>12, <1>13,
     <1>14, <1>15, <1>16, <1>17, <1>18, <1>19, <1>20, <1>21, <1>22, <1>23, <1>24, <1>25,
     <1>26, <1>27, <1>28, <1>29, <1>30, <1>31, <1>32, <1>33, <1>34, <1>35, <1>36, <1>37,
     <1>38, <1>39, <1>40, <1>41, <1>42, <1>43, <1>44, <1>45, <1>46, <1>47, <1>48
     DEF Next, Proceed, Return, Choose

\* A step of one of the kinds keeps the count equal to the shares.
LEMMA CountStep == LifeInv /\ ShareStep => CountIsExact'
<1> SUFFICES ASSUME LifeInv, ShareStep PROVE CountIsExact'
  OBVIOUS
<1> DEFINE C == Cardinality(Counted)
           A == Cardinality(AttachingNow)
<1>1. /\ Counted \in SUBSET Thread /\ AttachingNow \in SUBSET Thread
      /\ nonDaemonThreadCount + Given = C + A
      /\ nonDaemonThreadCount \in Nat /\ Given \in {0, 1}
  BY DEF LifeInv, TypeOK, CountIsExact, Counted, AttachingNow, Given
<1>2. C \in Nat /\ A \in Nat
  <2>1. Main \in Thread
    BY DEF Thread
  <2>2. C \in Nat
    BY <1>1, <2>1, CountingMembers
  <2>3. A \in Nat
    BY <1>1, <2>1, CountingMembers
  <2> QED
    BY <2>2, <2>3
<1> SUFFICES nonDaemonThreadCount' + Given' = C' + A'
  BY DEF CountIsExact, Counted, AttachingNow, Given
<1>3. threadList' = threadList => C' = C
  BY DEF Counted
<1>4. AttachingNow' = AttachingNow => A' = A
  OBVIOUS
<1>5. CASE SameShares
  BY <1>1, <1>3, <1>4, <1>5 DEF SameShares
<1>6. CASE Gives
  <2>1. nonDaemonThreadCount' + Given' = nonDaemonThreadCount + Given
    BY <1>1, <1>6 DEF Gives
  <2> QED
    BY <1>1, <1>3, <1>4, <1>6, <2>1 DEF Gives
<1>7. ASSUME NEW t \in Thread, Links(t)
      PROVE  nonDaemonThreadCount' + Given' = C' + A'
  <2>1. Given' = Given /\ A' = A
    BY <1>7, <1>4 DEF Links
  <2>2. CASE t \in Daemon
    <3>1. Counted' = Counted /\ nonDaemonThreadCount' = nonDaemonThreadCount
      BY <1>1, <1>7, <2>2 DEF Links, Link, Counted
    <3>2. C' = C
      BY <3>1
    <3> QED
      BY <1>1, <2>1, <3>1, <3>2
  <2>3. CASE t \notin Daemon
    <3>1. /\ Counted' = Counted \cup {t} /\ t \notin Counted
          /\ nonDaemonThreadCount' = nonDaemonThreadCount + 1
      BY <1>1, <1>7, <2>3 DEF Links, Link, Counted
    <3>2. Cardinality(Counted \cup {t}) = C + 1
      BY <1>1, <3>1, CountingMembers
    <3>3. C' = C + 1
      BY <3>1, <3>2
    <3> HIDE DEF C, A
    <3> QED
      BY <1>1, <1>2, <2>1, <3>1, <3>3
  <2> QED
    BY <2>2, <2>3
<1>8. ASSUME NEW t \in Thread, Unlinks(t)
      PROVE  nonDaemonThreadCount' + Given' = C' + A'
  <2>1. Given' = Given /\ A' = A
    BY <1>8, <1>4 DEF Unlinks
  <2>2. CASE t \in Daemon
    <3>1. Counted' = Counted /\ nonDaemonThreadCount' = nonDaemonThreadCount
      BY <1>1, <1>8, <2>2 DEF Unlinks, Unlink, Counted
    <3>2. C' = C
      BY <3>1
    <3> QED
      BY <1>1, <2>1, <3>1, <3>2
  <2>3. CASE t \notin Daemon
    <3>1. /\ Counted' = Counted \ {t} /\ t \in Counted
          /\ nonDaemonThreadCount' = nonDaemonThreadCount - 1
      BY <1>1, <1>8, <2>3 DEF Unlinks, Unlink, Counted
    <3>2. Cardinality(Counted \ {t}) = C - 1
      BY <1>1, <3>1, CountingMembers
    <3>3. C' = C - 1
      BY <3>1, <3>2
    <3> HIDE DEF C, A
    <3> QED
      BY <1>1, <1>2, <2>1, <3>1, <3>3
  <2> QED
    BY <2>2, <2>3
<1>9. ASSUME NEW t \in Thread, Reserves(t)
      PROVE  nonDaemonThreadCount' + Given' = C' + A'
  <2>1. Cardinality(AttachingNow \cup {t}) = A + 1
    BY <1>1, <1>9, CountingMembers DEF Reserves
  <2>2. A' = A + 1
    BY <1>9, <2>1 DEF Reserves
  <2>3. /\ nonDaemonThreadCount' = nonDaemonThreadCount + 1
        /\ Given' = Given /\ C' = C
    BY <1>3, <1>9 DEF Reserves
  <2> HIDE DEF C, A
  <2> QED
    BY <1>1, <1>2, <2>2, <2>3
<1>10. ASSUME NEW t \in Thread, Restores(t)
       PROVE  nonDaemonThreadCount' + Given' = C' + A'
  <2>1. Cardinality(AttachingNow \ {t}) = A - 1
    BY <1>1, <1>10, CountingMembers DEF Restores
  <2>2. A' = A - 1
    BY <1>10, <2>1 DEF Restores
  <2>3. /\ nonDaemonThreadCount' = nonDaemonThreadCount - 1
        /\ Given' = Given /\ C' = C
    BY <1>3, <1>10 DEF Restores
  <2> HIDE DEF C, A
  <2> QED
    BY <1>1, <1>2, <2>2, <2>3
<1> QED
  BY <1>5, <1>6, <1>7, <1>8, <1>9, <1>10 DEF ShareStep

\* The initial state, in which main is the only thread.
LEMMA LifeInit == Init => LifeInv
<1> SUFFICES ASSUME Init PROVE LifeInv
  OBVIOUS
<1>1. TypeOK
  <2>1. /\ status \in [Thread -> Status] /\ pc \in [Thread -> Point]
        /\ partner \in [Thread -> Thread \cup {NoThread}]
    BY DEF Init, Status, Point, ListPoint
  <2>2. suspendCount \in [Thread -> Nat] /\ createStatus \in [Internal -> {0, 1, 2}]
    BY DEF Init
  <2>3. threadList \subseteq Thread /\ vmThread \subseteq Thread
    BY DEF Init, Thread
  <2>4. /\ stops \in 0..MaxStops /\ nonDaemonThreadCount \in Nat
        /\ gc \in {"idle", "stopping", "stopped"}
    BY ThreadLifeAssumption DEF Init
  <2>5. /\ startWait \subseteq Thread /\ exitWait \subseteq {Main}
        /\ joinWait \subseteq Thread /\ traceWait \subseteq Thread
        /\ listOwner \in Thread \cup {NoThread, Collector} /\ traceEnabled \in BOOLEAN
    BY DEF Init
  <2> QED
    BY <2>1, <2>2, <2>3, <2>4, <2>5 DEF TypeOK
<1>2. CtlInv
  BY ThreadLifeAssumption
     DEF Init, CtlInv, ListedWhere, UnlistedPoint, EitherPoint, StatusWhere, RoleWhere,
         ChildWhere, OneParent, ParentPoint, Early, Middle, Late, CollectorWhere, Thread
<1>3. CountIsExact
  <2>1. threadList \ Daemon = {Main}
    BY ThreadLifeAssumption DEF Init
  <2>2. {t \in Thread : Attaching(t)} = {}
    BY ThreadLifeAssumption DEF Init, Attaching
  <2>3. Cardinality({Main}) = 1 /\ Cardinality({}) = 0
    BY FS_Singleton, FS_EmptySet
  <2>4. nonDaemonThreadCount = 1 /\ pc[Main] = "run"
    BY DEF Init, Thread
  <2> QED
    BY <2>1, <2>2, <2>3, <2>4 DEF CountIsExact
<1> QED
  BY <1>1, <1>2, <1>3 DEF LifeInv

\* The invariant holds for any set of threads.
THEOREM LifeInvariant == Spec => []LifeInv
<1>1. LifeInv /\ [Next]_vars => LifeInv'
  BY LifeTypeStep, CtlStep, ShareSteps, CountStep DEF LifeInv
<1> QED
  BY <1>1, LifeInit, PTL DEF Spec

\* nonDaemonThreadCount, which DestroyJavaVM waits on and AttachCurrentThread
\* tests, is exact: for any number of threads that start, attach, fail to attach
\* and end in any order, every path of vm/Thread.cpp and vm/Jni.cpp balances.
THEOREM CountsAreExact == Spec => []CountIsExact
<1>1. LifeInv => CountIsExact
  BY DEF LifeInv
<1> QED
  BY <1>1, LifeInvariant, PTL

-----------------------------------------------------------------------------
(* Sleepers.                                                               *)

\* Nobody is forgotten in join: a thread that is no longer to be joined is at its
\* notifyAll, has done it, or never ran.
LEMMA JoinStep == LifeInv /\ JoinInv /\ [Next]_vars => JoinInv'
<1> SUFFICES ASSUME LifeInv, JoinInv, [Next]_vars PROVE JoinInv'
  OBVIOUS
<1> USE DEF At, Goto, SetStatus, ListFree, Managed, Link, Unlink, listVars, condVars,
            traceVars, gcVars, ctlVars
<1> USE DEF LifeInv, CtlInv, TypeOK, JoinInv, Thread, StatusWhere, ChildWhere,
            Early, Middle, Late, ParentPoint
<1>1. CASE UNCHANGED vars
  BY <1>1 DEF vars
<1>2. ASSUME NEW t \in Thread, BlockOnList(t)
      PROVE  JoinInv'
  BY <1>2 DEF BlockOnList
<1>3. ASSUME NEW t \in Thread, Park(t)
      PROVE  JoinInv'
  BY <1>3 DEF Park
<1>4. ASSUME NEW t \in Thread, Unpark(t)
      PROVE  JoinInv'
  BY <1>4 DEF Unpark, BecomeRunning
<1>5. ASSUME NEW t \in Thread, BecomeRunning(t, "spawned", "handshake")
      PROVE  JoinInv'
  BY <1>5 DEF BecomeRunning
<1>6. ASSUME NEW t \in Thread, BecomeRunning(t, "adopted", "release")
      PROVE  JoinInv'
  BY <1>6 DEF BecomeRunning
<1>7. ASSUME NEW t \in Thread, BecomeRunning(t, "enter", "run")
      PROVE  JoinInv'
  BY <1>7 DEF BecomeRunning
<1>8. ASSUME NEW t \in Thread, BecomeRunning(t, "pulsed", "objects")
      PROVE  JoinInv'
  BY <1>8 DEF BecomeRunning
<1>9. ASSUME NEW t \in Thread, BecomeRunning(t, "awaited", "run")
      PROVE  JoinInv'
  BY <1>9 DEF BecomeRunning
<1>10. ASSUME NEW t \in Thread, BecomeRunning(t, "native", "run")
      PROVE  JoinInv'
  BY <1>10 DEF BecomeRunning
<1>11. ASSUME NEW t \in Thread, t \notin joinWait, status[t] = "VMWAIT",
            BecomeRunning(t, "joining", "joining")
      PROVE  JoinInv'
  BY <1>11 DEF BecomeRunning
<1>12. ASSUME NEW t \in Thread, t \notin joinWait, status[t] = "VMWAIT",
            BecomeRunning(t, "detach", "detach")
      PROVE  JoinInv'
  BY <1>12 DEF BecomeRunning
<1>13. ASSUME NEW t \in Thread, SetVmThread(t)
      PROVE  JoinInv'
  BY <1>13 DEF SetVmThread
<1>14. ASSUME NEW t \in Thread, PthreadCreate(t)
      PROVE  JoinInv'
  BY <1>14 DEF PthreadCreate
<1>15. ASSUME NEW t \in Thread, StartRefused(t)
      PROVE  JoinInv'
  BY <1>15 DEF StartRefused
<1>16. ASSUME NEW t \in Thread, PrepareThread(t)
      PROVE  JoinInv'
  BY <1>16 DEF PrepareThread
<1>17. ASSUME NEW t \in Thread, Handshake(t)
      PROVE  JoinInv'
  BY <1>17 DEF Handshake
<1>18. ASSUME NEW t \in Thread, Release(t)
      PROVE  JoinInv'
  BY <1>18 DEF Release
<1>19. ASSUME NEW t \in Thread, AwaitRelease(t)
      PROVE  JoinInv'
  BY <1>19 DEF AwaitRelease
<1>20. ASSUME NEW t \in Thread, Reserve(t)
      PROVE  JoinInv'
  BY <1>20 DEF Reserve
<1>21. ASSUME NEW t \in Thread, AttachFails(t)
      PROVE  JoinInv'
  BY <1>21 DEF AttachFails, AttachReturns
<1>22. ASSUME NEW t \in Thread, LinkSelf(t)
      PROVE  JoinInv'
  BY <1>22 DEF LinkSelf
<1>23. ASSUME NEW t \in Thread, PulseHeapLock(t)
      PROVE  JoinInv'
  BY <1>23 DEF PulseHeapLock
<1>24. ASSUME NEW t \in Thread, CreateThreadObject(t)
      PROVE  JoinInv'
  BY <1>24 DEF CreateThreadObject, AttachReturns
<1>25. ASSUME NEW t \in Thread, UnlinkSelf(t)
      PROVE  JoinInv'
  BY <1>25 DEF UnlinkSelf, AttachReturns
<1>26. ASSUME NEW t \in Thread, RestoreCount(t)
      PROVE  JoinInv'
  BY <1>26 DEF RestoreCount
<1>27. ASSUME NEW t \in Thread, AwaitInternal(t)
      PROVE  JoinInv'
  BY <1>27 DEF AwaitInternal
<1>28. ASSUME NEW t \in Thread, Report(t)
      PROVE  JoinInv'
  BY <1>28 DEF Report
<1>29. ASSUME NEW t \in Thread, JoinTest(t)
      PROVE  JoinInv'
  BY <1>29 DEF JoinTest
<1>30. ASSUME NEW t \in Thread, ClearVmThread(t)
      PROVE  JoinInv'
  BY <1>30 DEF ClearVmThread
<1>31. ASSUME NEW t \in Thread, NotifyJoiners(t)
      PROVE  JoinInv'
  BY <1>31 DEF NotifyJoiners
<1>32. ASSUME NEW t \in Thread, AwaitTrace(t)
      PROVE  JoinInv'
  BY <1>32 DEF AwaitTrace
<1>33. ASSUME NEW t \in Thread, Leave(t)
      PROVE  JoinInv'
  BY <1>33 DEF Leave
<1>34. ASSUME NEW t \in Thread, NEW c \in Child, Start(t, c)
      PROVE  JoinInv'
  BY <1>34 DEF Start
<1>35. ASSUME NEW t \in Thread, NEW c \in Internal, CreateInternal(t, c)
      PROVE  JoinInv'
  BY <1>35 DEF CreateInternal
<1>36. ASSUME NEW t \in Thread, NEW u \in Thread, Join(t, u)
      PROVE  JoinInv'
  BY <1>36 DEF Join
<1>37. ASSUME NEW t \in Thread, Exit(t)
      PROVE  JoinInv'
  BY <1>37 DEF Exit
<1>38. ASSUME NEW t \in Thread, BlockOnGroup(t)
      PROVE  JoinInv'
  BY <1>38 DEF BlockOnGroup
<1>39. ASSUME NEW t \in Attacher, Attach(t)
      PROVE  JoinInv'
  BY <1>39 DEF Attach
<1>40. ASSUME CallDestroy
      PROVE  JoinInv'
  BY <1>40 DEF CallDestroy
<1>41. ASSUME DestroyJavaVM
      PROVE  JoinInv'
  BY <1>41 DEF DestroyJavaVM
<1>42. ASSUME ExitTest
      PROVE  JoinInv'
  BY <1>42 DEF ExitTest
<1>43. ASSUME StartTrace
      PROVE  JoinInv'
  BY <1>43 DEF StartTrace
<1>44. ASSUME StopTrace
      PROVE  JoinInv'
  BY <1>44 DEF StopTrace
<1>45. ASSUME StopAll
      PROVE  JoinInv'
  BY <1>45 DEF StopAll
<1>46. ASSUME AllStopped
      PROVE  JoinInv'
  BY <1>46 DEF AllStopped
<1>47. ASSUME ResumeAll
      PROVE  JoinInv'
  BY <1>47 DEF ResumeAll
<1>48. ASSUME NEW t \in Thread, RejectVersion(t)
      PROVE  JoinInv'
  BY <1>48 DEF RejectVersion
<1> QED
  BY <1>1, <1>2, <1>3, <1>4, <1>5, <1>6, <1>7, <1>8, <1>9, <1>10, <1>11, <1>12, <1>13,
     <1>14, <1>15, <1>16, <1>17, <1>18, <1>19, <1>20, <1>21, <1>22, <1>23, <1>24, <1>25,
     <1>26, <1>27, <1>28, <1>29, <1>30, <1>31, <1>32, <1>33, <1>34, <1>35, <1>36, <1>37,
     <1>38, <1>39, <1>40, <1>41, <1>42, <1>43, <1>44, <1>45, <1>46, <1>47, <1>48
     DEF Next, Proceed, Return, Choose

\* A thread in join sleeps only while it has a wake-up coming: vmThread is cleared
\* and the VMThread notified in two steps, and join tests between them at will
\* (dvmDetachCurrentThread).
THEOREM JoinersWakeUp == Spec => []JoinersAreWoken
<1>1. Init => JoinInv
  BY DEF Init, JoinInv
<1>2. JoinInv => JoinersAreWoken
  BY DEF JoinInv, JoinersAreWoken, At
<1> QED
  BY <1>1, <1>2, LifeInvariant, JoinStep, PTL DEF Spec

\* Who sleeps on threadStartCond still has to wait for its parent or its child.
LEMMA OwedStep == LifeInv /\ SleepersAreOwed /\ [Next]_vars => SleepersAreOwed'
<1> SUFFICES ASSUME LifeInv, SleepersAreOwed, [Next]_vars PROVE SleepersAreOwed'
  OBVIOUS
<1> USE DEF At, Goto, SetStatus, ListFree, Managed, Link, Unlink, listVars, condVars,
            traceVars, gcVars, ctlVars
<1> USE DEF LifeInv, CtlInv, TypeOK, SleepersAreOwed, Thread, StatusWhere, RoleWhere, ChildWhere,
            Early, Middle, Late, ParentPoint
<1>1. CASE UNCHANGED vars
  BY <1>1 DEF vars
<1>2. ASSUME NEW t \in Thread, BlockOnList(t)
      PROVE  SleepersAreOwed'
  BY <1>2 DEF BlockOnList
<1>3. ASSUME NEW t \in Thread, Park(t)
      PROVE  SleepersAreOwed'
  BY <1>3 DEF Park
<1>4. ASSUME NEW t \in Thread, Unpark(t)
      PROVE  SleepersAreOwed'
  BY <1>4 DEF Unpark, BecomeRunning
<1>5. ASSUME NEW t \in Thread, BecomeRunning(t, "spawned", "handshake")
      PROVE  SleepersAreOwed'
  BY <1>5 DEF BecomeRunning
<1>6. ASSUME NEW t \in Thread, BecomeRunning(t, "adopted", "release")
      PROVE  SleepersAreOwed'
  BY <1>6 DEF BecomeRunning
<1>7. ASSUME NEW t \in Thread, BecomeRunning(t, "enter", "run")
      PROVE  SleepersAreOwed'
  BY <1>7 DEF BecomeRunning
<1>8. ASSUME NEW t \in Thread, BecomeRunning(t, "pulsed", "objects")
      PROVE  SleepersAreOwed'
  BY <1>8 DEF BecomeRunning
<1>9. ASSUME NEW t \in Thread, BecomeRunning(t, "awaited", "run")
      PROVE  SleepersAreOwed'
  BY <1>9 DEF BecomeRunning
<1>10. ASSUME NEW t \in Thread, BecomeRunning(t, "native", "run")
      PROVE  SleepersAreOwed'
  BY <1>10 DEF BecomeRunning
<1>11. ASSUME NEW t \in Thread, t \notin joinWait, status[t] = "VMWAIT",
            BecomeRunning(t, "joining", "joining")
      PROVE  SleepersAreOwed'
  BY <1>11 DEF BecomeRunning
<1>12. ASSUME NEW t \in Thread, t \notin joinWait, status[t] = "VMWAIT",
            BecomeRunning(t, "detach", "detach")
      PROVE  SleepersAreOwed'
  BY <1>12 DEF BecomeRunning
<1>13. ASSUME NEW t \in Thread, SetVmThread(t)
      PROVE  SleepersAreOwed'
  BY <1>13 DEF SetVmThread
<1>14. ASSUME NEW t \in Thread, PthreadCreate(t)
      PROVE  SleepersAreOwed'
  BY <1>14 DEF PthreadCreate
<1>15. ASSUME NEW t \in Thread, StartRefused(t)
      PROVE  SleepersAreOwed'
  BY <1>15 DEF StartRefused
<1>16. ASSUME NEW t \in Thread, PrepareThread(t)
      PROVE  SleepersAreOwed'
  BY <1>16 DEF PrepareThread
<1>17. ASSUME NEW t \in Thread, Handshake(t)
      PROVE  SleepersAreOwed'
  BY <1>17 DEF Handshake
<1>18. ASSUME NEW t \in Thread, Release(t)
      PROVE  SleepersAreOwed'
  BY <1>18 DEF Release
<1>19. ASSUME NEW t \in Thread, AwaitRelease(t)
      PROVE  SleepersAreOwed'
  BY <1>19 DEF AwaitRelease
<1>20. ASSUME NEW t \in Thread, Reserve(t)
      PROVE  SleepersAreOwed'
  BY <1>20 DEF Reserve
<1>21. ASSUME NEW t \in Thread, AttachFails(t)
      PROVE  SleepersAreOwed'
  BY <1>21 DEF AttachFails, AttachReturns
<1>22. ASSUME NEW t \in Thread, LinkSelf(t)
      PROVE  SleepersAreOwed'
  BY <1>22 DEF LinkSelf
<1>23. ASSUME NEW t \in Thread, PulseHeapLock(t)
      PROVE  SleepersAreOwed'
  BY <1>23 DEF PulseHeapLock
<1>24. ASSUME NEW t \in Thread, CreateThreadObject(t)
      PROVE  SleepersAreOwed'
  BY <1>24 DEF CreateThreadObject, AttachReturns
<1>25. ASSUME NEW t \in Thread, UnlinkSelf(t)
      PROVE  SleepersAreOwed'
  BY <1>25 DEF UnlinkSelf, AttachReturns
<1>26. ASSUME NEW t \in Thread, RestoreCount(t)
      PROVE  SleepersAreOwed'
  BY <1>26 DEF RestoreCount
<1>27. ASSUME NEW t \in Thread, AwaitInternal(t)
      PROVE  SleepersAreOwed'
  BY <1>27 DEF AwaitInternal
<1>28. ASSUME NEW t \in Thread, Report(t)
      PROVE  SleepersAreOwed'
  BY <1>28 DEF Report
<1>29. ASSUME NEW t \in Thread, JoinTest(t)
      PROVE  SleepersAreOwed'
  BY <1>29 DEF JoinTest
<1>30. ASSUME NEW t \in Thread, ClearVmThread(t)
      PROVE  SleepersAreOwed'
  BY <1>30 DEF ClearVmThread
<1>31. ASSUME NEW t \in Thread, NotifyJoiners(t)
      PROVE  SleepersAreOwed'
  BY <1>31 DEF NotifyJoiners
<1>32. ASSUME NEW t \in Thread, AwaitTrace(t)
      PROVE  SleepersAreOwed'
  BY <1>32 DEF AwaitTrace
<1>33. ASSUME NEW t \in Thread, Leave(t)
      PROVE  SleepersAreOwed'
  BY <1>33 DEF Leave
<1>34. ASSUME NEW t \in Thread, NEW c \in Child, Start(t, c)
      PROVE  SleepersAreOwed'
  BY <1>34 DEF Start
<1>35. ASSUME NEW t \in Thread, NEW c \in Internal, CreateInternal(t, c)
      PROVE  SleepersAreOwed'
  BY <1>35 DEF CreateInternal
<1>36. ASSUME NEW t \in Thread, NEW u \in Thread, Join(t, u)
      PROVE  SleepersAreOwed'
  BY <1>36 DEF Join
<1>37. ASSUME NEW t \in Thread, Exit(t)
      PROVE  SleepersAreOwed'
  BY <1>37 DEF Exit
<1>38. ASSUME NEW t \in Thread, BlockOnGroup(t)
      PROVE  SleepersAreOwed'
  BY <1>38 DEF BlockOnGroup
<1>39. ASSUME NEW t \in Attacher, Attach(t)
      PROVE  SleepersAreOwed'
  BY <1>39 DEF Attach
<1>40. ASSUME CallDestroy
      PROVE  SleepersAreOwed'
  BY <1>40 DEF CallDestroy
<1>41. ASSUME DestroyJavaVM
      PROVE  SleepersAreOwed'
  BY <1>41 DEF DestroyJavaVM
<1>42. ASSUME ExitTest
      PROVE  SleepersAreOwed'
  BY <1>42 DEF ExitTest
<1>43. ASSUME StartTrace
      PROVE  SleepersAreOwed'
  BY <1>43 DEF StartTrace
<1>44. ASSUME StopTrace
      PROVE  SleepersAreOwed'
  BY <1>44 DEF StopTrace
<1>45. ASSUME StopAll
      PROVE  SleepersAreOwed'
  BY <1>45 DEF StopAll
<1>46. ASSUME AllStopped
      PROVE  SleepersAreOwed'
  BY <1>46 DEF AllStopped
<1>47. ASSUME ResumeAll
      PROVE  SleepersAreOwed'
  BY <1>47 DEF ResumeAll
<1>48. ASSUME NEW t \in Thread, RejectVersion(t)
      PROVE  SleepersAreOwed'
  BY <1>48 DEF RejectVersion
<1> QED
  BY <1>1, <1>2, <1>3, <1>4, <1>5, <1>6, <1>7, <1>8, <1>9, <1>10, <1>11, <1>12, <1>13,
     <1>14, <1>15, <1>16, <1>17, <1>18, <1>19, <1>20, <1>21, <1>22, <1>23, <1>24, <1>25,
     <1>26, <1>27, <1>28, <1>29, <1>30, <1>31, <1>32, <1>33, <1>34, <1>35, <1>36, <1>37,
     <1>38, <1>39, <1>40, <1>41, <1>42, <1>43, <1>44, <1>45, <1>46, <1>47, <1>48
     DEF Next, Proceed, Return, Choose

\* The handshakes of starting threads lose no wake-up although parents, children
\* and creators of internal threads share one condition, and nobody who dies
\* sleeps on threadExitCond when the trace has stopped.
THEOREM HandshakesWakeUp == Spec => []SleepersAreOwed
<1>1. Init => SleepersAreOwed
  BY DEF Init, SleepersAreOwed
<1> QED
  BY <1>1, LifeInvariant, OwedStep, PTL DEF Spec

-----------------------------------------------------------------------------
(* Threads the collector has not counted.                                  *)

\* Who is listed while a collection runs, and so not counted, waits for the end of
\* it: an attaching thread for the heap lock, a child for its parent.
UncountedInv ==
  gc # "idle" => \A t \in threadList : suspendCount[t] = 0 =>
    /\ gc = "stopped"
    /\ \/ pc[t] = "pulse"
       \/ pc[t] = "wait" /\ \E p \in Thread : pc[p] = "adopted" /\ partner[p] = t

LEMMA UncountedStep == Throwing = {} /\ LifeInv /\ UncountedInv /\ [Next]_vars => UncountedInv'
<1> SUFFICES ASSUME Throwing = {}, LifeInv, UncountedInv, [Next]_vars PROVE UncountedInv'
  OBVIOUS
<1> USE DEF At, Goto, SetStatus, ListFree, Managed, Link, Unlink, listVars, condVars,
            traceVars, gcVars, ctlVars
<1> USE DEF LifeInv, CtlInv, TypeOK, UncountedInv, Thread, ListedWhere, UnlistedPoint, EitherPoint,
            StatusWhere, ChildWhere, OneParent, CollectorWhere, Early, Middle, Late, ParentPoint
<1>1. CASE UNCHANGED vars
  BY <1>1 DEF vars
<1>2. ASSUME NEW t \in Thread, BlockOnList(t)
      PROVE  UncountedInv'
  BY <1>2 DEF BlockOnList
<1>3. ASSUME NEW t \in Thread, Park(t)
      PROVE  UncountedInv'
  BY <1>3 DEF Park
<1>4. ASSUME NEW t \in Thread, Unpark(t)
      PROVE  UncountedInv'
  BY <1>4 DEF Unpark, BecomeRunning
<1>5. ASSUME NEW t \in Thread, BecomeRunning(t, "spawned", "handshake")
      PROVE  UncountedInv'
  BY <1>5 DEF BecomeRunning
<1>6. ASSUME NEW t \in Thread, BecomeRunning(t, "adopted", "release")
      PROVE  UncountedInv'
  BY <1>6 DEF BecomeRunning
<1>7. ASSUME NEW t \in Thread, BecomeRunning(t, "enter", "run")
      PROVE  UncountedInv'
  BY <1>7 DEF BecomeRunning
<1>8. ASSUME NEW t \in Thread, BecomeRunning(t, "pulsed", "objects")
      PROVE  UncountedInv'
  BY <1>8 DEF BecomeRunning
<1>9. ASSUME NEW t \in Thread, BecomeRunning(t, "awaited", "run")
      PROVE  UncountedInv'
  BY <1>9 DEF BecomeRunning
<1>10. ASSUME NEW t \in Thread, BecomeRunning(t, "native", "run")
      PROVE  UncountedInv'
  BY <1>10 DEF BecomeRunning
<1>11. ASSUME NEW t \in Thread, t \notin joinWait, status[t] = "VMWAIT",
            BecomeRunning(t, "joining", "joining")
      PROVE  UncountedInv'
  BY <1>11 DEF BecomeRunning
<1>12. ASSUME NEW t \in Thread, t \notin joinWait, status[t] = "VMWAIT",
            BecomeRunning(t, "detach", "detach")
      PROVE  UncountedInv'
  BY <1>12 DEF BecomeRunning
<1>13. ASSUME NEW t \in Thread, SetVmThread(t)
      PROVE  UncountedInv'
  BY <1>13 DEF SetVmThread
<1>14. ASSUME NEW t \in Thread, PthreadCreate(t)
      PROVE  UncountedInv'
  BY <1>14 DEF PthreadCreate
<1>15. ASSUME NEW t \in Thread, StartRefused(t)
      PROVE  UncountedInv'
  BY <1>15 DEF StartRefused
<1>16. ASSUME NEW t \in Thread, PrepareThread(t)
      PROVE  UncountedInv'
  BY <1>16 DEF PrepareThread
<1>17. ASSUME NEW t \in Thread, Handshake(t)
      PROVE  UncountedInv'
  <2>1. gc # "stopping"
    BY <1>17, ThreadLifeAssumption DEF Handshake
  <2>2. CASE status[partner[t]] = "STARTING"
    <3>1. partner[t] \in Thread /\ partner[t] # t /\ pc[t] = "handshake"
      BY <1>17 DEF Handshake
    <3>2. PICK c \in Thread : c = partner[t]
      BY <3>1
    <3>3. /\ pc[c] = "wait" /\ pc' = [pc EXCEPT ![t] = "adopted"]
          /\ threadList' = threadList \cup {c} /\ partner' = partner
          /\ gc' = gc /\ suspendCount' = suspendCount
      BY <1>17, <2>2, <3>1, <3>2 DEF Handshake
    <3>4. pc'[t] = "adopted" /\ partner'[t] = c /\ pc'[c] = "wait"
      BY <3>1, <3>2, <3>3
    <3>5. ASSUME gc' # "idle", NEW u \in threadList', suspendCount'[u] = 0
          PROVE  /\ gc' = "stopped"
                 /\ \/ pc'[u] = "pulse"
                    \/ pc'[u] = "wait" /\ \E p \in Thread : pc'[p] = "adopted" /\ partner'[p] = u
      <4>1. CASE u = c
        BY <2>1, <3>2, <3>3, <3>4, <3>5, <4>1
      <4>2. CASE u \in threadList
        <5>1. gc = "stopped" /\ \/ pc[u] = "pulse"
                                \/ pc[u] = "wait" /\ \E p \in Thread : pc[p] = "adopted" /\ partner[p] = u
          BY <3>3, <3>5, <4>2
        <5>2. CASE pc[u] = "pulse"
          BY <3>1, <3>3, <5>1, <5>2
        <5>3. ASSUME pc[u] = "wait", NEW p \in Thread, pc[p] = "adopted", partner[p] = u
              PROVE  pc'[u] = "wait" /\ pc'[p] = "adopted" /\ partner'[p] = u
          BY <3>1, <3>3, <5>3
        <5> QED
          BY <3>3, <5>1, <5>2, <5>3
      <4> QED
        BY <3>3, <3>5, <4>1, <4>2
    <3> QED
      BY <3>5
  <2>3. CASE status[partner[t]] # "STARTING"
    BY <1>17, <2>3 DEF Handshake
  <2> QED
    BY <2>2, <2>3
<1>18. ASSUME NEW t \in Thread, Release(t)
      PROVE  UncountedInv'
  BY <1>18 DEF Release
<1>19. ASSUME NEW t \in Thread, AwaitRelease(t)
      PROVE  UncountedInv'
  BY <1>19 DEF AwaitRelease
<1>20. ASSUME NEW t \in Thread, Reserve(t)
      PROVE  UncountedInv'
  BY <1>20 DEF Reserve
<1>21. ASSUME NEW t \in Thread, AttachFails(t)
      PROVE  UncountedInv'
  BY <1>21 DEF AttachFails, AttachReturns
<1>22. ASSUME NEW t \in Thread, LinkSelf(t)
      PROVE  UncountedInv'
  <2>1. gc # "stopping"
    BY <1>22, ThreadLifeAssumption DEF LinkSelf
  <2>2. /\ pc[t] = "link" /\ pc' = [pc EXCEPT ![t] = "pulse"]
        /\ threadList' = threadList \cup {t} /\ partner' = partner
        /\ gc' = gc /\ suspendCount' = suspendCount
    BY <1>22 DEF LinkSelf
  <2> QED
    BY <2>1, <2>2
<1>23. ASSUME NEW t \in Thread, PulseHeapLock(t)
      PROVE  UncountedInv'
  BY <1>23 DEF PulseHeapLock
<1>24. ASSUME NEW t \in Thread, CreateThreadObject(t)
      PROVE  UncountedInv'
  BY <1>24 DEF CreateThreadObject, AttachReturns
<1>25. ASSUME NEW t \in Thread, UnlinkSelf(t)
      PROVE  UncountedInv'
  BY <1>25 DEF UnlinkSelf, AttachReturns
<1>26. ASSUME NEW t \in Thread, RestoreCount(t)
      PROVE  UncountedInv'
  BY <1>26 DEF RestoreCount
<1>27. ASSUME NEW t \in Thread, AwaitInternal(t)
      PROVE  UncountedInv'
  BY <1>27 DEF AwaitInternal
<1>28. ASSUME NEW t \in Thread, Report(t)
      PROVE  UncountedInv'
  BY <1>28 DEF Report
<1>29. ASSUME NEW t \in Thread, JoinTest(t)
      PROVE  UncountedInv'
  BY <1>29 DEF JoinTest
<1>30. ASSUME NEW t \in Thread, ClearVmThread(t)
      PROVE  UncountedInv'
  BY <1>30 DEF ClearVmThread
<1>31. ASSUME NEW t \in Thread, NotifyJoiners(t)
      PROVE  UncountedInv'
  BY <1>31 DEF NotifyJoiners
<1>32. ASSUME NEW t \in Thread, AwaitTrace(t)
      PROVE  UncountedInv'
  BY <1>32 DEF AwaitTrace
<1>33. ASSUME NEW t \in Thread, Leave(t)
      PROVE  UncountedInv'
  BY <1>33 DEF Leave
<1>34. ASSUME NEW t \in Thread, NEW c \in Child, Start(t, c)
      PROVE  UncountedInv'
  BY <1>34 DEF Start
<1>35. ASSUME NEW t \in Thread, NEW c \in Internal, CreateInternal(t, c)
      PROVE  UncountedInv'
  BY <1>35 DEF CreateInternal
<1>36. ASSUME NEW t \in Thread, NEW u \in Thread, Join(t, u)
      PROVE  UncountedInv'
  BY <1>36 DEF Join
<1>37. ASSUME NEW t \in Thread, Exit(t)
      PROVE  UncountedInv'
  BY <1>37 DEF Exit
<1>38. ASSUME NEW t \in Thread, BlockOnGroup(t)
      PROVE  UncountedInv'
  BY <1>38 DEF BlockOnGroup
<1>39. ASSUME NEW t \in Attacher, Attach(t)
      PROVE  UncountedInv'
  BY <1>39 DEF Attach
<1>40. ASSUME CallDestroy
      PROVE  UncountedInv'
  BY <1>40 DEF CallDestroy
<1>41. ASSUME DestroyJavaVM
      PROVE  UncountedInv'
  BY <1>41 DEF DestroyJavaVM
<1>42. ASSUME ExitTest
      PROVE  UncountedInv'
  BY <1>42 DEF ExitTest
<1>43. ASSUME StartTrace
      PROVE  UncountedInv'
  BY <1>43 DEF StartTrace
<1>44. ASSUME StopTrace
      PROVE  UncountedInv'
  BY <1>44 DEF StopTrace
<1>45. ASSUME StopAll
      PROVE  UncountedInv'
  BY <1>45 DEF StopAll
<1>46. ASSUME AllStopped
      PROVE  UncountedInv'
  BY <1>46 DEF AllStopped
<1>47. ASSUME ResumeAll
      PROVE  UncountedInv'
  BY <1>47 DEF ResumeAll
<1>48. ASSUME NEW t \in Thread, RejectVersion(t)
      PROVE  UncountedInv'
  BY <1>48 DEF RejectVersion
<1> QED
  BY <1>1, <1>2, <1>3, <1>4, <1>5, <1>6, <1>7, <1>8, <1>9, <1>10, <1>11, <1>12, <1>13,
     <1>14, <1>15, <1>16, <1>17, <1>18, <1>19, <1>20, <1>21, <1>22, <1>23, <1>24, <1>25,
     <1>26, <1>27, <1>28, <1>29, <1>30, <1>31, <1>32, <1>33, <1>34, <1>35, <1>36, <1>37,
     <1>38, <1>39, <1>40, <1>41, <1>42, <1>43, <1>44, <1>45, <1>46, <1>47, <1>48
     DEF Next, Proceed, Return, Choose

\* In a stopped world a thread without a suspension is not RUNNING, whether it was
\* started, attached or made known meanwhile, when no thread dies of an uncaught
\* exception (threadExitUncaughtException takes the suspensions of others back).
THEOREM UncountedThreadsStall == Throwing = {} => (Spec => []UncountedStall)
<1> SUFFICES ASSUME Throwing = {} PROVE Spec => []UncountedStall
  OBVIOUS
<1>1. Init => UncountedInv
  BY DEF Init, UncountedInv
<1>2. LifeInv /\ UncountedInv => UncountedStall
  <2> SUFFICES ASSUME LifeInv, UncountedInv, gc = "stopped",
                      NEW t \in Thread, suspendCount[t] = 0, status[t] = "RUNNING"
               PROVE  FALSE
    BY DEF UncountedStall
  <2>1. pc[t] \in Point
    BY DEF LifeInv, TypeOK
  <2>2. t \in threadList
    BY <2>1 DEF LifeInv, CtlInv, ListedWhere, UnlistedPoint, EitherPoint, StatusWhere
  <2> QED
    BY <2>2 DEF UncountedInv, LifeInv, CtlInv, StatusWhere
<1>3. LifeInv /\ UncountedInv /\ [Next]_vars => UncountedInv'
  BY UncountedStep
<1> QED
  BY <1>1, <1>2, <1>3, LifeInvariant, PTL DEF Spec

-----------------------------------------------------------------------------
(* The debugger's suspensions.                                             *)

\* Where a suspend check may return to, and where a thread is if it may be in
\* one.
DbgReturn == {"run", "susLock", "susRelock", "resLock", "dispatch", "undoLock"}
InCheck == {"check", "full", "asleep"}
DbgPoint == DbgReturn \cup InCheck \cup
  {"native", "vmWant", "vmHold", "susVm", "susSelf", "susList", "susListWait", "susCount",
   "susWait", "seeAll", "stopped", "resList", "resListWait", "resCount", "resUnlock", "resWake",
   "token", "send", "suspendSelf", "suspended", "posted", "idle", "await", "find", "findWait",
   "found", "see", "unlist", "reply", "undoList", "undoListWait", "undoCount", "undoWake"}
AtOne(t, P) == dbgPc[t] \in P \/ (dbgPc[t] \in InCheck /\ ret[t] \in P)

DbgTypes ==
  /\ dbgStatus \in [DbgThread -> Dbg!Status] /\ oldStatus \in [DbgThread -> Dbg!Status]
  /\ dbgCount \in [DbgThread -> Nat] /\ dbgSuspendCount \in [DbgThread -> Nat]
  /\ dbgPc \in [DbgThread -> DbgPoint] /\ ret \in [DbgThread -> DbgReturn]
  /\ await \in [DbgThread -> SUBSET DbgThread]
  /\ policy \in [DbgThread -> {"NONE", "EVENT_THREAD", "ALL"}]

\* From the token to its suspension a poster has the token, and it is not the
\* JDWP thread.
PostPoint == {"token", "send", "suspendSelf", "suspended", "posted"}
StopAllPoint == {"susLock", "susVm", "susSelf", "susRelock", "susList", "susListWait", "susCount"}

Posting ==
  /\ policy[Jdwp] = "NONE"
  /\ \A t \in DbgThread : dbgPc[t] \in PostPoint => policy[t] # "NONE"
  /\ \A t \in DbgThread : policy[t] # "NONE" =>
       dbgPc[t] \in PostPoint \cup {"seeAll"} \/ AtOne(t, StopAllPoint)

\* The token is a poster's until it has suspended itself, and so is what the
\* debugger knows of it.
HasToken(t) == policy[t] # "NONE" /\ dbgPc[t] \notin {"token", "suspended", "posted"}

TokenIsHeld ==
  /\ \A t \in DbgThread : HasToken(t) => token = t
  /\ \A t \in sent : t \in DbgThread /\ HasToken(t)
  /\ \A t \in early : t \in sent
  /\ dbgPc[Jdwp] # "await" => early = {}

\* Where _threadSuspendLock is held.
HoldPoint ==
  {"susVm", "susSelf", "susList", "susListWait", "susCount", "susWait", "seeAll", "resList",
   "resListWait", "resCount", "resUnlock", "undoList", "undoListWait", "undoCount", "undoWake"}

SusLockHeld == \A t \in DbgThread : dbgPc[t] \in HoldPoint => susOwner = t

\* What the JDWP thread works on, by where it is: a thread it is to resume has
\* been suspended for the debugger, or is about to suspend itself.
UndoPoint == {"undoLock", "undoList", "undoListWait", "undoCount", "undoWake"}
ResumePoint == {"resLock", "resList", "resListWait", "resCount", "resUnlock", "resWake"}

RequestInHand ==
  /\ AtOne(Jdwp, UndoPoint \cup {"idle"}) => request.cmd = "none"
  /\ AtOne(Jdwp, ResumePoint) => request.cmd = "resumeAll"
  /\ request.cmd = "resume" => request.thread \in DbgThread
  /\ request.cmd = "resume" /\ dbgPc[Jdwp] \notin {"unlist", "reply"} =>
       dbgSuspendCount[request.thread] > 0 \/ request.thread \in early

\* Where the JDWP thread looks stopped ...
JdwpShown ==
  /\ \/ dbgStatus[Jdwp] = "RUNNING" \/ AtOne(Jdwp, UndoPoint)
     \/ dbgPc[Jdwp] \in {"idle", "await", "asleep", "findWait", "resListWait", "susListWait"}
  /\ dbgPc[Jdwp] \in {"asleep", "findWait", "resListWait", "susListWait"} =>
       oldStatus[Jdwp] = "RUNNING" \/ AtOne(Jdwp, {"undoLock"})

\* ... and where it stays, with a request against it: it resumes nobody else's
\* threads there.
JdwpParked ==
  dbgPc[Jdwp] \in {"idle", "await", "findWait", "found", "see", "unlist", "reply"}
                  \cup InCheck \cup UndoPoint

\* Who stops the world, and not for the debugger.
Stops(s) == ~Dbg!ForDebugger(s) /\ Dbg!HasSuspendedAll(s)

JdwpStops ==
  \A s \in DbgThread : ~Dbg!ForDebugger(s) =>
    /\ Dbg!WorldStoppedBy(s) => JdwpParked
    /\ dbgPc[s] = "susWait" /\ Jdwp \notin await[s] => JdwpParked

\* What suspendCount has beyond the debugger's share.
StoppersFor(t) == {s \in DbgThread \ {t} : Stops(s)}
ShareOf(t) == dbgCount[t] - dbgSuspendCount[t] = Cardinality(StoppersFor(t))
SharesInv == \A t \in DbgThread : ShareOf(t)

\* Who is where, and what goes with it.
PlaceInv ==
  /\ DbgTypes /\ Posting /\ TokenIsHeld /\ SusLockHeld
  /\ RequestInHand /\ JdwpShown

\* The inductive invariant.
DbgInv == PlaceInv /\ JdwpStops /\ SharesInv

\* A step of t asks all others to stop, takes that back, or does neither; what
\* it does to the debugger's share of a count it does to the count.
ShareKept(u) == dbgCount'[u] - dbgSuspendCount'[u] = dbgCount[u] - dbgSuspendCount[u]

KeepsStops(t) == (Stops(t)' <=> Stops(t)) /\ \A u \in DbgThread : ShareKept(u)

AsksOthers(t) ==
  /\ Stops(t)' /\ ~Stops(t) /\ dbgSuspendCount' = dbgSuspendCount
  /\ \A u \in DbgThread : dbgCount'[u] = dbgCount[u] + IF u = t THEN 0 ELSE 1

FreesOthers(t) ==
  /\ Stops(t) /\ ~Stops(t)' /\ dbgSuspendCount' = dbgSuspendCount
  /\ \A u \in DbgThread :
       dbgCount'[u] = dbgCount[u] - IF u # t /\ dbgCount[u] > 0 THEN 1 ELSE 0

AskStep(t) ==
  /\ \A s \in DbgThread : s # t => (Stops(s)' <=> Stops(s))
  /\ KeepsStops(t) \/ AsksOthers(t) \/ FreesOthers(t)

\* What the counts tell of who stops the world.
CountsTell ==
  /\ \A u \in DbgThread : dbgCount[u] >= dbgSuspendCount[u]
  /\ (\A s \in DbgThread : ~Stops(s)) =>
       \A u \in DbgThread : dbgCount[u] = dbgSuspendCount[u]
  /\ dbgCount[Jdwp] = 0 => \A s \in DbgThread : ~Stops(s)

\* What the proof of a step needs of DbgInv.
StepInv == PlaceInv /\ JdwpStops /\ CountsTell

\* What is shown of every step: the one of t, or of the JDWP thread.
StepKeeps(t) == PlaceInv' /\ JdwpStops' /\ AskStep(t)

-----------------------------------------------------------------------------
(* Counting who stops the world.                                           *)

\* The instance's Cardinality is the one the library's theorems are about.
LEMMA DbgCardinality == \A S : Dbg!Cardinality(S) = Cardinality(S)
BY DEF Dbg!Cardinality, Cardinality

LEMMA CountingDbgThreads ==
  ASSUME NEW S \in SUBSET DbgThread, NEW x \in DbgThread
  PROVE  /\ Cardinality(S) \in Nat
         /\ Cardinality(S) = 0 <=> S = {}
         /\ x \notin S => Cardinality(S \cup {x}) = Cardinality(S) + 1
         /\ x \in S => Cardinality(S) # 0 /\ Cardinality(S \ {x}) = Cardinality(S) - 1
<1>1. IsFiniteSet(S)
  BY ThreadsAssumption, FS_Subset
<1>2. Cardinality(S) \in Nat
  BY <1>1, FS_CardinalityType
<1>3. x \notin S => Cardinality(S \cup {x}) = Cardinality(S) + 1
  BY <1>1, FS_AddElement
<1>4. x \in S => Cardinality(S \ {x}) = Cardinality(S) - 1
  BY <1>1, FS_RemoveElement
<1>5. Cardinality(S) = 0 <=> S = {}
  BY <1>1, FS_EmptySet
<1> QED
  BY <1>2, <1>3, <1>4, <1>5

\* The shares say who stops the world where a count says it.
LEMMA SharesTell ==
  ASSUME DbgTypes, SharesInv
  PROVE  CountsTell
<1>1. \A u \in DbgThread :
        /\ dbgCount[u] \in Nat /\ dbgSuspendCount[u] \in Nat
        /\ StoppersFor(u) \in SUBSET DbgThread
        /\ dbgCount[u] - dbgSuspendCount[u] = Cardinality(StoppersFor(u))
  BY DEF DbgTypes, SharesInv, ShareOf, StoppersFor
<1>2. \A u \in DbgThread :
        /\ Cardinality(StoppersFor(u)) \in Nat
        /\ Cardinality(StoppersFor(u)) = 0 <=> StoppersFor(u) = {}
  BY <1>1, CountingDbgThreads
<1>3. \A u \in DbgThread : dbgCount[u] >= dbgSuspendCount[u]
  BY <1>1, <1>2
<1>4. ASSUME \A s \in DbgThread : ~Stops(s), NEW u \in DbgThread
      PROVE  dbgCount[u] = dbgSuspendCount[u]
  <2>1. StoppersFor(u) = {}
    BY <1>4 DEF StoppersFor
  <2> QED
    BY <1>1, <1>2, <2>1
<1>5. ASSUME dbgCount[Jdwp] = 0 PROVE \A s \in DbgThread : ~Stops(s)
  <2>1. StoppersFor(Jdwp) = {}
    BY <1>1, <1>2, <1>5, ThreadsAssumption
  <2> QED
    BY <2>1 DEF StoppersFor, Stops, Dbg!ForDebugger
<1> QED
  BY <1>3, <1>4, <1>5 DEF CountsTell

\* A step that asks, frees or does neither keeps every share what it is.
LEMMA SharesFollow ==
  ASSUME DbgTypes, DbgTypes', SharesInv, NEW t \in DbgThread, AskStep(t)
  PROVE  SharesInv'
<1> SUFFICES ASSUME NEW x \in DbgThread
             PROVE  dbgCount'[x] - dbgSuspendCount'[x] = Cardinality(StoppersFor(x)')
  BY DEF SharesInv, ShareOf
<1> DEFINE Was == StoppersFor(x)
           Is == StoppersFor(x)'
<1>1. /\ Was \in SUBSET DbgThread /\ Is \in SUBSET DbgThread
      /\ dbgCount[x] - dbgSuspendCount[x] = Cardinality(Was)
      /\ dbgCount[x] \in Nat /\ dbgSuspendCount[x] \in Nat
  BY DEF DbgTypes, SharesInv, ShareOf, StoppersFor
<1>2. \A s \in DbgThread : s # t => (s \in Is <=> s \in Was)
  BY DEF AskStep, StoppersFor
<1>3. /\ t \in Was <=> t # x /\ Stops(t)
      /\ t \in Is <=> t # x /\ Stops(t)'
  BY DEF StoppersFor
<1> HIDE DEF Was, Is
<1>4. /\ Cardinality(Was) \in Nat
      /\ t \notin Was => Cardinality(Was \cup {t}) = Cardinality(Was) + 1
      /\ t \in Was => Cardinality(Was) # 0 /\ Cardinality(Was \ {t}) = Cardinality(Was) - 1
  BY <1>1, CountingDbgThreads
<1>5. CASE KeepsStops(t) \/ t = x
  <2>1. Is = Was
    <3>1. t \in Is <=> t \in Was
      BY <1>3, <1>5 DEF KeepsStops
    <3>2. \A s \in DbgThread : s \in Is <=> s \in Was
      BY <1>2, <3>1
    <3> QED
      BY <1>1, <3>2
  <2>2. dbgCount'[x] - dbgSuspendCount'[x] = dbgCount[x] - dbgSuspendCount[x]
    BY <1>1, <1>5 DEF AskStep, KeepsStops, ShareKept, AsksOthers, FreesOthers
  <2> QED
    BY <1>1, <2>1, <2>2 DEF Is
<1>6. CASE AsksOthers(t) /\ t # x
  <2>1. Is = Was \cup {t}
    <3>1. t \in Is
      BY <1>3, <1>6 DEF AsksOthers
    <3> QED
      BY <1>1, <1>2, <3>1
  <2>2. /\ t \notin Was
        /\ dbgCount'[x] = dbgCount[x] + 1 /\ dbgSuspendCount'[x] = dbgSuspendCount[x]
    BY <1>1, <1>3, <1>6 DEF AsksOthers
  <2> QED
    BY <1>1, <1>4, <2>1, <2>2 DEF Is
<1>7. CASE FreesOthers(t) /\ t # x
  <2>1. Is = Was \ {t}
    <3>1. t \notin Is
      BY <1>3, <1>7 DEF FreesOthers
    <3> QED
      BY <1>1, <1>2, <3>1
  <2>2. t \in Was
    BY <1>3, <1>7 DEF FreesOthers
  <2>3. dbgCount[x] > 0
    BY <1>1, <1>4, <2>2
  <2>4. dbgCount'[x] = dbgCount[x] - 1 /\ dbgSuspendCount'[x] = dbgSuspendCount[x]
    BY <1>1, <1>7, <2>3 DEF FreesOthers
  <2> QED
    BY <1>1, <1>4, <2>1, <2>2, <2>4 DEF Is
<1> QED
  BY <1>5, <1>6, <1>7 DEF AskStep

-----------------------------------------------------------------------------
(* Every step keeps the places, and asks for, frees or keeps the shares.   *)

\* The steps the debugger shares with everybody who stops the world.
LEMMA SharedStepKeeps ==
  ASSUME StepInv, NEW t \in DbgThread, UNCHANGED Dbg!dbgVars, Dbg!SharedStep(t)
  PROVE  StepKeeps(t)
<1> USE ThreadsAssumption DEF Dbg!At, Dbg!Goto, Dbg!CallCheck, Dbg!SaveState, Dbg!dbgVars,
       Dbg!eventVars, Dbg!jdwpVars, Dbg!savedVars, Dbg!threadVars, Dbg!countVars, Dbg!lockVars,
       Dbg!ctlVars, Dbg!vars, Dbg!ForDebugger, Dbg!Others, Dbg!Debuggees, Dbg!DbgAdd,
       Dbg!DbgTake, Dbg!AddToSuspendCounts, Dbg!TakeFromSuspendCounts, Dbg!NoRequest,
       Dbg!Status, Dbg!LooksStopped, Dbg!WorldStoppedBy, Dbg!HasSuspendedAll, Dbg!Where,
       StepKeeps, StepInv, PlaceInv, DbgTypes, DbgReturn, DbgPoint, Posting, PostPoint,
       StopAllPoint, TokenIsHeld, HasToken, SusLockHeld, HoldPoint, RequestInHand, UndoPoint,
       ResumePoint, JdwpShown, AtOne, InCheck, JdwpStops, CountsTell, Stops, JdwpParked,
       AskStep, ShareKept, KeepsStops, AsksOthers, FreesOthers
<1>1. CASE Dbg!CheckSuspendPending(t)
  BY <1>1 DEF Dbg!CheckSuspendPending
<1>2. CASE Dbg!FullSuspendCheck(t)
  BY <1>2 DEF Dbg!FullSuspendCheck
<1>3. CASE Dbg!WakeUp(t)
  BY <1>3 DEF Dbg!WakeUp
<1>4. CASE Dbg!LockThreadSuspend(t, "susLock", "susVm")
  BY <1>4 DEF Dbg!LockThreadSuspend
<1>5. CASE Dbg!TakeVmLocks(t)
  BY <1>5 DEF Dbg!TakeVmLocks
<1>6. CASE Dbg!YieldToSuspend(t)
  BY <1>6 DEF Dbg!YieldToSuspend
<1>7. CASE Dbg!LockThreadSuspend(t, "susRelock", "susSelf")
  BY <1>7 DEF Dbg!LockThreadSuspend
<1>8. CASE Dbg!LockThreadList(t, "susList", "susListWait", "susCount")
  BY <1>8 DEF Dbg!LockThreadList
<1>9. CASE Dbg!GotThreadList(t, "susListWait", "susCount")
  BY <1>9 DEF Dbg!GotThreadList
<1>10. CASE Dbg!LockThreadSuspend(t, "resLock", "resList")
  BY <1>10 DEF Dbg!LockThreadSuspend
<1>11. CASE Dbg!LockThreadList(t, "resList", "resListWait", "resCount")
  BY <1>11 DEF Dbg!LockThreadList
<1>12. CASE Dbg!GotThreadList(t, "resListWait", "resCount")
  BY <1>12 DEF Dbg!GotThreadList
<1>13. CASE Dbg!UnlockThreadSuspend(t)
  BY <1>13 DEF Dbg!UnlockThreadSuspend
<1>14. CASE Dbg!WakeOthers(t, "reply")
  BY <1>14 DEF Dbg!WakeOthers
<1>15. CASE Dbg!LockThreadList(t, "find", "findWait", "found")
  BY <1>15 DEF Dbg!LockThreadList
<1>16. CASE Dbg!GotThreadList(t, "findWait", "found")
  BY <1>16 DEF Dbg!GotThreadList
<1>17. CASE Dbg!LockThreadSuspend(t, "undoLock", "undoList")
  BY <1>17 DEF Dbg!LockThreadSuspend
<1>18. CASE Dbg!LockThreadList(t, "undoList", "undoListWait", "undoCount")
  BY <1>18 DEF Dbg!LockThreadList
<1>19. CASE Dbg!GotThreadList(t, "undoListWait", "undoCount")
  BY <1>19 DEF Dbg!GotThreadList
<1> HIDE DEF StepKeeps, StepInv
<1> QED
  BY <1>1, <1>2, <1>3, <1>4, <1>5, <1>6, <1>7, <1>8, <1>9, <1>10, <1>11, <1>12, <1>13,
     <1>14, <1>15, <1>16, <1>17, <1>18, <1>19
     DEF Dbg!SharedStep

\* The steps of a thread on business of its own; nobody takes stack traces.
LEMMA OwnStepKeeps ==
  ASSUME StepInv, NEW t \in DbgThread, UNCHANGED Dbg!dbgVars, ~Dbg!ForDebugger(t),
         Dbg!Obliged(t) \/ Dbg!Chosen(t)
  PROVE  StepKeeps(t)
<1> USE ThreadsAssumption DEF Dbg!At, Dbg!Goto, Dbg!CallCheck, Dbg!SaveState, Dbg!dbgVars,
       Dbg!eventVars, Dbg!jdwpVars, Dbg!savedVars, Dbg!threadVars, Dbg!countVars, Dbg!lockVars,
       Dbg!ctlVars, Dbg!vars, Dbg!ForDebugger, Dbg!Others, Dbg!Debuggees, Dbg!DbgAdd,
       Dbg!DbgTake, Dbg!AddToSuspendCounts, Dbg!TakeFromSuspendCounts, Dbg!NoRequest,
       Dbg!Status, Dbg!LooksStopped, Dbg!WorldStoppedBy, Dbg!HasSuspendedAll, Dbg!Where,
       StepKeeps, StepInv, PlaceInv, DbgTypes, DbgReturn, DbgPoint, Posting, PostPoint,
       StopAllPoint, TokenIsHeld, HasToken, SusLockHeld, HoldPoint, RequestInHand, UndoPoint,
       ResumePoint, JdwpShown, AtOne, InCheck, JdwpStops, CountsTell, Stops, JdwpParked,
       AskStep, ShareKept, KeepsStops, AsksOthers, FreesOthers
<1>1. CASE Dbg!SafePoint(t)
  BY <1>1 DEF Dbg!SafePoint
<1>2. CASE Dbg!TakeVmLock(t)
  BY <1>2 DEF Dbg!TakeVmLock
<1>3. CASE Dbg!DropVmLock(t)
  BY <1>3 DEF Dbg!DropVmLock
<1>4. CASE Dbg!SuspendOthers(t)
  BY <1>4 DEF Dbg!SuspendOthers
<1>5. CASE Dbg!SeeStopped(t)
  BY <1>5 DEF Dbg!SeeStopped
<1>6. CASE Dbg!Inspect(t)
  BY <1>6 DEF Dbg!Inspect
<1>7. CASE Dbg!ResumeOthers(t)
  BY <1>7 DEF Dbg!ResumeOthers
<1>8. CASE Dbg!WakeOthers(t, "run")
  BY <1>8 DEF Dbg!WakeOthers
<1>9. CASE Dbg!EnterNative(t)
  BY <1>9 DEF Dbg!EnterNative
<1>10. CASE Dbg!LeaveNative(t)
  BY <1>10 DEF Dbg!LeaveNative
<1>11. CASE Dbg!WantVmLock(t)
  BY <1>11 DEF Dbg!WantVmLock
<1>12. CASE Dbg!StartSuspendAll(t)
  BY <1>12 DEF Dbg!StartSuspendAll
<1>13. CASE Dbg!TraceStep(t) \/ Dbg!StartTrace(t)
  BY <1>13 DEF Dbg!TraceStep, Dbg!StartTrace, Dbg!LockThreadList, Dbg!GotThreadList,
     Dbg!SuspendThread, Dbg!WaitForThreadSuspend, Dbg!ResumeThread, Dbg!UnlockThreadList
<1> HIDE DEF StepKeeps, StepInv
<1> QED
  BY <1>1, <1>2, <1>3, <1>4, <1>5, <1>6, <1>7, <1>8, <1>9, <1>10, <1>11, <1>12, <1>13,
     SharedStepKeeps
     DEF Dbg!Obliged, Dbg!Chosen, Dbg!CheckStep, Dbg!SuspendAllStep, Dbg!ResumeAllStep,
         Dbg!SharedStep

\* The steps of an event.
LEMMA EventStepKeeps ==
  ASSUME StepInv, NEW t \in DbgThread, t # Jdwp, Dbg!EventStep(t) \/ Dbg!PostEvent(t)
  PROVE  StepKeeps(t)
<1> USE ThreadsAssumption DEF Dbg!At, Dbg!Goto, Dbg!CallCheck, Dbg!SaveState, Dbg!dbgVars,
       Dbg!eventVars, Dbg!jdwpVars, Dbg!savedVars, Dbg!threadVars, Dbg!countVars, Dbg!lockVars,
       Dbg!ctlVars, Dbg!vars, Dbg!ForDebugger, Dbg!Others, Dbg!Debuggees, Dbg!DbgAdd,
       Dbg!DbgTake, Dbg!AddToSuspendCounts, Dbg!TakeFromSuspendCounts, Dbg!NoRequest,
       Dbg!Status, Dbg!LooksStopped, Dbg!WorldStoppedBy, Dbg!HasSuspendedAll, Dbg!Where,
       StepKeeps, StepInv, PlaceInv, DbgTypes, DbgReturn, DbgPoint, Posting, PostPoint,
       StopAllPoint, TokenIsHeld, HasToken, SusLockHeld, HoldPoint, RequestInHand, UndoPoint,
       ResumePoint, JdwpShown, AtOne, InCheck, JdwpStops, CountsTell, Stops, JdwpParked,
       AskStep, ShareKept, KeepsStops, AsksOthers, FreesOthers
<1>1. CASE Dbg!SetWaitForEventThread(t)
  BY <1>1 DEF Dbg!SetWaitForEventThread
<1>2. CASE Dbg!EventFinish(t)
  BY <1>2 DEF Dbg!EventFinish
<1>3. CASE Dbg!SuspendSelf(t)
  BY <1>3 DEF Dbg!SuspendSelf
<1>4. CASE Dbg!ReviveSelf(t)
  BY <1>4 DEF Dbg!ReviveSelf
<1>5. CASE Dbg!EventPosted(t)
  BY <1>5 DEF Dbg!EventPosted
<1>6. CASE Dbg!PostEvent(t)
  BY <1>6 DEF Dbg!PostEvent
<1> HIDE DEF StepKeeps, StepInv
<1> QED
  BY <1>1, <1>2, <1>3, <1>4, <1>5, <1>6
     DEF Dbg!EventStep

\* To suspend all others, for an event or a request.
LEMMA TogetherKeeps ==
  ASSUME StepInv, NEW t \in DbgThread, Dbg!ForDebugger(t),
         Dbg!DbgSuspendOthers(t) \/ Dbg!DbgSeeStopped(t)
  PROVE  StepKeeps(t)
<1> USE ThreadsAssumption DEF Dbg!At, Dbg!Goto, Dbg!CallCheck, Dbg!SaveState, Dbg!dbgVars,
       Dbg!eventVars, Dbg!jdwpVars, Dbg!savedVars, Dbg!threadVars, Dbg!countVars, Dbg!lockVars,
       Dbg!ctlVars, Dbg!vars, Dbg!ForDebugger, Dbg!Others, Dbg!Debuggees, Dbg!DbgAdd,
       Dbg!DbgTake, Dbg!AddToSuspendCounts, Dbg!TakeFromSuspendCounts, Dbg!NoRequest,
       Dbg!Status, Dbg!LooksStopped, Dbg!WorldStoppedBy, Dbg!HasSuspendedAll, Dbg!Where,
       StepKeeps, StepInv, PlaceInv, DbgTypes, DbgReturn, DbgPoint, Posting, PostPoint,
       StopAllPoint, TokenIsHeld, HasToken, SusLockHeld, HoldPoint, RequestInHand, UndoPoint,
       ResumePoint, JdwpShown, AtOne, InCheck, JdwpStops, CountsTell, Stops, JdwpParked,
       AskStep, ShareKept, KeepsStops, AsksOthers, FreesOthers
<1>1. CASE Dbg!DbgSuspendOthers(t)
  BY <1>1 DEF Dbg!DbgSuspendOthers
<1>2. CASE Dbg!DbgSeeStopped(t)
  BY <1>2 DEF Dbg!DbgSeeStopped
<1> HIDE DEF StepKeeps, StepInv
<1> QED
  BY <1>1, <1>2
     DEF StepKeeps

\* The steps of the JDWP thread.
LEMMA JdwpStepKeeps ==
  ASSUME StepInv, Dbg!JdwpStep \/ Dbg!Receive \/ Dbg!Drop \/ Dbg!Attach
  PROVE  StepKeeps(Jdwp)
<1> USE ThreadsAssumption DEF Dbg!At, Dbg!Goto, Dbg!CallCheck, Dbg!SaveState, Dbg!dbgVars,
       Dbg!eventVars, Dbg!jdwpVars, Dbg!savedVars, Dbg!threadVars, Dbg!countVars, Dbg!lockVars,
       Dbg!ctlVars, Dbg!vars, Dbg!ForDebugger, Dbg!Others, Dbg!Debuggees, Dbg!DbgAdd,
       Dbg!DbgTake, Dbg!AddToSuspendCounts, Dbg!TakeFromSuspendCounts, Dbg!NoRequest,
       Dbg!Status, Dbg!LooksStopped, Dbg!WorldStoppedBy, Dbg!HasSuspendedAll, Dbg!Where,
       StepKeeps, StepInv, PlaceInv, DbgTypes, DbgReturn, DbgPoint, Posting, PostPoint,
       StopAllPoint, TokenIsHeld, HasToken, SusLockHeld, HoldPoint, RequestInHand, UndoPoint,
       ResumePoint, JdwpShown, AtOne, InCheck, JdwpStops, CountsTell, Stops, JdwpParked,
       AskStep, ShareKept, KeepsStops, AsksOthers, FreesOthers
<1>1. CASE Dbg!ProcessRequest
  BY <1>1 DEF Dbg!ProcessRequest
<1>2. CASE Dbg!Dispatch
  BY <1>2 DEF Dbg!Dispatch
<1>3. CASE Dbg!DbgSuspendThread
  BY <1>3 DEF Dbg!DbgSuspendThread
<1>4. CASE Dbg!WaitForThread
  BY <1>4 DEF Dbg!WaitForThread
<1>5. CASE Dbg!DbgResumeThread
  BY <1>5 DEF Dbg!DbgResumeThread
<1>6. CASE Dbg!ReleaseList
  BY <1>6 DEF Dbg!ReleaseList
<1>7. CASE Dbg!DbgResumeOthers
  BY <1>7 DEF Dbg!DbgResumeOthers
<1>8. CASE Dbg!UndoSuspensions
  BY <1>8 DEF Dbg!UndoSuspensions
<1>9. CASE Dbg!UndoWake
  BY <1>9 DEF Dbg!UndoWake
<1>10. CASE Dbg!Reply
  BY <1>10 DEF Dbg!Reply
<1>11. CASE Dbg!Receive
  BY <1>11 DEF Dbg!Receive, Dbg!Requests, Dbg!Sensible
<1>12. CASE Dbg!Drop
  BY <1>12 DEF Dbg!Drop
<1>13. CASE Dbg!Attach
  BY <1>13 DEF Dbg!Attach
<1> HIDE DEF StepKeeps, StepInv
<1> QED
  BY <1>1, <1>2, <1>3, <1>4, <1>5, <1>6, <1>7, <1>8, <1>9, <1>10, <1>11, <1>12, <1>13
     DEF Dbg!JdwpStep

-----------------------------------------------------------------------------
(* The theorems.                                                           *)

\* A step of whoever, or none, keeps the invariant.
LEMMA DbgInvStep ==
  ASSUME DbgInv, Dbg!DbgNext \/ UNCHANGED dbgVars
  PROVE  DbgInv'
<1>1. StepInv
  BY SharesTell DEF DbgInv, PlaceInv, StepInv
<1>2. ASSUME NEW t \in DbgThread, StepKeeps(t)
      PROVE  DbgInv'
  <2>1. PlaceInv' /\ JdwpStops' /\ AskStep(t)
    BY <1>2 DEF StepKeeps
  <2>2. DbgTypes /\ DbgTypes' /\ SharesInv
    BY <2>1 DEF DbgInv, PlaceInv
  <2>3. SharesInv'
    BY <2>1, <2>2, SharesFollow
  <2> QED
    BY <2>1, <2>3 DEF DbgInv
<1>3. ASSUME NEW t \in DbgThread, Dbg!DbgObliged(t) \/ Dbg!DbgChosen(t)
      PROVE  DbgInv'
  <2>1. CASE Dbg!SharedStep(t) /\ UNCHANGED Dbg!dbgVars
    BY <1>1, <1>2, <2>1, SharedStepKeeps
  <2>2. CASE ~Dbg!ForDebugger(t) /\ (Dbg!Obliged(t) \/ Dbg!Chosen(t)) /\ UNCHANGED Dbg!dbgVars
    BY <1>1, <1>2, <2>2, OwnStepKeeps
  <2>3. CASE Dbg!ForDebugger(t) /\ (Dbg!DbgSuspendOthers(t) \/ Dbg!DbgSeeStopped(t))
    BY <1>1, <1>2, <2>3, TogetherKeeps
  <2>4. CASE t # Jdwp /\ Dbg!EventStep(t)
    BY <1>1, <1>2, <2>4, EventStepKeeps
  <2>5. CASE Dbg!PostEvent(t)
    <3>1. t # Jdwp
      BY <2>5, ThreadsAssumption DEF Dbg!PostEvent
    <3> QED
      BY <1>1, <1>2, <2>5, <3>1, EventStepKeeps
  <2>6. CASE Dbg!JdwpStep
    BY <1>1, <1>2, <2>6, JdwpStepKeeps, ThreadsAssumption
  <2> QED
    BY <1>3, <2>1, <2>2, <2>3, <2>4, <2>5, <2>6 DEF Dbg!DbgObliged, Dbg!DbgChosen
<1>4. CASE Dbg!Receive \/ Dbg!Drop \/ Dbg!Attach
  BY <1>1, <1>2, <1>4, JdwpStepKeeps, ThreadsAssumption
<1>5. CASE UNCHANGED dbgVars
  <2>1. PlaceInv'
    BY <1>5, <1>1 DEF StepInv, PlaceInv, dbgVars, DbgTypes, Posting, TokenIsHeld, HasToken,
       SusLockHeld, RequestInHand, JdwpShown, AtOne
  <2>2. JdwpStops'
    BY <1>5, <1>1 DEF StepInv, dbgVars, JdwpStops, JdwpParked, Dbg!ForDebugger,
       Dbg!WorldStoppedBy, Dbg!Where
  <2>3. SharesInv'
    BY <1>5 DEF DbgInv, dbgVars, SharesInv, ShareOf, StoppersFor, Stops, Dbg!ForDebugger,
       Dbg!HasSuspendedAll, Dbg!WorldStoppedBy, Dbg!Where
  <2> QED
    BY <2>1, <2>2, <2>3 DEF DbgInv
<1> QED
  BY <1>3, <1>4, <1>5 DEF Dbg!DbgNext

LEMMA DbgInvInit == ThreadsInit => DbgInv
<1> SUFFICES ASSUME Dbg!DbgInit PROVE DbgInv
  BY DEF ThreadsInit
<1> USE ThreadsAssumption DEF Dbg!DbgInit, Dbg!NothingPosted, Dbg!NoRequest
<1>1. PlaceInv
  BY DEF PlaceInv, DbgTypes, DbgPoint, DbgReturn, Dbg!Status, Posting, PostPoint, TokenIsHeld,
     HasToken, SusLockHeld, HoldPoint, RequestInHand, JdwpShown, AtOne, InCheck, UndoPoint,
     ResumePoint
<1>2. \A s \in DbgThread : ~Stops(s)
  BY DEF Stops, Dbg!ForDebugger, Dbg!HasSuspendedAll, Dbg!WorldStoppedBy, Dbg!Where
<1>3. JdwpStops
  BY <1>2 DEF JdwpStops, Stops, Dbg!HasSuspendedAll
<1>4. ASSUME NEW u \in DbgThread PROVE ShareOf(u)
  <2>1. StoppersFor(u) = {}
    BY <1>2 DEF StoppersFor
  <2>2. Cardinality({}) = 0
    BY FS_EmptySet
  <2> QED
    BY <2>1, <2>2 DEF ShareOf
<1> QED
  BY <1>1, <1>3, <1>4 DEF DbgInv, SharesInv

\* Next to a debugger, in every setting: an event's token is with who posts it
\* until that thread has suspended itself, the JDWP thread takes nothing back
\* while somebody else has stopped the world, and the debugger's share of a
\* count leaves exactly what the others have asked for (vm/jdwp/JdwpEvent.cpp,
\* JdwpHandler.cpp, vm/Thread.cpp).
THEOREM DebuggerIsConsistent == ThreadsSpec => []DbgInv
<1>1. DbgInv /\ [ThreadsNext]_all => DbgInv'
  BY DbgInvStep DEF ThreadsNext, all
<1> QED
  BY <1>1, DbgInvInit, PTL DEF ThreadsSpec

\* When the JDWP thread works on a request, everybody who sent an event before
\* the request came has suspended itself, for any number of threads
\* (dvmJdwpProcessRequest waits for the token, dvmSuspendSelf gives it back).
THEOREM AnswersComeLate == ThreadsSpec => []AnswersFindSuspended
<1>1. DbgInv => AnswersFindSuspended
  <2> SUFFICES ASSUME DbgInv, dbgPc[Jdwp] \notin {"idle", "await"} PROVE early = {}
    BY DEF AnswersFindSuspended, Dbg!AnswersFindSuspended
  <2> QED
    BY DEF DbgInv, PlaceInv, TokenIsHeld
<1> QED
  BY <1>1, DebuggerIsConsistent, PTL

\* What a suspendCount has beyond the debugger's share is the number of the
\* others who have stopped the world: neither resuming nor the debugger's end
\* takes a collector's request away (dvmResumeThread, dvmResumeAllThreads,
\* dvmUndoDebuggerSuspensions).
THEOREM DebuggerTakesItsOwn == ThreadsSpec => []SharesAreKept
<1>1. DbgInv => SharesAreKept
  <2> SUFFICES ASSUME DbgInv, NEW t \in DbgThread
               PROVE  /\ dbgSuspendCount[t] >= 0
                      /\ dbgCount[t] - dbgSuspendCount[t] = Dbg!Cardinality(
                           {s \in Dbg!Others(t) : ~Dbg!ForDebugger(s) /\ Dbg!HasSuspendedAll(s)})
    BY DEF SharesAreKept, Dbg!SharesAreKept
  <2>1. StoppersFor(t) = {s \in Dbg!Others(t) : ~Dbg!ForDebugger(s) /\ Dbg!HasSuspendedAll(s)}
    BY DEF StoppersFor, Stops, Dbg!Others
  <2>2. dbgSuspendCount[t] \in Nat
    BY DEF DbgInv, PlaceInv, DbgTypes
  <2>3. dbgCount[t] - dbgSuspendCount[t] = Cardinality(StoppersFor(t))
    BY DEF DbgInv, SharesInv, ShareOf
  <2> QED
    BY <2>1, <2>2, <2>3, DbgCardinality
<1> QED
  BY <1>1, DebuggerIsConsistent, PTL
=============================================================================
