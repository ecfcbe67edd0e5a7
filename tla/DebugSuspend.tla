---------------------------- MODULE DebugSuspend ----------------------------
(***************************************************************************)
(* Suspension by the debugger (vm/jdwp/JdwpEvent.cpp, JdwpHandler.cpp,     *)
(* Debugger.cpp, Thread.cpp): a thread that posts an event takes the event *)
(* token, sends the event and suspends the others and itself; the JDWP     *)
(* thread takes one request of the debugger after the other, and takes all *)
(* of the debugger's suspensions back when the debugger goes away.         *)
(*                                                                         *)
(* Locks, suspend checks and the ways through dvmSuspendAllThreads and     *)
(* dvmResumeAllThreads are ThreadSuspend's.  Left out: events that suspend *)
(* nobody, which come to EnterNative and LeaveNative, events of the JDWP   *)
(* thread, which suspend nothing but others, the invocation of methods,    *)
(* requests that only read, and eventThreadLock, whose sections are short. *)
(***************************************************************************)
EXTENDS ThreadSuspend

CONSTANTS
  Jdwp,         \* the JDWP thread
  Poster,       \* threads that meet breakpoints and the like
  Policy,       \* suspend policies of the events: "EVENT_THREAD", "ALL"
  Command,      \* what the debugger may ask for, see Command below
  MaxSuspends   \* bound: new suspensions start only below this depth

VARIABLES
  dbgSuspendCount,  \* Thread.dbgSuspendCount
  policy,       \* the policy of the event the thread is posting, or "NONE"
  token,        \* JdwpState.eventThreadId
  tokenWaiters, \* asleep on eventThreadCond
  attached,     \* whether a debugger is there, and so events to match
  request,      \* what the JDWP thread works on: a command and its thread
  sent,         \* history: posters the debugger knows of, not yet suspended
  early         \* history: of those, who had sent before the request arrived

eventVars == <<policy, token, tokenWaiters, sent>>
jdwpVars == <<attached, request, early>>
dbgVars == <<dbgSuspendCount, eventVars, jdwpVars>>
allVars == <<vars, dbgVars>>

NoRequest == [cmd |-> "none", thread |-> NoThread]

\* A debugger is there, and nothing has happened.
NothingPosted ==
  /\ dbgSuspendCount = [t \in Thread |-> 0]
  /\ policy = [t \in Thread |-> "NONE"]
  /\ token = NoThread /\ tokenWaiters = {}
  /\ attached = TRUE /\ request = NoRequest
  /\ sent = {} /\ early = {}

DbgInit ==
  /\ status = [t \in Thread |-> IF t = Jdwp THEN "VMWAIT" ELSE "RUNNING"]
  /\ closed = [t \in Thread |-> t = Jdwp]
  /\ oldStatus = [t \in Thread |-> "RUNNING"]
  /\ oldClosed = [t \in Thread |-> FALSE]
  /\ suspendCount = [t \in Thread |-> 0]
  /\ waiters = {}
  /\ susOwner = NoThread /\ listOwner = NoThread /\ vmOwner = NoThread
  /\ pc = [t \in Thread |-> IF t = Jdwp THEN "idle" ELSE "run"]
  /\ ret = [t \in Thread |-> "run"]
  /\ await = [t \in Thread |-> {}]
  /\ NothingPosted

\* Debugger events do not suspend the JDWP thread.
Debuggees(t) == Thread \ {t, Jdwp}

\* The bound on nested suspensions.
Shallow == \A t \in Thread : dbgSuspendCount[t] < MaxSuspends

\* dvmAddToSuspendCounts with a request of the debugger's.
DbgAdd(S) ==
  /\ AddToSuspendCounts(S, 1)
  /\ dbgSuspendCount' = [t \in Thread |-> dbgSuspendCount[t] + IF t \in S THEN 1 ELSE 0]

\* Its opposite, for the threads that are suspended at all.
DbgTake(S) ==
  /\ TakeFromSuspendCounts(S)
  /\ dbgSuspendCount' = [t \in Thread |->
       dbgSuspendCount[t] - IF t \in S /\ suspendCount[t] > 0 THEN 1 ELSE 0]

-----------------------------------------------------------------------------
(* Posting an event: dvmJdwpPostLocationEvent and its like.                *)

\* VMWAIT from the start, with the stack closed.
PostEvent(t) ==
  /\ t \in Poster /\ attached /\ At(t, "run") /\ Shallow
  /\ closed' = [closed EXCEPT ![t] = TRUE]
  /\ status' = [status EXCEPT ![t] = "VMWAIT"]
  /\ \E p \in Policy : policy' = [policy EXCEPT ![t] = p]
  /\ Goto(t, "token")
  /\ UNCHANGED <<savedVars, countVars, lockVars, ret, await,
                 dbgSuspendCount, token, tokenWaiters, sent, jdwpVars>>

\* dvmJdwpSetWaitForEventThread: take the token, or sleep until it is free.
SetWaitForEventThread(t) ==
  /\ At(t, "token") /\ t \notin tokenWaiters
  /\ \/ /\ token = NoThread
        /\ token' = t
        /\ Goto(t, "send")
        /\ UNCHANGED tokenWaiters
     \/ /\ token # NoThread
        /\ tokenWaiters' = tokenWaiters \cup {t}
        /\ UNCHANGED <<token, pc>>
  /\ UNCHANGED <<threadVars, countVars, lockVars, ret, await,
                 dbgSuspendCount, policy, sent, jdwpVars>>

\* eventFinish: the debugger hears of the event; then suspendByPolicy.
EventFinish(t) ==
  /\ At(t, "send")
  /\ sent' = sent \cup {t}
  /\ Goto(t, IF policy[t] = "ALL" THEN "susLock" ELSE "suspendSelf")
  /\ UNCHANGED <<threadVars, countVars, lockVars, ret, await,
                 dbgSuspendCount, policy, token, tokenWaiters, jdwpVars>>

\* dvmSuspendSelf under threadSuspendCountLock: count, give the token back
\* and signal one who waits for it, sleep.
SuspendSelf(t) ==
  /\ At(t, "suspendSelf")
  /\ DbgAdd({t})
  /\ status' = [status EXCEPT ![t] = "SUSPENDED"]
  /\ token' = NoThread
  /\ \/ tokenWaiters = {} /\ UNCHANGED tokenWaiters
     \/ \E w \in tokenWaiters : tokenWaiters' = tokenWaiters \ {w}
  /\ waiters' = waiters \cup {t}
  /\ sent' = sent \ {t} /\ early' = early \ {t}
  /\ Goto(t, "suspended")
  /\ UNCHANGED <<closed, savedVars, lockVars, ret, await, policy, attached, request>>

\* Signalled: revive, or wait again.
ReviveSelf(t) ==
  /\ At(t, "suspended") /\ t \notin waiters
  /\ \/ /\ suspendCount[t] # 0
        /\ waiters' = waiters \cup {t}
        /\ UNCHANGED <<status, pc>>
     \/ /\ suspendCount[t] = 0
        /\ status' = [status EXCEPT ![t] = "RUNNING"]
        /\ Goto(t, "posted")
        /\ UNCHANGED waiters
  /\ UNCHANGED <<closed, savedVars, suspendCount, lockVars, ret, await, dbgVars>>

\* Open the stack; RUNNING already, dvmChangeStatus has nothing to do.
EventPosted(t) ==
  /\ At(t, "posted")
  /\ closed' = [closed EXCEPT ![t] = FALSE]
  /\ policy' = [policy EXCEPT ![t] = "NONE"]
  /\ Goto(t, "run")
  /\ UNCHANGED <<status, savedVars, countVars, lockVars, ret, await,
                 dbgSuspendCount, token, tokenWaiters, sent, jdwpVars>>

-----------------------------------------------------------------------------
(* The JDWP thread.                                                        *)

\* The debugger resumes what it has suspended or has seen suspend itself.
Sensible(r) ==
  /\ r.cmd = "resume" => dbgSuspendCount[r.thread] > 0 \/ r.thread \in sent
  /\ r.cmd \in {"suspend", "suspendAll"} => Shallow

\* The commands that name a thread name one that is not the JDWP thread.
Requests ==
  [cmd : Command \cap {"suspendAll", "resumeAll"}, thread : {NoThread}]
  \cup [cmd : Command \cap {"suspend", "resume"}, thread : Debuggees(Jdwp)]

\* A packet arrives.
Receive ==
  /\ At(Jdwp, "idle") /\ attached
  /\ \E r \in Requests : Sensible(r) /\ request' = r
  /\ early' = sent
  /\ Goto(Jdwp, "await")
  /\ UNCHANGED <<threadVars, countVars, lockVars, ret, await,
                 dbgSuspendCount, eventVars, attached>>

\* Mutant: the request is worked on while an event is being posted.
ProcessRequestAtOnce ==
  /\ At(Jdwp, "await")
  /\ status' = [status EXCEPT ![Jdwp] = "RUNNING"]
  /\ CallCheck(Jdwp, "check", "dispatch")
  /\ UNCHANGED <<closed, savedVars, countVars, lockVars, await, dbgSuspendCount,
                 eventVars, jdwpVars>>

\* dvmJdwpProcessRequest waits for who posts an event, without taking the
\* token; then dvmDbgThreadRunning.
ProcessRequest ==
  /\ At(Jdwp, "await") /\ Jdwp \notin tokenWaiters
  /\ \/ /\ token # NoThread
        /\ tokenWaiters' = tokenWaiters \cup {Jdwp}
        /\ UNCHANGED <<status, pc, ret>>
     \/ /\ token = NoThread
        /\ status' = [status EXCEPT ![Jdwp] = "RUNNING"]
        /\ CallCheck(Jdwp, "check", "dispatch")
        /\ UNCHANGED tokenWaiters
  /\ UNCHANGED <<closed, savedVars, countVars, lockVars, await,
                 dbgSuspendCount, policy, token, sent, jdwpVars>>

\* The handler: handleVM_Suspend, handleVM_Resume, handleTR_Suspend or
\* handleTR_Resume.
Dispatch ==
  /\ At(Jdwp, "dispatch")
  /\ Goto(Jdwp, CASE request.cmd = "suspendAll" -> "susLock"
                  [] request.cmd = "resumeAll" -> "resLock"
                  [] OTHER -> "find")
  /\ UNCHANGED <<threadVars, countVars, lockVars, ret, await, dbgVars>>

\* dvmSuspendThread, with the list lock held.
DbgSuspendThread ==
  /\ At(Jdwp, "found") /\ request.cmd = "suspend"
  /\ DbgAdd({request.thread})
  /\ Goto(Jdwp, "see")
  /\ UNCHANGED <<threadVars, waiters, lockVars, ret, await, eventVars, jdwpVars>>

WaitForThread ==
  /\ At(Jdwp, "see") /\ LooksStopped(request.thread)
  /\ Goto(Jdwp, "unlist")
  /\ UNCHANGED <<threadVars, countVars, lockVars, ret, await, dbgVars>>

\* Mutant: the broadcast is forgotten.
DbgResumeSilently ==
  /\ At(Jdwp, "found") /\ request.cmd = "resume"
  /\ DbgTake({request.thread})
  /\ Goto(Jdwp, "unlist")
  /\ UNCHANGED <<threadVars, waiters, lockVars, ret, await, eventVars, jdwpVars>>

\* dvmResumeThread; the last one to resume a thread wakes the sleepers.
DbgResumeThread ==
  /\ At(Jdwp, "found") /\ request.cmd = "resume"
  /\ DbgTake({request.thread})
  /\ waiters' = IF suspendCount'[request.thread] = 0 THEN {} ELSE waiters
  /\ Goto(Jdwp, "unlist")
  /\ UNCHANGED <<threadVars, lockVars, ret, await, eventVars, jdwpVars>>

ReleaseList ==
  /\ At(Jdwp, "unlist")
  /\ listOwner' = NoThread
  /\ Goto(Jdwp, "reply")
  /\ UNCHANGED <<threadVars, countVars, susOwner, vmOwner, ret, await, dbgVars>>

\* dvmDbgThreadWaiting, and on to the next packet.
Reply ==
  /\ At(Jdwp, "reply")
  /\ status' = [status EXCEPT ![Jdwp] = "VMWAIT"]
  /\ request' = NoRequest /\ early' = {}
  /\ Goto(Jdwp, "idle")
  /\ UNCHANGED <<closed, savedVars, countVars, lockVars, ret, await,
                 dbgSuspendCount, eventVars, attached>>

-----------------------------------------------------------------------------
(* All threads: dvmSuspendAllThreads and dvmResumeAllThreads for the       *)
(* debugger or for an event, and dvmUndoDebuggerSuspensions.               *)

\* t is in one of them, or may be, for the debugger's sake.
ForDebugger(t) == t = Jdwp \/ policy[t] # "NONE"

DbgSuspendOthers(t) ==
  /\ At(t, "susCount")
  /\ DbgAdd(Debuggees(t))
  /\ vmOwner' = NoThread
  /\ await' = [await EXCEPT ![t] = Debuggees(t)]
  /\ Goto(t, "seeAll")
  /\ UNCHANGED <<threadVars, waiters, susOwner, listOwner, ret, eventVars, jdwpVars>>

\* waitForThreadSuspend for each; then the poster suspends itself as well.
DbgSeeStopped(t) ==
  /\ At(t, "seeAll")
  /\ \/ \E u \in await[t] :
          /\ LooksStopped(u)
          /\ await' = [await EXCEPT ![t] = @ \ {u}]
          /\ UNCHANGED <<susOwner, listOwner, pc>>
     \/ /\ await[t] = {}
        /\ susOwner' = NoThread /\ listOwner' = NoThread
        /\ Goto(t, IF t = Jdwp THEN "reply" ELSE "suspendSelf")
        /\ UNCHANGED await
  /\ UNCHANGED <<threadVars, countVars, vmOwner, ret, dbgVars>>

DbgResumeOthers ==
  /\ At(Jdwp, "resCount")
  /\ DbgTake(Debuggees(Jdwp))
  /\ listOwner' = NoThread
  /\ Goto(Jdwp, "resUnlock")
  /\ UNCHANGED <<threadVars, waiters, susOwner, vmOwner, ret, await, eventVars, jdwpVars>>

\* The connection is lost: no events to match any more, and the suspensions
\* are undone, with the JDWP thread in VMWAIT as it was for the read.
Drop ==
  /\ At(Jdwp, "idle") /\ attached /\ "drop" \in Command
  /\ attached' = FALSE
  /\ Goto(Jdwp, "undoLock")
  /\ UNCHANGED <<threadVars, countVars, lockVars, ret, await,
                 dbgSuspendCount, eventVars, request, early>>

\* Mutant: each thread loses its whole count.
UndoAllSuspensions ==
  /\ At(Jdwp, "undoCount")
  /\ suspendCount' = [t \in Thread |-> 0]
  /\ dbgSuspendCount' = [t \in Thread |-> 0]
  /\ listOwner' = NoThread
  /\ Goto(Jdwp, "undoWake")
  /\ UNCHANGED <<threadVars, waiters, susOwner, vmOwner, ret, await, eventVars, jdwpVars>>

\* Each thread loses the debugger's share of its count.
UndoSuspensions ==
  /\ At(Jdwp, "undoCount")
  /\ suspendCount' = [t \in Thread |-> suspendCount[t] - dbgSuspendCount[t]]
  /\ dbgSuspendCount' = [t \in Thread |-> 0]
  /\ listOwner' = NoThread
  /\ Goto(Jdwp, "undoWake")
  /\ UNCHANGED <<threadVars, waiters, susOwner, vmOwner, ret, await, eventVars, jdwpVars>>

UndoWake ==
  /\ At(Jdwp, "undoWake")
  /\ waiters' = {} /\ susOwner' = NoThread
  /\ Goto(Jdwp, "idle")
  /\ UNCHANGED <<threadVars, suspendCount, listOwner, vmOwner, ret, await, dbgVars>>

\* A server waits for the next debugger.
Attach ==
  /\ At(Jdwp, "idle") /\ ~attached
  /\ attached' = TRUE
  /\ UNCHANGED <<vars, dbgSuspendCount, eventVars, request, early>>

-----------------------------------------------------------------------------
\* What goes through the protocol's own steps, for the debugger or an event.
SharedStep(t) ==
  \/ CheckSuspendPending(t) \/ FullSuspendCheck(t) \/ WakeUp(t)
  \/ LockThreadSuspend(t, "susLock", "susVm")
  \/ TakeVmLocks(t) \/ YieldToSuspend(t)
  \/ LockThreadSuspend(t, "susRelock", "susSelf")
  \/ LockThreadList(t, "susList", "susListWait", "susCount")
  \/ GotThreadList(t, "susListWait", "susCount")
  \/ LockThreadSuspend(t, "resLock", "resList")
  \/ LockThreadList(t, "resList", "resListWait", "resCount")
  \/ GotThreadList(t, "resListWait", "resCount")
  \/ UnlockThreadSuspend(t) \/ WakeOthers(t, "reply")
  \/ LockThreadList(t, "find", "findWait", "found")
  \/ GotThreadList(t, "findWait", "found")
  \/ LockThreadSuspend(t, "undoLock", "undoList")
  \/ LockThreadList(t, "undoList", "undoListWait", "undoCount")
  \/ GotThreadList(t, "undoListWait", "undoCount")

\* Whose turn it is to go on with an event ...
EventStep(t) ==
  \/ SetWaitForEventThread(t) \/ EventFinish(t) \/ SuspendSelf(t)
  \/ ReviveSelf(t) \/ EventPosted(t)

\* ... or with a request.
JdwpStep ==
  \/ ProcessRequest \/ Dispatch \/ DbgSuspendThread \/ WaitForThread
  \/ DbgResumeThread \/ ReleaseList \/ DbgResumeOthers \/ UndoSuspensions
  \/ UndoWake \/ Reply

DbgObliged(t) ==
  \/ /\ ForDebugger(t)
     /\ \/ SharedStep(t) /\ UNCHANGED dbgVars
        \/ DbgSuspendOthers(t) \/ DbgSeeStopped(t)
  \/ ~ForDebugger(t) /\ Obliged(t) /\ UNCHANGED dbgVars
  \/ t # Jdwp /\ EventStep(t)
  \/ t = Jdwp /\ JdwpStep

DbgChosen(t) ==
  \/ ~ForDebugger(t) /\ Chosen(t) /\ UNCHANGED dbgVars
  \/ PostEvent(t)

DbgNext ==
  \/ \E t \in Thread : DbgObliged(t) \/ DbgChosen(t)
  \/ Receive \/ Drop \/ Attach

DbgSpec == DbgInit /\ [][DbgNext]_allVars

\* Who waits for a mutex that is free again and again gets it, and who was
\* woken comes to look at a count that is zero again and again.
GetsMutex(t) ==
  \/ t \notin waiters /\ suspendCount[t] = 0 /\ ReviveSelf(t)
  \/ /\ UNCHANGED dbgVars
     /\ \/ t \notin waiters /\ suspendCount[t] = 0 /\ WakeUp(t)
        \/ TakeVmLocks(t)
        \/ GotThreadList(t, "findWait", "found") \/ GotThreadList(t, "resListWait", "resCount")
        \/ ForDebugger(t) /\ LockThreadSuspend(t, "susLock", "susVm")
        \/ ForDebugger(t) /\ LockThreadSuspend(t, "resLock", "resList")

\* ThreadSuspend's fairness, and a debugger that answers: it asks again and
\* again to resume a thread while there is reason to.
DbgFairness ==
  /\ \A t \in Thread :
       /\ WF_allVars(DbgObliged(t))
       /\ SF_allVars(SafePoint(t) /\ UNCHANGED dbgVars)
       /\ SF_allVars(GetsMutex(t))
       /\ SF_allVars(Receive /\ request'.thread = t)
  /\ SF_allVars(Receive /\ request'.cmd = "resumeAll")

-----------------------------------------------------------------------------
(* Properties.                                                             *)

\* When the JDWP thread works on a request, everybody who sent an event before
\* the request came has counted its own suspension: the debugger's answer to
\* the event is not spent on a thread that suspends itself afterwards
\* (dvmJdwpProcessRequest, dvmSuspendSelf).
AnswersFindSuspended ==
  pc[Jdwp] \notin {"idle", "await"} => early = {}

\* Whatever is not the debugger's share of a thread's suspendCount is what
\* others have asked for, so a debugger that goes away or resumes what it has
\* suspended takes nothing from a collector (dvmUndoDebuggerSuspensions).
SharesAreKept ==
  \A t \in Thread :
    /\ dbgSuspendCount[t] >= 0
    /\ suspendCount[t] - dbgSuspendCount[t] =
         Cardinality({s \in Others(t) : ~ForDebugger(s) /\ HasSuspendedAll(s)})

\* Who posts an event comes back from it, if the debugger resumes whom it has
\* heard of, nobody but the poster stops threads while it stops all, and only
\* one thread posts (suspendByPolicy, dvmJdwpProcessRequest).
PostersReturn ==
  \A t \in Poster : policy[t] # "NONE" ~> policy[t] = "NONE"
=============================================================================
