----------------------------- MODULE MCThreads -----------------------------
(***************************************************************************)
(* Threads under two hands, one of which a behaviour picks at its start:   *)
(* those that start, attach, join and end (ThreadLife), and a debugger     *)
(* (DebugSuspend), with a collector at work in both.  Of the debugger      *)
(* there are two settings: breakpoints in two threads that suspend their   *)
(* thread, with commands that name one, and a breakpoint that may suspend  *)
(* all, with the command to resume all.                                    *)
(***************************************************************************)
EXTENDS MCThreadLife

CONSTANTS
  worker, dumper, jdwp,
  DbgThread,                           \* the threads next to a debugger
  Jdwp, Dumper, LockUser, Poster,      \* and their parts, see DebugSuspend
  Breaker,                             \* who posts events that suspend all
  MaxSuspends

ASSUME ThreadsAssumption ==
  /\ IsFiniteSet(DbgThread) /\ NoThread \notin DbgThread
  /\ Jdwp \in DbgThread \ Poster

ThreeThreads == {worker, dumper, jdwp}
Workers == {worker, dumper}
OneWorker == {worker}
OneDumper == {dumper}

VARIABLES
  setting,     \* "life", "single" or "all"
  dbgStatus, closed, oldStatus, oldClosed, dbgCount, waiters, susOwner, dbgList,
  vmOwner, dbgPc, ret, await, dbgSuspendCount, policy, token, tokenWaiters,
  attached, request, sent, early

dbgVars == <<dbgStatus, closed, oldStatus, oldClosed, dbgCount, waiters, susOwner,
             dbgList, vmOwner, dbgPc, ret, await, dbgSuspendCount, policy, token,
             tokenWaiters, attached, request, sent, early>>
all == <<setting, vars, dbgVars>>

\* Nobody takes stack traces.
Dbg == INSTANCE DebugSuspend WITH
  Thread <- DbgThread, Tracer <- {}, Policy <- {"EVENT_THREAD", "ALL"},
  Command <- {"suspendAll", "resumeAll", "suspend", "resume", "drop"},
  status <- dbgStatus, suspendCount <- dbgCount, listOwner <- dbgList, pc <- dbgPc

ThreadsInit == setting \in {"life", "single", "all"} /\ Init /\ Dbg!DbgInit

\* What a step of the debugger's and its threads may not be in a setting.
InSetting ==
  /\ setting = "single" =>
       request'.cmd # "resumeAll" /\ \A t \in DbgThread : policy'[t] # "ALL"
  /\ setting = "all" =>
       /\ request'.cmd \notin {"suspendAll", "suspend", "resume"}
       /\ \A t \in DbgThread \ Breaker : policy'[t] = "NONE"

ThreadsNext ==
  /\ UNCHANGED setting
  /\ \/ setting = "life" /\ Next /\ UNCHANGED dbgVars
     \/ setting # "life" /\ Dbg!DbgNext /\ InSetting /\ UNCHANGED vars

ThreadsSpec == ThreadsInit /\ [][ThreadsNext]_all

-----------------------------------------------------------------------------
\* When the JDWP thread works on a request, everybody who sent an event before
\* the request came has suspended itself (dvmJdwpProcessRequest).
AnswersFindSuspended == Dbg!AnswersFindSuspended

\* The debugger takes nothing of a thread's suspendCount but its own share
\* (dvmUndoDebuggerSuspensions, dvmResumeThread).
SharesAreKept == Dbg!SharesAreKept
=============================================================================
