----------------------------- MODULE MCSuspend -----------------------------
(***************************************************************************)
(* What must come to an end when threads are suspended, in five small      *)
(* worlds one of which a behaviour picks at its start: two threads stop    *)
(* the world while threads hold VM-internal locks; one does while two take *)
(* stack traces; a failed allocation and the daemon collect; a debugger    *)
(* suspends a thread at its events, and resumes it; it suspends all        *)
(* threads at an event, and resumes all.                                   *)
(***************************************************************************)
CONSTANTS a, b, c, NoThread

VARIABLES
  setup,       \* "stop", "trace", "collect", "event" or "break"
  status, closed, oldStatus, oldClosed, suspendCount, waiters,
  susOwner, listOwner, vmOwner, pc, ret, await,
  heapOwner, gcRunning, gcWaiters, kind, pause,
  dbgSuspendCount, policy, token, tokenWaiters, attached, request, sent, early

Thread == {a, b, c}

Stop == INSTANCE ThreadSuspend WITH Dumper <- {a, b}, Tracer <- {}, LockUser <- {b, c}
Trace == INSTANCE ThreadSuspend WITH Dumper <- {a}, Tracer <- {b, c}, LockUser <- {}
Collect == INSTANCE GcStop WITH
  Dumper <- {}, Tracer <- {}, LockUser <- {},
  Allocator <- {a}, Explicit <- {}, Daemon <- {c}
Event == INSTANCE DebugSuspend WITH
  Jdwp <- c, Dumper <- {b}, Tracer <- {}, LockUser <- {},
  Poster <- {a}, Policy <- {"EVENT_THREAD"}, Command <- {"resume"}, MaxSuspends <- 1
Break == INSTANCE DebugSuspend WITH
  Jdwp <- c, Dumper <- {}, Tracer <- {}, LockUser <- {},
  Poster <- {a}, Policy <- {"ALL"}, Command <- {"resumeAll"}, MaxSuspends <- 1

protocolVars == <<status, closed, oldStatus, oldClosed, suspendCount, waiters,
                  susOwner, listOwner, vmOwner, pc, ret, await>>
gcVars == <<heapOwner, gcRunning, gcWaiters, kind, pause>>
dbgVars == <<dbgSuspendCount, policy, token, tokenWaiters, attached, request, sent, early>>
all == <<setup, protocolVars, gcVars, dbgVars>>

Debugging == setup \in {"event", "break"}

MixedInit ==
  \/ setup = "collect" /\ Collect!GcInit /\ Event!NothingPosted
  \/ /\ \/ setup \in {"stop", "trace"} /\ Stop!Init /\ Event!NothingPosted
        \/ Debugging /\ Event!DbgInit
     /\ heapOwner = NoThread /\ gcRunning = FALSE /\ gcWaiters = {}
     /\ kind = [t \in Thread |-> "none"] /\ pause = [t \in Thread |-> 0]

Obliged(t) ==
  /\ UNCHANGED setup
  /\ \/ setup = "collect" /\ Collect!GcObliged(t) /\ UNCHANGED dbgVars
     \/ setup = "stop" /\ Stop!Obliged(t) /\ UNCHANGED <<gcVars, dbgVars>>
     \/ setup = "trace" /\ Trace!Obliged(t) /\ UNCHANGED <<gcVars, dbgVars>>
     \/ setup = "event" /\ Event!DbgObliged(t) /\ UNCHANGED gcVars
     \/ setup = "break" /\ Break!DbgObliged(t) /\ UNCHANGED gcVars

Chosen(t) ==
  /\ UNCHANGED setup
  /\ \/ setup = "collect" /\ Collect!GcChosen(t) /\ UNCHANGED dbgVars
     \/ setup = "stop" /\ Stop!Chosen(t) /\ UNCHANGED <<gcVars, dbgVars>>
     \/ setup = "trace" /\ Trace!Chosen(t) /\ UNCHANGED <<gcVars, dbgVars>>
     \/ setup = "event" /\ Event!DbgChosen(t) /\ UNCHANGED gcVars
     \/ setup = "break" /\ Break!DbgChosen(t) /\ UNCHANGED gcVars

\* A packet of the debugger's.
Received ==
  /\ UNCHANGED <<setup, gcVars>>
  /\ \/ setup = "event" /\ Event!Receive
     \/ setup = "break" /\ Break!Receive

\* Who waits for a mutex or was woken, and would find it free or nothing against
\* it again and again.
GetsOn(t) ==
  /\ UNCHANGED setup
  /\ \/ ~Debugging /\ Collect!GetsLock(t) /\ UNCHANGED dbgVars
     \/ Debugging /\ Event!GetsMutex(t) /\ UNCHANGED gcVars

\* The fairness of the modules.  Which locks must not starve a thread depends on
\* nobody's role; all the debugger here can resume is thread a, or everybody.
MixedFairness ==
  /\ \A t \in Thread :
       /\ WF_all(Obliged(t))
       /\ SF_all(Collect!SafePoint(t) /\ UNCHANGED <<setup, gcVars, dbgVars>>)
       /\ SF_all(GetsOn(t))
  /\ SF_all(Received)

MixedNext == (\E t \in Thread : Obliged(t) \/ Chosen(t)) \/ Received

MixedSpec == MixedInit /\ [][MixedNext]_all /\ MixedFairness

-----------------------------------------------------------------------------
\* The waits of the protocol, of the collector and of who posts an event to the
\* debugger end, in every setup.
StopCompletes == Stop!StopCompletes
CollectionEnds == Collect!CollectionEnds
PostersReturn == Event!PostersReturn
=============================================================================
