----------------------------- MODULE ClassInit -----------------------------
(***************************************************************************)
(* Class initialization, dvmInitClass (vm/oo/Class.cpp): a class is        *)
(* verified, its superclass initialized and its static initializer run by  *)
(* one thread, while others wait on the class's monitor.  Initializers     *)
(* initialize more classes, so a thread has a stack of them in progress.   *)
(*                                                                         *)
(* The monitor of the class is an atomic lock with a wait set here, which  *)
(* module Monitor justifies.  Left out: VERIFYING, which nobody but the    *)
(* owner of the class's monitor tells from RESOLVED, static field values,  *)
(* optimization, breakpoints, allocation counters.                         *)
(***************************************************************************)
EXTENDS Naturals

CONSTANTS
  Thread, NoThread,
  Class, NoClass,
  Super,        \* the superclass, or NoClass
  Uses,         \* the classes a static initializer may initialize
  Faulty        \* classes with a bad method, superclass or initializer

ASSUME ClassAssumption ==
  /\ NoThread \notin Thread /\ NoClass \notin Class
  /\ Super \in [Class -> Class \cup {NoClass}]
  /\ Uses \in [Class -> SUBSET Class]

VARIABLES
  status,       \* ClassObject.status
  initThread,   \* ClassObject.initThreadId, stale from linking at first
  monitor,      \* who has the class's monitor
  phase,        \* how far the initialization of a class has got
  outer,        \* the class whose initialization asked for this one's
  top,          \* the class the thread is initializing innermost
  cls,          \* the class of the thread's current call
  at,           \* where the thread is in dvmInitClass
  exception,    \* threads with an exception pending
  result,       \* what the thread's last outermost call returned
  runs,         \* history: how often the static initializer was started
  owner,        \* history: who has begun the initialization
  told          \* history: the final results callers were told

classVars == <<status, initThread, phase, outer>>
history == <<runs, owner, told>>
vars == <<classVars, monitor, top, cls, at, exception, result, history>>

Status == {"ERROR", "RESOLVED", "VERIFIED", "INITIALIZING", "INITIALIZED"}

Init ==
  /\ status = [c \in Class |-> "RESOLVED"]
  /\ initThread \in [Class -> Thread]
  /\ monitor = [c \in Class |-> NoThread]
  /\ phase = [c \in Class |-> "none"]
  /\ outer = [c \in Class |-> NoClass]
  /\ top = [t \in Thread |-> NoClass]
  /\ cls = [t \in Thread |-> NoClass]
  /\ at = [t \in Thread |-> "run"]
  /\ exception = {}
  /\ result = [t \in Thread |-> "none"]
  /\ runs = [c \in Class |-> 0]
  /\ owner = [c \in Class |-> NoThread]
  /\ told = [c \in Class |-> {}]

At(t, here) == at[t] = here
Goto(t, there) == at' = [at EXCEPT ![t] = there]
SetStatus(c, s) == status' = [status EXCEPT ![c] = s]
Throw(t) == exception' = exception \cup {t}

\* dvmIsClassInitializing, without the monitor.
Initializing(t, c) == status[c] = "INITIALIZING" /\ initThread[c] = t

Lock(t, c) == monitor[c] = NoThread /\ monitor' = [monitor EXCEPT ![c] = t]
Unlock(c) == monitor' = [monitor EXCEPT ![c] = NoThread]

\* The current class gets a final error, its monitor held.
Fail(t) ==
  /\ SetStatus(cls[t], "ERROR")
  /\ Throw(t)
  /\ Goto(t, "unlock")

\* Java code, or the static initializer in progress, calls dvmInitClass.
CallInit(t, c) ==
  /\ \/ At(t, "run")
     \/ At(t, "clinit") /\ t \notin exception /\ c \in Uses[cls[t]]
  /\ cls' = [cls EXCEPT ![t] = c]
  /\ exception' = exception \ {t}
  /\ result' = [result EXCEPT ![t] = "none"]
  /\ Goto(t, "lock")
  /\ UNCHANGED <<classVars, monitor, top, history>>

LockClass(t) ==
  /\ At(t, "lock") /\ Lock(t, cls[t])
  /\ Goto(t, "verify")
  /\ UNCHANGED <<classVars, top, cls, exception, result, history>>

\* Mutant: a class that has failed is tried again.
VerifyClassAgain(t) ==
  /\ At(t, "verify")
  /\ LET c == cls[t] IN
     \/ /\ status[c] \in {"ERROR", "RESOLVED"}
        /\ SetStatus(c, "VERIFIED")
     \/ /\ status[c] \notin {"ERROR", "RESOLVED"}
        /\ UNCHANGED status
  /\ Goto(t, "check")
  /\ UNCHANGED <<initThread, phase, outer, monitor, top, cls, exception, result, history>>

\* dvmVerifyClass, unless that is behind us; an error of earlier is thrown again.
VerifyClass(t) ==
  /\ At(t, "verify")
  /\ LET c == cls[t] IN
     \/ /\ status[c] = "ERROR"
        /\ Throw(t) /\ Goto(t, "unlock")
        /\ UNCHANGED status
     \/ /\ status[c] = "RESOLVED" /\ c \in Faulty
        /\ Fail(t)
     \/ /\ status[c] = "RESOLVED"
        /\ SetStatus(c, "VERIFIED") /\ Goto(t, "check")
        /\ UNCHANGED exception
     \/ /\ status[c] \notin {"ERROR", "RESOLVED"}
        /\ Goto(t, "check")
        /\ UNCHANGED <<status, exception>>
  /\ UNCHANGED <<initThread, phase, outer, monitor, top, cls, result, history>>

\* Mutant: nobody waits for a class that is in progress elsewhere.
CheckStatusUnwaited(t) ==
  /\ At(t, "check")
  /\ LET c == cls[t] IN
     \/ /\ status[c] = "INITIALIZED" \/ Initializing(t, c)
        /\ Goto(t, "unlock")
        /\ UNCHANGED <<monitor, exception>>
     \/ /\ status[c] = "ERROR"
        /\ Unlock(c) /\ Throw(t) /\ Goto(t, "return")
     \/ /\ status[c] \in {"VERIFIED", "INITIALIZING"} /\ ~Initializing(t, c)
        /\ Goto(t, "prepare")
        /\ UNCHANGED <<monitor, exception>>
  /\ UNCHANGED <<classVars, top, cls, result, history>>

\* Done already, or by us further out: nothing to do.  Somebody else's: wait.
\* An error since: throw.  Else it is ours.
CheckStatus(t) ==
  /\ At(t, "check")
  /\ LET c == cls[t] IN
     \/ /\ status[c] = "INITIALIZED" \/ Initializing(t, c)
        /\ Goto(t, "unlock")
        /\ UNCHANGED <<monitor, exception>>
     \/ /\ status[c] = "INITIALIZING" /\ initThread[c] # t
        /\ Unlock(c) /\ Goto(t, "asleep")
        /\ UNCHANGED exception
     \/ /\ status[c] = "ERROR"
        /\ Unlock(c) /\ Throw(t) /\ Goto(t, "return")
     \/ /\ status[c] = "VERIFIED"
        /\ Goto(t, "prepare")
        /\ UNCHANGED <<monitor, exception>>
  /\ UNCHANGED <<classVars, top, cls, result, history>>

\* An interrupt wakes a waiting thread as well; it does not throw.
Interrupted(t) ==
  /\ At(t, "asleep")
  /\ Goto(t, "relock")
  /\ UNCHANGED <<classVars, monitor, top, cls, exception, result, history>>

Relock(t) ==
  /\ At(t, "relock") /\ Lock(t, cls[t])
  /\ Goto(t, "woke")
  /\ UNCHANGED <<classVars, top, cls, exception, result, history>>

\* Mutant: the error of another thread is not thrown here.
WaitEndsQuietly(t) ==
  /\ At(t, "woke")
  /\ Goto(t, IF status[cls[t]] = "INITIALIZING" THEN "check" ELSE "unlock")
  /\ UNCHANGED <<classVars, monitor, top, cls, exception, result, history>>

\* Still in progress: wait again.  Else the result is in.
WaitEnds(t) ==
  /\ At(t, "woke")
  /\ LET c == cls[t] IN
     \/ /\ status[c] = "INITIALIZING"
        /\ Goto(t, "check")
        /\ UNCHANGED exception
     \/ /\ status[c] = "INITIALIZED"
        /\ Goto(t, "unlock")
        /\ UNCHANGED exception
     \/ /\ status[c] = "ERROR"
        /\ Throw(t) /\ Goto(t, "unlock")
  /\ UNCHANGED <<classVars, monitor, top, cls, result, history>>

\* Mutant: initThreadId is not set.
PrepareClassUnnamed(t) ==
  /\ At(t, "prepare")
  /\ \/ cls[t] \in Faulty /\ Fail(t)
     \/ Goto(t, "begin") /\ UNCHANGED <<status, exception>>
  /\ UNCHANGED <<initThread, phase, outer, monitor, top, cls, result, history>>

\* validateSuperDescriptors, then initThreadId is set, ahead of the status.
PrepareClass(t) ==
  /\ At(t, "prepare")
  /\ \/ /\ cls[t] \in Faulty
        /\ Fail(t)
        /\ UNCHANGED initThread
     \/ /\ initThread' = [initThread EXCEPT ![cls[t]] = t]
        /\ Goto(t, "begin")
        /\ UNCHANGED <<status, exception>>
  /\ UNCHANGED <<phase, outer, monitor, top, cls, result, history>>

\* The class is ours: publish that and let the monitor go.
BeginInit(t) ==
  /\ At(t, "begin")
  /\ LET c == cls[t] IN
     /\ SetStatus(c, "INITIALIZING")
     /\ phase' = [phase EXCEPT ![c] = "super"]
     /\ outer' = [outer EXCEPT ![c] = top[t]]
     /\ top' = [top EXCEPT ![t] = c]
     /\ owner' = [owner EXCEPT ![c] = t]
     /\ Unlock(c)
  /\ Goto(t, "super")
  /\ UNCHANGED <<initThread, cls, exception, result, runs, told>>

\* Mutant: a superclass in progress, by whomever, will do.
SuperUntouched(c) ==
  Super[c] # NoClass /\ status[Super[c]] \notin {"INITIALIZED", "INITIALIZING"}

\* Read without the superclass's monitor.
SuperMissing(c) == Super[c] # NoClass /\ status[Super[c]] # "INITIALIZED"

\* The superclass first, if it does not look initialized.
InitSuper(t) ==
  /\ At(t, "super") /\ SuperMissing(cls[t])
  /\ cls' = [cls EXCEPT ![t] = Super[cls[t]]]
  /\ Goto(t, "lock")
  /\ UNCHANGED <<classVars, monitor, top, exception, result, history>>

\* Start the static initializer.
RunClinit(t, c) ==
  /\ phase' = [phase EXCEPT ![c] = "clinit"]
  /\ runs' = [runs EXCEPT ![c] = @ + 1]
  /\ Goto(t, "clinit")

SuperReady(t) ==
  /\ At(t, "super") /\ ~SuperMissing(cls[t])
  /\ RunClinit(t, cls[t])
  /\ UNCHANGED <<status, initThread, outer, monitor, top, cls, exception, result,
                 owner, told>>

\* The static initializer catches what a class it used threw.
Catch(t) ==
  /\ At(t, "clinit") /\ t \in exception
  /\ exception' = exception \ {t}
  /\ UNCHANGED <<classVars, monitor, top, cls, at, result, history>>

\* The static initializer returns, or throws.
EndClinit(t) ==
  /\ At(t, "clinit")
  /\ exception' \in {exception} \cup
       (IF cls[t] \in Faulty THEN {exception \cup {t}} ELSE {})
  /\ Goto(t, "finish")
  /\ UNCHANGED <<classVars, monitor, top, cls, result, history>>

\* dvmObjectNotifyAll on the current class, in a step that leads to there.
NotifyAll(t, there) ==
  at' = [u \in Thread |-> IF u = t THEN there
                          ELSE IF at[u] = "asleep" /\ cls[u] = cls[t] THEN "relock"
                          ELSE at[u]]

\* Mutant: nobody is woken.
FinishInitSilently(t) ==
  /\ At(t, "finish")
  /\ LET c == cls[t] IN
     /\ Lock(t, c)
     /\ SetStatus(c, IF t \in exception THEN "ERROR" ELSE "INITIALIZED")
     /\ top' = [top EXCEPT ![t] = outer[c]]
  /\ Goto(t, "unlock")
  /\ UNCHANGED <<initThread, phase, outer, cls, exception, result, history>>

\* With the monitor again: the final status, and wake who waits.
FinishInit(t) ==
  /\ At(t, "finish")
  /\ LET c == cls[t] IN
     /\ Lock(t, c)
     /\ SetStatus(c, IF t \in exception THEN "ERROR" ELSE "INITIALIZED")
     /\ top' = [top EXCEPT ![t] = outer[c]]
  /\ NotifyAll(t, "unlock")
  /\ UNCHANGED <<initThread, phase, outer, cls, exception, result, history>>

\* The superclass failed: the status is stored before the monitor is taken.
FailSuper(t) ==
  /\ At(t, "superFailed")
  /\ SetStatus(cls[t], "ERROR")
  /\ top' = [top EXCEPT ![t] = outer[cls[t]]]
  /\ Goto(t, "failed")
  /\ UNCHANGED <<initThread, phase, outer, monitor, cls, exception, result, history>>

\* Now the monitor, to wake those that waited meanwhile.
NotifyFailed(t) ==
  /\ At(t, "failed") /\ Lock(t, cls[t])
  /\ NotifyAll(t, "unlock")
  /\ UNCHANGED <<classVars, top, cls, exception, result, history>>

UnlockClass(t) ==
  /\ At(t, "unlock") /\ Unlock(cls[t])
  /\ Goto(t, "return")
  /\ UNCHANGED <<classVars, top, cls, exception, result, history>>

\* The result is read from the status after the unlock.
Succeeded(t) == status[cls[t]] # "ERROR"

Tell(t) ==
  told' = [told EXCEPT ![cls[t]] = @ \cup
             IF status[cls[t]] = "INITIALIZING" THEN {}
             ELSE {IF Succeeded(t) THEN "good" ELSE "bad"}]

\* The call returns to Java code, or to the initialization that made it.
ReturnToCaller(t) ==
  /\ At(t, "return") /\ top[t] = NoClass
  /\ result' = [result EXCEPT ![t] = IF Succeeded(t) THEN "true" ELSE "false"]
  /\ Tell(t)
  /\ Goto(t, "run")
  /\ UNCHANGED <<classVars, monitor, top, cls, exception, runs, owner>>

ReturnToClinit(t) ==
  /\ At(t, "return") /\ top[t] # NoClass /\ phase[top[t]] = "clinit"
  /\ cls' = [cls EXCEPT ![t] = top[t]]
  /\ Tell(t)
  /\ Goto(t, "clinit")
  /\ UNCHANGED <<classVars, monitor, top, exception, result, runs, owner>>

ReturnToSub(t) ==
  /\ At(t, "return") /\ top[t] # NoClass /\ phase[top[t]] = "super"
  /\ cls' = [cls EXCEPT ![t] = top[t]]
  /\ Tell(t)
  /\ \/ Succeeded(t) /\ RunClinit(t, top[t])
     \/ ~Succeeded(t) /\ Goto(t, "superFailed") /\ UNCHANGED <<phase, runs>>
  /\ UNCHANGED <<status, initThread, outer, monitor, top, exception, result, owner>>

-----------------------------------------------------------------------------
Acquire(t) == LockClass(t) \/ Relock(t) \/ FinishInit(t) \/ NotifyFailed(t)

Return(t) == ReturnToCaller(t) \/ ReturnToClinit(t) \/ ReturnToSub(t)

Continue(t) ==
  \/ Acquire(t) \/ VerifyClass(t) \/ CheckStatus(t) \/ WaitEnds(t)
  \/ PrepareClass(t) \/ BeginInit(t) \/ InitSuper(t) \/ SuperReady(t)
  \/ EndClinit(t) \/ FailSuper(t) \/ UnlockClass(t) \/ Return(t)

Next ==
  \E t \in Thread :
    Continue(t) \/ Catch(t) \/ Interrupted(t) \/ \E c \in Class : CallInit(t, c)

Spec == Init /\ [][Next]_vars

\* Threads are scheduled, a monitor starves nobody, initializers end.
Fairness == \A t \in Thread :
  WF_vars(Continue(t)) /\ SF_vars(Acquire(t)) /\ SF_vars(EndClinit(t))

FairSpec == Spec /\ Fairness

-----------------------------------------------------------------------------
(* Properties.                                                             *)

HasMonitor == {"verify", "check", "woke", "prepare", "begin", "unlock"}
InProgress == {"super", "clinit", "finish", "superFailed"}
Point == HasMonitor \cup InProgress \cup
  {"run", "lock", "asleep", "relock", "failed", "return"}

TypeOK ==
  /\ status \in [Class -> Status]
  /\ initThread \in [Class -> Thread]
  /\ monitor \in [Class -> Thread \cup {NoThread}]
  /\ phase \in [Class -> {"none", "super", "clinit"}]
  /\ outer \in [Class -> Class \cup {NoClass}]
  /\ top \in [Thread -> Class \cup {NoClass}]
  /\ cls \in [Thread -> Class \cup {NoClass}]
  /\ at \in [Thread -> Point]
  /\ \A t \in Thread : at[t] # "run" => cls[t] \in Class
  /\ exception \subseteq Thread
  /\ result \in [Thread -> {"none", "true", "false"}]
  /\ runs \in [Class -> Nat]
  /\ owner \in [Class -> Thread \cup {NoThread}]
  /\ told \in [Class -> SUBSET {"good", "bad"}]

\* However many threads arrive at once, fail, recurse or are interrupted, the
\* static initializer of a class is started at most once.
ClinitOnce == \A c \in Class : runs[c] <= 1

\* dvmIsClassInitializing reads status and initThreadId without the monitor;
\* it is never fooled by the stale thread id that linking has left.
InitializingIsOurs ==
  \A t \in Thread, c \in Class : Initializing(t, c) => owner[c] = t

\* Why: the inductive invariant.  Who is in the middle of an initialization
\* is the thread the class names, the classes in progress of a thread form a
\* chain that starts with its innermost, and who holds a monitor is at a
\* point that has it.
MonitorInv ==
  \A t \in Thread : \A c \in Class :
    monitor[c] = t <=> at[t] \in HasMonitor /\ cls[t] = c

ChainInv ==
  /\ \A t \in Thread :
       /\ at[t] \in InProgress => top[t] = cls[t]
       /\ top[t] # NoClass => Initializing(t, top[t])
  /\ \A c \in Class : status[c] = "INITIALIZING" =>
       /\ outer[c] # NoClass => Initializing(initThread[c], outer[c])
       /\ outer[c] # top[initThread[c]]
       /\ \A d \in Class : Initializing(initThread[c], d) /\ outer[d] = outer[c] => c = d

PhaseInv ==
  /\ \A t \in Thread :
       /\ at[t] \in {"super", "superFailed"} => phase[cls[t]] = "super"
       /\ at[t] \in {"clinit", "finish"} => phase[cls[t]] = "clinit"
       /\ at[t] \in {"prepare", "begin"} => status[cls[t]] = "VERIFIED"
       /\ at[t] = "begin" => initThread[cls[t]] = t
  /\ \A c \in Class :
       /\ status[c] \in {"RESOLVED", "VERIFIED"} => runs[c] = 0
       /\ status[c] = "INITIALIZING" => owner[c] = initThread[c]
       /\ status[c] = "INITIALIZING" => runs[c] = IF phase[c] = "clinit" THEN 1 ELSE 0

InitInv == TypeOK /\ MonitorInv /\ ChainInv /\ PhaseInv /\ ClinitOnce

\* A static initializer runs after the superclass's, or inside it.
SuperFirst ==
  \A t \in Thread : at[t] = "clinit" /\ SuperMissing(cls[t]) =>
    Initializing(t, Super[cls[t]])

\* "On failure, returns false with an exception raised", and only then: what
\* the callers of dvmInitClass assert.
FailureIsThrown ==
  \A t \in Thread : at[t] = "return" => (t \in exception <=> ~Succeeded(t))

\* "All threads are expected to present a consistent view of class
\* initialization": nobody is told yes when somebody is told no, ever.
ConsistentView == \A c \in Class : ~({"good", "bad"} \subseteq told[c])

\* Nobody sleeps on a class that is not in progress any more, also when the
\* error of the superclass was stored before the monitor was taken.
SleepersHaveAnInitializer ==
  \A t \in Thread : at[t] = "asleep" =>
    \/ status[cls[t]] = "INITIALIZING"
    \/ \E u \in Thread : at[u] = "failed" /\ cls[u] = cls[t]

\* A class that has failed, or is initialized, stays so.
FinalStatus ==
  [][\A c \in Class : status[c] \in {"ERROR", "INITIALIZED"} => status'[c] = status[c]]_vars

\* Every call of dvmInitClass returns, if no initializers use each other in a
\* circle.
CallsReturn == \A t \in Thread : at[t] # "run" ~> at[t] = "run"

=============================================================================
