-------------------------- MODULE ClassInitProofs --------------------------
(***************************************************************************)
(* Proofs about module ClassInit: a static initializer is started at most  *)
(* once, by the thread the class names, and the outcome is final, for any  *)
(* threads, classes and use of classes by initializers.                    *)
(***************************************************************************)
EXTENDS ClassInit, TLAPS

\* At the start no class is in progress and no monitor taken.
LEMMA InitStart == Init => InitInv
<1> USE ClassAssumption DEF ClassAssumption
<1> SUFFICES ASSUME Init PROVE InitInv
  OBVIOUS
<1>1. TypeOK
  BY DEF Init, TypeOK, Status, Point
<1>2. MonitorInv /\ ChainInv /\ PhaseInv /\ ClinitOnce
  BY DEF Init, MonitorInv, ChainInv, PhaseInv, ClinitOnce, HasMonitor, InProgress
<1> QED
  BY <1>1, <1>2 DEF InitInv

\* Every step keeps the types.
LEMMA TypeStep == TypeOK /\ [Next]_vars => TypeOK'
<1> USE ClassAssumption DEF ClassAssumption
<1> SUFFICES ASSUME TypeOK, [Next]_vars PROVE TypeOK'
  OBVIOUS
<1> USE DEF TypeOK, Status, Point, HasMonitor, InProgress, vars, classVars, history
<1>u. CASE UNCHANGED vars
  BY <1>u
<1>1. ASSUME NEW t \in Thread, NEW c \in Class, CallInit(t, c) PROVE TypeOK'
  BY <1>1 DEF At, Goto, CallInit
<1>2. ASSUME NEW t \in Thread, LockClass(t) PROVE TypeOK'
  BY <1>2 DEF At, Goto, LockClass, Lock
<1>3. ASSUME NEW t \in Thread, VerifyClass(t) PROVE TypeOK'
  BY <1>3 DEF At, Goto, VerifyClass, Fail, SetStatus, Throw
<1>4. ASSUME NEW t \in Thread, CheckStatus(t) PROVE TypeOK'
  BY <1>4 DEF At, Goto, CheckStatus, Unlock, Throw, Initializing
<1>5. ASSUME NEW t \in Thread, Interrupted(t) PROVE TypeOK'
  BY <1>5 DEF At, Goto, Interrupted
<1>6. ASSUME NEW t \in Thread, Relock(t) PROVE TypeOK'
  BY <1>6 DEF At, Goto, Relock, Lock
<1>7. ASSUME NEW t \in Thread, WaitEnds(t) PROVE TypeOK'
  BY <1>7 DEF At, Goto, WaitEnds, Throw
<1>8. ASSUME NEW t \in Thread, PrepareClass(t) PROVE TypeOK'
  BY <1>8 DEF At, Goto, PrepareClass, Fail, SetStatus, Throw
<1>9. ASSUME NEW t \in Thread, BeginInit(t) PROVE TypeOK'
  BY <1>9 DEF At, Goto, BeginInit, SetStatus, Unlock
<1>10. ASSUME NEW t \in Thread, InitSuper(t) PROVE TypeOK'
  BY <1>10 DEF At, Goto, InitSuper, SuperMissing
<1>11. ASSUME NEW t \in Thread, SuperReady(t) PROVE TypeOK'
  BY <1>11 DEF At, Goto, SuperReady, RunClinit
<1>12. ASSUME NEW t \in Thread, Catch(t) PROVE TypeOK'
  BY <1>12 DEF At, Goto, Catch
<1>13. ASSUME NEW t \in Thread, EndClinit(t) PROVE TypeOK'
  BY <1>13 DEF At, Goto, EndClinit
<1>14. ASSUME NEW t \in Thread, FinishInit(t) PROVE TypeOK'
  BY <1>14 DEF At, Goto, FinishInit, Lock, SetStatus, NotifyAll
<1>15. ASSUME NEW t \in Thread, FailSuper(t) PROVE TypeOK'
  BY <1>15 DEF At, Goto, FailSuper, SetStatus
<1>16. ASSUME NEW t \in Thread, NotifyFailed(t) PROVE TypeOK'
  BY <1>16 DEF At, Goto, NotifyFailed, Lock, NotifyAll
<1>17. ASSUME NEW t \in Thread, UnlockClass(t) PROVE TypeOK'
  BY <1>17 DEF At, Goto, UnlockClass, Unlock
<1>18. ASSUME NEW t \in Thread, ReturnToCaller(t) PROVE TypeOK'
  BY <1>18 DEF At, Goto, ReturnToCaller, Tell, Succeeded
<1>19. ASSUME NEW t \in Thread, ReturnToClinit(t) PROVE TypeOK'
  BY <1>19 DEF At, Goto, ReturnToClinit, Tell, Succeeded
<1>20. ASSUME NEW t \in Thread, ReturnToSub(t) PROVE TypeOK'
  <2>1. top[t] \in Class /\ cls[t] \in Class
    BY <1>20 DEF At, ReturnToSub
  <2>2. told' \in [Class -> SUBSET {"good", "bad"}]
    BY <1>20, <2>1 DEF ReturnToSub, Tell
  <2>3. CASE Succeeded(t)
    <3>r. RunClinit(t, top[t])
      BY <1>20, <2>3 DEF ReturnToSub
    <3>n. runs' \in [Class -> Nat]
      BY <2>1, <3>r DEF RunClinit
    <3>1. phase' \in [Class -> {"none", "super", "clinit"}]
      BY <2>1, <3>r DEF RunClinit
    <3>2. at' \in [Thread -> Point] /\ cls' \in [Thread -> Class \cup {NoClass}]
      BY <1>20, <2>1, <2>3 DEF ReturnToSub, RunClinit, Goto
    <3>3. \A x \in Thread : at'[x] # "run" => cls'[x] \in Class
      BY <1>20, <2>1 DEF ReturnToSub, RunClinit, Goto
    <3> QED
      BY <1>20, <2>2, <3>n, <3>1, <3>2, <3>3 DEF ReturnToSub
  <2>4. CASE ~Succeeded(t)
    BY <1>20, <2>1, <2>2, <2>4 DEF At, Goto, ReturnToSub
  <2> QED
    BY <2>3, <2>4
<1> QED
  BY <1>u, <1>1, <1>2, <1>3, <1>4, <1>5, <1>6, <1>7, <1>8, <1>9, <1>10, <1>11, <1>12,
     <1>13, <1>14, <1>15, <1>16, <1>17, <1>18, <1>19, <1>20
  DEF Next, Continue, Acquire, Return

\* Every step keeps the invariant: monitors, chains of classes in progress and
\* phases stay in agreement.
LEMMA InitStep == InitInv /\ [Next]_vars => InitInv'
<1> USE ClassAssumption DEF ClassAssumption
<1> DEFINE Rest == MonitorInv /\ ChainInv /\ PhaseInv /\ ClinitOnce
<1> SUFFICES ASSUME InitInv, [Next]_vars PROVE Rest'
  BY TypeStep DEF InitInv
<1>t. TypeOK /\ TypeOK'
  BY TypeStep DEF InitInv
<1>i. MonitorInv /\ ChainInv /\ PhaseInv /\ ClinitOnce
  BY DEF InitInv
<1> USE <1>t, <1>i
<1> USE DEF TypeOK, MonitorInv, ChainInv, PhaseInv, ClinitOnce, Initializing
<1> USE DEF Status, Point, HasMonitor, InProgress, vars, classVars, history
<1>u. CASE UNCHANGED vars
  BY <1>u
<1>1. ASSUME NEW t \in Thread, NEW c \in Class, CallInit(t, c) PROVE Rest'
  <2>1. MonitorInv'
    BY <1>1, SMTT(30) DEF At, Goto, CallInit
  <2>2. ChainInv'
    BY <1>1, SMTT(30) DEF At, Goto, CallInit
  <2>3. PhaseInv'
    BY <1>1, SMTT(30) DEF At, Goto, CallInit
  <2>4. ClinitOnce'
    BY <1>1, SMTT(30) DEF At, Goto, CallInit
  <2> QED
    BY <2>1, <2>2, <2>3, <2>4
<1>2. ASSUME NEW t \in Thread, LockClass(t) PROVE Rest'
  <2>1. MonitorInv'
    BY <1>2, SMTT(30) DEF At, Goto, LockClass, Lock
  <2>2. ChainInv'
    BY <1>2, SMTT(30) DEF At, Goto, LockClass, Lock
  <2>3. PhaseInv'
    BY <1>2, SMTT(30) DEF At, Goto, LockClass, Lock
  <2>4. ClinitOnce'
    BY <1>2, SMTT(30) DEF At, Goto, LockClass, Lock
  <2> QED
    BY <2>1, <2>2, <2>3, <2>4
<1>3. ASSUME NEW t \in Thread, VerifyClass(t) PROVE Rest'
  <2>1. MonitorInv'
    BY <1>3, SMTT(30) DEF At, Goto, VerifyClass, Fail, SetStatus, Throw
  <2>2. ChainInv'
    BY <1>3, SMTT(30) DEF At, Goto, VerifyClass, Fail, SetStatus, Throw
  <2>3. PhaseInv'
    BY <1>3, SMTT(30) DEF At, Goto, VerifyClass, Fail, SetStatus, Throw
  <2>4. ClinitOnce'
    BY <1>3, SMTT(30) DEF At, Goto, VerifyClass, Fail, SetStatus, Throw
  <2> QED
    BY <2>1, <2>2, <2>3, <2>4
<1>4. ASSUME NEW t \in Thread, CheckStatus(t) PROVE Rest'
  <2>1. MonitorInv'
    BY <1>4, SMTT(30) DEF At, Goto, CheckStatus, Unlock, Throw, Initializing
  <2>2. ChainInv'
    BY <1>4, SMTT(30) DEF At, Goto, CheckStatus, Unlock, Throw, Initializing
  <2>3. PhaseInv'
    BY <1>4, SMTT(30) DEF At, Goto, CheckStatus, Unlock, Throw, Initializing
  <2>4. ClinitOnce'
    BY <1>4, SMTT(30) DEF At, Goto, CheckStatus, Unlock, Throw, Initializing
  <2> QED
    BY <2>1, <2>2, <2>3, <2>4
<1>5. ASSUME NEW t \in Thread, Interrupted(t) PROVE Rest'
  <2>1. MonitorInv'
    BY <1>5, SMTT(30) DEF At, Goto, Interrupted
  <2>2. ChainInv'
    BY <1>5, SMTT(30) DEF At, Goto, Interrupted
  <2>3. PhaseInv'
    BY <1>5, SMTT(30) DEF At, Goto, Interrupted
  <2>4. ClinitOnce'
    BY <1>5, SMTT(30) DEF At, Goto, Interrupted
  <2> QED
    BY <2>1, <2>2, <2>3, <2>4
<1>6. ASSUME NEW t \in Thread, Relock(t) PROVE Rest'
  <2>1. MonitorInv'
    BY <1>6, SMTT(30) DEF At, Goto, Relock, Lock
  <2>2. ChainInv'
    BY <1>6, SMTT(30) DEF At, Goto, Relock, Lock
  <2>3. PhaseInv'
    BY <1>6, SMTT(30) DEF At, Goto, Relock, Lock
  <2>4. ClinitOnce'
    BY <1>6, SMTT(30) DEF At, Goto, Relock, Lock
  <2> QED
    BY <2>1, <2>2, <2>3, <2>4
<1>7. ASSUME NEW t \in Thread, WaitEnds(t) PROVE Rest'
  <2>1. MonitorInv'
    BY <1>7, SMTT(30) DEF At, Goto, WaitEnds, Throw
  <2>2. ChainInv'
    BY <1>7, SMTT(30) DEF At, Goto, WaitEnds, Throw
  <2>3. PhaseInv'
    BY <1>7, SMTT(30) DEF At, Goto, WaitEnds, Throw
  <2>4. ClinitOnce'
    BY <1>7, SMTT(30) DEF At, Goto, WaitEnds, Throw
  <2> QED
    BY <2>1, <2>2, <2>3, <2>4
<1>8. ASSUME NEW t \in Thread, PrepareClass(t) PROVE Rest'
  <2>1. MonitorInv'
    BY <1>8, SMTT(30) DEF At, Goto, PrepareClass, Fail, SetStatus, Throw
  <2>2. ChainInv'
    BY <1>8, SMTT(30) DEF At, Goto, PrepareClass, Fail, SetStatus, Throw
  <2>3. PhaseInv'
    BY <1>8, SMTT(30) DEF At, Goto, PrepareClass, Fail, SetStatus, Throw
  <2>4. ClinitOnce'
    BY <1>8, SMTT(30) DEF At, Goto, PrepareClass, Fail, SetStatus, Throw
  <2> QED
    BY <2>1, <2>2, <2>3, <2>4
<1>9. ASSUME NEW t \in Thread, BeginInit(t) PROVE Rest'
  <2>1. MonitorInv'
    BY <1>9, SMTT(30) DEF At, Goto, BeginInit, SetStatus, Unlock
  <2>2. ChainInv'
    BY <1>9, SMTT(30) DEF At, Goto, BeginInit, SetStatus, Unlock
  <2>3. PhaseInv'
    BY <1>9, SMTT(30) DEF At, Goto, BeginInit, SetStatus, Unlock
  <2>4. ClinitOnce'
    BY <1>9, SMTT(30) DEF At, Goto, BeginInit, SetStatus, Unlock
  <2> QED
    BY <2>1, <2>2, <2>3, <2>4
<1>10. ASSUME NEW t \in Thread, InitSuper(t) PROVE Rest'
  <2>1. MonitorInv'
    BY <1>10, SMTT(30) DEF At, Goto, InitSuper, SuperMissing
  <2>2. ChainInv'
    BY <1>10, SMTT(30) DEF At, Goto, InitSuper, SuperMissing
  <2>3. PhaseInv'
    BY <1>10, SMTT(30) DEF At, Goto, InitSuper, SuperMissing
  <2>4. ClinitOnce'
    BY <1>10, SMTT(30) DEF At, Goto, InitSuper, SuperMissing
  <2> QED
    BY <2>1, <2>2, <2>3, <2>4
<1>11. ASSUME NEW t \in Thread, SuperReady(t) PROVE Rest'
  <2>1. MonitorInv'
    BY <1>11, SMTT(30) DEF At, Goto, SuperReady, RunClinit
  <2>2. ChainInv'
    BY <1>11, SMTT(30) DEF At, Goto, SuperReady, RunClinit
  <2>3. PhaseInv'
    BY <1>11, SMTT(30) DEF At, Goto, SuperReady, RunClinit
  <2>4. ClinitOnce'
    BY <1>11, SMTT(30) DEF At, Goto, SuperReady, RunClinit
  <2> QED
    BY <2>1, <2>2, <2>3, <2>4
<1>12. ASSUME NEW t \in Thread, Catch(t) PROVE Rest'
  <2>1. MonitorInv'
    BY <1>12, SMTT(30) DEF At, Goto, Catch
  <2>2. ChainInv'
    BY <1>12, SMTT(30) DEF At, Goto, Catch
  <2>3. PhaseInv'
    BY <1>12, SMTT(30) DEF At, Goto, Catch
  <2>4. ClinitOnce'
    BY <1>12, SMTT(30) DEF At, Goto, Catch
  <2> QED
    BY <2>1, <2>2, <2>3, <2>4
<1>13. ASSUME NEW t \in Thread, EndClinit(t) PROVE Rest'
  <2>1. MonitorInv'
    BY <1>13, SMTT(30) DEF At, Goto, EndClinit
  <2>2. ChainInv'
    BY <1>13, SMTT(30) DEF At, Goto, EndClinit
  <2>3. PhaseInv'
    BY <1>13, SMTT(30) DEF At, Goto, EndClinit
  <2>4. ClinitOnce'
    BY <1>13, SMTT(30) DEF At, Goto, EndClinit
  <2> QED
    BY <2>1, <2>2, <2>3, <2>4
<1>14. ASSUME NEW t \in Thread, FinishInit(t) PROVE Rest'
  <2>1. MonitorInv'
    BY <1>14, SMTT(30) DEF At, Goto, FinishInit, Lock, SetStatus, NotifyAll
  <2>2. ChainInv'
    BY <1>14, SMTT(30) DEF At, Goto, FinishInit, Lock, SetStatus, NotifyAll
  <2>3. PhaseInv'
    BY <1>14, SMTT(30) DEF At, Goto, FinishInit, Lock, SetStatus, NotifyAll
  <2>4. ClinitOnce'
    BY <1>14, SMTT(30) DEF At, Goto, FinishInit, Lock, SetStatus, NotifyAll
  <2> QED
    BY <2>1, <2>2, <2>3, <2>4
<1>15. ASSUME NEW t \in Thread, FailSuper(t) PROVE Rest'
  <2>1. MonitorInv'
    BY <1>15, SMTT(30) DEF At, Goto, FailSuper, SetStatus
  <2>2. ChainInv'
    BY <1>15, SMTT(30) DEF At, Goto, FailSuper, SetStatus
  <2>3. PhaseInv'
    BY <1>15, SMTT(30) DEF At, Goto, FailSuper, SetStatus
  <2>4. ClinitOnce'
    BY <1>15, SMTT(30) DEF At, Goto, FailSuper, SetStatus
  <2> QED
    BY <2>1, <2>2, <2>3, <2>4
<1>16. ASSUME NEW t \in Thread, NotifyFailed(t) PROVE Rest'
  <2>1. MonitorInv'
    BY <1>16, SMTT(30) DEF At, Goto, NotifyFailed, Lock, NotifyAll
  <2>2. ChainInv'
    BY <1>16, SMTT(30) DEF At, Goto, NotifyFailed, Lock, NotifyAll
  <2>3. PhaseInv'
    BY <1>16, SMTT(30) DEF At, Goto, NotifyFailed, Lock, NotifyAll
  <2>4. ClinitOnce'
    BY <1>16, SMTT(30) DEF At, Goto, NotifyFailed, Lock, NotifyAll
  <2> QED
    BY <2>1, <2>2, <2>3, <2>4
<1>17. ASSUME NEW t \in Thread, UnlockClass(t) PROVE Rest'
  <2>1. MonitorInv'
    BY <1>17, SMTT(30) DEF At, Goto, UnlockClass, Unlock
  <2>2. ChainInv'
    BY <1>17, SMTT(30) DEF At, Goto, UnlockClass, Unlock
  <2>3. PhaseInv'
    BY <1>17, SMTT(30) DEF At, Goto, UnlockClass, Unlock
  <2>4. ClinitOnce'
    BY <1>17, SMTT(30) DEF At, Goto, UnlockClass, Unlock
  <2> QED
    BY <2>1, <2>2, <2>3, <2>4
<1>18. ASSUME NEW t \in Thread, ReturnToCaller(t) PROVE Rest'
  <2>1. MonitorInv'
    BY <1>18, SMTT(30) DEF At, Goto, ReturnToCaller, Tell, Succeeded
  <2>2. ChainInv'
    BY <1>18, SMTT(30) DEF At, Goto, ReturnToCaller, Tell, Succeeded
  <2>3. PhaseInv'
    BY <1>18, SMTT(30) DEF At, Goto, ReturnToCaller, Tell, Succeeded
  <2>4. ClinitOnce'
    BY <1>18, SMTT(30) DEF At, Goto, ReturnToCaller, Tell, Succeeded
  <2> QED
    BY <2>1, <2>2, <2>3, <2>4
<1>19. ASSUME NEW t \in Thread, ReturnToClinit(t) PROVE Rest'
  <2>1. MonitorInv'
    BY <1>19, SMTT(30) DEF At, Goto, ReturnToClinit, Tell, Succeeded
  <2>2. ChainInv'
    BY <1>19, SMTT(30) DEF At, Goto, ReturnToClinit, Tell, Succeeded
  <2>3. PhaseInv'
    BY <1>19, SMTT(30) DEF At, Goto, ReturnToClinit, Tell, Succeeded
  <2>4. ClinitOnce'
    BY <1>19, SMTT(30) DEF At, Goto, ReturnToClinit, Tell, Succeeded
  <2> QED
    BY <2>1, <2>2, <2>3, <2>4
<1>20. ASSUME NEW t \in Thread, ReturnToSub(t) PROVE Rest'
  <2>1. MonitorInv'
    BY <1>20, SMTT(30) DEF At, Goto, ReturnToSub, Tell, Succeeded, RunClinit
  <2>2. ChainInv'
    BY <1>20, SMTT(30) DEF At, Goto, ReturnToSub, Tell, Succeeded, RunClinit
  <2>3. PhaseInv'
    BY <1>20, SMTT(30) DEF At, Goto, ReturnToSub, Tell, Succeeded, RunClinit
  <2>4. ClinitOnce'
    BY <1>20, SMTT(30) DEF At, Goto, ReturnToSub, Tell, Succeeded, RunClinit
  <2> QED
    BY <2>1, <2>2, <2>3, <2>4
<1> QED
  BY <1>u, <1>1, <1>2, <1>3, <1>4, <1>5, <1>6, <1>7, <1>8, <1>9, <1>10, <1>11, <1>12,
     <1>13, <1>14, <1>15, <1>16, <1>17, <1>18, <1>19, <1>20
  DEF Next, Continue, Acquire, Return

\* The invariant holds in every reachable state.
THEOREM InitInvariant == Spec => []InitInv
BY InitStart, InitStep, PTL DEF Spec

\* However many threads arrive at once, fail, recurse or are interrupted, the
\* static initializer of a class is started at most once (dvmInitClass).
THEOREM ClinitRunsOnce == Spec => []ClinitOnce
<1>1. InitInv => ClinitOnce
  BY DEF InitInv
<1> QED
  BY <1>1, InitInvariant, PTL

\* Whom dvmIsClassInitializing tells that it initializes a class is the thread
\* that does, in spite of the thread ids that linking left.
THEOREM InitializingIsTrue == Spec => []InitializingIsOurs
<1>1. InitInv => InitializingIsOurs
  BY DEF InitInv, PhaseInv, InitializingIsOurs, Initializing
<1> QED
  BY <1>1, InitInvariant, PTL

\* A final status stays, and only the thread itself ends what it initializes,
\* as its innermost class.
ProgressKept ==
  /\ \A c \in Class : status[c] \in {"ERROR", "INITIALIZED"} => status'[c] = status[c]
  /\ \A t \in Thread, c \in Class : Initializing(t, c) =>
       \/ status'[c] = "INITIALIZING" /\ initThread'[c] = t
       \/ top[t] = c /\ at[t] \in {"finish", "superFailed"}

LEMMA ProgressStep == InitInv /\ [Next]_vars => ProgressKept
<1> USE ClassAssumption DEF ClassAssumption
<1> SUFFICES ASSUME InitInv, [Next]_vars PROVE ProgressKept
  OBVIOUS
<1>i. TypeOK /\ ChainInv /\ PhaseInv
  BY DEF InitInv
<1> USE <1>i DEF TypeOK, ChainInv, PhaseInv, Initializing, InProgress, vars, classVars
<1> USE DEF ProgressKept
<1>u. CASE UNCHANGED vars
  BY <1>u
<1>1. ASSUME NEW t \in Thread, NEW c \in Class, CallInit(t, c) PROVE ProgressKept
  BY <1>1 DEF At, Goto, CallInit
<1>2. ASSUME NEW t \in Thread, LockClass(t) PROVE ProgressKept
  BY <1>2 DEF At, Goto, LockClass, Lock
<1>3. ASSUME NEW t \in Thread, VerifyClass(t) PROVE ProgressKept
  BY <1>3 DEF At, Goto, VerifyClass, Fail, SetStatus, Throw
<1>4. ASSUME NEW t \in Thread, CheckStatus(t) PROVE ProgressKept
  BY <1>4 DEF At, Goto, CheckStatus, Unlock, Throw, Initializing
<1>5. ASSUME NEW t \in Thread, Interrupted(t) PROVE ProgressKept
  BY <1>5 DEF At, Goto, Interrupted
<1>6. ASSUME NEW t \in Thread, Relock(t) PROVE ProgressKept
  BY <1>6 DEF At, Goto, Relock, Lock
<1>7. ASSUME NEW t \in Thread, WaitEnds(t) PROVE ProgressKept
  BY <1>7 DEF At, Goto, WaitEnds, Throw
<1>8. ASSUME NEW t \in Thread, PrepareClass(t) PROVE ProgressKept
  BY <1>8 DEF At, Goto, PrepareClass, Fail, SetStatus, Throw
<1>9. ASSUME NEW t \in Thread, BeginInit(t) PROVE ProgressKept
  BY <1>9 DEF At, Goto, BeginInit, SetStatus, Unlock
<1>10. ASSUME NEW t \in Thread, InitSuper(t) PROVE ProgressKept
  BY <1>10 DEF At, Goto, InitSuper, SuperMissing
<1>11. ASSUME NEW t \in Thread, SuperReady(t) PROVE ProgressKept
  BY <1>11 DEF At, Goto, SuperReady, RunClinit
<1>12. ASSUME NEW t \in Thread, Catch(t) PROVE ProgressKept
  BY <1>12 DEF At, Goto, Catch
<1>13. ASSUME NEW t \in Thread, EndClinit(t) PROVE ProgressKept
  BY <1>13 DEF At, Goto, EndClinit
<1>14. ASSUME NEW t \in Thread, FinishInit(t) PROVE ProgressKept
  <2>1. top[t] = cls[t] /\ cls[t] \in Class /\ Initializing(t, cls[t])
    BY <1>14 DEF At, FinishInit
  <2> QED
    BY <1>14, <2>1 DEF At, FinishInit, SetStatus
<1>15. ASSUME NEW t \in Thread, FailSuper(t) PROVE ProgressKept
  <2>1. top[t] = cls[t] /\ cls[t] \in Class /\ Initializing(t, cls[t])
    BY <1>15 DEF At, FailSuper
  <2> QED
    BY <1>15, <2>1 DEF At, FailSuper, SetStatus
<1>16. ASSUME NEW t \in Thread, NotifyFailed(t) PROVE ProgressKept
  BY <1>16 DEF At, Goto, NotifyFailed, Lock, NotifyAll
<1>17. ASSUME NEW t \in Thread, UnlockClass(t) PROVE ProgressKept
  BY <1>17 DEF At, Goto, UnlockClass, Unlock
<1>18. ASSUME NEW t \in Thread, ReturnToCaller(t) PROVE ProgressKept
  BY <1>18 DEF At, Goto, ReturnToCaller, Tell, Succeeded
<1>19. ASSUME NEW t \in Thread, ReturnToClinit(t) PROVE ProgressKept
  BY <1>19 DEF At, Goto, ReturnToClinit, Tell, Succeeded
<1>20. ASSUME NEW t \in Thread, ReturnToSub(t) PROVE ProgressKept
  BY <1>20 DEF At, Goto, ReturnToSub, Tell, Succeeded, RunClinit
<1> QED
  BY <1>u, <1>1, <1>2, <1>3, <1>4, <1>5, <1>6, <1>7, <1>8, <1>9, <1>10, <1>11, <1>12,
     <1>13, <1>14, <1>15, <1>16, <1>17, <1>18, <1>19, <1>20
  DEF Next, Continue, Acquire, Return

\* No step takes a class out of ERROR or INITIALIZED, the store of ERROR
\* without the monitor included.
THEOREM StatusIsFinal == Spec => FinalStatus
<1> DEFINE Final ==
      \A c \in Class : status[c] \in {"ERROR", "INITIALIZED"} => status'[c] = status[c]
<1>1. InitInv /\ [Next]_vars => [Final]_vars
  BY ProgressStep DEF ProgressKept
<1> QED
  BY <1>1, InitInvariant, PTL DEF Spec, FinalStatus

-----------------------------------------------------------------------------
(* What a call returns.  AnswerInv ties the exception a thread has to the  *)
(* status of the class it is done with, and what callers were told to the  *)
(* status that can no longer change.                                       *)

Answering == {"unlock", "return"}
Quiet == {"lock", "verify", "check", "asleep", "relock", "woke", "prepare", "begin",
          "super"}

AnswerInv ==
  /\ \A t \in Thread :
       /\ at[t] \in Answering =>
            /\ status[cls[t]] \in {"ERROR", "INITIALIZED"} \/ Initializing(t, cls[t])
            /\ t \in exception <=> ~Succeeded(t)
       /\ at[t] \in Quiet => t \notin exception
       /\ at[t] = "failed" => t \in exception /\ status[cls[t]] = "ERROR"
       /\ at[t] = "superFailed" => t \in exception
  /\ \A c \in Class :
       /\ "good" \in told[c] => status[c] = "INITIALIZED"
       /\ "bad" \in told[c] => status[c] = "ERROR"

\* Every step keeps it.
LEMMA AnswerStep == InitInv /\ AnswerInv /\ [Next]_vars => AnswerInv'
<1> USE ClassAssumption DEF ClassAssumption
<1> SUFFICES ASSUME InitInv, AnswerInv, [Next]_vars PROVE AnswerInv'
  OBVIOUS
<1>k. ProgressKept
  BY ProgressStep
<1>i. TypeOK /\ ChainInv /\ PhaseInv /\ TypeOK'
  BY TypeStep DEF InitInv
<1> USE <1>i, <1>k DEF ProgressKept, TypeOK, ChainInv, PhaseInv, AnswerInv, Answering, Quiet
<1> USE DEF Status, Point, HasMonitor, InProgress, Initializing, Succeeded
<1> USE DEF vars, classVars, history
<1>u. CASE UNCHANGED vars
  BY <1>u
<1>1. ASSUME NEW t \in Thread, NEW c \in Class, CallInit(t, c) PROVE AnswerInv'
  BY <1>1, SMTT(30) DEF At, Goto, CallInit
<1>2. ASSUME NEW t \in Thread, LockClass(t) PROVE AnswerInv'
  BY <1>2, SMTT(30) DEF At, Goto, LockClass, Lock
<1>3. ASSUME NEW t \in Thread, VerifyClass(t) PROVE AnswerInv'
  BY <1>3, SMTT(30) DEF At, Goto, VerifyClass, Fail, SetStatus, Throw
<1>4. ASSUME NEW t \in Thread, CheckStatus(t) PROVE AnswerInv'
  BY <1>4, SMTT(30) DEF At, Goto, CheckStatus, Unlock, Throw, Initializing
<1>5. ASSUME NEW t \in Thread, Interrupted(t) PROVE AnswerInv'
  BY <1>5, SMTT(30) DEF At, Goto, Interrupted
<1>6. ASSUME NEW t \in Thread, Relock(t) PROVE AnswerInv'
  BY <1>6, SMTT(30) DEF At, Goto, Relock, Lock
<1>7. ASSUME NEW t \in Thread, WaitEnds(t) PROVE AnswerInv'
  BY <1>7, SMTT(30) DEF At, Goto, WaitEnds, Throw
<1>8. ASSUME NEW t \in Thread, PrepareClass(t) PROVE AnswerInv'
  BY <1>8, SMTT(30) DEF At, Goto, PrepareClass, Fail, SetStatus, Throw
<1>9. ASSUME NEW t \in Thread, BeginInit(t) PROVE AnswerInv'
  BY <1>9, SMTT(30) DEF At, Goto, BeginInit, SetStatus, Unlock
<1>10. ASSUME NEW t \in Thread, InitSuper(t) PROVE AnswerInv'
  BY <1>10, SMTT(30) DEF At, Goto, InitSuper, SuperMissing
<1>11. ASSUME NEW t \in Thread, SuperReady(t) PROVE AnswerInv'
  BY <1>11, SMTT(30) DEF At, Goto, SuperReady, RunClinit
<1>12. ASSUME NEW t \in Thread, Catch(t) PROVE AnswerInv'
  BY <1>12, SMTT(30) DEF At, Goto, Catch
<1>13. ASSUME NEW t \in Thread, EndClinit(t) PROVE AnswerInv'
  BY <1>13, SMTT(30) DEF At, Goto, EndClinit
<1>14. ASSUME NEW t \in Thread, FinishInit(t) PROVE AnswerInv'
  BY <1>14, SMTT(30) DEF At, Goto, FinishInit, Lock, SetStatus, NotifyAll
<1>15. ASSUME NEW t \in Thread, FailSuper(t) PROVE AnswerInv'
  BY <1>15, SMTT(30) DEF At, Goto, FailSuper, SetStatus
<1>16. ASSUME NEW t \in Thread, NotifyFailed(t) PROVE AnswerInv'
  BY <1>16, SMTT(30) DEF At, Goto, NotifyFailed, Lock, NotifyAll
<1>17. ASSUME NEW t \in Thread, UnlockClass(t) PROVE AnswerInv'
  BY <1>17, SMTT(30) DEF At, Goto, UnlockClass, Unlock
<1>18. ASSUME NEW t \in Thread, ReturnToCaller(t) PROVE AnswerInv'
  BY <1>18, SMTT(30) DEF At, Goto, ReturnToCaller, Tell, Succeeded
<1>19. ASSUME NEW t \in Thread, ReturnToClinit(t) PROVE AnswerInv'
  BY <1>19, SMTT(30) DEF At, Goto, ReturnToClinit, Tell, Succeeded
<1>20. ASSUME NEW t \in Thread, ReturnToSub(t) PROVE AnswerInv'
  BY <1>20, SMTT(30) DEF At, Goto, ReturnToSub, Tell, Succeeded, RunClinit
<1> QED
  BY <1>u, <1>1, <1>2, <1>3, <1>4, <1>5, <1>6, <1>7, <1>8, <1>9, <1>10, <1>11, <1>12,
     <1>13, <1>14, <1>15, <1>16, <1>17, <1>18, <1>19, <1>20
  DEF Next, Continue, Acquire, Return

\* The two hold in every reachable state.
LEMMA AnswerInvariant == Spec => []AnswerInv
<1>1. Init => AnswerInv
  BY DEF Init, AnswerInv, Answering, Quiet
<1> QED
  BY <1>1, InitInvariant, AnswerStep, PTL DEF Spec

\* A call of dvmInitClass that is about to return false has an exception
\* pending, and one that is about to return true has none.
THEOREM FailureThrown == Spec => []FailureIsThrown
<1>1. AnswerInv => FailureIsThrown
  BY DEF AnswerInv, Answering, FailureIsThrown
<1> QED
  BY <1>1, AnswerInvariant, PTL

\* No two callers were ever told different final results for one class.
THEOREM ViewsAgree == Spec => []ConsistentView
<1>1. AnswerInv => ConsistentView
  BY DEF AnswerInv, ConsistentView
<1> QED
  BY <1>1, AnswerInvariant, PTL

\* Nobody sleeps on a class whose initialization is over, unless the thread
\* that stored the error without the monitor has yet to take it and notify.
THEOREM SleepersAreCaredFor == Spec => []SleepersHaveAnInitializer
<1> USE ClassAssumption DEF ClassAssumption
<1>1. Init => SleepersHaveAnInitializer
  BY DEF Init, SleepersHaveAnInitializer
<1>2. InitInv /\ SleepersHaveAnInitializer /\ [Next]_vars => SleepersHaveAnInitializer'
  <2> DEFINE Goal == SleepersHaveAnInitializer'
  <2> SUFFICES ASSUME InitInv, SleepersHaveAnInitializer, [Next]_vars PROVE Goal
    OBVIOUS
  <2>i. TypeOK /\ ChainInv /\ PhaseInv /\ ProgressKept
    BY ProgressStep DEF InitInv
  <2> USE <2>i DEF TypeOK, ChainInv, PhaseInv, ProgressKept, SleepersHaveAnInitializer
  <2> USE DEF Initializing, InProgress, vars, classVars
  <2>u. CASE UNCHANGED vars
    BY <2>u
<2>1. ASSUME NEW t \in Thread, NEW c \in Class, CallInit(t, c) PROVE Goal
    BY <2>1, SMTT(30) DEF At, Goto, CallInit
<2>2. ASSUME NEW t \in Thread, LockClass(t) PROVE Goal
    BY <2>2, SMTT(30) DEF At, Goto, LockClass, Lock
<2>3. ASSUME NEW t \in Thread, VerifyClass(t) PROVE Goal
    BY <2>3, SMTT(30) DEF At, Goto, VerifyClass, Fail, SetStatus, Throw
<2>4. ASSUME NEW t \in Thread, CheckStatus(t) PROVE Goal
    BY <2>4, SMTT(30) DEF At, Goto, CheckStatus, Unlock, Throw, Initializing
<2>5. ASSUME NEW t \in Thread, Interrupted(t) PROVE Goal
    BY <2>5, SMTT(30) DEF At, Goto, Interrupted
<2>6. ASSUME NEW t \in Thread, Relock(t) PROVE Goal
    BY <2>6, SMTT(30) DEF At, Goto, Relock, Lock
<2>7. ASSUME NEW t \in Thread, WaitEnds(t) PROVE Goal
    BY <2>7, SMTT(30) DEF At, Goto, WaitEnds, Throw
<2>8. ASSUME NEW t \in Thread, PrepareClass(t) PROVE Goal
    BY <2>8, SMTT(30) DEF At, Goto, PrepareClass, Fail, SetStatus, Throw
<2>9. ASSUME NEW t \in Thread, BeginInit(t) PROVE Goal
    BY <2>9, SMTT(30) DEF At, Goto, BeginInit, SetStatus, Unlock
<2>10. ASSUME NEW t \in Thread, InitSuper(t) PROVE Goal
    BY <2>10, SMTT(30) DEF At, Goto, InitSuper, SuperMissing
<2>11. ASSUME NEW t \in Thread, SuperReady(t) PROVE Goal
    BY <2>11, SMTT(30) DEF At, Goto, SuperReady, RunClinit
<2>12. ASSUME NEW t \in Thread, Catch(t) PROVE Goal
    BY <2>12, SMTT(30) DEF At, Goto, Catch
<2>13. ASSUME NEW t \in Thread, EndClinit(t) PROVE Goal
    BY <2>13, SMTT(30) DEF At, Goto, EndClinit
<2>14. ASSUME NEW t \in Thread, FinishInit(t) PROVE Goal
    BY <2>14, SMTT(30) DEF At, Goto, FinishInit, Lock, SetStatus, NotifyAll
<2>15. ASSUME NEW t \in Thread, FailSuper(t) PROVE Goal
    BY <2>15, SMTT(30) DEF At, Goto, FailSuper, SetStatus
<2>16. ASSUME NEW t \in Thread, NotifyFailed(t) PROVE Goal
    BY <2>16, SMTT(30) DEF At, Goto, NotifyFailed, Lock, NotifyAll
<2>17. ASSUME NEW t \in Thread, UnlockClass(t) PROVE Goal
    BY <2>17, SMTT(30) DEF At, Goto, UnlockClass, Unlock
<2>18. ASSUME NEW t \in Thread, ReturnToCaller(t) PROVE Goal
    BY <2>18, SMTT(30) DEF At, Goto, ReturnToCaller, Tell, Succeeded
<2>19. ASSUME NEW t \in Thread, ReturnToClinit(t) PROVE Goal
    BY <2>19, SMTT(30) DEF At, Goto, ReturnToClinit, Tell, Succeeded
<2>20. ASSUME NEW t \in Thread, ReturnToSub(t) PROVE Goal
    BY <2>20, SMTT(30) DEF At, Goto, ReturnToSub, Tell, Succeeded, RunClinit
  <2> QED
    BY <2>u, <2>1, <2>2, <2>3, <2>4, <2>5, <2>6, <2>7, <2>8, <2>9, <2>10, <2>11, <2>12,
       <2>13, <2>14, <2>15, <2>16, <2>17, <2>18, <2>19, <2>20
    DEF Next, Continue, Acquire, Return
<1> QED
  BY <1>1, <1>2, InitInvariant, PTL DEF Spec

-----------------------------------------------------------------------------
(* Whose superclass is ready.  The classes a thread has in progress form a *)
(* stack: below[c] are those under c.  A superclass that was not ready     *)
(* when its subclass got to the static initializer is one of them, and     *)
(* cannot end before.                                                      *)

IsStack(below) ==
  /\ \A c \in Class : status[c] = "INITIALIZING" =>
       /\ below[c] = IF outer[c] = NoClass THEN {} ELSE below[outer[c]] \cup {outer[c]}
       /\ c \notin below[c]
       /\ \A d \in below[c] : Initializing(initThread[c], d) /\ below[d] \subseteq below[c]
       /\ phase[c] = "clinit" /\ SuperMissing(c) => Super[c] \in below[c] \cup {c}
  /\ \A t \in Thread, c \in Class : Initializing(t, c) =>
       top[t] # NoClass /\ c \in below[top[t]] \cup {top[t]}

StackInv == \E below \in [Class -> SUBSET Class] : IsStack(below)

\* A class that waits for its superclass has called for that and nothing else.
CallInv ==
  /\ \A t \in Thread :
       /\ at[t] = "run" => top[t] = NoClass
       /\ top[t] # NoClass /\ phase[top[t]] = "super" =>
            at[t] \in {"super", "superFailed"} \/ cls[t] = Super[top[t]]
  /\ \A c \in Class :
       status[c] = "INITIALIZING" /\ outer[c] # NoClass /\ phase[outer[c]] = "super" =>
         c = Super[outer[c]]

\* Every step keeps what is called for.
LEMMA CallStep == InitInv /\ CallInv /\ [Next]_vars => CallInv'
<1> USE ClassAssumption DEF ClassAssumption
<1> SUFFICES ASSUME InitInv, CallInv, [Next]_vars PROVE CallInv'
  OBVIOUS
<1>k. ProgressKept
  BY ProgressStep
<1>i. TypeOK /\ ChainInv /\ PhaseInv /\ TypeOK'
  BY TypeStep DEF InitInv
<1> USE <1>i, <1>k DEF ProgressKept, TypeOK, ChainInv, PhaseInv, CallInv
<1> USE DEF Status, Point, HasMonitor, InProgress, Initializing
<1> USE DEF vars, classVars, history
<1>u. CASE UNCHANGED vars
  BY <1>u
<1>1. ASSUME NEW t \in Thread, NEW c \in Class, CallInit(t, c) PROVE CallInv'
  BY <1>1, SMTT(30) DEF At, Goto, CallInit
<1>2. ASSUME NEW t \in Thread, LockClass(t) PROVE CallInv'
  BY <1>2, SMTT(30) DEF At, Goto, LockClass, Lock
<1>3. ASSUME NEW t \in Thread, VerifyClass(t) PROVE CallInv'
  BY <1>3, SMTT(30) DEF At, Goto, VerifyClass, Fail, SetStatus, Throw
<1>4. ASSUME NEW t \in Thread, CheckStatus(t) PROVE CallInv'
  BY <1>4, SMTT(30) DEF At, Goto, CheckStatus, Unlock, Throw, Initializing
<1>5. ASSUME NEW t \in Thread, Interrupted(t) PROVE CallInv'
  BY <1>5, SMTT(30) DEF At, Goto, Interrupted
<1>6. ASSUME NEW t \in Thread, Relock(t) PROVE CallInv'
  BY <1>6, SMTT(30) DEF At, Goto, Relock, Lock
<1>7. ASSUME NEW t \in Thread, WaitEnds(t) PROVE CallInv'
  BY <1>7, SMTT(30) DEF At, Goto, WaitEnds, Throw
<1>8. ASSUME NEW t \in Thread, PrepareClass(t) PROVE CallInv'
  BY <1>8, SMTT(30) DEF At, Goto, PrepareClass, Fail, SetStatus, Throw
<1>9. ASSUME NEW t \in Thread, BeginInit(t) PROVE CallInv'
  BY <1>9, SMTT(30) DEF At, Goto, BeginInit, SetStatus, Unlock
<1>10. ASSUME NEW t \in Thread, InitSuper(t) PROVE CallInv'
  BY <1>10, SMTT(30) DEF At, Goto, InitSuper, SuperMissing
<1>11. ASSUME NEW t \in Thread, SuperReady(t) PROVE CallInv'
  BY <1>11, SMTT(30) DEF At, Goto, SuperReady, RunClinit
<1>12. ASSUME NEW t \in Thread, Catch(t) PROVE CallInv'
  BY <1>12, SMTT(30) DEF At, Goto, Catch
<1>13. ASSUME NEW t \in Thread, EndClinit(t) PROVE CallInv'
  BY <1>13, SMTT(30) DEF At, Goto, EndClinit
<1>14. ASSUME NEW t \in Thread, FinishInit(t) PROVE CallInv'
  BY <1>14, SMTT(30) DEF At, Goto, FinishInit, Lock, SetStatus, NotifyAll
<1>15. ASSUME NEW t \in Thread, FailSuper(t) PROVE CallInv'
  BY <1>15, SMTT(30) DEF At, Goto, FailSuper, SetStatus
<1>16. ASSUME NEW t \in Thread, NotifyFailed(t) PROVE CallInv'
  BY <1>16, SMTT(30) DEF At, Goto, NotifyFailed, Lock, NotifyAll
<1>17. ASSUME NEW t \in Thread, UnlockClass(t) PROVE CallInv'
  BY <1>17, SMTT(30) DEF At, Goto, UnlockClass, Unlock
<1>18. ASSUME NEW t \in Thread, ReturnToCaller(t) PROVE CallInv'
  BY <1>18, SMTT(30) DEF At, Goto, ReturnToCaller, Tell, Succeeded
<1>19. ASSUME NEW t \in Thread, ReturnToClinit(t) PROVE CallInv'
  BY <1>19, SMTT(30) DEF At, Goto, ReturnToClinit, Tell, Succeeded
<1>20. ASSUME NEW t \in Thread, ReturnToSub(t) PROVE CallInv'
  BY <1>20, SMTT(30) DEF At, Goto, ReturnToSub, Tell, Succeeded, RunClinit
<1> QED
  BY <1>u, <1>1, <1>2, <1>3, <1>4, <1>5, <1>6, <1>7, <1>8, <1>9, <1>10, <1>11, <1>12,
     <1>13, <1>14, <1>15, <1>16, <1>17, <1>18, <1>19, <1>20
  DEF Next, Continue, Acquire, Return

\* Every step keeps the stacks.
LEMMA StackStep ==
  InitInv /\ AnswerInv /\ CallInv /\ StackInv /\ [Next]_vars => StackInv'
<1> USE ClassAssumption DEF ClassAssumption
<1> SUFFICES ASSUME InitInv, AnswerInv, CallInv, StackInv, [Next]_vars PROVE StackInv'
  OBVIOUS
<1>b. PICK below \in [Class -> SUBSET Class] : IsStack(below)
  BY DEF StackInv
<1>k. ProgressKept
  BY ProgressStep
<1>i. TypeOK /\ ChainInv /\ PhaseInv /\ TypeOK'
  BY TypeStep DEF InitInv
<1> USE <1>i, <1>b DEF TypeOK, ChainInv, PhaseInv, CallInv, AnswerInv, Answering
<1> USE DEF Status, Point, HasMonitor, InProgress, Initializing, SuperMissing, IsStack
<1> USE DEF vars, classVars, history
<1>u. CASE UNCHANGED vars
  <2>1. IsStack(below)'
    BY <1>u
  <2> QED
    BY <2>1 DEF StackInv
<1>1. ASSUME NEW t \in Thread, NEW c \in Class, CallInit(t, c) PROVE StackInv'
  <2>1. IsStack(below)'
    BY <1>1, SMTT(30) DEF At, Goto, CallInit
  <2> QED
    BY <2>1 DEF StackInv
<1>2. ASSUME NEW t \in Thread, LockClass(t) PROVE StackInv'
  <2>1. IsStack(below)'
    BY <1>2, SMTT(30) DEF At, Goto, LockClass, Lock
  <2> QED
    BY <2>1 DEF StackInv
<1>3. ASSUME NEW t \in Thread, VerifyClass(t) PROVE StackInv'
  <2>1. IsStack(below)'
    BY <1>3, SMTT(30) DEF At, Goto, VerifyClass, Fail, SetStatus, Throw
  <2> QED
    BY <2>1 DEF StackInv
<1>4. ASSUME NEW t \in Thread, CheckStatus(t) PROVE StackInv'
  <2>1. IsStack(below)'
    BY <1>4, SMTT(30) DEF At, Goto, CheckStatus, Unlock, Throw, Initializing
  <2> QED
    BY <2>1 DEF StackInv
<1>5. ASSUME NEW t \in Thread, Interrupted(t) PROVE StackInv'
  <2>1. IsStack(below)'
    BY <1>5, SMTT(30) DEF At, Goto, Interrupted
  <2> QED
    BY <2>1 DEF StackInv
<1>6. ASSUME NEW t \in Thread, Relock(t) PROVE StackInv'
  <2>1. IsStack(below)'
    BY <1>6, SMTT(30) DEF At, Goto, Relock, Lock
  <2> QED
    BY <2>1 DEF StackInv
<1>7. ASSUME NEW t \in Thread, WaitEnds(t) PROVE StackInv'
  <2>1. IsStack(below)'
    BY <1>7, SMTT(30) DEF At, Goto, WaitEnds, Throw
  <2> QED
    BY <2>1 DEF StackInv
<1>8. ASSUME NEW t \in Thread, PrepareClass(t) PROVE StackInv'
  <2>1. IsStack(below)'
    BY <1>8, SMTT(30) DEF At, Goto, PrepareClass, Fail, SetStatus, Throw
  <2> QED
    BY <2>1 DEF StackInv
<1>9. ASSUME NEW t \in Thread, BeginInit(t) PROVE StackInv'
  <2> DEFINE k == cls[t]
  <2> DEFINE nb == [below EXCEPT ![k] = IF top[t] = NoClass THEN {}
                                        ELSE below[top[t]] \cup {top[t]}]
  <2>1. k \in Class /\ status[k] = "VERIFIED" /\ initThread[k] = t
    BY <1>9 DEF At, BeginInit
  <2>2. /\ status' = [status EXCEPT ![k] = "INITIALIZING"]
        /\ phase' = [phase EXCEPT ![k] = "super"]
        /\ outer' = [outer EXCEPT ![k] = top[t]]
        /\ top' = [top EXCEPT ![t] = k]
        /\ UNCHANGED initThread
    BY <1>9 DEF BeginInit, SetStatus
  <2>3. PICK new \in [Class -> SUBSET Class] :
          /\ new[k] = IF top[t] = NoClass THEN {} ELSE below[top[t]] \cup {top[t]}
          /\ \A d \in Class \ {k} : new[d] = below[d]
    <3>1. nb \in [Class -> SUBSET Class]
      BY <2>1
    <3>2. /\ nb[k] = IF top[t] = NoClass THEN {} ELSE below[top[t]] \cup {top[t]}
          /\ \A d \in Class \ {k} : nb[d] = below[d]
      BY <2>1
    <3> HIDE DEF nb
    <3> QED
      BY <3>1, <3>2
  <2>4. \A d \in Class : status[d] = "INITIALIZING" => d # k /\ new[d] = below[d]
    BY <2>1, <2>3
  <2>5. top[t] # NoClass => Initializing(t, top[t]) /\ top[t] \in Class
    BY <1>9
  <2>6. \A c \in Class : \A d \in below[c] : status[c] = "INITIALIZING" => status[d] = "INITIALIZING"
    OBVIOUS
  <2>7. ASSUME NEW c \in Class, status'[c] = "INITIALIZING"
        PROVE  /\ new[c] = IF outer'[c] = NoClass THEN {} ELSE new[outer'[c]] \cup {outer'[c]}
               /\ c \notin new[c]
               /\ \A d \in new[c] : Initializing(initThread[c], d)' /\ new[d] \subseteq new[c]
               /\ phase'[c] = "clinit" /\ SuperMissing(c)' => Super[c] \in new[c] \cup {c}
    <3>1. CASE c = k
      <4>1. new[c] = IF top[t] = NoClass THEN {} ELSE below[top[t]] \cup {top[t]}
        BY <2>3, <3>1
      <4>2. c \notin new[c]
        BY <2>1, <2>5, <2>6, <3>1, <4>1
      <4>3. \A d \in new[c] : Initializing(t, d) /\ d # k /\ below[d] \subseteq new[c]
        BY <2>1, <2>5, <4>1
      <4> QED
        BY <2>1, <2>2, <2>3, <2>4, <2>5, <3>1, <4>1, <4>2, <4>3
    <3>2. CASE c # k
      <4>1. status[c] = "INITIALIZING" /\ new[c] = below[c] /\ outer'[c] = outer[c]
        BY <2>1, <2>2, <2>4, <2>7, <3>2
      <4>2. \A d \in below[c] : d \in Class /\ status[d] = "INITIALIZING" /\ new[d] = below[d]
        BY <2>4, <2>6, <4>1
      <4>3. outer[c] # NoClass => outer[c] \in below[c]
        BY <4>1
      <4>4. SuperMissing(c)' => SuperMissing(c)
        BY <2>1, <2>2
      <4> QED
        BY <2>1, <2>2, <3>2, <4>1, <4>2, <4>3, <4>4
    <3> QED
      BY <3>1, <3>2
  <2>8. ASSUME NEW u \in Thread, NEW c \in Class, Initializing(u, c)'
        PROVE  top'[u] # NoClass /\ c \in new[top'[u]] \cup {top'[u]}
    <3>1. CASE c = k
      BY <2>1, <2>2, <2>8, <3>1
    <3>2. CASE c # k /\ u = t
      BY <2>1, <2>2, <2>3, <2>5, <2>8, <3>2
    <3>3. CASE c # k /\ u # t
      BY <2>1, <2>2, <2>4, <2>8, <3>3
    <3> QED
      BY <3>1, <3>2, <3>3
  <2>9. IsStack(new)'
    BY <2>7, <2>8
  <2> QED
    BY <2>3, <2>9 DEF StackInv
<1>10. ASSUME NEW t \in Thread, InitSuper(t) PROVE StackInv'
  <2>1. IsStack(below)'
    BY <1>10, SMTT(30) DEF At, Goto, InitSuper, SuperMissing
  <2> QED
    BY <2>1 DEF StackInv
<1>11. ASSUME NEW t \in Thread, SuperReady(t) PROVE StackInv'
  <2>1. IsStack(below)'
    BY <1>11, SMTT(30) DEF At, Goto, SuperReady, RunClinit
  <2> QED
    BY <2>1 DEF StackInv
<1>12. ASSUME NEW t \in Thread, Catch(t) PROVE StackInv'
  <2>1. IsStack(below)'
    BY <1>12, SMTT(30) DEF At, Goto, Catch
  <2> QED
    BY <2>1 DEF StackInv
<1>13. ASSUME NEW t \in Thread, EndClinit(t) PROVE StackInv'
  <2>1. IsStack(below)'
    BY <1>13, SMTT(30) DEF At, Goto, EndClinit
  <2> QED
    BY <2>1 DEF StackInv
<1>14. ASSUME NEW t \in Thread, FinishInit(t) PROVE StackInv'
  <2> DEFINE k == cls[t]
  <2>1. k \in Class /\ top[t] = k /\ Initializing(t, k)
    BY <1>14 DEF At, FinishInit
  <2>2. /\ status'[k] \in {"INITIALIZED", "ERROR"}
        /\ \A c \in Class \ {k} : status'[c] = status[c]
        /\ top' = [top EXCEPT ![t] = outer[k]]
        /\ UNCHANGED <<initThread, phase, outer>>
    BY <1>14, <2>1 DEF FinishInit, SetStatus
  <2>3. \A c \in Class : Initializing(t, c) /\ c # k => k \notin below[c]
    BY <2>1
  <2>4. \A c \in Class : status[c] = "INITIALIZING" => k \notin below[c]
    BY <2>1, <2>3
  <2>5. ASSUME NEW c \in Class, status'[c] = "INITIALIZING"
        PROVE  /\ c # k /\ status[c] = "INITIALIZING"
               /\ \A d \in below[c] : Initializing(initThread[c], d)'
               /\ phase[c] = "clinit" /\ SuperMissing(c)' => Super[c] \in below[c] \cup {c}
    <3>1. c # k /\ status[c] = "INITIALIZING"
      BY <2>1, <2>2, <2>5
    <3>2. \A d \in below[c] : Initializing(initThread[c], d)'
      BY <2>2, <2>4, <3>1
    <3>3. SuperMissing(c)' => SuperMissing(c) \/ Super[c] = k
      BY <2>2
    <3>4. SuperMissing(c)' => SuperMissing(c)
      BY <2>1, <3>3
    <3> QED
      BY <3>1, <3>2, <3>4
  <2>6. ASSUME NEW u \in Thread, NEW c \in Class, Initializing(u, c)'
        PROVE  top'[u] # NoClass /\ c \in below[top'[u]] \cup {top'[u]}
    <3>1. Initializing(u, c) /\ c # k
      BY <2>1, <2>2, <2>6
    <3>2. CASE u = t
      <4>1. c \in below[k]
        BY <2>1, <3>1, <3>2
      <4> QED
        BY <2>1, <2>2, <3>2, <4>1
    <3>3. CASE u # t
      BY <2>2, <3>1, <3>3
    <3> QED
      BY <3>2, <3>3
  <2>7. IsStack(below)'
    BY <2>2, <2>5, <2>6
  <2> QED
    BY <2>7 DEF StackInv
<1>15. ASSUME NEW t \in Thread, FailSuper(t) PROVE StackInv'
  <2> DEFINE k == cls[t]
  <2>1. k \in Class /\ top[t] = k /\ Initializing(t, k)
    BY <1>15 DEF At, FailSuper
  <2>2. /\ status'[k] \in {"INITIALIZED", "ERROR"}
        /\ \A c \in Class \ {k} : status'[c] = status[c]
        /\ top' = [top EXCEPT ![t] = outer[k]]
        /\ UNCHANGED <<initThread, phase, outer>>
    BY <1>15, <2>1 DEF FailSuper, SetStatus
  <2>3. \A c \in Class : Initializing(t, c) /\ c # k => k \notin below[c]
    BY <2>1
  <2>4. \A c \in Class : status[c] = "INITIALIZING" => k \notin below[c]
    BY <2>1, <2>3
  <2>5. ASSUME NEW c \in Class, status'[c] = "INITIALIZING"
        PROVE  /\ c # k /\ status[c] = "INITIALIZING"
               /\ \A d \in below[c] : Initializing(initThread[c], d)'
               /\ phase[c] = "clinit" /\ SuperMissing(c)' => Super[c] \in below[c] \cup {c}
    <3>1. c # k /\ status[c] = "INITIALIZING"
      BY <2>1, <2>2, <2>5
    <3>2. \A d \in below[c] : Initializing(initThread[c], d)'
      BY <2>2, <2>4, <3>1
    <3>3. SuperMissing(c)' => SuperMissing(c) \/ Super[c] = k
      BY <2>2
    <3>4. SuperMissing(c)' => SuperMissing(c)
      BY <2>1, <3>3
    <3> QED
      BY <3>1, <3>2, <3>4
  <2>6. ASSUME NEW u \in Thread, NEW c \in Class, Initializing(u, c)'
        PROVE  top'[u] # NoClass /\ c \in below[top'[u]] \cup {top'[u]}
    <3>1. Initializing(u, c) /\ c # k
      BY <2>1, <2>2, <2>6
    <3>2. CASE u = t
      <4>1. c \in below[k]
        BY <2>1, <3>1, <3>2
      <4> QED
        BY <2>1, <2>2, <3>2, <4>1
    <3>3. CASE u # t
      BY <2>2, <3>1, <3>3
    <3> QED
      BY <3>2, <3>3
  <2>7. IsStack(below)'
    BY <2>2, <2>5, <2>6
  <2> QED
    BY <2>7 DEF StackInv
<1>16. ASSUME NEW t \in Thread, NotifyFailed(t) PROVE StackInv'
  <2>1. IsStack(below)'
    BY <1>16, SMTT(30) DEF At, Goto, NotifyFailed, Lock, NotifyAll
  <2> QED
    BY <2>1 DEF StackInv
<1>17. ASSUME NEW t \in Thread, UnlockClass(t) PROVE StackInv'
  <2>1. IsStack(below)'
    BY <1>17, SMTT(30) DEF At, Goto, UnlockClass, Unlock
  <2> QED
    BY <2>1 DEF StackInv
<1>18. ASSUME NEW t \in Thread, ReturnToCaller(t) PROVE StackInv'
  <2>1. IsStack(below)'
    BY <1>18, SMTT(30) DEF At, Goto, ReturnToCaller, Tell, Succeeded
  <2> QED
    BY <2>1 DEF StackInv
<1>19. ASSUME NEW t \in Thread, ReturnToClinit(t) PROVE StackInv'
  <2>1. IsStack(below)'
    BY <1>19, SMTT(30) DEF At, Goto, ReturnToClinit, Tell, Succeeded
  <2> QED
    BY <2>1 DEF StackInv
<1>20. ASSUME NEW t \in Thread, ReturnToSub(t) PROVE StackInv'
  <2>1. IsStack(below)'
    BY <1>20, SMTT(30) DEF At, Goto, ReturnToSub, Tell, Succeeded, RunClinit
  <2> QED
    BY <2>1 DEF StackInv
<1> QED
  BY <1>u, <1>1, <1>2, <1>3, <1>4, <1>5, <1>6, <1>7, <1>8, <1>9, <1>10, <1>11, <1>12,
     <1>13, <1>14, <1>15, <1>16, <1>17, <1>18, <1>19, <1>20
  DEF Next, Continue, Acquire, Return

\* A static initializer runs only when the superclass is initialized, or when
\* this thread is in the middle of initializing that further out.
THEOREM SuperIsFirst == Spec => []SuperFirst
<1>1. Init => CallInv /\ StackInv
  <2> SUFFICES ASSUME Init PROVE CallInv /\ StackInv
    OBVIOUS
  <2>1. CallInv
    BY ClassAssumption DEF Init, CallInv, ClassAssumption
  <2>2. IsStack([c \in Class |-> {}])
    BY ClassAssumption DEF Init, IsStack, Initializing, ClassAssumption
  <2> QED
    BY <2>1, <2>2 DEF StackInv
<1>2. InitInv /\ StackInv => SuperFirst
  <2> SUFFICES ASSUME InitInv, StackInv, NEW t \in Thread, at[t] = "clinit",
                      SuperMissing(cls[t])
               PROVE  Initializing(t, Super[cls[t]])
    BY DEF SuperFirst
  <2>1. PICK below \in [Class -> SUBSET Class] : IsStack(below)
    BY DEF StackInv
  <2>2. cls[t] \in Class /\ Initializing(t, cls[t]) /\ phase[cls[t]] = "clinit"
    BY ClassAssumption
    DEF ClassAssumption, InitInv, TypeOK, ChainInv, PhaseInv, InProgress
  <2> QED
    BY <2>1, <2>2 DEF IsStack, Initializing
<1> QED
  BY <1>1, <1>2, InitInvariant, AnswerInvariant, CallStep, StackStep, PTL DEF Spec

=============================================================================
