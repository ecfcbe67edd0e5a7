----------------------------- MODULE MCClasses -----------------------------
(***************************************************************************)
(* What must come to an end when classes are used: finding and linking     *)
(* them (ClassLoad), and initializing them once they are linked            *)
(* (ClassInit).  The two share no step, so a behaviour is one of one of    *)
(* them, which it picks at its start.                                      *)
(***************************************************************************)
EXTENDS ClassLoad, TLC

CONSTANTS s, t, A, B, C, NoClass

VARIABLES
  use,                                             \* "load" or "initialize"
  initStatus, initThread, monitor, phase, outer, top, cls, at, exception,
  result, runs, beginner, told

TwoThreads == {s, t}

\* One of them looks twice, so also for a class that has failed.
OnceOrTwice == (s :> 2) @@ (t :> 1)
ABC == {A, B, C}
AandB == {A, B}

\* To be linked: B extends A; C extends B and implements A.
Diamond == (A :> <<>>) @@ (B :> <<A>>) @@ (C :> <<B, A>>)

\* To be initialized: B extends A, which may fail, and its initializer uses C.
Clinit == INSTANCE ClassInit WITH
  Class <- {A, B, C},
  Super <- (A :> NoClass) @@ (B :> A) @@ (C :> NoClass),
  Uses <- (A :> {}) @@ (B :> {C}) @@ (C :> {}),
  Faulty <- {A},
  status <- initStatus, owner <- beginner

loadVars == <<table, name, status, owner, waiters, stack, value, calls>>
initVars == <<initStatus, initThread, monitor, phase, outer, top, cls, at,
              exception, result, runs, beginner, told>>
all == <<use, loadVars, initVars>>

Loading(A1) == use = "load" /\ A1 /\ UNCHANGED <<use, initVars>>
Initializing(A1) == use = "initialize" /\ A1 /\ UNCHANGED <<use, loadVars>>

ClassesInit ==
  /\ use \in {"load", "initialize"}
  /\ Init /\ Clinit!Init
  /\ use = "load" => \A c \in ABC : initThread[c] = s

\* The fairness of the two modules.
ClassesFairness == \A u \in Thread :
  /\ WF_all(Loading(Step(u)))
  /\ WF_all(Initializing(Clinit!Continue(u)))
  /\ SF_all(Initializing(Clinit!Acquire(u)))
  /\ SF_all(Initializing(Clinit!EndClinit(u)))

ClassesSpec ==
  /\ ClassesInit
  /\ [][Loading(Next) \/ Initializing(Clinit!Next)]_all
  /\ ClassesFairness

-----------------------------------------------------------------------------
\* A call of dvmInitClass returns, if the hierarchy of its initializers does not
\* wait for itself: whoever initializes the class lets all others go on.
CallsReturn == Clinit!CallsReturn
=============================================================================
