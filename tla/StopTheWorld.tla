---------------------------- MODULE StopTheWorld ----------------------------
(***************************************************************************)
(* What the suspension machinery promises its clients (the notes at the    *)
(* top of vm/Thread.cpp): threads go in and out of managed code as they    *)
(* like until one of them stops the world, and from then on until it       *)
(* resumes the world no other thread is in managed code.                   *)
(***************************************************************************)
CONSTANTS Thread, NoThread

VARIABLES
  managed,   \* the threads that execute managed code
  stopper    \* the thread the world is stopped for

Init == managed \subseteq Thread /\ stopper = NoThread

\* Enter managed code: only while the world is not stopped.
Enter(t) ==
  /\ stopper = NoThread /\ t \notin managed
  /\ managed' = managed \cup {t}
  /\ UNCHANGED stopper

\* Leave it: to native code, to wait, or to sit a stop out.
Leave(t) ==
  /\ t \in managed
  /\ managed' = managed \ {t}
  /\ UNCHANGED stopper

\* The world is stopped for t: nobody is in managed code.
Stop(t) ==
  /\ stopper = NoThread /\ managed = {}
  /\ stopper' = t
  /\ UNCHANGED managed

\* Only the thread that stopped the world lets it go on.
Resume(t) ==
  /\ stopper = t
  /\ stopper' = NoThread
  /\ UNCHANGED managed

Next == \E t \in Thread : Enter(t) \/ Leave(t) \/ Stop(t) \/ Resume(t)

Spec == Init /\ [][Next]_<<managed, stopper>>

=============================================================================
