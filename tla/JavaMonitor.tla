---------------------------- MODULE JavaMonitor ----------------------------
(***************************************************************************)
(* What a Java monitor promises (the comments of vm/Sync.cpp): one owner   *)
(* at a time, recursive; a wait gives the monitor up whole, however often  *)
(* it was entered, and takes it back to the same depth before it returns.  *)
(***************************************************************************)
EXTENDS Naturals

CONSTANTS Thread, NoThread

VARIABLES
  holder,   \* the thread that owns the monitor
  depth,    \* how often it has entered it
  waiting   \* for the threads in wait, the depth they will return to

Init ==
  /\ holder = NoThread /\ depth = 0
  /\ waiting = [t \in Thread |-> 0]

Enter(t) ==
  /\ \/ holder = NoThread /\ waiting[t] = 0
     \/ holder = t
  /\ holder' = t /\ depth' = depth + 1
  /\ UNCHANGED waiting

Exit(t) ==
  /\ holder = t
  /\ depth' = depth - 1
  /\ holder' = IF depth = 1 THEN NoThread ELSE t
  /\ UNCHANGED waiting

Wait(t) ==
  /\ holder = t
  /\ waiting' = [waiting EXCEPT ![t] = depth]
  /\ holder' = NoThread /\ depth' = 0

Return(t) ==
  /\ waiting[t] > 0 /\ holder = NoThread
  /\ holder' = t /\ depth' = waiting[t]
  /\ waiting' = [waiting EXCEPT ![t] = 0]

Next == \E t \in Thread : Enter(t) \/ Exit(t) \/ Wait(t) \/ Return(t)

Spec == Init /\ [][Next]_<<holder, depth, waiting>>

=============================================================================
