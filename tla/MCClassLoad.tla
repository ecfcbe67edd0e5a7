---------------------------- MODULE MCClassLoad ----------------------------
(* Instances of ClassLoad for TLC. *)
EXTENDS ClassLoad, TLC

CONSTANTS s, t, u, A, B, C

TwoThreads == {s, t}

\* One of them looks twice, so also for a class that has failed.
OnceOrTwice == (s :> 2) @@ (t :> 1)
ThreeThreads == {s, t, u}
AandB == {A, B}
ABC == {A, B, C}
\* B extends A; C extends B and implements A.
Chain == (A :> <<>>) @@ (B :> <<A>>)
Diamond == (A :> <<>>) @@ (B :> <<A>>) @@ (C :> <<B, A>>)
JustA == {A}
=============================================================================
