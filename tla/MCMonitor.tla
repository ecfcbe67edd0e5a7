------------------------------ MODULE MCMonitor ------------------------------
(* Instances of Monitor for TLC: the threads are model values. *)
EXTENDS Monitor

CONSTANTS a, b, c

AandB == {a, b}
AllThreads == {a, b, c}
JustA == {a}
JustB == {b}
JustC == {c}
BandC == {b, c}
Nobody == {}

=============================================================================
