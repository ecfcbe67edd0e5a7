------------------------------ MODULE MCGcStop ------------------------------
(* Instances of GcStop for TLC: the threads are model values. *)
EXTENDS GcStop

CONSTANTS a, b, c

AllThreads == {a, b, c}
JustA == {a}
JustB == {b}
JustC == {c}
AandB == {a, b}
Nobody == {}

=============================================================================
