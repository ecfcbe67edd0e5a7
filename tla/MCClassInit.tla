---------------------------- MODULE MCClassInit ----------------------------
(* Instances of ClassInit for TLC: a class A, a class B that extends it, and *)
(* a class C; who uses whom differs.                                         *)
EXTENDS ClassInit

CONSTANTS s, t, u, A, B, C

TwoThreads == {s, t}
ThreeThreads == {s, t, u}
AandB == {A, B}
AllClasses == {A, B, C}
JustA == {A}

BextendsA == [c \in Class |-> IF c = B THEN A ELSE NoClass]

\* A's initializer uses its subclass, which in turn starts with A.
AusesB == [c \in Class |-> IF c = A THEN {B} ELSE {}]

\* B's initializer uses C; nobody else uses anybody.
BusesC == [c \in Class |-> IF c = B THEN {C} ELSE {}]

=============================================================================
