-------------------------- MODULE MCConcurrentMark --------------------------
(* Instances of ConcurrentMark for TLC. *)
EXTENDS ConcurrentMark

JustOne == {1}
JustThree == {3}

\* Weak references behind a finalizable object; a soft reference
\* and a weak table to the same object.
SomeLayouts ==
  { <<"data", "data", "weak", "final">>,
    <<"data", "soft", "data", "none">> }

=============================================================================
