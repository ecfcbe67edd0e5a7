---------------------------- MODULE MCThreadLife ----------------------------
(* Instances of ThreadLife for TLC. *)
EXTENDS ThreadLife

CONSTANTS main, child, native, internal

Nobody == {}
OneChild == {child}
OneNative == {native}
OneInternal == {internal}
=============================================================================
