------------------------- MODULE MCMutableVariables -------------------------
(* A function that uses a mutable variable and no inlined method. *)
EXTENDS MutableVariables

MCPrograms == {[backend |-> "wasm", methods |-> {}]}
=============================================================================
