--------------------------- MODULE MCJsCallbacks ---------------------------
(* Small instances of JsCallbacks for TLC. *)
EXTENDS JsCallbacks, TLC

Symmetry == Permutations(Addr)
=============================================================================
