---------------------------- MODULE MCPhoenixGC ----------------------------
(***************************************************************************)
(* Model-checking instances of PhoenixGC.                                  *)
(***************************************************************************)
EXTENDS PhoenixGC, TLC

Symmetry == Permutations(Addr)
ThreadSymmetry == Permutations(Addr) \union Permutations(Thread)

=============================================================================
