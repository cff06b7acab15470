-------------------------- MODULE MCCompiledRoots --------------------------
(* Small instances of CompiledRoots for TLC. *)
EXTENDS RootDiscipline, TLC

Program(backend, methods) == [backend |-> backend, methods |-> methods]

\* The native methods that keep an intermediate in no slot.
Unrooted == {"listMap", "listFilter", "listFlatMap", "optionMap", "resultMap"}

\* They are those that the check of RootDiscipline does not pass.
ASSUME UnrootedFailTheCheck ==
  \A m \in DOMAIN Native : PassesCheck(Native[m]) <=> m \notin Unrooted

\* One method at a time, next to pushes, which make lists of several elements.
\* What both back ends emit alike is checked once.
MCPrograms ==
  {Program("wasm", {"listPush", m}) : m \in DOMAIN Wasm}
  \union {Program("native", {"listPush", m}) :
            m \in {n \in DOMAIN Native \ Unrooted : Native[n] # Wasm[n]}}

Symmetry == Permutations(Obj)
=============================================================================
