-------------------------- MODULE MutableVariables --------------------------
(***************************************************************************)
(* The mutable variables of compiled functions.  "let mut" becomes an      *)
(* Op::Alloca, and every use an Op::Store or Op::Load of it.  The type of  *)
(* the Alloca's result is i64 (phoenix-ir/src/lower_stmt.rs), so neither   *)
(* plan_frame nor assign_gc_root_slots gives the variable a root slot.     *)
(***************************************************************************)
EXTENDS CompiledRoots

CONSTANT Variable  \* the mutable ref-typed variables of a function

VARIABLE contents  \* for each function under way, what its variables hold

Holding == contents[Len(contents)]

VariableInit == Init /\ contents = << [x \in Variable |-> None] >>

StoreVariable(x, u) ==
  /\ Idle
  /\ contents' = [contents EXCEPT ![Len(contents)][x] = Running.value[u]]
  /\ UNCHANGED vars

\* The value that a Load defines has a slot like any other.
LoadVariable(v, x) ==
  /\ Idle
  /\ Defines(v, Holding[x])
  /\ UNCHANGED <<program, heap, contents>>

\* Variables come and go with the functions that have them.
Elsewhere ==
  /\ Next
  /\ contents' = [k \in DOMAIN stack' |->
                    IF k \in DOMAIN contents THEN contents[k]
                    ELSE [x \in Variable |-> None]]

VariableNext ==
  \/ Elsewhere
  \/ \E x \in Variable, v \in Value : StoreVariable(x, v) \/ LoadVariable(v, x)

VariableSpec == VariableInit /\ [][VariableNext]_<<vars, contents>>

\* What a mutable variable holds is allocated for as long as its function
\* runs (wasm/gc_root.rs: "the GC always sees the local's current value").
VariablesLive ==
  \A k \in DOMAIN contents : \A x \in Variable : InUse(contents[k][x])
=============================================================================
