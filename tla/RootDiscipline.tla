-------------------------- MODULE RootDiscipline ---------------------------
(***************************************************************************)
(* Why what the translators emit (CompiledRoots) uses nothing freed: a     *)
(* check of the emitted code, operation by operation, and the invariant    *)
(* that holds of the methods that pass it.                                 *)
(*                                                                         *)
(* The check knows of each register whether its object is allocated        *)
(* (live), and which places keep the object, directly or through other     *)
(* objects, over a collection (holds).                                     *)
(***************************************************************************)
EXTENDS CompiledRoots, Integers

\* The places: the slots of the function's values, the slot of the result,
\* and the slots 1, 2, ... of the frame that the method pushed.
Values == -1
ResultSlot == 0
OwnPlaces == {Values, ResultSlot}

\* A method begins with operands in registers, and nothing in the others.
Entry ==
  [ live  |-> Register,
    holds |-> [p \in OwnPlaces |-> IF p = Values THEN Register ELSE {}] ]

HeldRegisters(f) == UNION {f.holds[p] : p \in DOMAIN f.holds}

\* After a collection only what is held is live, and what was made or returned
\* after it.
Collected(f, made) ==
  [ live  |-> HeldRegisters(f) \union made,
    holds |-> [p \in DOMAIN f.holds |-> f.holds[p] \ made] ]

\* The registers that have some property, once "to" has it exactly if "from" has.
Copied(R, from, to) == (R \ {to}) \union {r \in {to} : from \in R}

\* ... once two registers have changed places.
Swapped(R, a, b) ==
  (R \ {a, b}) \union {r \in {b} : a \in R} \union {r \in {a} : b \in R}

WrittenTo(f, slot, from) ==
  [ live  |-> f.live,
    holds |-> [p \in DOMAIN f.holds |->
                 IF p = slot THEN {from} ELSE f.holds[p]] ]

\* What the check knows after an operation, when the next one follows.
After(op, f) ==
  CASE op.op \in {"alloc", "call"} -> Collected(f, {op.to})
    [] op.op = "ask" -> Collected(f, {})
    [] op.op \in {"load", "move", "each"} ->
         [ live  |-> Copied(f.live, op.from, op.to),
           holds |-> [p \in DOMAIN f.holds |->
                        Copied(f.holds[p], op.from, op.to)] ]
    [] op.op = "swap" ->
         [ live  |-> Swapped(f.live, op.from, op.to),
           holds |-> [p \in DOMAIN f.holds |->
                        Swapped(f.holds[p], op.from, op.to)] ]
    [] op.op = "rootResult" -> WrittenTo(f, ResultSlot, op.from)
    [] op.op = "rootAt" -> WrittenTo(f, op.slot, op.from)
    [] op.op = "push" ->
         [ live  |-> f.live,
           holds |-> [p \in OwnPlaces \union 1 .. op.slots |->
                        IF p \in OwnPlaces THEN f.holds[p] ELSE {}] ]
    [] op.op = "pop" ->
         [ live  |-> f.live, holds |-> [p \in OwnPlaces |-> f.holds[p]] ]
    [] OTHER -> f

\* Where an operation may leave for, with what is known there.
Successors(op, pc, f) ==
  (IF op.op \in {"goto", "result", "end"} THEN {}
   ELSE {<<pc + 1, After(op, f)>>})
  \union (IF op.op \in {"each", "branch", "goto"} THEN {<<op.exit, f>>} ELSE {})

\* The operands of an operation are live, and so is what it roots, in a slot
\* that is there; a method has one frame at a time, and has popped it when it
\* ends.
Admits(op, f) ==
  /\ op.reads \subseteq f.live
  /\ op.op \in {"alloc", "load", "move", "swap", "each", "call"} =>
       op.to \in Register
  /\ op.op \in {"move", "swap"} => op.from \in Register
  /\ op.op \in {"copy", "load", "each", "store", "rootResult", "rootAt", "result"} =>
       op.from \in f.live
  /\ op.op \in {"copy", "store"} => op.into \in f.live
  /\ op.op \in {"call", "ask"} => \A k \in DOMAIN op.args : op.args[k] \in f.live
  /\ op.op = "push" => op.slots \in Nat \ {0} /\ DOMAIN f.holds = OwnPlaces
  /\ op.op = "rootAt" => op.slot \in DOMAIN f.holds \ OwnPlaces
  /\ op.op = "pop" => DOMAIN f.holds # OwnPlaces
  /\ op.op \in {"result", "end"} => DOMAIN f.holds = OwnPlaces

\* What is known where, along all paths of twice as many operations as there are.
Explored(code) ==
  LET after[n \in Nat] ==
        IF n = 0 THEN {<<1, Entry>>}
        ELSE LET seen == after[n - 1]
                 goesOn == {e \in seen : /\ e[1] \in DOMAIN code
                                         /\ Admits(code[e[1]], e[2])}
             IN  seen \union
                 UNION {Successors(code[e[1]], e[1], e[2]) : e \in goesOn}
  IN  after[2 * Len(code)]

\* Every path stays in the code, where K has what is known, and every operation
\* on it is admitted.
Certifies(K, code) ==
  /\ <<1, Entry>> \in K
  /\ \A e \in K :
       /\ e[1] \in DOMAIN code \intersect (Nat \ {0})
       /\ Admits(code[e[1]], e[2])
       /\ Successors(code[e[1]], e[1], e[2]) \subseteq K

PassesCheck(code) == Certifies(Explored(code), code)

ASSUME MethodsPassCheck ==
  \A p \in Programs : \A m \in p.methods : PassesCheck(Translators[p.backend][m])

-----------------------------------------------------------------------------
(* The inductive invariant.                                                *)

HeapSound(h) ==
  /\ DOMAIN h \subseteq Obj
  /\ \A o \in DOMAIN h : h[o] \subseteq DOMAIN h \union {None}

FramesSound(h, fr) ==
  /\ fr \in Seq({fr[k] : k \in DOMAIN fr})
  /\ \A k \in DOMAIN fr : \A s \in DOMAIN fr[k] :
       fr[k][s] \in DOMAIN h \union {None}

\* The newest frame of a function.
Top(f) == IF f.inner = 0 THEN f.frame ELSE f.inner

SlotNumbers(S) == S # {} /\ S \subseteq Nat \ {0}

\* The frames of a function are there, and its values are in its slots.
Placed(fr, f) ==
  /\ f.frame \in DOMAIN fr
  /\ DOMAIN fr[f.frame] = Value
  /\ f.inner # 0 => /\ f.inner = f.frame + 1
                    /\ f.inner \in DOMAIN fr
                    /\ SlotNumbers(DOMAIN fr[f.inner])
  /\ \A v \in Value : f.value[v] \in {None, fr[f.frame][v]}
  /\ f.pc = 0 => f.inner = 0

\* The functions' frames are on the shadow stack as the functions are on
\* theirs.
Stacked(fr, st) ==
  /\ st # << >>
  /\ Len(fr) = Top(st[Len(st)])
  /\ \A k \in DOMAIN st :
       /\ Placed(fr, st[k])
       /\ k # Len(st) => st[k].pc > 0 /\ st[k + 1].frame = Top(st[k]) + 1
  /\ \A k, l \in DOMAIN st : k < l => Top(st[k]) < st[l].frame

\* What is in a place, in the frames fr.
Slots(fr, f, p) ==
  IF p = Values THEN {fr[f.frame][v] : v \in Value \ {f.result}}
  ELSE IF p = ResultSlot THEN {fr[f.frame][f.result]}
  ELSE {fr[f.inner][p]}

Places(fr, f) ==
  OwnPlaces \union (IF f.inner = 0 THEN {} ELSE DOMAIN fr[f.inner])

\* What the check knows is true of the registers.
Describes(fact, h, fr, f) ==
  /\ DOMAIN fact.holds = Places(fr, f)
  /\ fact.live \subseteq Register
  /\ \A r \in fact.live : f.register[r] \in DOMAIN h \union {None}
  /\ \A p \in Places(fr, f) :
       /\ fact.holds[p] \subseteq Register
       /\ \A r \in fact.holds[p] :
            f.register[r] \in ReachableIn(h, Slots(fr, f, p)) \union {None}

\* A function waits for one that it called: what is live is held, so that it
\* outlives any collection, but for the register that awaits the result.
Waits(fact, f, call) ==
  /\ call.op \in {"call", "ask"}
  /\ \A r \in fact.live : r \in HeldRegisters(fact) \/ f.register[r] = None
  /\ call.op = "call" => call.to \in Register \ HeldRegisters(fact)

\* The check knows where a method is.
Known(h, fr, f, code, waits) ==
  \E e \in Explored(code) :
    /\ e[1] = f.pc
    /\ Describes(e[2], h, fr, f)
    /\ waits => Waits(e[2], f, code[f.pc - 1])

MethodSound(h, fr, f, waits) ==
  f.pc > 0 => /\ f.method \in program.methods
              /\ f.value[f.result] = None
              /\ Known(h, fr, f, Emitted(f.method), waits)

IInv ==
  /\ program \in Programs
  /\ stack \in Seq(Activation)
  /\ HeapSound(heap)
  /\ FramesSound(heap, frames)
  /\ Stacked(frames, stack)
  /\ \A k \in DOMAIN stack : MethodSound(heap, frames, stack[k], k # Len(stack))
=============================================================================
