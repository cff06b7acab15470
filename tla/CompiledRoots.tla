--------------------------- MODULE CompiledRoots ---------------------------
(***************************************************************************)
(* How compiled code keeps what it uses alive: the shadow-stack frames     *)
(* that the native back end (crates/phoenix-cranelift/src/translate) and   *)
(* the wasm32-linear back end (crates/phoenix-cranelift/src/wasm) emit,    *)
(* and the methods they inline, whose loops call closures of the program.  *)
(*                                                                         *)
(* A function runs any IR instructions in any order, as the body of a loop *)
(* with arbitrary control flow does.  A method is the code its translator  *)
(* emits (NativeListMap, ...), one emitted operation per step; element     *)
(* counts and order are abstracted, so its loops run for any element any   *)
(* number of times.  The collector is taken for what PhoenixGC promises of *)
(* it: it runs before an allocation, if at all, and frees exactly what no  *)
(* root reaches.                                                           *)
(***************************************************************************)
EXTENDS Naturals, Sequences, FiniteSets

CONSTANTS
  Obj,            \* the payload addresses of the heap
  None,           \* null, or the address of static data such as a literal
  MaxValue,       \* bound: ref-typed values of a function
  MaxDepth,       \* bound: functions under way at once
  MaxFields,      \* bound: references an instruction stores in a new object
  MayDefer,       \* whether an allocation may do without a collection
  Programs        \* the programs: a back end, and the methods one uses

ASSUME RootsAssumption ==
  /\ None \notin Obj
  /\ {MaxValue, MaxDepth, MaxFields} \subseteq Nat \ {0}
  /\ MayDefer \in BOOLEAN

VARIABLES
  program,  \* the program that runs
  heap,     \* the allocated objects, with the references each holds
  frames,   \* the shadow stack: frames of root slots, newest last
  stack     \* the functions under way, innermost last

vars == <<program, heap, frames, stack>>

Value == 1 .. MaxValue
Pointer == Obj \union {None}

-----------------------------------------------------------------------------
(* The operations the translators emit.  They work on registers (values of *)
(* the back end that are no IR values, and so have no slot of their own);  *)
(* "reads" names the registers whose objects an operation uses.            *)

Register == {"recv", "init", "out", "elem", "other", "inner", "fresh"}

Alloc(to) == [op |-> "alloc", to |-> to, reads |-> {}]
Copy(from, into) == [op |-> "copy", from |-> from, into |-> into,
                     reads |-> {from, into}]
Store(from, into) == [op |-> "store", from |-> from, into |-> into,
                      reads |-> {from, into}]
Load(from, to) == [op |-> "load", from |-> from, to |-> to, reads |-> {from}]
Move(from, to) == [op |-> "move", from |-> from, to |-> to, reads |-> {}]
Swap(a, b) == [op |-> "swap", from |-> a, to |-> b, reads |-> {}]
\* The head of a loop over the elements of a list: at the end of the list it
\* leaves for exit.
Each(from, to, exit) == [op |-> "each", from |-> from, to |-> to,
                         exit |-> exit, reads |-> {from}]
\* A branch on something the model abstracts: on, or to exit.
Branch(exit) == [op |-> "branch", exit |-> exit, reads |-> {}]
Goto(exit) == [op |-> "goto", exit |-> exit, reads |-> {}]
\* A call of a closure that returns a reference, or something else.
Call(args, to) == [op |-> "call", args |-> args, to |-> to,
                   reads |-> {args[k] : k \in DOMAIN args}]
Ask(args) == [op |-> "ask", args |-> args,
              reads |-> {args[k] : k \in DOMAIN args}]
\* phx_gc_set_root of the result's slot, and the frames for intermediates.
RootResult(from) == [op |-> "rootResult", from |-> from, reads |-> {}]
PushFrame(n) == [op |-> "push", slots |-> n, reads |-> {}]
RootAt(slot, from) == [op |-> "rootAt", slot |-> slot, from |-> from,
                       reads |-> {}]
PopFrame == [op |-> "pop", reads |-> {}]
\* The instruction ends; its result gets its slot.
Result(from) == [op |-> "result", from |-> from, reads |-> {from}]
End == [op |-> "end", reads |-> {}]

-----------------------------------------------------------------------------
(* The native back end.                                                    *)

NativeListMap ==
  << Alloc("out"), Each("recv", "elem", 6), Call(<<"elem">>, "inner"),
     Store("inner", "out"), Goto(2), Result("out") >>

NativeListFilter ==
  << Alloc("out"), Each("recv", "elem", 7), Ask(<<"elem">>), Branch(2),
     Store("elem", "out"), Goto(2), Result("out") >>

NativeListFind ==
  << Each("recv", "elem", 7), Ask(<<"elem">>), Branch(1), Alloc("out"),
     Store("elem", "out"), Goto(8), Alloc("out"), Result("out") >>

NativeListAnyAll ==
  << Each("recv", "elem", 4), Ask(<<"elem">>), Branch(1), End >>

NativeListReduce ==
  << Move("init", "out"), Each("recv", "elem", 5),
     Call(<<"out", "elem">>, "out"), Goto(2), Result("out") >>

\* phx_list_push_raw: it allocates, and then reads the list it was given and
\* the element; "element" is what reads the latter.
phx_list_push_raw(element) ==
  << Alloc("fresh"), Copy("out", "fresh") >> \o element
    \o << Store("other", "fresh") >>

NativeListFlatMap ==
  << Alloc("out"), Each("recv", "elem", 10), Call(<<"elem">>, "inner"),
     Each("inner", "other", 2) >>
    \o phx_list_push_raw(<<>>)
    \o << Move("fresh", "out"), Goto(4), Result("out") >>

\* The passes of the merge sort, from "out" into "inner", after a first part
\* of four operations: both back ends emit the same.
SortPasses ==
  << Branch(20), Alloc("inner"), RootAt(2, "inner"),
     Branch(20),                                       \* 8: the next width
     Each("out", "elem", 17), Each("out", "other", 17),
     Ask(<<"elem", "other">>), Branch(15),
     Store("elem", "inner"), Goto(9), Store("other", "inner"), Goto(9),
     Copy("out", "inner"), Swap("out", "inner"), Goto(8), \* 17: the rest
     PopFrame, Result("out") >>

NativeListSortBy ==
  << PushFrame(2), Alloc("out"), Copy("recv", "out"), RootAt(1, "out") >>
    \o SortPasses

\* Option.map, Result.map and, of the other variant, Result.mapErr; "negative"
\* is what they do of a None or an Err.
NativeEnumMap(negative) ==
  << Each("recv", "elem", 6), Call(<<"elem">>, "inner"), Alloc("out"),
     Store("inner", "out"), Goto(7), negative, Result("out") >>

NativeOptionAndThen ==
  << Each("recv", "elem", 4), Call(<<"elem">>, "out"), Goto(5),
     Alloc("out"), Result("out") >>

\* Result's closure gets the payload of the Err, Option's gets nothing.
NativeEnumUnwrapOrElse ==
  << Each("recv", "out", 3), Goto(5), Each("recv", "other", 4),
     Call(<<"other">>, "out"), Result("out") >>

NativeOptionFilter ==
  << Each("recv", "elem", 6), Ask(<<"elem">>), Branch(6),
     Move("recv", "out"), Goto(7), Alloc("out"), Result("out") >>

-----------------------------------------------------------------------------
(* The wasm32-linear back end.                                             *)

WasmListMap ==
  << Alloc("out"), RootResult("out"), Each("recv", "elem", 7),
     Call(<<"elem">>, "inner"), Store("inner", "out"), Goto(3),
     Result("out") >>

WasmListFilter ==
  << Alloc("out"), RootResult("out"), Each("recv", "elem", 8),
     Ask(<<"elem">>), Branch(3), Store("elem", "out"), Goto(3),
     Result("out") >>

WasmListFind ==
  << Each("recv", "elem", 7), Ask(<<"elem">>), Branch(1), Alloc("out"),
     Store("elem", "out"), Goto(8), Alloc("out"), Result("out") >>

WasmListAnyAll ==
  << Each("recv", "elem", 4), Ask(<<"elem">>), Branch(1), End >>

WasmListReduce ==
  << Move("init", "out"), RootResult("out"), Each("recv", "elem", 7),
     Call(<<"out", "elem">>, "out"), RootResult("out"), Goto(3),
     Result("out") >>

\* The runtime copies the element from its place in the inner list.
WasmListFlatMap ==
  << Alloc("out"), RootResult("out"), PushFrame(1),
     Each("recv", "elem", 15), Call(<<"elem">>, "inner"),
     RootAt(1, "inner"), Each("inner", "other", 4) >>
    \o phx_list_push_raw(<<Load("inner", "other")>>)
    \o << Move("fresh", "out"), RootResult("out"), Goto(7), PopFrame,
          Result("out") >>

WasmListSortBy ==
  << Alloc("out"), Copy("recv", "out"), PushFrame(2), RootAt(1, "out") >>
    \o SortPasses

\* Around the allocation of an enum value that will hold "from".
Rooted(from, code) ==
  << PushFrame(1), RootAt(1, from) >> \o code \o << PopFrame >>

WasmOptionMap ==
  << Each("recv", "elem", 9), Call(<<"elem">>, "inner") >>
    \o Rooted("inner", <<Alloc("out"), Store("inner", "out")>>)
    \o << Goto(10), Alloc("out"), Result("out") >>

\* Also Result.mapErr, of the other variant.
WasmResultMap ==
  << Each("recv", "elem", 9), Call(<<"elem">>, "inner") >>
    \o Rooted("inner", <<Alloc("out"), Store("inner", "out")>>)
    \o << Goto(10), Move("recv", "out"), Result("out") >>

WasmOptionAndThen ==
  << Each("recv", "elem", 4), Call(<<"elem">>, "out"), Goto(5),
     Alloc("out"), Result("out") >>

WasmEnumUnwrapOrElse ==
  << Each("recv", "out", 3), Goto(5), Each("recv", "other", 4),
     Call(<<"other">>, "out"), Result("out") >>

WasmOptionFilter ==
  << Each("recv", "elem", 10), Ask(<<"elem">>), Branch(10) >>
    \o Rooted("elem", <<Alloc("out"), Store("elem", "out")>>)
    \o << Goto(11), Alloc("out"), Result("out") >>

-----------------------------------------------------------------------------
(* Both back ends.                                                         *)

\* Also Result.ok and Result.err: the element or payload in an option of its own.
ListFirstLast ==
  << Each("recv", "elem", 5), Alloc("out"), Store("elem", "out"), Goto(6),
     Alloc("out"), Result("out") >>

ListPush ==
  << Move("recv", "out"), Move("init", "other") >>
    \o phx_list_push_raw(<<>>) \o << Result("fresh") >>

ListTakeDrop == << Alloc("out"), Copy("recv", "out"), Result("out") >>

\* Result.andThen and, of the other variant, Result.orElse.
ResultAndThen ==
  << Each("recv", "elem", 4), Call(<<"elem">>, "out"), Goto(5),
     Move("recv", "out"), Result("out") >>

OptionOrElse ==
  << Branch(4), Call(<<>>, "out"), Goto(5), Move("recv", "out"),
     Result("out") >>

OptionOkOr ==
  << Each("recv", "elem", 5), Alloc("out"), Store("elem", "out"), Goto(7),
     Alloc("out"), Store("init", "out"), Result("out") >>

\* Op::Call and Op::CallIndirect.
FunctionCall == << Call(<<"recv", "init">>, "out"), Result("out") >>

Native ==
  [ call |-> FunctionCall,            listPush |-> ListPush,
    listFirst |-> ListFirstLast,      listTake |-> ListTakeDrop,
    resultAndThen |-> ResultAndThen,  optionOrElse |-> OptionOrElse,
    optionOkOr |-> OptionOkOr,        listMap |-> NativeListMap,
    listFilter |-> NativeListFilter,  listFind |-> NativeListFind,
    listAny |-> NativeListAnyAll,     listReduce |-> NativeListReduce,
    listFlatMap |-> NativeListFlatMap, listSortBy |-> NativeListSortBy,
    optionMap |-> NativeEnumMap(Alloc("out")),
    resultMap |-> NativeEnumMap(Move("recv", "out")),
    optionAndThen |-> NativeOptionAndThen,
    unwrapOrElse |-> NativeEnumUnwrapOrElse,
    optionFilter |-> NativeOptionFilter ]

Wasm ==
  [ call |-> FunctionCall,            listPush |-> ListPush,
    listFirst |-> ListFirstLast,      listTake |-> ListTakeDrop,
    resultAndThen |-> ResultAndThen,  optionOrElse |-> OptionOrElse,
    optionOkOr |-> OptionOkOr,        listMap |-> WasmListMap,
    listFilter |-> WasmListFilter,    listFind |-> WasmListFind,
    listAny |-> WasmListAnyAll,       listReduce |-> WasmListReduce,
    listFlatMap |-> WasmListFlatMap,  listSortBy |-> WasmListSortBy,
    optionMap |-> WasmOptionMap,      resultMap |-> WasmResultMap,
    optionAndThen |-> WasmOptionAndThen,
    unwrapOrElse |-> WasmEnumUnwrapOrElse,
    optionFilter |-> WasmOptionFilter ]

Translators == [native |-> Native, wasm |-> Wasm]

ASSUME ProgramAssumption ==
  \A p \in Programs :
    p.backend \in DOMAIN Translators /\ p.methods \subseteq DOMAIN Native

Emitted(m) == Translators[program.backend][m]

-----------------------------------------------------------------------------
(* The functions under way.  A function that runs a method has pc > 0.     *)

NoRegisters == [r \in Register |-> None]

Activation ==
  [ value : [Value -> Pointer],        \* its IR values
    frame : Nat,                       \* its shadow-stack frame
    method : DOMAIN Native \union {"none"}, pc : Nat,
    register : [Register -> Pointer],
    result : Value,                    \* the value the method defines
    inner : Nat ]                      \* the frame the method pushed, or 0

\* A function begins with its arguments as its first values, and roots them.
Entered(args, handle) ==
  [ value |-> [v \in Value |-> IF v \in DOMAIN args THEN args[v] ELSE None],
    frame |-> handle, method |-> "none", pc |-> 0, register |-> NoRegisters,
    result |-> 1, inner |-> 0 ]

Running == stack[Len(stack)]
Idle == Running.pc = 0
Instruction(f) == Emitted(f.method)[f.pc]

\* The innermost function, with some of its fields changed.
Becomes(f) == stack' = [stack EXCEPT ![Len(stack)] = f]
Advanced(f) == [f EXCEPT !.pc = @ + 1]

\* Mutant: the slot's number is written in place of the pointer.
M_emit_set_root(handle, slot, p) == [frames EXCEPT ![handle][slot] = slot]

emit_set_root(handle, slot, p) == [frames EXCEPT ![handle][slot] = p]

\* Mutant: the value gets its slot only if there is none in the slot yet.
M_Defines(v, p) ==
  /\ Becomes([Running EXCEPT !.value[v] = p])
  /\ frames' = IF frames[Running.frame][v] = None
               THEN emit_set_root(Running.frame, v, p)
               ELSE frames

\* An instruction that defines value v: plan_frame gave v a slot, and
\* maybe_set_root writes it.
Defines(v, p) ==
  /\ Becomes([Running EXCEPT !.value[v] = p])
  /\ frames' = emit_set_root(Running.frame, v, p)

Init ==
  /\ program \in Programs
  /\ heap = << >>
  /\ frames = << [v \in Value |-> None] >>
  /\ stack = << Entered(<< >>, 1) >>

-----------------------------------------------------------------------------
(* The collector.                                                          *)

Roots ==
  UNION {{frames[k][s] : s \in DOMAIN frames[k]} : k \in DOMAIN frames}

Closed(h, S) == \A o \in S : h[o] \intersect DOMAIN h \subseteq S
ReachableIn(h, from) ==
  {o \in DOMAIN h :
     \A S \in SUBSET DOMAIN h :
       from \intersect DOMAIN h \subseteq S /\ Closed(h, S) => o \in S}
Reachable == ReachableIn(heap, Roots)

\* The heaps an allocation may find: phx_gc_alloc has collected or, below its
\* threshold, has not.
HeapBeforeAlloc ==
  {[o \in Reachable |-> heap[o]]} \union (IF MayDefer THEN {heap} ELSE {})

With(h, o, S) == [p \in DOMAIN h \union {o} |-> IF p = o THEN S ELSE h[p]]

-----------------------------------------------------------------------------
(* IR instructions of a function that is in no method.                     *)

\* A struct, a list literal, an enum value, a closure, a string, ...: one
\* allocation that then receives some of the function's other values.
Construct(v) ==
  /\ Idle
  /\ \E h \in HeapBeforeAlloc, U \in SUBSET (Value \ {v}) :
       /\ Cardinality(U) <= MaxFields
       /\ \E o \in Obj \ DOMAIN h :
            /\ heap' = With(h, o, {Running.value[u] : u \in U})
            /\ Defines(v, o)
  /\ UNCHANGED program

\* A field, an element, a payload or a capture.
GetField(v, u) ==
  /\ Idle
  /\ Running.value[u] \in DOMAIN heap
  /\ \E p \in heap[Running.value[u]] : Defines(v, p)
  /\ UNCHANGED <<program, heap>>

\* A jump that passes u to the block parameter v.
BlockParam(v, u) ==
  /\ Idle
  /\ Defines(v, Running.value[u])
  /\ UNCHANGED <<program, heap>>

\* v = m(u, w, ...).  A value is no operand of the instruction defining it, and
\* what an earlier round of a loop left in v is not read again.
StartMethod(v, m, u, w) ==
  /\ Idle
  /\ Len(stack) < MaxDepth
  /\ v \notin {u, w}
  /\ Becomes([Running EXCEPT
       !.method = m, !.pc = 1, !.result = v, !.value[v] = None,
       !.register = [NoRegisters EXCEPT !.recv = Running.value[u],
                                        !.init = Running.value[w]]])
  /\ UNCHANGED <<program, heap, frames>>

\* The frame is popped before the value is returned.
Return(v) ==
  /\ Idle
  /\ Len(stack) > 1
  /\ LET caller == stack[Len(stack) - 1]
         call == Emitted(caller.method)[caller.pc - 1]
         outer == SubSeq(stack, 1, Len(stack) - 1)
     IN stack' = IF call.op = "call"
                 THEN [outer EXCEPT ![Len(outer)].register[call.to] =
                                       Running.value[v]]
                 ELSE outer
  /\ frames' = SubSeq(frames, 1, Len(frames) - 1)
  /\ UNCHANGED <<program, heap>>

-----------------------------------------------------------------------------
(* Operations of a method.                                                 *)

Current == Instruction(Running)
Runs(op) == ~Idle /\ Current.op = op
Reg(r) == Running.register[r]
Sets(r, p) == Becomes(Advanced([Running EXCEPT !.register[r] = p]))
Jumps(target) == Becomes([Running EXCEPT !.pc = target])
Held(r) == IF Reg(r) \in DOMAIN heap THEN heap[Reg(r)] ELSE {}

StepAlloc ==
  /\ Runs("alloc")
  /\ \E h \in HeapBeforeAlloc : \E o \in Obj \ DOMAIN h :
       heap' = With(h, o, {}) /\ Sets(Current.to, o)
  /\ UNCHANGED <<program, frames>>

\* Writes references into the object of a register; into freed memory, the
\* write is lost.
Writes(into, S) ==
  /\ heap' = IF Reg(into) \in DOMAIN heap
             THEN [heap EXCEPT ![Reg(into)] = @ \union S]
             ELSE heap
  /\ Becomes(Advanced(Running))
  /\ UNCHANGED <<program, frames>>

StepCopy == Runs("copy") /\ Writes(Current.into, Held(Current.from))
StepStore == Runs("store") /\ Writes(Current.into, {Reg(Current.from)})

StepLoad ==
  /\ Runs("load")
  /\ \E p \in Held(Current.from) : Sets(Current.to, p)
  /\ UNCHANGED <<program, heap, frames>>

StepMove ==
  /\ Runs("move")
  /\ Sets(Current.to, Reg(Current.from))
  /\ UNCHANGED <<program, heap, frames>>

StepSwap ==
  /\ Runs("swap")
  /\ Becomes(Advanced([Running EXCEPT
       !.register[Current.to] = Reg(Current.from),
       !.register[Current.from] = Reg(Current.to)]))
  /\ UNCHANGED <<program, heap, frames>>

StepEach ==
  /\ Runs("each")
  /\ \/ \E p \in Held(Current.from) : Sets(Current.to, p)
     \/ Jumps(Current.exit)
  /\ UNCHANGED <<program, heap, frames>>

StepBranch ==
  /\ Runs("branch")
  /\ Becomes(Advanced(Running)) \/ Jumps(Current.exit)
  /\ UNCHANGED <<program, heap, frames>>

StepGoto ==
  /\ Runs("goto")
  /\ Jumps(Current.exit)
  /\ UNCHANGED <<program, heap, frames>>

\* The callee pushes its frame and roots its parameters before it allocates.
\* The register that will receive the result holds nothing until then.
StepCall ==
  /\ Runs("call") \/ Runs("ask")
  /\ LET args == [k \in DOMAIN Current.args |-> Reg(Current.args[k])]
         callee == Entered(args, Len(frames) + 1)
         caller == IF Current.op = "call"
                   THEN [Running EXCEPT !.register[Current.to] = None]
                   ELSE Running
     IN /\ stack' = Append([stack EXCEPT ![Len(stack)] = Advanced(caller)],
                           callee)
        /\ frames' = Append(frames, callee.value)
  /\ UNCHANGED <<program, heap>>

StepRootResult ==
  /\ Runs("rootResult")
  /\ frames' = emit_set_root(Running.frame, Running.result,
                             Reg(Current.from))
  /\ Becomes(Advanced(Running))
  /\ UNCHANGED <<program, heap>>

StepPushFrame ==
  /\ Runs("push")
  /\ frames' = Append(frames, [s \in 1 .. Current.slots |-> None])
  /\ Becomes(Advanced([Running EXCEPT !.inner = Len(frames) + 1]))
  /\ UNCHANGED <<program, heap>>

StepRootAt ==
  /\ Runs("rootAt")
  /\ frames' = emit_set_root(Running.inner, Current.slot,
                             Reg(Current.from))
  /\ Becomes(Advanced(Running))
  /\ UNCHANGED <<program, heap>>

\* Mutant: the frame stays pushed.
M_StepPopFrame ==
  /\ Runs("pop")
  /\ Becomes(Advanced([Running EXCEPT !.inner = 0]))
  /\ UNCHANGED <<program, heap, frames>>

StepPopFrame ==
  /\ Runs("pop")
  /\ frames' = SubSeq(frames, 1, Len(frames) - 1)
  /\ Becomes(Advanced([Running EXCEPT !.inner = 0]))
  /\ UNCHANGED <<program, heap>>

Finished == [Running EXCEPT !.method = "none", !.pc = 0, !.result = 1,
                            !.register = NoRegisters]

StepResult ==
  /\ Runs("result")
  /\ LET v == Running.result
         p == Reg(Current.from)
     IN /\ Becomes([Finished EXCEPT !.value[v] = p])
        /\ frames' = emit_set_root(Running.frame, v, p)
  /\ UNCHANGED <<program, heap>>

StepEnd ==
  /\ Runs("end")
  /\ Becomes(Finished)
  /\ UNCHANGED <<program, heap, frames>>

Next ==
  \/ \E v \in Value :
       \/ Construct(v)
       \/ Return(v)
       \/ \E u \in Value : GetField(v, u) \/ BlockParam(v, u)
       \/ \E m \in program.methods, u, w \in Value : StartMethod(v, m, u, w)
  \/ StepAlloc \/ StepCopy \/ StepStore \/ StepLoad \/ StepMove \/ StepSwap
  \/ StepEach \/ StepBranch \/ StepGoto \/ StepCall
  \/ StepRootResult \/ StepPushFrame \/ StepRootAt \/ StepPopFrame
  \/ StepResult \/ StepEnd

Spec == Init /\ [][Next]_vars

-----------------------------------------------------------------------------
(* Properties.                                                             *)

TypeOK ==
  /\ program \in Programs
  /\ DOMAIN heap \subseteq Obj
  /\ \A o \in DOMAIN heap : heap[o] \subseteq Pointer
  /\ \A k \in DOMAIN frames : \A s \in DOMAIN frames[k] : frames[k][s] \in Pointer
  /\ stack \in Seq(Activation)

InUse(p) == p \in DOMAIN heap \union {None}

\* Every value a function under way has computed points to an allocated
\* object until the function returns.
ValuesLive ==
  \A k \in DOMAIN stack : \A v \in Value : InUse(stack[k].value[v])

\* What the next operation of an inlined method uses is allocated.
OperandsLive ==
  \A k \in DOMAIN stack :
    stack[k].pc > 0 =>
      \A r \in Instruction(stack[k]).reads : InUse(stack[k].register[r])

\* No compiled function touches freed memory, also after a function or closure
\* it called has allocated and collected: a value keeps its object from the
\* instruction that defines it until its function returns, as gc_roots.rs
\* says, and an inlined method keeps the intermediates it goes on using.  Of five
\* native methods this is false (List.map, filter and flatMap, Option.map, and
\* Result.map with mapErr): it speaks of programs without them, and they are left
\* out of MCPrograms.
NothingFreedIsUsed == ValuesLive /\ OperandsLive

\* Frames are popped in the order in which they were pushed, each by the code
\* that pushed it: phx_gc_pop_frame aborts the program otherwise.
PopsNewest ==
  /\ Idle => Running.frame = Len(frames)
  /\ Runs("pop") => Running.inner = Len(frames)
=============================================================================
