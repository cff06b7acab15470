------------------------ MODULE PackageManagerProofs -----------------------
(***************************************************************************)
(* Proofs about PackageManager for any repositories, packages, manifests   *)
(* and commands, and any number of faults.                                 *)
(***************************************************************************)
EXTENDS PackageManager, FiniteSetTheorems, SequenceLemmas

-----------------------------------------------------------------------------
(* The selection of versions, for any found packages.                      *)

LEMMA OlderTransitive ==
  ASSUME NEW u \in Nat \X Nat \X Nat, NEW v \in Nat \X Nat \X Nat,
         NEW w \in Nat \X Nat \X Nat,
         Older(u, v), Older(v, w)
  PROVE  Older(u, w)
BY DEF Older

\* One of several versions is not older than any of them.
LEMMA HighestVersion ==
  ASSUME NEW n \in Nat, NEW v, \A i \in 1 .. n : v[i] \in Nat \X Nat \X Nat,
         NEW S \in SUBSET (1 .. n), S # {}
  PROVE  \E i \in S : \A j \in S : ~Older(v[i], v[j])
<1>. DEFINE Has(T) == \E i \in T : \A j \in T : ~Older(v[i], v[j])
            Bad == {m \in Nat : m <= n /\ \E T \in SUBSET (1 .. m) : T # {} /\ ~Has(T)}
<1>1. SUFFICES Bad = {}
  BY <1>1
<1>2. SUFFICES ASSUME Bad # {} PROVE FALSE
  OBVIOUS
<1>3. PICK m \in Bad : \A k \in Bad : m <= k
  <2>1. Bad \in SUBSET Nat
    OBVIOUS
  <2>. HIDE DEF Bad
  <2>. QED  BY <1>2, <2>1, LeastNatural
<1>4. PICK T \in SUBSET (1 .. m) : T # {} /\ ~Has(T)
  BY <1>3
<1>5. m \in Nat /\ m <= n
  BY <1>3
<1>6. m \in T
  <2>1. SUFFICES ASSUME m \notin T PROVE FALSE
    OBVIOUS
  <2>2. PICK t \in T : t \in 1 .. m
    BY <1>4
  <2>3. m - 1 \in Nat /\ m - 1 <= n /\ ~(m <= m - 1)
    BY <1>5, <2>2
  <2>4. ASSUME NEW k \in T PROVE k \in 1 .. (m - 1)
    <3>1. k \in 1 .. m /\ k # m
      BY <1>4, <2>1
    <3>. HIDE DEF Has, Bad
    <3>. QED  BY <1>5, <3>1
  <2>5. m - 1 \in Bad
    <3>. HIDE DEF Has
    <3>. QED  BY <1>4, <2>3, <2>4
  <2>. HIDE DEF Bad
  <2>. QED  BY <1>3, <2>3, <2>5
<1>7. m \in 1 .. m /\ m - 1 \in Nat
  BY <1>4, <1>5, <1>6
<1>8. CASE T = {m}
  <2>1. ~Older(v[m], v[m])
    BY <1>5, <1>7 DEF Older
  <2>. QED  BY <1>4, <1>8, <2>1
<1>9. CASE T # {m}
  <2>. DEFINE U == T \ {m}
  <2>1. U # {} /\ U \in SUBSET (1 .. (m - 1))
    BY <1>4, <1>5, <1>6, <1>9
  <2>2. m - 1 <= n /\ ~(m <= m - 1)
    BY <1>5
  <2>. HIDE DEF U
  <2>3. Has(U)
    <3>1. m - 1 \notin Bad
      <4>. HIDE DEF Bad
      <4>. QED  BY <1>3, <2>2
    <3>. HIDE DEF Has
    <3>. QED  BY <1>7, <2>1, <2>2, <3>1
  <2>4. PICK i \in U : \A j \in U : ~Older(v[i], v[j])
    BY <2>3
  <2>. USE DEF U
  <2>5. \A j \in T : v[j] \in Nat \X Nat \X Nat
    BY <1>4, <1>5
  <2>6. CASE Older(v[i], v[m])
    <3>1. ASSUME NEW j \in T, Older(v[m], v[j]) PROVE FALSE
      <4>1. Older(v[i], v[j])
        BY <1>6, <2>4, <2>5, <2>6, <3>1, OlderTransitive
      <4>2. j # m
        BY <1>6, <2>5, <3>1 DEF Older
      <4>. QED  BY <2>4, <4>1, <4>2
    <3>. QED  BY <1>4, <1>6, <3>1
  <2>7. CASE ~Older(v[i], v[m])
    BY <1>4, <2>4, <2>7
  <2>. QED  BY <2>6, <2>7
<1>. QED  BY <1>8, <1>9

\* The versions of what was found are versions.
VersionsIn(found) == \A i \in DOMAIN found : found[i].version \in Nat \X Nat \X Nat

\* Of the packages of a name that was found, none is newer than the selected one.
LEMMA SelectHighestSound ==
  ASSUME NEW S, NEW found \in Seq(S), VersionsIn(found), NEW n, Named(found, n) # {}
  PROVE  /\ SelectHighest(found, n) \in Range(found)
         /\ SelectHighest(found, n).name = n
         /\ \A p \in Range(found) :
              p.name = n => ~Older(SelectHighest(found, n).version, p.version)
<1>. DEFINE N == Named(found, n)
            H == {i \in N : \A j \in N : ~Older(found[i].version, found[j].version)}
<1>1. Len(found) \in Nat /\ DOMAIN found = 1 .. Len(found)
  BY LenProperties
<1>2. N \in SUBSET (1 .. Len(found))
  BY <1>1 DEF Named
<1>3. H # {}
  <2>. DEFINE v == [i \in 1 .. Len(found) |-> found[i].version]
  <2>1. \A i \in 1 .. Len(found) : v[i] \in Nat \X Nat \X Nat
    BY <1>1 DEF VersionsIn
  <2>2. \E i \in N : \A j \in N : ~Older(v[i], v[j])
    <3>. HIDE DEF v, N
    <3>. QED  BY <1>1, <1>2, <2>1, HighestVersion DEF N
  <2>3. \A i \in N : v[i] = found[i].version
    BY <1>2
  <2>. HIDE DEF v, N
  <2>. QED  BY <2>2, <2>3
<1>4. Max(H) \in H
  <2>1. H \in SUBSET (1 .. Len(found))
    BY <1>2
  <2>. HIDE DEF H
  <2>. QED  BY <1>1, <1>3, <2>1, MaxOfPositions
<1>5. SelectHighest(found, n) = found[Max(H)]
  BY DEF SelectHighest
<1>6. Max(H) \in N /\ \A j \in N : ~Older(found[Max(H)].version, found[j].version)
  <2>. DEFINE h == Max(H)
  <2>. HIDE DEF h
  <2>1. h \in H
    BY <1>4 DEF h
  <2>. QED  BY <2>1 DEF h
<1>. HIDE DEF H
<1>. QED  BY <1>5, <1>6 DEF Named, Range

\* If all that is required was found, the graph has what the root requires and what its
\* packages require, and each package is there for one of these reasons.
LEMMA ReachableSound ==
  ASSUME NEW root, NEW found,
         DOMAIN root \subseteq {p.name : p \in Range(found)},
         Needs(found, {p.name : p \in Range(found)}) \subseteq {p.name : p \in Range(found)}
  PROVE  /\ Reachable(root, found) \subseteq {p.name : p \in Range(found)}
         /\ DOMAIN root \subseteq Reachable(root, found)
         /\ Needs(found, Reachable(root, found)) \subseteq Reachable(root, found)
         /\ Reachable(root, found) \subseteq
              DOMAIN root \cup Needs(found, Reachable(root, found))
<1>. DEFINE known == {p.name : p \in Range(found)}
            R == Reachable(root, found)
            Closed(T) == DOMAIN root \subseteq T /\ Needs(found, T) \subseteq T
<1>1. R = {n \in known : \A T \in SUBSET known : Closed(T) => n \in T}
  BY DEF Reachable
<1>2. Closed(known)
  OBVIOUS
<1>3. \A T, U : T \subseteq U => Needs(found, T) \subseteq Needs(found, U)
  BY DEF Needs
<1>. HIDE DEF known, R
<1>4. DOMAIN root \subseteq R
  BY <1>1, <1>2
<1>5. Needs(found, R) \subseteq R
  <2>1. ASSUME NEW T \in SUBSET known, Closed(T) PROVE Needs(found, R) \subseteq T
    <3>1. R \subseteq T
      BY <1>1, <2>1
    <3>. QED  BY <1>3, <2>1, <3>1
  <2>2. Needs(found, R) \subseteq known
    BY <1>2, <2>1
  <2>. QED  BY <1>1, <2>1, <2>2
<1>6. R \subseteq DOMAIN root \cup Needs(found, R)
  <2>. DEFINE T == DOMAIN root \cup Needs(found, R)
  <2>1. T \subseteq R
    BY <1>4, <1>5
  <2>2. T \in SUBSET known
    BY <1>1, <2>1
  <2>3. Closed(T)
    BY <1>3, <2>1
  <2>. QED  BY <1>1, <2>2, <2>3
<1>. QED  BY <1>1, <1>4, <1>5, <1>6 DEF known, R

-----------------------------------------------------------------------------
(* Sequences.                                                              *)

\* A set of positions can be put in order.
LEMMA AscendingExists ==
  ASSUME NEW n \in Nat, NEW S \in SUBSET (1 .. n)
  PROVE  \E s \in [1 .. Cardinality(S) -> S] :
           Range(s) = S /\ \A i, j \in DOMAIN s : i < j => s[i] < s[j]
<1>. DEFINE Sorts(s, T) ==
              Range(s) = T /\ \A i, j \in DOMAIN s : i < j => s[i] < s[j]
            Has(T) == \E s \in [1 .. Cardinality(T) -> T] : Sorts(s, T)
            Bad == {m \in Nat : m <= n /\ \E T \in SUBSET (1 .. m) : ~Has(T)}
<1>0. SUFFICES Bad = {}
  <2>1. n <= n
    OBVIOUS
  <2>2. Has(S)
    <3>. HIDE DEF Has
    <3>. QED  BY <1>0, <2>1
  <2>. QED  BY <2>2
<1>1. SUFFICES ASSUME Bad # {} PROVE FALSE
  OBVIOUS
<1>2. PICK m \in Bad : \A k \in Bad : m <= k
  <2>1. Bad \in SUBSET Nat
    OBVIOUS
  <2>. HIDE DEF Bad
  <2>. QED  BY <1>1, <2>1, LeastNatural
<1>3. PICK T \in SUBSET (1 .. m) : ~Has(T)
  BY <1>2
<1>4. m \in Nat /\ m <= n
  BY <1>2
<1>5. T # {}
  <2>1. SUFFICES ASSUME T = {} PROVE FALSE
    OBVIOUS
  <2>2. Cardinality(T) = 0
    BY <2>1, FS_EmptySet
  <2>. DEFINE s == [i \in 1 .. 0 |-> i]
  <2>3. s \in [1 .. Cardinality(T) -> T] /\ Sorts(s, T)
    BY <2>1, <2>2 DEF Range
  <2>. HIDE DEF s, Sorts
  <2>. QED  BY <1>3, <2>3
<1>6. PICK t \in T : t \in 1 .. m
  BY <1>5
<1>7. m - 1 \in Nat /\ m - 1 <= n /\ ~(m <= m - 1)
  BY <1>4, <1>6
<1>8. \A U \in SUBSET (1 .. (m - 1)) : Has(U)
  <2>1. m - 1 \notin Bad
    <3>. HIDE DEF Bad
    <3>. QED  BY <1>2, <1>7
  <2>. HIDE DEF Has
  <2>. QED  BY <1>7, <2>1
<1>. HIDE DEF Bad
<1>. DEFINE U == T \ {m}
<1>9. U \in SUBSET (1 .. (m - 1))
  <2>1. ASSUME NEW k \in U PROVE k \in 1 .. (m - 1)
    <3>1. k \in 1 .. m /\ k # m
      BY <1>3
    <3>. QED  BY <1>4, <3>1
  <2>. QED  BY <2>1
<1>10. m \in T
  <2>1. SUFFICES ASSUME m \notin T PROVE FALSE
    OBVIOUS
  <2>2. U = T
    BY <2>1
  <2>. HIDE DEF Has, U
  <2>. QED  BY <1>3, <1>8, <1>9, <2>2
<1>11. IsFiniteSet(T) /\ Cardinality(T) \in Nat
  <2>1. IsFiniteSet(1 .. m)
    BY <1>4, FS_Interval
  <2>2. IsFiniteSet(T)
    BY <2>1, FS_Subset
  <2>. QED  BY <2>2, FS_CardinalityType
<1>12. IsFiniteSet(U) /\ Cardinality(U) = Cardinality(T) - 1 /\ Cardinality(U) \in Nat
  BY <1>10, <1>11, FS_RemoveElement, FS_CardinalityType
<1>13. PICK u \in [1 .. Cardinality(U) -> U] : Sorts(u, U)
  <2>. HIDE DEF U, Sorts
  <2>. QED  BY <1>8, <1>9
<1>. DEFINE c == Cardinality(T)
            d == Cardinality(U)
            s == [i \in 1 .. c |-> IF i = c THEN m ELSE u[i]]
<1>14. d \in Nat /\ c \in Nat /\ d = c - 1
  BY <1>11, <1>12
<1>15. u \in [1 .. d -> U] /\ Range(u) = U /\ \A i, j \in 1 .. d : i < j => u[i] < u[j]
  BY <1>13
<1>. HIDE DEF c, d
<1>16. \A i \in 1 .. c : i # c => i \in 1 .. d
  BY <1>14
<1>17. \A i \in 1 .. d : i \in 1 .. c /\ i # c /\ i < c
  BY <1>14
<1>18. c \in 1 .. c
  BY <1>14
<1>19. \A i \in 1 .. d : s[i] = u[i] /\ u[i] \in U
  BY <1>15, <1>17
<1>20. s \in [1 .. c -> T]
  <2>1. \A i \in 1 .. c : s[i] \in T
    BY <1>10, <1>15, <1>16
  <2>. QED  BY <2>1
<1>21. Range(s) = T
  <2>1. \A x \in U : \E i \in 1 .. d : u[i] = x
    BY <1>15 DEF Range
  <2>2. \A x \in T : \E i \in 1 .. c : s[i] = x
    BY <1>17, <1>18, <2>1
  <2>. QED  BY <1>20, <2>2 DEF Range
<1>22. \A i, j \in 1 .. c : i < j => s[i] < s[j]
  <2>1. SUFFICES ASSUME NEW i \in 1 .. c, NEW j \in 1 .. c, i < j PROVE s[i] < s[j]
    OBVIOUS
  <2>2. i \in 1 .. d
    BY <1>14, <2>1
  <2>3. CASE j = c
    <3>1. s[i] \in 1 .. (m - 1) /\ s[j] = m
      BY <1>9, <1>19, <2>2, <2>3
    <3>. QED  BY <1>4, <3>1
  <2>4. CASE j # c
    BY <1>15, <1>16, <1>19, <2>1, <2>2, <2>4
  <2>. QED  BY <2>3, <2>4
<1>23. DOMAIN s = 1 .. c
  OBVIOUS
<1>24. s \in [1 .. Cardinality(T) -> T] /\ Sorts(s, T)
  BY <1>20, <1>21, <1>22, <1>23 DEF c
<1>. HIDE DEF s, Sorts
<1>. QED  BY <1>3, <1>24

Frame == [name : Name, dep : Dependency, chain : SUBSET Name]

\* The walk goes into each dependency of a manifest, and into nothing else.
LEMMA FramesSound ==
  ASSUME NEW deps, IsDeps(deps), NEW chain \in SUBSET Name
  PROVE  /\ Frames(deps, chain) \in Seq(Frame)
         /\ \A f \in Range(Frames(deps, chain)) :
              f.name \in DOMAIN deps /\ f.dep = deps[f.name] /\ f.chain = chain
         /\ \A n \in DOMAIN deps : \E f \in Range(Frames(deps, chain)) : f.name = n
<1>. DEFINE I == {i \in DOMAIN NameOrder : NameOrder[i] \in DOMAIN deps}
            order == Ascending(I)
            F == Frames(deps, chain)
<1>1. Len(NameOrder) \in Nat /\ DOMAIN NameOrder = 1 .. Len(NameOrder)
  BY NameAssumption, LenProperties
<1>2. I \in SUBSET (1 .. Len(NameOrder))
  BY <1>1
<1>3. order \in [1 .. Cardinality(I) -> I] /\ Range(order) = I
  <2>1. \E s \in [1 .. Cardinality(I) -> I] :
          Range(s) = I /\ \A i, j \in DOMAIN s : i < j => s[i] < s[j]
    <3>. HIDE DEF I
    <3>. QED  BY <1>1, <1>2, AscendingExists
  <2>. HIDE DEF I
  <2>. QED  BY <2>1 DEF Ascending
<1>4. Cardinality(I) \in Nat
  <2>. HIDE DEF I
  <2>1. IsFiniteSet(1 .. Len(NameOrder))
    BY <1>1, FS_Interval
  <2>2. IsFiniteSet(I)
    BY <1>2, <2>1, FS_Subset
  <2>. QED  BY <2>2, FS_CardinalityType
<1>5. F = [i \in DOMAIN order |-> [name |-> NameOrder[order[i]],
                                   dep |-> deps[NameOrder[order[i]]], chain |-> chain]]
  BY DEF Frames
<1>. HIDE DEF F, order
<1>6. DOMAIN F = 1 .. Cardinality(I)
  BY <1>3, <1>5
<1>7. ASSUME NEW i \in 1 .. Cardinality(I)
      PROVE  F[i] \in Frame /\ F[i].name \in DOMAIN deps /\ F[i].dep = deps[F[i].name]
             /\ F[i].chain = chain
  <2>1. order[i] \in I
    BY <1>3
  <2>2. F[i] = [name |-> NameOrder[order[i]], dep |-> deps[NameOrder[order[i]]],
                chain |-> chain]
    BY <1>5, <1>6
  <2>3. NameOrder[order[i]] \in DOMAIN deps
    BY <2>1
  <2>4. NameOrder[order[i]] \in Name /\ deps[NameOrder[order[i]]] \in Dependency
    BY <2>3 DEF IsDeps
  <2>. QED  BY <2>2, <2>3, <2>4 DEF Frame
<1>8. F \in Seq(Frame)
  <2>1. F = [i \in 1 .. Cardinality(I) |-> F[i]]
    BY <1>5, <1>6
  <2>2. \A i \in 1 .. Cardinality(I) : F[i] \in Frame
    BY <1>7
  <2>. HIDE DEF I
  <2>. QED  BY <1>4, <2>1, <2>2, IsASeq
<1>9. ASSUME NEW n \in DOMAIN deps PROVE \E f \in Range(F) : f.name = n
  <2>1. PICK i \in DOMAIN NameOrder : NameOrder[i] = n
    BY DEF IsDeps, Name, Range
  <2>2. PICK k \in 1 .. Cardinality(I) : order[k] = i
    BY <1>3, <2>1 DEF Range
  <2>3. F[k].name = n
    BY <1>5, <1>6, <2>1, <2>2
  <2>. QED  BY <1>6, <2>3 DEF Range
<1>. QED  BY <1>6, <1>7, <1>8, <1>9 DEF F, Range

-----------------------------------------------------------------------------
(* The walk is a depth first search.                                       *)

\* What is under way anywhere on the stack is so at its top.
LEMMA TopChainIsAll ==
  ASSUME NEW S, NEW stack \in Seq(S), stack # <<>>, ChainsNest(stack)
  PROVE  \A f \in Range(stack) : f.chain \subseteq stack[1].chain
<1>1. ASSUME NEW i \in DOMAIN stack PROVE stack[i].chain \subseteq stack[1].chain
  <2>1. 1 \in DOMAIN stack /\ (i = 1 \/ 1 < i)
    BY StackTop, LenProperties
  <2>. QED  BY <2>1 DEF ChainsNest
<1>. QED  BY <1>1 DEF Range

\* The walk passes over a requirement that does not lead into a circle.
LEMMA TailKeepsOrder ==
  ASSUME NEW found, NEW S, NEW stack \in Seq(S), stack # <<>>,
         stack[1].name \notin stack[1].chain,
         ChainsNest(stack), DoneIsClosed(found, stack), Acyclic(found, stack)
  PROVE  /\ ChainsNest(Tail(stack))
         /\ DoneIsClosed(found, Tail(stack))
         /\ Acyclic(found, Tail(stack))
<1>. DEFINE top == stack[1]
            rest == Tail(stack)
<1>1. /\ Range(stack) = {top} \cup Range(rest)
      /\ \A i \in DOMAIN rest : i + 1 \in DOMAIN stack /\ rest[i] = stack[i + 1]
      /\ \A f \in Range(stack) : f.chain \subseteq top.chain
  BY StackTop, TopChainIsAll
<1>2. ChainsNest(rest)
  <2>1. \A i \in DOMAIN rest : i \in Int
    BY StackTop, LenProperties
  <2>2. SUFFICES ASSUME NEW i \in DOMAIN rest, NEW j \in DOMAIN rest, i < j
                 PROVE  rest[j].chain \subseteq rest[i].chain
    BY DEF ChainsNest
  <2>3. i + 1 < j + 1
    BY <2>1, <2>2
  <2>. QED  BY <1>1, <2>3 DEF ChainsNest
<1>. HIDE DEF top, rest
<1>3. \A i, j : Pending(found, stack, i, j) =>
         \/ Pending(found, rest, i, j)
         \/ found[j].name = top.name /\ found[i].name \in top.chain
  BY <1>1 DEF Pending
<1>4. DoneIsClosed(found, rest)
  <2>1. SUFFICES ASSUME NEW i \in Once(found), NEW j \in Once(found), NEW f \in Range(rest),
                        Requires(found, i, j), found[j].name \in f.chain,
                        found[i].name \notin f.chain
                 PROVE  Pending(found, rest, i, j)
    BY DEF DoneIsClosed
  <2>2. Pending(found, stack, i, j)
    BY <1>1, <2>1 DEF DoneIsClosed
  <2>3. found[j].name # top.name
    BY <1>1, <2>1 DEF top
  <2>. QED  BY <1>3, <2>2, <2>3
<1>5. Acyclic(found, rest)
  <2>1. SUFFICES ASSUME NEW T \in SUBSET Once(found), T # {}
                 PROVE  \E i \in T : \A j \in T :
                          Requires(found, i, j) => Pending(found, rest, i, j)
    BY DEF Acyclic
  <2>2. CASE \A k \in T : found[k].name # top.name
    <3>1. PICK i \in T : \A j \in T : Requires(found, i, j) => Pending(found, stack, i, j)
      BY <2>1 DEF Acyclic
    <3>. QED  BY <1>3, <2>2, <3>1
  <2>3. CASE \E k \in T : found[k].name = top.name
    <3>. DEFINE U == {i \in T : found[i].name \notin top.chain}
    <3>1. U # {} /\ U \in SUBSET Once(found)
      BY <2>1, <2>3 DEF top
    <3>2. PICK i \in U : \A j \in U : Requires(found, i, j) => Pending(found, stack, i, j)
      BY <3>1 DEF Acyclic
    <3>3. \A j : ~Pending(found, stack, i, j)
      BY <1>1, <3>2 DEF Pending
    <3>4. ASSUME NEW j \in T, Requires(found, i, j) PROVE FALSE
      <4>1. found[j].name \in top.chain
        BY <3>2, <3>3, <3>4
      <4>2. top \in Range(stack)
        BY <1>1
      <4>. QED  BY <2>1, <3>2, <3>3, <3>4, <4>1, <4>2 DEF DoneIsClosed
    <3>. QED  BY <3>2, <3>4
  <2>. QED  BY <2>2, <2>3
<1>. QED  BY <1>2, <1>4, <1>5 DEF rest

\* The walk goes into a package that it has found.
LEMMA AppendKeepsOrder ==
  ASSUME NEW P, NEW found \in Seq(P), NEW p \in P,
         NEW S, NEW stack \in Seq(S), NEW frames \in Seq(S), stack # <<>>,
         stack[1].name \notin stack[1].chain, p.name = stack[1].name,
         ChainsNest(stack), DoneIsClosed(found, stack), Acyclic(found, stack),
         \A f \in Range(frames) : f.chain = stack[1].chain \cup {p.name},
         \A n \in DOMAIN p.deps : \E f \in Range(frames) : f.name = n,
         \A i \in DOMAIN found : \A n \in DOMAIN found[i].deps :
           \/ \E j \in DOMAIN found : found[j].name = n
           \/ \E f \in Range(stack) : f.name = n /\ found[i].name \in f.chain
  PROVE  /\ ChainsNest(frames \o Tail(stack))
         /\ DoneIsClosed(Append(found, p), frames \o Tail(stack))
         /\ Acyclic(Append(found, p), frames \o Tail(stack))
<1>. DEFINE top == stack[1]
            rest == Tail(stack)
            stk == frames \o rest
            fnd == Append(found, p)
            new == Len(found) + 1
<1>1. /\ Range(stack) = {top} \cup Range(rest)
      /\ \A f \in Range(stack) : f.chain \subseteq top.chain
      /\ rest \in Seq(S)
  BY StackTop, TopChainIsAll
<1>2. Range(stk) = Range(frames) \cup Range(rest)
  <2>. HIDE DEF rest
  <2>. QED  BY <1>1, RangeConcatenation
<1>3. ChainsNest(stk)
  <2>1. ChainsNest(rest)
    BY TailKeepsOrder
  <2>2. /\ Len(frames) \in Nat /\ Len(rest) \in Nat
        /\ DOMAIN frames = 1 .. Len(frames) /\ DOMAIN rest = 1 .. Len(rest)
        /\ DOMAIN stk = 1 .. (Len(frames) + Len(rest))
        /\ \A i \in 1 .. (Len(frames) + Len(rest)) :
             stk[i] = IF i <= Len(frames) THEN frames[i] ELSE rest[i - Len(frames)]
    BY <1>1, ConcatProperties, LenProperties
  <2>. HIDE DEF stk, rest
  <2>3. SUFFICES ASSUME NEW i \in DOMAIN stk, NEW j \in DOMAIN stk, i < j
                 PROVE  stk[j].chain \subseteq stk[i].chain
    BY DEF ChainsNest, stk
  <2>. DEFINE n == Len(frames)
  <2>4. n \in Nat /\ i \in Int /\ j \in Int
    BY <2>2
  <2>5. i <= n => i \in DOMAIN frames /\ stk[i] = frames[i]
    BY <2>2
  <2>6. j <= n => j \in DOMAIN frames /\ stk[j] = frames[j]
    BY <2>2
  <2>7. ~(i <= n) => i - n \in DOMAIN rest /\ stk[i] = rest[i - n]
    BY <2>2
  <2>8. ~(j <= n) => j - n \in DOMAIN rest /\ stk[j] = rest[j - n]
    BY <2>2
  <2>. HIDE DEF n
  <2>9. ~(i <= n) => ~(j <= n) /\ i - n < j - n
    BY <2>3, <2>4
  <2>10. \A k \in DOMAIN frames : frames[k].chain = top.chain \cup {p.name}
    BY DEF Range
  <2>11. \A k \in DOMAIN rest : rest[k].chain \subseteq top.chain
    <3>1. \A k \in DOMAIN rest : rest[k] \in Range(stack)
      BY <1>1 DEF Range
    <3>. QED  BY <1>1, <3>1
  <2>12. CASE i <= n
    BY <2>5, <2>6, <2>8, <2>10, <2>11, <2>12
  <2>13. CASE ~(i <= n)
    <3>1. rest[j - n].chain \subseteq rest[i - n].chain
      BY <2>1, <2>7, <2>8, <2>9, <2>13 DEF ChainsNest
    <3>. QED  BY <2>7, <2>8, <2>9, <2>13, <3>1
  <2>. QED  BY <2>12, <2>13
<1>4. /\ DOMAIN fnd = DOMAIN found \cup {new} /\ new \notin DOMAIN found
      /\ fnd[new] = p /\ \A i \in DOMAIN found : fnd[i] = found[i]
  <2>1. /\ Len(found) \in Nat /\ DOMAIN found = 1 .. Len(found)
        /\ DOMAIN fnd = 1 .. (Len(found) + 1)
        /\ fnd[new] = p /\ \A i \in 1 .. Len(found) : fnd[i] = found[i]
    BY AppendProperties, LenProperties
  <2>. QED  BY <2>1
<1>. HIDE DEF top, rest, stk, fnd, new
<1>5. \A i \in Once(fnd) : i \in DOMAIN fnd
  BY DEF Once
<1>6. \A i \in Once(fnd) \ {new} :
        /\ i \in DOMAIN found /\ i \in Once(found) /\ found[i].name # p.name /\ fnd[i] = found[i]
  <2>1. SUFFICES ASSUME NEW i \in Once(fnd), i # new
                 PROVE  i \in Once(found) /\ found[i].name # p.name
    BY <1>4, <1>5
  <2>2. i \in DOMAIN found /\ fnd[i] = found[i]
    BY <1>4, <1>5, <2>1
  <2>3. \A j \in DOMAIN fnd : fnd[j].name = fnd[i].name => j = i
    BY <2>1 DEF Once, Named
  <2>4. \A j \in DOMAIN found : found[j].name = found[i].name => j = i
    BY <1>4, <2>2, <2>3
  <2>5. found[i].name # p.name
    BY <1>4, <2>1, <2>2, <2>3
  <2>. QED  BY <2>2, <2>4, <2>5 DEF Once, Named
<1>7. \A j \in DOMAIN found : new \in Once(fnd) => found[j].name # p.name
  BY <1>4 DEF Once, Named
<1>8. \A j : Requires(fnd, new, j) => Pending(fnd, stk, new, j)
  <2>1. SUFFICES ASSUME NEW j, fnd[j].name \in DOMAIN p.deps PROVE Pending(fnd, stk, new, j)
    BY <1>4 DEF Requires
  <2>2. PICK f \in Range(frames) : f.name = fnd[j].name
    BY <2>1
  <2>3. fnd[new].name \in f.chain /\ f \in Range(stk)
    BY <1>2, <1>4
  <2>. QED  BY <2>2, <2>3 DEF Pending
<1>9. \A i, j \in Once(fnd) \ {new} :
        /\ Requires(fnd, i, j) <=> Requires(found, i, j)
        /\ Pending(found, stack, i, j) =>
             \/ Pending(fnd, stk, i, j)
             \/ found[j].name = top.name /\ found[i].name \in top.chain
  <2>1. SUFFICES ASSUME NEW i \in Once(fnd) \ {new}, NEW j \in Once(fnd) \ {new}
        PROVE /\ Requires(fnd, i, j) <=> Requires(found, i, j)
              /\ Pending(found, stack, i, j) =>
                   \/ Pending(fnd, stk, i, j)
                   \/ found[j].name = top.name /\ found[i].name \in top.chain
    BY Zenon
  <2>2. fnd[i] = found[i] /\ fnd[j] = found[j]
    BY <1>6
  <2>. QED  BY <1>1, <1>2, <2>2 DEF Requires, Pending
<1>10. top.name = p.name
  BY DEF top
<1>11. DoneIsClosed(fnd, stk)
  <2>1. SUFFICES ASSUME NEW i \in Once(fnd), NEW j \in Once(fnd), NEW f \in Range(stk),
                        Requires(fnd, i, j), fnd[j].name \in f.chain, fnd[i].name \notin f.chain
                 PROVE  Pending(fnd, stk, i, j)
    BY DEF DoneIsClosed
  <2>2. CASE i = new
    BY <1>8, <2>1, <2>2
  <2>3. CASE i # new /\ j # new
    <3>1. i \in Once(found) /\ j \in Once(found) /\ fnd[i] = found[i] /\ fnd[j] = found[j]
          /\ found[j].name # p.name /\ Requires(found, i, j)
      BY <1>6, <1>9, <2>1, <2>3
    <3>2. PICK g \in Range(stack) : found[j].name \in g.chain /\ found[i].name \notin g.chain
      <4>1. CASE f \in Range(rest)
        BY <1>1, <2>1, <3>1, <4>1
      <4>2. CASE f \in Range(frames)
        <5>1. found[j].name \in top.chain /\ found[i].name \notin top.chain
          BY <2>1, <3>1, <4>2 DEF top
        <5>. QED  BY <1>1, <5>1
      <4>. QED  BY <1>2, <4>1, <4>2
    <3>3. Pending(found, stack, i, j)
      BY <3>1, <3>2 DEF DoneIsClosed
    <3>. QED  BY <1>9, <1>10, <2>3, <3>1, <3>3
  <2>4. CASE i # new /\ j = new
    <3>1. i \in DOMAIN found /\ fnd[i] = found[i]
      BY <1>6, <2>4
    <3>2. p.name \in DOMAIN found[i].deps /\ \A k \in DOMAIN found : found[k].name # p.name
      BY <1>4, <1>7, <2>1, <2>4, <3>1 DEF Requires
    <3>3. PICK g \in Range(stack) : g.name = p.name /\ found[i].name \in g.chain
      BY <3>1, <3>2
    <3>4. found[i].name \in top.chain
      BY <1>1, <3>3
    <3>5. f \in Range(rest) /\ p.name \in f.chain
      BY <1>2, <1>4, <2>1, <2>4, <3>1, <3>4 DEF top
    <3>6. p.name \in top.chain
      BY <1>1, <3>5
    <3>. QED  BY <1>10, <3>6 DEF top
  <2>. QED  BY <2>2, <2>3, <2>4
<1>12. Acyclic(fnd, stk)
  <2>1. SUFFICES ASSUME NEW T \in SUBSET Once(fnd), T # {}
                 PROVE  \E i \in T : \A j \in T :
                          Requires(fnd, i, j) => Pending(fnd, stk, i, j)
    BY DEF Acyclic
  <2>2. CASE new \in T
    BY <1>8, <2>2
  <2>3. CASE new \notin T
    <3>1. T \in SUBSET Once(found)
      BY <1>6, <2>1, <2>3
    <3>2. PICK i \in T : \A j \in T : Requires(found, i, j) => Pending(found, stack, i, j)
      BY <2>1, <3>1 DEF Acyclic
    <3>3. \A j \in T : found[j].name # top.name
      BY <1>6, <1>10, <2>1, <2>3
    <3>. QED  BY <1>9, <2>1, <2>3, <3>2, <3>3
  <2>. QED  BY <2>2, <2>3
<1>. QED  BY <1>3, <1>11, <1>12 DEF stk, rest, fnd

-----------------------------------------------------------------------------
(* Commits and packages.                                                   *)

\* A commit that is known is a commit, and a directory has none.
LEMMA KnownCommit ==
  ASSUME ProcShape, proc.step \in Resolves, NEW n, NEW dep, Known(n, dep)
  PROVE  CommitOf(n, dep, proc.cloned) \in IF dep.src \in Dir THEN {NoCommit} ELSE Commit
<1>1. CASE dep.src \in Dir
  BY <1>1 DEF CommitOf
<1>2. CASE dep.src \notin Dir /\ IsPinned(n, dep)
  <2>1. proc.existing[n].rev \in Commit
    BY <1>2 DEF IsPinned, ProcShape, IsLock, Running, Resolves
  <2>. QED  BY <1>2, <2>1 DEF CommitOf
<1>3. CASE dep.src \notin Dir /\ ~IsPinned(n, dep)
  <2>1. dep.src \in DOMAIN proc.cloned /\ HasRef(dep) /\ dep.src \in Url
        /\ proc.cloned[dep.src] \in Commit
    BY <1>3 DEF Known, ProcShape
  <2>2. ResolveRef(dep, proc.cloned[dep.src]) \in Commit
    BY <2>1, RepositoryAssumption DEF ResolveRef, HasRef
  <2>. QED  BY <1>3, <2>2 DEF CommitOf
<1>. QED  BY <1>1, <1>2, <1>3

\* The clones may grow during a resolve: what was known stays as it was.
LEMMA KnownStays ==
  ASSUME proc'.existing = proc.existing,
         \A u \in DOMAIN proc.cloned : u \in DOMAIN proc'.cloned /\ proc'.cloned[u] = proc.cloned[u],
         NEW n, NEW dep, Known(n, dep)
  PROVE  Known(n, dep)' /\ CommitOf(n, dep, proc.cloned)' = CommitOf(n, dep, proc.cloned)
<1>1. IsPinned(n, dep)' <=> IsPinned(n, dep)
  BY DEF IsPinned
<1>2. Known(n, dep)'
  BY <1>1 DEF Known, HasRef
<1>. QED  BY <1>1, <1>2 DEF CommitOf, Known, ResolveRef

LEMMA PackageFields ==
  ASSUME NEW n, NEW dep, NEW commit
  PROVE  LET p == Package(n, dep, commit)
             c == IF dep.src \in Dir THEN dep.src ELSE commit
         IN  /\ p.name = n /\ p.dep = dep /\ p.commit = commit
             /\ p.version = Content[c].version /\ p.deps = Content[c].deps
BY DEF Package

\* A package has a version and dependencies.
LEMMA PackageSound ==
  ASSUME NEW n, NEW dep \in Dependency, NEW commit,
         dep.src \in Url => commit \in Commit
  PROVE  Package(n, dep, commit).version \in Version /\ IsDeps(Package(n, dep, commit).deps)
<1>. DEFINE c == IF dep.src \in Dir THEN dep.src ELSE commit
<1>1. c \in Commit \cup Dir
  BY DEF Dependency
<1>. HIDE DEF c
<1>2. Content[c].version \in Version /\ IsDeps(Content[c].deps)
  BY <1>1, ContentAssumption
<1>. QED  BY <1>2, PackageFields DEF c

LEMMA FoundPackages ==
  ASSUME FilesSound, FoundSound, proc.step \in Resolves, NEW p \in Range(proc.found)
  PROVE  p.version \in Version /\ IsDeps(p.deps)
<1>1. /\ p.dep \in Dependency /\ p = Package(p.name, p.dep, p.commit)
      /\ p.dep.src \in Url => p.commit \in Commit
  BY DEF FoundSound, FilesSound
<1>2. /\ Package(p.name, p.dep, p.commit).version \in Version
      /\ IsDeps(Package(p.name, p.dep, p.commit).deps)
  BY <1>1, PackageSound
<1>. QED  BY <1>1, <1>2

\* What was served stays so.
LEMMA ServedStays ==
  ASSUME proc'.existing = proc.existing,
         \A u \in DOMAIN proc.cloned : u \in DOMAIN proc'.cloned /\ proc'.cloned[u] = proc.cloned[u],
         Range(proc.found) \subseteq Range(proc'.found),
         NEW n, NEW dep, Served(n, dep)
  PROVE  Served(n, dep)'
<1>1. Known(n, dep)' /\ CommitOf(n, dep, proc.cloned)' = CommitOf(n, dep, proc.cloned)
  BY KnownStays DEF Served
<1>2. PICK p \in Range(proc.found) :
        p.name = n /\ p.dep.src = dep.src
        /\ p.version = Package(n, dep, CommitOf(n, dep, proc.cloned)).version
  BY DEF Served
<1>3. p \in Range(proc.found)'
  BY <1>2
<1>4. p.version = Package(n, dep, CommitOf(n, dep, proc.cloned)').version
  BY <1>1, <1>2
<1>. QED  BY <1>1, <1>2, <1>3, <1>4 DEF Served, Package

ProcFields == {"step", "op", "root", "original", "existing", "stack", "found", "cloned",
               "commit", "settled", "ready"}

\* The next step of the same resolve.
LEMMA StepFields ==
  ASSUME DOMAIN proc = ProcFields, NEW s, To(s)
  PROVE  /\ DOMAIN proc' = ProcFields /\ proc'.step = s
         /\ proc'.op = proc.op /\ proc'.root = proc.root /\ proc'.original = proc.original
         /\ proc'.existing = proc.existing /\ proc'.stack = proc.stack
         /\ proc'.found = proc.found /\ proc'.cloned = proc.cloned
         /\ proc'.commit = proc.commit /\ proc'.settled = proc.settled
         /\ proc'.ready = proc.ready
BY DEF To, ProcFields

LEMMA WalkOnFields ==
  ASSUME DOMAIN proc = ProcFields, NEW commit, NEW cloned, WalkOn(commit, cloned)
  PROVE  LET p == Package(Top.name, Top.dep, commit)
         IN  /\ DOMAIN proc' = ProcFields /\ proc'.step = "walk"
             /\ proc'.op = proc.op /\ proc'.root = proc.root /\ proc'.original = proc.original
             /\ proc'.existing = proc.existing /\ proc'.settled = proc.settled
             /\ proc'.ready = proc.ready /\ proc'.cloned = cloned /\ proc'.commit = NoCommit
             /\ Visited(p) => proc'.found = proc.found /\ proc'.stack = Tail(proc.stack)
             /\ ~Visited(p) =>
                  /\ proc'.found = Append(proc.found, p)
                  /\ proc'.stack = Frames(p.deps, Top.chain \cup {p.name}) \o Tail(proc.stack)
<1>. DEFINE p == Package(Top.name, Top.dep, commit)
            fnd == IF Visited(p) THEN proc.found ELSE Append(proc.found, p)
            stk == IF Visited(p) THEN Tail(proc.stack)
                   ELSE Frames(p.deps, Top.chain \cup {p.name}) \o Tail(proc.stack)
<1>1. proc' = [proc EXCEPT !.step = "walk", !.cloned = cloned, !.commit = NoCommit,
                           !.found = fnd, !.stack = stk]
  BY DEF WalkOn
<1>. HIDE DEF fnd, stk
<1>2. /\ DOMAIN proc' = ProcFields /\ proc'.step = "walk"
      /\ proc'.op = proc.op /\ proc'.root = proc.root /\ proc'.original = proc.original
      /\ proc'.existing = proc.existing /\ proc'.settled = proc.settled
      /\ proc'.ready = proc.ready /\ proc'.cloned = cloned /\ proc'.commit = NoCommit
      /\ proc'.found = fnd /\ proc'.stack = stk
  BY <1>1 DEF ProcFields
<1>. QED  BY <1>2 DEF fnd, stk

-----------------------------------------------------------------------------
(* The inductive invariant.                                                *)

\* A step of a resolve that changes neither what it knows nor the markers.
LEMMA StepKeeps ==
  ASSUME IInv, proc.step \in Resolves, NEW s \in Resolves, To(s), marked' = marked
  PROVE  ProcShape' /\ FoundSound' /\ NothingForgotten' /\ WalkIsDepthFirst'
<1>1. DOMAIN proc = ProcFields
  BY DEF IInv, ProcShape, ProcFields
<1>2. /\ DOMAIN proc' = ProcFields /\ proc'.step = s
      /\ proc'.op = proc.op /\ proc'.root = proc.root /\ proc'.original = proc.original
      /\ proc'.existing = proc.existing /\ proc'.stack = proc.stack
      /\ proc'.found = proc.found /\ proc'.cloned = proc.cloned
  BY <1>1, StepFields
<1>3. \A n, dep : Known(n, dep) =>
        Known(n, dep)' /\ CommitOf(n, dep, proc.cloned)' = CommitOf(n, dep, proc.cloned)
  BY <1>2, KnownStays
<1>4. ProcShape'
  <2>1. s # "edit" /\ s # "idle" /\ proc.step # "idle"
    BY DEF Resolves
  <2>2. IsDeps(proc.root) /\ IsDeps(proc.original) /\ IsLock(proc.existing)
    BY <2>1 DEF IInv, ProcShape, Running
  <2>3. IsDeps(proc.root)' /\ IsDeps(proc.original)' /\ IsLock(proc.existing)'
    BY <1>2, <2>2 DEF IsDeps, IsLock
  <2>. QED  BY <1>2, <2>1, <2>3 DEF IInv, ProcShape, ProcFields, Running
<1>5. FoundSound'
  <2>1. \A p \in Range(proc.found) : FoundSound => Known(p.name, p.dep)
    BY DEF FoundSound
  <2>. QED  BY <1>2, <1>3, <2>1 DEF IInv, FoundSound, Package
<1>6. NothingForgotten'
  <2>1. \A n, dep : Served(n, dep) => Served(n, dep)'
    BY <1>2, ServedStays
  <2>. QED  BY <1>2, <2>1 DEF IInv, NothingForgotten
<1>7. WalkIsDepthFirst'
  BY <1>2 DEF IInv, WalkIsDepthFirst, ChainsNest, DoneIsClosed, Acyclic, Pending, Requires,
              Once, Named
<1>. QED  BY <1>4, <1>5, <1>6, <1>7

\* The clones a resolve may have.
IsClones(cloned) ==
  /\ DOMAIN cloned \subseteq Url
  /\ \A u \in DOMAIN cloned : cloned[u] \in Commit
  /\ \A u \in DOMAIN proc.cloned : u \in DOMAIN cloned /\ cloned[u] = proc.cloned[u]

\* The package of the top of the stack is found.
LEMMA WalkOnKeeps ==
  ASSUME IInv, proc.step \in Resolves, proc.stack # <<>>, Top.name \notin Top.chain,
         NEW commit, NEW cloned, IsClones(cloned), WalkOn(commit, cloned),
         marked \subseteq marked',
         Known(Top.name, Top.dep)
           \/ (Top.dep.src \in DOMAIN cloned /\ HasRef(Top.dep)),
         commit = CommitOf(Top.name, Top.dep, cloned),
         Top.dep.src \in Url => commit \in marked' /\ commit \in Commit
  PROVE  ProcShape' /\ FoundSound' /\ NothingForgotten' /\ WalkIsDepthFirst'
<1>0. PICK top : top = Top
  OBVIOUS
<1>. DEFINE p == Package(top.name, top.dep, commit)
            frames == Frames(p.deps, top.chain \cup {p.name})
<1>1. DOMAIN proc = ProcFields
  BY DEF IInv, ProcShape, ProcFields
<1>2. /\ DOMAIN proc' = ProcFields /\ proc'.step = "walk"
      /\ proc'.op = proc.op /\ proc'.root = proc.root /\ proc'.original = proc.original
      /\ proc'.existing = proc.existing
      /\ proc'.cloned = cloned
      /\ Visited(p) => proc'.found = proc.found /\ proc'.stack = Tail(proc.stack)
      /\ ~Visited(p) =>
           /\ proc'.found = Append(proc.found, p)
           /\ proc'.stack = frames \o Tail(proc.stack)
  BY <1>0, <1>1, WalkOnFields
<1>3. /\ proc.stack \in Seq(Frame) /\ proc.found \in Seq(Range(proc.found))
      /\ top \in Frame /\ Tail(proc.stack) \in Seq(Frame)
      /\ Range(proc.stack) = {top} \cup Range(Tail(proc.stack))
  <2>1. proc.stack \in Seq(Frame) /\ proc.found \in Seq(Range(proc.found))
    BY DEF IInv, ProcShape, Frame
  <2>. QED  BY <1>0, <2>1, StackTop DEF Top
<1>4. p.name = top.name /\ p.dep = top.dep /\ p.commit = commit
  BY PackageFields
<1>5. top.name \in Name /\ top.dep \in Dependency /\ top.chain \in SUBSET Name
  BY <1>3 DEF Frame
<1>6. p.version \in Version /\ IsDeps(p.deps)
  BY <1>0, <1>5, PackageSound
<1>7. /\ frames \in Seq(Frame)
      /\ \A f \in Range(frames) :
           f.name \in DOMAIN p.deps /\ f.dep = p.deps[f.name]
           /\ f.chain = top.chain \cup {p.name}
      /\ \A n \in DOMAIN p.deps : \E f \in Range(frames) : f.name = n
  <2>. DEFINE deps == p.deps
              chain == top.chain \cup {p.name}
  <2>1. IsDeps(deps) /\ chain \in SUBSET Name
    BY <1>4, <1>5, <1>6
  <2>. HIDE DEF deps, chain, p
  <2>2. /\ Frames(deps, chain) \in Seq(Frame)
        /\ \A f \in Range(Frames(deps, chain)) :
              f.name \in DOMAIN deps /\ f.dep = deps[f.name] /\ f.chain = chain
        /\ \A n \in DOMAIN deps : \E f \in Range(Frames(deps, chain)) : f.name = n
    BY <2>1, FramesSound
  <2>. QED  BY <2>2 DEF deps, chain
<1>8. \A n, dep : Known(n, dep) =>
        Known(n, dep)' /\ CommitOf(n, dep, proc.cloned)' = CommitOf(n, dep, proc.cloned)
  BY <1>2, KnownStays DEF IsClones
<1>9. Known(top.name, top.dep)'
      /\ CommitOf(top.name, top.dep, proc.cloned)' = commit
  <2>1. IsPinned(top.name, top.dep)' <=> IsPinned(top.name, top.dep)
    BY <1>2 DEF IsPinned
  <2>2. Known(top.name, top.dep)'
    BY <1>0, <1>2, <1>8 DEF Known, HasRef
  <2>. QED  BY <1>0, <1>2, <2>1, <2>2 DEF CommitOf, ResolveRef
<1>10. /\ ~Visited(p) => Append(proc.found, p) \in Seq(Range(proc.found) \cup {p})
       /\ ~Visited(p) => Range(proc'.found) = Range(proc.found) \cup {p}
       /\ Visited(p) => Range(proc'.found) = Range(proc.found)
       /\ ~Visited(p) => proc'.stack \in Seq(Frame)
       /\ ~Visited(p) => Range(proc'.stack) = Range(frames) \cup Range(Tail(proc.stack))
  <2>. HIDE DEF p, frames
  <2>1. proc.found \in Seq(Range(proc.found) \cup {p})
    BY <1>3, SeqMonotonic
  <2>2. Append(proc.found, p) \in Seq(Range(proc.found) \cup {p})
        /\ Range(Append(proc.found, p)) = Range(proc.found) \cup {p}
    BY <2>1, AppendProperties, AppendRange
  <2>. DEFINE rest == Tail(proc.stack)
  <2>3. frames \in Seq(Frame) /\ rest \in Seq(Frame)
    BY <1>3, <1>7
  <2>. HIDE DEF rest
  <2>4. frames \o rest \in Seq(Frame) /\ Range(frames \o rest) = Range(frames) \cup Range(rest)
    BY <2>3, ConcatProperties, RangeConcatenation
  <2>. QED  BY <1>2, <2>2, <2>4 DEF rest
<1>. HIDE DEF p, frames
<1>11. Range(proc.found) \subseteq Range(proc'.found)
  BY <1>10
<1>12. \A n, dep : Served(n, dep) => Served(n, dep)'
  BY <1>2, <1>11, ServedStays DEF IsClones
<1>13. ProcShape'
  <2>1. proc.step # "idle"
    BY DEF Resolves
  <2>2. IsDeps(proc.root) /\ IsDeps(proc.original) /\ IsLock(proc.existing)
    BY <2>1 DEF IInv, ProcShape, Running
  <2>3. IsDeps(proc.root)' /\ IsDeps(proc.original)' /\ IsLock(proc.existing)'
    BY <1>2, <2>2 DEF IsDeps, IsLock
  <2>4. proc'.stack \in Seq(Frame)
    BY <1>2, <1>3, <1>10
  <2>5. proc'.found \in Seq(Range(proc'.found))
    BY <1>2, <1>3, <1>10
  <2>6. DOMAIN proc'.cloned \subseteq Url /\ \A u \in DOMAIN proc'.cloned : proc'.cloned[u] \in Commit
    BY <1>2 DEF IsClones
  <2>7. proc'.op \in {"build", "locked", "add"}
    BY <1>2 DEF IInv, ProcShape
  <2>8. (proc.step \in {"idle", "edit"} \cup Resolves)' /\ (proc.step = "edit" => proc.op = "add")'
    BY <1>2 DEF Resolves
  <2>. QED  BY <1>2, <2>3, <2>4, <2>5, <2>6, <2>7, <2>8 DEF ProcShape, ProcFields, Frame
<1>14. FoundSound'
  <2>1. SUFFICES ASSUME NEW q \in Range(proc'.found)
        PROVE  /\ q.name \in Name /\ q.dep \in Dependency
               /\ q = Package(q.name, q.dep, q.commit)
               /\ Known(q.name, q.dep)' /\ q.commit = CommitOf(q.name, q.dep, proc.cloned)'
               /\ q.dep.src \in Url => q.commit \in marked'
    BY DEF FoundSound, Package
  <2>2. CASE q \in Range(proc.found)
    <3>1. /\ q.name \in Name /\ q.dep \in Dependency
          /\ q = Package(q.name, q.dep, q.commit)
          /\ Known(q.name, q.dep) /\ q.commit = CommitOf(q.name, q.dep, proc.cloned)
          /\ q.dep.src \in Url => q.commit \in marked
      BY <2>2 DEF IInv, FoundSound
    <3>. QED  BY <1>8, <3>1
  <2>3. CASE q = p
    <3>1. q.name = top.name /\ q.dep = top.dep /\ q.commit = commit
      BY <1>4, <2>3
    <3>2. q = Package(q.name, q.dep, q.commit)
      BY <1>4, <2>3 DEF p
    <3>3. Known(q.name, q.dep)' /\ q.commit = CommitOf(q.name, q.dep, proc.cloned)'
      BY <1>9, <3>1
    <3>. QED  BY <1>0, <1>5, <3>1, <3>2, <3>3
  <2>. QED  BY <1>10, <2>1, <2>2, <2>3
<1>15. Served(top.name, top.dep)'
  <2>1. p.version = Package(top.name, top.dep, commit).version
    BY DEF p
  <2>2. \E q \in Range(proc'.found) :
          q.name = top.name /\ q.dep.src = top.dep.src /\ q.version = p.version
    <3>1. CASE Visited(p)
      BY <1>2, <1>4, <3>1 DEF Visited
    <3>2. CASE ~Visited(p)
      BY <1>4, <1>10, <3>2
    <3>. QED  BY <3>1, <3>2
  <2>3. Package(top.name, top.dep, CommitOf(top.name, top.dep, proc.cloned))'.version
          = Package(top.name, top.dep, commit).version
    BY <1>9 DEF Package
  <2>. QED  BY <1>9, <2>1, <2>2, <2>3 DEF Served
<1>16. NothingForgotten'
  <2>1. \A f \in Range(proc.stack) : f = top \/ f \in Range(proc'.stack)
    BY <1>2, <1>3, <1>10
  <2>2. ASSUME NEW n \in DOMAIN proc.root
        PROVE  \/ Served(n, proc.root[n])'
               \/ \E f \in Range(proc'.stack) : f.name = n /\ f.dep = proc.root[n]
    <3>1. CASE Served(n, proc.root[n])
      BY <1>2, <1>12, <3>1
    <3>2. CASE \E f \in Range(proc.stack) : f.name = n /\ f.dep = proc.root[n]
      <4>1. PICK f \in Range(proc.stack) : f.name = n /\ f.dep = proc.root[n]
        BY <3>2
      <4>2. f = top => Served(f.name, f.dep)'
        BY <1>15
      <4>3. f = top => Served(n, proc.root[n])'
        BY <1>2, <4>1, <4>2
      <4>. QED  BY <2>1, <4>1, <4>3
    <3>. QED  BY <3>1, <3>2 DEF IInv, NothingForgotten
  <2>3. ASSUME NEW q \in Range(proc'.found), NEW n \in DOMAIN q.deps
        PROVE  \/ Served(n, q.deps[n])'
               \/ \E f \in Range(proc'.stack) :
                     f.name = n /\ f.dep = q.deps[n] /\ q.name \in f.chain
    <3>1. CASE q \in Range(proc.found) /\ Served(n, q.deps[n])
      BY <1>12, <3>1
    <3>2. CASE q \in Range(proc.found) /\ ~Served(n, q.deps[n])
      <4>1. PICK f \in Range(proc.stack) : f.name = n /\ f.dep = q.deps[n] /\ q.name \in f.chain
        BY <3>2 DEF IInv, NothingForgotten
      <4>2. f = top => Served(f.name, f.dep)'
        BY <1>15
      <4>3. f = top => Served(n, q.deps[n])'
        BY <4>1, <4>2
      <4>. QED  BY <2>1, <4>1, <4>3
    <3>3. CASE q \notin Range(proc.found)
      <4>1. q = p /\ ~Visited(p)
        BY <1>10, <3>3
      <4>2. PICK f \in Range(frames) : f.name = n
        BY <1>7, <4>1
      <4>3. f.dep = q.deps[n] /\ q.name \in f.chain /\ f \in Range(proc'.stack)
        BY <1>7, <1>10, <4>1, <4>2
      <4>. QED  BY <4>2, <4>3
    <3>. QED  BY <3>1, <3>2, <3>3
  <2>4. proc'.root = proc.root
    BY <1>2
  <2>. QED  BY <2>2, <2>3, <2>4 DEF NothingForgotten
<1>17. WalkIsDepthFirst'
  <2>1. ChainsNest(proc.stack) /\ DoneIsClosed(proc.found, proc.stack)
        /\ Acyclic(proc.found, proc.stack)
    BY DEF IInv, WalkIsDepthFirst
  <2>2. top.name \notin top.chain
    BY <1>0
  <2>3. ChainsNest(proc'.stack) /\ DoneIsClosed(proc'.found, proc'.stack)
        /\ Acyclic(proc'.found, proc'.stack)
    <3>1. CASE Visited(p)
      <4>1. ChainsNest(Tail(proc.stack)) /\ DoneIsClosed(proc.found, Tail(proc.stack))
            /\ Acyclic(proc.found, Tail(proc.stack))
        BY <1>3, <2>1, <2>2, TailKeepsOrder, <1>0 DEF Top
      <4>. QED  BY <1>2, <3>1, <4>1
    <3>2. CASE ~Visited(p)
      <4>. DEFINE P == Range(proc.found) \cup {p}
      <4>1. proc.found \in Seq(P) /\ p \in P
        BY <1>3, SeqMonotonic
      <4>2. \A i \in DOMAIN proc.found : \A n \in DOMAIN proc.found[i].deps :
              \/ \E j \in DOMAIN proc.found : proc.found[j].name = n
              \/ \E f \in Range(proc.stack) : f.name = n /\ proc.found[i].name \in f.chain
        BY DEF IInv, NothingForgotten, Served, Range
      <4>3. \A f \in Range(frames) : f.chain = top.chain \cup {p.name}
        BY <1>7
      <4>4. \A n \in DOMAIN p.deps : \E f \in Range(frames) : f.name = n
        BY <1>7
      <4>5. p.name = top.name
        BY <1>4
      <4>6. frames \in Seq(Frame)
        BY <1>7
      <4>. DEFINE fnd == proc.found
                  stk == proc.stack
      <4>. HIDE DEF P, fnd, stk
      <4>7. ChainsNest(frames \o Tail(stk)) /\ DoneIsClosed(Append(fnd, p), frames \o Tail(stk))
            /\ Acyclic(Append(fnd, p), frames \o Tail(stk))
        <5>1. fnd \in Seq(P) /\ p \in P /\ stk \in Seq(Frame) /\ stk # <<>>
              /\ stk[1] = top
          BY <1>0, <1>3, <4>1 DEF fnd, stk, Top
        <5>2. ChainsNest(stk) /\ DoneIsClosed(fnd, stk) /\ Acyclic(fnd, stk)
          BY <2>1 DEF fnd, stk
        <5>3. \A i \in DOMAIN fnd : \A n \in DOMAIN fnd[i].deps :
                \/ \E j \in DOMAIN fnd : fnd[j].name = n
                \/ \E f \in Range(stk) : f.name = n /\ fnd[i].name \in f.chain
          BY <4>2 DEF fnd, stk
        <5>. QED  BY <2>2, <4>3, <4>4, <4>5, <4>6, <5>1, <5>2, <5>3, AppendKeepsOrder
      <4>. QED  BY <1>2, <3>2, <4>7 DEF fnd, stk
    <3>. QED  BY <3>1, <3>2
  <2>. QED  BY <2>3 DEF WalkIsDepthFirst, ChainsNest, DoneIsClosed, Acyclic, Pending, Requires,
                        Once, Named
<1>. QED  BY <1>13, <1>14, <1>16, <1>17

\* A process ends.
LEMMA EndKeeps ==
  ASSUME FilesSound', NEW outcome, proc' = Idle(outcome)
  PROVE  IInv'
<1>1. proc'.step = "idle"
  BY DEF Idle
<1>2. ProcShape'
  BY <1>1 DEF ProcShape, Running, Resolves
<1>. QED
  BY <1>1, <1>2 DEF IInv, FilesHeld, Running, CheckoutUnderWay, FoundSound, NothingForgotten,
                    WalkIsDepthFirst, Resolves

\* A resolve begins.
LEMMA ResolvingKeeps ==
  ASSUME IsLock(lock), FilesSound', lock' = lock,
         NEW op \in {"build", "locked", "add"}, NEW deps, NEW original, NEW known,
         IsDeps(deps), IsDeps(original), op # "add" => manifest' = original,
         proc' = Resolving(op, deps, original, known)
  PROVE  IInv'
<1>. DEFINE stk == Frames(deps, {})
<1>1. /\ DOMAIN proc' = ProcFields /\ proc'.step = "walk" /\ proc'.op = op /\ proc'.root = deps
      /\ proc'.original = original /\ proc'.existing = lock /\ proc'.stack = stk
      /\ proc'.found = <<>> /\ proc'.cloned = <<>>
  BY DEF Resolving, ProcFields
<1>2. /\ stk \in Seq(Frame)
      /\ \A f \in Range(stk) :
           f.name \in DOMAIN deps /\ f.dep = deps[f.name] /\ f.chain = {}
      /\ \A n \in DOMAIN deps : \E f \in Range(stk) : f.name = n
  BY FramesSound
<1>. HIDE DEF stk
<1>3. <<>> \in Seq(Range(<<>>)) /\ DOMAIN <<>> = {} /\ Range(<<>>) = {}
  BY EmptySeq, LenProperties DEF Range
<1>4. ProcShape'
  <2>1. IsDeps(proc.root)' /\ IsDeps(proc.original)' /\ IsLock(proc.existing)'
    BY <1>1 DEF IsDeps, IsLock
  <2>2. DOMAIN proc'.cloned = {} /\ proc'.found \in Seq(Range(proc'.found))
    BY <1>1, <1>3
  <2>3. proc'.stack \in Seq(Frame)
    BY <1>1, <1>2
  <2>. QED  BY <1>1, <2>1, <2>2, <2>3 DEF ProcShape, ProcFields, Resolves, Frame
<1>5. FilesHeld'
  BY <1>1 DEF FilesHeld
<1>6. CheckoutUnderWay'
  BY <1>1 DEF CheckoutUnderWay
<1>7. FoundSound'
  BY <1>1, <1>3 DEF FoundSound
<1>8. NothingForgotten'
  <2>1. \A n \in DOMAIN deps : \E f \in Range(stk) : f.name = n /\ f.dep = deps[n]
    BY <1>2
  <2>. QED  BY <1>1, <1>3, <2>1 DEF NothingForgotten
<1>9. WalkIsDepthFirst'
  <2>1. ChainsNest(stk)
    BY <1>2 DEF ChainsNest, Range
  <2>2. ChainsNest(proc.stack)'
    BY <1>1, <2>1 DEF ChainsNest
  <2>3. Once(proc.found)' = {}
    BY <1>1, <1>3 DEF Once
  <2>4. DoneIsClosed(proc.found, proc.stack)' /\ Acyclic(proc.found, proc.stack)'
    BY <2>3 DEF DoneIsClosed, Acyclic
  <2>. QED  BY <2>2, <2>4 DEF WalkIsDepthFirst
<1>. QED  BY <1>4, <1>5, <1>6, <1>7, <1>8, <1>9 DEF IInv

\* A history has a commit wherever its branch is.
LEMMA ClonedSound ==
  ASSUME IInv, proc.step \in Resolves, NEW u \in Url
  PROVE  IsClones(Cloned(u)) /\ u \in DOMAIN Cloned(u)
<1>1. History[u][pushed[u]] \in Commit
  <2>1. History[u] \in Seq(Commit) /\ pushed[u] \in DOMAIN History[u]
    BY RepositoryAssumption DEF IInv, FilesSound
  <2>. QED  BY <2>1, LenProperties
<1>2. DOMAIN proc.cloned \subseteq Url /\ \A x \in DOMAIN proc.cloned : proc.cloned[x] \in Commit
  BY DEF IInv, ProcShape
<1>. QED  BY <1>1, <1>2 DEF IsClones, Cloned, With

\* The dependencies that a command works on.
LEMMA WithDeps ==
  ASSUME NEW deps, IsDeps(deps), NEW n \in Name, NEW dep \in Dependency
  PROVE  IsDeps(With(deps, n, dep))
BY DEF IsDeps, With

LEMMA InitIInv == Init => IInv
<1>. SUFFICES ASSUME Init PROVE IInv
  OBVIOUS
<1>1. FilesSound
  <2>1. \A u \in Url : 1 \in DOMAIN History[u]
    BY RepositoryAssumption, StackTop
  <2>. QED  BY <2>1, UserAssumption DEF Init, FilesSound, IsLock
<1>2. proc.step = "idle"
  BY DEF Init, Idle
<1>. QED
  BY <1>1, <1>2 DEF IInv, ProcShape, FilesHeld, Running, CheckoutUnderWay, FoundSound,
                    NothingForgotten, WalkIsDepthFirst, Resolves

\* Steps that concern neither the files nor the process change nothing of this.
LEMMA UnchangedKeeps ==
  ASSUME IInv, UNCHANGED <<disk, proc>>,
         pushed' \in [Url -> Nat], \A u \in Url : pushed'[u] \in DOMAIN History[u]
  PROVE  IInv'
<1>1. /\ manifest' = manifest /\ lock' = lock /\ checkout' = checkout /\ marked' = marked
      /\ proc' = proc
  BY DEF disk
<1>2. FilesSound'
  BY <1>1 DEF IInv, FilesSound, IsLock, IsDeps
<1>3. ProcShape'
  BY <1>1 DEF IInv, ProcShape, IsDeps, IsLock, Running
<1>4. FilesHeld'
  BY <1>1 DEF IInv, FilesHeld, Running
<1>5. CheckoutUnderWay' /\ FoundSound' /\ NothingForgotten'
  <2>1. \A n, dep : (Known(n, dep)' <=> Known(n, dep)) /\ (Served(n, dep)' <=> Served(n, dep))
    BY <1>1 DEF Known, HasRef, IsPinned, Served, CommitOf, ResolveRef, Package
  <2>2. CheckoutUnderWay'
    BY <1>1 DEF IInv, CheckoutUnderWay, Top, Known, HasRef, IsPinned, CommitOf, ResolveRef
  <2>3. FoundSound'
    BY <1>1 DEF IInv, FoundSound, Known, HasRef, IsPinned, CommitOf, ResolveRef, Package
  <2>4. NothingForgotten'
    BY <1>1, <2>1 DEF IInv, NothingForgotten
  <2>. QED  BY <2>2, <2>3, <2>4
<1>6. WalkIsDepthFirst'
  BY <1>1 DEF IInv, WalkIsDepthFirst, ChainsNest, DoneIsClosed, Acyclic, Pending, Requires, Once,
              Named
<1>. QED  BY <1>2, <1>3, <1>4, <1>5, <1>6 DEF IInv

\* The files in a step that leaves them alone.
LEMMA FilesStay ==
  ASSUME IInv, UNCHANGED <<pushed, disk>>
  PROVE  FilesSound'
BY DEF IInv, FilesSound, disk, IsDeps, IsLock

\* A resolve or a step of it fails.
LEMMA FailsKeeps ==
  ASSUME IInv, proc.step \in Resolves \ {"restore", "restoring"}, UNCHANGED <<pushed, disk>>, Fails
  PROVE  IInv'
<1>1. FilesSound'
  BY FilesStay
<1>2. CASE proc.op = "add"
  <2>1. To("restore") /\ "restore" \in Resolves /\ marked' = marked /\ proc.step \in Resolves
    BY <1>2 DEF Fails, disk, Resolves
  <2>2. ProcShape' /\ FoundSound' /\ NothingForgotten' /\ WalkIsDepthFirst'
    BY <2>1, StepKeeps
  <2>3. proc'.step = "restore" /\ proc'.op = "add" /\ proc'.existing = proc.existing
    BY <1>2, <2>1, StepFields DEF IInv, ProcShape, ProcFields
  <2>4. lock = proc.existing
    BY <2>1 DEF IInv, FilesHeld, Running, Resolves
  <2>5. FilesHeld' /\ CheckoutUnderWay'
    BY <2>3, <2>4 DEF FilesHeld, CheckoutUnderWay, disk
  <2>. QED  BY <1>1, <2>2, <2>5 DEF IInv
<1>3. CASE proc.op # "add"
  BY <1>1, <1>3, EndKeeps DEF Fails
<1>. QED  BY <1>2, <1>3

LEMMA BuildKeeps ==
  ASSUME IInv, NEW op \in {"build", "locked"}, Build(op)
  PROVE  IInv'
<1>1. FilesSound'
  BY FilesStay DEF Build
<1>2. IsDeps(manifest) /\ IsLock(lock) /\ lock' = lock /\ manifest' = manifest
  BY DEF IInv, FilesSound, Build, disk
<1>3. proc' = Resolving(op, manifest, manifest, settled) /\ op \in {"build", "locked", "add"}
  BY DEF Build
<1>. QED  BY <1>1, <1>2, <1>3, ResolvingKeeps

LEMMA AddKeeps ==
  ASSUME IInv, NEW a \in Additions, Add(a[1], a[2])
  PROVE  IInv'
<1>1. IsDeps(manifest) /\ IsDeps(With(manifest, a[1], a[2]))
  <2>1. IsDeps(manifest)
    BY DEF IInv, FilesSound, Add
  <2>. QED  BY <2>1, UserAssumption, WithDeps
<1>2. /\ proc'.step = "edit" /\ proc'.op = "add" /\ proc'.root = With(manifest, a[1], a[2])
      /\ proc'.original = manifest /\ proc'.existing = lock
  BY DEF Add
<1>3. manifest' = Torn /\ lock' = lock /\ IsLock(lock)
  BY DEF Add, IInv, FilesSound
<1>4. FilesSound'
  BY <1>3 DEF Add, IInv, FilesSound, IsLock
<1>5. ProcShape'
  <2>1. IsDeps(proc.root)' /\ IsDeps(proc.original)' /\ IsLock(proc.existing)'
    BY <1>1, <1>2, <1>3 DEF IsDeps, IsLock
  <2>. QED  BY <1>2, <2>1 DEF ProcShape, Resolves
<1>6. FilesHeld'
  BY <1>2, <1>3 DEF FilesHeld
<1>. QED
  BY <1>2, <1>4, <1>5, <1>6 DEF IInv, CheckoutUnderWay, FoundSound, NothingForgotten,
                                WalkIsDepthFirst, Resolves

LEMMA EditedKeeps ==
  ASSUME IInv, Edited
  PROVE  IInv'
<1>1. IsDeps(proc.root) /\ IsDeps(proc.original) /\ IsLock(lock) /\ lock' = lock
      /\ manifest' = proc.root
  BY DEF Edited, IInv, ProcShape, FilesSound, Running
<1>2. FilesSound'
  BY <1>1 DEF Edited, IInv, FilesSound, IsLock, IsDeps
<1>3. proc' = Resolving("add", proc.root, proc.original, proc.settled)
  BY DEF Edited
<1>. QED  BY <1>1, <1>2, <1>3, ResolvingKeeps

\* What is true of the top of the stack.
LEMMA TopSound ==
  ASSUME IInv, proc.step \in Resolves, proc.stack # <<>>
  PROVE  Top.dep \in Dependency /\ Top.dep.src \in Url \cup Dir
         /\ (Top.dep.src \in Dir => Top.dep.src \notin Url)
<1>1. proc.stack \in Seq(Frame)
  BY DEF IInv, ProcShape, Frame
<1>2. Top \in Frame
  BY <1>1, StackTop DEF Top
<1>. QED  BY <1>2, SourceAssumption DEF Frame, Dependency

\* After a package was found the files are held as before.
LEMMA WalkOnHolds ==
  ASSUME IInv, proc.step \in {"walk", "mark"}, NEW commit, NEW cloned, WalkOn(commit, cloned),
         manifest' = manifest, lock' = lock
  PROVE  FilesHeld' /\ CheckoutUnderWay'
<1>1. DOMAIN proc = ProcFields
  BY DEF IInv, ProcShape, ProcFields, Resolves
<1>2. proc'.step = "walk" /\ proc'.op = proc.op /\ proc'.original = proc.original
      /\ proc'.existing = proc.existing
  BY <1>1, WalkOnFields
<1>. QED  BY <1>2 DEF IInv, FilesHeld, Running, CheckoutUnderWay

LEMMA FetchPathKeeps ==
  ASSUME IInv, FetchPath
  PROVE  IInv'
<1>1. proc.step = "walk" /\ proc.step \in Resolves /\ proc.stack # <<>>
      /\ Top.name \notin Top.chain /\ Top.dep.src \in Dir /\ WalkOn(NoCommit, proc.cloned)
  BY DEF FetchPath, Fetchable, Resolves
<1>2. FilesSound'
  BY FilesStay DEF FetchPath
<1>3. IsClones(proc.cloned)
  BY <1>1 DEF IInv, ProcShape, IsClones
<1>4. Known(Top.name, Top.dep) /\ Top.dep.src \notin Url
      /\ NoCommit = CommitOf(Top.name, Top.dep, proc.cloned)
  BY <1>1, TopSound DEF Known, CommitOf
<1>5. manifest' = manifest /\ lock' = lock /\ marked' = marked
  BY DEF FetchPath, disk
<1>6. ProcShape' /\ FoundSound' /\ NothingForgotten' /\ WalkIsDepthFirst'
  BY <1>1, <1>3, <1>4, <1>5, WalkOnKeeps
<1>7. FilesHeld' /\ CheckoutUnderWay'
  BY <1>1, <1>5, WalkOnHolds
<1>. QED  BY <1>2, <1>6, <1>7 DEF IInv

LEMMA FetchPinnedKeeps ==
  ASSUME IInv, FetchPinned
  PROVE  IInv'
<1>. DEFINE commit == proc.existing[Top.name].rev
<1>1. proc.step = "walk" /\ proc.step \in Resolves /\ proc.stack # <<>>
      /\ Top.name \notin Top.chain /\ Top.dep.src \in Url /\ WalkOn(commit, proc.cloned)
      /\ IsPinned(Top.name, Top.dep) /\ commit \in marked
  BY DEF FetchPinned, Fetchable, Resolves, InCache
<1>2. FilesSound'
  BY FilesStay DEF FetchPinned
<1>3. IsClones(proc.cloned)
  BY <1>1 DEF IInv, ProcShape, IsClones
<1>4. Known(Top.name, Top.dep) /\ commit = CommitOf(Top.name, Top.dep, proc.cloned)
  BY <1>1, TopSound DEF Known, CommitOf
<1>5. manifest' = manifest /\ lock' = lock /\ marked' = marked /\ commit \in Commit
  BY <1>1 DEF FetchPinned, disk, IInv, FilesSound
<1>. HIDE DEF commit
<1>6. ProcShape' /\ FoundSound' /\ NothingForgotten' /\ WalkIsDepthFirst'
  BY <1>1, <1>3, <1>4, <1>5, WalkOnKeeps
<1>7. FilesHeld' /\ CheckoutUnderWay'
  BY <1>1, <1>5, WalkOnHolds
<1>. QED  BY <1>2, <1>6, <1>7 DEF IInv

LEMMA FetchGitKeeps ==
  ASSUME IInv, FetchGit
  PROVE  IInv'
<1>0. PICK cloned : cloned = Cloned(Top.dep.src)
  OBVIOUS
<1>. DEFINE commit == CommitOf(Top.name, Top.dep, cloned)
<1>1. proc.step = "walk" /\ proc.step \in Resolves /\ proc.stack # <<>>
      /\ Top.name \notin Top.chain /\ Top.dep.src \in Url /\ HasRef(Top.dep)
      /\ manifest' = manifest /\ lock' = lock /\ marked' = marked /\ checkout' = checkout
  BY DEF FetchGit, Fetchable, Resolves, disk
<1>2. FilesSound'
  BY FilesStay DEF FetchGit
<1>3. IsClones(cloned) /\ Top.dep.src \in DOMAIN cloned /\ Top.dep.src \notin Dir
  BY <1>0, <1>1, ClonedSound, TopSound
<1>4. commit \in Commit
  <2>1. CASE IsPinned(Top.name, Top.dep)
    <3>1. proc.existing[Top.name].rev \in Commit
      BY <1>1, <2>1 DEF IsPinned, IInv, ProcShape, IsLock, Running
    <3>. QED  BY <1>3, <2>1, <3>1 DEF CommitOf
  <2>2. CASE ~IsPinned(Top.name, Top.dep)
    <3>1. cloned[Top.dep.src] \in Commit
      BY <1>3 DEF IsClones
    <3>2. ResolveRef(Top.dep, cloned[Top.dep.src]) \in Commit
      BY <1>1, <3>1, RepositoryAssumption DEF ResolveRef, HasRef
    <3>. QED  BY <1>3, <2>2, <3>2 DEF CommitOf
  <2>. QED  BY <2>1, <2>2
<1>5. CASE commit \in marked
  <2>1. WalkOn(commit, cloned)
    BY <1>0, <1>5 DEF FetchGit
  <2>2. PICK c : c = commit
    OBVIOUS
  <2>3. WalkOn(c, cloned) /\ c = CommitOf(Top.name, Top.dep, cloned) /\ c \in marked /\ c \in Commit
    BY <1>4, <1>5, <2>1, <2>2
  <2>4. ProcShape' /\ FoundSound' /\ NothingForgotten' /\ WalkIsDepthFirst'
    BY <1>1, <1>3, <2>3, WalkOnKeeps
  <2>5. FilesHeld' /\ CheckoutUnderWay'
    BY <1>1, <2>3, WalkOnHolds
  <2>. QED  BY <1>2, <2>4, <2>5 DEF IInv
<1>6. CASE commit \notin marked
  <2>1. proc' = [proc EXCEPT !.step = "clear", !.cloned = cloned, !.commit = commit]
    BY <1>0, <1>6 DEF FetchGit
  <2>2. DOMAIN proc = ProcFields
    BY <1>1 DEF IInv, ProcShape, ProcFields
  <2>. HIDE DEF commit
  <2>3. /\ DOMAIN proc' = ProcFields /\ proc'.step = "clear"
        /\ proc'.op = proc.op /\ proc'.root = proc.root /\ proc'.original = proc.original
        /\ proc'.existing = proc.existing /\ proc'.stack = proc.stack
        /\ proc'.found = proc.found /\ proc'.cloned = cloned /\ proc'.commit = commit
    BY <2>1, <2>2 DEF ProcFields
  <2>4. \A n, dep : Known(n, dep) =>
          Known(n, dep)' /\ CommitOf(n, dep, proc.cloned)' = CommitOf(n, dep, proc.cloned)
    BY <1>3, <2>3, KnownStays DEF IsClones
  <2>5. ProcShape'
    <3>1. IsDeps(proc.root) /\ IsDeps(proc.original) /\ IsLock(proc.existing)
      BY <1>1 DEF IInv, ProcShape, Running
    <3>2. IsDeps(proc.root)' /\ IsDeps(proc.original)' /\ IsLock(proc.existing)'
      BY <2>3, <3>1 DEF IsDeps, IsLock
    <3>. QED  BY <1>1, <1>3, <2>3, <3>2 DEF IInv, ProcShape, ProcFields, Resolves, IsClones
  <2>6. FoundSound'
    <3>1. \A p \in Range(proc.found) : Known(p.name, p.dep)
      BY <1>1 DEF IInv, FoundSound
    <3>. QED  BY <1>1, <2>3, <2>4, <3>1 DEF IInv, FoundSound, Package
  <2>7. NothingForgotten'
    <3>1. \A n, dep : Served(n, dep) => Served(n, dep)'
      BY <1>3, <2>3, ServedStays DEF IsClones
    <3>. QED  BY <1>1, <2>3, <3>1 DEF IInv, NothingForgotten
  <2>8. WalkIsDepthFirst'
    BY <1>1, <2>3 DEF IInv, WalkIsDepthFirst, ChainsNest, DoneIsClosed, Acyclic, Pending,
                      Requires, Once, Named
  <2>9. FilesHeld'
    BY <1>1, <2>3 DEF IInv, FilesHeld, Running
  <2>10. CheckoutUnderWay'
    <3>1. Top' = Top
      BY <2>3 DEF Top
    <3>2. PICK n, dep : n = Top.name /\ dep = Top.dep
      OBVIOUS
    <3>3. IsPinned(n, dep)' <=> IsPinned(n, dep)
      BY <2>3 DEF IsPinned
    <3>4. Known(n, dep)'
      BY <1>1, <1>3, <2>3, <3>2 DEF Known, HasRef
    <3>5. commit = CommitOf(n, dep, proc.cloned)'
      BY <2>3, <3>2, <3>3 DEF CommitOf, ResolveRef, commit
    <3>6. Known(Top.name, Top.dep)' /\ commit = CommitOf(Top.name, Top.dep, proc.cloned)'
      <4>1. Top'.name = n /\ Top'.dep = dep
        BY <3>1, <3>2
      <4>. QED  BY <3>4, <3>5, <4>1 DEF Known, CommitOf, ResolveRef, HasRef, IsPinned
    <3>7. Top'.dep.src \in Url /\ Top'.name \notin Top'.chain
      BY <1>1, <3>1
    <3>. QED  BY <1>1, <1>4, <1>6, <2>3, <3>6, <3>7 DEF CheckoutUnderWay, commit
  <2>. QED  BY <1>2, <2>5, <2>6, <2>7, <2>8, <2>9, <2>10 DEF IInv
<1>. QED  BY <1>5, <1>6

LEMMA ClearCheckoutKeeps ==
  ASSUME IInv, ClearCheckout
  PROVE  IInv'
<1>1. proc.step = "clear" /\ "fill" \in Resolves /\ proc.step \in Resolves /\ To("fill")
      /\ manifest' = manifest /\ lock' = lock /\ pushed' = pushed
  BY DEF ClearCheckout, Resolves
<1>2. marked' = marked /\ proc.commit \in Commit \ marked
  BY <1>1 DEF ClearCheckout, IInv, CheckoutUnderWay
<1>3. FilesSound'
  BY <1>1, <1>2 DEF ClearCheckout, IInv, FilesSound, IsDeps, IsLock
<1>4. ProcShape' /\ FoundSound' /\ NothingForgotten' /\ WalkIsDepthFirst'
  BY <1>1, <1>2, StepKeeps
<1>5. /\ proc'.step = "fill" /\ proc'.op = proc.op /\ proc'.original = proc.original
      /\ proc'.existing = proc.existing /\ proc'.stack = proc.stack
      /\ proc'.cloned = proc.cloned /\ proc'.commit = proc.commit
  BY <1>1, StepFields DEF IInv, ProcShape, ProcFields
<1>6. FilesHeld'
  BY <1>1, <1>5 DEF IInv, FilesHeld, Running
<1>7. CheckoutUnderWay'
  BY <1>1, <1>2, <1>5 DEF IInv, CheckoutUnderWay, Top, Known, HasRef, IsPinned, CommitOf, ResolveRef
<1>. QED  BY <1>3, <1>4, <1>6, <1>7 DEF IInv

LEMMA FillCheckoutKeeps ==
  ASSUME IInv, FillCheckout
  PROVE  IInv'
<1>1. proc.step = "fill" /\ "mark" \in Resolves /\ proc.step \in Resolves /\ To("mark")
      /\ manifest' = manifest /\ lock' = lock /\ pushed' = pushed
  BY DEF FillCheckout, Resolves
<1>2. marked' = marked /\ proc.commit \in Commit \ marked
  BY <1>1 DEF FillCheckout, IInv, CheckoutUnderWay
<1>3. FilesSound' /\ checkout'[proc.commit] = "full"
  BY <1>1, <1>2 DEF FillCheckout, IInv, FilesSound, IsDeps, IsLock
<1>4. ProcShape' /\ FoundSound' /\ NothingForgotten' /\ WalkIsDepthFirst'
  BY <1>1, <1>2, StepKeeps
<1>5. /\ proc'.step = "mark" /\ proc'.op = proc.op /\ proc'.original = proc.original
      /\ proc'.existing = proc.existing /\ proc'.stack = proc.stack
      /\ proc'.cloned = proc.cloned /\ proc'.commit = proc.commit
  BY <1>1, StepFields DEF IInv, ProcShape, ProcFields
<1>6. FilesHeld'
  BY <1>1, <1>5 DEF IInv, FilesHeld, Running
<1>7. CheckoutUnderWay'
  BY <1>1, <1>2, <1>3, <1>5
     DEF IInv, CheckoutUnderWay, Top, Known, HasRef, IsPinned, CommitOf, ResolveRef
<1>. QED  BY <1>3, <1>4, <1>6, <1>7 DEF IInv

LEMMA MarkCheckoutKeeps ==
  ASSUME IInv, MarkCheckout
  PROVE  IInv'
<1>1. proc.step = "mark" /\ proc.step \in Resolves /\ WalkOn(proc.commit, proc.cloned)
      /\ manifest' = manifest /\ lock' = lock /\ pushed' = pushed /\ checkout' = checkout
      /\ marked' = marked \cup {proc.commit}
  BY DEF MarkCheckout, Resolves
<1>2. /\ proc.stack # <<>> /\ Top.name \notin Top.chain /\ Known(Top.name, Top.dep)
      /\ proc.commit \in Commit /\ proc.commit = CommitOf(Top.name, Top.dep, proc.cloned)
      /\ checkout[proc.commit] = "full"
  BY <1>1 DEF IInv, CheckoutUnderWay
<1>3. FilesSound'
  BY <1>1, <1>2 DEF IInv, FilesSound, IsDeps, IsLock
<1>4. IsClones(proc.cloned)
  BY <1>1 DEF IInv, ProcShape, IsClones
<1>5. ProcShape' /\ FoundSound' /\ NothingForgotten' /\ WalkIsDepthFirst'
  BY <1>1, <1>2, <1>4, WalkOnKeeps
<1>6. FilesHeld' /\ CheckoutUnderWay'
  BY <1>1, WalkOnHolds
<1>. QED  BY <1>3, <1>5, <1>6 DEF IInv

\* The graph is made of packages that were found, and of all that they require.
LEMMA GraphSound ==
  ASSUME IInv, Walked
  PROVE  /\ DOMAIN Chosen = Reachable(proc.root, proc.found)
         /\ DOMAIN proc.root \subseteq DOMAIN Chosen
         /\ \A n \in DOMAIN Chosen :
              /\ Chosen[n] \in Range(proc.found) /\ Chosen[n].name = n
              /\ DOMAIN Chosen[n].deps \subseteq DOMAIN Chosen
              /\ \A p \in Range(proc.found) : p.name = n => ~Older(Chosen[n].version, p.version)
         /\ \A n \in DOMAIN Chosen \ DOMAIN proc.root :
              \E m \in DOMAIN Chosen : n \in DOMAIN Chosen[m].deps
<1>. DEFINE found == proc.found
            root == proc.root
            known == {p.name : p \in Range(found)}
            R == Reachable(root, found)
<1>1. proc.step \in Resolves /\ proc.stack = <<>> /\ Range(proc.stack) = {}
  BY EmptySeq, LenProperties DEF Walked, Resolves, Range
<1>2. found \in Seq(Range(found))
  BY <1>1 DEF IInv, ProcShape
<1>3. VersionsIn(found)
  <2>1. \A p \in Range(found) : p.version \in Nat \X Nat \X Nat
    BY <1>1, FoundPackages DEF IInv, Version
  <2>. QED  BY <2>1 DEF VersionsIn, Range
<1>4. \A n \in known : Named(found, n) # {}
  BY DEF Named, Range
<1>5. DOMAIN root \subseteq known
  BY <1>1 DEF IInv, NothingForgotten, Served
<1>6. \A p \in Range(found) : DOMAIN p.deps \subseteq known
  BY <1>1 DEF IInv, NothingForgotten, Served
<1>. HIDE DEF found, root
<1>7. \A n \in known :
        /\ SelectHighest(found, n) \in Range(found) /\ SelectHighest(found, n).name = n
        /\ \A p \in Range(found) :
             p.name = n => ~Older(SelectHighest(found, n).version, p.version)
  <2>. HIDE DEF known
  <2>. QED  BY <1>2, <1>3, <1>4, SelectHighestSound
<1>8. Needs(found, known) \subseteq known
  BY <1>6, <1>7 DEF Needs
<1>9. R \subseteq known /\ DOMAIN root \subseteq R /\ Needs(found, R) \subseteq R
      /\ R \subseteq DOMAIN root \cup Needs(found, R)
  BY <1>5, <1>8, ReachableSound
<1>. HIDE DEF R, known
<1>10. Chosen = [n \in R |-> SelectHighest(found, n)]
  BY DEF Chosen, Packages, R, found, root
<1>11. \A n \in R : DOMAIN SelectHighest(found, n).deps \subseteq R
  BY <1>9 DEF Needs
<1>12. \A n \in R \ DOMAIN root : \E m \in R : n \in DOMAIN SelectHighest(found, m).deps
  BY <1>9 DEF Needs
<1>13. DOMAIN Chosen = R /\ \A n \in R : Chosen[n] = SelectHighest(found, n)
  BY <1>10
<1>14. \A n \in R :
        /\ Chosen[n] \in Range(found) /\ Chosen[n].name = n
        /\ DOMAIN Chosen[n].deps \subseteq R
        /\ \A p \in Range(found) : p.name = n => ~Older(Chosen[n].version, p.version)
  BY <1>7, <1>9, <1>11, <1>13
<1>15. \A n \in R \ DOMAIN root : \E m \in R : n \in DOMAIN Chosen[m].deps
  BY <1>12, <1>13
<1>. QED  BY <1>9, <1>13, <1>14, <1>15 DEF R, found, root

\* The new lockfile has the commits of its packages, with their versions.
LEMMA FreshSound ==
  ASSUME IInv, Walked
  PROVE  IsLock(Fresh)
<1>. DEFINE locked == LockOf(Chosen)
<1>1. ASSUME NEW n \in DOMAIN locked
      PROVE  locked[n].rev \in Commit /\ locked[n].version = Content[locked[n].rev].version
  <2>1. n \in DOMAIN Chosen /\ Chosen[n].dep.src \in Url
        /\ locked[n].rev = Chosen[n].commit /\ locked[n].version = Chosen[n].version
    BY DEF LockOf
  <2>2. PICK p \in Range(proc.found) : p = Chosen[n]
    BY <2>1, GraphSound
  <2>3. proc.step \in Resolves
    BY DEF Walked, Resolves
  <2>4. p = Package(p.name, p.dep, p.commit) /\ p.commit \in marked
    BY <2>1, <2>2, <2>3 DEF IInv, FoundSound
  <2>5. p.dep.src \notin Dir
    BY <2>1, <2>2, SourceAssumption
  <2>6. p.version = Content[p.commit].version
    BY <2>4, <2>5 DEF Package
  <2>. QED  BY <2>1, <2>2, <2>4, <2>6 DEF IInv, FilesSound
<1>. HIDE DEF locked
<1>. QED  BY <1>1 DEF IsLock, Fresh, locked

LEMMA ReconcileKeeps ==
  ASSUME IInv, Reconcile
  PROVE  IInv'
<1>1. lock' = Fresh /\ manifest' = manifest /\ checkout' = checkout /\ marked' = marked
      /\ pushed' = pushed /\ proc' = Idle("done")
  BY DEF Reconcile
<1>2. IsLock(Fresh)
  BY FreshSound DEF Reconcile, Resolved
<1>3. IsLock(lock)'
  BY <1>1, <1>2 DEF IsLock
<1>4. FilesSound'
  BY <1>1, <1>3 DEF IInv, FilesSound, IsDeps
<1>. QED  BY <1>1, <1>4, EndKeeps

LEMMA RefuseKeeps ==
  ASSUME IInv, Refuse
  PROVE  IInv'
<1>1. proc.step \in Resolves \ {"restore", "restoring"}
  BY DEF Refuse, Fetchable, Walked, Resolved, Resolves
<1>2. UNCHANGED <<pushed, disk>> /\ Fails
  BY DEF Refuse
<1>. QED  BY <1>1, <1>2, FailsKeeps

LEMMA FaultKeeps ==
  ASSUME IInv, Fault
  PROVE  IInv'
<1>1. proc.step \in Resolves \ {"restore", "restoring"}
  BY DEF Fault, Resolves
<1>2. UNCHANGED <<pushed, disk>> /\ Fails
  BY DEF Fault
<1>. QED  BY <1>1, <1>2, FailsKeeps

LEMMA RestoreKeeps ==
  ASSUME IInv, Restore
  PROVE  IInv'
<1>1. proc.step = "restore" /\ proc.step \in Resolves /\ "restoring" \in Resolves
      /\ To("restoring") /\ manifest' = Torn /\ marked' = marked /\ lock' = lock
      /\ pushed' = pushed /\ checkout' = checkout
  BY DEF Restore, Resolves
<1>2. FilesSound'
  BY <1>1 DEF IInv, FilesSound, IsLock
<1>3. ProcShape' /\ FoundSound' /\ NothingForgotten' /\ WalkIsDepthFirst'
  BY <1>1, StepKeeps
<1>4. proc'.step = "restoring" /\ proc'.op = proc.op /\ proc'.existing = proc.existing
  BY <1>1, StepFields DEF IInv, ProcShape, ProcFields
<1>5. FilesHeld' /\ CheckoutUnderWay'
  BY <1>1, <1>4 DEF IInv, FilesHeld, Running, CheckoutUnderWay
<1>. QED  BY <1>2, <1>3, <1>5 DEF IInv

LEMMA RestoredKeeps ==
  ASSUME IInv, Restored
  PROVE  IInv'
<1>1. IsDeps(proc.original)
  BY DEF IInv, ProcShape, Restored, Running
<1>2. FilesSound'
  BY <1>1 DEF Restored, IInv, FilesSound, IsDeps, IsLock
<1>. QED  BY <1>2, EndKeeps DEF Restored

LEMMA CrashKeeps ==
  ASSUME IInv, WriteFails \/ Crash
  PROVE  IInv'
BY FilesStay, EndKeeps DEF WriteFails, Crash

LEMMA PushKeeps ==
  ASSUME IInv, NEW u \in Url, Push(u)
  PROVE  IInv'
<1>1. pushed \in [Url -> Nat] /\ \A x \in Url : pushed[x] \in DOMAIN History[x]
  BY DEF IInv, FilesSound
<1>2. pushed[u] + 1 \in Nat /\ pushed[u] + 1 \in DOMAIN History[u]
  <2>1. Len(History[u]) \in Nat /\ DOMAIN History[u] = 1 .. Len(History[u])
    BY RepositoryAssumption, LenProperties
  <2>. QED  BY <1>1, <2>1 DEF Push
<1>3. pushed' \in [Url -> Nat] /\ \A x \in Url : pushed'[x] \in DOMAIN History[x]
  BY <1>1, <1>2 DEF Push
<1>. QED  BY <1>3, UnchangedKeeps DEF Push

\* Between commands only the files count.
LEMMA IdleKeeps ==
  ASSUME ~Running, proc' = proc, FilesSound'
  PROVE  IInv'
<1>1. proc'.step = "idle"
  BY DEF Running
<1>2. ProcShape'
  BY <1>1 DEF ProcShape, Running, Resolves
<1>. QED
  BY <1>1, <1>2 DEF IInv, FilesHeld, Running, CheckoutUnderWay, FoundSound, NothingForgotten,
                    WalkIsDepthFirst, Resolves

LEMMA UserKeeps ==
  ASSUME IInv, (\E m \in Manifests : EditManifest(m)) \/ ClearCache
  PROVE  IInv'
<1>1. ASSUME NEW m \in Manifests, EditManifest(m) PROVE FilesSound'
  <2>1. IsDeps(m)
    BY UserAssumption
  <2>. QED  BY <1>1, <2>1 DEF EditManifest, IInv, FilesSound, IsDeps, IsLock
<1>2. ASSUME ClearCache PROVE FilesSound'
  BY <1>2 DEF ClearCache, IInv, FilesSound, IsDeps, IsLock
<1>. QED  BY <1>1, <1>2, IdleKeeps DEF EditManifest, ClearCache

LEMMA NextKeeps ==
  ASSUME IInv, [Next]_vars
  PROVE  IInv'
<1>1. CASE \E op \in {"build", "locked"} : Build(op)
  BY <1>1, BuildKeeps
<1>2. CASE \E a \in Additions : Add(a[1], a[2])
  BY <1>2, AddKeeps
<1>3. CASE Edited
  BY <1>3, EditedKeeps
<1>4. CASE FetchPath
  BY <1>4, FetchPathKeeps
<1>5. CASE FetchPinned
  BY <1>5, FetchPinnedKeeps
<1>6. CASE FetchGit
  BY <1>6, FetchGitKeeps
<1>7. CASE ClearCheckout
  BY <1>7, ClearCheckoutKeeps
<1>8. CASE FillCheckout
  BY <1>8, FillCheckoutKeeps
<1>9. CASE MarkCheckout
  BY <1>9, MarkCheckoutKeeps
<1>10. CASE Reconcile
  BY <1>10, ReconcileKeeps
<1>11. CASE Refuse
  BY <1>11, RefuseKeeps
<1>12. CASE Fault
  BY <1>12, FaultKeeps
<1>13. CASE Restore
  BY <1>13, RestoreKeeps
<1>14. CASE Restored
  BY <1>14, RestoredKeeps
<1>15. CASE WriteFails \/ Crash
  BY <1>15, CrashKeeps
<1>16. CASE \E u \in Url : Push(u)
  BY <1>16, PushKeeps
<1>17. CASE (\E m \in Manifests : EditManifest(m)) \/ ClearCache
  BY <1>17, UserKeeps
<1>18. CASE UNCHANGED vars
  BY <1>18, UnchangedKeeps DEF vars, disk, IInv, FilesSound
<1>. QED
  BY <1>1, <1>2, <1>3, <1>4, <1>5, <1>6, <1>7, <1>8, <1>9, <1>10, <1>11, <1>12, <1>13, <1>14,
     <1>15, <1>16, <1>17, <1>18 DEF Next

-----------------------------------------------------------------------------
(* The theorems.                                                           *)

\* Every state a project can be in, whatever commands, pushes, faults and crashes led
\* there, satisfies the inductive invariant.
THEOREM IInvHolds == Spec => []IInv
<1>1. Init => IInv
  BY InitIInv
<1>2. IInv /\ [Next]_vars => IInv'
  BY NextKeeps
<1>. QED  BY <1>1, <1>2, PTL DEF Spec

\* The lockfile holds commits that exist, with the versions they contain, and a manifest
\* is torn while it is written: the type invariant.
THEOREM TypeCorrect == Spec => []TypeOK
<1>1. IInv => TypeOK
  BY DEF IInv, FilesSound, FilesHeld, IsLock, Running, TypeOK
<1>. QED  BY <1>1, IInvHolds, PTL

\* A marked checkout is complete, and so is each one that a resolve has read a manifest
\* from, after any interruption of any earlier one.
THEOREM CheckoutsAreComplete == Spec => []CheckoutsComplete
<1>1. IInv => CheckoutsComplete
  <2>1. SUFFICES ASSUME IInv PROVE CheckoutsComplete
    OBVIOUS
  <2>2. \A c \in marked : checkout[c] = "full"
    BY <2>1 DEF IInv, FilesSound
  <2>3. ASSUME Running, proc.step \notin {"edit", "restore", "restoring"},
               NEW p \in Range(proc.found), p.commit # NoCommit
        PROVE  checkout[p.commit] = "full"
    <3>1. proc.step \in Resolves
      BY <2>1, <2>3 DEF IInv, ProcShape, Running
    <3>2. p.dep \in Dependency /\ Known(p.name, p.dep)
          /\ p.commit = CommitOf(p.name, p.dep, proc.cloned)
          /\ (p.dep.src \in Url => p.commit \in marked)
      BY <2>1, <3>1 DEF IInv, FoundSound
    <3>3. p.dep.src \notin Dir
      BY <2>3, <3>2 DEF CommitOf
    <3>. QED  BY <2>2, <3>2, <3>3 DEF Dependency
  <2>. QED  BY <2>2, <2>3 DEF CheckoutsComplete
<1>. QED  BY <1>1, IInvHolds, PTL

\* However a branch moves during a resolve, whoever requires a package at one ref gets the
\* same commit.
THEOREM RefsHaveOneCommit == Spec => []OneCommitPerRef
<1>1. IInv => OneCommitPerRef
  <2>1. SUFFICES ASSUME IInv, Running, proc.step # "edit",
                        NEW p \in Range(proc.found), NEW q \in Range(proc.found),
                        p.name = q.name, p.dep = q.dep
                 PROVE  p.commit = q.commit
    BY DEF OneCommitPerRef
  <2>2. proc.step \in Resolves
    BY <2>1 DEF IInv, ProcShape, Running
  <2>. QED  BY <2>1, <2>2 DEF IInv, FoundSound
<1>. QED  BY <1>1, IInvHolds, PTL

\* Every requirement of the resolved graph gets a package from the source it names, in a
\* version that is compatible with the one it asked for and not older.
THEOREM RequirementsAreServed == Spec => []RequirementsServed
<1>1. IInv => RequirementsServed
  <2>1. SUFFICES ASSUME IInv, Resolved,
                        NEW deps \in {proc.root} \cup {p.deps : p \in Range(Chosen)},
                        NEW n \in DOMAIN deps
        PROVE  LET asked == Package(n, deps[n], CommitOf(n, deps[n], proc.cloned)).version
               IN  /\ n \in DOMAIN Chosen /\ Chosen[n].dep.src = deps[n].src
                   /\ ~Older(Chosen[n].version, asked) /\ CaretCompatible(Chosen[n].version, asked)
    BY DEF RequirementsServed
  <2>2. Walked /\ proc.step \in Resolves /\ Range(proc.stack) = {}
    BY <2>1, EmptySeq, LenProperties DEF Resolved, Walked, Resolves, Range
  <2>3. deps = proc.root \/ \E p \in Range(proc.found) : deps = p.deps
    BY <2>1, <2>2, GraphSound DEF Range
  <2>4. n \in DOMAIN Chosen
    <3>1. CASE deps = proc.root
      BY <2>1, <2>2, <3>1, GraphSound
    <3>2. CASE deps # proc.root
      <4>1. PICK m \in DOMAIN Chosen : deps = Chosen[m].deps
        BY <2>1, <3>2 DEF Range
      <4>. QED  BY <2>1, <2>2, <4>1, GraphSound
    <3>. QED  BY <3>1, <3>2
  <2>5. Served(n, deps[n])
    BY <2>1, <2>2, <2>3 DEF IInv, NothingForgotten
  <2>6. PICK q \in Range(proc.found) :
          /\ q.name = n /\ q.dep.src = deps[n].src
          /\ q.version = Package(n, deps[n], CommitOf(n, deps[n], proc.cloned)).version
    BY <2>5 DEF Served
  <2>7. PICK c : c = Chosen[n]
    OBVIOUS
  <2>8. /\ c \in Range(proc.found) /\ c.name = n /\ n \in Reachable(proc.root, proc.found)
        /\ ~Older(c.version, q.version)
    BY <2>1, <2>2, <2>4, <2>6, <2>7, GraphSound
  <2>9. c.dep.src = q.dep.src /\ CaretCompatible(c.version, q.version)
    BY <2>1, <2>6, <2>8 DEF Resolved, Conflict
  <2>. QED  BY <2>4, <2>6, <2>7, <2>8, <2>9
<1>. QED  BY <1>1, IInvHolds, PTL

\* The walk refuses every circle of requirements between packages that it finds in one
\* version each.
THEOREM GraphIsAcyclic == Spec => []NoCycle
<1>1. IInv => NoCycle
  <2>. DEFINE found == proc.found
  <2>1. SUFFICES ASSUME IInv, Resolved,
                        \A n \in DOMAIN Chosen : Cardinality(Named(proc.found, n)) = 1,
                        NEW S \in SUBSET DOMAIN Chosen, S # {}
                 PROVE  \E n \in S : S \cap DOMAIN Chosen[n].deps = {}
    BY DEF NoCycle
  <2>2. Walked /\ proc.step \in Resolves /\ Range(proc.stack) = {}
    BY <2>1, EmptySeq, LenProperties DEF Resolved, Walked, Resolves, Range
  <2>3. \A n \in DOMAIN Chosen : Chosen[n] \in Range(found) /\ Chosen[n].name = n
    BY <2>1, <2>2, GraphSound
  <2>4. found \in Seq(Range(found))
    BY <2>1, <2>2 DEF IInv, ProcShape
  <2>5. Acyclic(found, proc.stack) /\ \A i, j : ~Pending(found, proc.stack, i, j)
    BY <2>1, <2>2 DEF IInv, WalkIsDepthFirst, Pending
  <2>6. \A n \in DOMAIN Chosen : Cardinality(Named(found, n)) = 1
    BY <2>1
  <2>. HIDE DEF found
  <2>7. ASSUME NEW n \in DOMAIN Chosen
        PROVE  \E i \in DOMAIN found : Named(found, n) = {i} /\ Chosen[n] = found[i]
    <3>1. IsFiniteSet(Named(found, n))
      <4>1. Len(found) \in Nat /\ DOMAIN found = 1 .. Len(found)
        BY <2>4, LenProperties
      <4>2. IsFiniteSet(1 .. Len(found)) /\ Named(found, n) \in SUBSET (1 .. Len(found))
        BY <4>1, FS_Interval DEF Named
      <4>. QED  BY <4>2, FS_Subset
    <3>2. PICK x : Named(found, n) = {x}
      BY <2>6, <3>1, FS_Singleton
    <3>3. PICK i \in DOMAIN found : Chosen[n] = found[i] /\ found[i].name = n
      BY <2>3 DEF Range
    <3>4. i \in Named(found, n)
      BY <3>3 DEF Named
    <3>. QED  BY <3>2, <3>3, <3>4
  <2>. DEFINE T == {i \in DOMAIN found : found[i].name \in S}
  <2>8. T \in SUBSET Once(found)
    <3>1. SUFFICES ASSUME NEW i \in T PROVE Named(found, found[i].name) = {i}
      BY DEF Once
    <3>2. i \in Named(found, found[i].name) /\ found[i].name \in DOMAIN Chosen
      BY <2>1 DEF Named
    <3>. QED  BY <2>7, <3>2
  <2>9. \A n \in S : \E i \in T : Chosen[n] = found[i] /\ found[i].name = n
    <3>1. ASSUME NEW n \in S PROVE \E i \in T : Chosen[n] = found[i] /\ found[i].name = n
      <4>1. n \in DOMAIN Chosen
        BY <2>1
      <4>2. PICK i \in DOMAIN found : Chosen[n] = found[i]
        BY <2>7, <4>1
      <4>3. found[i].name = n
        BY <2>3, <4>1, <4>2
      <4>. QED  BY <4>2, <4>3
    <3>. QED  BY <3>1
  <2>10. PICK i \in T : \A j \in T : ~Requires(found, i, j)
    <3>1. T # {}
      BY <2>1, <2>9
    <3>. HIDE DEF T
    <3>. QED  BY <2>5, <2>8, <3>1 DEF Acyclic
  <2>11. found[i].name \in S /\ Chosen[found[i].name] = found[i]
    <3>1. found[i].name \in S /\ i \in Named(found, found[i].name)
      BY DEF Named
    <3>. QED  BY <2>1, <2>7, <3>1
  <2>12. ASSUME NEW m \in S, m \in DOMAIN found[i].deps PROVE FALSE
    <3>1. PICK j \in T : found[j].name = m
      BY <2>9
    <3>. QED  BY <2>10, <2>12, <3>1 DEF Requires
  <2>. QED  BY <2>11, <2>12
<1>. QED  BY <1>1, IInvHolds, PTL

\* A command that fails in any step, a `phoenix add` too, leaves the lockfile as it found it,
\* and the manifest, unless it could not write that.
THEOREM FailuresChangeNothing == Spec => FailureChangesNothing
<1>. DEFINE Undone == Running /\ proc'.step = "idle" /\ proc'.outcome = "failed" =>
                        /\ lock' = proc.existing
                        /\ manifest' = proc.original \/ WriteFails
<1>1. IInv /\ [Next]_vars => Undone
  <2>1. SUFFICES ASSUME IInv, [Next]_vars, Running, proc'.step = "idle",
                        proc'.outcome = "failed"
                 PROVE  /\ lock' = proc.existing
                        /\ manifest' = proc.original \/ WriteFails
    OBVIOUS
  <2>2. lock = proc.existing /\ (proc.op # "add" => manifest = proc.original)
    BY <2>1 DEF IInv, FilesHeld
  <2>3. \A s : proc.step \in Resolves /\ To(s) => proc'.step = s
    BY <2>1, StepFields DEF IInv, ProcShape, ProcFields
  <2>4. \A c, cl : proc.step \in Resolves /\ WalkOn(c, cl) => proc'.step = "walk"
    BY <2>1, WalkOnFields DEF IInv, ProcShape, ProcFields
  <2>5. CASE Refuse \/ Fault
    <3>1. Fails /\ manifest' = manifest /\ lock' = lock /\ proc.step \in Resolves
      BY <2>5 DEF Refuse, Fault, disk, Fetchable, Walked, Resolved, Resolves
    <3>2. proc.op # "add"
      BY <2>1, <2>3, <3>1 DEF Fails
    <3>. QED  BY <2>2, <3>1, <3>2
  <2>6. CASE Restored
    BY <2>2, <2>6 DEF Restored
  <2>7. CASE Reconcile \/ Crash
    BY <2>1, <2>7 DEF Reconcile, Crash, Idle
  <2>8. CASE Edited \/ WriteFails
    BY <2>1, <2>2, <2>8 DEF Edited, Resolving, WriteFails, disk
  <2>9. CASE ClearCheckout \/ FillCheckout \/ Restore
    BY <2>1, <2>3, <2>9 DEF ClearCheckout, FillCheckout, Restore, Resolves
  <2>10. CASE FetchPath \/ FetchPinned \/ MarkCheckout
    BY <2>1, <2>4, <2>10 DEF FetchPath, FetchPinned, MarkCheckout, Fetchable, Resolves
  <2>11. CASE FetchGit
    <3>. DEFINE cloned == Cloned(Top.dep.src)
                commit == CommitOf(Top.name, Top.dep, cloned)
    <3>1. proc.step \in Resolves /\ DOMAIN proc = ProcFields
      BY <2>1, <2>11 DEF FetchGit, Fetchable, Resolves, IInv, ProcShape, ProcFields
    <3>2. \/ WalkOn(commit, cloned)
          \/ proc' = [proc EXCEPT !.step = "clear", !.cloned = cloned, !.commit = commit]
      BY <2>11 DEF FetchGit
    <3>. HIDE DEF cloned, commit
    <3>. QED  BY <2>1, <2>4, <3>1, <3>2 DEF ProcFields
  <2>12. CASE (\E op \in {"build", "locked"} : Build(op)) \/ (\E a \in Additions : Add(a[1], a[2]))
              \/ (\E m \in Manifests : EditManifest(m)) \/ ClearCache
    BY <2>1, <2>12 DEF Build, Add, EditManifest, ClearCache
  <2>13. CASE (\E u \in Url : Push(u)) \/ UNCHANGED vars
    BY <2>1, <2>13 DEF Push, vars, Running
  <2>. QED
    BY <2>1, <2>5, <2>6, <2>7, <2>8, <2>9, <2>10, <2>11, <2>12, <2>13 DEF Next
<1>2. Spec => [][Undone]_vars
  BY <1>1, IInvHolds, PTL DEF Spec
<1>. QED  BY <1>2 DEF FailureChangesNothing

-----------------------------------------------------------------------------
(* What a lockfile reproduces: two walks side by side.                     *)

\* The package at the top of the stack is found, at commit c.
WalksOn(stack, found, c, stack2, found2) ==
  LET p    == Package(stack[1].name, stack[1].dep, c)
      seen == \E q \in Range(found) :
                q.name = p.name /\ q.dep.src = p.dep.src /\ q.version = p.version
  IN  /\ stack # <<>>
      /\ found2 = IF seen THEN found ELSE Append(found, p)
      /\ stack2 = IF seen THEN Tail(stack)
                  ELSE Frames(p.deps, stack[1].chain \cup {p.name}) \o Tail(stack)

\* The first m steps of a walk from some dependencies: its stacks, what it has found, and
\* the commit it finds in each step.
IsWalk(deps, m, stk, fnd, com) ==
  /\ m \in Nat
  /\ stk[0] = Frames(deps, {}) /\ fnd[0] = <<>>
  /\ \A k \in 0 .. m - 1 : WalksOn(stk[k], fnd[k], com[k], stk[k + 1], fnd[k + 1])

\* Somebody asks for the package.
Asked(deps, found, n, dep) ==
  \/ n \in DOMAIN deps /\ dep = deps[n]
  \/ \E p \in Range(found) : n \in DOMAIN p.deps /\ dep = p.deps[n]

\* The package at i was found because the root, or a package found before it, asks for it.
HasReason(deps, found, i) ==
  \/ found[i].name \in DOMAIN deps /\ found[i].dep = deps[found[i].name]
  \/ \E j \in DOMAIN found :
       /\ j < i
       /\ found[i].name \in DOMAIN found[j].deps /\ found[i].dep = found[j].deps[found[i].name]

FoundInOrder(deps, found) == \A i \in DOMAIN found : HasReason(deps, found, i)

\* What the running resolve makes of a requirement.
Means(n, dep, c) == Known(n, dep) /\ c = CommitOf(n, dep, proc.cloned)

\* A commit of a requirement that a lockfile is true to.
Binds(locked, n, dep, c) ==
  /\ dep.src \in Dir => c = NoCommit
  /\ dep.src \in Url /\ dep.ref # Moving => c = Fixed[dep.src][dep.ref]
  /\ dep.src \in Url /\ locked # NoLock /\ n \in DOMAIN locked /\ locked[n].dep = dep =>
       c = locked[n].rev

\* The lockfile of what a walk has found.
LockFor(deps, found) ==
  LET locked == LockOf(Packages(deps, found)) IN IF locked = <<>> THEN NoLock ELSE locked

\* Some walk from these dependencies has left this lockfile.
LeftBy(deps, locked) ==
  \E m, stk, fnd, com :
    /\ IsWalk(deps, m, stk, fnd, com)
    /\ stk[m] = <<>> /\ locked = LockFor(deps, fnd[m])
    /\ \A k \in 0 .. m - 1 : Binds(locked, stk[k][1].name, stk[k][1].dep, com[k])

\* The stack and the found packages of the running resolve come of a walk.
Walking(deps, stack, found) ==
  \E m, stk, fnd, com :
    /\ IsWalk(deps, m, stk, fnd, com)
    /\ stk[m] = stack /\ fnd[m] = found
    /\ \A k \in 0 .. m - 1 : /\ Means(stk[k][1].name, stk[k][1].dep, com[k])
                             /\ Asked(deps, found, stk[k][1].name, stk[k][1].dep)

\* A tag or a rev is locked at its commit.
RefsHold(locked) ==
  locked # NoLock => \A n \in DOMAIN locked :
    /\ locked[n].dep.src \in Url
    /\ locked[n].dep.ref # Moving => locked[n].rev = Fixed[locked[n].dep.src][locked[n].dep.ref]

\* The steps of resolve_project, before a failed `add` puts the manifest back.
ResolveSteps == {"walk", "clear", "fill", "mark"}

\* The files that a command has settled, and those that a running one will leave if it fails.
FilesSettled ==
  /\ RefsHold(lock)
  /\ settled => LeftBy(manifest, lock)
  /\ Running /\ proc.settled => LeftBy(proc.original, proc.existing)
  /\ Running /\ proc.op = "add" => ~settled
  /\ proc.step \in ResolveSteps => manifest = proc.root
  /\ proc.step \in Resolves /\ proc.op # "add" => proc.root = proc.original

\* The running resolve is part of a walk, and nothing is on its stack, or was found, for no
\* reason.
WalkSettled ==
  proc.step \in Resolves =>
    /\ \A f \in Range(proc.stack) : Asked(proc.root, proc.found, f.name, f.dep)
    /\ Walking(proc.root, proc.stack, proc.found)
    /\ FoundInOrder(proc.root, proc.found)

\* Somebody asks for a package of a repository that the lockfile does not have.
Unlocked ==
  \E n, dep : Asked(proc.root, proc.found, n, dep) /\ dep.src \in Url /\ ~IsPinned(n, dep)

\* The network is used for a reason.
MayHave(cloned) == proc.ready /\ cloned # proc.cloned => Unlocked

CloneNeeded ==
  proc.step \in Resolves /\ proc.ready =>
    /\ proc.existing # NoLock /\ \A n \in DOMAIN proc.existing : proc.existing[n].rev \in marked
    /\ proc.cloned = <<>> \/ Unlocked

\* The inductive invariant, on top of IInv.
LInv == FilesSettled /\ WalkSettled /\ CloneNeeded

\* Two walks that agree on the commit of what they both come to find the same.
LEMMA WalksAgree ==
  ASSUME NEW deps, NEW m, NEW s, NEW f, NEW c, NEW m2, NEW s2, NEW f2, NEW c2,
         IsWalk(deps, m, s, f, c), IsWalk(deps, m2, s2, f2, c2),
         s[m] = <<>>, s2[m2] = <<>>,
         \A k \in 0 .. m - 1 : k \in 0 .. m2 - 1 /\ s[k] = s2[k] => c[k] = c2[k]
  PROVE  f[m] = f2[m2]
<1>1. m \in Nat /\ m2 \in Nat
  BY DEF IsWalk
<1>. DEFINE Same(k) == s[k] = s2[k] /\ f[k] = f2[k]
<1>2. Same(0)
  BY DEF IsWalk
<1>3. ASSUME NEW k \in Nat, k + 1 <= m, k + 1 <= m2, Same(k) PROVE Same(k + 1)
  <2>1. k \in 0 .. m - 1 /\ k \in 0 .. m2 - 1
    BY <1>1, <1>3
  <2>2. /\ WalksOn(s[k], f[k], c[k], s[k + 1], f[k + 1])
        /\ WalksOn(s2[k], f2[k], c2[k], s2[k + 1], f2[k + 1])
    BY <2>1 DEF IsWalk
  <2>3. c[k] = c2[k]
    BY <1>3, <2>1
  <2>4. WalksOn(s[k], f[k], c[k], s2[k + 1], f2[k + 1])
    BY <1>3, <2>2, <2>3
  <2>. HIDE DEF Same
  <2>5. f[k + 1] = f2[k + 1] /\ s[k + 1] = s2[k + 1]
    BY <2>2, <2>4 DEF WalksOn
  <2>. QED  BY <2>5 DEF Same
<1>4. \A k \in Nat : k <= m /\ k <= m2 => Same(k)
  <2>. DEFINE Differ == {k \in Nat : k <= m /\ k <= m2 /\ ~Same(k)}
  <2>1. SUFFICES Differ = {}
    OBVIOUS
  <2>2. SUFFICES ASSUME Differ # {} PROVE FALSE
    OBVIOUS
  <2>3. PICK k \in Differ : \A j \in Differ : k <= j
    <3>1. Differ \in SUBSET Nat
      OBVIOUS
    <3>. HIDE DEF Differ
    <3>. QED  BY <2>2, <3>1, LeastNatural
  <2>4. k \in Nat /\ k <= m /\ k <= m2 /\ ~Same(k)
    OBVIOUS
  <2>5. k # 0
    BY <1>2, <2>4
  <2>6. k - 1 \in Nat /\ k - 1 <= m /\ k - 1 <= m2 /\ (k - 1) + 1 = k
    BY <1>1, <2>4, <2>5
  <2>7. k - 1 \notin Differ
    <3>1. ~(k <= k - 1)
      BY <2>4
    <3>. HIDE DEF Differ
    <3>. QED  BY <2>3, <3>1
  <2>8. Same(k - 1)
    BY <2>6, <2>7
  <2>. HIDE DEF Same, Differ
  <2>9. Same(k)
    BY <1>3, <2>4, <2>6, <2>8
  <2>. QED  BY <2>4, <2>9
<1>5. \A k \in 0 .. m - 1 : s[k] # <<>>
  BY DEF IsWalk, WalksOn
<1>6. \A k \in 0 .. m2 - 1 : s2[k] # <<>>
  BY DEF IsWalk, WalksOn
<1>7. m = m2
  <2>1. CASE m < m2
    <3>1. m \in 0 .. m2 - 1 /\ s[m] = s2[m]
      BY <1>1, <1>4, <2>1
    <3>. QED  BY <1>6, <3>1
  <2>2. CASE m2 < m
    <3>1. m2 \in 0 .. m - 1 /\ s[m2] = s2[m2]
      BY <1>1, <1>4, <2>2
    <3>. QED  BY <1>5, <3>1
  <2>. QED  BY <1>1, <2>1, <2>2
<1>. QED  BY <1>1, <1>4, <1>7

\* A commit that a resolve knows is the one that a tag or a rev always has.
LEMMA RefsAreFixed ==
  ASSUME IInv, proc.step \in Resolves, RefsHold(proc.existing),
         NEW n, NEW dep, NEW c, Means(n, dep, c)
  PROVE  /\ dep.src \in Dir => c = NoCommit
         /\ dep.src \in Url /\ dep.ref # Moving => c = Fixed[dep.src][dep.ref]
         /\ dep.src \notin Dir => dep.src \in Url
<1>1. CASE dep.src \in Dir
  BY <1>1, SourceAssumption DEF Means, CommitOf
<1>2. CASE dep.src \notin Dir /\ IsPinned(n, dep)
  BY <1>2 DEF Means, CommitOf, IsPinned, RefsHold
<1>3. CASE dep.src \notin Dir /\ ~IsPinned(n, dep)
  <2>1. dep.src \in DOMAIN proc.cloned /\ dep.src \in Url
    BY <1>3 DEF Means, Known, IInv, ProcShape
  <2>. QED  BY <1>3, <2>1 DEF Means, CommitOf, ResolveRef
<1>. QED  BY <1>1, <1>2, <1>3

\* A resolve whose branches are all in the lockfile writes the lockfile it has read.
LEMMA SameLock ==
  ASSUME IInv, LInv, Resolved, proc.op # "add", proc.settled, BranchesLocked
  PROVE  Fresh = proc.existing
<1>1. Running /\ proc.step \in Resolves /\ proc.stack = <<>>
  BY DEF Resolved, Walked, Running, Resolves
<1>2. lock = proc.existing /\ RefsHold(proc.existing)
  BY <1>1 DEF IInv, FilesHeld, LInv, FilesSettled
<1>3. LeftBy(proc.root, proc.existing)
  BY <1>1 DEF LInv, FilesSettled
<1>4. PICK m, s, f, c :
        /\ IsWalk(proc.root, m, s, f, c)
        /\ s[m] = <<>> /\ proc.existing = LockFor(proc.root, f[m])
        /\ \A k \in 0 .. m - 1 : Binds(proc.existing, s[k][1].name, s[k][1].dep, c[k])
  BY <1>3 DEF LeftBy
<1>5. PICK m2, s2, f2, c2 :
        /\ IsWalk(proc.root, m2, s2, f2, c2)
        /\ s2[m2] = proc.stack /\ f2[m2] = proc.found
        /\ \A k \in 0 .. m2 - 1 :
             /\ Means(s2[k][1].name, s2[k][1].dep, c2[k])
             /\ Asked(proc.root, proc.found, s2[k][1].name, s2[k][1].dep)
  BY <1>1 DEF LInv, WalkSettled, Walking
<1>6. ASSUME NEW n, NEW dep, Asked(proc.root, proc.found, n, dep)
      PROVE  n \in Required /\ dep \in Requirements(n)
  BY <1>6 DEF Asked, Required, Requirements
<1>7. ASSUME NEW n, NEW dep, NEW x, NEW y, Asked(proc.root, proc.found, n, dep),
             Binds(proc.existing, n, dep, x), Means(n, dep, y)
      PROVE  x = y
  <2>1. CASE dep.src \in Dir
    BY <1>1, <1>2, <1>7, <2>1, RefsAreFixed DEF Binds
  <2>2. CASE dep.src \notin Dir /\ dep.ref # Moving
    BY <1>1, <1>2, <1>7, <2>2, RefsAreFixed DEF Binds
  <2>3. CASE dep.src \notin Dir /\ dep.ref = Moving
    <3>1. dep.src \in Url
      BY <1>1, <1>2, <1>7, <2>3, RefsAreFixed
    <3>2. Locked(n, dep)
      BY <1>6, <1>7, <2>3, <3>1 DEF BranchesLocked
    <3>3. y = proc.existing[n].rev
      BY <1>7, <2>3, <3>2 DEF Means, CommitOf, IsPinned, Locked
    <3>. QED  BY <1>7, <3>1, <3>2, <3>3 DEF Binds, Locked
  <2>. QED  BY <2>1, <2>2, <2>3
<1>8. \A k \in 0 .. m - 1 : k \in 0 .. m2 - 1 /\ s[k] = s2[k] => c[k] = c2[k]
  <2>1. SUFFICES ASSUME NEW k \in 0 .. m - 1, k \in 0 .. m2 - 1, s[k] = s2[k]
                 PROVE  c[k] = c2[k]
    OBVIOUS
  <2>2. PICK n, dep : n = s2[k][1].name /\ dep = s2[k][1].dep
    OBVIOUS
  <2>. QED  BY <1>4, <1>5, <1>7, <2>1, <2>2
<1>9. f[m] = f2[m2]
  BY <1>1, <1>4, <1>5, <1>8, WalksAgree
<1>. QED  BY <1>4, <1>5, <1>9 DEF Fresh, Chosen, LockFor

\* If no package of the graph was found in two versions, all that was found is part of it.
LEMMA NothingDiscarded ==
  ASSUME IInv, LInv, Walked,
         \A m \in DOMAIN Chosen : ~(Cardinality(Named(proc.found, m)) > 1)
  PROVE  Range(proc.found) \subseteq Range(Chosen)
<1>1. PICK found, root : found = proc.found /\ root = proc.root
  OBVIOUS
<1>2. found \in Seq(Range(found)) /\ FoundInOrder(root, found)
  BY <1>1 DEF Walked, Resolves, IInv, ProcShape, LInv, WalkSettled
<1>3. /\ DOMAIN root \subseteq DOMAIN Chosen
      /\ \A n \in DOMAIN Chosen : /\ Chosen[n] \in Range(found) /\ Chosen[n].name = n
                                  /\ DOMAIN Chosen[n].deps \subseteq DOMAIN Chosen
      /\ \A n \in DOMAIN Chosen : ~(Cardinality(Named(found, n)) > 1)
  BY <1>1, GraphSound
<1>4. PICK len \in Nat : DOMAIN found = 1 .. len
  BY <1>2, LenProperties
<1>5. ASSUME NEW i \in DOMAIN found, found[i].name \in DOMAIN Chosen
      PROVE  Chosen[found[i].name] = found[i]
  <2>1. PICK n : n = found[i].name /\ n \in DOMAIN Chosen
    BY <1>5
  <2>2. PICK k \in DOMAIN found : Chosen[n] = found[k] /\ found[k].name = n
    BY <1>3, <2>1 DEF Range
  <2>3. i \in Named(found, n) /\ k \in Named(found, n)
    BY <2>1, <2>2 DEF Named
  <2>4. IsFiniteSet(Named(found, n))
    <3>1. IsFiniteSet(1 .. len) /\ Named(found, n) \in SUBSET (1 .. len)
      BY <1>4, FS_Interval DEF Named
    <3>. QED  BY <3>1, FS_Subset
  <2>5. Cardinality(Named(found, n)) \in Nat /\ Cardinality(Named(found, n)) # 0
    BY <2>3, <2>4, FS_CardinalityType, FS_EmptySet
  <2>6. Cardinality(Named(found, n)) = 1
    BY <1>3, <2>1, <2>5
  <2>7. PICK x : Named(found, n) = {x}
    BY <2>4, <2>6, FS_Singleton
  <2>. QED  BY <2>1, <2>2, <2>3, <2>7
<1>6. \A i \in DOMAIN found : found[i].name \in DOMAIN Chosen
  <2>. DEFINE Lost == {i \in Nat : i \in DOMAIN found /\ found[i].name \notin DOMAIN Chosen}
  <2>1. SUFFICES ASSUME Lost # {} PROVE FALSE
    BY <1>4
  <2>2. PICK i \in Lost : \A j \in Lost : i <= j
    <3>1. Lost \in SUBSET Nat
      OBVIOUS
    <3>. HIDE DEF Lost
    <3>. QED  BY <2>1, <3>1, LeastNatural
  <2>3. i \in DOMAIN found /\ found[i].name \notin DOMAIN Chosen /\ HasReason(root, found, i)
    BY <1>2, <2>2 DEF FoundInOrder
  <2>4. found[i].name \notin DOMAIN root
    BY <1>3, <2>3
  <2>5. PICK j \in DOMAIN found : j < i /\ found[i].name \in DOMAIN found[j].deps
    BY <2>3, <2>4 DEF HasReason
  <2>6. j \notin Lost
    <3>1. i \in Nat /\ j \in Nat /\ ~(i <= j)
      BY <1>4, <2>3, <2>5
    <3>. HIDE DEF Lost
    <3>. QED  BY <2>2, <3>1
  <2>7. found[j].name \in DOMAIN Chosen
    BY <1>4, <2>5, <2>6
  <2>8. Chosen[found[j].name] = found[j]
    BY <1>5, <2>5, <2>7
  <2>. QED  BY <1>3, <2>3, <2>5, <2>7, <2>8
<1>. QED  BY <1>1, <1>5, <1>6 DEF Range

LEMMA NothingToClone ==
  ASSUME LInv, Walked, proc.ready,
         \A n \in Required : \A dep \in Requirements(n) : dep.src \in Url => Locked(n, dep)
  PROVE  proc.cloned = <<>>
<1>1. proc.step \in Resolves
  BY DEF Walked, Resolves
<1>2. ASSUME NEW n, NEW dep, Asked(proc.root, proc.found, n, dep), dep.src \in Url
      PROVE  IsPinned(n, dep)
  <2>1. n \in Required /\ dep \in Requirements(n)
    BY <1>2 DEF Asked, Required, Requirements
  <2>. QED  BY <1>2, <2>1 DEF Locked, IsPinned
<1>. QED  BY <1>1, <1>2 DEF LInv, CloneNeeded, Unlocked

\* What a requirement means does not change while a resolve goes on.
LEMMA MeansStays ==
  ASSUME proc'.existing = proc.existing,
         \A u \in DOMAIN proc.cloned : u \in DOMAIN proc'.cloned /\ proc'.cloned[u] = proc.cloned[u],
         NEW n, NEW dep, NEW c, Means(n, dep, c)
  PROVE  Means(n, dep, c)'
<1>1. Known(n, dep)' /\ CommitOf(n, dep, proc.cloned)' = CommitOf(n, dep, proc.cloned)
  BY KnownStays DEF Means
<1>. QED  BY <1>1 DEF Means

\* The same resolve goes on: what it works for is as before, and it has no fewer clones.
GoesOn ==
  /\ proc.step \in Resolves /\ proc'.step \in Resolves
  /\ proc'.op = proc.op /\ proc'.root = proc.root /\ proc'.original = proc.original
  /\ proc'.existing = proc.existing /\ proc'.settled = proc.settled /\ proc'.ready = proc.ready
  /\ \A u \in DOMAIN proc.cloned : u \in DOMAIN proc'.cloned /\ proc'.cloned[u] = proc.cloned[u]

LEMMA WalkStays ==
  ASSUME WalkSettled, GoesOn, proc'.stack = proc.stack, proc'.found = proc.found
  PROVE  WalkSettled'
<1>1. \A f \in Range(proc.stack) : Asked(proc.root, proc.found, f.name, f.dep)
  BY DEF WalkSettled, GoesOn
<1>2. PICK m, s, f, c :
        /\ IsWalk(proc.root, m, s, f, c) /\ s[m] = proc.stack /\ f[m] = proc.found
        /\ \A k \in 0 .. m - 1 : /\ Means(s[k][1].name, s[k][1].dep, c[k])
                                 /\ Asked(proc.root, proc.found, s[k][1].name, s[k][1].dep)
  BY DEF WalkSettled, Walking, GoesOn
<1>3. \A n, dep, x : Means(n, dep, x) => Means(n, dep, x)'
  BY MeansStays DEF GoesOn
<1>4. \A k \in 0 .. m - 1 : Means(s[k][1].name, s[k][1].dep, c[k])'
  BY <1>2, <1>3
<1>5. Walking(proc.root, proc.stack, proc.found)'
  BY <1>2, <1>4 DEF Walking, GoesOn
<1>6. FoundInOrder(proc.root, proc.found)'
  BY DEF WalkSettled, GoesOn
<1>. QED  BY <1>1, <1>5, <1>6 DEF WalkSettled, GoesOn, Asked

\* A walk that is one step longer, and finds commit x in that step.
LongerWalk(deps, m, s, c, x, stack2, found2) ==
  \E s2, f2, c2 :
    /\ IsWalk(deps, m + 1, s2, f2, c2) /\ s2[m + 1] = stack2 /\ f2[m + 1] = found2
    /\ c2[m] = x /\ s2[m] = s[m]
    /\ \A k \in 0 .. m - 1 : s2[k] = s[k] /\ c2[k] = c[k]

\* A walk goes one step further.
LEMMA WalkExtends ==
  ASSUME NEW deps, NEW m, NEW s, NEW f, NEW c, IsWalk(deps, m, s, f, c),
         NEW x, NEW stack2, NEW found2, WalksOn(s[m], f[m], x, stack2, found2)
  PROVE  LongerWalk(deps, m, s, c, x, stack2, found2)
<1>1. m \in Nat /\ m + 1 \in Nat /\ m + 1 # m /\ (m + 1) - 1 = m
  BY DEF IsWalk
<1>. DEFINE s2 == [k \in Nat |-> IF k = m + 1 THEN stack2 ELSE s[k]]
            f2 == [k \in Nat |-> IF k = m + 1 THEN found2 ELSE f[k]]
            c2 == [k \in Nat |-> IF k = m THEN x ELSE c[k]]
<1>2. \A k \in 0 .. m : s2[k] = s[k] /\ f2[k] = f[k]
  BY <1>1
<1>3. \A k \in 0 .. m - 1 : c2[k] = c[k]
  BY <1>1
<1>4. s2[m + 1] = stack2 /\ f2[m + 1] = found2 /\ c2[m] = x
  BY <1>1
<1>. HIDE DEF s2, f2, c2
<1>5. ASSUME NEW k \in 0 .. m
      PROVE  WalksOn(s2[k], f2[k], c2[k], s2[k + 1], f2[k + 1])
  <2>1. CASE k = m
    BY <1>1, <1>2, <1>4, <2>1
  <2>2. CASE k # m
    <3>1. k \in 0 .. m - 1 /\ k \in 0 .. m /\ k + 1 \in 0 .. m
      BY <1>1, <2>2
    <3>2. WalksOn(s[k], f[k], c[k], s[k + 1], f[k + 1])
      BY <3>1 DEF IsWalk
    <3>. QED  BY <1>2, <1>3, <3>1, <3>2
  <2>. QED  BY <2>1, <2>2
<1>6. s2[0] = s[0] /\ f2[0] = f[0]
  BY <1>1, <1>2
<1>7. IsWalk(deps, m + 1, s2, f2, c2)
  BY <1>1, <1>5, <1>6 DEF IsWalk
<1>8. \A k \in 0 .. m - 1 : s2[k] = s[k]
  BY <1>1, <1>2
<1>9. s2[m] = s[m]
  BY <1>1, <1>2
<1>. QED  BY <1>3, <1>4, <1>7, <1>8, <1>9 DEF LongerWalk

\* Who asks for a package does so when more have been found.
LEMMA AskedStays ==
  ASSUME NEW deps, NEW found, NEW found2, Range(found) \subseteq Range(found2),
         NEW n, NEW dep, Asked(deps, found, n, dep)
  PROVE  Asked(deps, found2, n, dep)
BY DEF Asked

\* What is found next is asked for by what was found before.
LEMMA FoundNext ==
  ASSUME NEW deps, NEW S, NEW found \in Seq(S), FoundInOrder(deps, found),
         NEW p, Asked(deps, found, p.name, p.dep)
  PROVE  FoundInOrder(deps, Append(found, p))
<1>1. PICK n \in Nat : n = Len(found) /\ DOMAIN found = 1 .. n
  BY LenProperties
<1>2. PICK more : more = Append(found, p)
  OBVIOUS
<1>3. /\ DOMAIN more = 1 .. (n + 1) /\ more[n + 1] = p
      /\ \A i \in 1 .. n : more[i] = found[i]
  BY <1>1, <1>2
<1>4. ASSUME NEW i \in 1 .. (n + 1) PROVE HasReason(deps, more, i)
  <2>1. CASE i \in 1 .. n
    <3>1. HasReason(deps, found, i) /\ more[i] = found[i]
      BY <1>1, <1>3, <2>1 DEF FoundInOrder
    <3>2. \A j \in DOMAIN found : j \in DOMAIN more /\ more[j] = found[j]
      BY <1>1, <1>3
    <3>. QED  BY <3>1, <3>2 DEF HasReason
  <2>2. CASE i = n + 1
    <3>1. more[i] = p
      BY <1>3, <2>2
    <3>2. CASE p.name \in DOMAIN deps /\ p.dep = deps[p.name]
      BY <3>1, <3>2 DEF HasReason
    <3>3. CASE \E q \in Range(found) : p.name \in DOMAIN q.deps /\ p.dep = q.deps[p.name]
      <4>1. PICK j \in DOMAIN found :
              p.name \in DOMAIN found[j].deps /\ p.dep = found[j].deps[p.name]
        BY <3>3 DEF Range
      <4>2. j \in DOMAIN more /\ j < i /\ more[j] = found[j]
        BY <1>1, <1>3, <2>2, <4>1
      <4>. QED  BY <3>1, <4>1, <4>2 DEF HasReason
    <3>. QED  BY <3>2, <3>3 DEF Asked
  <2>. QED  BY <1>1, <2>1, <2>2
<1>. QED  BY <1>2, <1>3, <1>4 DEF FoundInOrder

\* The package at the top of the stack is found.
LEMMA WalkGoesOn ==
  ASSUME IInv, WalkSettled, proc.step \in Resolves, proc.stack # <<>>,
         NEW commit, NEW cloned, IsClones(cloned), WalkOn(commit, cloned),
         Known(Top.name, Top.dep)
           \/ (Top.dep.src \in DOMAIN cloned /\ HasRef(Top.dep)),
         commit = CommitOf(Top.name, Top.dep, cloned),
         Top.dep.src \in Url => commit \in Commit
  PROVE  GoesOn /\ WalkSettled' /\ Range(proc.found) \subseteq Range(proc'.found)
<1>0. PICK top : top = Top
  OBVIOUS
<1>. DEFINE p == Package(top.name, top.dep, commit)
<1>1. DOMAIN proc = ProcFields
  BY DEF IInv, ProcShape, ProcFields
<1>2. /\ proc'.step = "walk"
      /\ proc'.op = proc.op /\ proc'.root = proc.root /\ proc'.original = proc.original
      /\ proc'.existing = proc.existing /\ proc'.settled = proc.settled
      /\ proc'.ready = proc.ready /\ proc'.cloned = cloned
      /\ Visited(p) => proc'.found = proc.found /\ proc'.stack = Tail(proc.stack)
      /\ ~Visited(p) =>
           /\ proc'.found = Append(proc.found, p)
           /\ proc'.stack = Frames(p.deps, top.chain \cup {p.name}) \o Tail(proc.stack)
  BY <1>0, <1>1, WalkOnFields
<1>3. proc.stack \in Seq(Frame) /\ proc.found \in Seq(Range(proc.found))
  BY DEF IInv, ProcShape, Frame
<1>4. top \in Frame /\ top \in Range(proc.stack)
  BY <1>0, <1>3, StackTop DEF Top
<1>5. GoesOn
  BY <1>2 DEF GoesOn, IsClones, Resolves
<1>6. WalksOn(proc.stack, proc.found, commit, proc'.stack, proc'.found)
  BY <1>0, <1>2 DEF WalksOn, Top, Visited
<1>7. IsDeps(p.deps) /\ p.name \in Name /\ p.name = top.name /\ p.dep = top.dep
  BY <1>0, <1>4, PackageSound, PackageFields DEF Frame
<1>. HIDE DEF p
<1>8. Range(proc'.found) = IF Visited(p) THEN Range(proc.found) ELSE Range(proc.found) \cup {p}
  <2>1. CASE Visited(p)
    BY <1>2, <2>1
  <2>2. CASE ~Visited(p)
    <3>2. proc.found \in Seq(Range(proc.found) \cup {p})
      BY <1>3, SeqMonotonic
    <3>3. Range(Append(proc.found, p)) = Range(proc.found) \cup {p}
      BY <3>2, AppendRange
    <3>. QED  BY <1>2, <2>2, <3>3
  <2>. QED  BY <2>1, <2>2
<1>9. \A n, dep : Asked(proc.root, proc.found, n, dep) => Asked(proc'.root, proc'.found, n, dep)
  BY <1>2, <1>8, AskedStays
<1>10. \A g \in Range(Tail(proc.stack)) : g \in Range(proc.stack)
  BY <1>3, StackTop
<1>11. \A g \in Range(proc.stack) : Asked(proc'.root, proc'.found, g.name, g.dep)
  BY <1>9 DEF WalkSettled
<1>12. \A g \in Range(proc'.stack) : Asked(proc'.root, proc'.found, g.name, g.dep)
  <2>1. CASE Visited(p)
    BY <1>2, <1>10, <1>11, <2>1
  <2>2. CASE ~Visited(p)
    <3>. DEFINE F == Frames(p.deps, top.chain \cup {p.name})
    <3>1. top.chain \cup {p.name} \in SUBSET Name
      BY <1>4, <1>7 DEF Frame
    <3>2. F \in Seq(Frame) /\ \A g \in Range(F) : g.name \in DOMAIN p.deps /\ g.dep = p.deps[g.name]
      BY <1>7, <3>1, FramesSound
    <3>3. p \in Range(proc'.found)
      BY <1>8, <2>2
    <3>4. \A g \in Range(F) : Asked(proc'.root, proc'.found, g.name, g.dep)
      BY <3>2, <3>3 DEF Asked
    <3>5. Tail(proc.stack) \in Seq(Frame)
      BY <1>3, StackTop
    <3>. HIDE DEF F
    <3>6. Range(F \o Tail(proc.stack)) = Range(F) \cup Range(Tail(proc.stack))
      <4>. DEFINE rest == Tail(proc.stack)
      <4>1. rest \in Seq(Frame) /\ F \in Seq(Frame)
        BY <3>2, <3>5
      <4>. HIDE DEF rest
      <4>2. Range(F \o rest) = Range(F) \cup Range(rest)
        BY <4>1, RangeConcatenation
      <4>. QED  BY <4>2 DEF rest
    <3>7. proc'.stack = F \o Tail(proc.stack)
      BY <1>2, <2>2 DEF F
    <3>. QED  BY <1>10, <1>11, <3>4, <3>6, <3>7
  <2>. QED  BY <2>1, <2>2
<1>13. PICK m, s, f, c :
        /\ IsWalk(proc.root, m, s, f, c) /\ s[m] = proc.stack /\ f[m] = proc.found
        /\ \A k \in 0 .. m - 1 : /\ Means(s[k][1].name, s[k][1].dep, c[k])
                                 /\ Asked(proc.root, proc.found, s[k][1].name, s[k][1].dep)
  BY DEF WalkSettled, Walking
<1>14. PICK s2, f2, c2 :
        /\ IsWalk(proc.root, m + 1, s2, f2, c2)
        /\ s2[m + 1] = proc'.stack /\ f2[m + 1] = proc'.found
        /\ c2[m] = commit /\ s2[m] = s[m]
        /\ \A k \in 0 .. m - 1 : s2[k] = s[k] /\ c2[k] = c[k]
  <2>1. PICK deps, stack2, found2, x :
          deps = proc.root /\ stack2 = proc'.stack /\ found2 = proc'.found /\ x = commit
    OBVIOUS
  <2>2. IsWalk(deps, m, s, f, c) /\ WalksOn(s[m], f[m], x, stack2, found2)
    <3>1. s[m] = proc.stack /\ f[m] = proc.found /\ IsWalk(proc.root, m, s, f, c)
      BY <1>13
    <3>2. WalksOn(s[m], f[m], commit, proc'.stack, proc'.found)
      BY <1>6, <3>1
    <3>. QED  BY <2>1, <3>1, <3>2
  <2>3. LongerWalk(deps, m, s, c, x, stack2, found2)
    BY <2>2, WalkExtends
  <2>. QED  BY <2>1, <2>3 DEF LongerWalk
<1>15. Means(top.name, top.dep, commit)'
  <2>1. IsPinned(top.name, top.dep)' <=> IsPinned(top.name, top.dep)
    BY <1>2 DEF IsPinned
  <2>2. Known(top.name, top.dep)'
    BY <1>0, <1>2, <2>1 DEF Known, HasRef, IsClones
  <2>3. commit = CommitOf(top.name, top.dep, proc.cloned)'
    BY <1>0, <1>2, <2>1 DEF CommitOf, ResolveRef
  <2>. QED  BY <2>2, <2>3 DEF Means
<1>16. \A n, dep, x : Means(n, dep, x) => Means(n, dep, x)'
  BY <1>5, MeansStays DEF GoesOn
<1>17. ASSUME NEW k \in 0 .. (m + 1) - 1
       PROVE  /\ Means(s2[k][1].name, s2[k][1].dep, c2[k])'
              /\ Asked(proc'.root, proc'.found, s2[k][1].name, s2[k][1].dep)
  <2>1. k = m \/ k \in 0 .. m - 1
    BY <1>13 DEF IsWalk
  <2>2. CASE k = m
    <3>1. s2[k][1] = top /\ c2[k] = commit
      BY <1>0, <1>13, <1>14, <2>2 DEF Top
    <3>. QED  BY <1>4, <1>11, <1>15, <3>1
  <2>3. CASE k \in 0 .. m - 1
    <3>1. s2[k] = s[k] /\ c2[k] = c[k]
      BY <1>14, <2>3
    <3>. QED  BY <1>9, <1>13, <1>16, <2>3, <3>1
  <2>. QED  BY <2>1, <2>2, <2>3
<1>18. IsWalk(proc'.root, m + 1, s2, f2, c2)
  BY <1>2, <1>14
<1>19. Walking(proc.root, proc.stack, proc.found)'
  BY <1>14, <1>17, <1>18 DEF Walking
<1>20. FoundInOrder(proc.root, proc.found)'
  <2>1. FoundInOrder(proc.root, proc.found)
    BY DEF WalkSettled
  <2>2. Asked(proc.root, proc.found, p.name, p.dep)
    BY <1>4, <1>7 DEF WalkSettled
  <2>3. PICK found : found = proc.found /\ found \in Seq(Range(proc.found))
    BY <1>3
  <2>4. FoundInOrder(proc.root, Append(found, p))
    BY <2>1, <2>2, <2>3, FoundNext
  <2>. QED  BY <1>2, <2>1, <2>3, <2>4
<1>. QED  BY <1>5, <1>8, <1>12, <1>19, <1>20 DEF WalkSettled

\* A step of a resolve that leaves the lockfile alone.
LEMMA GoingOnKeeps ==
  ASSUME IInv, LInv, GoesOn, WalkSettled', Range(proc.found) \subseteq Range(proc'.found),
         lock' = lock, settled' = settled, marked \subseteq marked',
         manifest' = manifest \/ (proc.op = "add" /\ proc'.step \notin ResolveSteps),
         proc'.step \in ResolveSteps => proc.step \in ResolveSteps,
         MayHave(proc'.cloned)
  PROVE  LInv'
<1>1. Running /\ Running'
  BY DEF GoesOn, Running, Resolves
<1>2. FilesSettled'
  <2>1. RefsHold(lock)'
    BY DEF LInv, FilesSettled, RefsHold
  <2>2. settled => manifest' = manifest
    BY <1>1 DEF LInv, FilesSettled
  <2>3. (settled => LeftBy(manifest, lock))'
    BY <2>2 DEF LInv, FilesSettled
  <2>4. (proc.settled => LeftBy(proc.original, proc.existing))'
    BY <1>1 DEF LInv, FilesSettled, GoesOn
  <2>5. (proc.op = "add" => ~settled)'
    BY <1>1 DEF LInv, FilesSettled, GoesOn
  <2>6. (proc.step \in ResolveSteps => manifest = proc.root)'
    BY DEF LInv, FilesSettled, GoesOn
  <2>7. (proc.op # "add" => proc.root = proc.original)'
    BY DEF LInv, FilesSettled, GoesOn
  <2>. QED  BY <2>1, <2>3, <2>4, <2>5, <2>6, <2>7 DEF FilesSettled
<1>3. CloneNeeded'
  <2>1. SUFFICES ASSUME proc'.ready
                 PROVE  /\ proc'.existing # NoLock
                        /\ \A n \in DOMAIN proc'.existing : proc'.existing[n].rev \in marked'
                        /\ proc'.cloned = <<>> \/ Unlocked'
    BY DEF CloneNeeded
  <2>2. /\ proc.existing # NoLock
        /\ \A n \in DOMAIN proc.existing : proc.existing[n].rev \in marked
        /\ proc.cloned = <<>> \/ Unlocked
    BY <2>1 DEF LInv, CloneNeeded, GoesOn
  <2>3. proc'.cloned # <<>> => Unlocked
    BY <2>1, <2>2 DEF GoesOn, MayHave
  <2>4. \A n, dep : IsPinned(n, dep)' <=> IsPinned(n, dep)
    BY DEF IsPinned, GoesOn
  <2>5. \A n, dep : Asked(proc.root, proc.found, n, dep) => Asked(proc'.root, proc'.found, n, dep)
    BY AskedStays DEF GoesOn
  <2>6. proc'.existing = proc.existing
    BY DEF GoesOn
  <2>7. Unlocked => Unlocked'
    BY <2>4, <2>5 DEF Unlocked
  <2>. QED  BY <2>2, <2>3, <2>6, <2>7
<1>. QED  BY <1>2, <1>3 DEF LInv

\* Without a process only the files count.
LEMMA IdleSettled ==
  ASSUME proc'.step = "idle", RefsHold(lock)', settled' => LeftBy(manifest, lock)'
  PROVE  LInv'
BY DEF LInv, FilesSettled, WalkSettled, CloneNeeded, Running, Resolves, ResolveSteps

\* The files stay, and there is no process now.
LEMMA StopKeeps ==
  ASSUME LInv, proc'.step = "idle", lock' = lock, manifest' = manifest, settled' = settled
  PROVE  LInv'
<1>1. RefsHold(lock)' /\ (settled' => LeftBy(manifest, lock)')
  BY DEF LInv, FilesSettled, RefsHold
<1>. QED  BY <1>1, IdleSettled

LEMMA BeginKeeps ==
  ASSUME LInv, lock' = lock, settled' = settled, marked' = marked,
         NEW op \in {"build", "locked", "add"}, NEW deps, NEW original, NEW known,
         IsDeps(deps), manifest' = deps,
         proc' = Resolving(op, deps, original, known),
         known => LeftBy(original, lock),
         op # "add" => deps = original /\ manifest = original,
         op = "add" => ~settled
  PROVE  LInv'
<1>. DEFINE stk == Frames(deps, {})
            ready == lock # NoLock /\ \A n \in DOMAIN lock : lock[n].rev \in marked
<1>1. /\ proc'.step = "walk" /\ proc'.op = op /\ proc'.root = deps
      /\ proc'.original = original /\ proc'.existing = lock /\ proc'.stack = stk
      /\ proc'.found = <<>> /\ proc'.cloned = <<>> /\ proc'.settled = known
      /\ proc'.ready = ready
  BY DEF Resolving
<1>2. \A f \in Range(stk) : f.name \in DOMAIN deps /\ f.dep = deps[f.name]
  BY FramesSound
<1>3. Walking(proc.root, proc.stack, proc.found)'
  <2>. DEFINE s == [k \in Nat |-> stk]
              f == [k \in Nat |-> <<>>]
  <2>1. s[0] = stk /\ f[0] = <<>>
    OBVIOUS
  <2>. HIDE DEF s, f
  <2>2. IsWalk(deps, 0, s, f, f)
    BY <2>1 DEF IsWalk
  <2>3. IsWalk(proc'.root, 0, s, f, f) /\ s[0] = proc'.stack /\ f[0] = proc'.found
    BY <1>1, <2>1, <2>2
  <2>4. 0 .. 0 - 1 = {}
    OBVIOUS
  <2>. QED  BY <2>3, <2>4 DEF Walking
<1>. HIDE DEF stk, ready
<1>4. WalkSettled'
  <2>1. FoundInOrder(proc.root, proc.found)'
    BY <1>1 DEF FoundInOrder
  <2>. QED  BY <1>1, <1>2, <1>3, <2>1 DEF WalkSettled, Asked
<1>5. FilesSettled'
  <2>1. RefsHold(lock)'
    BY DEF LInv, FilesSettled, RefsHold
  <2>2. (settled => LeftBy(manifest, lock))'
    BY DEF LInv, FilesSettled
  <2>3. (proc.settled => LeftBy(proc.original, proc.existing))'
    BY <1>1
  <2>. QED  BY <1>1, <2>1, <2>2, <2>3 DEF FilesSettled
<1>6. CloneNeeded'
  BY <1>1 DEF CloneNeeded, ready
<1>. QED  BY <1>4, <1>5, <1>6 DEF LInv

\* A step that leaves the walk where it is.
LEMMA ToKeeps ==
  ASSUME IInv, LInv, proc.step \in Resolves, NEW s \in Resolves, To(s),
         lock' = lock, settled' = settled, marked \subseteq marked',
         manifest' = manifest \/ (proc.op = "add" /\ s \notin ResolveSteps),
         s \in ResolveSteps => proc.step \in ResolveSteps
  PROVE  LInv'
<1>1. /\ proc'.step = s /\ proc'.op = proc.op /\ proc'.root = proc.root
      /\ proc'.original = proc.original /\ proc'.existing = proc.existing
      /\ proc'.settled = proc.settled /\ proc'.ready = proc.ready
      /\ proc'.stack = proc.stack /\ proc'.found = proc.found /\ proc'.cloned = proc.cloned
  BY StepFields DEF IInv, ProcShape, ProcFields
<1>2. GoesOn
  BY <1>1 DEF GoesOn
<1>3. WalkSettled'
  BY <1>1, <1>2, WalkStays DEF LInv
<1>4. Range(proc.found) \subseteq Range(proc'.found)
  BY <1>1
<1>5. MayHave(proc'.cloned)
  BY <1>1 DEF MayHave
<1>. QED  BY <1>1, <1>2, <1>3, <1>4, <1>5, GoingOnKeeps

\* A package is found, and the network is used for a reason.
LEMMA WalkOnSettles ==
  ASSUME IInv, LInv, proc.step \in ResolveSteps, proc.stack # <<>>,
         NEW commit, NEW cloned, IsClones(cloned), WalkOn(commit, cloned),
         Known(Top.name, Top.dep)
           \/ (Top.dep.src \in DOMAIN cloned /\ HasRef(Top.dep)),
         commit = CommitOf(Top.name, Top.dep, cloned),
         Top.dep.src \in Url => commit \in Commit,
         lock' = lock, settled' = settled, manifest' = manifest, marked \subseteq marked',
         MayHave(cloned)
  PROVE  LInv'
<1>1. proc.step \in Resolves
  BY DEF Resolves, ResolveSteps
<1>2. GoesOn /\ WalkSettled' /\ Range(proc.found) \subseteq Range(proc'.found)
  BY <1>1, WalkGoesOn DEF LInv
<1>3. proc'.cloned = cloned
  BY <1>1, WalkOnFields DEF IInv, ProcShape, ProcFields
<1>4. MayHave(proc'.cloned)
  BY <1>3
<1>. QED  BY <1>2, <1>4, GoingOnKeeps

LEMMA FetchPathSettles ==
  ASSUME IInv, LInv, FetchPath
  PROVE  LInv'
<1>1. proc.step \in ResolveSteps /\ proc.step \in Resolves /\ proc.stack # <<>>
      /\ Top.dep.src \in Dir /\ WalkOn(NoCommit, proc.cloned)
  BY DEF FetchPath, Fetchable, Resolves, ResolveSteps
<1>2. IsClones(proc.cloned)
  BY <1>1 DEF IInv, ProcShape, IsClones
<1>3. Known(Top.name, Top.dep) /\ Top.dep.src \notin Url
      /\ NoCommit = CommitOf(Top.name, Top.dep, proc.cloned)
  BY <1>1, TopSound DEF Known, CommitOf
<1>4. manifest' = manifest /\ lock' = lock /\ marked' = marked /\ settled' = settled
  BY DEF FetchPath, disk
<1>5. MayHave(proc.cloned)
  BY DEF MayHave
<1>. QED  BY <1>1, <1>2, <1>3, <1>4, <1>5, WalkOnSettles

LEMMA FetchPinnedSettles ==
  ASSUME IInv, LInv, FetchPinned
  PROVE  LInv'
<1>. DEFINE commit == proc.existing[Top.name].rev
<1>1. proc.step \in ResolveSteps /\ proc.step \in Resolves /\ proc.stack # <<>>
      /\ Top.dep.src \in Url /\ WalkOn(commit, proc.cloned)
      /\ IsPinned(Top.name, Top.dep) /\ commit \in marked
  BY DEF FetchPinned, Fetchable, Resolves, ResolveSteps, InCache
<1>2. IsClones(proc.cloned)
  BY <1>1 DEF IInv, ProcShape, IsClones
<1>3. Known(Top.name, Top.dep) /\ commit = CommitOf(Top.name, Top.dep, proc.cloned)
  BY <1>1, TopSound DEF Known, CommitOf
<1>4. manifest' = manifest /\ lock' = lock /\ marked' = marked /\ settled' = settled
      /\ commit \in Commit
  BY <1>1 DEF FetchPinned, disk, IInv, FilesSound
<1>. HIDE DEF commit
<1>5. MayHave(proc.cloned)
  BY DEF MayHave
<1>. QED  BY <1>1, <1>2, <1>3, <1>4, <1>5, WalkOnSettles

LEMMA MarkCheckoutSettles ==
  ASSUME IInv, LInv, MarkCheckout
  PROVE  LInv'
<1>1. proc.step = "mark" /\ proc.step \in ResolveSteps /\ proc.step \in Resolves
      /\ WalkOn(proc.commit, proc.cloned)
      /\ manifest' = manifest /\ lock' = lock /\ settled' = settled
      /\ marked \subseteq marked'
  BY DEF MarkCheckout, Resolves, ResolveSteps
<1>2. /\ proc.stack # <<>> /\ Known(Top.name, Top.dep)
      /\ proc.commit \in Commit /\ proc.commit = CommitOf(Top.name, Top.dep, proc.cloned)
  BY <1>1 DEF IInv, CheckoutUnderWay
<1>3. IsClones(proc.cloned)
  BY <1>1 DEF IInv, ProcShape, IsClones
<1>4. MayHave(proc.cloned)
  BY DEF MayHave
<1>. QED  BY <1>1, <1>2, <1>3, <1>4, WalkOnSettles

LEMMA FetchGitSettles ==
  ASSUME IInv, LInv, FetchGit
  PROVE  LInv'
<1>0. PICK cloned : cloned = Cloned(Top.dep.src)
  OBVIOUS
<1>. DEFINE commit == CommitOf(Top.name, Top.dep, cloned)
<1>1. proc.step = "walk" /\ proc.step \in ResolveSteps /\ proc.step \in Resolves
      /\ proc.stack # <<>> /\ Top.dep.src \in Url /\ HasRef(Top.dep)
      /\ ~InCache(Top.name, Top.dep)
      /\ manifest' = manifest /\ lock' = lock /\ marked' = marked /\ settled' = settled
  BY DEF FetchGit, Fetchable, Resolves, ResolveSteps, disk
<1>2. IsClones(cloned) /\ Top.dep.src \in DOMAIN cloned /\ Top.dep.src \notin Dir
  BY <1>0, <1>1, ClonedSound, TopSound
<1>3. proc.ready => Unlocked
  <2>1. SUFFICES ASSUME proc.ready PROVE ~IsPinned(Top.name, Top.dep)
    <3>1. proc.stack \in Seq(Frame)
      BY <1>1 DEF IInv, ProcShape, Frame
    <3>2. Top \in Range(proc.stack)
      BY <1>1, <3>1, StackTop DEF Top
    <3>3. Asked(proc.root, proc.found, Top.name, Top.dep)
      BY <1>1, <3>2 DEF LInv, WalkSettled
    <3>. QED  BY <1>1, <3>3 DEF Unlocked
  <2>. QED  BY <1>1, <2>1 DEF LInv, CloneNeeded, InCache, IsPinned
<1>4. CASE commit \in marked
  <2>1. WalkOn(commit, cloned)
    BY <1>0, <1>4 DEF FetchGit
  <2>2. commit \in Commit
    BY <1>4 DEF IInv, FilesSound
  <2>3. PICK c : c = commit
    OBVIOUS
  <2>4. WalkOn(c, cloned) /\ c = CommitOf(Top.name, Top.dep, cloned) /\ c \in Commit
    BY <2>1, <2>2, <2>3
  <2>. HIDE DEF commit
  <2>5. MayHave(cloned)
    BY <1>3 DEF MayHave
  <2>. QED  BY <1>1, <1>2, <2>4, <2>5, WalkOnSettles
<1>5. CASE commit \notin marked
  <2>1. proc' = [proc EXCEPT !.step = "clear", !.cloned = cloned, !.commit = commit]
    BY <1>0, <1>5 DEF FetchGit
  <2>2. DOMAIN proc = ProcFields
    BY <1>1 DEF IInv, ProcShape, ProcFields
  <2>. HIDE DEF commit
  <2>3. /\ proc'.step = "clear"
        /\ proc'.op = proc.op /\ proc'.root = proc.root /\ proc'.original = proc.original
        /\ proc'.existing = proc.existing /\ proc'.stack = proc.stack
        /\ proc'.found = proc.found /\ proc'.cloned = cloned
        /\ proc'.settled = proc.settled /\ proc'.ready = proc.ready
    BY <2>1, <2>2 DEF ProcFields
  <2>4. GoesOn
    BY <1>1, <1>2, <2>3 DEF GoesOn, IsClones, Resolves
  <2>5. WalkSettled'
    BY <2>3, <2>4, WalkStays DEF LInv
  <2>6. Range(proc.found) \subseteq Range(proc'.found) /\ marked \subseteq marked'
    BY <1>1, <2>3
  <2>7. MayHave(proc'.cloned)
    BY <1>3 DEF MayHave
  <2>. QED  BY <1>1, <2>4, <2>5, <2>6, <2>7, GoingOnKeeps
<1>. QED  BY <1>4, <1>5

\* The lockfile that a walk leaves.
LEMMA ReconcileSettles ==
  ASSUME IInv, LInv, Reconcile
  PROVE  LInv'
<1>1. /\ Walked /\ Running /\ proc.step \in Resolves /\ proc.step \in ResolveSteps
      /\ proc.stack = <<>>
      /\ lock' = Fresh /\ manifest' = manifest /\ proc'.step = "idle"
  BY DEF Reconcile, Resolved, Walked, Running, Resolves, ResolveSteps, Idle
<1>2. RefsHold(proc.existing)
  BY <1>1 DEF IInv, FilesHeld, LInv, FilesSettled
<1>3. manifest = proc.root
  BY <1>1 DEF LInv, FilesSettled
<1>4. ASSUME Fresh # NoLock, NEW n \in DOMAIN Fresh
      PROVE  /\ Fresh[n].dep.src \in Url
             /\ Means(n, Fresh[n].dep, Fresh[n].rev)
  <2>. DEFINE locked == LockOf(Chosen)
  <2>1. Fresh = locked
    BY <1>4 DEF Fresh
  <2>2. n \in DOMAIN Chosen /\ Chosen[n].dep.src \in Url
        /\ locked[n].dep = Chosen[n].dep /\ locked[n].rev = Chosen[n].commit
    BY <1>4, <2>1 DEF LockOf
  <2>. HIDE DEF locked
  <2>3. PICK p \in Range(proc.found) : p = Chosen[n] /\ p.name = n
    BY <1>1, <2>2, GraphSound
  <2>4. Known(p.name, p.dep) /\ p.commit = CommitOf(p.name, p.dep, proc.cloned)
    BY <1>1, <2>3 DEF IInv, FoundSound
  <2>. QED  BY <2>1, <2>2, <2>3, <2>4 DEF Means
<1>5. RefsHold(Fresh)
  BY <1>1, <1>2, <1>4, RefsAreFixed DEF RefsHold
<1>6. PICK m, s, f, c :
        /\ IsWalk(proc.root, m, s, f, c) /\ s[m] = proc.stack /\ f[m] = proc.found
        /\ \A k \in 0 .. m - 1 : Means(s[k][1].name, s[k][1].dep, c[k])
  BY <1>1 DEF LInv, WalkSettled, Walking
<1>7. ASSUME NEW n, NEW dep, NEW x, Means(n, dep, x) PROVE Binds(Fresh, n, dep, x)
  <2>1. /\ dep.src \in Dir => x = NoCommit
        /\ dep.src \in Url /\ dep.ref # Moving => x = Fixed[dep.src][dep.ref]
    BY <1>1, <1>2, <1>7, RefsAreFixed
  <2>2. ASSUME Fresh # NoLock, n \in DOMAIN Fresh, Fresh[n].dep = dep
        PROVE  x = Fresh[n].rev
    BY <1>4, <1>7, <2>2 DEF Means
  <2>. QED  BY <2>1, <2>2 DEF Binds
<1>8. Fresh = LockFor(proc.root, proc.found)
  BY DEF Fresh, Chosen, LockFor
<1>9. PICK locked : locked = Fresh
  OBVIOUS
<1>10. LeftBy(proc.root, locked)
  <2>1. \A k \in 0 .. m - 1 : Binds(locked, s[k][1].name, s[k][1].dep, c[k])
    BY <1>6, <1>7, <1>9
  <2>2. s[m] = <<>> /\ locked = LockFor(proc.root, f[m])
    BY <1>1, <1>6, <1>8, <1>9
  <2>. QED  BY <1>6, <2>1, <2>2 DEF LeftBy
<1>11. RefsHold(lock)' /\ LeftBy(manifest, lock)'
  <2>1. lock' = locked /\ manifest' = proc.root
    BY <1>1, <1>3, <1>9
  <2>2. RefsHold(locked)
    BY <1>5, <1>9
  <2>. QED  BY <1>10, <2>1, <2>2
<1>. QED  BY <1>1, <1>11, IdleSettled

LEMMA CommandsSettle ==
  ASSUME IInv, LInv,
         \/ \E op \in {"build", "locked"} : Build(op)
         \/ \E a \in Additions : Add(a[1], a[2])
         \/ Edited
  PROVE  LInv'
<1>1. ASSUME NEW op \in {"build", "locked"}, Build(op) PROVE LInv'
  <2>1. IsDeps(manifest) /\ manifest' = manifest /\ lock' = lock /\ marked' = marked
        /\ settled' = settled /\ proc' = Resolving(op, manifest, manifest, settled)
    BY <1>1 DEF IInv, FilesSound, Build, disk
  <2>2. settled => LeftBy(manifest, lock)
    BY DEF LInv, FilesSettled
  <2>. QED  BY <2>1, <2>2, BeginKeeps
<1>2. ASSUME NEW a \in Additions, Add(a[1], a[2]) PROVE LInv'
  <2>1. /\ proc'.step = "edit" /\ proc'.op = "add"
        /\ proc'.original = manifest /\ proc'.existing = lock /\ proc'.settled = settled
        /\ lock' = lock /\ ~settled'
    BY <1>2 DEF Add
  <2>2. RefsHold(lock)'
    BY <2>1 DEF LInv, FilesSettled, RefsHold
  <2>3. (proc.settled => LeftBy(proc.original, proc.existing))'
    BY <2>1 DEF LInv, FilesSettled
  <2>4. FilesSettled'
    BY <2>1, <2>2, <2>3 DEF FilesSettled, Resolves, ResolveSteps
  <2>. QED  BY <2>1, <2>4 DEF LInv, WalkSettled, CloneNeeded, Resolves
<1>3. ASSUME Edited PROVE LInv'
  <2>1. Running /\ proc.op = "add" /\ lock = proc.existing
    BY <1>3 DEF Edited, IInv, ProcShape, FilesHeld, Running
  <2>2. IsDeps(proc.root) /\ manifest' = proc.root /\ lock' = lock /\ marked' = marked
        /\ settled' = settled /\ proc' = Resolving("add", proc.root, proc.original, proc.settled)
    BY <1>3, <2>1 DEF Edited, IInv, ProcShape
  <2>3. ~settled /\ (proc.settled => LeftBy(proc.original, lock))
    BY <2>1 DEF LInv, FilesSettled
  <2>. QED  BY <2>2, <2>3, BeginKeeps
<1>. QED  BY <1>1, <1>2, <1>3

LEMMA FailuresSettle ==
  ASSUME IInv, LInv, Refuse \/ Fault \/ Restore \/ Restored \/ WriteFails \/ Crash
  PROVE  LInv'
<1>1. CASE Refuse \/ Fault
  <2>1. proc.step \in Resolves /\ Fails /\ lock' = lock /\ manifest' = manifest
        /\ settled' = settled /\ marked' = marked
    BY <1>1 DEF Refuse, Fault, Fetchable, Walked, Resolved, Resolves, disk
  <2>2. CASE proc.op = "add"
    <3>1. To("restore") /\ "restore" \in Resolves /\ "restore" \notin ResolveSteps
      BY <2>1, <2>2 DEF Fails, Resolves, ResolveSteps
    <3>. QED  BY <2>1, <3>1, ToKeeps
  <2>3. CASE proc.op # "add"
    <3>1. proc'.step = "idle"
      BY <2>1, <2>3 DEF Fails, Idle
    <3>. QED  BY <2>1, <3>1, StopKeeps
  <2>. QED  BY <2>2, <2>3
<1>2. CASE Restore
  <2>1. proc.step \in Resolves /\ To("restoring") /\ lock' = lock
        /\ settled' = settled /\ marked' = marked /\ proc.op = "add"
    BY <1>2 DEF Restore, Resolves, IInv, FilesHeld, Running
  <2>2. "restoring" \in Resolves /\ "restoring" \notin ResolveSteps
    BY DEF Resolves, ResolveSteps
  <2>. QED  BY <2>1, <2>2, ToKeeps
<1>3. CASE Restored
  <2>1. /\ Running /\ lock = proc.existing /\ lock' = lock /\ manifest' = proc.original
        /\ settled' = proc.settled /\ proc'.step = "idle"
    BY <1>3 DEF Restored, IInv, FilesHeld, Running, Idle
  <2>2. RefsHold(lock)' /\ (settled' => LeftBy(manifest, lock)')
    BY <2>1 DEF LInv, FilesSettled, RefsHold
  <2>. QED  BY <2>1, <2>2, IdleSettled
<1>4. CASE WriteFails \/ Crash
  <2>1. proc'.step = "idle" /\ lock' = lock /\ manifest' = manifest /\ settled' = settled
    BY <1>4 DEF WriteFails, Crash, Idle, disk
  <2>. QED  BY <2>1, StopKeeps
<1>. QED  BY <1>1, <1>2, <1>3, <1>4

\* A step that concerns neither the process nor the files.
LEMMA UnchangedSettles ==
  ASSUME LInv, UNCHANGED <<disk, proc, settled>>
  PROVE  LInv'
<1>1. manifest' = manifest /\ lock' = lock /\ marked' = marked /\ proc' = proc
      /\ settled' = settled
  BY DEF disk
<1>2. FilesSettled'
  BY <1>1 DEF LInv, FilesSettled, RefsHold, LeftBy, Binds, Running
<1>3. WalkSettled'
  <2>1. \A n, dep, c : Means(n, dep, c)' <=> Means(n, dep, c)
    BY <1>1 DEF Means, Known, HasRef, IsPinned, CommitOf, ResolveRef
  <2>2. Walking(proc.root, proc.stack, proc.found)' <=> Walking(proc.root, proc.stack, proc.found)
    BY <1>1, <2>1 DEF Walking
  <2>. QED  BY <1>1, <2>2 DEF LInv, WalkSettled
<1>4. CloneNeeded'
  BY <1>1 DEF LInv, CloneNeeded, Unlocked, IsPinned
<1>. QED  BY <1>2, <1>3, <1>4 DEF LInv

LEMMA OthersSettle ==
  ASSUME LInv,
         \/ \E u \in Url : Push(u)
         \/ \E m \in Manifests : EditManifest(m)
         \/ ClearCache
         \/ UNCHANGED vars
  PROVE  LInv'
<1>1. CASE (\E u \in Url : Push(u)) \/ UNCHANGED vars
  BY <1>1, UnchangedSettles DEF Push, vars, disk
<1>2. CASE \E m \in Manifests : EditManifest(m)
  <2>1. proc'.step = "idle" /\ lock' = lock /\ ~settled'
    BY <1>2 DEF EditManifest, Running
  <2>2. RefsHold(lock)'
    BY <2>1 DEF LInv, FilesSettled, RefsHold
  <2>. QED  BY <2>1, <2>2, IdleSettled
<1>3. CASE ClearCache
  <2>1. proc'.step = "idle" /\ lock' = lock /\ manifest' = manifest /\ settled' = settled
    BY <1>3 DEF ClearCache, Running
  <2>. QED  BY <2>1, StopKeeps
<1>. QED  BY <1>1, <1>2, <1>3

LEMMA NextSettles ==
  ASSUME IInv, LInv, [Next]_vars
  PROVE  LInv'
<1>1. ASSUME ClearCheckout \/ FillCheckout PROVE LInv'
  <2>1. PICK s \in {"fill", "mark"} : To(s)
    BY <1>1 DEF ClearCheckout, FillCheckout
  <2>2. proc.step \in Resolves /\ proc.step \in ResolveSteps /\ s \in Resolves /\ lock' = lock
        /\ manifest' = manifest /\ settled' = settled
    BY <1>1, <2>1 DEF ClearCheckout, FillCheckout, Resolves, ResolveSteps
  <2>3. marked \subseteq marked'
    BY <1>1 DEF ClearCheckout, FillCheckout, IInv, CheckoutUnderWay
  <2>. QED  BY <2>1, <2>2, <2>3, ToKeeps
<1>2. CASE \/ \E op \in {"build", "locked"} : Build(op)
           \/ \E a \in Additions : Add(a[1], a[2])
           \/ Edited
  BY <1>2, CommandsSettle
<1>3. CASE FetchPath \/ FetchPinned \/ FetchGit \/ MarkCheckout \/ Reconcile
  BY <1>3, FetchPathSettles, FetchPinnedSettles, FetchGitSettles, MarkCheckoutSettles,
     ReconcileSettles
<1>4. CASE Refuse \/ Fault \/ Restore \/ Restored \/ WriteFails \/ Crash
  BY <1>4, FailuresSettle
<1>5. CASE \/ \E u \in Url : Push(u)
           \/ \E m \in Manifests : EditManifest(m)
           \/ ClearCache
           \/ UNCHANGED vars
  BY <1>5, OthersSettle
<1>. QED  BY <1>1, <1>2, <1>3, <1>4, <1>5 DEF Next

\* What is settled stays so, in every state a project can be in.
LEMMA LInvHolds == Spec => [](IInv /\ LInv)
<1>1. Init => IInv /\ LInv
  <2>1. Init => LInv
    BY DEF Init, Idle, LInv, FilesSettled, RefsHold, WalkSettled, CloneNeeded, Running, Resolves,
           ResolveSteps
  <2>. QED  BY <2>1, InitIInv
<1>2. IInv /\ LInv /\ [Next]_vars => (IInv /\ LInv)'
  BY NextKeeps, NextSettles
<1>. QED  BY <1>1, <1>2, PTL DEF Spec

\* A package of the resolved graph is required there, and has the version that somebody in the
\* graph asks for, unless a superseded version, or what only that requires, asks for it.
THEOREM VersionsHaveReasons == Spec => []VersionsAskedFor
<1>1. IInv /\ LInv => VersionsAskedFor
  <2>1. SUFFICES ASSUME IInv, LInv, Resolved, NEW n \in DOMAIN Chosen
        PROVE  /\ \E deps \in Kept : n \in DOMAIN deps
               /\ \/ \E deps \in Kept : Asks(deps, n, Chosen[n].version)
                  \/ /\ \E deps \in Discarded : Asks(deps, n, Chosen[n].version)
                     /\ \E m \in DOMAIN Chosen : Cardinality(Named(proc.found, m)) > 1
    BY DEF VersionsAskedFor
  <2>2. Walked /\ proc.step \in Resolves
    BY <2>1 DEF Resolved, Walked, Resolves
  <2>3. \E deps \in Kept : n \in DOMAIN deps
    <3>1. CASE n \in DOMAIN proc.root
      BY <3>1 DEF Kept
    <3>2. CASE n \notin DOMAIN proc.root
      <4>1. PICK m \in DOMAIN Chosen : n \in DOMAIN Chosen[m].deps
        BY <2>1, <2>2, <3>2, GraphSound
      <4>. QED  BY <4>1 DEF Kept, Range
    <3>. QED  BY <3>1, <3>2
  <2>4. PICK c : c = Chosen[n] /\ c \in Range(proc.found) /\ c.name = n
    BY <2>1, <2>2, GraphSound
  <2>5. c = Package(c.name, c.dep, CommitOf(c.name, c.dep, proc.cloned))
    BY <2>1, <2>2, <2>4 DEF IInv, FoundSound
  <2>6. \A deps : n \in DOMAIN deps /\ deps[n] = c.dep => Asks(deps, n, c.version)
    BY <2>4, <2>5 DEF Asks
  <2>7. PICK i \in DOMAIN proc.found : c = proc.found[i] /\ HasReason(proc.root, proc.found, i)
    BY <2>1, <2>2, <2>4 DEF LInv, WalkSettled, FoundInOrder, Range
  <2>8. \/ Asks(proc.root, n, c.version)
        \/ \E q \in Range(proc.found) : Asks(q.deps, n, c.version)
    BY <2>4, <2>6, <2>7 DEF HasReason, Range
  <2>9. CASE Asks(proc.root, n, c.version)
    BY <2>3, <2>4, <2>9 DEF Kept
  <2>10. ASSUME NEW q \in Range(proc.found), Asks(q.deps, n, c.version)
         PROVE  \/ \E deps \in Kept : Asks(deps, n, c.version)
                \/ /\ \E deps \in Discarded : Asks(deps, n, c.version)
                   /\ \E m \in DOMAIN Chosen : Cardinality(Named(proc.found, m)) > 1
    <3>1. CASE q \in Range(Chosen)
      BY <2>10, <3>1 DEF Kept
    <3>2. CASE q \notin Range(Chosen)
      <4>1. \E m \in DOMAIN Chosen : Cardinality(Named(proc.found, m)) > 1
        BY <2>1, <2>2, <3>2, NothingDiscarded
      <4>. QED  BY <2>10, <3>2, <4>1 DEF Discarded
    <3>. QED  BY <3>1, <3>2
  <2>. QED  BY <2>3, <2>4, <2>8, <2>9, <2>10
<1>. QED  BY <1>1, LInvHolds, PTL

\* A lockfile that has the commits of the branches is reproduced by the next resolve of the
\* same manifest, wherever the branches are now: the two walks find the same packages in the
\* same order.
THEOREM LocksReproduce == Spec => []LockReproduces
<1>1. IInv /\ LInv => LockReproduces
  BY SameLock DEF LockReproduces
<1>. QED  BY <1>1, LInvHolds, PTL

\* With every locked commit checked out, the network is used only for what is not locked.
THEOREM LockedIsOffline == Spec => []ReproducibleIsOffline
<1>1. IInv /\ LInv => ReproducibleIsOffline
  BY NothingToClone DEF ReproducibleIsOffline
<1>. QED  BY <1>1, LInvHolds, PTL
=============================================================================
