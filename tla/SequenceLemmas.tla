-------------------------- MODULE SequenceLemmas ---------------------------
(***************************************************************************)
(* What the models do with numbers and with sequences of handlers,         *)
(* activations and frames: take the least or the greatest position;        *)
(* append, drop the first, the last or one in the middle.                  *)
(***************************************************************************)
EXTENDS Integers, Sequences, SequencesExt, SequenceTheorems, WellFoundedInduction, TLAPS

\* A set of numbers that is not empty has a least element.
LEMMA LeastNatural ==
  ASSUME NEW S \in SUBSET Nat, S # {}
  PROVE  \E m \in S : \A k \in S : m <= k
<1>. DEFINE R == {ss \in Nat \X Nat : ss[1] < ss[2]}
<1>1. IsWellFoundedOn(R, Nat)
  BY NatLessThanWellFounded DEF OpToRel
<1>2. \A k, m \in Nat : k < m => <<k, m>> \in R
  OBVIOUS
<1>3. PICK m \in S : \A k \in S : ~ (<<k, m>> \in R)
  <2>. HIDE DEF R
  <2>. QED  BY <1>1, WFMin
<1>4. \A k \in S : ~(k < m)
  <2>. HIDE DEF R
  <2>. QED BY <1>2, <1>3
<1>. QED  BY <1>4

\* The last of some positions in a sequence.
LEMMA MaxOfPositions ==
  ASSUME NEW n \in Nat, NEW S \in SUBSET (1 .. n), S # {}
  PROVE  Max(S) \in S /\ \A i \in S : i <= Max(S)
<1>. DEFINE D == {d \in Nat : \E i \in S : d = n - i}
<1>1. \A i \in S : n - i \in D
  OBVIOUS
<1>2. D # {}
  BY <1>1
<1>3. PICK d \in D : \A k \in D : d <= k
  <2>1. D \in SUBSET Nat
    OBVIOUS
  <2>. HIDE DEF D
  <2>. QED  BY <1>2, <2>1, LeastNatural
<1>4. PICK i \in S : d = n - i
  BY <1>3
<1>5. \A j \in S : i >= j
  <2>1. \A j \in S : d <= n - j
    BY <1>1, <1>3
  <2>. QED  BY <1>4, <2>1
<1>6. \E x \in S : \A y \in S : x >= y
  BY <1>5
<1>7. Max(S) \in S /\ \A j \in S : Max(S) >= j
  BY <1>6 DEF Max
<1>. QED  BY <1>7

LEMMA MinOfNaturals ==
  ASSUME NEW S \in SUBSET Nat, S # {}
  PROVE  Min(S) \in S /\ \A i \in S : Min(S) <= i
<1>1. \E x \in S : \A y \in S : x <= y
  BY LeastNatural
<1>. QED  BY <1>1 DEF Min

\* Counting up to N.
LEMMA Counting ==
  ASSUME NEW N \in Nat, NEW S, 0 \in S, \A n \in 1 .. N : n - 1 \in S => n \in S
  PROVE  \A n \in 0 .. N : n \in S
<1>. SUFFICES ASSUME NEW x \in 0 .. N, x \notin S PROVE FALSE
  OBVIOUS
<1>1. PICK T : T = {n \in 0 .. N : n \notin S}
  OBVIOUS
<1>2. T \in SUBSET Nat /\ T # {}
  BY <1>1
<1>3. PICK m \in T : \A k \in T : m <= k
  BY <1>2, LeastNatural
<1>4. m \in 1 .. N /\ m - 1 \in 0 .. N /\ ~(m <= m - 1)
  BY <1>1
<1>5. m - 1 \in S
  BY <1>1, <1>3, <1>4
<1>. QED  BY <1>1, <1>4, <1>5

\* A function on 0 .. N that is defined by recursion, from an element of Good[0]
\* by steps from Good[n - 1] to Good[n], exists.
StepsKeep(N, G, Good) == \A n \in 1 .. N : \A x \in Good[n - 1] : G[n][x] \in Good[n]

Unfolds(N, x0, G, Good, f) ==
  /\ f = [n \in 0 .. N |-> IF n = 0 THEN x0 ELSE G[n][f[n - 1]]]
  /\ \A n \in 0 .. N : f[n] \in Good[n]

LEMMA RecursionSound ==
  ASSUME NEW N \in Nat, NEW Good, NEW x0 \in Good[0], NEW G, StepsKeep(N, G, Good)
  PROVE  \E f : Unfolds(N, x0, G, Good, f)
<1>. USE DEF StepsKeep, Unfolds
<1>. DEFINE P(m, f) == /\ f = [n \in 0 .. m |-> IF n = 0 THEN x0 ELSE G[n][f[n - 1]]]
                       /\ \A n \in 0 .. m : f[n] \in Good[n]
            S == {m \in Nat : \E f : P(m, f)}
<1>1. 0 \in S
  <2>1. PICK f : f = [n \in 0 .. 0 |-> x0]
    OBVIOUS
  <2>2. \A n \in 0 .. 0 : n = 0
    OBVIOUS
  <2>3. f = [n \in 0 .. 0 |-> IF n = 0 THEN x0 ELSE G[n][f[n - 1]]]
    BY <2>1, <2>2
  <2>4. \A n \in 0 .. 0 : f[n] \in Good[n]
    BY <2>1, <2>2
  <2>. QED  BY <2>3, <2>4
<1>2. ASSUME NEW n \in 1 .. N, n - 1 \in S PROVE n \in S
  <2>1. PICK f : P(n - 1, f)
    BY <1>2
  <2>2. f[n - 1] \in Good[n - 1]
    <3>1. n - 1 \in 0 .. n - 1
      OBVIOUS
    <3>. QED  BY <2>1, <3>1
  <2>3. PICK y \in Good[n] : y = G[n][f[n - 1]]
    BY <2>2
  <2>4. PICK g : g = [i \in 0 .. n |-> IF i = n THEN y ELSE f[i]]
    OBVIOUS
  <2>5. n \in Nat /\ n # 0 /\ \A i \in 0 .. n : i = n \/ i \in 0 .. n - 1
    OBVIOUS
  <2>6. ASSUME NEW i \in 0 .. n
        PROVE  g[i] = (IF i = 0 THEN x0 ELSE G[i][g[i - 1]]) /\ g[i] \in Good[i]
    <3>1. CASE i = n
      <4>1. i - 1 \in 0 .. n /\ i - 1 # n
        BY <2>5, <3>1
      <4>2. g[i - 1] = f[n - 1] /\ g[i] = y
        BY <2>4, <3>1, <4>1
      <4>. QED  BY <2>3, <2>5, <3>1, <4>2
    <3>2. CASE i # n
      <4>1. i \in 0 .. n - 1 /\ g[i] = f[i]
        BY <2>4, <2>5, <3>2
      <4>2. f[i] \in Good[i] /\ f[i] = IF i = 0 THEN x0 ELSE G[i][f[i - 1]]
        BY <2>1, <4>1
      <4>3. i # 0 => i - 1 \in 0 .. n /\ i - 1 # n
        BY <2>5, <4>1
      <4>4. i # 0 => g[i - 1] = f[i - 1]
        BY <2>4, <4>3
      <4>. QED  BY <4>1, <4>2, <4>4
    <3>. QED  BY <3>1, <3>2
  <2>7. g = [i \in 0 .. n |-> IF i = 0 THEN x0 ELSE G[i][g[i - 1]]]
    <3>1. g = [i \in 0 .. n |-> g[i]]
      BY <2>4
    <3>. QED  BY <2>6, <3>1
  <2>8. P(n, g)
    BY <2>6, <2>7
  <2>. QED  BY <2>5, <2>8
<1>3. N \in S
  <2>. HIDE DEF S
  <2>. QED  BY <1>1, <1>2, Counting
<1>. QED  BY <1>3

\* Front drops the last element and nothing else.
LEMMA FrontProperties ==
  ASSUME NEW S, NEW s \in Seq(S), s # <<>>
  PROVE  /\ Front(s) \in Seq(S)
         /\ Len(Front(s)) = Len(s) - 1
         /\ DOMAIN Front(s) = 1 .. Len(s) - 1
         /\ \A i \in DOMAIN Front(s) : Front(s)[i] = s[i]
<1>1. Len(s) \in Nat \ {0} /\ \A i \in 1 .. Len(s) - 1 : s[i] \in S
  BY EmptySeq, ElementOfSeq
<1>. DEFINE n == Len(s) - 1
<1>. HIDE DEF n
<1>2. n \in Nat
  BY <1>1 DEF n
<1>3. (IF 1 <= n THEN n - 1 + 1 ELSE 0) = n
  BY <1>2
<1>4. /\ SubSeq(s, 1, n) \in Seq(S)
      /\ Len(SubSeq(s, 1, n)) = n
      /\ \A i \in 1 .. n - 1 + 1 : SubSeq(s, 1, n)[i] = s[1 + i - 1]
  <2>1. \A i \in 1 .. n : s[i] \in S
    BY <1>1 DEF n
  <2>. QED  BY <1>2, <1>3, <2>1, SubSeqProperties
<1>5. \A i \in 1 .. n : i \in 1 .. n - 1 + 1 /\ 1 + i - 1 = i
  BY <1>2
<1>. QED  BY <1>4, <1>5, LenProperties DEF Front, n

\* The top of a stack and the rest.
LEMMA StackTop ==
  ASSUME NEW S, NEW s \in Seq(S), s # <<>>
  PROVE  /\ s[1] \in S /\ Tail(s) \in Seq(S)
         /\ 1 \in DOMAIN s
         /\ Range(s) = {s[1]} \cup Range(Tail(s))
         /\ \A i \in DOMAIN Tail(s) : i + 1 \in DOMAIN s /\ Tail(s)[i] = s[i + 1]
         /\ \A i \in DOMAIN s : i # 1 => i - 1 \in DOMAIN Tail(s)
<1>1. Len(s) \in Nat \ {0} /\ DOMAIN s = 1 .. Len(s) /\ \A i \in 1 .. Len(s) : s[i] \in S
  BY EmptySeq, LenProperties
<1>2. /\ Tail(s) \in Seq(S) /\ Len(Tail(s)) = Len(s) - 1
      /\ \A i \in 1 .. Len(Tail(s)) : Tail(s)[i] = s[i + 1]
  BY HeadTailProperties
<1>3. DOMAIN Tail(s) = 1 .. (Len(s) - 1)
  BY <1>2, LenProperties
<1>4. 1 \in DOMAIN s
  BY <1>1
<1>5. \A i \in DOMAIN Tail(s) : i + 1 \in DOMAIN s /\ Tail(s)[i] = s[i + 1]
  BY <1>1, <1>2, <1>3
<1>6. \A i \in DOMAIN s : i # 1 => i - 1 \in DOMAIN Tail(s) /\ i - 1 + 1 = i
  BY <1>1, <1>3
<1>7. Range(s) = {s[1]} \cup Range(Tail(s))
  <2>1. ASSUME NEW i \in DOMAIN s PROVE s[i] \in {s[1]} \cup Range(Tail(s))
    <3>1. CASE i = 1
      BY <3>1
    <3>2. CASE i # 1
      <4>1. i - 1 \in DOMAIN Tail(s) /\ Tail(s)[i - 1] = s[i]
        BY <1>5, <1>6, <3>2
      <4>. QED  BY <4>1 DEF Range
    <3>. QED  BY <3>1, <3>2
  <2>. QED  BY <1>4, <1>5, <2>1 DEF Range
<1>. QED  BY <1>1, <1>2, <1>4, <1>5, <1>6, <1>7

\* Appending adds one element.
LEMMA AppendRange ==
  ASSUME NEW S, NEW s \in Seq(S), NEW x \in S
  PROVE  Range(Append(s, x)) = Range(s) \cup {x}
<1>1. /\ Len(s) \in Nat /\ DOMAIN s = 1 .. Len(s)
      /\ DOMAIN Append(s, x) = 1 .. (Len(s) + 1)
      /\ \A i \in 1 .. Len(s) : Append(s, x)[i] = s[i]
      /\ Append(s, x)[Len(s) + 1] = x
  BY AppendProperties, LenProperties
<1>2. \A i \in 1 .. Len(s) : i \in 1 .. (Len(s) + 1)
  BY <1>1
<1>3. Len(s) + 1 \in 1 .. (Len(s) + 1)
  BY <1>1
<1>4. \A i \in 1 .. (Len(s) + 1) : i \in 1 .. Len(s) \/ i = Len(s) + 1
  BY <1>1
<1>. QED  BY <1>1, <1>2, <1>3, <1>4 DEF Range

\* A sequence is one of what it holds.
LEMMA OfItsRange ==
  ASSUME NEW S, NEW s \in Seq(S)
  PROVE  s \in Seq(Range(s)) /\ \A x \in Range(s) : x \in S
<1>1. /\ Len(s) \in Nat /\ DOMAIN s = 1 .. Len(s) /\ s \in [1 .. Len(s) -> S]
  BY LenProperties
<1>2. s = [i \in 1 .. Len(s) |-> s[i]] /\ \A i \in 1 .. Len(s) : s[i] \in Range(s)
  BY <1>1 DEF Range
<1>3. s \in Seq(Range(s))
  BY <1>1, <1>2, IsASeq
<1>. QED  BY <1>1, <1>3 DEF Range

\* Removing an element leaves the others.
LEMMA RemoveAtSound ==
  ASSUME NEW S, NEW s \in Seq(S), NEW i \in DOMAIN s
  PROVE  /\ RemoveAt(s, i) \in Seq(S)
         /\ Len(RemoveAt(s, i)) = Len(s) - 1
         /\ Range(RemoveAt(s, i)) \subseteq Range(s)
<1>1. Len(s) \in Nat /\ DOMAIN s = 1 .. Len(s) /\ \A j \in 1 .. Len(s) : s[j] \in Range(s)
  BY LenProperties DEF Range
<1>2. s \in Seq(Range(s)) /\ \A j \in 1 .. Len(s) : s[j] \in S
  BY <1>1, OfItsRange, ElementOfSeq
<1>. DEFINE n == Len(s)
            low == SubSeq(s, 1, i - 1)
            high == SubSeq(s, i + 1, n)
<1>. HIDE DEF n
<1>3. n \in Nat /\ i \in 1 .. n /\ i - 1 \in Int /\ i + 1 \in Int
  BY <1>1 DEF n
<1>4. /\ \A j \in 1 .. i - 1 : j \in 1 .. n
      /\ \A j \in i + 1 .. n : j \in 1 .. n
  BY <1>3
<1>5. \A T : (\A j \in 1 .. n : s[j] \in T) => low \in Seq(T) /\ high \in Seq(T)
  BY <1>3, <1>4, SubSeqProperties
<1>6. /\ Len(low) = IF 1 <= i - 1 THEN i - 1 - 1 + 1 ELSE 0
      /\ Len(high) = IF i + 1 <= n THEN n - (i + 1) + 1 ELSE 0
  BY <1>2, <1>3, <1>4, SubSeqProperties DEF n
<1>7. (IF 1 <= i - 1 THEN i - 1 - 1 + 1 ELSE 0) + (IF i + 1 <= n THEN n - (i + 1) + 1 ELSE 0) = n - 1
  BY <1>3
<1>8. low \in Seq(S) /\ high \in Seq(S) /\ low \in Seq(Range(s)) /\ high \in Seq(Range(s))
  BY <1>1, <1>2, <1>5 DEF n
<1>9. RemoveAt(s, i) = low \o high
  BY DEF RemoveAt, n
<1>. HIDE DEF low, high
<1>10. low \o high \in Seq(S) /\ Len(low \o high) = Len(low) + Len(high)
  BY <1>8, ConcatProperties
<1>11. low \o high \in Seq(Range(s))
  BY <1>8, ConcatProperties
<1>12. Range(low \o high) \subseteq Range(s)
  BY <1>11, OfItsRange
<1>. QED  BY <1>6, <1>7, <1>9, <1>10, <1>12 DEF n

\* The elements that stay close the gap.
LEMMA RemoveAtElements ==
  ASSUME NEW S, NEW s \in Seq(S), NEW i \in DOMAIN s
  PROVE  RemoveAt(s, i) = [j \in 1 .. (Len(s) - 1) |-> IF j < i THEN s[j] ELSE s[j + 1]]
<1>1. PICK n \in Nat : n = Len(s)
  BY LenProperties
<1>2. DOMAIN s = 1 .. n /\ i \in 1 .. n /\ \A j \in 1 .. n : s[j] \in S
  BY <1>1, LenProperties, ElementOfSeq
<1>3. PICK low : low = SubSeq(s, 1, i - 1)
  OBVIOUS
<1>4. PICK high : high = SubSeq(s, i + 1, n)
  OBVIOUS
<1>5. i - 1 \in Int /\ i + 1 \in Int /\ n \in Int
  BY <1>2
<1>6. /\ low \in Seq(S) /\ Len(low) = IF 1 <= i - 1 THEN i - 1 - 1 + 1 ELSE 0
      /\ \A j \in 1 .. i - 1 - 1 + 1 : low[j] = s[1 + j - 1]
  <2>1. \A j \in 1 .. i - 1 : s[j] \in S
    BY <1>2
  <2>. QED  BY <1>3, <1>5, <2>1, SubSeqProperties
<1>7. /\ high \in Seq(S) /\ Len(high) = IF i + 1 <= n THEN n - (i + 1) + 1 ELSE 0
      /\ \A j \in 1 .. n - (i + 1) + 1 : high[j] = s[i + 1 + j - 1]
  <2>1. \A j \in i + 1 .. n : s[j] \in S
    BY <1>2
  <2>. QED  BY <1>4, <1>5, <2>1, SubSeqProperties
<1>8. Len(low) = i - 1 /\ Len(high) = n - i
  BY <1>2, <1>6, <1>7
<1>9. PICK r : r = low \o high
  OBVIOUS
<1>10. /\ r \in Seq(S) /\ Len(r) = Len(low) + Len(high)
       /\ \A j \in 1 .. Len(low) + Len(high) :
            r[j] = IF j <= Len(low) THEN low[j] ELSE high[j - Len(low)]
  BY <1>6, <1>7, <1>9, ConcatProperties
<1>11. Len(low) + Len(high) = n - 1
  BY <1>2, <1>8
<1>12. ASSUME NEW j \in 1 .. (n - 1) PROVE r[j] = IF j < i THEN s[j] ELSE s[j + 1]
  <2>1. CASE j < i
    <3>1. j \in 1 .. i - 1 - 1 + 1 /\ 1 + j - 1 = j /\ j <= i - 1
      BY <1>2, <2>1
    <3>. QED  BY <1>6, <1>8, <1>10, <1>11, <2>1, <3>1
  <2>2. CASE ~(j < i)
    <3>1. /\ j - (i - 1) \in 1 .. n - (i + 1) + 1 /\ i + 1 + (j - (i - 1)) - 1 = j + 1
          /\ ~(j <= i - 1)
      BY <1>2, <2>2
    <3>. QED  BY <1>7, <1>8, <1>10, <1>11, <2>2, <3>1
  <2>. QED  BY <2>1, <2>2
<1>13. DOMAIN r = 1 .. (n - 1)
  BY <1>10, <1>11, LenProperties
<1>14. r = [j \in 1 .. (n - 1) |-> r[j]]
  BY <1>10, <1>11, <1>13, LenProperties
<1>15. RemoveAt(s, i) = r
  BY <1>1, <1>3, <1>4, <1>9 DEF RemoveAt
<1>. QED  BY <1>1, <1>12, <1>14, <1>15

\* An element that is there once is removed from its place.
LEMMA RemoveFirstSound ==
  ASSUME NEW S, NEW s \in Seq(S), NEW i \in DOMAIN s,
         \A j \in DOMAIN s : s[j] = s[i] => j = i
  PROVE  RemoveFirst(s, s[i]) = RemoveAt(s, i)
<1>1. DOMAIN s = 1 .. Len(s) /\ Len(s) \in Nat
  BY LenProperties
<1>2. {j \in 1 .. Len(s) : s[j] = s[i]} = {i}
  BY <1>1
<1>3. Min({i}) = i
  <2>1. {i} \in SUBSET Nat /\ {i} # {}
    BY <1>1
  <2>. QED  BY <2>1, MinOfNaturals
<1>4. SelectInSeq(s, LAMBDA v : v = s[i]) = i
  BY <1>2, <1>3 DEF SelectInSeq
<1>. QED  BY <1>1, <1>4 DEF RemoveFirst

\* Replacing an element leaves the others.
LEMMA ReplaceSound ==
  ASSUME NEW S, NEW s \in Seq(S), NEW i \in DOMAIN s, NEW x \in S
  PROVE  /\ [s EXCEPT ![i] = x] \in Seq(S)
         /\ Len([s EXCEPT ![i] = x]) = Len(s)
         /\ [s EXCEPT ![i] = x][i] = x
         /\ Range([s EXCEPT ![i] = x]) \subseteq Range(s) \cup {x}
<1>1. DOMAIN s = 1 .. Len(s)
  BY LenProperties
<1>2. DOMAIN [s EXCEPT ![i] = x] = DOMAIN s
  OBVIOUS
<1>3. \A j \in DOMAIN s : [s EXCEPT ![i] = x][j] = IF j = i THEN x ELSE s[j]
  OBVIOUS
<1>4. /\ [s EXCEPT ![i] = x] \in Seq(S)
      /\ Len([s EXCEPT ![i] = x]) = Len(s)
  BY <1>1, ExceptSeq
<1>. QED  BY <1>2, <1>3, <1>4 DEF Range
=============================================================================
