------------------------- MODULE PhoenixMapProofs --------------------------
(***************************************************************************)
(* Proofs about the hash table of the native runtime (PhoenixMap): what    *)
(* its helpers and operations do to a sound table, for any keys, values,   *)
(* hashes and capacities.                                                  *)
(***************************************************************************)
EXTENDS PhoenixMap, FiniteSetTheorems, SequenceLemmas

-----------------------------------------------------------------------------
(* Walks.                                                                  *)

\* Division with remainder is unique.
LEMMA RemainderUnique ==
  ASSUME NEW c \in Nat \ {0}, NEW q \in Int, NEW p \in Int,
         NEW r \in 0 .. c - 1, NEW s \in 0 .. c - 1,
         c * q + r = c * p + s
  PROVE  q = p /\ r = s
<1>1. ASSUME NEW x \in Int, NEW y \in Int, x < y PROVE c * x + c <= c * y
  <2>1. PICK d \in Nat : y = x + 1 + d
    <3>1. y - x - 1 \in Nat
      BY <1>1
    <3>. QED  BY <3>1
  <2>2. c * y = c * x + c + c * d
    BY <2>1
  <2>3. c * d \in Nat
    OBVIOUS
  <2>. QED  BY <2>2, <2>3
<1>2. c * q \in Int /\ c * p \in Int
  OBVIOUS
<1>3. q = p
  <2>1. CASE q < p
    BY <1>1, <1>2, <2>1
  <2>2. CASE p < q
    BY <1>1, <1>2, <2>2
  <2>. QED  BY <2>1, <2>2
<1>. QED  BY <1>2, <1>3

\* A number's remainder.
LEMMA Remainder ==
  ASSUME NEW c \in Nat \ {0}, NEW a \in Nat
  PROVE  /\ a % c \in 0 .. c - 1
         /\ \E q \in Nat : a = c * q + (a % c)
<1>1. a = c * (a \div c) + (a % c) /\ a \div c \in Nat
  OBVIOUS
<1>2. a % c \in 0 .. c - 1
  OBVIOUS
<1>3. PICK q \in Nat : a = c * q + (a % c)
  BY <1>1
<1>. QED  BY <1>2, <1>3

\* A walk around a table of c buckets from bucket a % c passes no bucket twice ...
LEMMA WalkPassesOnce ==
  ASSUME NEW c \in Nat \ {0}, NEW a \in Nat,
         NEW m \in 0 .. c - 1, NEW n \in 0 .. c - 1, (a + m) % c = (a + n) % c
  PROVE  m = n
<1>1. PICK q \in Nat : a + m = c * q + ((a + m) % c)
  <2>1. a + m \in Nat
    OBVIOUS
  <2>. QED  BY <2>1, Remainder
<1>2. PICK p \in Nat : a + n = c * p + ((a + m) % c)
  <2>1. a + n \in Nat
    OBVIOUS
  <2>. QED  BY <2>1, Remainder
<1>3. PICK b \in Nat, r \in 0 .. c - 1 : a = c * b + r
  BY Remainder
<1>4. PICK s \in 0 .. c - 1 : s = (a + m) % c
  <2>1. a + m \in Nat
    OBVIOUS
  <2>. QED  BY <2>1, Remainder
<1>5. m - n = c * (q - p)
  <2>1. c * q \in Int /\ c * p \in Int /\ c * (q - p) = c * q - c * p
    OBVIOUS
  <2>. QED  BY <1>1, <1>2, <1>4, <2>1
<1>6. ASSUME NEW d \in Int, NEW x \in 0 .. c - 1, NEW y \in 0 .. c - 1, x - y = c * d
      PROVE  x = y
  <2>1. c * d + y = c * 0 + x
    <3>1. c * d \in Int /\ c * 0 = 0
      OBVIOUS
    <3>. QED  BY <1>6, <3>1
  <2>. QED  BY <2>1, RemainderUnique
<1>. QED  BY <1>5, <1>6

\* ... and passes all of them.
LEMMA WalkReachesAll ==
  ASSUME NEW c \in Nat \ {0}, NEW a \in Nat, NEW i \in 0 .. c - 1
  PROVE  \E n \in 0 .. c - 1 : (a + n) % c = i
<1>1. PICK q \in Nat, r \in 0 .. c - 1 : a = c * q + r
  BY Remainder
<1>2. PICK n \in 0 .. c - 1, p \in Nat : a + n = c * p + i
  <2>1. CASE r <= i
    <3>1. i - r \in 0 .. c - 1 /\ a + (i - r) = c * q + i
      <4>1. c * q \in Int
        OBVIOUS
      <4>. QED  BY <1>1, <2>1, <4>1
    <3>. QED  BY <3>1
  <2>2. CASE i < r
    <3>1. i - r + c \in 0 .. c - 1 /\ a + (i - r + c) = c * (q + 1) + i
      <4>1. c * q \in Int /\ c * (q + 1) = c * q + c
        OBVIOUS
      <4>. QED  BY <1>1, <2>2, <4>1
    <3>2. PICK n \in 0 .. c - 1 : a + n = c * (q + 1) + i
      BY <3>1
    <3>3. q + 1 \in Nat
      OBVIOUS
    <3>. QED  BY <3>2, <3>3
  <2>. QED  BY <2>1, <2>2
<1>3. a + n \in Nat
  OBVIOUS
<1>4. PICK z \in Nat, s \in 0 .. c - 1 : a + n = c * z + s /\ s = (a + n) % c
  BY <1>3, Remainder
<1>5. c * p + i = c * z + s
  BY <1>2, <1>4
<1>6. i = s
  BY <1>5, RemainderUnique
<1>. QED  BY <1>4, <1>6

-----------------------------------------------------------------------------
(* Tables.                                                                 *)

\* The buckets of a walk.
LEMMA VisitSound ==
  ASSUME NEW t, CapacityOf(t) \in Nat \ {0}, NEW k \in Key
  PROVE  /\ \A n \in Nat : Visit(t, k, n) \in 0..(CapacityOf(t) - 1)
         /\ \A b \in 0..(CapacityOf(t) - 1) :
              \E n \in 0..(CapacityOf(t) - 1) : Visit(t, k, n) = b
<1>1. PICK c \in Nat \ {0}, a \in Nat : c = CapacityOf(t) /\ a = Hash[k]
  BY HashAssumption
<1>2. \A n \in Nat : a + n \in Nat
  OBVIOUS
<1>3. \A n \in Nat : (a + n) % c \in 0..(c - 1)
  BY <1>2, Remainder
<1>4. \A b \in 0..(c - 1) : \E n \in 0..(c - 1) : (a + n) % c = b
  BY WalkReachesAll
<1>. QED  BY <1>1, <1>3, <1>4 DEF Visit

\* What probe answers of a key.
LEMMA ProbeSound ==
  ASSUME NEW t, Sound(t), NEW k \in Key
  PROVE  LET at == Probe(t, k)
         IN  /\ at.found \in BOOLEAN
             /\ at.found => at.at \in DOMAIN t.buckets /\ Holds(t, at.at, k)
             /\ ~at.found => \A b \in DOMAIN t.buckets : ~Holds(t, b, k)
             /\ ~at.found /\ (\E b \in DOMAIN t.buckets : ~Occupied(t.buckets[b])) =>
                  /\ at # NoPlace /\ at.at \in DOMAIN t.buckets
                  /\ ~Occupied(t.buckets[at.at]) /\ ComesTo(t, k, at.at)
<1>. DEFINE walk  == 0..(CapacityOf(t) - 1)
            stops == {n \in walk : \/ t.buckets[Visit(t, k, n)] = Empty
                                   \/ Holds(t, Visit(t, k, n), k)}
            tombs == {n \in walk : /\ t.buckets[Visit(t, k, n)] = Tombstone
                                   /\ \A s \in stops : n < s}
            found == stops # {} /\ Holds(t, Visit(t, k, Min(stops)), k)
            at    == Probe(t, k)
<1>1. /\ CapacityOf(t) \in Nat \ {0} /\ DOMAIN t.buckets = walk
      /\ walk \subseteq Nat /\ \A n \in walk : Visit(t, k, n) \in walk
      /\ \A b \in walk : \E n \in walk : Visit(t, k, n) = b
  <2>1. CapacityOf(t) \in Nat \ {0} /\ DOMAIN t.buckets = walk
    BY DEF Sound, Shape
  <2>2. /\ \A n \in Nat : Visit(t, k, n) \in walk
        /\ \A b \in walk : \E n \in walk : Visit(t, k, n) = b
    BY <2>1, VisitSound
  <2>3. walk \subseteq Nat
    BY <2>1
  <2>. QED  BY <2>1, <2>2, <2>3
<1>2. at = CASE found -> [found |-> TRUE, at |-> Visit(t, k, Min(stops))]
             [] ~found /\ tombs # {} -> [found |-> FALSE, at |-> Visit(t, k, Min(tombs))]
             [] ~found /\ tombs = {} /\ stops # {} ->
                  [found |-> FALSE, at |-> Visit(t, k, Min(stops))]
             [] OTHER -> NoPlace
  BY DEF Probe
<1>3. stops # {} => Min(stops) \in stops /\ \A n \in stops : Min(stops) <= n
  <2>1. stops \in SUBSET Nat
    BY <1>1
  <2>. HIDE DEF stops
  <2>. QED  BY <2>1, MinOfNaturals
<1>4. tombs # {} => Min(tombs) \in tombs
  <2>1. tombs \in SUBSET Nat
    BY <1>1
  <2>. HIDE DEF tombs
  <2>. QED  BY <2>1, MinOfNaturals
<1>. HIDE DEF at
<1>5. CASE found
  <2>1. at = [found |-> TRUE, at |-> Visit(t, k, Min(stops))]
    BY <1>2, <1>5
  <2>2. Min(stops) \in walk
    BY <1>3, <1>5
  <2>. QED  BY <1>1, <1>5, <2>1, <2>2 DEF at
<1>6. CASE ~found
  <2>1. at = IF tombs # {} THEN [found |-> FALSE, at |-> Visit(t, k, Min(tombs))]
             ELSE IF stops # {} THEN [found |-> FALSE, at |-> Visit(t, k, Min(stops))]
             ELSE NoPlace
    BY <1>2, <1>6
  <2>2. at.found = FALSE
    BY <2>1 DEF NoPlace
  <2>3. ASSUME NEW b \in DOMAIN t.buckets, Holds(t, b, k)
        PROVE  FALSE
    <3>1. PICK n \in walk : /\ Visit(t, k, n) = b
                            /\ \A m \in 0..(n - 1) : t.buckets[Visit(t, k, m)] # Empty
      BY <2>3 DEF Sound, NoneCutOff, Holds, ComesTo
    <3>2. n \in stops
      BY <2>3, <3>1
    <3>3. Min(stops) \in stops /\ Min(stops) <= n
      BY <1>3, <3>2
    <3>4. t.buckets[Visit(t, k, Min(stops))] = Empty
      BY <1>6, <3>2, <3>3
    <3>5. Min(stops) # n
      BY <2>3, <3>1, <3>4 DEF Holds, Occupied
    <3>6. Min(stops) \in 0..(n - 1)
      <4>1. Min(stops) \in Nat
        BY <1>1, <3>3
      <4>. HIDE DEF stops
      <4>. QED  BY <3>3, <3>5, <4>1
    <3>. QED  BY <3>1, <3>4, <3>6
  <2>4. ASSUME NEW b \in DOMAIN t.buckets, ~Occupied(t.buckets[b])
        PROVE  /\ at # NoPlace /\ at.at \in DOMAIN t.buckets
               /\ ~Occupied(t.buckets[at.at]) /\ ComesTo(t, k, at.at)
    <3>1. PICK n \in walk : Visit(t, k, n) = b
      BY <1>1
    <3>2. stops = {} => n \in tombs
      BY <2>4, <3>1 DEF Occupied
    <3>3. PICK x \in walk :
            /\ at = [found |-> FALSE, at |-> Visit(t, k, x)]
            /\ ~Occupied(t.buckets[Visit(t, k, x)])
            /\ \A s \in stops : x <= s
      <4>1. CASE tombs # {}
        <5>1. at = [found |-> FALSE, at |-> Visit(t, k, Min(tombs))] /\ Min(tombs) \in tombs
          BY <1>4, <2>1, <4>1
        <5>2. PICK x \in walk : x = Min(tombs) /\ \A s \in stops : x < s
          BY <5>1
        <5>3. \A s \in stops : x <= s
          <6>1. \A s \in stops : s \in Nat /\ x \in Nat /\ x < s
            BY <1>1, <5>2
          <6>. HIDE DEF stops
          <6>. QED  BY <6>1
        <5>. QED  BY <5>1, <5>2, <5>3 DEF Occupied
      <4>2. CASE tombs = {}
        <5>1. /\ at = [found |-> FALSE, at |-> Visit(t, k, Min(stops))]
              /\ Min(stops) \in stops /\ \A s \in stops : Min(stops) <= s
          BY <1>3, <2>1, <3>2, <4>2
        <5>2. t.buckets[Visit(t, k, Min(stops))] = Empty
          BY <1>6, <5>1
        <5>. QED  BY <5>1, <5>2 DEF Occupied
      <4>. QED  BY <4>1, <4>2
    <3>4. ASSUME NEW m \in 0..(x - 1) PROVE t.buckets[Visit(t, k, m)] # Empty
      <4>1. m \in walk /\ ~(x <= m)
        BY <1>1, <3>3
      <4>. QED  BY <3>3, <4>1
    <3>5. ComesTo(t, k, at.at)
      BY <3>3, <3>4 DEF ComesTo
    <3>6. at # NoPlace
      <4>1. at.at \in Nat
        BY <1>1, <3>3
      <4>. QED  BY <4>1, TagAssumption DEF NoPlace
    <3>. QED  BY <1>1, <3>3, <3>5, <3>6
  <2>. QED  BY <2>2, <2>3, <2>4 DEF at
<1>. QED  BY <1>5, <1>6

-----------------------------------------------------------------------------
(* A pair goes into a table.                                               *)

\* What iteration over the table t lists.
EntriesOf(t) == [i \in DOMAIN t.order |-> t.buckets[t.order[i]]]

Tables(capacity) ==
  [buckets : [0..(capacity - 1) -> {Empty, Tombstone} \cup Pair],
   order   : Seq(0..(capacity - 1))]

\* A pair is no tag.
LEMMA PairsOccupy ==
  ASSUME NEW k \in Key, NEW v \in Value
  PROVE  [key |-> k, val |-> v] \in Pair /\ Occupied([key |-> k, val |-> v])
<1>1. [key |-> k, val |-> v] \in Pair
  BY DEF Pair
<1>2. Empty \notin Pair /\ Tombstone \notin Pair
  BY TagAssumption DEF Pair
<1>. QED  BY <1>1, <1>2 DEF Occupied

\* The entries of a sound table.
LEMMA EntriesSound ==
  ASSUME NEW t, Sound(t)
  PROVE  /\ Len(t.order) \in Nat /\ DOMAIN t.order = 1..Len(t.order)
         /\ DOMAIN EntriesOf(t) = 1..Len(t.order)
         /\ EntriesOf(t) \in Seq(Pair) /\ Len(EntriesOf(t)) = Len(t.order)
         /\ \A i \in 1..Len(t.order) :
              /\ t.order[i] \in DOMAIN t.buckets
              /\ EntriesOf(t)[i] = t.buckets[t.order[i]] /\ EntriesOf(t)[i] \in Pair
         /\ \A i, j \in 1..Len(t.order) :
              EntriesOf(t)[i].key = EntriesOf(t)[j].key => i = j
<1>1. /\ Len(t.order) \in Nat /\ DOMAIN t.order = 1..Len(t.order)
      /\ \A i \in 1..Len(t.order) : t.order[i] \in 0..(CapacityOf(t) - 1)
  BY LenProperties, ElementOfSeq DEF Sound, Shape
<1>2. DOMAIN t.buckets = 0..(CapacityOf(t) - 1)
  BY DEF Sound, Shape
<1>3. \A i \in 1..Len(t.order) :
        /\ t.order[i] \in DOMAIN t.buckets /\ Occupied(t.buckets[t.order[i]])
        /\ t.buckets[t.order[i]] \in Pair
  <2>1. \A b \in DOMAIN t.buckets : t.buckets[b] \in {Empty, Tombstone} \cup Pair
    BY <1>2 DEF Sound, Shape
  <2>. QED  BY <1>1, <1>2, <2>1 DEF Sound, OrderExact, Occupied
<1>4. /\ DOMAIN EntriesOf(t) = 1..Len(t.order)
      /\ \A i \in 1..Len(t.order) :
           EntriesOf(t)[i] = t.buckets[t.order[i]] /\ EntriesOf(t)[i] \in Pair
  BY <1>1, <1>3 DEF EntriesOf
<1>5. EntriesOf(t) \in Seq(Pair) /\ Len(EntriesOf(t)) = Len(t.order)
  <2>1. EntriesOf(t) = [i \in 1..Len(t.order) |-> t.buckets[t.order[i]]]
    BY <1>1 DEF EntriesOf
  <2>. QED  BY <1>1, <1>3, <2>1, IsASeq
<1>6. ASSUME NEW i \in 1..Len(t.order), NEW j \in 1..Len(t.order),
             EntriesOf(t)[i].key = EntriesOf(t)[j].key
      PROVE  i = j
  <2>1. t.order[i] = t.order[j]
    BY <1>3, <1>4, <1>6 DEF Sound, KeysOnce, Holds
  <2>. QED  BY <1>1, <2>1 DEF Sound, OrderExact
<1>. QED  BY <1>1, <1>3, <1>4, <1>5, <1>6

\* A walk goes where it went, as long as no bucket becomes empty.
LEMMA WalksKept ==
  ASSUME NEW t, NEW u, Sound(t), CapacityOf(u) = CapacityOf(t),
         \A a \in DOMAIN t.buckets : u.buckets[a] = Empty => t.buckets[a] = Empty,
         NEW k \in Key, NEW b, ComesTo(t, k, b)
  PROVE  ComesTo(u, k, b)
<1>1. CapacityOf(t) \in Nat \ {0} /\ DOMAIN t.buckets = 0..(CapacityOf(t) - 1)
  BY DEF Sound, Shape
<1>2. \A n \in Nat : Visit(t, k, n) \in DOMAIN t.buckets /\ Visit(u, k, n) = Visit(t, k, n)
  BY <1>1, VisitSound DEF Visit
<1>3. PICK n \in 0..(CapacityOf(t) - 1) :
        Visit(t, k, n) = b /\ \A m \in 0..(n - 1) : t.buckets[Visit(t, k, m)] # Empty
  BY DEF ComesTo
<1>4. n \in Nat /\ \A m \in 0..(n - 1) : m \in Nat
  BY <1>1
<1>5. Visit(u, k, n) = b /\ \A m \in 0..(n - 1) : u.buckets[Visit(u, k, m)] # Empty
  BY <1>2, <1>3, <1>4
<1>. QED  BY <1>5 DEF ComesTo

\* A new key goes to a bucket that its walk comes to: the table stays sound, and its
\* entries have the pair at the end.
LEMMA PutAtSound ==
  ASSUME NEW t, Sound(t), NEW b \in DOMAIN t.buckets, NEW k \in Key, NEW v \in Value,
         ~Occupied(t.buckets[b]), ComesTo(t, k, b),
         \A a \in DOMAIN t.buckets : ~Holds(t, a, k)
  PROVE  LET u == PutAt(t, b, k, v)
         IN  /\ Sound(u) /\ u \in Tables(CapacityOf(t)) /\ CapacityOf(u) = CapacityOf(t)
             /\ Len(u.order) = Len(t.order) + 1
             /\ EntriesOf(u) = Append(EntriesOf(t), [key |-> k, val |-> v])
<1>. DEFINE u == PutAt(t, b, k, v)
            c == CapacityOf(t)
            n == Len(t.order)
            p == [key |-> k, val |-> v]
<1>1. /\ u.buckets = [t.buckets EXCEPT ![b] = p] /\ u.order = Append(t.order, b)
      /\ u = [buckets |-> u.buckets, order |-> u.order]
  BY DEF PutAt
<1>. HIDE DEF u
<1>2. c \in Nat \ {0} /\ DOMAIN t.buckets = 0..(c - 1) /\ t.order \in Seq(0..(c - 1))
  BY DEF Sound, Shape
<1>3. DOMAIN u.buckets = DOMAIN t.buckets /\ CapacityOf(u) = c
  BY <1>1 DEF CapacityOf
<1>4. p \in Pair /\ Occupied(p) /\ p.key = k
  BY PairsOccupy
<1>5. u.buckets[b] = p /\ \A a \in DOMAIN t.buckets : a # b => u.buckets[a] = t.buckets[a]
  BY <1>1
<1>6. /\ n \in Nat /\ DOMAIN t.order = 1..n /\ DOMAIN u.order = 1..(n + 1)
      /\ u.order \in Seq(0..(c - 1)) /\ Len(u.order) = n + 1
      /\ \A i \in 1..n : u.order[i] = t.order[i]
      /\ u.order[n + 1] = b
  <2>1. b \in 0..(c - 1)
    BY <1>2
  <2>2. /\ Append(t.order, b) \in Seq(0..(c - 1)) /\ Len(Append(t.order, b)) = n + 1
        /\ DOMAIN Append(t.order, b) = 1..(n + 1)
        /\ \A i \in 1..n : Append(t.order, b)[i] = t.order[i]
        /\ Append(t.order, b)[n + 1] = b
    BY <1>2, <2>1, AppendProperties, LenProperties
  <2>. QED  BY <1>1, <1>2, <2>2, LenProperties
<1>7. Shape(u) /\ u \in Tables(c)
  <2>1. u.buckets \in [0..(c - 1) -> {Empty, Tombstone} \cup Pair]
    BY <1>1, <1>2, <1>4 DEF Sound, Shape
  <2>. QED  BY <1>1, <1>2, <1>3, <1>6, <2>1 DEF Shape, Tables
<1>8. \A i \in 1..(n + 1) : i \in 1..n \/ i = n + 1
  BY <1>6
<1>9. \A i \in 1..n : i \in 1..(n + 1) /\ t.order[i] \in DOMAIN t.buckets /\ t.order[i] # b
  <2>1. \A i \in 1..n : i \in 1..(n + 1)
    BY <1>6
  <2>2. \A i \in 1..n : t.order[i] \in DOMAIN t.buckets
    BY EntriesSound
  <2>3. \A i \in 1..n : Occupied(t.buckets[t.order[i]])
    BY <1>6 DEF Sound, OrderExact
  <2>. QED  BY <2>1, <2>2, <2>3
<1>10. n + 1 \in 1..(n + 1)
  BY <1>6
<1>11. OrderExact(u)
  <2>1. \A i \in DOMAIN u.order : Occupied(u.buckets[u.order[i]])
    <3>1. \A i \in 1..n : Occupied(u.buckets[u.order[i]])
      BY <1>5, <1>6, <1>9 DEF Sound, OrderExact
    <3>. QED  BY <1>4, <1>5, <1>6, <1>8, <3>1
  <2>2. ASSUME NEW a \in DOMAIN u.buckets, Occupied(u.buckets[a])
        PROVE  \E i \in DOMAIN u.order : u.order[i] = a
    <3>1. CASE a = b
      BY <1>6, <1>10, <3>1
    <3>2. CASE a # b
      <4>1. PICK i \in 1..n : t.order[i] = a
        BY <1>3, <1>5, <1>6, <2>2, <3>2 DEF Sound, OrderExact
      <4>. QED  BY <1>6, <1>9, <4>1
    <3>. QED  BY <3>1, <3>2
  <2>3. ASSUME NEW i \in DOMAIN u.order, NEW j \in DOMAIN u.order, u.order[i] = u.order[j]
        PROVE  i = j
    <3>1. \A x, y \in 1..n : t.order[x] = t.order[y] => x = y
      BY <1>6 DEF Sound, OrderExact
    <3>2. (i \in 1..n \/ i = n + 1) /\ (j \in 1..n \/ j = n + 1)
      BY <1>6, <1>8
    <3>. QED  BY <1>6, <1>9, <2>3, <3>1, <3>2
  <2>. QED  BY <2>1, <2>2, <2>3 DEF OrderExact
<1>12. KeysOnce(u)
  <2>1. ASSUME NEW a \in DOMAIN u.buckets, NEW d \in DOMAIN u.buckets,
               Occupied(u.buckets[a]), Holds(u, d, u.buckets[a].key)
        PROVE  a = d
    <3>1. CASE a # b /\ d # b
      BY <1>3, <1>5, <2>1, <3>1 DEF Sound, KeysOnce, Holds
    <3>2. CASE a = b /\ d # b
      BY <1>3, <1>4, <1>5, <2>1, <3>2 DEF Holds
    <3>3. CASE a # b /\ d = b
      BY <1>3, <1>4, <1>5, <2>1, <3>3 DEF Holds
    <3>. QED  BY <3>1, <3>2, <3>3
  <2>. QED  BY <2>1 DEF KeysOnce
<1>13. NoneCutOff(u)
  <2>1. \A a \in DOMAIN t.buckets : u.buckets[a] = Empty => t.buckets[a] = Empty
    BY <1>4, <1>5 DEF Occupied
  <2>2. ASSUME NEW a \in DOMAIN u.buckets, Occupied(u.buckets[a])
        PROVE  ComesTo(u, u.buckets[a].key, a)
    <3>1. CASE a = b
      BY <1>3, <1>4, <1>5, <2>1, <3>1, WalksKept
    <3>2. CASE a # b
      <4>1. u.buckets[a] = t.buckets[a] /\ a \in DOMAIN t.buckets
        BY <1>3, <1>5, <3>2
      <4>2. PICK x \in Key : x = t.buckets[a].key
        <5>1. t.buckets[a] \in Pair
          BY <1>2, <2>2, <4>1 DEF Sound, Shape, Occupied
        <5>. QED  BY <5>1 DEF Pair
      <4>3. ComesTo(t, x, a)
        BY <2>2, <4>1, <4>2 DEF Sound, NoneCutOff
      <4>. QED  BY <1>3, <2>1, <4>1, <4>2, <4>3, WalksKept
    <3>. QED  BY <3>1, <3>2
  <2>. QED  BY <2>2 DEF NoneCutOff
<1>14. EntriesOf(u) = Append(EntriesOf(t), p)
  <2>1. /\ EntriesOf(t) \in Seq(Pair) /\ Len(EntriesOf(t)) = n
        /\ \A i \in 1..n : EntriesOf(t)[i] = t.buckets[t.order[i]]
    BY EntriesSound
  <2>2. PICK es \in Seq(Pair) : es = EntriesOf(t)
    BY <2>1
  <2>3. /\ DOMAIN Append(es, p) = 1..(n + 1) /\ Append(es, p)[n + 1] = p
        /\ \A i \in 1..n : Append(es, p)[i] = es[i]
        /\ Append(es, p) \in Seq(Pair)
    BY <1>4, <2>1, <2>2, AppendProperties, LenProperties
  <2>4. \A i \in 1..(n + 1) : u.buckets[u.order[i]] = Append(es, p)[i]
    <3>1. \A i \in 1..n : u.buckets[u.order[i]] = Append(es, p)[i]
      BY <1>5, <1>6, <1>9, <2>1, <2>2, <2>3
    <3>. QED  BY <1>5, <1>6, <1>8, <2>3, <3>1
  <2>5. EntriesOf(u) = [i \in 1..(n + 1) |-> u.buckets[u.order[i]]]
    BY <1>6 DEF EntriesOf
  <2>6. Append(es, p) = [i \in 1..(n + 1) |-> Append(es, p)[i]]
    BY <2>3
  <2>. QED  BY <2>2, <2>4, <2>5, <2>6
<1>15. Sound(u)
  BY <1>7, <1>11, <1>12, <1>13 DEF Sound
<1>. QED  BY <1>3, <1>6, <1>7, <1>14, <1>15 DEF u

\* A table with fewer entries than buckets has a bucket that is not occupied.
LEMMA SomeBucketFree ==
  ASSUME NEW t, Sound(t), Len(t.order) < CapacityOf(t)
  PROVE  \E b \in DOMAIN t.buckets : ~Occupied(t.buckets[b])
<1>. SUFFICES ASSUME \A b \in DOMAIN t.buckets : Occupied(t.buckets[b]) PROVE FALSE
  OBVIOUS
<1>1. PICK n \in Nat : n = Len(t.order) /\ DOMAIN t.order = 1..n
  BY EntriesSound
<1>2. PICK c \in Nat : c = CapacityOf(t) /\ DOMAIN t.buckets = 0..(c - 1)
  BY DEF Sound, Shape
<1>3. PICK f : f = [i \in 1..n |-> t.order[i]]
  OBVIOUS
<1>4. f \in Surjection(1..n, 0..(c - 1))
  <2>1. f \in [1..n -> 0..(c - 1)]
    BY <1>1, <1>2, <1>3, EntriesSound
  <2>2. \A b \in 0..(c - 1) : \E i \in 1..n : f[i] = b
    BY <1>1, <1>2, <1>3 DEF Sound, OrderExact
  <2>. QED  BY <2>1, <2>2 DEF Surjection
<1>5. IsFiniteSet(1..n) /\ Cardinality(1..n) = n
  <2>1. Cardinality(1..n) = IF 1 > n THEN 0 ELSE n - 1 + 1
    BY FS_Interval
  <2>. QED  BY <2>1, FS_Interval
<1>6. Cardinality(0..(c - 1)) = c
  BY <1>2 DEF CapacityOf
<1>7. c <= n
  BY <1>4, <1>5, <1>6, FS_Surjection
<1>. QED  BY <1>1, <1>2, <1>7

\* insert_into_fresh puts a new key where its walk first finds a bucket free.
LEMMA InsertIntoFreshSound ==
  ASSUME NEW t, Sound(t), NEW k \in Key, NEW v \in Value,
         Len(t.order) < CapacityOf(t), \A a \in DOMAIN t.buckets : ~Holds(t, a, k)
  PROVE  LET u == InsertIntoFresh(t, k, v)
         IN  /\ Sound(u) /\ u \in Tables(CapacityOf(t)) /\ CapacityOf(u) = CapacityOf(t)
             /\ Len(u.order) = Len(t.order) + 1
             /\ EntriesOf(u) = Append(EntriesOf(t), [key |-> k, val |-> v])
<1>1. PICK c \in Nat \ {0} : c = CapacityOf(t) /\ DOMAIN t.buckets = 0..(c - 1)
  BY DEF Sound, Shape
<1>2. PICK free : free = {n \in 0..(c - 1) : ~Occupied(t.buckets[Visit(t, k, n)])}
  OBVIOUS
<1>3. PICK b \in 0..(c - 1) : ~Occupied(t.buckets[b])
  BY <1>1, SomeBucketFree
<1>4. PICK n \in 0..(c - 1) : Visit(t, k, n) = b
  BY <1>1, VisitSound
<1>5. free \in SUBSET Nat /\ free # {}
  BY <1>2, <1>3, <1>4
<1>6. PICK m \in free : m = Min(free) /\ \A i \in free : m <= i
  BY <1>5, MinOfNaturals
<1>7. m \in 0..(c - 1) /\ ~Occupied(t.buckets[Visit(t, k, m)])
  BY <1>2, <1>6
<1>8. ASSUME NEW i \in 0..(m - 1) PROVE t.buckets[Visit(t, k, i)] # Empty
  <2>1. i \in 0..(c - 1) /\ ~(m <= i)
    BY <1>7
  <2>. QED  BY <1>2, <1>6, <2>1 DEF Occupied
<1>9. ComesTo(t, k, Visit(t, k, m))
  BY <1>1, <1>7, <1>8 DEF ComesTo
<1>10. Visit(t, k, m) \in DOMAIN t.buckets
  <2>1. m \in Nat
    BY <1>7
  <2>. QED  BY <1>1, <2>1, VisitSound
<1>11. InsertIntoFresh(t, k, v) = PutAt(t, Visit(t, k, m), k, v)
  BY <1>1, <1>2, <1>6 DEF InsertIntoFresh
<1>. QED  BY <1>7, <1>9, <1>10, <1>11, PutAtSound

\* A table as phx_map_alloc makes it.
LEMMA FreshSound ==
  ASSUME NEW c \in Nat \ {0}
  PROVE  LET t == FreshTable(c)
         IN  /\ Sound(t) /\ t \in Tables(c) /\ CapacityOf(t) = c
             /\ t.order = <<>> /\ Len(t.order) = 0
             /\ EntriesOf(t) = <<>>
             /\ \A a \in DOMAIN t.buckets : ~Occupied(t.buckets[a])
<1>. DEFINE t == FreshTable(c)
<1>1. /\ t = [buckets |-> [i \in 0..(c - 1) |-> Empty], order |-> <<>>]
      /\ DOMAIN t.buckets = 0..(c - 1) /\ t.order = <<>>
      /\ \A a \in DOMAIN t.buckets : t.buckets[a] = Empty
      /\ t.buckets \in [0..(c - 1) -> {Empty, Tombstone} \cup Pair]
  BY DEF FreshTable
<1>. HIDE DEF t
<1>2. CapacityOf(t) = c
  <2>1. Cardinality(0..(c - 1)) = IF 0 > c - 1 THEN 0 ELSE c - 1 - 0 + 1
    BY FS_Interval
  <2>. QED  BY <1>1, <2>1 DEF CapacityOf
<1>3. t.order \in Seq(0..(c - 1)) /\ Len(t.order) = 0 /\ DOMAIN t.order = {}
  <2>1. t.order \in Seq(0..(c - 1)) /\ Len(t.order) = 0
    BY <1>1, EmptySeq
  <2>. QED  BY <1>1, <2>1
<1>4. \A a \in DOMAIN t.buckets : ~Occupied(t.buckets[a])
  BY <1>1 DEF Occupied
<1>5. Shape(t) /\ t \in Tables(c)
  BY <1>1, <1>2, <1>3 DEF Shape, Tables
<1>6. OrderExact(t) /\ KeysOnce(t) /\ NoneCutOff(t)
  BY <1>3, <1>4 DEF OrderExact, KeysOnce, NoneCutOff
<1>7. EntriesOf(t) = <<>>
  <2>1. EntriesOf(t) = [i \in {} |-> t.buckets[t.order[i]]]
    BY <1>3 DEF EntriesOf
  <2>2. DOMAIN EntriesOf(t) = {}
    BY <2>1
  <2>. QED  BY <2>1
<1>. QED  BY <1>1, <1>2, <1>3, <1>4, <1>5, <1>6, <1>7 DEF Sound, t

-----------------------------------------------------------------------------
(* A bucket changes.                                                       *)

\* Overwriting the value of a key keeps its place in the entries.
LEMMA OverwriteSound ==
  ASSUME NEW t, Sound(t), NEW b \in DOMAIN t.buckets, NEW k \in Key, NEW v \in Value,
         Holds(t, b, k),
         NEW u, u.buckets = [t.buckets EXCEPT ![b] = [key |-> k, val |-> v]],
         u.order = t.order
  PROVE  /\ Sound(u) /\ CapacityOf(u) = CapacityOf(t)
         /\ EntriesOf(u) = [i \in DOMAIN EntriesOf(t) |->
                              IF EntriesOf(t)[i].key = k THEN [key |-> k, val |-> v]
                              ELSE EntriesOf(t)[i]]
<1>. DEFINE c == CapacityOf(t)
            p == [key |-> k, val |-> v]
<1>1. c \in Nat \ {0} /\ DOMAIN t.buckets = 0..(c - 1) /\ t.order \in Seq(0..(c - 1))
  BY DEF Sound, Shape
<1>2. DOMAIN u.buckets = DOMAIN t.buckets /\ CapacityOf(u) = c
  BY DEF CapacityOf
<1>3. p \in Pair /\ Occupied(p) /\ p.key = k
  BY PairsOccupy
<1>4. u.buckets[b] = p /\ \A a \in DOMAIN t.buckets : a # b => u.buckets[a] = t.buckets[a]
  OBVIOUS
<1>5. Occupied(t.buckets[b]) /\ t.buckets[b].key = k
  BY DEF Holds
<1>6. Shape(u)
  <2>1. u.buckets \in [0..(c - 1) -> {Empty, Tombstone} \cup Pair]
    BY <1>1, <1>3 DEF Sound, Shape
  <2>. QED  BY <1>1, <1>2, <2>1 DEF Shape
<1>7. \A a \in DOMAIN t.buckets :
        /\ Occupied(u.buckets[a]) <=> Occupied(t.buckets[a])
        /\ Occupied(t.buckets[a]) => u.buckets[a].key = t.buckets[a].key
  BY <1>3, <1>4, <1>5
<1>8. \A i \in DOMAIN t.order : t.order[i] \in DOMAIN t.buckets
  BY EntriesSound
<1>9. OrderExact(u)
  BY <1>2, <1>7, <1>8 DEF Sound, OrderExact
<1>10. KeysOnce(u)
  <2>1. ASSUME NEW a \in DOMAIN u.buckets, NEW d \in DOMAIN u.buckets,
               Occupied(u.buckets[a]), Holds(u, d, u.buckets[a].key)
        PROVE  a = d
    <3>1. Occupied(t.buckets[a]) /\ Holds(t, d, t.buckets[a].key)
      BY <1>2, <1>7, <2>1 DEF Holds
    <3>. QED  BY <1>2, <3>1 DEF Sound, KeysOnce
  <2>. QED  BY <2>1 DEF KeysOnce
<1>11. NoneCutOff(u)
  <2>1. \A a \in DOMAIN t.buckets : u.buckets[a] = Empty => t.buckets[a] = Empty
    BY <1>3, <1>4 DEF Occupied
  <2>2. ASSUME NEW a \in DOMAIN u.buckets, Occupied(u.buckets[a])
        PROVE  ComesTo(u, u.buckets[a].key, a)
    <3>1. a \in DOMAIN t.buckets /\ Occupied(t.buckets[a]) /\ u.buckets[a].key = t.buckets[a].key
      BY <1>2, <1>7, <2>2
    <3>2. PICK x \in Key : x = t.buckets[a].key
      <4>1. t.buckets[a] \in Pair
        BY <1>1, <3>1 DEF Sound, Shape, Occupied
      <4>. QED  BY <4>1 DEF Pair
    <3>3. ComesTo(t, x, a)
      BY <3>1, <3>2 DEF Sound, NoneCutOff
    <3>. QED  BY <1>2, <2>1, <3>1, <3>2, <3>3, WalksKept
  <2>. QED  BY <2>2 DEF NoneCutOff
<1>12. EntriesOf(u) = [i \in DOMAIN EntriesOf(t) |->
                         IF EntriesOf(t)[i].key = k THEN p ELSE EntriesOf(t)[i]]
  <2>1. PICK es : es = EntriesOf(t)
    OBVIOUS
  <2>2. DOMAIN es = DOMAIN t.order /\ \A i \in DOMAIN t.order : es[i] = t.buckets[t.order[i]]
    BY <2>1 DEF EntriesOf
  <2>3. ASSUME NEW i \in DOMAIN t.order
        PROVE  u.buckets[u.order[i]] = IF es[i].key = k THEN p ELSE es[i]
    <3>1. CASE t.order[i] = b
      BY <1>4, <1>5, <2>2, <3>1
    <3>2. CASE t.order[i] # b
      <4>1. es[i].key # k
        BY <1>5, <1>8, <2>2, <3>2 DEF Sound, OrderExact, KeysOnce, Holds
      <4>. QED  BY <1>4, <1>8, <2>2, <3>2, <4>1
    <3>. QED  BY <3>1, <3>2
  <2>4. EntriesOf(u) = [i \in DOMAIN t.order |-> u.buckets[u.order[i]]]
    BY DEF EntriesOf
  <2>5. EntriesOf(u) = [i \in DOMAIN es |-> IF es[i].key = k THEN p ELSE es[i]]
    BY <2>2, <2>3, <2>4
  <2>. QED  BY <2>1, <2>5
<1>. QED  BY <1>2, <1>6, <1>9, <1>10, <1>11, <1>12 DEF Sound

\* What the order array and the entries are without one of them.
LEMMA GapCloses ==
  ASSUME NEW t, Sound(t), NEW x \in 1..Len(t.order)
  PROVE  /\ RemoveFirst(t.order, t.order[x]) \in Seq(0..(CapacityOf(t) - 1))
         /\ Len(RemoveFirst(t.order, t.order[x])) = Len(t.order) - 1
         /\ RemoveFirst(t.order, t.order[x]) =
              [j \in 1..(Len(t.order) - 1) |->
                 IF j < x THEN t.order[j] ELSE t.order[j + 1]]
         /\ RemoveAt(EntriesOf(t), x) =
              [j \in 1..(Len(t.order) - 1) |->
                 IF j < x THEN EntriesOf(t)[j] ELSE EntriesOf(t)[j + 1]]
<1>1. t.order \in Seq(0..(CapacityOf(t) - 1)) /\ x \in DOMAIN t.order
  BY EntriesSound DEF Sound, Shape
<1>2. \A j \in DOMAIN t.order : t.order[j] = t.order[x] => j = x
  BY <1>1 DEF Sound, OrderExact
<1>3. RemoveFirst(t.order, t.order[x]) = RemoveAt(t.order, x)
  BY <1>1, <1>2, RemoveFirstSound
<1>4. EntriesOf(t) \in Seq(Pair) /\ x \in DOMAIN EntriesOf(t) /\ Len(EntriesOf(t)) = Len(t.order)
  BY EntriesSound
<1>5. RemoveAt(EntriesOf(t), x) =
        [j \in 1..(Len(t.order) - 1) |->
           IF j < x THEN EntriesOf(t)[j] ELSE EntriesOf(t)[j + 1]]
  <2>1. PICK es \in Seq(Pair) : es = EntriesOf(t)
    BY <1>4
  <2>2. RemoveAt(es, x) = [j \in 1..(Len(es) - 1) |-> IF j < x THEN es[j] ELSE es[j + 1]]
    BY <1>4, <2>1, RemoveAtElements
  <2>. QED  BY <1>4, <2>1, <2>2
<1>6. RemoveAt(t.order, x) =
        [j \in 1..(Len(t.order) - 1) |-> IF j < x THEN t.order[j] ELSE t.order[j + 1]]
  BY <1>1, RemoveAtElements
<1>7. /\ RemoveAt(t.order, x) \in Seq(0..(CapacityOf(t) - 1))
      /\ Len(RemoveAt(t.order, x)) = Len(t.order) - 1
  BY <1>1, RemoveAtSound
<1>. QED  BY <1>3, <1>5, <1>6, <1>7

\* The table t without bucket b.
Buried(t, b) ==
  [buckets |-> [t.buckets EXCEPT ![b] = Tombstone], order |-> RemoveFirst(t.order, b)]

\* A removed key leaves a tombstone, and its place in the entries closes.
LEMMA RemoveSound ==
  ASSUME NEW t, Sound(t), NEW b \in DOMAIN t.buckets, NEW k \in Key, Holds(t, b, k)
  PROVE  LET u == Buried(t, b)
         IN  /\ Sound(u) /\ CapacityOf(u) = CapacityOf(t)
             /\ Len(u.order) = Len(t.order) - 1
             /\ \E i \in DOMAIN EntriesOf(t) :
                  EntriesOf(t)[i].key = k /\ EntriesOf(u) = RemoveAt(EntriesOf(t), i)
<1>. DEFINE u == Buried(t, b)
            c == CapacityOf(t)
            n == Len(t.order)
<1>. HIDE DEF u
<1>1. c \in Nat \ {0} /\ DOMAIN t.buckets = 0..(c - 1) /\ t.order \in Seq(0..(c - 1))
  BY DEF Sound, Shape
<1>2. DOMAIN u.buckets = DOMAIN t.buckets /\ CapacityOf(u) = c
  BY DEF CapacityOf, u, Buried
<1>3. /\ u.buckets[b] = Tombstone /\ ~Occupied(u.buckets[b])
      /\ \A a \in DOMAIN t.buckets : a # b => u.buckets[a] = t.buckets[a]
  BY DEF Occupied, u, Buried
<1>4. Occupied(t.buckets[b]) /\ t.buckets[b].key = k
  BY DEF Holds
<1>5. n \in Nat /\ DOMAIN t.order = 1..n
  BY EntriesSound
<1>6. PICK x \in 1..n : t.order[x] = b
  BY <1>4, <1>5 DEF Sound, OrderExact
<1>7. \A i, j \in 1..n : t.order[i] = t.order[j] => i = j
  BY <1>5 DEF Sound, OrderExact
<1>8. /\ u.order \in Seq(0..(c - 1)) /\ Len(u.order) = n - 1
      /\ u.order = [j \in 1..(n - 1) |-> IF j < x THEN t.order[j] ELSE t.order[j + 1]]
  <2>1. u.order = RemoveFirst(t.order, t.order[x])
    BY <1>6 DEF u, Buried
  <2>. QED  BY <2>1, GapCloses
<1>9. \A i \in 1..n : t.order[i] \in DOMAIN t.buckets
  BY EntriesSound
<1>. DEFINE old(j) == IF j < x THEN j ELSE j + 1
<1>11. /\ DOMAIN u.order = 1..(n - 1)
       /\ \A j \in 1..(n - 1) : old(j) \in 1..n /\ old(j) # x /\ u.order[j] = t.order[old(j)]
  BY <1>5, <1>8
<1>12. \A i, j \in 1..(n - 1) : old(i) = old(j) => i = j
  BY <1>5
<1>13. \A i \in 1..n : i # x => \E j \in 1..(n - 1) : old(j) = i
  <2>1. ASSUME NEW i \in 1..n, i # x PROVE \E j \in 1..(n - 1) : old(j) = i
    <3>1. CASE i < x
      <4>1. i \in 1..(n - 1) /\ old(i) = i
        BY <1>5, <3>1
      <4>. QED  BY <4>1
    <3>2. CASE ~(i < x)
      <4>1. i - 1 \in 1..(n - 1) /\ old(i - 1) = i
        BY <1>5, <2>1, <3>2
      <4>. HIDE DEF old
      <4>. QED  BY <4>1
    <3>. QED  BY <3>1, <3>2
  <2>. QED  BY <2>1
<1>. HIDE DEF old
<1>14. \A j \in 1..(n - 1) : /\ u.order[j] \in DOMAIN t.buckets /\ u.order[j] # b
                             /\ u.buckets[u.order[j]] = t.buckets[t.order[old(j)]]
  BY <1>3, <1>6, <1>7, <1>9, <1>11
<1>15. Shape(u)
  <2>1. u.buckets \in [0..(c - 1) -> {Empty, Tombstone} \cup Pair]
    BY <1>1 DEF Sound, Shape, u, Buried
  <2>. QED  BY <1>1, <1>2, <1>8, <2>1 DEF Shape
<1>16. OrderExact(u)
  <2>1. \A i \in DOMAIN u.order : Occupied(u.buckets[u.order[i]])
    BY <1>5, <1>11, <1>14 DEF Sound, OrderExact
  <2>2. ASSUME NEW a \in DOMAIN u.buckets, Occupied(u.buckets[a])
        PROVE  \E i \in DOMAIN u.order : u.order[i] = a
    <3>1. a # b /\ a \in DOMAIN t.buckets /\ Occupied(t.buckets[a])
      BY <1>2, <1>3, <2>2
    <3>2. PICK i \in 1..n : t.order[i] = a
      BY <1>5, <3>1 DEF Sound, OrderExact
    <3>3. i # x
      BY <1>6, <3>1, <3>2
    <3>4. PICK j \in 1..(n - 1) : old(j) = i
      BY <1>13, <3>3
    <3>. QED  BY <1>11, <3>2, <3>4
  <2>3. \A i, j \in DOMAIN u.order : u.order[i] = u.order[j] => i = j
    BY <1>7, <1>11, <1>12
  <2>. QED  BY <2>1, <2>2, <2>3 DEF OrderExact
<1>17. KeysOnce(u)
  BY <1>2, <1>3 DEF Sound, KeysOnce, Holds
<1>18. NoneCutOff(u)
  <2>1. \A a \in DOMAIN t.buckets : u.buckets[a] = Empty => t.buckets[a] = Empty
    BY <1>3, TagAssumption
  <2>2. ASSUME NEW a \in DOMAIN u.buckets, Occupied(u.buckets[a])
        PROVE  ComesTo(u, u.buckets[a].key, a)
    <3>1. a \in DOMAIN t.buckets /\ Occupied(t.buckets[a]) /\ u.buckets[a] = t.buckets[a]
      BY <1>2, <1>3, <2>2
    <3>2. PICK y \in Key : y = t.buckets[a].key
      <4>1. t.buckets[a] \in Pair
        BY <1>1, <3>1 DEF Sound, Shape, Occupied
      <4>. QED  BY <4>1 DEF Pair
    <3>3. ComesTo(t, y, a)
      BY <3>1, <3>2 DEF Sound, NoneCutOff
    <3>. QED  BY <1>2, <2>1, <3>1, <3>2, <3>3, WalksKept
  <2>. QED  BY <2>2 DEF NoneCutOff
<1>19. EntriesOf(t)[x].key = k /\ x \in DOMAIN EntriesOf(t)
  BY <1>4, <1>5, <1>6, EntriesSound
<1>20. EntriesOf(u) = RemoveAt(EntriesOf(t), x)
  <2>1. RemoveAt(EntriesOf(t), x) =
          [j \in 1..(n - 1) |-> IF j < x THEN EntriesOf(t)[j] ELSE EntriesOf(t)[j + 1]]
    BY GapCloses
  <2>2. ASSUME NEW j \in 1..(n - 1)
        PROVE  u.buckets[u.order[j]] =
                 IF j < x THEN EntriesOf(t)[j] ELSE EntriesOf(t)[j + 1]
    <3>1. u.buckets[u.order[j]] = EntriesOf(t)[old(j)]
      BY <1>11, <1>14, EntriesSound
    <3>. QED  BY <3>1 DEF old
  <2>3. EntriesOf(u) = [j \in 1..(n - 1) |-> u.buckets[u.order[j]]]
    BY <1>11 DEF EntriesOf
  <2>. QED  BY <2>1, <2>2, <2>3
<1>. QED  BY <1>2, <1>8, <1>15, <1>16, <1>17, <1>18, <1>19, <1>20 DEF Sound, u

-----------------------------------------------------------------------------
(* The table is rebuilt.                                                   *)

\* rehash_into gives a sound table with the same entries in the same order.
LEMMA RehashSound ==
  ASSUME NEW t, Sound(t), NEW c \in Nat \ {0}, Len(t.order) <= c
  PROVE  LET u == Rehash(t, c)
         IN  /\ Sound(u) /\ CapacityOf(u) = c
             /\ Len(u.order) = Len(t.order) /\ EntriesOf(u) = EntriesOf(t)
<1>1. PICK N \in Nat : N = Len(t.order)
  BY EntriesSound
<1>2. PICK es : es = EntriesOf(t)
  OBVIOUS
<1>3. /\ es \in Seq(Pair) /\ Len(es) = N /\ DOMAIN es = 1..N
      /\ \A n \in 1..N : es[n] \in Pair /\ es[n] = t.buckets[t.order[n]]
      /\ \A m, n \in 1..N : es[m].key = es[n].key => m = n
  BY <1>1, <1>2, EntriesSound
<1>. DEFINE Moved(n, u) ==
              /\ Sound(u) /\ CapacityOf(u) = c /\ Len(u.order) = n
              /\ \A i \in 1..n : EntriesOf(u)[i] = es[i]
            Step(n, u) == InsertIntoFresh(u, es[n].key, es[n].val)
<1>4. FreshTable(c) \in Tables(c) /\ Moved(0, FreshTable(c))
  BY FreshSound
<1>5. ASSUME NEW n \in 1..N, NEW u, Moved(n - 1, u)
      PROVE  Step(n, u) \in Tables(c) /\ Moved(n, Step(n, u))
  <2>1. PICK k \in Key, v \in Value : es[n] = [key |-> k, val |-> v]
    <3>1. es[n] \in [key : Key, val : Value]
      BY <1>3 DEF Pair
    <3>2. es[n].key \in Key /\ es[n].val \in Value
          /\ es[n] = [key |-> es[n].key, val |-> es[n].val]
      BY <3>1
    <3>. QED  BY <3>2
  <2>2. ASSUME NEW b \in DOMAIN u.buckets, Holds(u, b, k) PROVE FALSE
    <3>1. PICK i \in DOMAIN u.order : u.order[i] = b
      BY <1>5, <2>2 DEF Holds, Sound, OrderExact
    <3>2. i \in 1..(n - 1) /\ EntriesOf(u)[i] = u.buckets[b]
      BY <1>5, <3>1, EntriesSound
    <3>3. es[i].key = es[n].key
      BY <1>5, <2>1, <2>2, <3>2 DEF Holds
    <3>4. i \in 1..N /\ i # n
      BY <3>2
    <3>. QED  BY <1>3, <3>3, <3>4
  <2>3. Len(u.order) < CapacityOf(u)
    BY <1>1, <1>5
  <2>4. PICK w : w = InsertIntoFresh(u, k, v)
    OBVIOUS
  <2>5. /\ Sound(w) /\ w \in Tables(c) /\ CapacityOf(w) = c
        /\ Len(w.order) = Len(u.order) + 1
        /\ EntriesOf(w) = Append(EntriesOf(u), [key |-> k, val |-> v])
    BY <1>5, <2>2, <2>3, <2>4, InsertIntoFreshSound
  <2>6. Len(w.order) = n
    BY <1>5, <2>5
  <2>7. ASSUME NEW i \in 1..n PROVE EntriesOf(w)[i] = es[i]
    <3>1. PICK us \in Seq(Pair) : us = EntriesOf(u) /\ Len(us) = n - 1
      BY <1>5, EntriesSound
    <3>2. [key |-> k, val |-> v] \in Pair
      BY DEF Pair
    <3>3. Append(us, es[n])[n - 1 + 1] = es[n] /\ \A j \in 1..(n - 1) : Append(us, es[n])[j] = us[j]
      BY <2>1, <3>1, <3>2, AppendProperties
    <3>4. i = n - 1 + 1 \/ i \in 1..(n - 1)
      OBVIOUS
    <3>5. n - 1 + 1 = n
      OBVIOUS
    <3>. QED  BY <1>5, <2>1, <2>5, <3>1, <3>3, <3>4, <3>5
  <2>8. Step(n, u) = w
    BY <2>1, <2>4
  <2>9. Moved(n, w)
    BY <2>5, <2>6, <2>7
  <2>. HIDE DEF Moved, Step
  <2>. QED  BY <2>5, <2>8, <2>9
<1>. DEFINE moved[n \in 0..Len(t.order)] ==
              IF n = 0 THEN FreshTable(c)
              ELSE LET p == t.buckets[t.order[n]]
                   IN  InsertIntoFresh(moved[n - 1], p.key, p.val)
<1>6. moved = [n \in 0..N |-> IF n = 0 THEN FreshTable(c) ELSE Step(n, moved[n - 1])]
  <2>1. PICK Good : Good = [n \in 0..N |-> {u \in Tables(c) : Moved(n, u)}]
    OBVIOUS
  <2>2. PICK G : G = [n \in 1..N |-> [u \in Good[n - 1] |-> Step(n, u)]]
    OBVIOUS
  <2>. HIDE DEF Moved, Step
  <2>3. \A n \in 1..N : n \in 0..N /\ n - 1 \in 0..N
    OBVIOUS
  <2>4. PICK first \in Good[0] : first = FreshTable(c)
    BY <1>4, <2>1
  <2>5. \A n \in 1..N : \A u \in Good[n - 1] : G[n][u] = Step(n, u)
    BY <2>2
  <2>6. \A n \in 1..N : \A u \in Good[n - 1] : G[n][u] \in Good[n]
    BY <1>5, <2>1, <2>3, <2>5
  <2>7. PICK f : Unfolds(N, first, G, Good, f)
    <3>1. StepsKeep(N, G, Good)
      BY <2>6 DEF StepsKeep
    <3>. QED  BY <3>1, RecursionSound
  <2>8. \A n \in 0..N : n # 0 => n \in 1..N /\ n - 1 \in 0..N
    OBVIOUS
  <2>9. f = [n \in 0..N |-> IF n = 0 THEN FreshTable(c) ELSE Step(n, f[n - 1])]
    BY <2>4, <2>5, <2>7, <2>8 DEF Unfolds
  <2>10. \A n \in 0..N : n # 0 =>
           Step(n, f[n - 1]) = LET p == t.buckets[t.order[n]]
                               IN  InsertIntoFresh(f[n - 1], p.key, p.val)
    BY <1>3, <2>8 DEF Step
  <2>11. f = [n \in 0..Len(t.order) |->
                IF n = 0 THEN FreshTable(c)
                ELSE LET p == t.buckets[t.order[n]]
                     IN  InsertIntoFresh(f[n - 1], p.key, p.val)]
    BY <1>1, <2>9, <2>10
  <2>12. moved = [n \in 0..Len(t.order) |->
                    IF n = 0 THEN FreshTable(c)
                    ELSE LET p == t.buckets[t.order[n]]
                         IN  InsertIntoFresh(moved[n - 1], p.key, p.val)]
    BY <2>11
  <2>. HIDE DEF moved
  <2>13. \A n \in 0..N : n # 0 =>
           Step(n, moved[n - 1]) = LET p == t.buckets[t.order[n]]
                                   IN  InsertIntoFresh(moved[n - 1], p.key, p.val)
    BY <1>3, <2>8 DEF Step
  <2>. QED  BY <1>1, <2>12, <2>13
<1>7. Rehash(t, c) = moved[N]
  BY <1>1 DEF Rehash
<1>8. Moved(N, moved[N])
  <2>. HIDE DEF Moved, Step, moved
  <2>1. PICK S : S = {n \in 0..N : Moved(n, moved[n])}
    OBVIOUS
  <2>2. 0 \in S
    BY <1>4, <1>6, <2>1
  <2>3. \A n \in 1..N : n - 1 \in S => n \in S
    <3>1. \A n \in 1..N : n \in 0..N /\ n # 0 /\ n - 1 \in 0..N
      OBVIOUS
    <3>. QED  BY <1>5, <1>6, <2>1, <3>1
  <2>4. N \in S
    BY <2>2, <2>3, Counting
  <2>. QED  BY <2>1, <2>4
<1>9. EntriesOf(Rehash(t, c)) = es
  <2>1. PICK us \in Seq(Pair) : us = EntriesOf(moved[N]) /\ Len(us) = N
    BY <1>8, EntriesSound
  <2>2. \A i \in 1..N : us[i] = es[i]
    BY <1>8, <2>1
  <2>3. us = es
    BY <1>3, <2>1, <2>2, SeqEqual
  <2>. QED  BY <1>7, <2>1, <2>3
<1>. QED  BY <1>1, <1>2, <1>7, <1>8, <1>9

\* A table for n entries has room for them.
LEMMA BucketsForSound ==
  ASSUME NEW n \in Nat
  PROVE  /\ BucketsFor(n) \in Nat \ {0, 1}
         /\ RoomFor(n, BucketsFor(n)) /\ n < BucketsFor(n)
<1>1. ASSUME NEW m \in Nat PROVE PowerFrom(m) \in Nat \ {0, 1} /\ m <= PowerFrom(m)
  <2>. DEFINE doubled[i \in 0..m] == IF i = 0 THEN MinBuckets ELSE 2 * doubled[i - 1]
  <2>1. doubled = [i \in 0..m |-> IF i = 0 THEN MinBuckets ELSE 2 * doubled[i - 1]]
    <3>1. PICK Good : Good = [i \in 0..m |-> {x \in Nat : x >= i + 2}]
      OBVIOUS
    <3>2. PICK G : G = [i \in 1..m |-> [x \in Nat |-> 2 * x]]
      OBVIOUS
    <3>3. PICK first \in Good[0] : first = MinBuckets
      BY <3>1, MinBucketsAssumption
    <3>4. \A i \in 1..m : i \in 0..m /\ i - 1 \in 0..m /\ i - 1 + 2 = i + 1
      OBVIOUS
    <3>5. ASSUME NEW i \in 1..m, NEW x \in Good[i - 1] PROVE G[i][x] \in Good[i]
      <4>1. x \in Nat /\ x >= i + 1
        BY <3>1, <3>4
      <4>2. G[i][x] = 2 * x
        BY <3>2, <4>1
      <4>3. 2 * x \in Nat /\ 2 * x >= i + 2
        BY <4>1
      <4>. QED  BY <3>1, <3>4, <4>2, <4>3
    <3>6. StepsKeep(m, G, Good)
      BY <3>5 DEF StepsKeep
    <3>7. PICK f : Unfolds(m, first, G, Good, f)
      BY <3>6, RecursionSound
    <3>8. \A i \in 0..m : i # 0 => i \in 1..m /\ i - 1 \in 0..m
      OBVIOUS
    <3>9. \A i \in 0..m : f[i] \in Nat
      BY <3>1, <3>7 DEF Unfolds
    <3>10. f = [i \in 0..m |-> IF i = 0 THEN MinBuckets ELSE 2 * f[i - 1]]
      BY <3>2, <3>3, <3>7, <3>8, <3>9 DEF Unfolds
    <3>. QED  BY <3>10
  <2>2. PowerFrom(m) = Min({c \in {doubled[i] : i \in 0..m} : c >= m})
    BY DEF PowerFrom
  <2>. HIDE DEF doubled
  <2>3. \A i \in 0..m : doubled[i] \in Nat /\ doubled[i] >= i + 2
    <3>1. PICK S : S = {i \in 0..m : doubled[i] \in Nat /\ doubled[i] >= i + 2}
      OBVIOUS
    <3>2. 0 \in S
      BY <2>1, <3>1, MinBucketsAssumption
    <3>3. ASSUME NEW i \in 1..m, i - 1 \in S PROVE i \in S
      <4>1. PICK x \in Nat : x = doubled[i - 1] /\ x >= i - 1 + 2
        BY <3>1, <3>3
      <4>2. doubled[i] = 2 * x
        BY <2>1, <4>1
      <4>3. 2 * x \in Nat /\ 2 * x >= i + 2
        BY <4>1
      <4>. QED  BY <3>1, <4>2, <4>3
    <3>4. \A i \in 0..m : i \in S
      BY <3>2, <3>3, Counting
    <3>. QED  BY <3>1, <3>4
  <2>4. PICK C : C = {c \in {doubled[i] : i \in 0..m} : c >= m}
    OBVIOUS
  <2>5. \A c \in C : c \in Nat \ {0, 1} /\ c >= m
    BY <2>3, <2>4
  <2>6. C # {}
    <3>1. m \in 0..m
      OBVIOUS
    <3>2. doubled[m] \in Nat /\ doubled[m] >= m + 2
      BY <2>3, <3>1
    <3>3. doubled[m] >= m
      BY <3>2
    <3>. QED  BY <2>4, <3>1, <3>3
  <2>7. C \in SUBSET Nat
    BY <2>5
  <2>8. Min(C) \in C
    BY <2>6, <2>7, MinOfNaturals
  <2>. QED  BY <2>2, <2>4, <2>5, <2>8
<1>2. CASE n = 0
  <2>1. BucketsFor(n) = MinBuckets
    BY <1>2 DEF BucketsFor
  <2>. QED  BY <1>2, <2>1, MinBucketsAssumption DEF RoomFor, LoadFactorNum, LoadFactorDen
<1>3. CASE n # 0
  <2>1. PICK q \in Nat : q = (n * 10) \div 7 /\ n * 10 < 7 * (q + 1)
    OBVIOUS
  <2>2. BucketsFor(n) = PowerFrom(q + 1)
    BY <1>3, <2>1 DEF BucketsFor, LoadFactorNum, LoadFactorDen
  <2>3. PICK c \in Nat \ {0, 1} : c = BucketsFor(n) /\ q + 1 <= c
    <3>1. q + 1 \in Nat
      OBVIOUS
    <3>. QED  BY <1>1, <2>2, <3>1
  <2>4. n * 10 <= c * 7 /\ n < c
    BY <1>3, <2>1, <2>3
  <2>. QED  BY <2>3, <2>4 DEF RoomFor, LoadFactorNum, LoadFactorDen
<1>. QED  BY <1>2, <1>3

\* The entries es once k is bound to v.
Bound(es, k, v) ==
  IF \E i \in DOMAIN es : es[i].key = k
  THEN [i \in DOMAIN es |-> IF es[i].key = k THEN [key |-> k, val |-> v] ELSE es[i]]
  ELSE Append(es, [key |-> k, val |-> v])

\* A key is in the entries of a sound table exactly if a bucket holds it.
LEMMA EntriesHaveKeys ==
  ASSUME NEW t, Sound(t), NEW k
  PROVE  (\E i \in DOMAIN EntriesOf(t) : EntriesOf(t)[i].key = k)
           <=> \E b \in DOMAIN t.buckets : Holds(t, b, k)
<1>1. /\ DOMAIN t.order = 1..Len(t.order) /\ DOMAIN EntriesOf(t) = 1..Len(t.order)
      /\ \A i \in 1..Len(t.order) :
           t.order[i] \in DOMAIN t.buckets /\ EntriesOf(t)[i] = t.buckets[t.order[i]]
  BY EntriesSound
<1>2. ASSUME NEW i \in DOMAIN EntriesOf(t), EntriesOf(t)[i].key = k
      PROVE  \E b \in DOMAIN t.buckets : Holds(t, b, k)
  BY <1>1, <1>2 DEF Sound, OrderExact, Holds
<1>3. ASSUME NEW b \in DOMAIN t.buckets, Holds(t, b, k)
      PROVE  \E i \in DOMAIN EntriesOf(t) : EntriesOf(t)[i].key = k
  BY <1>1, <1>3 DEF Sound, OrderExact, Holds
<1>. QED  BY <1>2, <1>3

\* A pair of a literal is bound in a table with room.
LEMMA AddPairSound ==
  ASSUME NEW t, Sound(t), t \in Tables(CapacityOf(t)), NEW p \in Pair,
         Len(t.order) < CapacityOf(t)
  PROVE  LET u == AddPair(t, p)
         IN  /\ Sound(u) /\ u \in Tables(CapacityOf(t)) /\ CapacityOf(u) = CapacityOf(t)
             /\ Len(u.order) <= Len(t.order) + 1
             /\ EntriesOf(u) = Bound(EntriesOf(t), p.key, p.val)
<1>1. PICK k \in Key, v \in Value : p = [key |-> k, val |-> v] /\ p.key = k /\ p.val = v
  <2>1. p.key \in Key /\ p.val \in Value /\ p = [key |-> p.key, val |-> p.val]
    BY DEF Pair
  <2>. QED  BY <2>1
<1>2. PICK at : at = Probe(t, k)
  OBVIOUS
<1>3. /\ at.found \in BOOLEAN
      /\ at.found => at.at \in DOMAIN t.buckets /\ Holds(t, at.at, k)
      /\ ~at.found => \A b \in DOMAIN t.buckets : ~Holds(t, b, k)
      /\ ~at.found /\ (\E b \in DOMAIN t.buckets : ~Occupied(t.buckets[b])) =>
           /\ at # NoPlace /\ at.at \in DOMAIN t.buckets
           /\ ~Occupied(t.buckets[at.at]) /\ ComesTo(t, k, at.at)
  BY <1>2, ProbeSound
<1>4. Len(t.order) \in Nat
  BY EntriesSound
<1>5. CASE at.found
  <2>1. PICK u : u = [t EXCEPT !.buckets[at.at] = p]
    OBVIOUS
  <2>2. u.buckets = [t.buckets EXCEPT ![at.at] = p] /\ u.order = t.order
    BY <2>1 DEF Tables
  <2>3. /\ Sound(u) /\ CapacityOf(u) = CapacityOf(t)
        /\ EntriesOf(u) = [i \in DOMAIN EntriesOf(t) |->
                             IF EntriesOf(t)[i].key = k THEN [key |-> k, val |-> v]
                             ELSE EntriesOf(t)[i]]
    BY <1>1, <1>3, <1>5, <2>2, OverwriteSound
  <2>4. u \in Tables(CapacityOf(t))
    BY <2>1, <1>3, <1>5 DEF Tables
  <2>5. EntriesOf(u) = Bound(EntriesOf(t), k, v)
    BY <1>3, <1>5, <2>3, EntriesHaveKeys DEF Bound
  <2>6. AddPair(t, p) = u
    BY <1>1, <1>2, <1>5, <2>1 DEF AddPair
  <2>. QED  BY <1>1, <1>4, <2>2, <2>3, <2>4, <2>5, <2>6
<1>6. CASE ~at.found
  <2>1. PICK u : u = PutAt(t, at.at, k, v)
    OBVIOUS
  <2>2. /\ at.at \in DOMAIN t.buckets /\ ~Occupied(t.buckets[at.at])
        /\ ComesTo(t, k, at.at) /\ \A b \in DOMAIN t.buckets : ~Holds(t, b, k)
    BY <1>3, <1>6, SomeBucketFree
  <2>3. /\ Sound(u) /\ u \in Tables(CapacityOf(t)) /\ CapacityOf(u) = CapacityOf(t)
        /\ Len(u.order) = Len(t.order) + 1
        /\ EntriesOf(u) = Append(EntriesOf(t), [key |-> k, val |-> v])
    BY <2>1, <2>2, PutAtSound
  <2>4. EntriesOf(u) = Bound(EntriesOf(t), k, v)
    BY <2>2, <2>3, EntriesHaveKeys DEF Bound
  <2>5. AddPair(t, p) = u
    BY <1>1, <1>2, <1>6, <2>1 DEF AddPair
  <2>. QED  BY <1>1, <1>4, <2>3, <2>4, <2>5
<1>. QED  BY <1>3, <1>5, <1>6

\* A literal's table is sound, with room, and its entries are those that binding its
\* pairs one after the other gives.
LEMMA FromPairsSound ==
  ASSUME NEW pairs \in Seq(Pair)
  PROVE  LET u == FromPairs(pairs)
         IN  /\ Sound(u) /\ CapacityOf(u) \in Nat \ {0, 1}
             /\ RoomFor(Len(u.order), CapacityOf(u))
             /\ pairs = <<>> => u.order = <<>>
             /\ \A f : f = [n \in 0..Len(pairs) |->
                              IF n = 0 THEN <<>>
                              ELSE Bound(f[n - 1], pairs[n].key, pairs[n].val)]
                       => EntriesOf(u) = f[Len(pairs)]
<1>1. PICK N \in Nat : N = Len(pairs) /\ \A n \in 1..N : pairs[n] \in Pair
  BY LenProperties, ElementOfSeq
<1>2. PICK c \in Nat \ {0, 1} : c = BucketsFor(N) /\ RoomFor(N, c) /\ N < c
  BY BucketsForSound
<1>. DEFINE Built(n, u) == Sound(u) /\ CapacityOf(u) = c /\ Len(u.order) <= n
<1>3. FreshTable(c) \in Tables(c) /\ Built(0, FreshTable(c))
  BY FreshSound
<1>4. ASSUME NEW n \in 1..N, NEW u \in Tables(c), Built(n - 1, u)
      PROVE  /\ AddPair(u, pairs[n]) \in Tables(c) /\ Built(n, AddPair(u, pairs[n]))
             /\ EntriesOf(AddPair(u, pairs[n])) =
                  Bound(EntriesOf(u), pairs[n].key, pairs[n].val)
  <2>1. Len(u.order) \in Nat
    BY <1>4, EntriesSound
  <2>2. Len(u.order) < CapacityOf(u)
    BY <1>2, <1>4, <2>1
  <2>3. PICK w : w = AddPair(u, pairs[n])
    OBVIOUS
  <2>4. /\ Sound(w) /\ w \in Tables(c) /\ CapacityOf(w) = c
        /\ Len(w.order) <= Len(u.order) + 1
        /\ EntriesOf(w) = Bound(EntriesOf(u), pairs[n].key, pairs[n].val)
    BY <1>1, <1>4, <2>2, <2>3, AddPairSound
  <2>5. Len(w.order) <= n
    <3>1. Len(w.order) \in Nat
      BY <2>4, EntriesSound
    <3>. QED  BY <1>4, <2>1, <2>4, <3>1
  <2>. QED  BY <2>3, <2>4, <2>5
<1>. DEFINE built[n \in 0..Len(pairs)] ==
              IF n = 0 THEN FreshTable(BucketsFor(Len(pairs)))
              ELSE AddPair(built[n - 1], pairs[n])
<1>5. built = [n \in 0..N |-> IF n = 0 THEN FreshTable(c) ELSE AddPair(built[n - 1], pairs[n])]
  <2>1. PICK Good : Good = [n \in 0..N |-> {u \in Tables(c) : Built(n, u)}]
    OBVIOUS
  <2>2. PICK G : G = [n \in 1..N |-> [u \in Good[n - 1] |-> AddPair(u, pairs[n])]]
    OBVIOUS
  <2>. HIDE DEF Built
  <2>3. \A n \in 1..N : n \in 0..N /\ n - 1 \in 0..N
    OBVIOUS
  <2>4. PICK first \in Good[0] : first = FreshTable(c)
    BY <1>3, <2>1
  <2>5. \A n \in 1..N : \A u \in Good[n - 1] : G[n][u] = AddPair(u, pairs[n])
    BY <2>2
  <2>6. \A n \in 1..N : \A u \in Good[n - 1] : G[n][u] \in Good[n]
    BY <1>4, <2>1, <2>3, <2>5
  <2>7. PICK f : Unfolds(N, first, G, Good, f)
    <3>1. StepsKeep(N, G, Good)
      BY <2>6 DEF StepsKeep
    <3>. QED  BY <3>1, RecursionSound
  <2>8. \A n \in 0..N : n # 0 => n \in 1..N /\ n - 1 \in 0..N
    OBVIOUS
  <2>9. f = [n \in 0..N |-> IF n = 0 THEN FreshTable(c) ELSE AddPair(f[n - 1], pairs[n])]
    BY <2>4, <2>5, <2>7, <2>8 DEF Unfolds
  <2>10. f = [n \in 0..Len(pairs) |->
                IF n = 0 THEN FreshTable(BucketsFor(Len(pairs)))
                ELSE AddPair(f[n - 1], pairs[n])]
    BY <1>1, <1>2, <2>9
  <2>11. built = [n \in 0..Len(pairs) |->
                    IF n = 0 THEN FreshTable(BucketsFor(Len(pairs)))
                    ELSE AddPair(built[n - 1], pairs[n])]
    BY <2>10
  <2>. HIDE DEF built
  <2>. QED  BY <1>1, <1>2, <2>11
<1>6. FromPairs(pairs) = built[N]
  BY <1>1 DEF FromPairs
<1>. HIDE DEF Built, built
<1>7. \A n \in 1..N : n \in 0..N /\ n # 0 /\ n - 1 \in 0..N
  OBVIOUS
<1>8. \A n \in 0..N : built[n] \in Tables(c) /\ Built(n, built[n])
  <2>1. PICK S : S = {n \in 0..N : built[n] \in Tables(c) /\ Built(n, built[n])}
    OBVIOUS
  <2>2. 0 \in S
    BY <1>3, <1>5, <2>1
  <2>3. \A n \in 1..N : n - 1 \in S => n \in S
    BY <1>4, <1>5, <1>7, <2>1
  <2>4. \A n \in 0..N : n \in S
    BY <2>2, <2>3, Counting
  <2>. QED  BY <2>1, <2>4
<1>9. ASSUME NEW f,
             f = [n \in 0..N |-> IF n = 0 THEN <<>>
                                 ELSE Bound(f[n - 1], pairs[n].key, pairs[n].val)]
      PROVE  EntriesOf(built[N]) = f[N]
  <2>1. PICK S : S = {n \in 0..N : EntriesOf(built[n]) = f[n]}
    OBVIOUS
  <2>2. 0 \in S
    <3>1. EntriesOf(built[0]) = <<>>
      BY <1>5, FreshSound
    <3>. QED  BY <1>9, <2>1, <3>1
  <2>3. ASSUME NEW n \in 1..N, n - 1 \in S PROVE n \in S
    <3>1. f[n] = Bound(f[n - 1], pairs[n].key, pairs[n].val)
      BY <1>7, <1>9
    <3>2. built[n] = AddPair(built[n - 1], pairs[n])
      BY <1>5, <1>7
    <3>3. EntriesOf(built[n]) = Bound(EntriesOf(built[n - 1]), pairs[n].key, pairs[n].val)
      BY <1>4, <1>7, <1>8, <3>2
    <3>4. EntriesOf(built[n - 1]) = f[n - 1]
      BY <2>1, <2>3
    <3>. QED  BY <1>7, <2>1, <3>1, <3>3, <3>4
  <2>4. \A n \in 0..N : n \in S
    BY <2>2, <2>3, Counting
  <2>5. N \in 0..N
    OBVIOUS
  <2>. QED  BY <2>1, <2>4, <2>5
<1>10. /\ Sound(built[N]) /\ CapacityOf(built[N]) = c
       /\ Len(built[N].order) \in Nat /\ Len(built[N].order) <= N
  <2>1. Sound(built[N]) /\ CapacityOf(built[N]) = c /\ Len(built[N].order) <= N
    BY <1>8 DEF Built
  <2>. QED  BY <2>1, EntriesSound
<1>11. RoomFor(Len(built[N].order), c)
  BY <1>2, <1>10 DEF RoomFor, LoadFactorDen, LoadFactorNum
<1>12. pairs = <<>> => built[N].order = <<>>
  <2>1. pairs = <<>> => N = 0
    BY <1>1
  <2>. QED  BY <1>5, <2>1, FreshSound
<1>13. \A f : f = [n \in 0..Len(pairs) |->
                     IF n = 0 THEN <<>>
                     ELSE Bound(f[n - 1], pairs[n].key, pairs[n].val)]
              => EntriesOf(built[N]) = f[Len(pairs)]
  BY <1>1, <1>9
<1>. QED  BY <1>6, <1>10, <1>11, <1>12, <1>13

-----------------------------------------------------------------------------
(* The operations.                                                         *)

\* A table is its buckets and its order array.
LEMMA SameTable ==
  ASSUME NEW t, NEW u, Sound(t), u.buckets = t.buckets, u.order = t.order
  PROVE  Sound(u) /\ CapacityOf(u) = CapacityOf(t) /\ EntriesOf(u) = EntriesOf(t)
<1>1. CapacityOf(u) = CapacityOf(t)
  BY DEF CapacityOf
<1>2. EntriesOf(u) = EntriesOf(t)
  BY DEF EntriesOf
<1>3. \A k, n : Visit(u, k, n) = Visit(t, k, n)
  BY <1>1 DEF Visit
<1>4. \A k, b : ComesTo(u, k, b) <=> ComesTo(t, k, b)
  BY <1>1, <1>3 DEF ComesTo
<1>5. \A b, k : Holds(u, b, k) <=> Holds(t, b, k)
  BY DEF Holds
<1>6. Shape(u) /\ OrderExact(u)
  BY <1>1 DEF Sound, Shape, OrderExact
<1>7. KeysOnce(u)
  BY <1>5 DEF Sound, KeysOnce
<1>8. NoneCutOff(u)
  BY <1>4 DEF Sound, NoneCutOff
<1>. QED  BY <1>1, <1>2, <1>6, <1>7, <1>8 DEF Sound

\* The variables hold a table t with room.
LEMMA TableBecomes ==
  ASSUME NEW t, Becomes(t), Sound(t), CapacityOf(t) \in Nat \ {0, 1},
         RoomFor(Len(t.order), CapacityOf(t)),
         placeholder' \in BOOLEAN, placeholder' => t.order = <<>>
  PROVE  MapIInv' /\ Entries' = EntriesOf(t)
<1>1. Table'.buckets = t.buckets /\ Table'.order = t.order /\ order' = t.order
  BY DEF Becomes, Table
<1>2. Sound(Table') /\ CapacityOf(Table') = CapacityOf(t) /\ EntriesOf(Table') = EntriesOf(t)
  BY <1>1, SameTable
<1>3. Entries' = EntriesOf(Table')
  BY DEF Entries, EntriesOf, Table
<1>4. Sound(Table)' /\ RoomFor(Length, CapacityOf(Table))' /\ (CapacityOf(Table) >= 2)'
  <2>1. CapacityOf(t) >= 2
    OBVIOUS
  <2>. QED  BY <1>1, <1>2, <2>1 DEF Length
<1>5. (placeholder \in BOOLEAN)' /\ (placeholder => order = <<>>)'
  BY <1>1
<1>. QED  BY <1>2, <1>3, <1>4, <1>5 DEF MapIInv

\* What the invariant says of the table.
LEMMA TableSound ==
  ASSUME MapIInv
  PROVE  /\ Sound(Table) /\ Table.buckets = buckets /\ Table.order = order
         /\ CapacityOf(Table) \in Nat \ {0, 1} /\ Length \in Nat /\ Length = Len(order)
         /\ DOMAIN order = 1..Length /\ Entries = EntriesOf(Table)
         /\ RoomFor(Length, CapacityOf(Table))
         /\ Length < CapacityOf(Table)
<1>1. Sound(Table) /\ RoomFor(Length, CapacityOf(Table)) /\ CapacityOf(Table) >= 2
  BY DEF MapIInv
<1>2. Table.buckets = buckets /\ Table.order = order /\ Entries = EntriesOf(Table)
  BY DEF Table, Entries, EntriesOf
<1>3. CapacityOf(Table) \in Nat \ {0, 1}
  BY <1>1 DEF Sound, Shape
<1>4. Length \in Nat /\ Length = Len(order) /\ DOMAIN order = 1..Length
  BY <1>1, <1>2, EntriesSound DEF Length
<1>5. Length < CapacityOf(Table)
  BY <1>1, <1>3, <1>4 DEF RoomFor, LoadFactorNum, LoadFactorDen
<1>. QED  BY <1>1, <1>2, <1>3, <1>4, <1>5

LEMMA InitFromSound ==
  ASSUME NEW pairs \in Seq(Pair), InitFrom(pairs)
  PROVE  /\ MapIInv
         /\ \A f : f = [n \in 0..Len(pairs) |->
                          IF n = 0 THEN <<>>
                          ELSE Bound(f[n - 1], pairs[n].key, pairs[n].val)]
                   => Entries = f[Len(pairs)]
<1>1. PICK t : t = FromPairs(pairs)
  OBVIOUS
<1>2. /\ Sound(t) /\ CapacityOf(t) \in Nat \ {0, 1}
      /\ RoomFor(Len(t.order), CapacityOf(t)) /\ (pairs = <<>> => t.order = <<>>)
      /\ \A f : f = [n \in 0..Len(pairs) |->
                       IF n = 0 THEN <<>>
                       ELSE Bound(f[n - 1], pairs[n].key, pairs[n].val)]
                => EntriesOf(t) = f[Len(pairs)]
  BY <1>1, FromPairsSound
<1>3. Table.buckets = t.buckets /\ Table.order = t.order /\ order = t.order
  BY <1>1 DEF InitFrom, Table
<1>4. Sound(Table) /\ CapacityOf(Table) = CapacityOf(t) /\ EntriesOf(Table) = EntriesOf(t)
  BY <1>2, <1>3, SameTable
<1>5. Entries = EntriesOf(Table)
  BY DEF Entries, EntriesOf, Table
<1>6. placeholder \in BOOLEAN /\ (placeholder => pairs = <<>>)
  BY DEF InitFrom
<1>7. CapacityOf(Table) >= 2 /\ RoomFor(Length, CapacityOf(Table))
  BY <1>2, <1>3, <1>4 DEF Length
<1>8. MapIInv
  BY <1>2, <1>3, <1>4, <1>6, <1>7 DEF MapIInv
<1>. QED  BY <1>2, <1>4, <1>5, <1>8

\* The first key of an empty map of unresolved type.
LEMMA SetRecoveringSound ==
  ASSUME MapIInv, NEW k \in Key, NEW v \in Value, SetRecovering(k, v)
  PROVE  MapIInv' /\ Entries' = Bound(Entries, k, v)
<1>1. PICK t : t = FreshTable(MinBuckets)
  OBVIOUS
<1>2. PICK c \in Nat \ {0, 1} : c = MinBuckets
  BY MinBucketsAssumption
<1>3. /\ Sound(t) /\ CapacityOf(t) = c /\ Len(t.order) = 0 /\ EntriesOf(t) = <<>>
      /\ \A a \in DOMAIN t.buckets : ~Holds(t, a, k)
  BY <1>1, <1>2, FreshSound DEF Holds
<1>4. PICK u : u = InsertIntoFresh(t, k, v)
  OBVIOUS
<1>5. /\ Sound(u) /\ CapacityOf(u) = c /\ Len(u.order) = 1
      /\ EntriesOf(u) = Append(<<>>, [key |-> k, val |-> v])
  <2>1. Len(t.order) < CapacityOf(t)
    BY <1>3
  <2>2. /\ Sound(u) /\ CapacityOf(u) = CapacityOf(t) /\ Len(u.order) = Len(t.order) + 1
        /\ EntriesOf(u) = Append(EntriesOf(t), [key |-> k, val |-> v])
    BY <1>3, <1>4, <2>1, InsertIntoFreshSound
  <2>3. 0 + 1 = 1
    OBVIOUS
  <2>. QED  BY <1>3, <2>2, <2>3
<1>6. RoomFor(1, c)
  BY DEF RoomFor, LoadFactorNum, LoadFactorDen
<1>7. Becomes(u) /\ placeholder' = FALSE /\ Length = 0
  BY <1>1, <1>4 DEF SetRecovering
<1>8. MapIInv' /\ Entries' = EntriesOf(u)
  BY <1>5, <1>6, <1>7, TableBecomes
<1>9. DOMAIN Entries = {}
  BY <1>7, TableSound DEF Entries
<1>10. Entries = <<>>
  <2>1. Entries = EntriesOf(Table) /\ EntriesOf(Table) \in Seq(Pair)
    BY TableSound, EntriesSound
  <2>. QED  BY <1>9, <2>1, EmptySeq, LenProperties
<1>11. Bound(Entries, k, v) = Append(<<>>, [key |-> k, val |-> v])
  BY <1>9, <1>10 DEF Bound
<1>. QED  BY <1>5, <1>8, <1>11

\* A key that is there.
LEMMA SetExistingSound ==
  ASSUME MapIInv, NEW k \in Key, NEW v \in Value, SetExisting(k, v)
  PROVE  MapIInv' /\ Entries' = Bound(Entries, k, v)
<1>1. PICK at : at = Probe(Table, k)
  OBVIOUS
<1>2. PICK t : t = Table
  OBVIOUS
<1>3. /\ Sound(t) /\ t.buckets = buckets /\ t.order = order
      /\ CapacityOf(t) \in Nat \ {0, 1} /\ Entries = EntriesOf(t)
      /\ RoomFor(Len(t.order), CapacityOf(t))
  BY <1>2, TableSound
<1>4. at.found /\ buckets' = [buckets EXCEPT ![at.at].val = v] /\ order' = order
      /\ placeholder' = placeholder
  BY <1>1 DEF SetExisting
<1>5. at.at \in DOMAIN t.buckets /\ Holds(t, at.at, k)
  BY <1>1, <1>2, <1>3, <1>4, ProbeSound
<1>6. t.buckets[at.at] \in Pair /\ t.buckets[at.at].key = k
  BY <1>3, <1>5 DEF Sound, Shape, Holds, Occupied
<1>7. [t.buckets[at.at] EXCEPT !.val = v] = [key |-> k, val |-> v]
  <2>1. PICK p \in [key : Key, val : Value] : p = t.buckets[at.at] /\ p.key = k
    BY <1>6 DEF Pair
  <2>2. [p EXCEPT !.val = v] = [key |-> k, val |-> v]
    BY <2>1
  <2>. QED  BY <2>1, <2>2
<1>8. buckets' = [t.buckets EXCEPT ![at.at] = [key |-> k, val |-> v]]
  BY <1>3, <1>4, <1>7
<1>9. PICK u : u.buckets = buckets' /\ u.order = order'
  <2>1. [buckets |-> buckets', order |-> order'].buckets = buckets'
        /\ [buckets |-> buckets', order |-> order'].order = order'
    OBVIOUS
  <2>. QED  BY <2>1
<1>10. /\ Sound(u) /\ CapacityOf(u) = CapacityOf(t)
       /\ EntriesOf(u) = [i \in DOMAIN EntriesOf(t) |->
                            IF EntriesOf(t)[i].key = k THEN [key |-> k, val |-> v]
                            ELSE EntriesOf(t)[i]]
  <2>1. u.buckets = [t.buckets EXCEPT ![at.at] = [key |-> k, val |-> v]] /\ u.order = t.order
    BY <1>3, <1>4, <1>8, <1>9
  <2>. QED  BY <1>3, <1>5, <2>1, OverwriteSound
<1>11. EntriesOf(u) = Bound(Entries, k, v)
  BY <1>3, <1>5, <1>10, EntriesHaveKeys DEF Bound
<1>12. Becomes(u) /\ u.order = t.order
  BY <1>3, <1>4, <1>9 DEF Becomes
<1>13. placeholder' \in BOOLEAN /\ (placeholder' => u.order = <<>>)
  BY <1>3, <1>4, <1>12 DEF MapIInv
<1>14. MapIInv' /\ Entries' = EntriesOf(u)
  BY <1>3, <1>10, <1>12, <1>13, TableBecomes
<1>. QED  BY <1>11, <1>14

\* A key that is not there: in the bucket that the probe found, or, when the load
\* would be too high, in a table of twice the capacity.
LEMMA SetNewSound ==
  ASSUME MapIInv, NEW k \in Key, NEW v \in Value, SetNew(k, v)
  PROVE  MapIInv' /\ Entries' = Bound(Entries, k, v)
<1>1. PICK at : at = Probe(Table, k)
  OBVIOUS
<1>2. PICK t : t = Table
  OBVIOUS
<1>3. PICK c \in Nat \ {0, 1}, n \in Nat : c = CapacityOf(t) /\ n = Len(t.order)
  BY <1>2, TableSound, EntriesSound
<1>4. /\ Sound(t) /\ t.buckets = buckets /\ t.order = order
      /\ n = Length /\ Entries = EntriesOf(t) /\ n < c /\ n * 10 <= c * 7
  BY <1>2, <1>3, TableSound DEF RoomFor, LoadFactorNum, LoadFactorDen
<1>5. /\ ~at.found /\ placeholder' = placeholder /\ ~placeholder
      /\ IF NeedsGrow(Length + 1, c)
         THEN Becomes(InsertIntoFresh(Rehash(t, c * 2), k, v))
         ELSE Becomes(PutAt(t, at.at, k, v))
  BY <1>1, <1>2, <1>3 DEF SetNew
<1>6. /\ \A b \in DOMAIN t.buckets : ~Holds(t, b, k)
      /\ at.at \in DOMAIN t.buckets
      /\ ~Occupied(t.buckets[at.at]) /\ ComesTo(t, k, at.at)
  <2>1. \E b \in DOMAIN t.buckets : ~Occupied(t.buckets[b])
    BY <1>3, <1>4, SomeBucketFree
  <2>. QED  BY <1>1, <1>2, <1>4, <1>5, <2>1, ProbeSound
<1>7. Bound(Entries, k, v) = Append(Entries, [key |-> k, val |-> v])
  BY <1>4, <1>6, EntriesHaveKeys DEF Bound
<1>8. placeholder' \in BOOLEAN /\ ~placeholder'
  BY <1>5 DEF MapIInv
<1>9. CASE NeedsGrow(Length + 1, c)
  <2>1. PICK r : r = Rehash(t, c * 2)
    OBVIOUS
  <2>2. PICK d \in Nat \ {0, 1} : d = c * 2
    BY <1>3
  <2>3. n <= d
    BY <1>3, <1>4, <2>2
  <2>4. /\ Sound(r) /\ CapacityOf(r) = d /\ Len(r.order) = n /\ EntriesOf(r) = Entries
    BY <1>3, <1>4, <2>1, <2>2, <2>3, RehashSound
  <2>5. \A b \in DOMAIN r.buckets : ~Holds(r, b, k)
    BY <1>4, <1>6, <2>4, EntriesHaveKeys
  <2>6. PICK u : u = InsertIntoFresh(r, k, v)
    OBVIOUS
  <2>7. Len(r.order) < CapacityOf(r)
    BY <1>3, <1>4, <2>2, <2>4
  <2>8. /\ Sound(u) /\ CapacityOf(u) = d /\ Len(u.order) = n + 1
        /\ EntriesOf(u) = Append(Entries, [key |-> k, val |-> v])
    BY <2>4, <2>5, <2>6, <2>7, InsertIntoFreshSound
  <2>9. RoomFor(n + 1, d)
    BY <1>3, <1>4, <2>2 DEF RoomFor, LoadFactorNum, LoadFactorDen
  <2>10. Becomes(u)
    BY <1>5, <1>9, <2>1, <2>2, <2>6
  <2>11. MapIInv' /\ Entries' = EntriesOf(u)
    BY <1>8, <2>8, <2>9, <2>10, TableBecomes
  <2>. QED  BY <1>7, <2>8, <2>11
<1>10. CASE ~NeedsGrow(Length + 1, c)
  <2>1. PICK u : u = PutAt(t, at.at, k, v)
    OBVIOUS
  <2>2. /\ Sound(u) /\ CapacityOf(u) = c /\ Len(u.order) = n + 1
        /\ EntriesOf(u) = Append(Entries, [key |-> k, val |-> v])
    BY <1>3, <1>4, <1>6, <2>1, PutAtSound
  <2>3. RoomFor(n + 1, c)
    BY <1>3, <1>4, <1>10 DEF NeedsGrow, RoomFor, LoadFactorNum, LoadFactorDen
  <2>4. Becomes(u)
    BY <1>5, <1>10, <2>1
  <2>5. MapIInv' /\ Entries' = EntriesOf(u)
    BY <1>8, <2>2, <2>3, <2>4, TableBecomes
  <2>. QED  BY <1>7, <2>2, <2>5
<1>. QED  BY <1>9, <1>10

\* phx_map_set_raw keeps the invariant and binds the key.
LEMMA SetRawSound ==
  ASSUME MapIInv, NEW k \in Key, NEW v \in Value, SetRaw(k, v)
  PROVE  MapIInv' /\ Entries' = Bound(Entries, k, v)
BY SetRecoveringSound, SetExistingSound, SetNewSound DEF SetRaw

\* phx_map_remove_raw keeps the invariant and takes the key, if it is there, out.
LEMMA RemoveRawSound ==
  ASSUME MapIInv, NEW k \in Key, RemoveRaw(k)
  PROVE  /\ MapIInv'
         /\ \/ \E i \in DOMAIN Entries :
                 Entries[i].key = k /\ Entries' = RemoveAt(Entries, i)
            \/ (\A i \in DOMAIN Entries : Entries[i].key # k) /\ Entries' = Entries
<1>1. PICK t : t = Table
  OBVIOUS
<1>2. PICK c \in Nat \ {0, 1}, n \in Nat : c = CapacityOf(t) /\ n = Len(t.order)
  BY <1>1, TableSound, EntriesSound
<1>3. /\ Sound(t) /\ t.buckets = buckets /\ t.order = order /\ DOMAIN order = 1..n
      /\ n = Length /\ Entries = EntriesOf(t) /\ n * 10 <= c * 7
  BY <1>1, <1>2, TableSound DEF RoomFor, LoadFactorNum, LoadFactorDen
<1>4. CASE RemoveFromEmpty
  <2>1. PICK u : u = FreshTable(BucketsFor(0))
    OBVIOUS
  <2>2. BucketsFor(0) \in Nat \ {0, 1} /\ RoomFor(0, BucketsFor(0))
    BY BucketsForSound
  <2>3. /\ Sound(u) /\ CapacityOf(u) = BucketsFor(0) /\ u.order = <<>> /\ Len(u.order) = 0
        /\ EntriesOf(u) = <<>>
    BY <2>1, <2>2, FreshSound
  <2>4. Becomes(u) /\ placeholder' = placeholder /\ Length = 0
    BY <1>4, <2>1 DEF RemoveFromEmpty
  <2>5. placeholder' \in BOOLEAN
    BY <2>4 DEF MapIInv
  <2>6. MapIInv' /\ Entries' = <<>>
    BY <2>2, <2>3, <2>4, <2>5, TableBecomes
  <2>7. DOMAIN Entries = {} /\ Entries = <<>>
    <3>1. Entries \in Seq(Pair) /\ Len(Entries) = 0
      BY <1>3, <2>4, <1>2, EntriesSound
    <3>. QED  BY <3>1, EmptySeq, LenProperties
  <2>. QED  BY <2>6, <2>7
<1>5. CASE RemoveFound(k)
  <2>1. PICK at : at = Probe(t, k)
    OBVIOUS
  <2>2. /\ at.found \in BOOLEAN
        /\ at.found => at.at \in DOMAIN t.buckets /\ Holds(t, at.at, k)
        /\ ~at.found => \A b \in DOMAIN t.buckets : ~Holds(t, b, k)
    BY <1>3, <2>1, ProbeSound
  <2>3. /\ Length > 0 /\ placeholder' = placeholder
        /\ IF at.found
           THEN /\ buckets' = [t.buckets EXCEPT ![at.at] = Tombstone]
                /\ order' = RemoveFirst(t.order, at.at)
           ELSE buckets' = t.buckets /\ order' = t.order
    BY <1>1, <1>3, <1>5, <2>1 DEF RemoveFound
  <2>4. placeholder' \in BOOLEAN /\ ~placeholder'
    <3>1. order # <<>>
      BY <1>3, <2>3, EmptySeq DEF Length
    <3>. QED  BY <2>3, <3>1 DEF MapIInv
  <2>5. CASE at.found
    <3>1. PICK u : u = Buried(t, at.at)
      OBVIOUS
    <3>2. /\ Sound(u) /\ CapacityOf(u) = c /\ Len(u.order) = n - 1
          /\ \E i \in DOMAIN Entries :
               Entries[i].key = k /\ EntriesOf(u) = RemoveAt(Entries, i)
      BY <1>2, <1>3, <2>2, <2>5, <3>1, RemoveSound
    <3>3. RoomFor(n - 1, c)
      BY <1>2, <1>3 DEF RoomFor, LoadFactorNum, LoadFactorDen
    <3>4. Becomes(u)
      BY <2>3, <2>5, <3>1 DEF Becomes, Buried
    <3>5. MapIInv' /\ Entries' = EntriesOf(u)
      BY <2>4, <3>2, <3>3, <3>4, TableBecomes
    <3>. QED  BY <3>2, <3>5
  <2>6. CASE ~at.found
    <3>1. Becomes(t)
      BY <2>3, <2>6 DEF Becomes
    <3>2. RoomFor(n, c)
      BY <1>3 DEF RoomFor, LoadFactorNum, LoadFactorDen
    <3>3. MapIInv' /\ Entries' = EntriesOf(t)
      BY <1>2, <1>3, <2>4, <3>1, <3>2, TableBecomes
    <3>4. \A i \in DOMAIN Entries : Entries[i].key # k
      BY <1>3, <2>2, <2>6, EntriesHaveKeys
    <3>. QED  BY <1>3, <3>3, <3>4
  <2>. QED  BY <2>2, <2>5, <2>6
<1>. QED  BY <1>4, <1>5 DEF RemoveRaw

-----------------------------------------------------------------------------
(* What the invariant means.                                               *)

LEMMA InvariantLookup == MapIInv => LookupMatchesIteration
<1>. SUFFICES ASSUME MapIInv, NEW k \in Key
              PROVE  Get(k) = {Entries[i].val : i \in {j \in DOMAIN order : Entries[j].key = k}}
  BY DEF LookupMatchesIteration
<1>1. PICK t : t = Table
  OBVIOUS
<1>2. PICK at : at = Probe(t, k)
  OBVIOUS
<1>3. PICK n \in Nat : n = Length
  BY TableSound
<1>4. /\ Sound(t) /\ t.buckets = buckets /\ t.order = order /\ DOMAIN order = 1..n
      /\ Entries = EntriesOf(t) /\ DOMAIN Entries = 1..n /\ n = Len(t.order)
  BY <1>1, <1>3, TableSound, EntriesSound
<1>5. /\ at.found \in BOOLEAN
      /\ at.found => at.at \in DOMAIN t.buckets /\ Holds(t, at.at, k)
      /\ ~at.found => \A b \in DOMAIN t.buckets : ~Holds(t, b, k)
  BY <1>2, <1>4, ProbeSound
<1>6. Get(k) = IF n > 0 /\ at.found THEN {buckets[at.at].val} ELSE {}
  BY <1>1, <1>2, <1>3 DEF Get
<1>7. PICK I : I = {j \in DOMAIN order : Entries[j].key = k}
  OBVIOUS
<1>8. CASE at.found
  <2>1. Occupied(buckets[at.at]) /\ buckets[at.at].key = k /\ at.at \in DOMAIN t.buckets
    BY <1>4, <1>5, <1>8 DEF Holds
  <2>2. PICK i \in 1..n : order[i] = at.at
    BY <1>4, <2>1 DEF Sound, OrderExact
  <2>3. Entries[i] = buckets[at.at]
    BY <1>4, <2>2, EntriesSound
  <2>4. I = {i}
    BY <1>4, <1>7, <2>1, <2>2, <2>3, EntriesSound
  <2>5. n > 0
    BY <2>2
  <2>. QED  BY <1>6, <1>7, <1>8, <2>3, <2>4, <2>5
<1>9. CASE ~at.found
  <2>1. I = {}
    BY <1>4, <1>5, <1>7, <1>9, EntriesHaveKeys
  <2>. QED  BY <1>6, <1>7, <1>9, <2>1
<1>. QED  BY <1>5, <1>8, <1>9

LEMMA InvariantOrder == MapIInv => OrderListsOccupied
<1>. SUFFICES ASSUME MapIInv PROVE OrderListsOccupied
  OBVIOUS
<1>1. Sound(Table) /\ Table.buckets = buckets /\ Table.order = order
  BY TableSound
<1>2. \A i \in DOMAIN order : order[i] \in DOMAIN buckets
  BY <1>1, EntriesSound
<1>3. IsInjective(order)
  BY <1>1 DEF Sound, OrderExact, IsInjective
<1>4. Range(order) = {i \in DOMAIN buckets : Occupied(buckets[i])}
  BY <1>1, <1>2 DEF Sound, OrderExact, Range
<1>. QED  BY <1>3, <1>4 DEF OrderListsOccupied

LEMMA InvariantProbe == MapIInv => ProbeEnds
<1>. SUFFICES ASSUME MapIInv PROVE ProbeEnds
  OBVIOUS
<1>1. Length * LoadFactorDen <= CapacityOf(Table) * LoadFactorNum
  BY TableSound DEF RoomFor
<1>2. ASSUME NEW k \in Key PROVE Probe(Table, k) # NoPlace
  <2>1. Sound(Table) /\ \E b \in DOMAIN Table.buckets : ~Occupied(Table.buckets[b])
    BY TableSound, SomeBucketFree
  <2>2. PICK at : at = Probe(Table, k)
    OBVIOUS
  <2>3. /\ at.found \in BOOLEAN
        /\ at.found => at.at \in DOMAIN Table.buckets /\ Holds(Table, at.at, k)
        /\ ~at.found => at # NoPlace
    BY <2>1, <2>2, ProbeSound
  <2>4. ~NoPlace.found
    BY DEF NoPlace
  <2>. QED  BY <2>2, <2>3, <2>4
<1>. QED  BY <1>1, <1>2 DEF ProbeEnds

LEMMA InvariantTypes == MapIInv => TypeOK
<1>. SUFFICES ASSUME MapIInv PROVE TypeOK
  OBVIOUS
<1>1. Sound(Table) /\ Table.buckets = buckets /\ Table.order = order
  BY TableSound
<1>2. /\ buckets \in [0..(CapacityOf(Table) - 1) -> {Empty, Tombstone} \cup Pair]
      /\ order \in Seq(0..(CapacityOf(Table) - 1))
      /\ DOMAIN buckets = 0..(CapacityOf(Table) - 1)
  BY <1>1 DEF Sound, Shape
<1>. QED  BY <1>2 DEF TypeOK, MapIInv
=============================================================================
