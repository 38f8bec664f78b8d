-------------------------- MODULE EdgeClientTypes ---------------------------
(***************************************************************************)
(* What the operations of SyncClient return and what every step of         *)
(* EdgeClient keeps, for any number of tabs, writes, sockets and mishaps:  *)
(* the types of its state, and the facts about queues, rows and slots on   *)
(* which EdgeClientSlots and EdgeClientOrder rest.                         *)
(***************************************************************************)
EXTENDS EdgeClient, TLAPS, NaturalsInduction, WellFoundedInduction, FiniteSetTheorems

-----------------------------------------------------------------------------
(* Induction *)

\* A set of natural numbers has a least element.
LEMMA LeastElement ==
    ASSUME NEW T \in SUBSET Nat, T # {}
    PROVE  \E x \in T : \A y \in T : x <= y
<1>1. IsWellFoundedOn(OpToRel(<, Nat), Nat)
  BY NatLessThanWellFounded
<1>2. PICK x \in T : \A y \in T : ~ (<<y, x>> \in OpToRel(<, Nat))
  BY <1>1, WFMin
<1>3. \A y \in T : ~ (y < x)
  BY <1>2 DEF OpToRel
<1>4. QED
  BY <1>3

\* Induction up to n, over a set.
LEMMA UpTo ==
    ASSUME NEW n \in Nat, NEW T, 0 \in T, \A i \in 1..n : i - 1 \in T => i \in T
    PROVE  \A i \in 0..n : i \in T
<1> DEFINE bad == {i \in 0..n : i \notin T}
<1>1. SUFFICES ASSUME bad # {} PROVE FALSE
  OBVIOUS
<1>2. PICK x \in bad : \A y \in bad : x <= y
  <2>1. bad \in SUBSET Nat
    OBVIOUS
  <2>2. QED
    BY <1>1, <2>1, LeastElement
<1>3. x # 0 /\ x - 1 \in 0..n /\ x - 1 \notin bad
  BY <1>2
<1>4. QED
  BY <1>2, <1>3

-----------------------------------------------------------------------------
(* Kept *)

\* What the loop has kept after each element.
KeptBy(g, s, K, S) ==
    /\ g \in [0..Len(s) -> Seq(S)]
    /\ g[0] = << >>
    /\ \A i \in 1..Len(s) : g[i] = IF i \in K THEN Append(g[i - 1], s[i]) ELSE g[i - 1]

\* The loop ends.
LEMMA KeptExists ==
    ASSUME NEW S, NEW s \in Seq(S), NEW K
    PROVE  \E g : KeptBy(g, s, K, S)
<1> DEFINE next(i, r) == IF i \in K THEN Append(r, s[i]) ELSE r
           good(n, g) == /\ g \in [0..n -> Seq(S)] /\ g[0] = << >>
                         /\ \A i \in 1..n : g[i] = next(i, g[i - 1])
           T == {n \in 0..Len(s) : \E g : good(n, g)}
<1>1. Len(s) \in Nat /\ << >> \in Seq(S)
  OBVIOUS
<1>2. ASSUME NEW i \in 1..Len(s), NEW r \in Seq(S) PROVE next(i, r) \in Seq(S)
  OBVIOUS
<1>3. 0 \in T
  <2>1. good(0, [i \in 0..0 |-> << >>])
    BY <1>1
  <2>2. \E g : good(0, g)
    BY <2>1, Zenon
  <2>3. QED
    BY <1>1, <2>2
<1> HIDE DEF next
<1>4. ASSUME NEW n \in 1..Len(s), n - 1 \in T PROVE n \in T
  <2>1. PICK g : good(n - 1, g)
    BY <1>4
  <2> DEFINE h == [i \in 0..n |-> IF i = n THEN next(n, g[n - 1]) ELSE g[i]]
  <2>2. next(n, g[n - 1]) \in Seq(S)
    BY <1>2, <2>1
  <2>3. h \in [0..n -> Seq(S)]
    BY <2>1, <2>2
  <2>4. h[0] = << >>
    BY <2>1
  <2>5. ASSUME NEW i \in 1..n PROVE h[i] = next(i, h[i - 1])
    <3>1. CASE i = n
      BY <3>1
    <3>2. CASE i # n
      BY <2>1, <3>2
    <3>3. QED
      BY <3>1, <3>2
  <2>6. good(n, h)
    BY <2>3, <2>4, <2>5
  <2>7. \E f : good(n, f)
    BY <2>6, Zenon
  <2>8. n \in 0..Len(s)
    BY <1>1
  <2>9. QED
    BY <2>7, <2>8, Zenon
<1>5. Len(s) \in T
  <2> HIDE DEF T
  <2>1. \A i \in 0..Len(s) : i \in T
    BY <1>1, <1>3, <1>4, UpTo
  <2>2. QED
    BY <1>1, <2>1
<1>6. QED
  BY <1>5 DEF KeptBy, next

\* What it has kept in the end is Kept.
LEMMA KeptIsLast ==
    ASSUME NEW S, NEW s \in Seq(S), NEW K, NEW g, KeptBy(g, s, K, S)
    PROVE  Kept(s, K) = g[Len(s)]
<1> DEFINE step(f) == [i \in 0..Len(s) |->
                         IF i = 0 THEN << >>
                         ELSE IF i \in K THEN Append(f[i - 1], s[i]) ELSE f[i - 1]]
           keep == CHOOSE f : f = step(f)
<1>1. Len(s) \in Nat
  OBVIOUS
<1>2. g = step(g)
  <2>1. g = [i \in 0..Len(s) |-> g[i]]
    BY DEF KeptBy
  <2>2. ASSUME NEW i \in 0..Len(s)
        PROVE  g[i] = IF i = 0 THEN << >>
                      ELSE IF i \in K THEN Append(g[i - 1], s[i]) ELSE g[i - 1]
    <3>1. CASE i = 0
      BY <3>1 DEF KeptBy
    <3>2. CASE i # 0
      <4>1. i \in 1..Len(s)
        BY <1>1, <3>2
      <4>2. QED
        BY <3>2, <4>1 DEF KeptBy
    <3>3. QED
      BY <3>1, <3>2
  <2>3. QED
    BY <2>1, <2>2, Zenon
<1>3. keep = step(keep)
  BY <1>2
<1>4. Kept(s, K) = keep[Len(s)]
  BY DEF Kept
<1> HIDE DEF keep
<1> DEFINE T == {i \in 0..Len(s) : keep[i] = g[i]}
<1>5. \A j \in 0..Len(s) :
         keep[j] = IF j = 0 THEN << >>
                   ELSE IF j \in K THEN Append(keep[j - 1], s[j]) ELSE keep[j - 1]
  BY <1>3, Zenon
<1>6. 0 \in T
  <2>1. 0 \in 0..Len(s) /\ keep[0] = << >>
    BY <1>1, <1>5
  <2>2. QED
    BY <2>1 DEF KeptBy
<1>7. ASSUME NEW i \in 1..Len(s), i - 1 \in T PROVE i \in T
  <2>1. i \in 0..Len(s) /\ i # 0
    BY <1>1
  <2>2. keep[i] = IF i \in K THEN Append(keep[i - 1], s[i]) ELSE keep[i - 1]
    BY <1>5, <2>1, Zenon
  <2>3. g[i] = IF i \in K THEN Append(g[i - 1], s[i]) ELSE g[i - 1]
    BY DEF KeptBy
  <2>4. QED
    BY <1>7, <2>1, <2>2, <2>3
<1> HIDE DEF T
<1>8. \A i \in 0..Len(s) : i \in T
  BY <1>1, <1>6, <1>7, UpTo
<1>9. QED
  BY <1>1, <1>4, <1>8 DEF T

\* What is kept by i is an element at one of the places up to i.
LEMMA KeptFrom ==
    ASSUME NEW S, NEW s \in Seq(S), NEW K, NEW g, KeptBy(g, s, K, S)
    PROVE  \A i \in 0..Len(s) : \A m \in 1..Len(g[i]) : \E j \in 1..i : j \in K /\ g[i][m] = s[j]
<1> DEFINE P(i) == \A m \in 1..Len(g[i]) : \E j \in 1..i : j \in K /\ g[i][m] = s[j]
           T == {i \in 0..Len(s) : P(i)}
<1>2. Len(s) \in Nat
  OBVIOUS
<1>3. 0 \in T
  BY <1>2 DEF KeptBy
<1>4. ASSUME NEW i \in 1..Len(s), i - 1 \in T PROVE i \in T
  <2>1. g[i - 1] \in Seq(S) /\ g[i] = IF i \in K THEN Append(g[i - 1], s[i]) ELSE g[i - 1]
    BY <1>2 DEF KeptBy
  <2>2. P(i - 1) /\ i \in 0..Len(s)
    BY <1>2, <1>4
  <2>3. CASE i \in K
    <3>1. /\ Len(g[i]) = Len(g[i - 1]) + 1 /\ Len(g[i - 1]) \in Nat
          /\ \A m \in 1..Len(g[i - 1]) : g[i][m] = g[i - 1][m]
          /\ g[i][Len(g[i - 1]) + 1] = s[i]
      BY <2>1, <2>3
    <3>2. ASSUME NEW m \in 1..Len(g[i]) PROVE \E j \in 1..i : j \in K /\ g[i][m] = s[j]
      <4>1. CASE m = Len(g[i - 1]) + 1
        BY <2>3, <3>1, <4>1
      <4>2. CASE m # Len(g[i - 1]) + 1
        <5>1. m \in 1..Len(g[i - 1])
          BY <3>1, <4>2
        <5>2. PICK j \in 1..(i - 1) : j \in K /\ g[i - 1][m] = s[j]
          BY <2>2, <5>1
        <5>3. QED
          BY <3>1, <5>1, <5>2
      <4>3. QED
        BY <4>1, <4>2
    <3>3. QED
      BY <2>2, <3>2
  <2>4. CASE i \notin K
    <3>1. g[i] = g[i - 1] /\ 1..(i - 1) \subseteq 1..i
      BY <2>1, <2>4
    <3>2. P(i)
      BY <2>2, <3>1, Zenon
    <3>3. QED
      BY <2>2, <3>2
  <2>5. QED
    BY <2>3, <2>4
<1> HIDE DEF T
<1>5. \A i \in 0..Len(s) : i \in T
  BY <1>2, <1>3, <1>4, UpTo
<1>6. QED
  BY <1>5 DEF T

\* What is kept is an element at one of the places.
LEMMA KeptElements ==
    ASSUME NEW S, NEW s \in Seq(S), NEW K
    PROVE  /\ Kept(s, K) \in Seq(S)
           /\ \A m \in 1..Len(Kept(s, K)) : \E j \in 1..Len(s) : j \in K /\ Kept(s, K)[m] = s[j]
<1>1. PICK g : KeptBy(g, s, K, S)
  BY KeptExists
<1>2. Kept(s, K) = g[Len(s)]
  BY <1>1, KeptIsLast
<1>3. Len(s) \in 0..Len(s)
  OBVIOUS
<1>4. g[Len(s)] \in Seq(S)
  BY <1>1, <1>3 DEF KeptBy
<1>5. \A m \in 1..Len(g[Len(s)]) : \E j \in 1..Len(s) : j \in K /\ g[Len(s)][m] = s[j]
  BY <1>1, <1>3, KeptFrom
<1>6. QED
  BY <1>2, <1>4, <1>5

\* It is kept in order.
LEMMA KeptOrder ==
    ASSUME NEW S, NEW s \in Seq(S), NEW K
    PROVE  \A m, n \in 1..Len(Kept(s, K)) : m < n =>
             \E i, j \in 1..Len(s) : i < j /\ Kept(s, K)[m] = s[i] /\ Kept(s, K)[n] = s[j]
<1>1. PICK g : KeptBy(g, s, K, S)
  BY KeptExists
<1> DEFINE P(l) == \A a, b \in 1..Len(g[l]) :
                     a < b => \E i, j \in 1..l : i < j /\ g[l][a] = s[i] /\ g[l][b] = s[j]
           T == {l \in 0..Len(s) : P(l)}
<1>2. Len(s) \in Nat
  OBVIOUS
<1>3. 0 \in T
  BY <1>1, <1>2 DEF KeptBy
<1>4. ASSUME NEW l \in 1..Len(s), l - 1 \in T PROVE l \in T
  <2>0. l \in 0..Len(s) /\ l - 1 \in 0..Len(s)
    BY <1>2
  <2>1. g[l - 1] \in Seq(S) /\ g[l] = IF l \in K THEN Append(g[l - 1], s[l]) ELSE g[l - 1]
    <3>1. g[l - 1] \in Seq(S)
      BY <1>1, <2>0 DEF KeptBy
    <3>2. g[l] = IF l \in K THEN Append(g[l - 1], s[l]) ELSE g[l - 1]
      BY <1>1, Zenon DEF KeptBy
    <3>3. QED
      BY <3>1, <3>2, Zenon
  <2>2. P(l - 1) /\ l \in 0..Len(s) /\ l - 1 \in 0..Len(s)
    BY <1>4, <2>0
  <2>3. CASE l \in K
    <3>1. /\ Len(g[l]) = Len(g[l - 1]) + 1 /\ Len(g[l - 1]) \in Nat
          /\ \A a \in 1..Len(g[l - 1]) : g[l][a] = g[l - 1][a]
          /\ g[l][Len(g[l - 1]) + 1] = s[l]
      BY <2>1, <2>3
    <3>2. ASSUME NEW a \in 1..Len(g[l]), NEW b \in 1..Len(g[l]), a < b
          PROVE  \E i, j \in 1..l : i < j /\ g[l][a] = s[i] /\ g[l][b] = s[j]
      <4>1. a \in 1..Len(g[l - 1])
        BY <3>1, <3>2
      <4>2. CASE b = Len(g[l - 1]) + 1
        <5>0. \A c \in 0..Len(s) : \A d \in 1..Len(g[c]) : \E j \in 1..c : j \in K /\ g[c][d] = s[j]
          BY <1>1, KeptFrom
        <5>1. PICK i \in 1..(l - 1) : i \in K /\ g[l - 1][a] = s[i]
          BY <2>2, <4>1, <5>0, Zenon
        <5>2. i \in 1..l /\ l \in 1..l /\ i < l
          OBVIOUS
        <5>3. g[l][a] = s[i] /\ g[l][b] = s[l]
          BY <3>1, <4>1, <4>2, <5>1
        <5>4. QED
          BY <5>2, <5>3
      <4>3. CASE b # Len(g[l - 1]) + 1
        <5>1. b \in 1..Len(g[l - 1])
          BY <3>1, <4>3
        <5>2. PICK i \in 1..(l - 1), j \in 1..(l - 1) :
                 i < j /\ g[l - 1][a] = s[i] /\ g[l - 1][b] = s[j]
          BY <2>2, <3>2, <4>1, <5>1
        <5>3. i \in 1..l /\ j \in 1..l
          OBVIOUS
        <5>4. QED
          BY <3>1, <4>1, <5>1, <5>2, <5>3
      <4>4. QED
        BY <4>2, <4>3
    <3>3. QED
      BY <2>2, <3>2
  <2>4. CASE l \notin K
    <3>1. g[l] = g[l - 1] /\ 1..(l - 1) \subseteq 1..l
      BY <2>1, <2>4
    <3>2. ASSUME NEW a \in 1..Len(g[l]), NEW b \in 1..Len(g[l]), a < b
          PROVE  \E i, j \in 1..l : i < j /\ g[l][a] = s[i] /\ g[l][b] = s[j]
      <4>1. PICK i \in 1..(l - 1), j \in 1..(l - 1) :
               i < j /\ g[l - 1][a] = s[i] /\ g[l - 1][b] = s[j]
        BY <2>2, <3>1, <3>2
      <4>2. i \in 1..l /\ j \in 1..l
        BY <3>1
      <4>3. QED
        BY <3>1, <4>1, <4>2
    <3>3. QED
      BY <2>2, <3>2
  <2>5. QED
    BY <2>3, <2>4
<1> HIDE DEF T
<1>5. \A l \in 0..Len(s) : l \in T
  BY <1>2, <1>3, <1>4, UpTo
<1>6. Kept(s, K) = g[Len(s)]
  BY <1>1, KeptIsLast
<1>7. P(Len(s))
  <2>1. Len(s) \in 0..Len(s)
    BY <1>2
  <2>2. Len(s) \in T
    BY <1>5, <2>1, Zenon
  <2>3. QED
    BY <2>2, Zenon DEF T
<1>8. QED
  BY <1>6, <1>7

\* One more element.
LEMMA KeptAppend ==
    ASSUME NEW S, NEW s \in Seq(S), NEW x \in S, NEW K, NEW L,
           \A i \in 1..Len(s) : i \in L <=> i \in K
    PROVE  Kept(Append(s, x), L) =
             IF Len(s) + 1 \in L THEN Append(Kept(s, K), x) ELSE Kept(s, K)
<1> DEFINE r == Append(s, x)
           n == Len(s) + 1
<1>1. PICK g : KeptBy(g, s, K, S)
  BY KeptExists
<1>2. /\ r \in Seq(S) /\ Len(r) = n /\ Len(s) \in Nat /\ r[n] = x
      /\ \A i \in 1..Len(s) : r[i] = s[i]
  OBVIOUS
<1> DEFINE last == IF n \in L THEN Append(g[n - 1], x) ELSE g[n - 1]
           h == [i \in 0..n |-> IF i = n THEN last ELSE g[i]]
<1>3. last \in Seq(S) /\ n - 1 = Len(s)
  BY <1>1, <1>2 DEF KeptBy
<1>4. KeptBy(h, r, L, S)
  <2>1. h \in [0..Len(r) -> Seq(S)] /\ h[0] = << >>
    BY <1>1, <1>2, <1>3 DEF KeptBy
  <2>2. ASSUME NEW i \in 1..Len(r)
        PROVE  h[i] = IF i \in L THEN Append(h[i - 1], r[i]) ELSE h[i - 1]
    <3>1. CASE i = n
      <4>1. n \in 0..n /\ n - 1 \in 0..n /\ n - 1 # n
        BY <1>2
      <4>2. h[n] = last /\ h[n - 1] = g[n - 1]
        BY <4>1
      <4>3. QED
        BY <1>2, <3>1, <4>2, Zenon
    <3>2. CASE i # n
      <4>1. i \in 1..Len(s)
        BY <1>2, <3>2
      <4>2. h[i] = g[i] /\ h[i - 1] = g[i - 1] /\ r[i] = s[i]
        BY <1>2, <4>1
      <4>3. g[i] = IF i \in K THEN Append(g[i - 1], s[i]) ELSE g[i - 1]
        BY <1>1, <4>1 DEF KeptBy
      <4>4. QED
        BY <4>1, <4>2, <4>3
    <3>3. QED
      BY <3>1, <3>2
  <2>3. QED
    BY <2>1, <2>2 DEF KeptBy
<1>5. Kept(s, K) = g[Len(s)]
  BY <1>1, KeptIsLast
<1>6. Kept(r, L) = h[Len(r)]
  <2>1. r \in Seq(S) /\ KeptBy(h, r, L, S)
    BY <1>2, <1>4
  <2> HIDE DEF r, h
  <2>2. QED
    BY ONLY <2>1, KeptIsLast, Zenon
<1>7. QED
  BY <1>2, <1>3, <1>5, <1>6

\* An element put behind the others leaves the first where it is.
LEMMA AppendHead ==
    ASSUME NEW S, NEW s \in Seq(S), s # << >>, NEW e \in S
    PROVE  Append(s, e) # << >> /\ Append(s, e)[1] = s[1]
<1>1. Len(s) \in Nat /\ Len(s) # 0
  OBVIOUS
<1>2. 1 \in 1..Len(s)
  BY <1>1
<1>3. Append(s, e)[1] = s[1] /\ Len(Append(s, e)) = Len(s) + 1
  BY <1>2
<1>4. QED
  BY <1>1, <1>3

\* One element less at the front.
LEMMA KeptTail ==
    ASSUME NEW S, NEW s \in Seq(S), s # << >>, NEW K, NEW L,
           \A i \in 1..(Len(s) - 1) : i \in L <=> i + 1 \in K
    PROVE  /\ 1 \notin K => Kept(Tail(s), L) = Kept(s, K)
           /\ 1 \in K => /\ Kept(s, K) # << >> /\ Head(Kept(s, K)) = s[1]
                         /\ Kept(Tail(s), L) = Tail(Kept(s, K))
<1> DEFINE r == Tail(s)
           n == Len(s)
<1>1. PICK g : KeptBy(g, s, K, S)
  BY KeptExists
<1>2. /\ r \in Seq(S) /\ n \in Nat /\ n >= 1 /\ Len(r) = n - 1
      /\ \A i \in 1..(n - 1) : r[i] = s[i + 1]
  OBVIOUS
<1>3. \A i \in 1..n : g[i] = IF i \in K THEN Append(g[i - 1], s[i]) ELSE g[i - 1]
  BY <1>1 DEF KeptBy
<1>4. g[0] = << >> /\ \A i \in 0..n : g[i] \in Seq(S)
  BY <1>1, <1>2 DEF KeptBy
<1>5. Kept(s, K) = g[n]
  BY <1>1, KeptIsLast
<1>6. CASE 1 \notin K
  <2> DEFINE h == [i \in 0..(n - 1) |-> g[i + 1]]
  <2>1. KeptBy(h, r, L, S)
    <3>1. h \in [0..Len(r) -> Seq(S)]
      BY <1>2, <1>4
    <3>2. h[0] = << >>
      <4>1. 0 \in 0..(n - 1) /\ 1 \in 1..n /\ 0 + 1 = 1 /\ 1 - 1 = 0
        BY <1>2
      <4>2. g[1] = g[1 - 1]
        BY <1>3, <1>6, <4>1, Zenon
      <4>3. g[1] = << >>
        BY <1>4, <4>1, <4>2
      <4>4. QED
        BY <4>1, <4>3
    <3>3. ASSUME NEW i \in 1..Len(r)
          PROVE  h[i] = IF i \in L THEN Append(h[i - 1], r[i]) ELSE h[i - 1]
      <4>1. i \in 1..(n - 1) /\ i + 1 \in 1..n /\ (i + 1) - 1 = i /\ i - 1 \in 0..(n - 1)
            /\ (i - 1) + 1 = i /\ i \in 0..(n - 1)
        BY <1>2
      <4>2. h[i] = g[i + 1] /\ h[i - 1] = g[i] /\ r[i] = s[i + 1]
        BY <1>2, <4>1
      <4>3. g[i + 1] = IF i + 1 \in K THEN Append(g[i], s[i + 1]) ELSE g[i]
        BY <1>3, <4>1
      <4>4. i \in L <=> i + 1 \in K
        BY <4>1
      <4>5. QED
        BY <4>2, <4>3, <4>4
    <3>4. QED
      BY <3>1, <3>2, <3>3 DEF KeptBy
  <2>2. Kept(r, L) = h[Len(r)]
    BY <1>2, <2>1, KeptIsLast
  <2>3. n - 1 \in 0..(n - 1) /\ (n - 1) + 1 = n
    BY <1>2
  <2>4. h[n - 1] = g[n]
    BY <2>3
  <2>5. QED
    BY <1>2, <1>5, <1>6, <2>2, <2>4
<1>7. CASE 1 \in K
  <2> DEFINE T == {i \in 0..n : i = 0 \/ (g[i] # << >> /\ g[i][1] = s[1])}
  <2>1. 0 \in T
    BY <1>2
  <2>2. ASSUME NEW i \in 1..n, i - 1 \in T PROVE i \in T
    <3>1. g[i] = IF i \in K THEN Append(g[i - 1], s[i]) ELSE g[i - 1]
      BY <1>3
    <3>2. g[i - 1] \in Seq(S) /\ s[i] \in S
      BY <1>2, <1>4
    <3>3. CASE i = 1
      <4>1. g[i] = Append(<< >>, s[1])
        <5>1. i - 1 = 0
          BY <3>3
        <5>2. QED
          BY <1>4, <1>7, <3>1, <3>3, <5>1
      <4>2. g[i] # << >> /\ g[i][1] = s[1]
        BY <3>2, <3>3, <4>1
      <4>3. QED
        BY <1>2, <4>2
    <3>4. CASE i # 1
      <4>0. i - 1 # 0
        BY <3>4
      <4>1. g[i - 1] # << >> /\ g[i - 1][1] = s[1]
        BY <2>2, <4>0
      <4>2. Append(g[i - 1], s[i]) # << >> /\ Append(g[i - 1], s[i])[1] = s[1]
        BY <3>2, <4>1, AppendHead
      <4>3. g[i] # << >> /\ g[i][1] = s[1]
        BY <3>1, <4>1, <4>2
      <4>4. i \in 0..n
        BY <1>2
      <4>5. QED
        BY <4>3, <4>4
    <3>5. QED
      BY <3>3, <3>4
  <2> HIDE DEF T
  <2>3. \A i \in 0..n : i \in T
    BY <1>2, <2>1, <2>2, UpTo
  <2>4. \A i \in 1..n : g[i] # << >> /\ g[i][1] = s[1]
    BY <1>2, <2>3 DEF T
  <2> DEFINE h == [i \in 0..(n - 1) |-> Tail(g[i + 1])]
  <2>5. KeptBy(h, r, L, S)
    <3>1. h \in [0..Len(r) -> Seq(S)]
      <4>1. \A i \in 0..(n - 1) : Tail(g[i + 1]) \in Seq(S)
        BY <1>2, <1>4, <2>4
      <4>2. QED
        BY <1>2, <4>1
    <3>2. h[0] = << >>
      <4>0. 0 \in 0..(n - 1) /\ 1 \in 1..n /\ 0 + 1 = 1 /\ 1 - 1 = 0
        BY <1>2
      <4>a. g[1] = Append(g[1 - 1], s[1])
        BY <1>3, <1>7, <4>0, Zenon
      <4>1. g[1] = Append(g[1 - 1], s[1]) /\ s[1] \in S
        BY <4>0, <4>a
      <4>2. Tail(g[1]) = << >>
        BY <1>4, <4>0, <4>1
      <4>3. QED
        BY <4>0, <4>2
    <3>3. ASSUME NEW i \in 1..Len(r)
          PROVE  h[i] = IF i \in L THEN Append(h[i - 1], r[i]) ELSE h[i - 1]
      <4>1. i \in 1..(n - 1) /\ i + 1 \in 1..n /\ (i + 1) - 1 = i /\ i - 1 \in 0..(n - 1)
            /\ (i - 1) + 1 = i /\ i \in 0..(n - 1) /\ i \in 1..n
        BY <1>2
      <4>2. h[i] = Tail(g[i + 1]) /\ h[i - 1] = Tail(g[i]) /\ r[i] = s[i + 1]
        BY <1>2, <4>1
      <4>3. g[i + 1] = IF i + 1 \in K THEN Append(g[i], s[i + 1]) ELSE g[i]
        BY <1>3, <4>1
      <4>4. i \in L <=> i + 1 \in K
        BY <4>1
      <4>5. Tail(Append(g[i], s[i + 1])) = Append(Tail(g[i]), s[i + 1])
        <5>1. g[i] \in Seq(S) /\ g[i] # << >> /\ s[i + 1] \in S
          BY <1>4, <2>4, <4>1
        <5>2. QED
          BY <5>1
      <4>6. QED
        BY <4>2, <4>3, <4>4, <4>5
    <3>4. QED
      BY <3>1, <3>2, <3>3 DEF KeptBy
  <2>6. Kept(r, L) = h[Len(r)]
    BY <1>2, <2>5, KeptIsLast
  <2>7. Kept(r, L) = Tail(g[n])
    <3>1. n - 1 \in 0..(n - 1) /\ (n - 1) + 1 = n
      BY <1>2
    <3>2. h[n - 1] = Tail(g[n])
      BY <3>1
    <3>3. QED
      BY <1>2, <2>6, <3>2
  <2>8. g[n] # << >> /\ Head(g[n]) = s[1]
    BY <1>2, <1>4, <2>4
  <2>9. QED
    BY <1>5, <1>7, <2>7, <2>8
<1>8. QED
  BY <1>6, <1>7

\* Elements that are exchanged for others do not change which places are kept.
LEMMA KeptExchange ==
    ASSUME NEW S, NEW s \in Seq(S), NEW r \in Seq(S), NEW K, Len(r) = Len(s),
           \A i \in 1..Len(s) : i \in K => r[i].frame = s[i].frame
    PROVE  /\ Len(Kept(r, K)) = Len(Kept(s, K))
           /\ \A m \in 1..Len(Kept(s, K)) : Kept(r, K)[m].frame = Kept(s, K)[m].frame
<1>1. PICK g : KeptBy(g, s, K, S)
  BY KeptExists
<1>2. PICK h : KeptBy(h, r, K, S)
  BY KeptExists
<1> DEFINE P(i) == Len(h[i]) = Len(g[i]) /\ \A m \in 1..Len(g[i]) : h[i][m].frame = g[i][m].frame
           T == {i \in 0..Len(s) : P(i)}
<1>3. Len(s) \in Nat
  OBVIOUS
<1>4. 0 \in T
  BY <1>1, <1>2, <1>3 DEF KeptBy
<1>5. ASSUME NEW i \in 1..Len(s), i - 1 \in T PROVE i \in T
  <2>0. i - 1 \in 0..Len(s) /\ i \in 1..Len(r) /\ i - 1 \in 0..Len(r)
    BY <1>3
  <2>a. /\ g[i] = IF i \in K THEN Append(g[i - 1], s[i]) ELSE g[i - 1]
        /\ g[i - 1] \in Seq(S)
    BY <1>1, <2>0 DEF KeptBy
  <2>b. /\ h[i] = IF i \in K THEN Append(h[i - 1], r[i]) ELSE h[i - 1]
        /\ h[i - 1] \in Seq(S)
    BY <1>2, <2>0 DEF KeptBy
  <2>1. /\ g[i] = IF i \in K THEN Append(g[i - 1], s[i]) ELSE g[i - 1]
        /\ h[i] = IF i \in K THEN Append(h[i - 1], r[i]) ELSE h[i - 1]
        /\ g[i - 1] \in Seq(S) /\ h[i - 1] \in Seq(S)
    BY <2>a, <2>b
  <2>2. P(i - 1) /\ i \in 0..Len(s)
    BY <1>3, <1>5
  <2>3. CASE i \in K
    <3>1. /\ Len(g[i]) = Len(g[i - 1]) + 1 /\ Len(g[i - 1]) \in Nat
          /\ \A m \in 1..Len(g[i - 1]) : g[i][m] = g[i - 1][m]
          /\ g[i][Len(g[i - 1]) + 1] = s[i]
      BY <2>1, <2>3
    <3>2. /\ Len(h[i]) = Len(g[i - 1]) + 1
          /\ \A m \in 1..Len(g[i - 1]) : h[i][m] = h[i - 1][m]
          /\ h[i][Len(g[i - 1]) + 1] = r[i]
      BY <2>1, <2>2, <2>3
    <3>3. ASSUME NEW m \in 1..Len(g[i]) PROVE h[i][m].frame = g[i][m].frame
      <4>1. CASE m = Len(g[i - 1]) + 1
        BY <2>3, <3>1, <3>2, <4>1
      <4>2. CASE m # Len(g[i - 1]) + 1
        <5>1. m \in 1..Len(g[i - 1])
          BY <3>1, <4>2
        <5>2. QED
          BY <2>2, <3>1, <3>2, <5>1
      <4>3. QED
        BY <4>1, <4>2
    <3>4. QED
      BY <2>2, <3>1, <3>2, <3>3
  <2>4. CASE i \notin K
    BY <2>1, <2>2, <2>4
  <2>5. QED
    BY <2>3, <2>4
<1> HIDE DEF T
<1>6. \A i \in 0..Len(s) : i \in T
  BY <1>3, <1>4, <1>5, UpTo
<1>7. Kept(s, K) = g[Len(s)] /\ Kept(r, K) = h[Len(s)]
  BY <1>1, <1>2, KeptIsLast
<1>8. QED
  BY <1>3, <1>6, <1>7 DEF T

-----------------------------------------------------------------------------
(* The operations of the sync client *)

\* No number is None.
LEMMA NoneFacts == None \in Int /\ None \notin Nat /\ None < 0 /\ None # 0
BY DEF None

\* The frames of rows and of the session.
LEMMA FrameFacts ==
    ASSUME NEW f \in Frame
    PROVE  /\ f.kind \in {"auth", "query", "subscribe", "read", "write"}
           /\ f.wire \in Option(Nat) /\ f.write \in Option(Nat) /\ f.client \in Option(Clients)
           /\ f.wire # None => f.client \in Clients /\ f.wire \in Nat /\ f.write \in Nat
           /\ f.kind = "write" => f.wire # None
           /\ f \in RowFrame => f.client \in Clients
           /\ f \in SessionFrameSet => f.client = None /\ f.wire = None
<1>1. CASE f \in [kind : {"write"}, write : Nat, client : Clients, wire : Nat]
  <2>1. f.kind = "write" /\ f.write \in Nat /\ f.client \in Clients /\ f.wire \in Nat
    BY <1>1
  <2>2. f \notin SessionFrameSet
    BY <2>1 DEF SessionFrameSet
  <2>3. QED
    BY <2>1, <2>2, NoneFacts DEF Option
<1>2. CASE f \in [kind : {"subscribe"}, write : {None}, client : Clients, wire : {None}]
  <2>1. f.kind = "subscribe" /\ f.write = None /\ f.client \in Clients /\ f.wire = None
    BY <1>2
  <2>2. f \notin SessionFrameSet
    BY <2>1, NoneFacts DEF SessionFrameSet, Clients
  <2>3. QED
    BY <2>1, <2>2, NoneFacts DEF Option
<1>3. CASE f \in SessionFrameSet
  <2>1. f.kind \in {"auth", "query", "subscribe", "read"} /\ f.write = None /\ f.client = None
        /\ f.wire = None
    BY <1>3 DEF SessionFrameSet
  <2>2. f \notin RowFrame
    BY <2>1, NoneFacts DEF RowFrame, Clients
  <2>3. QED
    BY <2>1, <2>2 DEF Option
<1>4. QED
  BY <1>1, <1>2, <1>3 DEF Frame, RowFrame

\* A command of the session is a frame of the session.
LEMMA SessionCommandType ==
    ASSUME NEW kind \in {"auth", "query", "subscribe", "read"}
    PROVE  SessionCommand(kind) \in SessionFrameSet /\ SessionCommand(kind) \in Frame
BY DEF SessionCommand, SessionFrameSet, Frame

\* The fields of a client.
LEMMA CoreFields ==
    ASSUME NEW c \in Core
    PROVE  /\ c.client \in Option(Clients) /\ c.epoch \in Nat /\ c.seq \in Nat
           /\ c.outbox \in Seq(Row) /\ c.inflight \in Seq(Option(Nat))
           /\ c.password \in BOOLEAN /\ c.queries \in SUBSET {"q"}
           /\ c = [client |-> c.client, epoch |-> c.epoch, seq |-> c.seq, outbox |-> c.outbox,
                   inflight |-> c.inflight, password |-> c.password, queries |-> c.queries]
BY Zenon DEF Core

\* A client is what its fields are.
LEMMA CoreMade ==
    ASSUME NEW id \in Option(Clients), NEW epoch \in Nat, NEW seq \in Nat,
           NEW outbox \in Seq(Row), NEW inflight \in Seq(Option(Nat)), NEW password \in BOOLEAN,
           NEW queries \in SUBSET {"q"}
    PROVE  [client |-> id, epoch |-> epoch, seq |-> seq, outbox |-> outbox,
            inflight |-> inflight, password |-> password, queries |-> queries] \in Core
BY Zenon DEF Core

\* A row is what its fields are.
LEMMA RowFacts ==
    /\ \A row \in Row : row.id \in Nat /\ row.frame \in RowFrame
    /\ \A id \in Nat : \A frame \in RowFrame : [id |-> id, frame |-> frame] \in Row
BY DEF Row

\* A new client is a client.
LEMMA NewClientType ==
    ASSUME NEW id \in Option(Clients), NEW password \in BOOLEAN
    PROVE  NewClient(id, password) \in Core
<1>1. << >> \in Seq(Row) /\ << >> \in Seq(Option(Nat)) /\ {} \in SUBSET {"q"} /\ 0 \in Nat
  OBVIOUS
<1>2. QED
  BY <1>1, CoreMade, Zenon DEF NewClient

\* The operations that change one field.
LEMMA CoreChanged ==
    ASSUME NEW c \in Core
    PROVE  /\ \A x \in Option(Clients) : [c EXCEPT !.client = x] \in Core
           /\ \A x \in Nat : [c EXCEPT !.epoch = x] \in Core
           /\ \A x \in Seq(Option(Nat)) : [c EXCEPT !.inflight = x] \in Core
           /\ \A x \in SUBSET {"q"} : [c EXCEPT !.queries = x] \in Core
BY DEF Core

\* A command of the session takes a slot, when it is sent.
LEMMA SessionFrameType ==
    ASSUME NEW c \in Core, NEW connected \in BOOLEAN
    PROVE  /\ SessionFrame(c, connected) \in Core
           /\ SessionFrame(c, connected).inflight = IF connected THEN Append(c.inflight, None)
                                                                 ELSE c.inflight
           /\ SessionFrame(c, connected).outbox = c.outbox
           /\ SessionFrame(c, connected).seq = c.seq
           /\ SessionFrame(c, connected).client = c.client
           /\ SessionFrame(c, connected).epoch = c.epoch
<1>1. c.inflight \in Seq(Option(Nat)) /\ None \in Option(Nat)
  BY CoreFields DEF Option
<1>2. Append(c.inflight, None) \in Seq(Option(Nat))
  BY <1>1
<1>3. [c EXCEPT !.inflight = Append(c.inflight, None)] \in Core
  BY <1>2, CoreChanged
<1>4. SessionFrame(c, connected) = IF connected THEN [c EXCEPT !.inflight = Append(c.inflight, None)]
                                               ELSE c
  BY DEF SessionFrame
<1>5. ASSUME NEW x PROVE LET d == [c EXCEPT !.inflight = x]
                         IN  d.inflight = x /\ d.outbox = c.outbox /\ d.seq = c.seq
                               /\ d.client = c.client /\ d.epoch = c.epoch
  BY DEF Core
<1>6. QED
  BY <1>3, <1>4, <1>5

\* So does a live query that is added or dropped.
LEMMA LiveQueryType ==
    ASSUME NEW c \in Core, NEW connected \in BOOLEAN,
           NEW next \in {AddLiveQuery(c, "q", connected), RemoveLiveQuery(c, "q", connected)}
    PROVE  /\ next \in Core
           /\ next.inflight = IF connected THEN Append(c.inflight, None) ELSE c.inflight
           /\ next.outbox = c.outbox /\ next.seq = c.seq /\ next.client = c.client
           /\ next.epoch = c.epoch
<1>1. c.queries \in SUBSET {"q"}
  BY CoreFields
<1>2. ASSUME NEW x \in SUBSET {"q"}
      PROVE  LET d == [c EXCEPT !.queries = x]
             IN  d \in Core /\ d.inflight = c.inflight /\ d.outbox = c.outbox /\ d.seq = c.seq
                   /\ d.client = c.client /\ d.epoch = c.epoch
  BY DEF Core
<1>3. CASE next = AddLiveQuery(c, "q", connected)
  <2>1. c.queries \cup {"q"} \in SUBSET {"q"}
    BY <1>1
  <2> DEFINE d == [c EXCEPT !.queries = c.queries \cup {"q"}]
  <2>2. /\ d \in Core /\ d.inflight = c.inflight /\ d.outbox = c.outbox /\ d.seq = c.seq
        /\ d.client = c.client /\ d.epoch = c.epoch
    BY <1>2, <2>1
  <2>3. next = SessionFrame(d, connected)
    BY <1>3 DEF AddLiveQuery
  <2> HIDE DEF d
  <2>4. QED
    BY <2>2, <2>3, SessionFrameType
<1>4. CASE next = RemoveLiveQuery(c, "q", connected)
  <2>1. c.queries \ {"q"} \in SUBSET {"q"}
    BY <1>1
  <2> DEFINE d == [c EXCEPT !.queries = c.queries \ {"q"}]
  <2>2. /\ d \in Core /\ d.inflight = c.inflight /\ d.outbox = c.outbox /\ d.seq = c.seq
        /\ d.client = c.client /\ d.epoch = c.epoch
    BY <1>2, <2>1
  <2>3. next = SessionFrame(d, connected)
    BY <1>4 DEF RemoveLiveQuery
  <2> HIDE DEF d
  <2>4. QED
    BY <2>2, <2>3, SessionFrameType
<1>5. QED
  BY <1>3, <1>4

\* One sequence after another.
LEMMA ConcatFacts ==
    ASSUME NEW S, NEW s \in Seq(S), NEW r \in Seq(S)
    PROVE  /\ s \o r \in Seq(S) /\ Len(s \o r) = Len(s) + Len(r)
           /\ \A i \in 1..Len(s) : (s \o r)[i] = s[i]
           /\ \A j \in 1..Len(r) : (s \o r)[Len(s) + j] = r[j]
<1>1. s \o r \in Seq(S) /\ Len(s \o r) = Len(s) + Len(r)
  OBVIOUS
<1>2. ASSUME NEW i \in 1..Len(s) PROVE (s \o r)[i] = s[i]
  OBVIOUS
<1>3. ASSUME NEW j \in 1..Len(r) PROVE (s \o r)[Len(s) + j] = r[j]
  OBVIOUS
<1>4. QED
  BY <1>1, <1>2, <1>3

\* What is sent on opening a socket, and its slots: the session without rows, then every row.
LEMMA OnOpenType ==
    ASSUME NEW c \in Core
    PROVE  LET o == OnOpen(c)
           IN  /\ o.core \in Core /\ o.frames \in Seq(Frame)
               /\ o.core.outbox = c.outbox /\ o.core.seq = c.seq
               /\ o.core.client = c.client /\ o.core.epoch = c.epoch
               /\ Len(o.core.inflight) = Len(o.frames)
               /\ \A i \in 1..Len(o.frames) :
                    \/ o.core.inflight[i] = None /\ o.frames[i] \in SessionFrameSet
                    \/ \E j \in 1..Len(c.outbox) : /\ o.core.inflight[i] = c.outbox[j].id
                                                   /\ o.frames[i] = c.outbox[j].frame
<1> DEFINE session == SessionFrames(c)
           rows == [i \in 1..Len(c.outbox) |-> c.outbox[i].frame]
           nones == [i \in 1..Len(session) |-> None]
           ids == [i \in 1..Len(c.outbox) |-> c.outbox[i].id]
           o == OnOpen(c)
<1>1. session \in Seq(SessionFrameSet)
  <2>1. Cardinality(c.queries) \in Nat
    <3>1. IsFiniteSet({"q"})
      BY FS_Singleton
    <3>2. c.queries \subseteq {"q"}
      BY CoreFields
    <3>3. IsFiniteSet(c.queries)
      BY <3>1, <3>2, FS_Subset
    <3>4. QED
      BY <3>3, FS_CardinalityType
  <2> DEFINE first == IF c.password THEN <<SessionCommand("auth")>> ELSE << >>
             rest == [i \in 1..Cardinality(c.queries) |-> SessionCommand("query")]
  <2>2. SessionCommand("auth") \in SessionFrameSet /\ SessionCommand("query") \in SessionFrameSet
    BY SessionCommandType
  <2>3. first \in Seq(SessionFrameSet)
    BY <2>2
  <2>4. rest \in Seq(SessionFrameSet)
    BY <2>1, <2>2
  <2>5. session = first \o rest
    BY DEF SessionFrames
  <2> HIDE DEF first, rest, session
  <2>6. QED
    BY <2>3, <2>4, <2>5
<1>2. c.outbox \in Seq(Row) /\ Len(c.outbox) \in Nat
  BY CoreFields
<1>3. rows \in Seq(RowFrame) /\ ids \in Seq(Nat) /\ Len(rows) = Len(c.outbox)
      /\ Len(ids) = Len(c.outbox)
  <2>1. \A i \in 1..Len(c.outbox) : c.outbox[i] \in Row
    BY <1>2
  <2>2. \A i \in 1..Len(c.outbox) : c.outbox[i].id \in Nat /\ c.outbox[i].frame \in RowFrame
    BY <2>1, RowFacts
  <2>3. QED
    BY <1>2, <2>2
<1>4. o.frames = session \o rows /\ o.core = [c EXCEPT !.inflight = nones \o ids]
  BY DEF OnOpen
<1> HIDE DEF session, o
<1>5. nones \in Seq({None}) /\ Len(nones) = Len(session) /\ Len(session) \in Nat
  BY <1>1
<1>6. /\ nones \o ids \in Seq(Option(Nat)) /\ Len(nones \o ids) = Len(session) + Len(c.outbox)
      /\ \A i \in 1..Len(session) : (nones \o ids)[i] = None
      /\ \A j \in 1..Len(c.outbox) : (nones \o ids)[Len(session) + j] = c.outbox[j].id
  <2>1. nones \in Seq(Option(Nat)) /\ ids \in Seq(Option(Nat))
    BY <1>3, <1>5 DEF Option
  <2>2. /\ \A i \in 1..Len(session) : nones[i] = None
        /\ \A j \in 1..Len(c.outbox) : ids[j] = c.outbox[j].id
    BY <1>2, <1>5
  <2> HIDE DEF nones, ids
  <2>3. /\ nones \o ids \in Seq(Option(Nat)) /\ Len(nones \o ids) = Len(nones) + Len(ids)
        /\ \A i \in 1..Len(nones) : (nones \o ids)[i] = nones[i]
        /\ \A j \in 1..Len(ids) : (nones \o ids)[Len(nones) + j] = ids[j]
    BY <2>1, ConcatFacts
  <2>4. QED
    BY <1>3, <1>5, <2>2, <2>3
<1>7. /\ session \o rows \in Seq(Frame) /\ Len(session \o rows) = Len(session) + Len(c.outbox)
      /\ \A i \in 1..Len(session) : (session \o rows)[i] \in SessionFrameSet
      /\ \A j \in 1..Len(c.outbox) : (session \o rows)[Len(session) + j] = c.outbox[j].frame
  <2>1. session \in Seq(Frame) /\ rows \in Seq(Frame)
    BY <1>1, <1>3 DEF Frame
  <2>2. /\ \A i \in 1..Len(session) : session[i] \in SessionFrameSet
        /\ \A j \in 1..Len(c.outbox) : rows[j] = c.outbox[j].frame
    BY <1>1, <1>2
  <2> HIDE DEF rows
  <2>3. /\ session \o rows \in Seq(Frame) /\ Len(session \o rows) = Len(session) + Len(rows)
        /\ \A i \in 1..Len(session) : (session \o rows)[i] = session[i]
        /\ \A j \in 1..Len(rows) : (session \o rows)[Len(session) + j] = rows[j]
    BY <2>1, ConcatFacts
  <2>4. QED
    BY <1>3, <2>2, <2>3
<1>8. /\ o.core \in Core /\ o.core.inflight = nones \o ids
      /\ o.core.outbox = c.outbox /\ o.core.seq = c.seq
      /\ o.core.client = c.client /\ o.core.epoch = c.epoch
  <2>1. ASSUME NEW x PROVE LET d == [c EXCEPT !.inflight = x]
                           IN  d.inflight = x /\ d.outbox = c.outbox /\ d.seq = c.seq
                                 /\ d.client = c.client /\ d.epoch = c.epoch
    BY DEF Core
  <2> DEFINE x == nones \o ids
  <2>2. x \in Seq(Option(Nat)) /\ o.core = [c EXCEPT !.inflight = x]
    BY <1>4, <1>6
  <2> HIDE DEF x
  <2>3. [c EXCEPT !.inflight = x] \in Core
    BY <2>2, CoreChanged
  <2>4. LET d == [c EXCEPT !.inflight = x]
        IN  d.inflight = x /\ d.outbox = c.outbox /\ d.seq = c.seq
              /\ d.client = c.client /\ d.epoch = c.epoch
    BY <2>1
  <2>5. QED
    BY <2>2, <2>3, <2>4 DEF x
<1> DEFINE slots == nones \o ids
           frames == session \o rows
<1> HIDE DEF slots, frames
<1>9. ASSUME NEW i \in 1..(Len(session) + Len(c.outbox))
      PROVE  \/ slots[i] = None /\ frames[i] \in SessionFrameSet
             \/ \E j \in 1..Len(c.outbox) : slots[i] = c.outbox[j].id /\ frames[i] = c.outbox[j].frame
  <2>1. CASE i <= Len(session)
    <3>1. i \in 1..Len(session)
      BY <1>2, <1>5, <2>1
    <3>2. QED
      BY <1>6, <1>7, <3>1 DEF slots, frames
  <2>2. CASE ~(i <= Len(session))
    <3> DEFINE j == i - Len(session)
    <3>1. j \in 1..Len(c.outbox) /\ Len(session) + j = i
      BY <1>2, <1>5, <2>2
    <3>2. slots[Len(session) + j] = c.outbox[j].id /\ frames[Len(session) + j] = c.outbox[j].frame
      BY <1>6, <1>7, <3>1 DEF slots, frames
    <3> HIDE DEF j
    <3>3. QED
      BY <3>1, <3>2
  <2>3. QED
    BY <2>1, <2>2
<1>10. /\ o.frames = frames /\ o.core.inflight = slots /\ frames \in Seq(Frame)
       /\ Len(frames) = Len(session) + Len(c.outbox) /\ Len(slots) = Len(frames)
  BY <1>4, <1>6, <1>7, <1>8 DEF slots, frames
<1>11. QED
  BY <1>8, <1>9, <1>10 DEF o

\* A row is queued, and sent if there is a socket: e is what enqueue_write returns for it.
Enqueues(c, e, write, wire, connected) ==
    LET kept == IF Len(c.outbox) >= MaxPending THEN Tail(c.outbox) ELSE c.outbox
    IN  /\ e.core \in Core /\ e.frame \in RowFrame /\ e.id = c.seq
        /\ e.core.seq = c.seq + 1 /\ e.core.client = c.client /\ e.core.epoch = c.epoch
        /\ kept \in Seq(Row)
        /\ e.core.outbox = Append(kept, [id |-> c.seq, frame |-> e.frame])
        /\ e.core.inflight = IF connected THEN Append(c.inflight, c.seq) ELSE c.inflight
        /\ e.frame.client = c.client /\ e.frame.write = write /\ e.frame.wire = wire
        /\ e.dropped = << >> \/ e.dropped = <<Head(c.outbox)>>

\* A write or a subscription that is queued.
LEMMA EnqueueType ==
    ASSUME NEW c \in Core, c.client # None, NEW connected \in BOOLEAN,
           NEW kind, NEW write, NEW dedup \in BOOLEAN,
           \/ kind = "write" /\ write \in Nat /\ dedup
           \/ kind = "subscribe" /\ write = None /\ ~dedup
    PROVE  Enqueues(c, EnqueueWrite(c, kind, write, dedup, connected), write,
                    IF dedup THEN WireId(c, c.seq) ELSE None, connected)
<1> DEFINE e == EnqueueWrite(c, kind, write, dedup, connected)
           frame == [kind |-> kind, write |-> write, client |-> c.client,
                     wire |-> IF dedup THEN WireId(c, c.seq) ELSE None]
           kept == IF Len(c.outbox) >= MaxPending THEN Tail(c.outbox) ELSE c.outbox
           slots == IF connected THEN Append(c.inflight, c.seq) ELSE c.inflight
           rows == Append(kept, [id |-> c.seq, frame |-> frame])
           next == [c EXCEPT !.seq = c.seq + 1, !.outbox = rows, !.inflight = slots]
<1>1. /\ c.client \in Clients /\ c.epoch \in Nat /\ c.seq \in Nat
      /\ c.outbox \in Seq(Row) /\ c.inflight \in Seq(Option(Nat))
  BY CoreFields DEF Option
<1>2. WireId(c, c.seq) \in Nat
  <2>1. IdRange \in Nat \ {0}
    BY SyncClientAssumption
  <2>2. c.epoch * IdRange \in Nat /\ c.seq % IdRange \in Nat
    BY <1>1, <2>1
  <2>3. QED
    BY <2>2 DEF WireId
<1>3. frame \in RowFrame
  <2>1. CASE kind = "write" /\ write \in Nat /\ dedup
    BY <1>1, <1>2, <2>1 DEF RowFrame
  <2>2. CASE kind = "subscribe" /\ write = None /\ ~dedup
    BY <1>1, <2>2 DEF RowFrame
  <2>3. QED
    BY <2>1, <2>2
<1>4. kept \in Seq(Row)
  <2>1. CASE Len(c.outbox) >= MaxPending
    <3>1. MaxPending \in Nat \ {0}
      BY SyncClientAssumption
    <3>2. c.outbox # << >>
      BY <1>1, <2>1, <3>1
    <3>3. Tail(c.outbox) \in Seq(Row)
      BY <1>1, <3>2
    <3>4. QED
      BY <2>1, <3>3
  <2>2. CASE ~(Len(c.outbox) >= MaxPending)
    BY <1>1, <2>2
  <2>3. QED
    BY <2>1, <2>2
<1>5. slots \in Seq(Option(Nat))
  BY <1>1 DEF Option
<1>6. /\ e.core = next /\ e.frame = frame /\ e.id = c.seq
      /\ e.dropped = << >> \/ e.dropped = <<Head(c.outbox)>>
  BY Zenon DEF EnqueueWrite
<1>7. /\ frame.client = c.client /\ frame.write = write
      /\ frame.wire = IF dedup THEN WireId(c, c.seq) ELSE None
  OBVIOUS
<1> HIDE DEF frame, kept, slots, e
<1>8. rows \in Seq(Row)
  <2>1. [id |-> c.seq, frame |-> frame] \in Row
    BY <1>1, <1>3, RowFacts
  <2>2. QED
    BY <1>4, <2>1
<1> HIDE DEF rows
<1>9. /\ next \in Core /\ next.seq = c.seq + 1 /\ next.outbox = rows /\ next.inflight = slots
      /\ next.client = c.client /\ next.epoch = c.epoch
  <2> DEFINE x == c.seq + 1
  <2>1. x \in Nat
    BY <1>1
  <2>2. next = [c EXCEPT !.seq = x, !.outbox = rows, !.inflight = slots]
    OBVIOUS
  <2> HIDE DEF x, next
  <2>3. next \in Core
    BY <1>5, <1>8, <2>1, <2>2 DEF Core
  <2>4. /\ next.seq = x /\ next.outbox = rows /\ next.inflight = slots
        /\ next.client = c.client /\ next.epoch = c.epoch
    BY <2>2 DEF Core
  <2>5. QED
    BY <2>3, <2>4 DEF x
<1> HIDE DEF next
<1>10. QED
  BY <1>3, <1>4, <1>6, <1>7, <1>9 DEF e, rows, slots, kept, Enqueues

\* A write gets the next wire id.
LEMMA WriteEnqueues ==
    ASSUME NEW c \in Core, c.client # None, NEW connected \in BOOLEAN, NEW write \in Nat
    PROVE  Enqueues(c, EnqueueWrite(c, "write", write, TRUE, connected), write,
                    WireId(c, c.seq), connected)
<1>1. Enqueues(c, EnqueueWrite(c, "write", write, TRUE, connected), write,
               IF TRUE THEN WireId(c, c.seq) ELSE None, connected)
  <2>1. TRUE \in BOOLEAN /\ write \in Nat
    OBVIOUS
  <2>2. QED
    BY <2>1, EnqueueType, Zenon
<1>2. QED
  BY <1>1

\* A subscription gets none.
LEMMA SubscribeEnqueues ==
    ASSUME NEW c \in Core, c.client # None, NEW connected \in BOOLEAN
    PROVE  Enqueues(c, EnqueueWrite(c, "subscribe", None, FALSE, connected), None, None, connected)
<1>1. Enqueues(c, EnqueueWrite(c, "subscribe", None, FALSE, connected), None,
               IF FALSE THEN WireId(c, c.seq) ELSE None, connected)
  <2>1. FALSE \in BOOLEAN
    OBVIOUS
  <2>2. QED
    BY <2>1, EnqueueType, Zenon
<1>2. QED
  BY <1>1

\* What restore_outbox makes of a client.
Restored(c, d, frames) ==
    /\ d \in Core /\ d.seq = c.seq + Len(frames)
    /\ d.client = c.client /\ d.epoch = c.epoch /\ d.inflight = c.inflight
    /\ Len(d.outbox) = Len(frames) + Len(c.outbox)
    /\ \A i \in 1..Len(frames) : d.outbox[i] = [id |-> c.seq + i - 1, frame |-> frames[i]]
    /\ \A j \in 1..Len(c.outbox) : d.outbox[Len(frames) + j] = c.outbox[j]

\* The rows of an earlier session, renumbered, come first.
LEMMA RestoreType ==
    ASSUME NEW c \in Core, NEW frames \in Seq(RowFrame), NEW rows,
           rows = [i \in 1..Len(frames) |-> [id |-> i, frame |-> frames[i]]]
    PROVE  Restored(c, RestoreOutbox(c, rows), frames)
<1> DEFINE n == Len(frames)
           first == [i \in 1..n |-> [id |-> c.seq + i - 1, frame |-> frames[i]]]
           d == RestoreOutbox(c, rows)
<1>1. c.seq \in Nat /\ c.outbox \in Seq(Row)
  BY CoreFields
<1>2. n \in Nat /\ \A i \in 1..n : frames[i] \in RowFrame
  OBVIOUS
<1>3. /\ rows \in Seq([id : Nat, frame : RowFrame]) /\ Len(rows) = n
      /\ \A i \in 1..n : rows[i].frame = frames[i]
  BY <1>2
<1>4. first \in Seq(Row) /\ Len(first) = n
  <2>1. \A i \in 1..n : c.seq + i - 1 \in Nat
    BY <1>1, <1>2
  <2>2. \A i \in 1..n : [id |-> c.seq + i - 1, frame |-> frames[i]] \in Row
    BY <1>2, <2>1, RowFacts, Zenon
  <2>3. QED
    BY <1>2, <2>2
<1>5. \A i \in 1..n : first[i] = [id |-> c.seq + i - 1, frame |-> frames[i]]
  OBVIOUS
<1>6. d = [c EXCEPT !.seq = c.seq + n, !.outbox = first \o c.outbox]
  <2>1. [i \in 1..Len(rows) |-> [id |-> c.seq + i - 1, frame |-> rows[i].frame]] = first
    BY <1>3, Zenon
  <2>2. QED
    BY <1>3, <2>1 DEF RestoreOutbox
<1> DEFINE m == c.seq + n
           all == first \o c.outbox
<1>7. /\ all \in Seq(Row) /\ Len(all) = n + Len(c.outbox)
      /\ \A i \in 1..n : all[i] = first[i]
      /\ \A j \in 1..Len(c.outbox) : all[n + j] = c.outbox[j]
  <2> HIDE DEF first, n
  <2>1. /\ first \o c.outbox \in Seq(Row) /\ Len(first \o c.outbox) = Len(first) + Len(c.outbox)
        /\ \A i \in 1..Len(first) : (first \o c.outbox)[i] = first[i]
        /\ \A j \in 1..Len(c.outbox) : (first \o c.outbox)[Len(first) + j] = c.outbox[j]
    <3>1. first \in Seq(Row) /\ c.outbox \in Seq(Row)
      BY <1>1, <1>4
    <3>2. QED
      BY ONLY <3>1, ConcatFacts
  <2>2. QED
    BY <1>4, <2>1
<1>8. m \in Nat /\ d = [c EXCEPT !.seq = m, !.outbox = all]
  BY <1>1, <1>2, <1>6
<1> HIDE DEF d, m, all, first
<1>9. /\ d \in Core /\ d.seq = m /\ d.outbox = all
      /\ d.client = c.client /\ d.epoch = c.epoch /\ d.inflight = c.inflight
  <2>1. d \in Core
    BY <1>7, <1>8 DEF Core
  <2>2. /\ d.seq = m /\ d.outbox = all
        /\ d.client = c.client /\ d.epoch = c.epoch /\ d.inflight = c.inflight
    BY <1>8 DEF Core
  <2>3. QED
    BY <2>1, <2>2
<1>10. QED
  BY <1>5, <1>7, <1>9 DEF d, m, Restored

\* Sign-out empties the outbox.
LEMMA ClearType ==
    ASSUME NEW c \in Core
    PROVE  LET d == ClearOutbox(c)
           IN  /\ d \in Core /\ d.outbox = << >> /\ d.inflight = << >> /\ d.seq = c.seq
               /\ d.client = c.client /\ d.epoch = c.epoch
<1> DEFINE d == ClearOutbox(c)
<1>1. d = [c EXCEPT !.outbox = << >>, !.inflight = << >>]
  BY DEF ClearOutbox
<1> HIDE DEF d
<1>2. << >> \in Seq(Row) /\ << >> \in Seq(Option(Nat))
  OBVIOUS
<1>3. d \in Core
  BY <1>1, <1>2 DEF Core
<1>4. /\ d.outbox = << >> /\ d.inflight = << >> /\ d.seq = c.seq
      /\ d.client = c.client /\ d.epoch = c.epoch
  BY <1>1 DEF Core
<1>5. QED
  BY <1>3, <1>4 DEF d

\* The places of the rows an answer leaves.
Others(c) == {i \in DOMAIN c.outbox : c.outbox[i].id # Head(c.inflight)}

\* An answer takes the oldest slot, and its row.
LEMMA AckType ==
    ASSUME NEW c \in Core, c.inflight # << >>
    PROVE  LET a == AckReply(c)
           IN  /\ a.core \in Core /\ a.core.outbox = Kept(c.outbox, Others(c))
               /\ a.core.inflight = Tail(c.inflight) /\ a.core.seq = c.seq
               /\ a.core.client = c.client /\ a.core.epoch = c.epoch
               /\ a.retired = Head(c.inflight)
<1> DEFINE a == AckReply(c)
           rows == Kept(c.outbox, Others(c))
           slots == Tail(c.inflight)
<1>1. c.outbox \in Seq(Row) /\ c.inflight \in Seq(Option(Nat))
  BY CoreFields
<1>2. rows \in Seq(Row)
  BY <1>1, KeptElements
<1>3. slots \in Seq(Option(Nat))
  BY <1>1
<1>4. a.core = [c EXCEPT !.inflight = slots, !.outbox = rows] /\ a.retired = Head(c.inflight)
  BY Zenon DEF AckReply, Others
<1> HIDE DEF a, rows, slots
<1>5. a.core \in Core
  BY <1>2, <1>3, <1>4 DEF Core
<1>6. /\ a.core.outbox = rows /\ a.core.inflight = slots /\ a.core.seq = c.seq
      /\ a.core.client = c.client /\ a.core.epoch = c.epoch
  BY <1>4 DEF Core
<1>7. QED
  BY <1>4, <1>5, <1>6 DEF a, rows, slots

\* Without a slot an answer changes nothing.
LEMMA AckNothing ==
    ASSUME NEW c, c.inflight = << >>
    PROVE  AckReply(c).core = c /\ AckReply(c).retired = None
BY DEF AckReply

-----------------------------------------------------------------------------
(* A store in the order of its numbers *)

\* For every place there is a number with so many before it.
LEMMA NthExists ==
    ASSUME NEW S \in SUBSET Nat, IsFiniteSet(S)
    PROVE  /\ Cardinality(S) \in Nat
           /\ \A i \in 1..Cardinality(S) :
                Nth(S, i) \in S /\ Cardinality({m \in S : m < Nth(S, i)}) = i - 1
<1> DEFINE before(n) == {m \in S : m < n}
           size == Cardinality(S)
           T == {i \in 0..size : i = size \/ \E n \in S : Cardinality(before(n)) = i}
<1>1. size \in Nat
  BY FS_CardinalityType
<1>2. 0 \in T
  <2>1. CASE S = {}
    <3>1. size = 0
      BY <2>1, FS_EmptySet
    <3>2. QED
      BY <3>1
  <2>2. CASE S # {}
    <3>1. PICK n \in S : \A y \in S : n <= y
      BY <2>2, LeastElement
    <3>2. before(n) = {}
      <4>1. \A m \in S : ~(m < n)
        BY <3>1
      <4>2. QED
        BY <4>1, Zenon
    <3>3. Cardinality(before(n)) = 0
      BY <3>2, FS_EmptySet
    <3>4. 0 \in 0..size
      BY <1>1
    <3>5. QED
      BY <3>3, <3>4
  <2>3. QED
    BY <2>1, <2>2
<1>3. ASSUME NEW i \in 1..size, i - 1 \in T PROVE i \in T
  <2>1. i - 1 # size /\ i \in 0..size
    BY <1>1
  <2>2. PICK n \in S : Cardinality(before(n)) = i - 1
    BY <1>3, <2>1
  <2> DEFINE upto == {m \in S : m <= n}
             above == {m \in S : m > n}
  <2>3. IsFiniteSet(before(n)) /\ n \notin before(n) /\ upto = before(n) \cup {n}
    <3>a. \A m \in S : (m <= n <=> m < n \/ m = n) /\ ~(n < n)
      OBVIOUS
    <3>1. before(n) \subseteq S /\ n \notin before(n) /\ upto = before(n) \cup {n}
      BY <3>a, Zenon
    <3>2. QED
      BY <3>1, FS_Subset
  <2>4. Cardinality(upto) = i /\ IsFiniteSet(upto)
    <3>1. Cardinality(before(n) \cup {n}) = Cardinality(before(n)) + 1
      BY <2>3, FS_AddElement
    <3>2. IsFiniteSet(before(n) \cup {n})
      BY <2>3, FS_AddElement
    <3>3. QED
      BY <2>2, <2>3, <3>1, <3>2
  <2>5. CASE i = size
    BY <2>1, <2>5
  <2>6. CASE i # size
    <3>1. above # {}
      <4>1. SUFFICES ASSUME above = {} PROVE FALSE
        OBVIOUS
      <4>a. \A m \in S : m > n \/ m <= n
        OBVIOUS
      <4>2. upto = S
        BY <4>1, <4>a, Zenon
      <4>3. QED
        BY <2>4, <2>6, <4>2
    <3>2. PICK m \in above : \A y \in above : m <= y
      <4>1. above \in SUBSET Nat
        OBVIOUS
      <4>2. QED
        BY <3>1, <4>1, LeastElement
    <3>3. m \in S /\ before(m) = upto
      <4>1. m \in S /\ m > n
        BY <3>2
      <4>2. \A y \in S : y > n => m <= y
        BY <3>2
      <4>3. \A y \in S : y < m <=> y <= n
        BY <4>1, <4>2
      <4>4. QED
        BY <4>1, <4>3, Zenon
    <3>4. Cardinality(before(m)) = i
      BY <2>4, <3>3
    <3>5. QED
      BY <2>1, <3>3, <3>4
  <2>7. QED
    BY <2>5, <2>6
<1> HIDE DEF T
<1>4. \A i \in 0..size : i \in T
  BY <1>1, <1>2, <1>3, UpTo
<1>5. ASSUME NEW i \in 1..size
      PROVE  Nth(S, i) \in S /\ Cardinality({m \in S : m < Nth(S, i)}) = i - 1
  <2>1. i - 1 \in 0..size /\ i - 1 # size
    BY <1>1
  <2>2. i - 1 \in T
    BY <1>4, <2>1, Zenon
  <2>3. \E n \in S : Cardinality({m \in S : m < n}) = i - 1
    BY <2>1, <2>2 DEF T
  <2>4. QED
    BY <2>3, Zenon DEF Nth
<1>6. QED
  BY <1>1, <1>5

\* The content of a store is a sequence of what is in it.
LEMMA InOrderType ==
    ASSUME NEW F, NEW f, f \in [DOMAIN f -> F], DOMAIN f \in SUBSET Nat, IsFiniteSet(DOMAIN f)
    PROVE  /\ InOrder(f) \in Seq(F)
           /\ \A i \in 1..Len(InOrder(f)) : \E x \in DOMAIN f : InOrder(f)[i] = f[x]
<1> DEFINE D == DOMAIN f
           n == Cardinality(D)
           s == [i \in 1..n |-> f[Nth(D, i)]]
<1>1. n \in Nat /\ \A i \in 1..n : Nth(D, i) \in D
  BY NthExists
<1>2. InOrder(f) = s
  BY DEF InOrder
<1>3. \A i \in 1..n : f[Nth(D, i)] \in F
  BY <1>1
<1>4. s \in Seq(F) /\ Len(s) = n
  BY <1>1, <1>3
<1>5. \A i \in 1..n : s[i] = f[Nth(D, i)]
  OBVIOUS
<1> HIDE DEF s, n
<1>6. QED
  BY <1>1, <1>2, <1>4, <1>5

-----------------------------------------------------------------------------
(* Types *)

\* One element of a sequence is replaced.
LEMMA SeqUpdate ==
    ASSUME NEW S, NEW s \in Seq(S), NEW n, NEW x, n \in DOMAIN s => x \in S
    PROVE  LET r == [s EXCEPT ![n] = x]
           IN  /\ r \in Seq(S) /\ Len(r) = Len(s) /\ DOMAIN r = DOMAIN s
               /\ \A i \in DOMAIN s : r[i] = IF i = n THEN x ELSE s[i]
<1> DEFINE r == [s EXCEPT ![n] = x]
           v(i) == IF i = n THEN x ELSE s[i]
<1>1. Len(s) \in Nat /\ DOMAIN s = 1..Len(s)
  OBVIOUS
<1>2. r = [i \in DOMAIN s |-> IF i = n THEN x ELSE s[i]]
  BY Zenon
<1>3. \A i \in 1..Len(s) : v(i) \in S
  BY <1>1
<1>a. r = [i \in 1..Len(s) |-> v(i)]
  BY <1>1, <1>2
<1>4. r \in Seq(S) /\ Len(r) = Len(s)
  <2> HIDE DEF v, r
  <2>1. QED
    BY <1>1, <1>3, <1>a
<1>5. DOMAIN r = DOMAIN s /\ \A i \in DOMAIN s : r[i] = IF i = n THEN x ELSE s[i]
  BY <1>2
<1>6. QED
  BY <1>4, <1>5

\* A sequence of well-formed transactions.
LEMMA TasksMade ==
    ASSUME NEW S, NEW s \in Seq(S), \A i \in 1..Len(s) : TaskOK(s[i])
    PROVE  TasksOK(s)
<1>1. \A i \in 1..Len(s) : s[i] \in ToSet(s)
  BY DEF ToSet
<1>2. s \in Seq(ToSet(s))
  BY <1>1
<1>3. QED
  BY <1>2 DEF TasksOK

\* Transactions are asked for and committed.
LEMMA TasksAdded ==
    ASSUME NEW s, TasksOK(s), NEW r, TasksOK(r)
    PROVE  /\ TasksOK(s \o r)
           /\ s # << >> => TasksOK(Tail(s))
<1> DEFINE S == ToSet(s) \cup ToSet(r)
<1>1. s \in Seq(ToSet(s)) /\ r \in Seq(ToSet(r))
  BY DEF TasksOK
<1>2. s \in Seq(S) /\ r \in Seq(S)
  BY <1>1
<1>3. /\ \A i \in 1..Len(s) : TaskOK(s[i])
      /\ \A i \in 1..Len(r) : TaskOK(r[i])
  BY <1>1 DEF TasksOK
<1> HIDE DEF S
<1>4. TasksOK(s \o r)
  <2>1. /\ s \o r \in Seq(S) /\ Len(s \o r) = Len(s) + Len(r)
        /\ \A i \in 1..Len(s) : (s \o r)[i] = s[i]
        /\ \A j \in 1..Len(r) : (s \o r)[Len(s) + j] = r[j]
    BY <1>2, ConcatFacts
  <2>2. ASSUME NEW i \in 1..Len(s \o r) PROVE TaskOK((s \o r)[i])
    <3>1. CASE i <= Len(s)
      <4>1. i \in 1..Len(s)
        BY <1>2, <2>1, <3>1
      <4>2. QED
        BY <1>3, <2>1, <4>1
    <3>2. CASE ~(i <= Len(s))
      <4> DEFINE j == i - Len(s)
      <4>1. j \in 1..Len(r) /\ Len(s) + j = i
        BY <1>2, <2>1, <3>2
      <4>2. TaskOK((s \o r)[Len(s) + j])
        BY <1>3, <2>1, <4>1
      <4> HIDE DEF j
      <4>3. QED
        BY <4>1, <4>2
    <3>3. QED
      BY <3>1, <3>2
  <2>3. QED
    BY <2>1, <2>2, TasksMade
<1>5. ASSUME s # << >> PROVE TasksOK(Tail(s))
  <2>1. Tail(s) \in Seq(S)
    BY <1>2, <1>5
  <2>2. \A i \in 1..Len(Tail(s)) : i + 1 \in 1..Len(s) /\ Tail(s)[i] = s[i + 1]
    BY <1>2, <1>5
  <2>3. \A i \in 1..Len(Tail(s)) : TaskOK(Tail(s)[i])
    BY <1>3, <2>2
  <2>4. QED
    BY <2>1, <2>3, TasksMade
<1>6. QED
  BY <1>4, <1>5

\* The transactions the adapter asks for.
LEMMA TaskMade ==
    /\ TasksOK(<< >>) /\ TasksOK(<<ClearAll>>)
    /\ \A id : TasksOK(<<DeleteRow(id)>>)
    /\ \A id, w : TasksOK(<<AppendLog(id, w)>>)
    /\ \A id \in Nat : \A f \in RowFrame : TasksOK(<<PutRow(id, f)>>)
<1>1. ASSUME NEW x, TaskOK(x) PROVE TasksOK(<<x>>)
  <2>1. <<x>> \in Seq({x}) /\ Len(<<x>>) = 1 /\ <<x>>[1] = x
    OBVIOUS
  <2>2. \A i \in 1..Len(<<x>>) : TaskOK(<<x>>[i])
    BY <1>1, <2>1
  <2>3. QED
    BY <2>1, <2>2, TasksMade
<1>2. TasksOK(<< >>)
  <2>1. << >> \in Seq({}) /\ Len(<< >>) = 0
    OBVIOUS
  <2>2. \A i \in 1..Len(<< >>) : TaskOK(<< >>[i])
    BY <2>1
  <2>3. QED
    BY <2>1, <2>2, TasksMade
<1>3. TaskOK(ClearAll)
  BY DEF TaskOK, ClearAll
<1>4. \A id : TaskOK(DeleteRow(id))
  BY DEF TaskOK, DeleteRow
<1>5. \A id, w : TaskOK(AppendLog(id, w))
  BY DEF TaskOK, AppendLog
<1>6. \A id \in Nat : \A f \in RowFrame : TaskOK(PutRow(id, f))
  BY DEF TaskOK, PutRow
<1>7. QED
  BY <1>1, <1>2, <1>3, <1>4, <1>5, <1>6

\* The transactions that follow a write.
LEMMA StoreRowType ==
    ASSUME NEW c, NEW e, e.id \in Nat, e.frame \in RowFrame,
           e.dropped = << >> \/ e.dropped = <<Head(c.outbox)>>
    PROVE  /\ TasksOK(StoreRow(e))
           /\ \A i \in DOMAIN StoreRow(e) :
                /\ StoreRow(e)[i].kind # "append"
                /\ StoreRow(e)[i].kind = "put" => StoreRow(e)[i].frame = e.frame /\ StoreRow(e)[i].id = e.id
<1> DEFINE gone == [i \in DOMAIN e.dropped |-> DeleteRow(e.dropped[i].id)]
           put == PutRow(e.id, e.frame)
<1>1. StoreRow(e) = gone \o <<put>>
  BY DEF StoreRow
<1>2. put.kind = "put" /\ put.frame = e.frame /\ put.id = e.id /\ TasksOK(<<put>>)
  BY TaskMade DEF PutRow
<1>3. CASE e.dropped = << >>
  <2>1. gone = << >>
    BY <1>3
  <2> HIDE DEF put
  <2>a. << >> \o <<put>> = <<put>>
    OBVIOUS
  <2>2. StoreRow(e) = <<put>>
    BY <1>1, <2>1, <2>a
  <2>3. QED
    BY <1>2, <2>2
<1>4. CASE e.dropped = <<Head(c.outbox)>>
  <2> DEFINE del == DeleteRow(Head(c.outbox).id)
  <2>1. gone = <<del>>
    BY <1>4
  <2>2. StoreRow(e) = <<del>> \o <<put>>
    BY <1>1, <2>1
  <2>3. del.kind = "delete" /\ TasksOK(<<del>>)
    BY TaskMade DEF DeleteRow
  <2>4. TasksOK(<<del>> \o <<put>>)
    BY <1>2, <2>3, TasksAdded
  <2> HIDE DEF put, del
  <2>5. <<del>> \in Seq({del, put}) /\ <<put>> \in Seq({del, put}) /\ Len(<<del>>) = 1
        /\ Len(<<put>>) = 1
    OBVIOUS
  <2>6. <<del>> \o <<put>> \in Seq({del, put})
    BY <2>5, ConcatFacts
  <2>7. \A i \in DOMAIN StoreRow(e) : StoreRow(e)[i] = del \/ StoreRow(e)[i] = put
    BY <2>2, <2>6
  <2>8. QED
    BY <1>2, <2>2, <2>3, <2>4, <2>7
<1>5. QED
  BY <1>3, <1>4

\* A client that is left alone keeps its type.
LEMMA ClientSame == ClientTypes /\ UNCHANGED client => ClientTypes'
BY DEF ClientTypes, client
\* So do transactions on the way,
LEMMA TaskSame == TaskTypes /\ UNCHANGED tasks => TaskTypes'
BY DEF TaskTypes
\* the disk,
LEMMA DiskSame == DiskTypes /\ UNCHANGED idb => DiskTypes'
BY DEF DiskTypes
\* the sockets,
LEMMA NetworkSame == NetworkTypes /\ UNCHANGED <<up, down>> => NetworkTypes'
BY DEF NetworkTypes
\* the server,
LEMMA ServerSame == ServerTypes /\ UNCHANGED <<mark, applied>> => ServerTypes'
BY DEF ServerTypes
\* and the history.
LEMMA HistorySame == HistoryTypes /\ UNCHANGED <<scenario, clock, issued>> => HistoryTypes'
BY DEF HistoryTypes
\* The sockets belong to the same clients when none is opened or closed.
LEMMA SocketsSame ==
    ASSUME SocketsOK, UNCHANGED <<conn, phase>>, DOMAIN up \subseteq DOMAIN up'
    PROVE  SocketsOK'
BY DEF SocketsOK, Connected, Ready

\* What is on the way to a client changes.
LEMMA DownSet ==
    ASSUME NetworkTypes, NEW n, NEW x \in Seq(Message), down' = [down EXCEPT ![n] = x]
    PROVE  /\ down' \in Seq(Seq(Message)) /\ Len(down') = Len(down) /\ DOMAIN down' = DOMAIN down
           /\ \A i \in DOMAIN down : down'[i] = IF i = n THEN x ELSE down[i]
           /\ UNCHANGED up => NetworkTypes'
<1> DEFINE L == Seq(Message)
<1>1. down \in Seq(L) /\ x \in L
  BY DEF NetworkTypes
<1> HIDE DEF L
<1>2. down \in [1..Len(down) -> L] /\ Len(down) \in Nat /\ DOMAIN down = 1..Len(down)
  BY <1>1
<1>3. /\ down' \in [1..Len(down) -> L]
      /\ \A i \in DOMAIN down : down'[i] = IF i = n THEN x ELSE down[i]
  BY <1>1, <1>2
<1>4. down' \in Seq(L) /\ Len(down') = Len(down) /\ DOMAIN down' = DOMAIN down
  BY <1>2, <1>3
<1>5. QED
  BY <1>3, <1>4 DEF NetworkTypes, L

\* What is on the way to the server changes.
LEMMA UpSet ==
    ASSUME NetworkTypes, NEW n, NEW x \in Seq(Frame), up' = [up EXCEPT ![n] = x]
    PROVE  /\ up' \in Seq(Seq(Frame)) /\ Len(up') = Len(up) /\ DOMAIN up' = DOMAIN up
           /\ \A i \in DOMAIN up : up'[i] = IF i = n THEN x ELSE up[i]
           /\ UNCHANGED down => NetworkTypes'
<1> DEFINE L == Seq(Frame)
<1>1. up \in Seq(L) /\ x \in L
  BY DEF NetworkTypes
<1> HIDE DEF L
<1>2. up \in [1..Len(up) -> L] /\ Len(up) \in Nat /\ DOMAIN up = 1..Len(up)
  BY <1>1
<1>3. /\ up' \in [1..Len(up) -> L]
      /\ \A i \in DOMAIN up : up'[i] = IF i = n THEN x ELSE up[i]
  BY <1>1, <1>2
<1>4. up' \in Seq(L) /\ Len(up') = Len(up) /\ DOMAIN up' = DOMAIN up
  BY <1>2, <1>3
<1>5. QED
  BY <1>3, <1>4 DEF NetworkTypes, L

\* The client of one tab changes, and nothing else of it.
LEMMA CoreSet ==
    ASSUME ClientTypes, NEW t \in Tabs, NEW x \in Core, x.client # None,
           core' = [core EXCEPT ![t] = x], UNCHANGED <<phase, conn, waiters, channel>>
    PROVE  ClientTypes'
<1>1. core' \in [Tabs -> Core] /\ \A u \in Tabs : core'[u] = IF u = t THEN x ELSE core[u]
  BY DEF ClientTypes
<1>2. \A u \in Tabs : phase[u] # "closed" => core'[u].client # None
  BY <1>1 DEF ClientTypes
<1>3. QED
  BY <1>1, <1>2 DEF ClientTypes

\* The phase of one tab changes, with its client, outside a connection.
LEMMA PhaseSet ==
    ASSUME ClientTypes, SocketsOK, NEW t \in Tabs, ~Ready(t), NEW x \in Core, x.client # None,
           NEW p \in Phases, core' = [core EXCEPT ![t] = x], phase' = [phase EXCEPT ![t] = p],
           UNCHANGED <<conn, waiters, channel, up>>
    PROVE  ClientTypes' /\ SocketsOK'
<1>1. core' \in [Tabs -> Core] /\ \A u \in Tabs : core'[u] = IF u = t THEN x ELSE core[u]
  BY DEF ClientTypes
<1>2. phase' \in [Tabs -> Phases] /\ \A u \in Tabs : phase'[u] = IF u = t THEN p ELSE phase[u]
  BY DEF ClientTypes
<1>3. \A u \in Tabs : phase'[u] # "closed" => core'[u].client # None
  BY <1>1, <1>2 DEF ClientTypes
<1>4. \A u \in Tabs : conn[u] # 0 => phase'[u] = "ready"
  BY <1>2 DEF SocketsOK, Connected, Ready
<1>5. ClientTypes'
  BY <1>1, <1>2, <1>3 DEF ClientTypes
<1>6. SocketsOK'
  BY <1>4 DEF SocketsOK, Connected, Ready
<1>7. QED
  BY <1>5, <1>6

\* The initial values have their types.
LEMMA TypesInit == Init => Types /\ SocketsOK
<1> SUFFICES ASSUME Init PROVE Types /\ SocketsOK
  OBVIOUS
<1>1. ClientTypes
  <2>1. NewClient(None, FALSE) \in Core
    BY NewClientType DEF Option
  <2>2. core \in [Tabs -> Core]
    BY <2>1 DEF Init
  <2>3. /\ phase \in [Tabs -> Phases] /\ conn \in [Tabs -> Nat]
        /\ waiters \in [Tabs -> Seq(Option(Nat))] /\ channel \in [Tabs -> BOOLEAN]
    BY DEF Init, Phases
  <2>4. \A t \in Tabs : phase[t] = "closed"
    BY DEF Init
  <2>5. QED
    BY <2>2, <2>3, <2>4 DEF ClientTypes
<1>2. TaskTypes
  BY TaskMade DEF Init, TaskTypes
<1>3. DiskTypes
  <2>1. /\ idb = [client |-> None, epoch |-> 0, rows |-> << >>, wal |-> << >>]
        /\ idb.client = None /\ idb.epoch = 0 /\ idb.rows = << >> /\ idb.wal = << >>
    BY DEF Init
  <2>2. DOMAIN idb.rows = {}
    BY <2>1
  <2>3. IsFiniteSet({})
    BY FS_EmptySet
  <2>4. idb.rows \in [DOMAIN idb.rows -> RowFrame]
    BY <2>1
  <2>5. QED
    BY <2>1, <2>2, <2>3, <2>4 DEF DiskTypes, Option
<1>4. NetworkTypes /\ ServerTypes /\ HistoryTypes
  BY DEF Init, NetworkTypes, ServerTypes, HistoryTypes
<1>5. SocketsOK
  BY DEF Init, SocketsOK, Connected
<1>6. QED
  BY <1>1, <1>2, <1>3, <1>4, <1>5 DEF Types

\* A tab is opened.
LEMMA OpenTypes ==
    ASSUME Types, SocketsOK, NEW t \in Tabs, NEW p \in Phases, Opened(t, p)
    PROVE  Types' /\ SocketsOK'
<1> USE DEF Types
<1>1. Setup.password \in BOOLEAN
  BY EdgeClientAssumption DEF Setup, HistoryTypes
<1>2. FreshClient \in Clients
  BY DEF FreshClient, Clients, ServerTypes
<1>3. NewClient(FreshClient, Setup.password) \in Core
  BY <1>1, <1>2, NewClientType DEF Option
<1>4. NewClient(FreshClient, Setup.password).client # None
  BY <1>2, NoneFacts DEF NewClient, Clients
<1>5. ClientTypes' /\ SocketsOK'
  <2>1. phase[t] = "closed" /\ ~Ready(t)
    BY DEF Opened, Ready
  <2>2. /\ core' = [core EXCEPT ![t] = NewClient(FreshClient, Setup.password)]
        /\ phase' = [phase EXCEPT ![t] = p] /\ UNCHANGED <<conn, waiters, channel, up>>
    BY DEF Opened, network
  <2>3. QED
    BY <1>3, <1>4, <2>1, <2>2, PhaseSet
<1>6. ServerTypes'
  BY DEF Opened, ServerTypes, Option
<1>7. TaskTypes' /\ DiskTypes'
  BY TaskSame, DiskSame DEF Opened, browser
<1>8. NetworkTypes' /\ HistoryTypes'
  BY NetworkSame, HistorySame DEF Opened, network, bounds, history
<1>9. QED
  BY <1>5, <1>6, <1>7, <1>8

\* A tab takes the identity on disk, or leaves its own there.
LEMMA AdoptIdentityTypes ==
    ASSUME Types, SocketsOK, NEW t \in Tabs, AdoptIdentity(t)
    PROVE  Types' /\ SocketsOK'
<1> USE DEF Types
<1>1. phase[t] = "identity" /\ ~Ready(t) /\ core[t] \in Core /\ core[t].client # None
      /\ core[t].client \in Option(Clients)
  BY CoreFields DEF AdoptIdentity, Ready, ClientTypes
<1>2. /\ phase' = [phase EXCEPT ![t] = "epoch"] /\ "epoch" \in Phases
      /\ UNCHANGED <<conn, waiters, channel, up>>
  BY DEF AdoptIdentity, network, Phases
<1>3. CASE idb.client # None
  <2> DEFINE x == AdoptClientId(core[t], idb.client)
  <2>1. core' = [core EXCEPT ![t] = x] /\ UNCHANGED idb
    BY <1>3 DEF AdoptIdentity
  <2>2. x \in Core
    BY <1>1, CoreChanged DEF AdoptClientId, DiskTypes
  <2>3. x.client # None
    BY <1>1, <1>3 DEF AdoptClientId, Core
  <2> HIDE DEF x
  <2>4. ClientTypes' /\ SocketsOK'
    BY <1>1, <1>2, <2>1, <2>2, <2>3, PhaseSet
  <2>5. DiskTypes'
    BY <2>1, DiskSame
  <2>6. QED
    BY <2>4, <2>5, TaskSame, NetworkSame, ServerSame, HistorySame
       DEF AdoptIdentity, network, server, bounds, history
<1>4. CASE ~(idb.client # None)
  <2>1. idb' = [idb EXCEPT !.client = core[t].client] /\ UNCHANGED core
    BY <1>4 DEF AdoptIdentity
  <2>2. core' = [core EXCEPT ![t] = core[t]]
    BY <2>1 DEF ClientTypes
  <2>3. ClientTypes' /\ SocketsOK'
    BY <1>1, <1>2, <2>2, PhaseSet
  <2>4. DiskTypes'
    BY <1>1, <2>1 DEF DiskTypes
  <2>5. QED
    BY <2>3, <2>4, TaskSame, NetworkSame, ServerSame, HistorySame
       DEF AdoptIdentity, network, server, bounds, history
<1>5. QED
  BY <1>3, <1>4

\* It reads its epoch.
LEMMA ReadEpochTypes ==
    ASSUME Types, SocketsOK, NEW t \in Tabs, ReadEpoch(t)
    PROVE  Types' /\ SocketsOK'
<1> USE DEF Types
<1> DEFINE x == [core[t] EXCEPT !.epoch = idb.epoch + 1]
<1>1. phase[t] = "epoch" /\ ~Ready(t) /\ core[t] \in Core /\ core[t].client # None
  BY DEF ReadEpoch, Ready, ClientTypes
<1>2. /\ phase' = [phase EXCEPT ![t] = "bump"] /\ "bump" \in Phases
      /\ UNCHANGED <<conn, waiters, channel, up>>
  BY DEF ReadEpoch, network, Phases
<1>3. core' = [core EXCEPT ![t] = x]
  BY DEF ReadEpoch
<1>a. idb.epoch + 1 \in Nat
  BY DEF DiskTypes
<1>4. x \in Core
  BY <1>1, <1>a, CoreChanged
<1>5. x.client # None
  BY <1>1 DEF Core
<1> HIDE DEF x
<1>6. ClientTypes' /\ SocketsOK'
  BY <1>1, <1>2, <1>3, <1>4, <1>5, PhaseSet
<1>7. QED
  BY <1>6, TaskSame, DiskSame, NetworkSame, ServerSame, HistorySame
     DEF ReadEpoch, browser, network, server, bounds, history

\* It takes its epoch.
LEMMA BumpEpochTypes ==
    ASSUME Types, SocketsOK, NEW t \in Tabs, BumpEpoch(t)
    PROVE  Types' /\ SocketsOK'
<1> USE DEF Types
<1>1. phase[t] = "bump" /\ ~Ready(t) /\ core[t] \in Core /\ core[t].client # None
      /\ core[t].epoch \in Nat
  BY CoreFields DEF BumpEpoch, Ready, ClientTypes
<1>2. /\ phase' = [phase EXCEPT ![t] = "outbox"] /\ "outbox" \in Phases
      /\ UNCHANGED <<conn, waiters, channel, up>>
  BY DEF BumpEpoch, network, Phases
<1>3. core' = [core EXCEPT ![t] = core[t]]
  BY DEF BumpEpoch, ClientTypes
<1>4. ClientTypes' /\ SocketsOK'
  BY <1>1, <1>2, <1>3, PhaseSet
<1>5. idb' = [idb EXCEPT !.epoch = core[t].epoch]
  BY DEF BumpEpoch
<1>6. DiskTypes'
  BY <1>1, <1>5 DEF DiskTypes
<1>7. QED
  BY <1>4, <1>6, TaskSame, NetworkSame, ServerSame, HistorySame
     DEF BumpEpoch, network, server, bounds, history

\* It restores its rows.
LEMMA RestoreRowsTypes ==
    ASSUME Types, SocketsOK, NEW t \in Tabs, RestoreRows(t)
    PROVE  Types' /\ SocketsOK'
<1> USE DEF Types
<1> DEFINE frames == InOrder(idb.rows)
           rows == [i \in 1..Len(frames) |-> [id |-> i, frame |-> frames[i]]]
           x == RestoreOutbox(core[t], rows)
<1>1. phase[t] = "outbox" /\ ~Ready(t) /\ core[t] \in Core /\ core[t].client # None
  BY DEF RestoreRows, Ready, ClientTypes
<1>2. /\ phase' = [phase EXCEPT ![t] = "replace"] /\ "replace" \in Phases
      /\ UNCHANGED <<conn, waiters, channel, up>>
  BY DEF RestoreRows, network, Phases
<1>3. core' = [core EXCEPT ![t] = x]
  BY Zenon DEF RestoreRows
<1>4. frames \in Seq(RowFrame)
  BY InOrderType DEF DiskTypes
<1> HIDE DEF frames
<1>5. x \in Core /\ x.client = core[t].client
  <2> DEFINE c == core[t]
             r == rows
  <2>1. c \in Core /\ frames \in Seq(RowFrame)
        /\ r = [i \in 1..Len(frames) |-> [id |-> i, frame |-> frames[i]]]
    BY <1>1, <1>4
  <2> HIDE DEF c, r
  <2>2. Restored(c, RestoreOutbox(c, r), frames)
    BY <2>1, RestoreType, Zenon
  <2>3. QED
    BY <2>2 DEF Restored, c, r
<1> HIDE DEF x
<1>6. ClientTypes' /\ SocketsOK'
  BY <1>1, <1>2, <1>3, <1>5, PhaseSet
<1>7. QED
  BY <1>6, TaskSame, DiskSame, NetworkSame, ServerSame, HistorySame
     DEF RestoreRows, browser, network, server, bounds, history

\* The rows on disk under the numbers of the rows of an outbox.
RowsOf(outbox) == [id \in {outbox[i].id : i \in DOMAIN outbox} |->
                      (CHOOSE row \in ToSet(outbox) : row.id = id).frame]

\* They are the frames of the outbox.
LEMMA RowsOfType ==
    ASSUME NEW outbox \in Seq(Row)
    PROVE  /\ RowsOf(outbox) \in [DOMAIN RowsOf(outbox) -> RowFrame]
           /\ DOMAIN RowsOf(outbox) \in SUBSET Nat /\ IsFiniteSet(DOMAIN RowsOf(outbox))
           /\ \A id \in DOMAIN RowsOf(outbox) :
                \E i \in DOMAIN outbox : RowsOf(outbox)[id] = outbox[i].frame
<1> DEFINE ids == {outbox[i].id : i \in DOMAIN outbox}
           pick(id) == CHOOSE row \in ToSet(outbox) : row.id = id
           r == [id \in ids |-> pick(id).frame]
<1>1. RowsOf(outbox) = r
  BY DEF RowsOf
<1>2. Len(outbox) \in Nat /\ DOMAIN outbox = 1..Len(outbox)
  OBVIOUS
<1>3. \A i \in DOMAIN outbox : outbox[i].id \in Nat /\ outbox[i].frame \in RowFrame
  BY RowFacts
<1>4. ids \in SUBSET Nat
  BY <1>3
<1>5. IsFiniteSet(ids)
  <2> DEFINE f == [i \in DOMAIN outbox |-> outbox[i].id]
  <2>1. f \in [DOMAIN outbox -> ids] /\ \A x \in ids : \E i \in DOMAIN outbox : f[i] = x
    OBVIOUS
  <2>2. f \in Surjection(DOMAIN outbox, ids)
    BY <2>1 DEF Surjection
  <2>3. IsFiniteSet(DOMAIN outbox)
    BY <1>2, FS_Interval
  <2>4. QED
    BY <2>2, <2>3, FS_Surjection
<1>6. ASSUME NEW id \in ids PROVE \E i \in DOMAIN outbox : pick(id) = outbox[i]
  <2>1. \E row \in ToSet(outbox) : row.id = id
    BY DEF ToSet
  <2>2. pick(id) \in ToSet(outbox)
    BY <2>1, Zenon
  <2>3. QED
    BY <2>2 DEF ToSet
<1> HIDE DEF pick
<1>7. \A id \in ids : \E i \in DOMAIN outbox : r[id] = outbox[i].frame
  BY <1>6
<1>8. r \in [ids -> RowFrame]
  BY <1>3, <1>6
<1>9. DOMAIN r = ids
  OBVIOUS
<1> HIDE DEF r, ids
<1>10. QED
  BY <1>1, <1>4, <1>5, <1>7, <1>8, <1>9

\* It renumbers the rows on disk.
LEMMA ReplaceRowsTypes ==
    ASSUME Types, SocketsOK, NEW t \in Tabs, ReplaceRows(t)
    PROVE  Types' /\ SocketsOK'
<1> USE DEF Types
<1>1. phase[t] = "replace" /\ ~Ready(t) /\ core[t] \in Core /\ core[t].client # None
      /\ core[t].outbox \in Seq(Row)
  BY CoreFields DEF ReplaceRows, Ready, ClientTypes
<1>2. /\ phase' = [phase EXCEPT ![t] = "log"] /\ "log" \in Phases
      /\ UNCHANGED <<conn, waiters, channel, up>>
  BY DEF ReplaceRows, network, Phases
<1>3. core' = [core EXCEPT ![t] = core[t]]
  BY DEF ReplaceRows, ClientTypes
<1>4. ClientTypes' /\ SocketsOK'
  BY <1>1, <1>2, <1>3, PhaseSet
<1>5. idb' = [idb EXCEPT !.rows = RowsOf(core[t].outbox)]
  BY Zenon DEF ReplaceRows, RowsOf
<1>6. DiskTypes'
  <2> DEFINE r == RowsOf(core[t].outbox)
  <2>1. r \in [DOMAIN r -> RowFrame] /\ DOMAIN r \in SUBSET Nat /\ IsFiniteSet(DOMAIN r)
    BY <1>1, RowsOfType
  <2> HIDE DEF r
  <2>2. idb' = [client |-> idb.client, epoch |-> idb.epoch, rows |-> r, wal |-> idb.wal]
    BY <1>5 DEF DiskTypes, r
  <2>3. QED
    BY <2>1, <2>2 DEF DiskTypes
<1>7. QED
  BY <1>4, <1>6, TaskSame, NetworkSame, ServerSame, HistorySame
     DEF ReplaceRows, network, server, bounds, history

\* It replays its log, and is ready.
LEMMA ReplayLogTypes ==
    ASSUME Types, SocketsOK, NEW t \in Tabs, ReplayLog(t)
    PROVE  Types' /\ SocketsOK'
<1> USE DEF Types
<1>1. phase[t] = "log" /\ ~Ready(t) /\ core[t] \in Core /\ core[t].client # None
  BY DEF ReplayLog, Ready, ClientTypes
<1>2. /\ phase' = [phase EXCEPT ![t] = "ready"] /\ "ready" \in Phases
      /\ UNCHANGED <<conn, waiters, channel, up>>
  BY DEF ReplayLog, network, Phases
<1>3. core' = [core EXCEPT ![t] = core[t]]
  BY DEF ReplayLog, ClientTypes
<1>4. ClientTypes' /\ SocketsOK'
  BY <1>1, <1>2, <1>3, PhaseSet
<1>5. \E x : idb' = [idb EXCEPT !.wal = x]
  <2>1. CASE UNCHANGED idb
    BY <2>1 DEF DiskTypes
  <2>2. CASE ~UNCHANGED idb
    BY <2>2, Zenon DEF ReplayLog
  <2>3. QED
    BY <2>1, <2>2
<1>6. DiskTypes'
  <2>1. PICK x : idb' = [idb EXCEPT !.wal = x]
    BY <1>5
  <2>2. idb' = [client |-> idb.client, epoch |-> idb.epoch, rows |-> idb.rows, wal |-> x]
    BY <2>1 DEF DiskTypes
  <2>3. QED
    BY <2>2 DEF DiskTypes
<1>7. QED
  BY <1>4, <1>6, TaskSame, NetworkSame, ServerSame, HistorySame
     DEF ReplayLog, network, server, bounds, history

\* It is closed, or its process ends.
LEMMA CrashTypes ==
    ASSUME Types, SocketsOK, NEW t \in Tabs, Crash(t)
    PROVE  Types' /\ SocketsOK'
<1> USE DEF Types
<1> DEFINE x == NewClient(None, FALSE)
<1>1. x \in Core
  BY NewClientType DEF Option
<1>2. /\ core' = [core EXCEPT ![t] = x] /\ phase' = [phase EXCEPT ![t] = "closed"]
      /\ conn' = [conn EXCEPT ![t] = 0] /\ waiters' = [waiters EXCEPT ![t] = << >>]
      /\ channel' = [channel EXCEPT ![t] = FALSE] /\ tasks' = [tasks EXCEPT ![t] = << >>]
      /\ UNCHANGED <<up, idb, mark, applied, scenario, clock, issued>>
  BY DEF Crash, server
<1> HIDE DEF x
<1>3. ClientTypes'
  <2>1. core' \in [Tabs -> Core] /\ \A u \in Tabs : core'[u] = IF u = t THEN x ELSE core[u]
    BY <1>1, <1>2 DEF ClientTypes
  <2>2. /\ phase' \in [Tabs -> Phases]
        /\ \A u \in Tabs : phase'[u] = IF u = t THEN "closed" ELSE phase[u]
    BY <1>2 DEF ClientTypes, Phases
  <2>3. \A u \in Tabs : phase'[u] # "closed" => core'[u].client # None
    BY <2>1, <2>2 DEF ClientTypes
  <2>4. /\ conn' \in [Tabs -> Nat] /\ waiters' \in [Tabs -> Seq(Option(Nat))]
        /\ channel' \in [Tabs -> BOOLEAN]
    BY <1>2 DEF ClientTypes
  <2>5. QED
    BY <2>1, <2>2, <2>3, <2>4 DEF ClientTypes
<1>4. SocketsOK'
  <2>1. \A u \in Tabs : /\ conn'[u] = IF u = t THEN 0 ELSE conn[u]
                        /\ phase'[u] = IF u = t THEN "closed" ELSE phase[u]
    BY <1>2 DEF ClientTypes
  <2>2. QED
    BY <1>2, <2>1 DEF SocketsOK, Connected, Ready
<1>5. TaskTypes'
  BY <1>2, TaskMade DEF TaskTypes
<1>6. NetworkTypes'
  <2>1. CASE Connected(t)
    <3>1. down' = [down EXCEPT ![conn[t]] = << >>]
      BY <2>1 DEF Crash
    <3>2. << >> \in Seq(Message)
      OBVIOUS
    <3>3. QED
      BY <1>2, <3>1, <3>2, DownSet
  <2>2. CASE ~Connected(t)
    BY <1>2, <2>2, NetworkSame DEF Crash
  <2>3. QED
    BY <2>1, <2>2
<1>7. QED
  BY <1>2, <1>3, <1>4, <1>5, <1>6, DiskSame, ServerSame, HistorySame

\* A transaction commits.
LEMMA CommitTypes ==
    ASSUME Types, SocketsOK, NEW t \in Tabs, Commit(t)
    PROVE  Types' /\ SocketsOK'
<1> USE DEF Types
<1> DEFINE task == Head(tasks[t])
<1>1. /\ tasks[t] # << >> /\ tasks' = [tasks EXCEPT ![t] = Tail(tasks[t])]
      /\ UNCHANGED <<client, up, down, mark, applied, scenario, clock, issued>>
  BY DEF Commit, network, server, bounds, history
<1>2. TasksOK(tasks[t])
  BY DEF TaskTypes
<1>3. TasksOK(Tail(tasks[t]))
  BY <1>1, <1>2, TasksAdded
<1>4. TaskTypes'
  BY <1>1, <1>3 DEF TaskTypes
<1>5. TaskOK(task)
  <2>1. tasks[t] \in Seq(ToSet(tasks[t])) /\ tasks[t] # << >>
    BY <1>1, <1>2 DEF TasksOK
  <2>2. 1 \in DOMAIN tasks[t] /\ Head(tasks[t]) = tasks[t][1]
    BY <2>1
  <2>3. QED
    BY <1>2, <2>2 DEF TasksOK
<1>6. ASSUME NEW r, NEW l, r \in [DOMAIN r -> RowFrame], DOMAIN r \in SUBSET Nat,
             IsFiniteSet(DOMAIN r), idb' = [idb EXCEPT !.rows = r, !.wal = l]
      PROVE  DiskTypes'
  <2>1. idb' = [client |-> idb.client, epoch |-> idb.epoch, rows |-> r, wal |-> l]
    BY <1>6 DEF DiskTypes
  <2>2. QED
    BY <1>6, <2>1 DEF DiskTypes
<1>7. \A r, l : [idb EXCEPT !.rows = r] = [idb EXCEPT !.rows = r, !.wal = idb.wal]
             /\ [idb EXCEPT !.wal = l] = [idb EXCEPT !.rows = idb.rows, !.wal = l]
  BY DEF DiskTypes
<1>8. DiskTypes'
  <2>0. /\ idb.rows \in [DOMAIN idb.rows -> RowFrame] /\ DOMAIN idb.rows \in SUBSET Nat
        /\ IsFiniteSet(DOMAIN idb.rows)
    BY DEF DiskTypes
  <2>1. CASE task.kind = "put"
    <3> DEFINE r == With(idb.rows, task.id, task.frame)
    <3>1. idb' = [idb EXCEPT !.rows = r]
      BY <2>1 DEF Commit
    <3>2. r = [y \in DOMAIN idb.rows \cup {task.id} |->
                 IF y = task.id THEN task.frame ELSE idb.rows[y]]
      BY DEF With
    <3>3. task.id \in Nat /\ task.frame \in RowFrame
      BY <1>5, <2>1 DEF TaskOK
    <3>4. DOMAIN r = DOMAIN idb.rows \cup {task.id}
      BY <3>2
    <3>5. IsFiniteSet(DOMAIN r)
      BY <2>0, <3>4, FS_AddElement
    <3>6. r \in [DOMAIN r -> RowFrame] /\ DOMAIN r \in SUBSET Nat
      BY <2>0, <3>2, <3>3, <3>4
    <3> HIDE DEF r
    <3>7. QED
      BY <1>6, <1>7, <3>1, <3>5, <3>6
  <2>2. CASE task.kind = "delete"
    <3> DEFINE r == Without(idb.rows, task.id)
    <3>1. idb' = [idb EXCEPT !.rows = r]
      BY <2>2 DEF Commit
    <3>2. r = [y \in DOMAIN idb.rows \ {task.id} |-> idb.rows[y]]
      BY DEF Without
    <3>4. DOMAIN r = DOMAIN idb.rows \ {task.id}
      BY <3>2
    <3>5. IsFiniteSet(DOMAIN r)
      BY <2>0, <3>4, FS_RemoveElement
    <3>6. r \in [DOMAIN r -> RowFrame] /\ DOMAIN r \in SUBSET Nat
      BY <2>0, <3>2, <3>4
    <3> HIDE DEF r
    <3>7. QED
      BY <1>6, <1>7, <3>1, <3>5, <3>6
  <2>3. CASE task.kind = "append"
    <3>1. PICK l : idb' = [idb EXCEPT !.wal = l]
      BY <2>3, Zenon DEF Commit
    <3>2. QED
      BY <1>6, <1>7, <2>0, <3>1
  <2>4. CASE task.kind = "clear"
    <3>1. idb' = [idb EXCEPT !.rows = << >>, !.wal = << >>]
      BY <2>4 DEF Commit
    <3>2. << >> \in [DOMAIN << >> -> RowFrame] /\ DOMAIN << >> = {}
      OBVIOUS
    <3>3. QED
      BY <1>6, <3>1, <3>2, FS_EmptySet
  <2>5. QED
    BY <1>5, <2>1, <2>2, <2>3, <2>4 DEF TaskOK
<1>9. SocketsOK'
  BY <1>1, SocketsSame DEF client
<1>10. QED
  BY <1>1, <1>4, <1>8, <1>9, ClientSame, NetworkSame, ServerSame, HistorySame

\* A command is sent, if there is a socket.
LEMMA SendTypes ==
    ASSUME Types, SocketsOK, NEW t \in Tabs, NEW f \in Frame, up' = Send(t, f), UNCHANGED down
    PROVE  /\ NetworkTypes' /\ DOMAIN up' = DOMAIN up
           /\ Connected(t) => /\ conn[t] \in DOMAIN up /\ up[conn[t]] \in Seq(Frame)
                              /\ \A i \in DOMAIN up : up'[i] = IF i = conn[t] THEN Append(up[i], f)
                                                                             ELSE up[i]
           /\ ~Connected(t) => up' = up
<1> USE DEF Types
<1>1. CASE ~Connected(t)
  BY <1>1, NetworkSame DEF Send
<1>2. CASE Connected(t)
  <2> DEFINE x == Append(up[conn[t]], f)
  <2>1. conn[t] \in DOMAIN up /\ up[conn[t]] \in Seq(Frame)
    BY <1>2 DEF SocketsOK, NetworkTypes
  <2>2. x \in Seq(Frame) /\ up' = [up EXCEPT ![conn[t]] = x]
    BY <1>2, <2>1 DEF Send
  <2> HIDE DEF x
  <2>3. NetworkTypes' /\ DOMAIN up' = DOMAIN up /\ \A i \in DOMAIN up : up'[i] = IF i = conn[t] THEN x ELSE up[i]
    BY <2>2, UpSet
  <2>4. QED
    BY <1>2, <2>1, <2>3 DEF x
<1>3. QED
  BY <1>1, <1>2

\* Somebody awaits an answer.
LEMMA AwaitsTypes ==
    ASSUME ClientTypes, NEW t \in Tabs, NEW w \in Option(Nat), Awaits(t, w)
    PROVE  waiters' \in [Tabs -> Seq(Option(Nat))]
<1>1. waiters[t] \in Seq(Option(Nat))
  BY DEF ClientTypes
<1>2. Append(waiters[t], w) \in Seq(Option(Nat))
  BY <1>1
<1>3. QED
  BY <1>1, <1>2 DEF Awaits, ClientTypes

\* A socket opens.
LEMMA ConnectTypes ==
    ASSUME Types, SocketsOK, NEW t \in Tabs, Connect(t)
    PROVE  Types' /\ SocketsOK'
<1> USE DEF Types
<1> DEFINE opened == OnOpen(core[t])
           again == channel[t]
           last == IF again THEN <<SessionCommand("subscribe")>> ELSE << >>
           frames == opened.frames \o last
           x == SessionFrame(opened.core, again)
<1>1. /\ core' = [core EXCEPT ![t] = x] /\ up' = Append(up, frames)
      /\ waiters' = [waiters EXCEPT ![t] = IF Browser THEN << >> ELSE NobodyWaits(frames)]
      /\ down' = Append(down, << >>) /\ conn' = [conn EXCEPT ![t] = Len(up) + 1]
      /\ UNCHANGED <<phase, channel, tasks, idb, mark, applied, scenario, clock, issued>>
      /\ Ready(t) /\ ~Connected(t)
  BY DEF Connect, browser, server, bounds, history
<1>2. core[t] \in Core /\ again \in BOOLEAN /\ core[t].client # None
  BY <1>1 DEF ClientTypes, Ready
<1>3. opened.core \in Core /\ opened.frames \in Seq(Frame) /\ opened.core.client = core[t].client
  BY <1>2, OnOpenType
<1> HIDE DEF opened, again
<1>4. x \in Core /\ x.client = core[t].client
  BY <1>2, <1>3, SessionFrameType
<1>5. frames \in Seq(Frame)
  <2>1. SessionCommand("subscribe") \in Frame
    BY SessionCommandType
  <2>2. last \in Seq(Frame)
    BY <2>1
  <2> HIDE DEF last
  <2>3. QED
    BY ONLY <1>3, <2>2, ConcatFacts
<1> HIDE DEF x, frames
<1>6. NobodyWaits(frames) \in Seq(Option(Nat))
  BY <1>5 DEF NobodyWaits, Option
<1>7. ClientTypes'
  <2>1. core' \in [Tabs -> Core] /\ \A u \in Tabs : core'[u] = IF u = t THEN x ELSE core[u]
    BY <1>1, <1>4 DEF ClientTypes
  <2>2. \A u \in Tabs : phase[u] # "closed" => core'[u].client # None
    BY <1>2, <1>4, <2>1 DEF ClientTypes
  <2>3. Len(up) + 1 \in Nat
    BY DEF NetworkTypes
  <2>4. conn' \in [Tabs -> Nat]
    BY <1>1, <2>3 DEF ClientTypes
  <2>5. waiters' \in [Tabs -> Seq(Option(Nat))]
    BY <1>1, <1>6 DEF ClientTypes
  <2>6. QED
    BY <1>1, <2>1, <2>2, <2>4, <2>5 DEF ClientTypes
<1>8. NetworkTypes'
  BY <1>1, <1>5 DEF NetworkTypes
<1>9. SocketsOK'
  <2>1. \A u \in Tabs : conn'[u] = IF u = t THEN Len(up) + 1 ELSE conn[u]
    BY <1>1 DEF ClientTypes
  <2>2. DOMAIN up' = 1..(Len(up) + 1) /\ DOMAIN up = 1..Len(up) /\ Len(up) \in Nat
    BY <1>1, <1>5 DEF NetworkTypes
  <2>3. Len(up) + 1 \in DOMAIN up' /\ Len(up) + 1 \notin DOMAIN up /\ DOMAIN up \subseteq DOMAIN up'
    BY <2>2
  <2>4. ASSUME NEW u \in Tabs, conn'[u] # 0
        PROVE  /\ conn'[u] \in DOMAIN up' /\ phase'[u] = "ready"
               /\ \A v \in Tabs : conn'[v] = conn'[u] => v = u
    <3>1. CASE u = t
      BY <1>1, <2>1, <2>3, <3>1 DEF SocketsOK, Connected, Ready
    <3>2. CASE u # t
      BY <1>1, <2>1, <2>3, <2>4, <3>2 DEF SocketsOK, Connected, Ready
    <3>3. QED
      BY <3>1, <3>2
  <2>5. QED
    BY <2>4 DEF SocketsOK, Connected, Ready
<1>10. QED
  BY <1>1, <1>7, <1>8, <1>9, TaskSame, DiskSame, ServerSame, HistorySame

\* The client hangs up.
LEMMA HangUpTypes ==
    ASSUME Types, SocketsOK, NEW t \in Tabs, Connected(t), HangUp(t), UNCHANGED <<core, phase, channel>>
    PROVE  /\ ClientTypes' /\ down' \in Seq(Seq(Message)) /\ Len(down') = Len(down)
           /\ \A u \in Tabs : conn'[u] = IF u = t THEN 0 ELSE conn[u]
           /\ DOMAIN up \subseteq DOMAIN up' => SocketsOK'
<1> USE DEF Types
<1>1. /\ conn' = [conn EXCEPT ![t] = 0] /\ waiters' = [waiters EXCEPT ![t] = << >>]
      /\ down' = [down EXCEPT ![conn[t]] = << >>]
  BY DEF HangUp
<1>2. ClientTypes'
  BY <1>1 DEF ClientTypes
<1>3. << >> \in Seq(Message)
  OBVIOUS
<1>4. down' \in Seq(Seq(Message)) /\ Len(down') = Len(down)
  BY <1>1, <1>3, DownSet
<1>5. \A u \in Tabs : conn'[u] = IF u = t THEN 0 ELSE conn[u]
  BY <1>1 DEF ClientTypes
<1>6. DOMAIN up \subseteq DOMAIN up' => SocketsOK'
  BY <1>5 DEF SocketsOK, Connected, Ready
<1>7. QED
  BY <1>2, <1>4, <1>5, <1>6

\* The connection breaks.
LEMMA CloseTypes ==
    ASSUME Types, SocketsOK, NEW t \in Tabs, Close(t)
    PROVE  Types' /\ SocketsOK'
<1> USE DEF Types
<1>1. /\ Connected(t) /\ HangUp(t)
      /\ UNCHANGED <<core, phase, channel, tasks, idb, mark, applied, scenario, clock, issued>>
  BY DEF Close, browser, server
<1>2. PICK arrive \in 0..Len(up[conn[t]]) :
         up' = [up EXCEPT ![conn[t]] = SubSeq(up[conn[t]], 1, arrive)]
  BY DEF Close
<1>3. conn[t] \in DOMAIN up /\ up[conn[t]] \in Seq(Frame)
  BY <1>1 DEF SocketsOK, NetworkTypes
<1> DEFINE x == SubSeq(up[conn[t]], 1, arrive)
<1>4. x \in Seq(Frame)
  BY <1>3
<1> HIDE DEF x
<1>5. up' \in Seq(Seq(Frame)) /\ Len(up') = Len(up) /\ DOMAIN up' = DOMAIN up
  BY <1>2, <1>4, UpSet DEF x
<1>6. ClientTypes' /\ SocketsOK' /\ down' \in Seq(Seq(Message)) /\ Len(down') = Len(down)
  BY <1>1, <1>5, HangUpTypes
<1>7. NetworkTypes'
  BY <1>5, <1>6 DEF NetworkTypes
<1>8. QED
  BY <1>1, <1>6, <1>7, TaskSame, DiskSame, ServerSame, HistorySame

\* A write is queued.
LEMMA EnqueuedTypes ==
    ASSUME Types, SocketsOK, NEW t \in Tabs, Ready(t), NEW k \in Setup.keys, NEW ttl \in Setup.ttls,
           Enqueued(t, NewWrite(t), k, ttl),
           UNCHANGED <<phase, conn, channel, down, mark, applied, scenario, clock>>,
           waiters' \in [Tabs -> Seq(Option(Nat))]
    PROVE  /\ ClientTypes' /\ NetworkTypes' /\ ServerTypes' /\ HistoryTypes' /\ SocketsOK'
           /\ NewWrite(t).id \in Nat /\ NewWrite(t).frame \in RowFrame
           /\ NewWrite(t).dropped = << >> \/ NewWrite(t).dropped = <<Head(core[t].outbox)>>
<1> USE DEF Types
<1> DEFINE e == NewWrite(t)
           w == Len(issued) + 1
<1>1. core[t] \in Core /\ core[t].client # None /\ core[t].client \in Clients /\ core[t].seq \in Nat
  BY CoreFields DEF ClientTypes, Ready, Option
<1>2. w \in Nat /\ e = EnqueueWrite(core[t], "write", w, TRUE, Connected(t)) /\ Connected(t) \in BOOLEAN
  BY DEF HistoryTypes, NewWrite, Connected
<1> HIDE DEF w, e
<1>3. /\ e.core \in Core /\ e.frame \in RowFrame /\ e.id = core[t].seq
      /\ e.core.client = core[t].client
      /\ e.dropped = << >> \/ e.dropped = <<Head(core[t].outbox)>>
  <2>1. Enqueues(core[t], e, w, WireId(core[t], core[t].seq), Connected(t))
    BY <1>1, <1>2, WriteEnqueues, Zenon
  <2>2. QED
    BY <2>1 DEF Enqueues
<1>4. /\ core' = [core EXCEPT ![t] = e.core] /\ up' = Send(t, e.frame)
      /\ issued' = Append(issued, [client |-> core[t].client, key |-> k, ttl |-> ttl,
                                   deadline |-> Deadline(ttl)])
  BY DEF Enqueued, e
<1>5. ClientTypes'
  <2>1. core' \in [Tabs -> Core] /\ \A u \in Tabs : core'[u] = IF u = t THEN e.core ELSE core[u]
    BY <1>3, <1>4 DEF ClientTypes
  <2>2. \A u \in Tabs : phase[u] # "closed" => core'[u].client # None
    BY <1>1, <1>3, <2>1 DEF ClientTypes
  <2>3. QED
    BY <2>1, <2>2 DEF ClientTypes
<1>6. NetworkTypes' /\ DOMAIN up' = DOMAIN up
  <2>1. e.frame \in Frame
    BY <1>3 DEF Frame
  <2>2. QED
    BY <1>4, <2>1, SendTypes
<1>7. ServerTypes' /\ SocketsOK'
  BY <1>6, ServerSame, SocketsSame
<1>8. HistoryTypes'
  <2>1. k \in Keys /\ ttl \in Nat /\ clock \in Nat
    BY EdgeClientAssumption DEF Setup, HistoryTypes
  <2>2. Deadline(ttl) \in Nat
    BY <2>1 DEF Deadline
  <2>3. [client |-> core[t].client, key |-> k, ttl |-> ttl, deadline |-> Deadline(ttl)]
          \in [client : Clients, key : Keys, ttl : Nat, deadline : Nat]
    BY <1>1, <2>1, <2>2
  <2> DEFINE R == [client : Clients, key : Keys, ttl : Nat, deadline : Nat]
             r == [client |-> core[t].client, key |-> k, ttl |-> ttl, deadline |-> Deadline(ttl)]
  <2>4. r \in R /\ issued \in Seq(R) /\ issued' = Append(issued, r)
    BY <1>4, <2>3 DEF HistoryTypes
  <2> HIDE DEF r, R
  <2>5. issued' \in Seq(R)
    BY <2>4
  <2>6. QED
    BY <2>5 DEF HistoryTypes, R
<1>9. QED
  BY <1>1, <1>3, <1>5, <1>6, <1>7, <1>8 DEF e

\* In the browser.
LEMMA BrowserWriteTypes ==
    ASSUME Types, SocketsOK, NEW t \in Tabs, BrowserWrite(t)
    PROVE  Types' /\ SocketsOK'
<1> USE DEF Types
<1> DEFINE e == NewWrite(t)
           log == AppendLog(walSeq[t], Len(issued) + 1)
<1>1. /\ Ready(t)
      /\ UNCHANGED <<phase, conn, waiters, channel, idb, down, mark, applied, scenario, clock>>
  BY DEF BrowserWrite, server, bounds
<1>2. PICK k \in Setup.keys, ttl \in Setup.ttls :
         /\ Enqueued(t, e, k, ttl)
         /\ tasks' = [tasks EXCEPT ![t] = tasks[t] \o StoreRow(e) \o <<log>>]
  BY DEF BrowserWrite
<1>3. waiters' \in [Tabs -> Seq(Option(Nat))]
  BY <1>1 DEF ClientTypes
<1>4. /\ ClientTypes' /\ NetworkTypes' /\ ServerTypes' /\ HistoryTypes' /\ SocketsOK'
      /\ e.id \in Nat /\ e.frame \in RowFrame
      /\ e.dropped = << >> \/ e.dropped = <<Head(core[t].outbox)>>
  BY <1>1, <1>2, <1>3, EnqueuedTypes
<1>5. TasksOK(StoreRow(e)) /\ TasksOK(<<log>>) /\ TasksOK(tasks[t])
  <2>1. TasksOK(<<log>>)
    BY TaskMade
  <2> HIDE DEF e
  <2>2. TasksOK(StoreRow(e))
    <3> DEFINE c == core[t]
    <3>1. e.dropped = << >> \/ e.dropped = <<Head(c.outbox)>>
      BY <1>4
    <3> HIDE DEF c
    <3>2. QED
      BY <1>4, <3>1, StoreRowType
  <2>3. QED
    BY <2>1, <2>2 DEF TaskTypes
<1> HIDE DEF e, log
<1>6. TasksOK(tasks[t] \o StoreRow(e) \o <<log>>)
  <2>1. TasksOK(tasks[t] \o StoreRow(e))
    BY <1>5, TasksAdded
  <2>2. QED
    BY <1>5, <2>1, TasksAdded
<1>7. TaskTypes'
  BY <1>2, <1>6 DEF TaskTypes
<1>8. QED
  BY <1>1, <1>4, <1>7, DiskSame

\* In the embedded client.
LEMMA EmbedWriteTypes ==
    ASSUME Types, SocketsOK, NEW t \in Tabs, EmbedWrite(t)
    PROVE  Types' /\ SocketsOK'
<1> USE DEF Types
<1>1. /\ Ready(t) /\ Awaits(t, Len(issued) + 1)
      /\ UNCHANGED <<phase, conn, channel, tasks, idb, down, mark, applied, scenario, clock>>
  BY DEF EmbedWrite, browser, server, bounds
<1>2. PICK k \in Setup.keys, ttl \in Setup.ttls : Enqueued(t, NewWrite(t), k, ttl)
  BY DEF EmbedWrite
<1>3. waiters' \in [Tabs -> Seq(Option(Nat))]
  <2>1. Len(issued) + 1 \in Option(Nat)
    BY DEF HistoryTypes, Option
  <2>2. QED
    BY <1>1, <2>1, AwaitsTypes
<1>4. ClientTypes' /\ NetworkTypes' /\ ServerTypes' /\ HistoryTypes' /\ SocketsOK'
  BY <1>1, <1>2, <1>3, EnqueuedTypes
<1>5. QED
  BY <1>1, <1>4, TaskSame, DiskSame

\* A command of the session.
LEMMA CommandTypes ==
    ASSUME Types, SocketsOK, NEW t \in Tabs, NEW kind \in {"query", "read"}, NEW x \in Core,
           x.client = core[t].client, Command(t, kind, x)
    PROVE  Types' /\ SocketsOK'
<1> USE DEF Types
<1>1. /\ Ready(t) /\ core' = [core EXCEPT ![t] = x] /\ up' = Send(t, SessionCommand(kind))
      /\ Awaits(t, None)
      /\ UNCHANGED <<phase, conn, channel, tasks, idb, down, mark, applied, scenario, clock, issued>>
  BY DEF Command, browser, server, history
<1>2. waiters' \in [Tabs -> Seq(Option(Nat))]
  BY <1>1, AwaitsTypes DEF Option
<1>3. ClientTypes'
  <2>1. core' \in [Tabs -> Core] /\ \A u \in Tabs : core'[u] = IF u = t THEN x ELSE core[u]
    BY <1>1 DEF ClientTypes
  <2>2. \A u \in Tabs : phase[u] # "closed" => core'[u].client # None
    BY <2>1 DEF ClientTypes
  <2>3. QED
    BY <1>1, <1>2, <2>1, <2>2 DEF ClientTypes
<1>4. NetworkTypes' /\ DOMAIN up' = DOMAIN up
  <2>1. SessionCommand(kind) \in Frame
    BY SessionCommandType
  <2>2. QED
    BY <1>1, <2>1, SendTypes
<1>5. QED
  BY <1>1, <1>3, <1>4, SocketsSame, TaskSame, DiskSame, ServerSame, HistorySame

\* A read, a live query, or its end is a command that takes a slot and keeps the rows.
LEMMA CommandIs ==
    ASSUME Types, NEW t \in Tabs, Read(t) \/ Query(t) \/ Unquery(t)
    PROVE  \E kind \in {"query", "read"}, x \in Core :
             /\ Command(t, kind, x)
             /\ x.inflight = IF Connected(t) THEN Append(core[t].inflight, None)
                                             ELSE core[t].inflight
             /\ x.outbox = core[t].outbox /\ x.seq = core[t].seq /\ x.client = core[t].client
             /\ x.epoch = core[t].epoch
<1>1. core[t] \in Core /\ Connected(t) \in BOOLEAN
  BY DEF Types, ClientTypes, Connected
<1>2. CASE Read(t)
  <2> DEFINE x == SessionFrame(core[t], TRUE)
  <2>1. Command(t, "read", x) /\ Connected(t)
    BY <1>2 DEF Read
  <2>2. /\ x \in Core /\ x.inflight = Append(core[t].inflight, None)
        /\ x.outbox = core[t].outbox /\ x.seq = core[t].seq /\ x.client = core[t].client
        /\ x.epoch = core[t].epoch
    BY <1>1, SessionFrameType
  <2> HIDE DEF x
  <2>3. QED
    BY <2>1, <2>2
<1>3. CASE Query(t)
  <2> DEFINE x == AddLiveQuery(core[t], "q", Connected(t))
  <2>1. Command(t, "query", x)
    BY <1>3 DEF Query
  <2>2. /\ x \in Core /\ x.inflight = IF Connected(t) THEN Append(core[t].inflight, None)
                                                      ELSE core[t].inflight
        /\ x.outbox = core[t].outbox /\ x.seq = core[t].seq /\ x.client = core[t].client
        /\ x.epoch = core[t].epoch
    BY <1>1, LiveQueryType
  <2> HIDE DEF x
  <2>3. QED
    BY <2>1, <2>2
<1>4. CASE Unquery(t)
  <2> DEFINE x == RemoveLiveQuery(core[t], "q", Connected(t))
  <2>1. Command(t, "query", x)
    BY <1>4 DEF Unquery
  <2>2. /\ x \in Core /\ x.inflight = IF Connected(t) THEN Append(core[t].inflight, None)
                                                      ELSE core[t].inflight
        /\ x.outbox = core[t].outbox /\ x.seq = core[t].seq /\ x.client = core[t].client
        /\ x.epoch = core[t].epoch
    BY <1>1, LiveQueryType
  <2> HIDE DEF x
  <2>3. QED
    BY <2>1, <2>2
<1>5. QED
  BY <1>2, <1>3, <1>4

\* SUBSCRIBE in the browser.
LEMMA BrowserSubscribeTypes ==
    ASSUME Types, SocketsOK, NEW t \in Tabs, BrowserSubscribe(t)
    PROVE  Types' /\ SocketsOK'
<1> USE DEF Types
<1> DEFINE e == EnqueueWrite(core[t], "subscribe", None, FALSE, Connected(t))
<1>1. /\ Ready(t) /\ core' = [core EXCEPT ![t] = e.core] /\ up' = Send(t, e.frame)
      /\ tasks' = [tasks EXCEPT ![t] = tasks[t] \o StoreRow(e)]
      /\ UNCHANGED <<phase, conn, waiters, channel, idb, down, mark, applied, scenario, clock, issued>>
  BY DEF BrowserSubscribe, server
<1>2. core[t] \in Core /\ core[t].client # None /\ core[t].seq \in Nat /\ Connected(t) \in BOOLEAN
  BY <1>1, CoreFields DEF ClientTypes, Ready, Connected
<1>3. /\ e.core \in Core /\ e.frame \in RowFrame /\ e.id = core[t].seq
      /\ e.core.client = core[t].client
      /\ e.dropped = << >> \/ e.dropped = <<Head(core[t].outbox)>>
  <2>1. Enqueues(core[t], e, None, None, Connected(t))
    BY <1>2, SubscribeEnqueues, Zenon
  <2> HIDE DEF e
  <2>2. QED
    BY <2>1 DEF Enqueues
<1> HIDE DEF e
<1>4. ClientTypes'
  BY <1>1, <1>2, <1>3, CoreSet
<1>5. NetworkTypes' /\ DOMAIN up' = DOMAIN up
  <2>1. e.frame \in Frame
    BY <1>3 DEF Frame
  <2>2. QED
    BY <1>1, <2>1, SendTypes
<1>6. TaskTypes'
  <2>1. TasksOK(StoreRow(e)) /\ TasksOK(tasks[t])
    <3> DEFINE c == core[t]
    <3>1. e.dropped = << >> \/ e.dropped = <<Head(c.outbox)>>
      BY <1>3
    <3> HIDE DEF c
    <3>2. QED
      BY <1>2, <1>3, <3>1, StoreRowType DEF TaskTypes
  <2>2. TasksOK(tasks[t] \o StoreRow(e))
    BY <2>1, TasksAdded
  <2>3. QED
    BY <1>1, <2>2 DEF TaskTypes
<1>7. QED
  BY <1>1, <1>4, <1>5, <1>6, SocketsSame, DiskSame, ServerSame, HistorySame

\* SUBSCRIBE in the embedded client.
LEMMA EmbedSubscribeTypes ==
    ASSUME Types, SocketsOK, NEW t \in Tabs, EmbedSubscribe(t)
    PROVE  Types' /\ SocketsOK'
<1> USE DEF Types
<1> DEFINE x == SessionFrame(core[t], Connected(t))
<1>1. /\ Ready(t) /\ core' = [core EXCEPT ![t] = x] /\ up' = Send(t, SessionCommand("subscribe"))
      /\ channel' = [channel EXCEPT ![t] = TRUE] /\ Awaits(t, None)
      /\ UNCHANGED <<phase, conn, tasks, idb, down, mark, applied, scenario, clock, issued>>
  BY DEF EmbedSubscribe, browser, server
<1>2. core[t] \in Core /\ core[t].client # None /\ Connected(t) \in BOOLEAN
  BY <1>1 DEF ClientTypes, Ready, Connected
<1>3. x \in Core /\ x.client = core[t].client
  BY <1>2, SessionFrameType
<1> HIDE DEF x
<1>4. waiters' \in [Tabs -> Seq(Option(Nat))]
  BY <1>1, AwaitsTypes DEF Option
<1>5. ClientTypes'
  <2>1. core' \in [Tabs -> Core] /\ \A u \in Tabs : core'[u] = IF u = t THEN x ELSE core[u]
    BY <1>1, <1>3 DEF ClientTypes
  <2>2. \A u \in Tabs : phase[u] # "closed" => core'[u].client # None
    BY <1>2, <1>3, <2>1 DEF ClientTypes
  <2>3. channel' \in [Tabs -> BOOLEAN]
    BY <1>1 DEF ClientTypes
  <2>4. QED
    BY <1>1, <1>4, <2>1, <2>2, <2>3 DEF ClientTypes
<1>6. NetworkTypes' /\ DOMAIN up' = DOMAIN up
  <2>1. SessionCommand("subscribe") \in Frame
    BY SessionCommandType
  <2>2. QED
    BY <1>1, <2>1, SendTypes
<1>7. QED
  BY <1>1, <1>5, <1>6, SocketsSame, TaskSame, DiskSame, ServerSame, HistorySame

\* Sign-out.
LEMMA ClearTypes ==
    ASSUME Types, SocketsOK, NEW t \in Tabs, Clear(t)
    PROVE  Types' /\ SocketsOK'
<1> USE DEF Types
<1> DEFINE x == ClearOutbox(core[t])
<1>1. /\ Ready(t) /\ core' = [core EXCEPT ![t] = x]
      /\ tasks' = [tasks EXCEPT ![t] = Append(tasks[t], ClearAll)]
      /\ UNCHANGED <<phase, conn, waiters, channel, idb, up, down, mark, applied, scenario, clock,
                     issued>>
  BY DEF Clear, network, server
<1>2. core[t] \in Core /\ core[t].client # None
  BY <1>1 DEF ClientTypes, Ready
<1>3. x \in Core /\ x.client = core[t].client
  BY <1>2, ClearType
<1> HIDE DEF x
<1>4. ClientTypes'
  BY <1>1, <1>2, <1>3, CoreSet
<1>5. TaskTypes'
  <2>1. TasksOK(tasks[t]) /\ TasksOK(<<ClearAll>>)
    BY TaskMade DEF TaskTypes
  <2>2. TasksOK(tasks[t] \o <<ClearAll>>)
    BY <2>1, TasksAdded
  <2>3. Append(tasks[t], ClearAll) = tasks[t] \o <<ClearAll>>
    BY <2>1 DEF TasksOK
  <2>4. QED
    BY <1>1, <2>2, <2>3 DEF TaskTypes
<1>6. QED
  BY <1>1, <1>4, <1>5, SocketsSame, DiskSame, NetworkSame, ServerSame, HistorySame

\* The messages on their way to a client.
LEMMA MessageFacts ==
    /\ \A m \in Message : /\ m.kind \in {"reply", "huge", "push"}
                          /\ m.kind # "push" => m.frame \in Frame
    /\ \A f \in Frame : \A a \in Answers : [kind |-> "reply", frame |-> f, answer |-> a] \in Message
    /\ [kind |-> "push"] \in Message
    /\ \A m \in Message : m.kind # "push" => /\ [m EXCEPT !.kind = "huge"] \in Message
                                             /\ [m EXCEPT !.kind = "huge"].frame = m.frame
                                             /\ [m EXCEPT !.kind = "huge"].kind = "huge"
<1> DEFINE A == [kind : {"reply", "huge"}, frame : Frame, answer : Answers]
           B == [kind : {"push"}]
<1>1. \A m \in A : m.kind \in {"reply", "huge"} /\ m.frame \in Frame
  OBVIOUS
<1>2. \A m \in B : m.kind = "push"
  OBVIOUS
<1>3. \A f \in Frame : \A a \in Answers : [kind |-> "reply", frame |-> f, answer |-> a] \in A
  OBVIOUS
<1>4. [kind |-> "push"] \in B
  OBVIOUS
<1>5. \A m \in A : /\ [m EXCEPT !.kind = "huge"] \in A
                   /\ [m EXCEPT !.kind = "huge"].frame = m.frame
                   /\ [m EXCEPT !.kind = "huge"].kind = "huge"
  OBVIOUS
<1>6. Message = A \cup B
  BY DEF Message
<1> HIDE DEF A, B
<1>7. QED
  BY <1>1, <1>2, <1>3, <1>4, <1>5, <1>6

\* A client reads a frame.
LEMMA ReceiveTypes ==
    ASSUME Types, SocketsOK, NEW t \in Tabs, Receive(t)
    PROVE  Types' /\ SocketsOK'
<1> USE DEF Types
<1> DEFINE n == conn[t]
           m == Head(down[n])
           ack == AckReply(core[t])
<1>1. /\ Connected(t) /\ down[n] # << >>
      /\ UNCHANGED <<phase, channel, idb, up, mark, applied, scenario, clock, issued>>
  BY DEF Receive, server, bounds
<1>2. n \in DOMAIN down /\ down[n] \in Seq(Message) /\ Ready(t)
  BY <1>1 DEF SocketsOK, NetworkTypes
<1>3. m \in Message /\ Tail(down[n]) \in Seq(Message)
  BY <1>1, <1>2
<1>4. m.kind \in {"reply", "huge", "push"}
  BY <1>3, MessageFacts
<1>5. core[t] \in Core /\ core[t].client # None
  BY <1>2 DEF ClientTypes, Ready
<1>6. CASE m.kind = "reply"
  <2>1. /\ core' = [core EXCEPT ![t] = ack.core] /\ Retired(t, ack.retired) /\ Answered(t, m.answer)
        /\ down' = [down EXCEPT ![n] = Tail(down[n])] /\ UNCHANGED conn
    BY <1>6 DEF Receive
  <2>2. ack.core \in Core /\ ack.core.client = core[t].client
    <3>1. CASE core[t].inflight = << >>
      BY <1>5, <3>1, AckNothing
    <3>2. CASE core[t].inflight # << >>
      BY <1>5, <3>2, AckType
    <3>3. QED
      BY <3>1, <3>2
  <2>3. waiters' \in [Tabs -> Seq(Option(Nat))]
    <3>1. waiters[t] \in Seq(Option(Nat))
      BY DEF ClientTypes
    <3>2. (IF waiters[t] = << >> THEN waiters[t] ELSE Tail(waiters[t])) \in Seq(Option(Nat))
      BY <3>1
    <3>3. waiters' = [waiters EXCEPT ![t] = IF waiters[t] = << >> THEN waiters[t] ELSE Tail(waiters[t])]
      BY <2>1 DEF Answered
    <3>4. QED
      BY <3>2, <3>3 DEF ClientTypes
  <2> HIDE DEF ack, m
  <2>4. ClientTypes'
    <3>1. core' \in [Tabs -> Core] /\ \A u \in Tabs : core'[u] = IF u = t THEN ack.core ELSE core[u]
      BY <2>1, <2>2 DEF ClientTypes
    <3>2. \A u \in Tabs : phase[u] # "closed" => core'[u].client # None
      BY <1>5, <2>2, <3>1 DEF ClientTypes
    <3>3. QED
      BY <1>1, <2>1, <2>3, <3>1, <3>2 DEF ClientTypes
  <2>5. NetworkTypes'
    BY <1>1, <1>3, <2>1, DownSet
  <2>6. TaskTypes'
    <3>1. CASE Browser /\ ack.retired # None
      <4> DEFINE del == DeleteRow(ack.retired)
      <4>1. tasks' = [tasks EXCEPT ![t] = Append(tasks[t], del)]
        BY <2>1, <3>1 DEF Retired
      <4>2. TasksOK(tasks[t]) /\ TasksOK(<<del>>)
        BY TaskMade DEF TaskTypes
      <4> HIDE DEF del
      <4>3. TasksOK(tasks[t] \o <<del>>)
        BY <4>2, TasksAdded
      <4>4. Append(tasks[t], del) = tasks[t] \o <<del>>
        BY <4>2 DEF TasksOK
      <4>5. QED
        BY <4>1, <4>3, <4>4 DEF TaskTypes
    <3>2. CASE ~(Browser /\ ack.retired # None)
      <4>1. UNCHANGED tasks
        BY <2>1, <3>2 DEF Retired
      <4>2. QED
        BY <4>1, TaskSame
    <3>3. QED
      BY <3>1, <3>2
  <2>7. QED
    BY <1>1, <2>1, <2>4, <2>5, <2>6, SocketsSame, DiskSame, ServerSame, HistorySame
<1>7. CASE m.kind = "push"
  <2>1. /\ down' = [down EXCEPT ![n] = Tail(down[n])]
        /\ UNCHANGED <<core, conn, waiters, tasks>>
    BY <1>7 DEF Receive
  <2>2. NetworkTypes'
    BY <1>1, <1>3, <2>1, DownSet
  <2>3. ClientTypes'
    BY <1>1, <2>1, ClientSame DEF client
  <2>4. QED
    BY <1>1, <2>1, <2>2, <2>3, SocketsSame, TaskSame, DiskSame, ServerSame, HistorySame
<1>8. CASE m.kind = "huge"
  <2>1. HangUp(t) /\ UNCHANGED <<core, tasks>>
    BY <1>8 DEF Receive, Unparsable
  <2>2. ClientTypes' /\ SocketsOK' /\ down' \in Seq(Seq(Message)) /\ Len(down') = Len(down)
    BY <1>1, <2>1, HangUpTypes
  <2>3. NetworkTypes'
    BY <1>1, <2>2 DEF NetworkTypes
  <2>4. QED
    BY <1>1, <2>1, <2>2, <2>3, TaskSame, DiskSame, ServerSame, HistorySame
<1>9. QED
  BY <1>4, <1>6, <1>7, <1>8

\* Only a write in an envelope is executed, and the mark that lets it pass is lower.
LEMMA AnswerFacts ==
    ASSUME NEW n, NEW f \in Frame
    PROVE  /\ Answer(n, f) \in Answers
           /\ Answer(n, f) = "applied" => f.kind = "write" /\ f.wire # None /\ ~IsDuplicate(f)
<1>1. f.kind \in {"auth", "query", "subscribe", "read", "write"}
      /\ (f.kind = "write" => f.wire # None)
  BY FrameFacts
<1>2. Answer(n, f) \in {"ok", "noauth", "error", "dup", "applied"}
  BY Zenon DEF Answer
<1>3. Answer(n, f) = "applied" => f.kind = "write" /\ ~IsDuplicate(f)
  <2> HIDE DEF IsDuplicate
  <2>1. CASE f.kind = "auth"
    BY <2>1 DEF Answer
  <2>2. CASE f.kind # "auth" /\ ~auth[n]
    BY <2>2 DEF Answer
  <2>3. CASE f.kind \in {"query", "subscribe"} /\ auth[n]
    BY <2>3 DEF Answer
  <2>4. CASE f.kind = "read" /\ auth[n]
    BY <2>4 DEF Answer
  <2>5. CASE f.kind = "write" /\ auth[n]
    BY <2>5 DEF Answer
  <2>6. QED
    BY <1>1, <2>1, <2>2, <2>3, <2>4, <2>5
<1>4. QED
  BY <1>1, <1>2, <1>3, Zenon DEF Answers

\* The server answers a command.
LEMMA ServeTypes ==
    ASSUME Types, SocketsOK, NEW n \in DOMAIN up, Serve(n)
    PROVE  Types' /\ SocketsOK'
<1> USE DEF Types
<1> DEFINE f == Head(up[n])
           answer == Answer(n, f)
           msg == [kind |-> "reply", frame |-> f, answer |-> answer]
<1>1. /\ up[n] # << >> /\ up' = [up EXCEPT ![n] = Tail(up[n])]
      /\ applied' = IF answer = "applied" THEN Append(applied, f.write) ELSE applied
      /\ mark' = IF answer = "applied" THEN [mark EXCEPT ![f.client] = f.wire] ELSE mark
      /\ down' = IF Listening(n) THEN [down EXCEPT ![n] = Append(down[n], msg)] ELSE down
      /\ UNCHANGED <<client, tasks, idb, scenario, clock, issued>>
  BY DEF Serve, browser, bounds
<1>2. up[n] \in Seq(Frame) /\ n \in DOMAIN down /\ down[n] \in Seq(Message)
  BY DEF NetworkTypes
<1>3. f \in Frame /\ Tail(up[n]) \in Seq(Frame)
  BY <1>1, <1>2
<1>4. answer \in Answers /\ (answer = "applied" => f.wire # None)
  BY <1>3, AnswerFacts
<1>5. answer = "applied" => f.client \in Clients /\ f.wire \in Nat /\ f.write \in Nat
  BY <1>3, <1>4, FrameFacts
<1>6. msg \in Message
  BY <1>3, <1>4, MessageFacts
<1> HIDE DEF f, answer, msg
<1>7. up' \in Seq(Seq(Frame)) /\ Len(up') = Len(up) /\ DOMAIN up' = DOMAIN up
  BY <1>1, <1>3, UpSet
<1>8. down' \in Seq(Seq(Message)) /\ Len(down') = Len(down)
  <2>1. Append(down[n], msg) \in Seq(Message)
    BY <1>2, <1>6
  <2>2. CASE Listening(n)
    BY <1>1, <2>1, <2>2, DownSet
  <2>3. CASE ~Listening(n)
    BY <1>1, <2>3 DEF NetworkTypes
  <2>4. QED
    BY <2>2, <2>3
<1>9. NetworkTypes'
  BY <1>7, <1>8 DEF NetworkTypes
<1>10. ServerTypes'
  <2>1. CASE answer = "applied"
    <3>1. mark' = [mark EXCEPT ![f.client] = f.wire] /\ applied' = Append(applied, f.write)
      BY <1>1, <2>1
    <3> DEFINE S == Option(Nat)
    <3>2. f.wire \in S /\ f.write \in Nat
      BY <1>5, <2>1 DEF Option
    <3>3. mark \in Seq(S)
      BY DEF ServerTypes
    <3> HIDE DEF S
    <3>4. mark \in [1..Len(mark) -> S] /\ Len(mark) \in Nat
      BY <3>3
    <3>5. mark' \in [1..Len(mark) -> S]
      BY <3>1, <3>2, <3>4
    <3>6. mark' \in Seq(S)
      BY <3>4, <3>5
    <3>7. applied' \in Seq(Nat)
      BY <3>1, <3>2 DEF ServerTypes
    <3>8. QED
      BY <3>6, <3>7 DEF ServerTypes, S
  <2>2. CASE answer # "applied"
    BY <1>1, <2>2, ServerSame
  <2>3. QED
    BY <2>1, <2>2
<1>11. SocketsOK'
  BY <1>1, <1>7, SocketsSame DEF client
<1>12. QED
  BY <1>1, <1>9, <1>10, <1>11, ClientSame, TaskSame, DiskSame, HistorySame

\* A push.
LEMMA PushTypes ==
    ASSUME Types, SocketsOK, NEW n \in DOMAIN up, Push(n)
    PROVE  Types' /\ SocketsOK'
<1> USE DEF Types
<1> DEFINE msg == [kind |-> "push"]
<1>1. /\ down' = [down EXCEPT ![n] = Append(down[n], msg)]
      /\ UNCHANGED <<client, tasks, idb, up, mark, applied, scenario, clock, issued>>
  BY DEF Push, browser, server, history
<1>2. n \in DOMAIN down /\ down[n] \in Seq(Message) /\ msg \in Message
  BY MessageFacts DEF NetworkTypes
<1> HIDE DEF msg
<1>3. Append(down[n], msg) \in Seq(Message)
  BY <1>2
<1>4. NetworkTypes'
  BY <1>1, <1>3, DownSet
<1>5. QED
  BY <1>1, <1>4, ClientSame, SocketsSame, TaskSame, DiskSame, ServerSame, HistorySame DEF client

\* What an answer too large to parse changes.
LEMMA OvergrowIs ==
    ASSUME Types, NEW n \in DOMAIN up, Overgrow(n)
    PROVE  \E x \in Seq(Message) :
             /\ down' = [down EXCEPT ![n] = x] /\ Len(x) = Len(down[n])
             /\ n \in DOMAIN down /\ down[n] \in Seq(Message)
             /\ \A j \in 1..Len(x) : /\ (x[j].kind = "push") <=> (down[n][j].kind = "push")
                                     /\ down[n][j].kind # "push" => x[j].frame = down[n][j].frame
                                     /\ x[j] = down[n][j] \/ x[j].kind = "huge"
<1>1. PICK i \in DOMAIN down[n] :
         down[n][i].kind = "reply" /\ down' = [down EXCEPT ![n][i].kind = "huge"]
  BY DEF Overgrow
<1>2. n \in DOMAIN down /\ down[n] \in Seq(Message)
  BY DEF Types, NetworkTypes
<1> DEFINE msg == [down[n][i] EXCEPT !.kind = "huge"]
           x == [down[n] EXCEPT ![i] = msg]
<1>3. down[n][i] \in Message
  BY <1>1, <1>2
<1>4. msg \in Message /\ msg.frame = down[n][i].frame /\ msg.kind = "huge"
  BY <1>1, <1>3, MessageFacts
<1>5. down' = [down EXCEPT ![n] = x]
  BY <1>1
<1> HIDE DEF msg
<1>6. down[n] \in [1..Len(down[n]) -> Message] /\ Len(down[n]) \in Nat
  BY <1>2
<1>7. /\ x \in [1..Len(down[n]) -> Message]
      /\ \A j \in 1..Len(down[n]) : x[j] = IF j = i THEN msg ELSE down[n][j]
  BY <1>4, <1>6
<1> HIDE DEF x
<1>8. x \in Seq(Message) /\ Len(x) = Len(down[n])
  BY <1>6, <1>7
<1>9. ASSUME NEW j \in 1..Len(x)
      PROVE  /\ (x[j].kind = "push") <=> (down[n][j].kind = "push")
             /\ down[n][j].kind # "push" => x[j].frame = down[n][j].frame
             /\ x[j] = down[n][j] \/ x[j].kind = "huge"
  <2>1. CASE j = i
    BY <1>1, <1>4, <1>7, <1>8, <2>1
  <2>2. CASE j # i
    BY <1>7, <1>8, <2>2
  <2>3. QED
    BY <2>1, <2>2
<1>10. QED
  BY <1>2, <1>5, <1>8, <1>9

\* An answer too large to parse.
LEMMA OvergrowTypes ==
    ASSUME Types, SocketsOK, NEW n \in DOMAIN up, Overgrow(n)
    PROVE  Types' /\ SocketsOK'
<1> USE DEF Types
<1>1. UNCHANGED <<client, tasks, idb, up, mark, applied, scenario, clock, issued>>
  BY DEF Overgrow, browser, server, history
<1>2. PICK x \in Seq(Message) : down' = [down EXCEPT ![n] = x]
  BY OvergrowIs
<1>3. NetworkTypes'
  BY <1>1, <1>2, DownSet
<1>4. QED
  BY <1>1, <1>3, ClientSame, SocketsSame, TaskSame, DiskSame, ServerSame, HistorySame DEF client

\* The other steps: refusals, time, and none at all.
LEMMA QuietTypes ==
    ASSUME Types, SocketsOK, Refuse \/ Tick \/ UNCHANGED vars
    PROVE  Types' /\ SocketsOK'
<1> USE DEF Types
<1>1. UNCHANGED <<client, tasks, idb, up, down, mark, applied, scenario, issued>>
  BY DEF Refuse, Tick, vars, browser, network, server, bounds, history
<1>2. HistoryTypes'
  <2>1. clock' = clock \/ clock' = clock + 1
    BY DEF Refuse, Tick, vars, bounds
  <2>2. QED
    BY <1>1, <2>1 DEF HistoryTypes
<1>3. QED
  BY <1>1, <1>2, ClientSame, SocketsSame, TaskSame, DiskSame, NetworkSame, ServerSame DEF client

\* The steps of a client or of a socket.
LEMMA Steps ==
    ASSUME [Next]_vars
    PROVE  \/ \E t \in Tabs : \/ (Opened(t, "identity") /\ Browser) \/ (Opened(t, "ready") /\ ~Browser)
                              \/ AdoptIdentity(t) \/ ReadEpoch(t) \/ BumpEpoch(t) \/ RestoreRows(t)
                              \/ ReplaceRows(t) \/ ReplayLog(t) \/ Crash(t) \/ Connect(t)
                              \/ Close(t) \/ BrowserWrite(t) \/ EmbedWrite(t)
                              \/ Read(t) \/ Query(t) \/ Unquery(t)
                              \/ BrowserSubscribe(t) \/ EmbedSubscribe(t) \/ Clear(t)
                              \/ Receive(t) \/ Commit(t)
           \/ \E n \in DOMAIN up : Serve(n) \/ Push(n) \/ Overgrow(n)
           \/ Refuse \/ Tick \/ UNCHANGED vars
BY Zenon DEF Next, Start, OpenBrowser, OpenEmbed

\* Every step keeps the types.
LEMMA TypesStep == Types /\ SocketsOK /\ [Next]_vars => Types' /\ SocketsOK'
<1> SUFFICES ASSUME Types, SocketsOK, [Next]_vars PROVE Types' /\ SocketsOK'
  OBVIOUS
<1> DEFINE OK == Types' /\ SocketsOK'
<1>1. \A t \in Tabs : (Opened(t, "identity") /\ Browser) \/ (Opened(t, "ready") /\ ~Browser) => OK
  BY OpenTypes DEF Phases
<1>2. \A t \in Tabs : AdoptIdentity(t) \/ ReadEpoch(t) \/ BumpEpoch(t) => OK
  BY AdoptIdentityTypes, ReadEpochTypes, BumpEpochTypes
<1>3. \A t \in Tabs : RestoreRows(t) \/ ReplaceRows(t) \/ ReplayLog(t) \/ Crash(t) => OK
  BY RestoreRowsTypes, ReplaceRowsTypes, ReplayLogTypes, CrashTypes
<1>4. \A t \in Tabs : Connect(t) \/ Close(t) \/ BrowserWrite(t) \/ EmbedWrite(t) => OK
  BY ConnectTypes, CloseTypes, BrowserWriteTypes, EmbedWriteTypes
<1>5. ASSUME NEW t \in Tabs, Read(t) \/ Query(t) \/ Unquery(t) PROVE OK
  <2>1. PICK kind \in {"query", "read"}, x \in Core :
           Command(t, kind, x) /\ x.client = core[t].client
    BY <1>5, CommandIs
  <2>2. QED
    BY <2>1, CommandTypes
<1>6. \A t \in Tabs : BrowserSubscribe(t) \/ EmbedSubscribe(t) \/ Clear(t) => OK
  BY BrowserSubscribeTypes, EmbedSubscribeTypes, ClearTypes
<1>7. \A t \in Tabs : Receive(t) \/ Commit(t) => OK
  BY ReceiveTypes, CommitTypes
<1>8. \A n \in DOMAIN up : Serve(n) \/ Push(n) \/ Overgrow(n) => OK
  BY ServeTypes, PushTypes, OvergrowTypes
<1>9. Refuse \/ Tick \/ UNCHANGED vars => OK
  BY QuietTypes
<1> HIDE DEF OK
<1>10. OK
  BY <1>1, <1>2, <1>3, <1>4, <1>5, <1>6, <1>7, <1>8, <1>9, Steps
<1>11. QED
  BY <1>10 DEF OK

-----------------------------------------------------------------------------
(* The commands a client has no answer to yet *)

\* Sequences with the same elements.
LEMMA SeqEqual ==
    ASSUME NEW S, NEW s \in Seq(S), NEW r \in Seq(S), Len(s) = Len(r),
           \A i \in 1..Len(s) : s[i] = r[i]
    PROVE  s = r
OBVIOUS

\* The places of the answers.
Places(msgs) == {i \in DOMAIN msgs : msgs[i].kind # "push"}
\* The commands they answer.
FramesOf(answers) == [i \in 1..Len(answers) |-> answers[i].frame]

\* The answers on the way, and the commands they are for.
LEMMA AnswersFacts ==
    ASSUME NEW msgs \in Seq(Message)
    PROVE  /\ AnswersIn(msgs) = Kept(msgs, Places(msgs)) /\ AnswersIn(msgs) \in Seq(Message)
           /\ FramesOf(AnswersIn(msgs)) \in Seq(Frame)
           /\ Len(FramesOf(AnswersIn(msgs))) = Len(AnswersIn(msgs))
           /\ \A i \in 1..Len(AnswersIn(msgs)) :
                FramesOf(AnswersIn(msgs))[i] = AnswersIn(msgs)[i].frame
<1> DEFINE a == AnswersIn(msgs)
           K == Places(msgs)
<1>1. a = Kept(msgs, K)
  BY DEF AnswersIn, Places
<1>2. a \in Seq(Message) /\ \A m \in 1..Len(a) : \E j \in 1..Len(msgs) : j \in K /\ a[m] = msgs[j]
  <2> HIDE DEF K
  <2>1. QED
    BY <1>1, KeptElements
<1> HIDE DEF a
<1>3. ASSUME NEW m \in 1..Len(a) PROVE a[m].frame \in Frame
  <2>1. PICK j \in 1..Len(msgs) : j \in K /\ a[m] = msgs[j]
    BY <1>2
  <2>2. msgs[j] \in Message /\ msgs[j].kind # "push"
    BY <2>1 DEF Places
  <2>3. QED
    BY <2>1, <2>2, MessageFacts
<1>4. Len(a) \in Nat
  BY <1>2
<1>5. FramesOf(a) \in Seq(Frame) /\ Len(FramesOf(a)) = Len(a)
      /\ \A i \in 1..Len(a) : FramesOf(a)[i] = a[i].frame
  BY <1>3, <1>4 DEF FramesOf
<1>6. QED
  BY <1>1, <1>2, <1>5 DEF a

\* The commands without an answer are those of the answers on the way and those not read yet.
LEMMA UnansweredIs ==
    ASSUME NEW msgs \in Seq(Message), NEW cmds \in Seq(Frame)
    PROVE  LET q == FramesOf(AnswersIn(msgs))
               u == Unanswered(msgs, cmds)
           IN  /\ q \in Seq(Frame) /\ u = q \o cmds /\ u \in Seq(Frame)
               /\ Len(u) = Len(q) + Len(cmds)
               /\ \A i \in 1..Len(q) : u[i] = q[i]
               /\ \A j \in 1..Len(cmds) : u[Len(q) + j] = cmds[j]
<1> DEFINE q == FramesOf(AnswersIn(msgs))
           u == Unanswered(msgs, cmds)
<1>1. q \in Seq(Frame) /\ cmds \in Seq(Frame)
  BY AnswersFacts
<1>2. u = q \o cmds
  BY DEF Unanswered, FramesOf
<1> HIDE DEF q, u
<1>3. /\ q \o cmds \in Seq(Frame) /\ Len(q \o cmds) = Len(q) + Len(cmds)
      /\ \A i \in 1..Len(q) : (q \o cmds)[i] = q[i]
      /\ \A j \in 1..Len(cmds) : (q \o cmds)[Len(q) + j] = cmds[j]
  BY ONLY <1>1, ConcatFacts
<1>4. QED
  BY <1>1, <1>2, <1>3 DEF q, u

\* One more command is sent.
LEMMA UnansweredSend ==
    ASSUME NEW msgs \in Seq(Message), NEW cmds \in Seq(Frame), NEW f \in Frame
    PROVE  Unanswered(msgs, Append(cmds, f)) = Append(Unanswered(msgs, cmds), f)
<1> DEFINE q == FramesOf(AnswersIn(msgs))
           u == Unanswered(msgs, cmds)
           c == Append(cmds, f)
           v == Unanswered(msgs, c)
<1>1. c \in Seq(Frame) /\ Len(c) = Len(cmds) + 1 /\ c[Len(cmds) + 1] = f
      /\ \A j \in 1..Len(cmds) : c[j] = cmds[j]
  OBVIOUS
<1> HIDE DEF c
<1>2. /\ q \in Seq(Frame) /\ u \in Seq(Frame) /\ Len(u) = Len(q) + Len(cmds)
      /\ \A i \in 1..Len(q) : u[i] = q[i]
      /\ \A j \in 1..Len(cmds) : u[Len(q) + j] = cmds[j]
  BY UnansweredIs
<1>3. /\ v \in Seq(Frame) /\ Len(v) = Len(q) + Len(c)
      /\ \A i \in 1..Len(q) : v[i] = q[i]
      /\ \A j \in 1..Len(c) : v[Len(q) + j] = c[j]
  BY <1>1, UnansweredIs
<1> HIDE DEF q, u, v
<1>4. /\ Append(u, f) \in Seq(Frame) /\ Len(Append(u, f)) = Len(u) + 1
      /\ Append(u, f)[Len(u) + 1] = f /\ \A i \in 1..Len(u) : Append(u, f)[i] = u[i]
  BY <1>2
<1>5. Len(q) \in Nat /\ Len(cmds) \in Nat /\ Len(v) = Len(u) + 1
  BY <1>1, <1>2, <1>3
<1>6. ASSUME NEW i \in 1..Len(v) PROVE v[i] = Append(u, f)[i]
  <2>1. CASE i <= Len(q)
    <3>1. i \in 1..Len(q) /\ i \in 1..Len(u)
      BY <1>2, <1>5, <2>1
    <3>2. QED
      BY <1>2, <1>3, <1>4, <3>1
  <2>2. CASE i > Len(q) /\ i # Len(u) + 1
    <3> DEFINE j == i - Len(q)
    <3>0. Len(u) \in Nat /\ i \in Int /\ 1 <= i /\ i <= Len(u)
      BY <1>2, <1>5, <2>2
    <3>1. j \in 1..Len(cmds) /\ Len(q) + j = i /\ i \in 1..Len(u) /\ j \in 1..Len(c)
      BY <1>1, <1>2, <1>5, <2>2, <3>0
    <3> HIDE DEF j
    <3>2. v[Len(q) + j] = cmds[j] /\ u[Len(q) + j] = cmds[j]
      BY <1>1, <1>2, <1>3, <3>1
    <3>3. QED
      BY <1>4, <3>1, <3>2
  <2>3. CASE i = Len(u) + 1
    <3>1. Len(cmds) + 1 \in 1..Len(c) /\ Len(q) + (Len(cmds) + 1) = i
      BY <1>1, <1>2, <1>5, <2>3
    <3>2. v[Len(q) + (Len(cmds) + 1)] = f
      BY <1>1, <1>3, <3>1
    <3>3. QED
      BY <1>4, <2>3, <3>1, <3>2
  <2>4. QED
    BY <1>5, <2>1, <2>2, <2>3
<1>7. v = Append(u, f)
  BY <1>3, <1>4, <1>5, <1>6, SeqEqual
<1>8. QED
  BY <1>7 DEF u, v, c

\* An answer takes the place of its command.
LEMMA UnansweredServe ==
    ASSUME NEW msgs \in Seq(Message), NEW cmds \in Seq(Frame), cmds # << >>,
           NEW m \in Message, m.kind # "push", m.frame = Head(cmds)
    PROVE  Unanswered(Append(msgs, m), Tail(cmds)) = Unanswered(msgs, cmds)
<1> DEFINE ms == Append(msgs, m)
           q == FramesOf(AnswersIn(msgs))
           r == FramesOf(AnswersIn(ms))
           c == Tail(cmds)
           u == Unanswered(msgs, cmds)
           v == Unanswered(ms, c)
<1>1. /\ ms \in Seq(Message) /\ Len(ms) = Len(msgs) + 1 /\ ms[Len(msgs) + 1] = m
      /\ \A i \in 1..Len(msgs) : ms[i] = msgs[i]
      /\ DOMAIN ms = 1..Len(ms) /\ DOMAIN msgs = 1..Len(msgs) /\ Len(msgs) \in Nat
  OBVIOUS
<1>2. /\ c \in Seq(Frame) /\ Len(c) = Len(cmds) - 1 /\ Len(cmds) \in Nat /\ Len(cmds) >= 1
      /\ \A j \in 1..Len(c) : c[j] = cmds[j + 1]
      /\ m.frame = cmds[1]
  OBVIOUS
<1>3. AnswersIn(ms) = Append(AnswersIn(msgs), m)
  <2> DEFINE K == Places(msgs)
             L == Places(ms)
  <2>1. \A i \in 1..Len(msgs) : i \in L <=> i \in K
    BY <1>1 DEF Places
  <2>2. Len(msgs) + 1 \in L
    BY <1>1 DEF Places
  <2> HIDE DEF K, L
  <2>3. Kept(Append(msgs, m), L) = Append(Kept(msgs, K), m)
    BY <2>1, <2>2, KeptAppend
  <2>4. QED
    BY <1>1, <2>3, AnswersFacts DEF K, L
<1>4. /\ r \in Seq(Frame) /\ Len(r) = Len(q) + 1 /\ r[Len(q) + 1] = m.frame
      /\ \A i \in 1..Len(q) : r[i] = q[i]
  <2> DEFINE a == AnswersIn(msgs)
             b == AnswersIn(ms)
  <2>1. a \in Seq(Message) /\ b = Append(a, m)
    BY <1>3, AnswersFacts
  <2>2. Len(q) = Len(a) /\ \A i \in 1..Len(a) : q[i] = a[i].frame
    BY AnswersFacts
  <2>3. r \in Seq(Frame) /\ Len(r) = Len(b) /\ \A i \in 1..Len(b) : r[i] = b[i].frame
    BY <1>1, AnswersFacts
  <2> HIDE DEF a, b, q, r
  <2>4. /\ Len(b) = Len(a) + 1 /\ b[Len(a) + 1] = m /\ \A i \in 1..Len(a) : b[i] = a[i]
        /\ Len(a) \in Nat
    BY <2>1
  <2>5. QED
    BY <2>2, <2>3, <2>4
<1>5. /\ q \in Seq(Frame) /\ u \in Seq(Frame) /\ Len(u) = Len(q) + Len(cmds)
      /\ \A i \in 1..Len(q) : u[i] = q[i]
      /\ \A j \in 1..Len(cmds) : u[Len(q) + j] = cmds[j]
  BY UnansweredIs
<1>6. /\ v \in Seq(Frame) /\ Len(v) = Len(r) + Len(c)
      /\ \A i \in 1..Len(r) : v[i] = r[i]
      /\ \A j \in 1..Len(c) : v[Len(r) + j] = c[j]
  <2> HIDE DEF ms, c
  <2>1. QED
    BY <1>1, <1>2, UnansweredIs
<1> HIDE DEF q, r, u, v, c, ms
<1>7. Len(q) \in Nat /\ Len(u) = Len(v)
  BY <1>2, <1>4, <1>5, <1>6
<1>8. ASSUME NEW i \in 1..Len(v) PROVE v[i] = u[i]
  <2>1. CASE i <= Len(q)
    <3>1. i \in 1..Len(q) /\ i \in 1..Len(r)
      BY <1>4, <1>7, <2>1
    <3>2. QED
      BY <1>4, <1>5, <1>6, <3>1
  <2>2. CASE i = Len(q) + 1
    <3>1. i \in 1..Len(r) /\ 1 \in 1..Len(cmds)
      BY <1>2, <1>4, <1>7, <2>2
    <3>2. v[i] = m.frame
      BY <1>4, <1>6, <2>2, <3>1
    <3>3. u[Len(q) + 1] = cmds[1]
      BY <1>5, <3>1
    <3>4. QED
      BY <1>2, <2>2, <3>2, <3>3
  <2>3. CASE i > Len(q) + 1
    <3> DEFINE j == i - Len(r)
    <3>1. j \in 1..Len(c) /\ Len(r) + j = i /\ j + 1 \in 1..Len(cmds) /\ Len(q) + (j + 1) = i
      BY <1>2, <1>4, <1>6, <1>7, <2>3
    <3> HIDE DEF j
    <3>2. v[Len(r) + j] = c[j] /\ c[j] = cmds[j + 1]
      BY <1>2, <1>6, <3>1
    <3>3. u[Len(q) + (j + 1)] = cmds[j + 1]
      BY <1>5, <3>1
    <3>4. QED
      BY <3>1, <3>2, <3>3
  <2>4. QED
    BY <1>7, <2>1, <2>2, <2>3
<1>9. v = u
  BY <1>5, <1>6, <1>7, <1>8, SeqEqual
<1>10. QED
  BY <1>9 DEF u, v, ms, c

\* A push changes nothing, when it is sent or read.
LEMMA UnansweredPush ==
    ASSUME NEW msgs \in Seq(Message), NEW cmds, NEW m \in Message, m.kind = "push"
    PROVE  Unanswered(Append(msgs, m), cmds) = Unanswered(msgs, cmds)
<1> DEFINE ms == Append(msgs, m)
           K == Places(msgs)
           L == Places(ms)
<1>1. /\ ms \in Seq(Message) /\ Len(ms) = Len(msgs) + 1 /\ ms[Len(msgs) + 1] = m
      /\ \A i \in 1..Len(msgs) : ms[i] = msgs[i]
      /\ DOMAIN ms = 1..Len(ms) /\ DOMAIN msgs = 1..Len(msgs) /\ Len(msgs) \in Nat
  OBVIOUS
<1>2. \A i \in 1..Len(msgs) : i \in L <=> i \in K
  BY <1>1 DEF Places
<1>3. Len(msgs) + 1 \notin L
  BY <1>1 DEF Places
<1> HIDE DEF K, L
<1>4. Kept(Append(msgs, m), L) = Kept(msgs, K)
  BY <1>2, <1>3, KeptAppend
<1>5. AnswersIn(ms) = AnswersIn(msgs)
  BY <1>1, <1>4, AnswersFacts DEF K, L
<1>6. QED
  BY <1>5 DEF Unanswered

\* A frame is read: an answer takes the first command, a push none.
LEMMA UnansweredRead ==
    ASSUME NEW msgs \in Seq(Message), msgs # << >>, NEW cmds \in Seq(Frame)
    PROVE  /\ Head(msgs).kind = "push" => Unanswered(Tail(msgs), cmds) = Unanswered(msgs, cmds)
           /\ Head(msgs).kind # "push" =>
                /\ Unanswered(msgs, cmds) # << >>
                /\ Unanswered(Tail(msgs), cmds) = Tail(Unanswered(msgs, cmds))
<1> DEFINE ms == Tail(msgs)
           K == Places(msgs)
           L == Places(ms)
<1>1. /\ ms \in Seq(Message) /\ Len(ms) = Len(msgs) - 1 /\ Len(msgs) \in Nat /\ Len(msgs) >= 1
      /\ \A i \in 1..Len(ms) : ms[i] = msgs[i + 1]
      /\ Head(msgs) = msgs[1] /\ DOMAIN ms = 1..Len(ms) /\ DOMAIN msgs = 1..Len(msgs)
  OBVIOUS
<1>2. \A i \in 1..(Len(msgs) - 1) : i \in L <=> i + 1 \in K
  BY <1>1 DEF Places
<1>3. 1 \in K <=> Head(msgs).kind # "push"
  BY <1>1 DEF Places
<1> HIDE DEF K, L
<1>4. /\ 1 \notin K => Kept(Tail(msgs), L) = Kept(msgs, K)
      /\ 1 \in K => Kept(msgs, K) # << >> /\ Kept(Tail(msgs), L) = Tail(Kept(msgs, K))
  BY <1>2, KeptTail
<1>5. AnswersIn(msgs) = Kept(msgs, K) /\ AnswersIn(ms) = Kept(ms, L)
  BY <1>1, AnswersFacts DEF K, L
<1>6. CASE Head(msgs).kind = "push"
  <2>1. AnswersIn(ms) = AnswersIn(msgs)
    BY <1>3, <1>4, <1>5, <1>6
  <2>2. QED
    BY <1>6, <2>1 DEF Unanswered
<1>7. CASE Head(msgs).kind # "push"
  <2> DEFINE a == AnswersIn(msgs)
             b == AnswersIn(ms)
             q == FramesOf(a)
             r == FramesOf(b)
             u == Unanswered(msgs, cmds)
             v == Unanswered(ms, cmds)
  <2>1. a # << >> /\ b = Tail(a) /\ a \in Seq(Message)
    BY <1>3, <1>4, <1>5, <1>7, AnswersFacts
  <2>2. /\ q \in Seq(Frame) /\ u \in Seq(Frame) /\ Len(u) = Len(q) + Len(cmds)
        /\ \A i \in 1..Len(q) : u[i] = q[i]
        /\ \A j \in 1..Len(cmds) : u[Len(q) + j] = cmds[j]
    BY UnansweredIs
  <2>3. /\ r \in Seq(Frame) /\ v \in Seq(Frame) /\ Len(v) = Len(r) + Len(cmds)
        /\ \A i \in 1..Len(r) : v[i] = r[i]
        /\ \A j \in 1..Len(cmds) : v[Len(r) + j] = cmds[j]
    <3> HIDE DEF ms
    <3>1. QED
      BY <1>1, UnansweredIs
  <2>4. Len(q) = Len(a) /\ \A i \in 1..Len(a) : q[i] = a[i].frame
    BY AnswersFacts
  <2>5. Len(r) = Len(b) /\ \A i \in 1..Len(b) : r[i] = b[i].frame
    BY <1>1, AnswersFacts
  <2> HIDE DEF a, b, q, r, u, v
  <2>6. Len(b) = Len(a) - 1 /\ Len(a) \in Nat /\ Len(a) >= 1 /\ \A i \in 1..Len(b) : b[i] = a[i + 1]
    BY <2>1
  <2>7. Len(cmds) \in Nat /\ Len(u) >= 1 /\ Len(v) = Len(u) - 1
    BY <2>2, <2>3, <2>4, <2>5, <2>6
  <2>8. u # << >> /\ Tail(u) \in Seq(Frame) /\ Len(Tail(u)) = Len(u) - 1
        /\ \A i \in 1..(Len(u) - 1) : Tail(u)[i] = u[i + 1]
    BY <2>2, <2>7
  <2>9. ASSUME NEW i \in 1..Len(v) PROVE v[i] = Tail(u)[i]
    <3>1. CASE i <= Len(r)
      <4>1. i \in 1..Len(r) /\ i \in 1..Len(b) /\ i + 1 \in 1..Len(q) /\ i + 1 \in 1..Len(a)
            /\ i \in 1..(Len(u) - 1)
        BY <2>4, <2>5, <2>6, <2>7, <3>1
      <4>2. v[i] = a[i + 1].frame
        BY <2>3, <2>5, <2>6, <4>1
      <4>3. u[i + 1] = a[i + 1].frame
        BY <2>2, <2>4, <4>1
      <4>4. QED
        BY <2>8, <4>1, <4>2, <4>3
    <3>2. CASE i > Len(r)
      <4> DEFINE j == i - Len(r)
      <4>1. j \in 1..Len(cmds) /\ Len(r) + j = i /\ Len(q) + j = i + 1 /\ i \in 1..(Len(u) - 1)
        <5>1. /\ Len(r) \in Nat /\ Len(cmds) \in Nat /\ Len(q) = Len(r) + 1
              /\ Len(v) = Len(r) + Len(cmds) /\ Len(v) = Len(u) - 1
          BY <2>3, <2>4, <2>5, <2>6, <2>7
        <5>2. i \in Nat /\ i >= 1 /\ i <= Len(v)
          BY <5>1
        <5>3. QED
          BY <3>2, <5>1, <5>2
      <4> HIDE DEF j
      <4>2. v[Len(r) + j] = cmds[j] /\ u[Len(q) + j] = cmds[j]
        BY <2>2, <2>3, <4>1
      <4>3. QED
        BY <2>8, <4>1, <4>2
    <3>3. Len(r) \in Nat /\ i \in Int
      BY <2>5, <2>6
    <3>4. i <= Len(r) \/ i > Len(r)
      BY <3>3
    <3>5. QED
      BY <3>1, <3>2, <3>4
  <2>10. v = Tail(u)
    BY <2>3, <2>7, <2>8, <2>9, SeqEqual
  <2>11. QED
    BY <1>7, <2>8, <2>10 DEF u, v
<1>8. QED
  BY <1>6, <1>7

\* An answer that has grown too large is still for the same command.
LEMMA UnansweredHuge ==
    ASSUME NEW msgs \in Seq(Message), NEW ms \in Seq(Message), NEW cmds, Len(ms) = Len(msgs),
           \A j \in 1..Len(ms) : /\ (ms[j].kind = "push") <=> (msgs[j].kind = "push")
                                 /\ msgs[j].kind # "push" => ms[j].frame = msgs[j].frame
    PROVE  Unanswered(ms, cmds) = Unanswered(msgs, cmds)
<1> DEFINE K == Places(msgs)
<1>1. Places(ms) = K /\ \A i \in 1..Len(msgs) : i \in K => ms[i].frame = msgs[i].frame
  BY DEF Places
<1> HIDE DEF K
<1>2. /\ Len(Kept(ms, K)) = Len(Kept(msgs, K))
      /\ \A m \in 1..Len(Kept(msgs, K)) : Kept(ms, K)[m].frame = Kept(msgs, K)[m].frame
  BY <1>1, KeptExchange
<1>3. AnswersIn(msgs) = Kept(msgs, K) /\ AnswersIn(ms) = Kept(ms, K)
  BY <1>1, AnswersFacts DEF K
<1>4. FramesOf(AnswersIn(ms)) = FramesOf(AnswersIn(msgs))
  BY <1>2, <1>3 DEF FramesOf
<1>5. QED
  BY <1>4 DEF Unanswered, FramesOf

-----------------------------------------------------------------------------
(* Slots *)

\* The elements of sequences that are made from others.
LEMMA ElementsOf ==
    ASSUME NEW S, NEW s \in Seq(S)
    PROVE  /\ \A x \in S : ToSet(Append(s, x)) = ToSet(s) \cup {x}
           /\ s # << >> => ToSet(Tail(s)) \subseteq ToSet(s)
           /\ \A K : ToSet(Kept(s, K)) \subseteq ToSet(s)
           /\ ToSet(s) \subseteq S
<1>0. DOMAIN s = 1..Len(s) /\ Len(s) \in Nat
  OBVIOUS
<1>1. ASSUME NEW x \in S PROVE ToSet(Append(s, x)) = ToSet(s) \cup {x}
  <2> DEFINE r == Append(s, x)
  <2>1. /\ DOMAIN r = 1..(Len(s) + 1) /\ r[Len(s) + 1] = x /\ \A i \in 1..Len(s) : r[i] = s[i]
    OBVIOUS
  <2> HIDE DEF r
  <2>2. ASSUME NEW y \in ToSet(r) PROVE y \in ToSet(s) \cup {x}
    <3>1. PICK i \in DOMAIN r : y = r[i]
      BY DEF ToSet
    <3>2. CASE i = Len(s) + 1
      BY <2>1, <3>1, <3>2
    <3>3. CASE i # Len(s) + 1
      <4>1. i \in 1..Len(s)
        BY <1>0, <2>1, <3>3
      <4>2. QED
        BY <1>0, <2>1, <3>1, <4>1 DEF ToSet
    <3>4. QED
      BY <3>2, <3>3
  <2>3. x \in ToSet(r)
    <3>1. Len(s) + 1 \in DOMAIN r
      BY <1>0, <2>1
    <3>2. QED
      BY <2>1, <3>1 DEF ToSet
  <2>4. ASSUME NEW y \in ToSet(s) PROVE y \in ToSet(r)
    <3>1. PICK i \in DOMAIN s : y = s[i]
      BY DEF ToSet
    <3>2. i \in DOMAIN r /\ r[i] = s[i]
      BY <1>0, <2>1
    <3>3. QED
      BY <3>1, <3>2 DEF ToSet
  <2>5. QED
    BY <2>2, <2>3, <2>4 DEF r
<1>2. ASSUME s # << >> PROVE ToSet(Tail(s)) \subseteq ToSet(s)
  <2>1. \A i \in DOMAIN Tail(s) : i + 1 \in DOMAIN s /\ Tail(s)[i] = s[i + 1]
    BY <1>2
  <2>2. QED
    BY <2>1 DEF ToSet
<1>3. ASSUME NEW K PROVE ToSet(Kept(s, K)) \subseteq ToSet(s)
  <2> DEFINE r == Kept(s, K)
  <2>1. r \in Seq(S) /\ \A m \in 1..Len(r) : \E j \in 1..Len(s) : j \in K /\ r[m] = s[j]
    BY KeptElements
  <2> HIDE DEF r
  <2>2. \A m \in DOMAIN r : \E j \in DOMAIN s : r[m] = s[j]
    BY <2>1
  <2>3. QED
    BY <2>2 DEF ToSet, r
<1>4. ToSet(s) \subseteq S
  BY DEF ToSet
<1>5. QED
  BY <1>1, <1>2, <1>3, <1>4

\* A command of the session takes a slot without a row.
LEMMA SlotsSession ==
    ASSUME NEW slots \in Seq(Option(Nat)), NEW frames \in Seq(Frame), NEW outbox \in Seq(Row),
           SlotsFor(slots, frames, outbox), NEW f \in SessionFrameSet
    PROVE  SlotsFor(Append(slots, None), Append(frames, f), outbox)
<1> DEFINE s == Append(slots, None)
           g == Append(frames, f)
           n == Len(slots)
<1>1. f \in Frame /\ f.client = None
  BY FrameFacts DEF Frame
<1>2. /\ Len(s) = n + 1 /\ s[n + 1] = None /\ n \in Nat /\ DOMAIN s = 1..(n + 1)
      /\ DOMAIN slots = 1..n /\ \A i \in 1..n : s[i] = slots[i]
  BY DEF Option
<1>3. Len(frames) = n
  BY DEF SlotsFor
<1>4. Len(g) = n + 1 /\ g[n + 1] = f /\ \A i \in 1..n : g[i] = frames[i]
  BY <1>1, <1>3
<1>5. \A row \in ToSet(outbox) : row.id \in Nat
  BY ElementsOf, RowFacts
<1> HIDE DEF s, g
<1>6. ASSUME NEW i \in DOMAIN s
      PROVE  /\ (s[i] = None) <=> (g[i].client = None)
             /\ \A row \in ToSet(outbox) : row.id = s[i] => row.frame = g[i]
  <2>1. CASE i = n + 1
    BY <1>1, <1>2, <1>4, <1>5, <2>1, NoneFacts
  <2>2. CASE i # n + 1
    <3>1. i \in 1..n
      BY <1>2, <2>2
    <3>2. QED
      BY <1>2, <1>4, <3>1 DEF SlotsFor
  <2>3. QED
    BY <2>1, <2>2
<1>7. QED
  BY <1>2, <1>4, <1>6 DEF SlotsFor, s, g

\* A row takes a slot of its own.
LEMMA SlotsEnqueue ==
    ASSUME NEW slots \in Seq(Option(Nat)), NEW frames \in Seq(Frame), NEW outbox \in Seq(Row),
           SlotsFor(slots, frames, outbox), NEW seq \in Nat, NEW f \in RowFrame,
           NEW kept \in Seq(Row), ToSet(kept) \subseteq ToSet(outbox),
           \A row \in ToSet(outbox) : row.id < seq, \A i \in DOMAIN slots : slots[i] < seq
    PROVE  SlotsFor(Append(slots, seq), Append(frames, f),
                    Append(kept, [id |-> seq, frame |-> f]))
<1> DEFINE s == Append(slots, seq)
           g == Append(frames, f)
           n == Len(slots)
           new == [id |-> seq, frame |-> f]
           rows == Append(kept, new)
<1>1. f \in Frame /\ f.client # None
  <2>1. f \in Frame
    BY DEF Frame
  <2>2. f.client \in Clients
    BY <2>1, FrameFacts
  <2>3. QED
    BY <2>1, <2>2, NoneFacts DEF Clients
<1>2. /\ Len(s) = n + 1 /\ s[n + 1] = seq /\ n \in Nat /\ DOMAIN s = 1..(n + 1)
      /\ DOMAIN slots = 1..n /\ \A i \in 1..n : s[i] = slots[i]
  BY DEF Option
<1>3. Len(frames) = n
  BY DEF SlotsFor
<1>4. Len(g) = n + 1 /\ g[n + 1] = f /\ \A i \in 1..n : g[i] = frames[i]
  BY <1>1, <1>3
<1>5. ToSet(rows) \subseteq ToSet(outbox) \cup {new}
  <2>1. new \in Row
    BY RowFacts
  <2>2. ToSet(rows) = ToSet(kept) \cup {new}
    <3> HIDE DEF new
    <3>1. QED
      BY <2>1, ElementsOf
  <2>3. QED
    BY <2>2
<1>6. new.id = seq /\ new.frame = f
  OBVIOUS
<1>7. seq # None /\ \A i \in DOMAIN slots : slots[i] # seq
  <2>1. \A i \in DOMAIN slots : slots[i] \in Int
    BY NoneFacts DEF Option
  <2>2. QED
    BY <2>1, NoneFacts
<1>8. \A row \in ToSet(outbox) : row.id # seq
  <2>1. \A row \in ToSet(outbox) : row.id \in Nat
    BY ElementsOf, RowFacts
  <2>2. QED
    BY <2>1
<1> HIDE DEF s, g, new, rows
<1>9. ASSUME NEW i \in DOMAIN s
      PROVE  /\ (s[i] = None) <=> (g[i].client = None)
             /\ \A row \in ToSet(rows) : row.id = s[i] => row.frame = g[i]
  <2>1. CASE i = n + 1
    <3>1. s[i] = seq /\ g[i] = f
      BY <1>2, <1>4, <2>1
    <3>2. QED
      BY <1>1, <1>5, <1>6, <1>7, <1>8, <3>1
  <2>2. CASE i # n + 1
    <3>1. i \in 1..n
      BY <1>2, <2>2
    <3>2. s[i] = slots[i] /\ g[i] = frames[i] /\ i \in DOMAIN slots
      BY <1>2, <1>4, <3>1
    <3>3. slots[i] # seq
      BY <1>7, <3>2
    <3>4. QED
      BY <1>5, <1>6, <3>2, <3>3 DEF SlotsFor
  <2>3. QED
    BY <2>1, <2>2
<1>10. QED
  BY <1>2, <1>4, <1>9 DEF SlotsFor, s, g, new, rows

\* An answer takes the first slot.
LEMMA SlotsAck ==
    ASSUME NEW slots \in Seq(Option(Nat)), NEW frames \in Seq(Frame), NEW outbox,
           SlotsFor(slots, frames, outbox), slots # << >>, NEW kept, ToSet(kept) \subseteq ToSet(outbox)
    PROVE  SlotsFor(Tail(slots), Tail(frames), kept)
<1>1. Len(slots) = Len(frames) /\ Len(slots) \in Nat /\ Len(slots) >= 1
  BY DEF SlotsFor
<1>2. /\ Len(Tail(slots)) = Len(slots) - 1 /\ Len(Tail(frames)) = Len(slots) - 1
      /\ \A i \in DOMAIN Tail(slots) : /\ i + 1 \in DOMAIN slots
                                       /\ Tail(slots)[i] = slots[i + 1]
                                       /\ Tail(frames)[i] = frames[i + 1]
  BY <1>1
<1>3. QED
  BY <1>2 DEF SlotsFor

\* Waiters come and go with the commands.
LEMMA WaitersStep ==
    ASSUME NEW slots \in Seq(Option(Nat)), NEW frames \in Seq(Frame), WaitersFor(slots, frames)
    PROVE  /\ \A f \in Frame : \A w \in {None, f.write} : WaitersFor(Append(slots, w), Append(frames, f))
           /\ frames # << >> => slots # << >> /\ WaitersFor(Tail(slots), Tail(frames))
<1>1. Len(slots) = Len(frames) /\ Len(slots) \in Nat
  BY DEF WaitersFor
<1>2. ASSUME NEW f \in Frame, NEW w \in {None, f.write}
      PROVE  WaitersFor(Append(slots, w), Append(frames, f))
  <2> DEFINE n == Len(slots)
             s == Append(slots, w)
             g == Append(frames, f)
  <2>0. w \in Option(Nat)
    BY FrameFacts DEF Option
  <2>1. Len(s) = n + 1 /\ s[n + 1] = w /\ \A i \in 1..n : s[i] = slots[i]
    BY <2>0
  <2>2. Len(g) = n + 1 /\ g[n + 1] = f /\ DOMAIN g = 1..(n + 1) /\ \A i \in 1..n : g[i] = frames[i]
    BY <1>1
  <2> HIDE DEF s, g
  <2>3. ASSUME NEW i \in DOMAIN g PROVE s[i] \in {None, g[i].write}
    <3>1. CASE i = n + 1
      BY <2>1, <2>2, <3>1
    <3>2. CASE i # n + 1
      <4>1. i \in 1..n /\ i \in DOMAIN frames
        BY <1>1, <2>2, <3>2
      <4>2. QED
        BY <2>1, <2>2, <4>1 DEF WaitersFor
    <3>3. QED
      BY <3>1, <3>2
  <2>4. QED
    BY <2>1, <2>2, <2>3 DEF WaitersFor, s, g
<1>3. ASSUME frames # << >> PROVE slots # << >> /\ WaitersFor(Tail(slots), Tail(frames))
  <2>1. slots # << >>
    BY <1>1, <1>3
  <2>2. /\ Len(Tail(slots)) = Len(slots) - 1 /\ Len(Tail(frames)) = Len(slots) - 1
        /\ \A i \in DOMAIN Tail(frames) : /\ i + 1 \in DOMAIN frames
                                          /\ Tail(slots)[i] = slots[i + 1]
                                          /\ Tail(frames)[i] = frames[i + 1]
    BY <1>1, <1>3, <2>1
  <2>3. QED
    BY <2>1, <2>2 DEF WaitersFor
<1>4. QED
  BY <1>2, <1>3

-----------------------------------------------------------------------------
(* The rows keep their numbers in order *)

\* Without rows and slots there is nothing to keep in order.
LEMMA RowsEmpty == ASSUME NEW c, c.outbox = << >>, c.inflight = << >> PROVE RowsOK(c)
BY DEF RowsOK

\* A slot without a row.
LEMMA RowsSession ==
    ASSUME NEW c \in Core, RowsOK(c), NEW x, x.outbox = c.outbox, x.seq = c.seq,
           x.inflight = c.inflight \/ x.inflight = Append(c.inflight, None)
    PROVE  RowsOK(x)
<1>1. c.inflight \in Seq(Option(Nat)) /\ c.seq \in Nat
  BY CoreFields
<1>2. \A i \in DOMAIN x.inflight : x.inflight[i] < x.seq
  <2>1. CASE x.inflight = c.inflight
    BY <2>1 DEF RowsOK
  <2>2. CASE x.inflight = Append(c.inflight, None)
    <3> DEFINE s == c.inflight
               r == Append(s, None)
    <3>1. s \in Seq(Option(Nat)) /\ None \in Option(Nat)
      BY <1>1 DEF Option
    <3>2. DOMAIN r = 1..(Len(s) + 1) /\ r[Len(s) + 1] = None /\ DOMAIN s = 1..Len(s)
          /\ Len(s) \in Nat /\ \A i \in 1..Len(s) : r[i] = s[i]
      BY <3>1
    <3>3. \A i \in 1..Len(s) : s[i] < c.seq
      BY <3>2 DEF RowsOK
    <3>4. None < c.seq
      BY <1>1, NoneFacts
    <3> HIDE DEF s, r
    <3>5. \A i \in DOMAIN r : r[i] < c.seq
      <4>1. \A i \in DOMAIN r : i = Len(s) + 1 \/ i \in 1..Len(s)
        BY <3>2
      <4>2. QED
        BY <3>2, <3>3, <3>4, <4>1
    <3>6. QED
      BY <2>2, <3>5 DEF r, s
  <2>3. QED
    BY <2>1, <2>2
<1>3. QED
  BY <1>2 DEF RowsOK

\* A new row has the next number.
LEMMA RowsEnqueue ==
    ASSUME NEW c \in Core, RowsOK(c), NEW e, NEW write, NEW wire, NEW connected,
           Enqueues(c, e, write, wire, connected)
    PROVE  /\ RowsOK(e.core)
           /\ \E kept \in Seq(Row) : /\ ToSet(kept) \subseteq ToSet(c.outbox)
                                     /\ e.core.outbox = Append(kept, [id |-> c.seq, frame |-> e.frame])
<1> DEFINE kept == IF Len(c.outbox) >= MaxPending THEN Tail(c.outbox) ELSE c.outbox
           new == [id |-> c.seq, frame |-> e.frame]
           o == c.outbox
           n == Len(kept)
           rows == Append(kept, new)
<1>1. o \in Seq(Row) /\ c.inflight \in Seq(Option(Nat)) /\ c.seq \in Nat
  BY CoreFields
<1>2. /\ kept \in Seq(Row) /\ e.core.outbox = rows /\ e.core.seq = c.seq + 1
      /\ e.core.inflight = (IF connected THEN Append(c.inflight, c.seq) ELSE c.inflight)
      /\ e.frame \in RowFrame
  BY DEF Enqueues
<1>3. new \in Row /\ new.id = c.seq
  BY <1>1, <1>2, RowFacts
<1>4. \A i \in DOMAIN o : o[i].id < c.seq /\ o[i].id \in Nat
  <2>1. \A i \in DOMAIN o : o[i] \in Row
    BY <1>1
  <2>2. QED
    BY <2>1, RowFacts DEF RowsOK
<1>5. \A i, j \in DOMAIN o : i < j => o[i].id < o[j].id
  BY DEF RowsOK
<1>6. \E d \in {0, 1} : \A i \in DOMAIN kept : i + d \in DOMAIN o /\ kept[i] = o[i + d]
  <2>1. CASE Len(o) >= MaxPending
    <3>1. MaxPending \in Nat \ {0}
      BY SyncClientAssumption
    <3>2. o # << >> /\ kept = Tail(o)
      BY <1>1, <2>1, <3>1
    <3> HIDE DEF kept, o
    <3>3. \A i \in DOMAIN kept : i + 1 \in DOMAIN o /\ kept[i] = o[i + 1]
      BY <1>1, <3>2
    <3>4. QED
      BY <3>3
  <2>2. CASE ~(Len(o) >= MaxPending)
    <3>1. kept = o
      BY <2>2
    <3>2. \A i \in DOMAIN o : i + 0 \in DOMAIN o /\ o[i] = o[i + 0]
      BY <1>1
    <3> HIDE DEF kept, o
    <3>3. QED
      BY <3>1, <3>2
  <2>3. QED
    BY <2>1, <2>2
<1> HIDE DEF kept, new, o
<1>7. PICK d \in {0, 1} : \A i \in DOMAIN kept : i + d \in DOMAIN o /\ kept[i] = o[i + d]
  BY <1>6
<1>8. /\ DOMAIN rows = 1..(n + 1) /\ DOMAIN kept = 1..n /\ n \in Nat /\ rows[n + 1] = new
      /\ \A i \in 1..n : rows[i] = kept[i]
  BY <1>2, <1>3
<1> HIDE DEF rows
<1>9. \A i \in 1..n : rows[i].id < c.seq
  BY <1>4, <1>7, <1>8
<1>10. ASSUME NEW i \in DOMAIN rows, NEW j \in DOMAIN rows, i < j PROVE rows[i].id < rows[j].id
  <2>1. i \in 1..n
    BY <1>8, <1>10
  <2>2. CASE j = n + 1
    BY <1>3, <1>8, <1>9, <2>1, <2>2
  <2>3. CASE j # n + 1
    <3>1. j \in 1..n
      BY <1>8, <2>3
    <3>2. i + d < j + d /\ i + d \in DOMAIN o /\ j + d \in DOMAIN o
      BY <1>7, <1>8, <1>10, <2>1, <3>1
    <3>3. o[i + d].id < o[j + d].id
      BY <1>5, <3>2
    <3>4. QED
      BY <1>7, <1>8, <2>1, <3>1, <3>3
  <2>4. QED
    BY <2>2, <2>3
<1>11. \A i \in DOMAIN rows : rows[i].id < c.seq + 1
  <2>1. ASSUME NEW i \in DOMAIN rows PROVE rows[i].id < c.seq + 1
    <3>1. CASE i = n + 1
      BY <1>1, <1>3, <1>8, <3>1
    <3>2. CASE i # n + 1
      <4>1. i \in 1..n
        BY <1>8, <3>2
      <4>2. rows[i].id \in Nat /\ rows[i].id < c.seq
        BY <1>4, <1>7, <1>8, <4>1
      <4>3. QED
        BY <1>1, <4>2
    <3>3. QED
      BY <3>1, <3>2
  <2>2. QED
    BY <2>1
<1>12. \A i \in DOMAIN e.core.inflight : e.core.inflight[i] < c.seq + 1
  <2> DEFINE s == c.inflight
  <2>1. /\ DOMAIN s = 1..Len(s) /\ Len(s) \in Nat /\ \A i \in 1..Len(s) : s[i] \in Int
    <3>1. \A i \in 1..Len(s) : s[i] \in Option(Nat)
      BY <1>1
    <3>2. QED
      BY <1>1, <3>1, NoneFacts DEF Option
  <2>2. \A i \in 1..Len(s) : s[i] < c.seq + 1
    <3>1. \A i \in 1..Len(s) : s[i] < c.seq
      BY <2>1 DEF RowsOK
    <3>2. QED
      BY <1>1, <2>1, <3>1
  <2>3. CASE connected
    <3> DEFINE r == Append(s, c.seq)
    <3>1. DOMAIN r = 1..(Len(s) + 1) /\ r[Len(s) + 1] = c.seq /\ \A i \in 1..Len(s) : r[i] = s[i]
      BY <1>1 DEF Option
    <3>2. e.core.inflight = r
      BY <1>2, <2>3
    <3> HIDE DEF r, s
    <3>3. \A i \in DOMAIN r : i = Len(s) + 1 \/ i \in 1..Len(s)
      BY <2>1, <3>1
    <3>4. c.seq < c.seq + 1
      BY <1>1
    <3>5. QED
      BY <2>2, <3>1, <3>2, <3>3, <3>4
  <2>4. CASE ~connected
    BY <1>2, <2>1, <2>2, <2>4
  <2>5. QED
    BY <2>3, <2>4
<1>13. RowsOK(e.core)
  BY <1>2, <1>10, <1>11, <1>12 DEF RowsOK
<1>14. ToSet(kept) \subseteq ToSet(c.outbox)
  BY <1>7 DEF ToSet, o
<1>15. QED
  BY <1>2, <1>13, <1>14 DEF rows, new

\* What is left of the rows after an answer is in order.
LEMMA RowsAck ==
    ASSUME NEW c \in Core, RowsOK(c), c.inflight # << >>
    PROVE  RowsOK(AckReply(c).core) /\ ToSet(AckReply(c).core.outbox) \subseteq ToSet(c.outbox)
<1> DEFINE x == AckReply(c).core
           o == c.outbox
           K == Others(c)
<1>1. x.outbox = Kept(o, K) /\ x.inflight = Tail(c.inflight) /\ x.seq = c.seq
  BY AckType
<1>2. o \in Seq(Row) /\ c.inflight \in Seq(Option(Nat))
  BY CoreFields
<1> HIDE DEF x, K
<1>3. ToSet(x.outbox) \subseteq ToSet(o)
  BY <1>1, <1>2, ElementsOf
<1>4. x.outbox \in Seq(Row)
  BY <1>1, <1>2, KeptElements
<1>5. ASSUME NEW m \in DOMAIN x.outbox, NEW n \in DOMAIN x.outbox, m < n
      PROVE  x.outbox[m].id < x.outbox[n].id
  <2>1. m \in 1..Len(Kept(o, K)) /\ n \in 1..Len(Kept(o, K))
    BY <1>1, <1>4
  <2>a. o \in Seq(Row) /\ m < n
    BY <1>2, <1>5
  <2> HIDE DEF o
  <2>b. \E i, j \in 1..Len(o) : i < j /\ Kept(o, K)[m] = o[i] /\ Kept(o, K)[n] = o[j]
    <3>1. \A a, b \in 1..Len(Kept(o, K)) : a < b =>
             \E i, j \in 1..Len(o) : i < j /\ Kept(o, K)[a] = o[i] /\ Kept(o, K)[b] = o[j]
      BY <2>a, KeptOrder
    <3>2. QED
      BY <2>1, <2>a, <3>1
  <2> USE DEF o
  <2>2. PICK i \in 1..Len(o), j \in 1..Len(o) :
           i < j /\ Kept(o, K)[m] = o[i] /\ Kept(o, K)[n] = o[j]
    BY <2>b
  <2>3. i \in DOMAIN o /\ j \in DOMAIN o
    BY <1>2
  <2>4. o[i].id < o[j].id
    BY <2>2, <2>3 DEF RowsOK
  <2>5. QED
    BY <1>1, <2>2, <2>4
<1>6. \A m \in DOMAIN x.outbox : x.outbox[m].id < c.seq
  <2>1. \A row \in ToSet(o) : row.id < c.seq
    BY DEF ToSet, RowsOK
  <2>2. \A m \in DOMAIN x.outbox : x.outbox[m] \in ToSet(x.outbox)
    BY DEF ToSet
  <2>3. QED
    BY <1>3, <2>1, <2>2
<1>7. \A i \in DOMAIN x.inflight : x.inflight[i] < c.seq
  <2>1. \A i \in DOMAIN Tail(c.inflight) : i + 1 \in DOMAIN c.inflight
                                           /\ Tail(c.inflight)[i] = c.inflight[i + 1]
    BY <1>2
  <2>2. QED
    BY <1>1, <2>1 DEF RowsOK
<1>8. RowsOK(x)
  BY <1>1, <1>5, <1>6, <1>7 DEF RowsOK
<1>9. QED
  BY <1>3, <1>8 DEF x

\* Rows that are restored into an empty outbox are numbered from the start.
LEMMA RowsRestore ==
    ASSUME NEW c \in Core, c.outbox = << >>, c.inflight = << >>, c.seq = 0,
           NEW frames \in Seq(RowFrame), NEW rows,
           rows = [i \in 1..Len(frames) |-> [id |-> i, frame |-> frames[i]]]
    PROVE  RowsOK(RestoreOutbox(c, rows))
<1> DEFINE x == RestoreOutbox(c, rows)
           n == Len(frames)
<1>1. /\ x \in Core /\ x.seq = 0 + n /\ x.inflight = << >> /\ Len(x.outbox) = n + 0
      /\ \A i \in 1..n : x.outbox[i] = [id |-> c.seq + i - 1, frame |-> frames[i]]
  <2>1. Len(c.outbox) = 0
    OBVIOUS
  <2>2. Restored(c, x, frames)
    BY RestoreType, Zenon
  <2> HIDE DEF x
  <2>3. QED
    BY <2>1, <2>2 DEF Restored
<1>2. n \in Nat
  OBVIOUS
<1> HIDE DEF x, n
<1>3. x.outbox \in Seq(Row) /\ DOMAIN x.outbox = 1..n
  <2>1. x.outbox \in Seq(Row)
    BY <1>1, CoreFields
  <2>2. QED
    BY <1>1, <1>2, <2>1
<1>4. \A i \in 1..n : x.outbox[i].id = i - 1
  <2>1. \A i \in 1..n : x.outbox[i].id = c.seq + i - 1
    <3>1. ASSUME NEW i \in 1..n PROVE x.outbox[i].id = c.seq + i - 1
      <4>1. x.outbox[i] = [id |-> c.seq + i - 1, frame |-> frames[i]]
        BY <1>1
      <4>2. \A y, a, b : y = [id |-> a, frame |-> b] => y.id = a
        OBVIOUS
      <4>3. QED
        BY <4>1, <4>2, Zenon
    <3>2. QED
      BY <3>1
  <2>2. QED
    BY <1>2, <2>1
<1>5. RowsOK(x)
  <2>1. \A i, j \in DOMAIN x.outbox : i < j => x.outbox[i].id < x.outbox[j].id
    BY <1>2, <1>3, <1>4
  <2>2. \A i \in DOMAIN x.outbox : x.outbox[i].id < x.seq
    BY <1>1, <1>2, <1>3, <1>4
  <2>3. \A i \in DOMAIN x.inflight : x.inflight[i] < x.seq
    BY <1>1
  <2>4. QED
    BY <2>1, <2>2, <2>3 DEF RowsOK
<1>6. QED
  BY <1>5 DEF x

\* The slots of a new socket stand for the session and for the rows.
LEMMA RowsOpen ==
    ASSUME NEW c \in Core, RowsOK(c)
    PROVE  LET o == OnOpen(c)
           IN  RowsOK(o.core) /\ SlotsFor(o.core.inflight, o.frames, c.outbox)
<1> DEFINE o == OnOpen(c)
           s == o.core.inflight
           f == o.frames
<1>1. /\ o.core \in Core /\ f \in Seq(Frame) /\ o.core.outbox = c.outbox /\ o.core.seq = c.seq
      /\ Len(s) = Len(f)
      /\ \A i \in 1..Len(f) :
           \/ s[i] = None /\ f[i] \in SessionFrameSet
           \/ \E j \in 1..Len(c.outbox) : s[i] = c.outbox[j].id /\ f[i] = c.outbox[j].frame
  BY OnOpenType
<1>2. s \in Seq(Option(Nat))
  BY <1>1, CoreFields
<1>3. c.outbox \in Seq(Row) /\ c.seq \in Nat
  BY CoreFields
<1> HIDE DEF s, f
<1>4. DOMAIN s = 1..Len(f) /\ DOMAIN c.outbox = 1..Len(c.outbox)
  BY <1>1, <1>2, <1>3
<1>5. \A i \in 1..Len(c.outbox) : c.outbox[i].id \in Nat /\ c.outbox[i].frame \in RowFrame
  <2>1. \A i \in 1..Len(c.outbox) : c.outbox[i] \in Row
    BY <1>3
  <2>2. QED
    BY <2>1, RowFacts
<1>6. \A i, j \in 1..Len(c.outbox) : c.outbox[i].id = c.outbox[j].id => c.outbox[i] = c.outbox[j]
  <2>1. ASSUME NEW i \in 1..Len(c.outbox), NEW j \in 1..Len(c.outbox), c.outbox[i].id = c.outbox[j].id
        PROVE  i = j
    <3>1. (i < j => c.outbox[i].id < c.outbox[j].id) /\ (j < i => c.outbox[j].id < c.outbox[i].id)
      BY <1>4 DEF RowsOK
    <3>2. c.outbox[i].id \in Nat /\ i \in Nat /\ j \in Nat
      BY <1>5
    <3>3. QED
      BY ONLY <2>1, <3>1, <3>2
  <2>2. QED
    BY <2>1
<1>7. ASSUME NEW i \in DOMAIN s
      PROVE  /\ s[i] < c.seq
             /\ (s[i] = None) <=> (f[i].client = None)
             /\ \A row \in ToSet(c.outbox) : row.id = s[i] => row.frame = f[i]
  <2>1. i \in 1..Len(f)
    BY <1>4
  <2>2. CASE s[i] = None /\ f[i] \in SessionFrameSet
    <3>1. f[i].client = None
      BY <2>2, FrameFacts DEF Frame
    <3>2. \A row \in ToSet(c.outbox) : row.id # None
      BY <1>4, <1>5, NoneFacts DEF ToSet
    <3>3. None < c.seq
      BY <1>3, NoneFacts
    <3>4. QED
      BY <2>2, <3>1, <3>2, <3>3
  <2>3. CASE \E j \in 1..Len(c.outbox) : s[i] = c.outbox[j].id /\ f[i] = c.outbox[j].frame
    <3>1. PICK j \in 1..Len(c.outbox) : s[i] = c.outbox[j].id /\ f[i] = c.outbox[j].frame
      BY <2>3
    <3>2. s[i] # None /\ s[i] < c.seq
      BY <1>4, <1>5, <3>1, NoneFacts DEF RowsOK
    <3>3. f[i].client # None
      <4>1. f[i] \in RowFrame /\ f[i] \in Frame
        BY <1>5, <3>1 DEF Frame
      <4>2. f[i].client \in Clients
        BY <4>1, FrameFacts
      <4>3. QED
        BY <4>2, NoneFacts DEF Clients
    <3>4. \A row \in ToSet(c.outbox) : row.id = s[i] => row.frame = f[i]
      <4>1. ASSUME NEW row \in ToSet(c.outbox), row.id = s[i] PROVE row.frame = f[i]
        <5>1. PICK k \in 1..Len(c.outbox) : row = c.outbox[k]
          BY <1>4 DEF ToSet
        <5>2. c.outbox[k] = c.outbox[j]
          BY <1>6, <3>1, <4>1, <5>1
        <5>3. QED
          BY <3>1, <5>1, <5>2
      <4>2. QED
        BY <4>1
    <3>5. QED
      BY <3>2, <3>3, <3>4
  <2>4. QED
    BY <1>1, <2>1, <2>2, <2>3
<1>8. SlotsFor(s, f, c.outbox)
  BY <1>1, <1>7 DEF SlotsFor
<1>9. RowsOK(o.core)
  BY <1>1, <1>7 DEF RowsOK, s
<1>10. QED
  BY <1>8, <1>9 DEF s, f
=============================================================================
