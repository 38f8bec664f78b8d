--------------------------- MODULE DurabilityProof ---------------------------
(***************************************************************************)
(* Proofs about Durability for every bound on writes, checkpoints, errors  *)
(* and crashes: what the files hold at each step of a write and of save,   *)
(* and what a start makes of them.                                         *)
(***************************************************************************)
EXTENDS Durability, TLAPS, NaturalsInduction, WellFoundedInduction

-----------------------------------------------------------------------------
(* Induction over the records of the file *)

\* A set of natural numbers has a least element.
LEMMA LeastElement ==
    ASSUME NEW T \in SUBSET Nat, T # {}
    PROVE  \E x \in T : \A y \in T : x <= y
<1>1. IsWellFoundedOn(OpToRel(<, Nat), Nat)
  BY NatLessThanWellFounded
<1>2. PICK x \in T : \A y \in T : ~ (<<y, x>> \in OpToRel(<, Nat))
  BY <1>1, WFMin
<1>3. \A y \in T : ~ (y < x)
  BY <1>2 DEF OpToRel
<1>4. QED
  BY <1>3

\* Induction up to n, over a set.
LEMMA UpTo ==
    ASSUME NEW n \in Nat, NEW T, 0 \in T, \A i \in 1..n : i - 1 \in T => i \in T
    PROVE  \A i \in 0..n : i \in T
<1> DEFINE bad == {i \in 0..n : i \notin T}
<1>1. SUFFICES ASSUME bad # {} PROVE FALSE
  OBVIOUS
<1>2. PICK x \in bad : \A y \in bad : x <= y
  <2>1. bad \in SUBSET Nat
    OBVIOUS
  <2>2. QED
    BY <1>1, <2>1, LeastElement
<1>3. x # 0 /\ x - 1 \in 0..n /\ x - 1 \notin bad
  BY <1>2
<1>4. QED
  BY <1>2, <1>3

-----------------------------------------------------------------------------
(* Sequences *)

\* Appending adds the element.
LEMMA AppendRange ==
    ASSUME NEW S, NEW s \in Seq(S), NEW x
    PROVE  /\ Range(Append(s, x)) = Range(s) \cup {x}
           /\ DOMAIN Append(s, x) = 1..(Len(s) + 1) /\ DOMAIN s = 1..Len(s)
           /\ \A i \in 1..Len(s) : Append(s, x)[i] = s[i]
           /\ Append(s, x)[Len(s) + 1] = x
<1>1. s \in Seq(S \cup {x}) /\ x \in S \cup {x}
  OBVIOUS
<1>2. /\ DOMAIN Append(s, x) = 1..(Len(s) + 1) /\ DOMAIN s = 1..Len(s) /\ Len(s) \in Nat
      /\ \A i \in 1..Len(s) : Append(s, x)[i] = s[i]
      /\ Append(s, x)[Len(s) + 1] = x
  BY <1>1
<1>3. Range(Append(s, x)) = Range(s) \cup {x}
  BY <1>2 DEF Range
<1>4. QED
  BY <1>2, <1>3

-----------------------------------------------------------------------------
(* Replaying the AOF *)

Ids == Nat \ {0}

\* The keyspace after each record of the replay.
ReplayOf(g) ==
    /\ g \in [0..Len(aof) -> Seq(Ids)]
    /\ g[0] = snap.data
    /\ \A i \in 1..Len(aof) :
         g[i] = IF Replays(i) THEN Append(g[i - 1], aof[i].id) ELSE g[i - 1]

\* The writes in the AOF are ids.
LEMMA LoggedIds ==
    ASSUME TypeOK, FileInv
    PROVE  Logged(Len(aof)) \subseteq Ids
<1>1. counts.writes \in Nat
  BY DEF TypeOK
<1>2. Logged(Len(aof)) \subseteq 1..counts.writes
  BY DEF FileInv
<1>3. QED
  BY <1>1, <1>2 DEF Ids

\* The loop of replay_aof_from_checkpoint ends with a keyspace.
LEMMA ReplayExists ==
    ASSUME TypeOK, FileInv
    PROVE  \E g : ReplayOf(g)
<1> DEFINE next(i, s) == IF Replays(i) THEN Append(s, aof[i].id) ELSE s
           good(n, g) == /\ g \in [0..n -> Seq(Ids)] /\ g[0] = snap.data
                         /\ \A i \in 1..n : g[i] = next(i, g[i - 1])
           T == {n \in 0..Len(aof) : \E g : good(n, g)}
<1>1. Len(aof) \in Nat /\ snap.data \in Seq(Ids)
  BY DEF TypeOK, Ids
<1>2. ASSUME NEW i \in 1..Len(aof), NEW s \in Seq(Ids) PROVE next(i, s) \in Seq(Ids)
  <2>1. CASE Replays(i)
    <3>1. aof[i].kind = "write"
      BY <2>1 DEF Replays
    <3>2. aof[i].id \in Logged(Len(aof))
      BY <3>1 DEF Logged
    <3>3. aof[i].id \in Ids
      BY <3>2, LoggedIds
    <3>4. QED
      BY <2>1, <3>3
  <2>2. CASE ~ Replays(i)
    BY <2>2
  <2>3. QED
    BY <2>1, <2>2
<1>3. 0 \in T
  <2>1. good(0, [i \in 0..0 |-> snap.data])
    BY <1>1
  <2>2. \E g : good(0, g)
    BY <2>1, Zenon
  <2>3. QED
    BY <1>1, <2>2
<1> HIDE DEF next
<1>4. ASSUME NEW n \in 1..Len(aof), n - 1 \in T PROVE n \in T
  <2>1. PICK g : good(n - 1, g)
    BY <1>4
  <2> DEFINE h == [i \in 0..n |-> IF i = n THEN next(n, g[n - 1]) ELSE g[i]]
  <2>2. next(n, g[n - 1]) \in Seq(Ids)
    BY <1>2, <2>1
  <2>3. h \in [0..n -> Seq(Ids)]
    BY <2>1, <2>2
  <2>4. h[0] = snap.data
    BY <2>1
  <2>5. ASSUME NEW i \in 1..n PROVE h[i] = next(i, h[i - 1])
    <3>1. CASE i = n
      BY <3>1
    <3>2. CASE i # n
      BY <2>1, <3>2
    <3>3. QED
      BY <3>1, <3>2
  <2>6. good(n, h)
    BY <2>3, <2>4, <2>5
  <2>7. \E f : good(n, f)
    BY <2>6, Zenon
  <2>8. n \in 0..Len(aof)
    BY <1>1
  <2>9. QED
    BY <2>7, <2>8, Zenon
<1>5. Len(aof) \in T
  <2> HIDE DEF T
  <2>1. \A i \in 0..Len(aof) : i \in T
    BY <1>1, <1>3, <1>4, UpTo
  <2>2. QED
    BY <1>1, <2>1
<1>6. QED
  BY <1>5 DEF ReplayOf, next

\* What a start loads.
LEMMA Loads ==
    ASSUME TypeOK, FileInv, LoadSnapshot
    PROVE  \E g : ReplayOf(g) /\ store' = g[Len(aof)]
<1> DEFINE step(g) == [i \in 0..Len(aof) |->
                         IF i = 0 THEN snap.data
                         ELSE IF Replays(i) THEN Append(g[i - 1], aof[i].id) ELSE g[i - 1]]
           after == CHOOSE g : g = step(g)
<1>1. PICK g : ReplayOf(g)
  BY ReplayExists
<1>2. g = step(g)
  <2>1. g = [i \in 0..Len(aof) |-> g[i]] /\ Len(aof) \in Nat
    BY <1>1 DEF ReplayOf, TypeOK
  <2>2. ASSUME NEW i \in 0..Len(aof)
        PROVE  g[i] = IF i = 0 THEN snap.data
                      ELSE IF Replays(i) THEN Append(g[i - 1], aof[i].id) ELSE g[i - 1]
    <3>1. CASE i = 0
      BY <1>1, <3>1 DEF ReplayOf
    <3>2. CASE i # 0
      <4>1. i \in 1..Len(aof)
        BY <2>1, <3>2
      <4>2. QED
        BY <1>1, <3>2, <4>1 DEF ReplayOf
    <3>3. QED
      BY <3>1, <3>2
  <2>3. QED
    BY <2>1, <2>2, Zenon
<1>3. after = step(after)
  BY <1>2
<1>4. store' = after[Len(aof)]
  BY DEF LoadSnapshot
<1> HIDE DEF after
<1>5. Len(aof) \in Nat
  BY DEF TypeOK
<1> DEFINE T == {i \in 0..Len(aof) : after[i] = g[i]}
<1>6. 0 \in T
  BY <1>2, <1>3, <1>5
<1>7. ASSUME NEW i \in 1..Len(aof), i - 1 \in T PROVE i \in T
  <2>1. after[i] = (IF Replays(i) THEN Append(after[i - 1], aof[i].id) ELSE after[i - 1])
    <3>1. i \in 0..Len(aof) /\ i # 0
      BY <1>5
    <3>2. \A j \in 0..Len(aof) :
             after[j] = IF j = 0 THEN snap.data
                        ELSE IF Replays(j) THEN Append(after[j - 1], aof[j].id) ELSE after[j - 1]
      BY <1>3, Zenon
    <3>3. QED
      BY <3>1, <3>2, Zenon
  <2>2. g[i] = (IF Replays(i) THEN Append(g[i - 1], aof[i].id) ELSE g[i - 1])
    BY <1>1 DEF ReplayOf
  <2>3. QED
    BY <1>7, <2>1, <2>2
<1> HIDE DEF T
<1>8. \A i \in 0..Len(aof) : i \in T
  BY <1>5, <1>6, <1>7, UpTo
<1>9. store' = g[Len(aof)]
  BY <1>4, <1>5, <1>8 DEF T
<1>10. QED
  BY <1>1, <1>9

\* The writes that are replayed by record n.
ReplayedBy(n) == {aof[i].id : i \in {j \in 1..n : Replays(j)}}

\* A replay adds the writes it replays to the snapshot, and nothing else.
LEMMA ReplayRange ==
    ASSUME TypeOK, FileInv, NEW g, ReplayOf(g)
    PROVE  \A n \in 0..Len(aof) : Range(g[n]) = Range(snap.data) \cup ReplayedBy(n)
<1> DEFINE T == {n \in 0..Len(aof) : Range(g[n]) = Range(snap.data) \cup ReplayedBy(n)}
<1>1. Len(aof) \in Nat
  BY DEF TypeOK
<1>2. 0 \in T
  <2>1. ReplayedBy(0) = {}
    BY DEF ReplayedBy
  <2>2. QED
    BY <1>1, <2>1 DEF ReplayOf
<1>3. ASSUME NEW n \in 1..Len(aof), n - 1 \in T PROVE n \in T
  <2>1. g[n - 1] \in Seq(Ids) /\ g[n] = IF Replays(n) THEN Append(g[n - 1], aof[n].id) ELSE g[n - 1]
    BY DEF ReplayOf
  <2>2. ReplayedBy(n) = ReplayedBy(n - 1) \cup (IF Replays(n) THEN {aof[n].id} ELSE {})
    <3>1. 1..n = 1..(n - 1) \cup {n}
      OBVIOUS
    <3>2. QED
      BY <3>1 DEF ReplayedBy
  <2>3. \A s \in Seq(Ids) : \A x : Range(Append(s, x)) = Range(s) \cup {x}
    BY AppendRange
  <2>4. QED
    BY <1>3, <2>1, <2>2, <2>3
<1> HIDE DEF T
<1>4. \A n \in 0..Len(aof) : n \in T
  BY <1>1, <1>2, <1>3, UpTo
<1>5. QED
  BY <1>4 DEF T

\* Appending a later id keeps a sequence ascending.
LEMMA AppendAscends ==
    ASSUME NEW s \in Seq(Ids), Ascending(s), NEW x \in Ids, \A w \in Range(s) : w < x
    PROVE  Ascending(Append(s, x))
<1>1. /\ DOMAIN Append(s, x) = 1..(Len(s) + 1) /\ DOMAIN s = 1..Len(s) /\ Len(s) \in Nat
      /\ \A i \in 1..Len(s) : Append(s, x)[i] = s[i]
      /\ Append(s, x)[Len(s) + 1] = x
  BY AppendRange
<1>2. \A i \in 1..Len(s) : s[i] < x
  BY <1>1 DEF Range
<1>3. QED
  BY <1>1, <1>2 DEF Ascending

\* A replay of ascending writes that are all later than the snapshot ascends.
LEMMA ReplayAscends ==
    ASSUME TypeOK, FileInv, NEW g, ReplayOf(g), Ascending(snap.data),
           \A i, j \in 1..Len(aof) : i < j /\ Replays(i) /\ Replays(j) => aof[i].id < aof[j].id,
           \A i \in 1..Len(aof) : Replays(i) => \A w \in Range(snap.data) : w < aof[i].id
    PROVE  \A n \in 0..Len(aof) : Ascending(g[n])
<1> DEFINE T == {n \in 0..Len(aof) : Ascending(g[n])}
<1>1. Len(aof) \in Nat
  BY DEF TypeOK
<1>2. 0 \in T
  BY <1>1 DEF ReplayOf
<1>3. ASSUME NEW n \in 1..Len(aof), n - 1 \in T PROVE n \in T
  <2>1. /\ g[n - 1] \in Seq(Ids) /\ g[n] \in Seq(Ids)
        /\ g[n] = IF Replays(n) THEN Append(g[n - 1], aof[n].id) ELSE g[n - 1]
    <3>1. n \in 0..Len(aof) /\ n - 1 \in 0..Len(aof)
      BY <1>1
    <3>2. QED
      BY <3>1 DEF ReplayOf
  <2>2. CASE ~ Replays(n)
    BY <1>3, <2>1, <2>2
  <2>3. CASE Replays(n)
    <3>1. aof[n].id \in Ids
      <4>1. aof[n].kind = "write"
        BY <2>3 DEF Replays
      <4>2. aof[n].id \in Logged(Len(aof))
        BY <4>1 DEF Logged
      <4>3. QED
        BY <4>2, LoggedIds
    <3>2. Range(g[n - 1]) = Range(snap.data) \cup ReplayedBy(n - 1)
      BY <1>1, ReplayRange
    <3>3. \A w \in Range(g[n - 1]) : w < aof[n].id
      BY <1>1, <2>3, <3>2 DEF ReplayedBy
    <3>4. Ascending(g[n])
      BY <1>3, <2>1, <2>3, <3>1, <3>3, AppendAscends
    <3>5. QED
      BY <3>4
  <2>4. QED
    BY <2>2, <2>3
<1> HIDE DEF T
<1>4. \A n \in 0..Len(aof) : n \in T
  BY <1>1, <1>2, <1>3, UpTo
<1>5. QED
  BY <1>4 DEF T

-----------------------------------------------------------------------------
(* The file of one step and the next *)

\* The elements of a sequence are of its type.
LEMMA RangeType ==
    ASSUME NEW S, NEW s \in Seq(S)
    PROVE  Range(s) \subseteq S
BY DEF Range

Record == [kind : {"write", "marker", "torn"}, id : Nat]

\* A record is appended.
LEMMA Appended ==
    ASSUME NEW s \in Seq(Record), NEW r \in Record
    PROVE  /\ Append(s, r) \in Seq(Record) /\ Len(Append(s, r)) = Len(s) + 1 /\ Len(s) \in Nat
           /\ DOMAIN Append(s, r) = 1..(Len(s) + 1) /\ DOMAIN s = 1..Len(s)
           /\ \A i \in 1..Len(s) : Append(s, r)[i] = s[i]
           /\ Append(s, r)[Len(s) + 1] = r
BY AppendRange

\* The kinds of records are told apart.
LEMMA RecordKinds ==
    /\ \A w \in Nat : Write(w) \in Record /\ Write(w).kind = "write" /\ Write(w).id = w
    /\ \A c \in Nat : Marker(c) \in Record /\ Marker(c).kind = "marker" /\ Marker(c).id = c
    /\ Torn \in Record /\ Torn.kind = "torn"
BY DEF Write, Marker, Torn, Record

\* The writes logged once a record is appended.
LEMMA LoggedAppend ==
    ASSUME aof \in Seq(Record), NEW r \in Record, aof' = Append(aof, r)
    PROVE  /\ Logged(Len(aof))' = Logged(Len(aof)) \cup (IF r.kind = "write" THEN {r.id} ELSE {})
           /\ \A n \in 0..Len(aof) :
                {aof'[i].id : i \in {j \in 1..n : aof'[j].kind = "write"}} = Logged(n)
<1>1. /\ Len(aof') = Len(aof) + 1 /\ Len(aof) \in Nat
      /\ \A i \in 1..Len(aof) : aof'[i] = aof[i]
      /\ aof'[Len(aof) + 1] = r
  BY Appended
<1>2. \A n \in 0..Len(aof) :
        {aof'[i].id : i \in {j \in 1..n : aof'[j].kind = "write"}} = Logged(n)
  BY <1>1 DEF Logged
<1>3. Logged(Len(aof))' =
        {aof'[i].id : i \in {j \in 1..Len(aof) : aof'[j].kind = "write"}}
          \cup (IF r.kind = "write" THEN {r.id} ELSE {})
  BY <1>1 DEF Logged
<1>4. QED
  BY <1>1, <1>2, <1>3

\* The file that an append has begun.
LEMMA BegunShape ==
    ASSUME TypeOK
    PROVE  /\ Begun \in Seq(Record) /\ Len(Begun) \in {Len(aof), Len(aof) + 1} /\ Len(aof) \in Nat
           /\ \A i \in 1..Len(aof) : Begun[i] = aof[i]
           /\ Len(Begun) = Len(aof) + 1 =>
                \/ Begun[Len(Begun)] = Write(logging) /\ logging # NoWrite
                \/ Begun[Len(Begun)] = Marker(checkpoint + 1) /\ saving = "marker"
<1>1. aof \in Seq(Record) /\ Write(logging) \in Record /\ Marker(checkpoint + 1) \in Record
  <2>1. aof \in Seq(Record)
    BY DEF TypeOK, Record
  <2>2. logging \in Nat /\ checkpoint + 1 \in Nat
    BY DEF TypeOK
  <2>3. QED
    BY <2>1, <2>2, RecordKinds
<1>2. CASE logging # NoWrite
  <2>1. Begun = Append(aof, Write(logging))
    BY <1>2 DEF Begun
  <2>2. QED
    BY <1>1, <1>2, <2>1, Appended
<1>3. CASE logging = NoWrite /\ saving = "marker"
  <2>1. Begun = Append(aof, Marker(checkpoint + 1))
    BY <1>3 DEF Begun
  <2>2. QED
    BY <1>1, <1>3, <2>1, Appended
<1>4. CASE logging = NoWrite /\ saving # "marker"
  <2>1. Begun = aof
    BY <1>4 DEF Begun
  <2>2. QED
    BY <1>1, <2>1
<1>5. QED
  BY <1>2, <1>3, <1>4

\* What a crash leaves of the file: its first records, perhaps half of the next one.
LEMMA Crashed ==
    ASSUME TypeOK, Crash
    PROVE  \E n \in synced..Len(Begun) :
             /\ aof' \in Seq(Record) /\ Len(aof') \in {n, n + 1} /\ n \in Nat /\ n <= Len(Begun)
             /\ \A i \in 1..n : aof'[i] = Begun[i]
             /\ Len(aof') = n + 1 => aof'[n + 1] = Torn
             /\ synced' = Len(aof')
<1>1. Begun \in Seq(Record) /\ Len(Begun) \in Nat /\ synced \in Nat /\ Torn \in Record
  BY BegunShape, RecordKinds DEF TypeOK
<1>2. PICK n \in synced..Len(Begun) :
         \/ aof' = SubSeq(Begun, 1, n)
         \/ n < Len(Begun) /\ aof' = Append(SubSeq(Begun, 1, n), Torn)
  BY DEF Crash
<1>3. /\ SubSeq(Begun, 1, n) \in Seq(Record) /\ Len(SubSeq(Begun, 1, n)) = n /\ n \in Nat
      /\ \A i \in 1..n : SubSeq(Begun, 1, n)[i] = Begun[i]
  BY <1>1, <1>2
<1>4. synced' = Len(aof')
  BY DEF Crash
<1>5. CASE aof' = SubSeq(Begun, 1, n)
  BY <1>2, <1>3, <1>4, <1>5
<1>6. CASE aof' = Append(SubSeq(Begun, 1, n), Torn)
  BY <1>1, <1>2, <1>3, <1>4, <1>6, Appended
<1>7. QED
  BY <1>2, <1>5, <1>6

-----------------------------------------------------------------------------
(* Types and ids *)

\* The writes the store, the files and the histories know of were executed.
IdsOK ==
    /\ Range(store) \cup Range(snap.data) \cup Logged(Len(aof)) \cup unlogged
         \subseteq 1..counts.writes
    /\ logging \in 0..counts.writes

\* The histories and counters of TypeOK.
CountsType ==
    [writes : Nat, saves : Nat, failures : Nat, crashes : Nat, kinds : SUBSET FailureKinds]

\* What the AOF holds and how much of it was fsynced.
FileTypes == aof \in Seq(Record) /\ synced \in 0..Len(aof)

\* The types of everything but the AOF.
OtherTypes ==
    /\ sync \in AofSync
    /\ up \in {"up", "down", "refused"}
    /\ store \in Seq(Nat \ {0})
    /\ waiting \in 0..MaxWaiting
    /\ logging \in Nat
    /\ snap \in [id : Nat, data : Seq(Nat \ {0})]
    /\ sidecar \in Nat
    /\ mark \in Nat
    /\ dirty \in BOOLEAN
    /\ checkpoint \in Nat
    /\ healthy \in BOOLEAN
    /\ saving \in {"idle", "marker", "snapshot", "dedup", "truncate"}
    /\ durable \in SUBSET (Nat \ {0})
    /\ unlogged \in SUBSET (Nat \ {0})
    /\ behind \in BOOLEAN
    /\ counts \in CountsType

\* TypeOK is made of the two.
LEMMA TypeParts == TypeOK <=> FileTypes /\ OtherTypes
BY DEF TypeOK, FileTypes, OtherTypes, CountsType, Record

\* An error counts itself and nothing else.
LEMMA Failed ==
    ASSUME TypeOK, NEW k, Fails(k)
    PROVE  /\ counts' \in CountsType /\ counts'.writes = counts.writes
           /\ healthy' = FALSE /\ counts'.kinds = counts.kinds \cup {k} /\ k \in FailureKinds
<1>1. k \in FailureKinds /\ counts \in CountsType
  BY DurabilityAssumption DEF Fails, TypeOK, CountsType
<1>2. counts' = [counts EXCEPT !.failures = @ + 1, !.kinds = @ \cup {k}] /\ healthy' = FALSE
  BY DEF Fails
<1>3. counts.kinds \cup {k} \in SUBSET FailureKinds
  BY <1>1 DEF CountsType
<1>4. /\ counts'.writes = counts.writes /\ counts'.kinds = counts.kinds \cup {k}
      /\ counts' \in CountsType
  <2> DEFINE kinds == counts.kinds \cup {k}
  <2>1. kinds \in SUBSET FailureKinds
    BY <1>3
  <2>2. counts' = [counts EXCEPT !.failures = @ + 1, !.kinds = kinds]
    BY <1>2
  <2> HIDE DEF kinds
  <2>3. counts.failures + 1 \in Nat
    BY <1>1 DEF CountsType
  <2>4. counts' = [writes |-> counts.writes, saves |-> counts.saves,
                   failures |-> counts.failures + 1, crashes |-> counts.crashes,
                   kinds |-> kinds]
    BY <1>1, <2>2 DEF CountsType
  <2>5. counts'.writes = counts.writes /\ counts'.kinds = kinds
    BY <2>4
  <2>6. counts' \in CountsType
    BY <1>1, <2>1, <2>3, <2>4 DEF CountsType
  <2>7. QED
    BY <2>5, <2>6 DEF kinds
<1>5. QED
  BY <1>1, <1>2, <1>4

\* The writes in a file are numbers of writes.
LEMMA WrittenType == \A s : Written(s) \in SUBSET (Nat \ {0})
BY DEF Written

\* The types of the AOF are kept.
LEMMA FileTypesStep ==
    ASSUME TypeOK, FileInv, Next
    PROVE  FileTypes'
<1>0. /\ aof \in Seq(Record) /\ synced \in 0..Len(aof) /\ Len(aof) \in Nat
      /\ checkpoint + 1 \in Nat /\ logging \in Nat
  BY DEF TypeOK, Record
<1>1. CASE UNCHANGED <<aof, synced>>
  BY <1>0, <1>1 DEF FileTypes
<1>2. ASSUME NEW r \in Record, aof' = Append(aof, r), synced' \in {synced, Len(aof')} PROVE FileTypes'
  BY <1>0, <1>2, Appended DEF FileTypes
<1>3. CASE aof' = << >> /\ synced' = 0
  BY <1>3 DEF FileTypes
<1>4. CASE LogWrite
  <2>1. aof' = Append(aof, Write(logging)) /\ synced' \in {synced, Len(aof')}
    BY <1>4 DEF LogWrite
  <2>2. QED
    BY <1>0, <1>2, <2>1, RecordKinds
<1>5. CASE LogWriteFails
  <2>1. synced' = synced /\ (aof' = aof \/ aof' = Append(aof, Write(logging)) \/ aof' = Append(aof, Torn))
    BY <1>5 DEF LogWriteFails
  <2>2. QED
    BY <1>0, <1>1, <1>2, <2>1, RecordKinds
<1>6. CASE Flush
  BY <1>0, <1>6 DEF Flush, FileTypes
<1>7. CASE SaveMarker
  <2>1. aof' = Append(aof, Marker(checkpoint + 1)) /\ synced' = Len(aof')
    BY <1>7 DEF SaveMarker
  <2>2. QED
    BY <1>0, <1>2, <2>1, RecordKinds
<1>8. CASE SaveFails
  <2>1. \/ UNCHANGED <<aof, synced>>
        \/ aof' = << >> /\ synced' = 0
        \/ synced' = synced /\ (aof' = Append(aof, Marker(checkpoint + 1)) \/ aof' = Append(aof, Torn))
    BY <1>8 DEF SaveFails, diskVars
  <2>2. QED
    BY <1>0, <1>1, <1>2, <1>3, <2>1, RecordKinds
<1>9. CASE Crash
  BY <1>9, Crashed DEF FileTypes
<1>10. CASE FinishSave
  BY <1>3, <1>10 DEF FinishSave
<1>11. QED
  BY <1>1, <1>4, <1>5, <1>6, <1>7, <1>8, <1>9, <1>10
     DEF Next, Admit, Execute, BeginSave, SaveSnapshot, SaveDedup, Start, RefuseStart, diskVars

\* The types of everything else are kept.
LEMMA OtherTypesStep ==
    ASSUME TypeOK, FileInv, Next
    PROVE  OtherTypes'
<1>0. OtherTypes /\ behind' \in BOOLEAN
  BY TypeParts DEF Next
<1> USE DEF memVars, diskVars
<1>1. CASE Admit
  <2>1. waiting' \in 0..MaxWaiting
    BY <1>0, <1>1, DurabilityAssumption DEF Admit, OtherTypes
  <2>2. QED
    BY <1>0, <1>1, <2>1 DEF Admit, OtherTypes
<1>2. CASE Execute
  <2>1. counts' = [counts EXCEPT !.writes = @ + 1] /\ counts \in CountsType
    BY <1>0, <1>2 DEF Execute, OtherTypes
  <2>2. counts' \in CountsType /\ counts'.writes \in Nat \ {0}
    BY <2>1 DEF CountsType
  <2>3. store' = Append(store, counts'.writes) /\ logging' = counts'.writes
    BY <1>2 DEF Execute
  <2>4. store' \in Seq(Nat \ {0}) /\ logging' \in Nat
    BY <1>0, <2>2, <2>3 DEF OtherTypes
  <2>5. waiting' \in 0..MaxWaiting
    <3>1. waiting' = waiting \/ (waiting > 0 /\ waiting' = waiting - 1)
      BY <1>2 DEF Execute
    <3>2. waiting \in 0..MaxWaiting /\ MaxWaiting \in Nat
      BY <1>0, DurabilityAssumption DEF OtherTypes
    <3>3. QED
      BY <3>1, <3>2
  <2>6. QED
    BY <1>0, <1>2, <2>2, <2>4, <2>5 DEF Execute, OtherTypes
<1>3. ASSUME Commit PROVE logging' \in Nat /\ mark' \in Nat /\ dirty' \in BOOLEAN
  BY <1>0, <1>3 DEF Commit, NoWrite, OtherTypes
<1>4. CASE LogWrite
  <2>1. durable' \in SUBSET (Nat \ {0})
    BY <1>0, <1>4, WrittenType DEF LogWrite, OtherTypes
  <2>2. Commit
    BY <1>4 DEF LogWrite
  <2>3. QED
    BY <1>0, <1>3, <1>4, <2>1, <2>2 DEF LogWrite, OtherTypes
<1>5. CASE LogWriteFails
  <2>1. PICK k : Fails(k)
    BY <1>5 DEF LogWriteFails
  <2>2. counts' \in CountsType /\ healthy' \in BOOLEAN
    BY <2>1, Failed
  <2>3. unlogged' \in SUBSET (Nat \ {0}) /\ Commit
    <3>1. logging \in Nat \ {0}
      BY <1>0, <1>5 DEF LogWriteFails, OtherTypes, NoWrite
    <3>2. QED
      BY <1>0, <1>5, <3>1 DEF LogWriteFails, OtherTypes
  <2>4. QED
    BY <1>0, <1>3, <1>5, <2>2, <2>3 DEF LogWriteFails, OtherTypes
<1>6. CASE Flush
  <2>1. durable' \in SUBSET (Nat \ {0})
    BY <1>0, <1>6, WrittenType DEF Flush, OtherTypes
  <2>2. counts' \in CountsType /\ healthy' \in BOOLEAN
    BY <1>0, <1>6, Failed DEF Flush, OtherTypes
  <2>3. QED
    BY <1>0, <1>6, <2>1, <2>2 DEF Flush, OtherTypes
<1>7. CASE BeginSave
  <2>1. counts' = [counts EXCEPT !.saves = @ + 1] /\ counts \in CountsType
    BY <1>0, <1>7 DEF BeginSave, OtherTypes
  <2>2. counts' \in CountsType
    BY <2>1 DEF CountsType
  <2>3. QED
    BY <1>0, <1>7, <2>2 DEF BeginSave, OtherTypes
<1>8. CASE SaveMarker
  <2>1. durable' \in SUBSET (Nat \ {0})
    BY <1>0, <1>8, WrittenType DEF SaveMarker, OtherTypes
  <2>2. QED
    BY <1>0, <1>8, <2>1 DEF SaveMarker, OtherTypes
<1>9. CASE SaveSnapshot
  <2>1. snap' \in [id : Nat, data : Seq(Nat \ {0})]
    BY <1>0, <1>9 DEF SaveSnapshot, OtherTypes
  <2>2. durable' \in SUBSET (Nat \ {0})
    BY <1>0, <1>9, RangeType DEF SaveSnapshot, OtherTypes
  <2>3. QED
    BY <1>0, <1>9, <2>1, <2>2 DEF SaveSnapshot, OtherTypes
<1>10. CASE SaveDedup
  BY <1>0, <1>10 DEF SaveDedup, OtherTypes
<1>11. CASE FinishSave
  BY <1>0, <1>11 DEF FinishSave, OtherTypes
<1>12. CASE SaveFails
  <2>1. PICK k : Fails(k)
    BY <1>12 DEF SaveFails
  <2>2. counts' \in CountsType /\ healthy' \in BOOLEAN
    BY <2>1, Failed
  <2>3. /\ snap' = snap \/ snap' = [id |-> checkpoint + 1, data |-> store]
        /\ sidecar' = sidecar \/ sidecar' = mark
    BY <1>12 DEF SaveFails
  <2>4. snap' \in [id : Nat, data : Seq(Nat \ {0})] /\ sidecar' \in Nat
    BY <1>0, <2>3 DEF OtherTypes
  <2>5. QED
    BY <1>0, <1>12, <2>2, <2>4 DEF SaveFails, OtherTypes
<1>13. CASE Crash
  <2>1. counts' = [counts EXCEPT !.crashes = @ + 1] /\ counts \in CountsType
    BY <1>0, <1>13 DEF Crash, OtherTypes
  <2>2. counts' \in CountsType
    BY <2>1 DEF CountsType
  <2>3. 0 \in 0..MaxWaiting
    BY DurabilityAssumption
  <2>4. QED
    BY <1>0, <1>13, <2>2, <2>3 DEF Crash, OtherTypes, NoWrite
<1>14. CASE Start
  <2>1. LoadSnapshot /\ LoadDedup /\ Len(aof) \in Nat
    BY <1>14 DEF Start, TypeOK
  <2>2. PICK g : ReplayOf(g) /\ store' = g[Len(aof)]
    BY <2>1, Loads
  <2>3. store' \in Seq(Nat \ {0})
    BY <2>1, <2>2 DEF ReplayOf, Ids
  <2>4. checkpoint' \in Nat /\ mark' \in Nat /\ dirty' \in BOOLEAN
    BY <1>0, <2>1 DEF LoadSnapshot, LoadDedup, OtherTypes
  <2>5. QED
    BY <1>0, <1>14, <2>3, <2>4 DEF Start, OtherTypes
<1>15. CASE RefuseStart
  BY <1>0, <1>15 DEF RefuseStart, OtherTypes
<1>16. QED
  BY <1>1, <1>2, <1>4, <1>5, <1>6, <1>7, <1>8, <1>9, <1>10, <1>11, <1>12, <1>13, <1>14, <1>15
     DEF Next

\* A crash leaves records of the file, and perhaps the write that was being appended.
LEMMA CrashLogged ==
    ASSUME TypeOK, Crash
    PROVE  Logged(Len(aof))' \subseteq Logged(Len(aof)) \cup ({logging} \ {NoWrite})
<1>1. PICK n \in synced..Len(Begun) :
         /\ Len(aof') \in {n, n + 1} /\ n \in Nat /\ n <= Len(Begun)
         /\ \A i \in 1..n : aof'[i] = Begun[i]
         /\ Len(aof') = n + 1 => aof'[n + 1] = Torn
  BY Crashed
<1>2. /\ Len(Begun) \in {Len(aof), Len(aof) + 1} /\ Len(aof) \in Nat
      /\ \A i \in 1..Len(aof) : Begun[i] = aof[i]
      /\ Len(Begun) = Len(aof) + 1 =>
           \/ Begun[Len(Begun)] = Write(logging) /\ logging # NoWrite
           \/ Begun[Len(Begun)] = Marker(checkpoint + 1)
  BY BegunShape
<1>3. logging \in Nat /\ checkpoint + 1 \in Nat
  BY DEF TypeOK
<1>4. ASSUME NEW i \in 1..Len(aof'), aof'[i].kind = "write"
      PROVE  aof'[i].id \in Logged(Len(aof)) \cup ({logging} \ {NoWrite})
  <2>1. i \in 1..n
    BY <1>1, <1>4, RecordKinds
  <2>2. aof'[i] = Begun[i]
    BY <1>1, <2>1
  <2>3. CASE i <= Len(aof)
    <3>1. aof'[i] = aof[i] /\ i \in 1..Len(aof)
      BY <1>1, <1>2, <2>1, <2>2, <2>3
    <3>2. QED
      BY <1>4, <3>1 DEF Logged
  <2>4. CASE ~ (i <= Len(aof))
    <3>1. i = Len(Begun) /\ Len(Begun) = Len(aof) + 1
      BY <1>1, <1>2, <2>1, <2>4
    <3>2. aof'[i] = Write(logging) /\ logging # NoWrite
      BY <1>2, <1>3, <1>4, <2>2, <3>1, RecordKinds
    <3>3. QED
      BY <1>3, <3>2, RecordKinds
  <2>5. QED
    BY <2>3, <2>4
<1>5. QED
  BY <1>4 DEF Logged

\* A step logs at most the write that is under way.
LEMMA LoggedStep ==
    ASSUME TypeOK, Next
    PROVE  Logged(Len(aof))' \subseteq Logged(Len(aof)) \cup ({logging} \ {NoWrite})
<1>0. /\ aof \in Seq(Record) /\ checkpoint + 1 \in Nat /\ logging \in Nat
  BY DEF TypeOK, Record
<1>1. CASE aof' = aof
  BY <1>1 DEF Logged
<1>2. CASE aof' = << >>
  BY <1>2 DEF Logged
<1>3. CASE aof' = Append(aof, Write(logging)) /\ logging # NoWrite
  <2>1. Write(logging) \in Record /\ Write(logging).id = logging
    BY <1>0, RecordKinds
  <2>2. Logged(Len(aof))' = Logged(Len(aof)) \cup
           (IF Write(logging).kind = "write" THEN {Write(logging).id} ELSE {})
    BY <1>0, <1>3, <2>1, LoggedAppend
  <2>3. QED
    BY <1>3, <2>1, <2>2
<1>4. ASSUME NEW r \in Record, r.kind # "write", aof' = Append(aof, r)
      PROVE  Logged(Len(aof))' \subseteq Logged(Len(aof)) \cup ({logging} \ {NoWrite})
  <2>1. Logged(Len(aof))' = Logged(Len(aof)) \cup (IF r.kind = "write" THEN {r.id} ELSE {})
    BY <1>0, <1>4, LoggedAppend
  <2>2. QED
    BY <1>4, <2>1
<1>5. CASE aof' = Append(aof, Marker(checkpoint + 1)) \/ aof' = Append(aof, Torn)
  BY <1>0, <1>4, <1>5, RecordKinds
<1>6. CASE Crash
  BY <1>6, CrashLogged
<1>7. CASE LogWrite \/ LogWriteFails
  <2>1. /\ logging # NoWrite
        /\ aof' = aof \/ aof' = Append(aof, Write(logging)) \/ aof' = Append(aof, Torn)
    BY <1>7 DEF LogWrite, LogWriteFails
  <2>2. QED
    BY <1>1, <1>3, <1>5, <2>1
<1>8. CASE SaveMarker \/ SaveFails \/ FinishSave
  <2>1. \/ aof' = aof \/ aof' = << >>
        \/ aof' = Append(aof, Marker(checkpoint + 1)) \/ aof' = Append(aof, Torn)
    BY <1>8 DEF SaveMarker, SaveFails, FinishSave, diskVars
  <2>2. QED
    BY <1>1, <1>2, <1>5, <2>1
<1>9. QED
  BY <1>1, <1>6, <1>7, <1>8
     DEF Next, Admit, Execute, Flush, BeginSave, SaveSnapshot, SaveDedup, Start, RefuseStart, diskVars

\* What a start loads is in its files.
LEMMA LoadedRange ==
    ASSUME TypeOK, FileInv, Start
    PROVE  Range(store') \subseteq Range(snap.data) \cup Logged(Len(aof))
           /\ Range(snap.data) \subseteq Range(store')
<1>1. PICK g : ReplayOf(g) /\ store' = g[Len(aof)]
  BY Loads DEF Start
<1>2. Len(aof) \in Nat
  BY DEF TypeOK
<1>3. Range(store') = Range(snap.data) \cup ReplayedBy(Len(aof))
  BY <1>1, <1>2, ReplayRange
<1>4. ReplayedBy(Len(aof)) \subseteq Logged(Len(aof))
  BY DEF ReplayedBy, Logged, Replays
<1>5. QED
  BY <1>3, <1>4

\* Only executed writes are in the store and in the files.
LEMMA IdsStep ==
    ASSUME TypeOK, FileInv, Next
    PROVE  IdsOK'
<1> DEFINE w == counts.writes
<1>0. /\ Range(store) \subseteq 1..w /\ Range(snap.data) \subseteq 1..w
      /\ Logged(Len(aof)) \subseteq 1..w /\ unlogged \subseteq 1..w /\ logging \in 0..w
      /\ w \in Nat /\ counts \in CountsType
  BY DEF FileInv, TypeOK, CountsType
<1>1. Logged(Len(aof))' \subseteq 1..w
  BY <1>0, LoggedStep DEF NoWrite
<1>2. CASE Execute
  <2>1. /\ counts' = [counts EXCEPT !.writes = @ + 1] /\ store' = Append(store, counts'.writes)
        /\ logging' = counts'.writes /\ UNCHANGED <<snap, unlogged>>
    BY <1>2 DEF Execute, diskVars
  <2>2. counts'.writes = w + 1
    BY <1>0, <2>1 DEF CountsType
  <2>3. Range(store') = Range(store) \cup {w + 1}
    BY <2>1, <2>2, AppendRange DEF TypeOK
  <2> HIDE DEF w
  <2>4. QED
    BY <1>0, <1>1, <2>1, <2>2, <2>3 DEF IdsOK
<1>3. CASE ~ Execute
  <2>1. counts'.writes = w
    <3>1. \/ counts' = counts \/ \E k : Fails(k)
          \/ counts' = [counts EXCEPT !.saves = @ + 1]
          \/ counts' = [counts EXCEPT !.crashes = @ + 1]
      BY <1>3 DEF Next, Admit, LogWrite, LogWriteFails, Flush, BeginSave, SaveMarker, SaveSnapshot,
                  SaveDedup, FinishSave, SaveFails, Crash, Start, RefuseStart
    <3>2. CASE \E k : Fails(k)
      BY <3>2, Failed
    <3>3. QED
      BY <1>0, <3>1, <3>2 DEF CountsType
  <2>2. logging' \in 0..w
    <3>1. logging' = logging \/ logging' = NoWrite
      BY <1>3 DEF Next, Admit, LogWrite, LogWriteFails, Flush, BeginSave, SaveMarker, SaveSnapshot,
                  SaveDedup, FinishSave, SaveFails, Crash, Start, RefuseStart, Commit, memVars
    <3>2. QED
      BY <1>0, <3>1 DEF NoWrite
  <2>3. unlogged' \subseteq 1..w
    <3>1. \/ unlogged' = unlogged \/ unlogged' = {}
          \/ logging # NoWrite /\ unlogged' \subseteq unlogged \cup {logging}
      BY <1>3 DEF Next, Admit, LogWrite, LogWriteFails, Flush, BeginSave, SaveMarker, SaveSnapshot,
                  SaveDedup, FinishSave, SaveFails, Crash, Start, RefuseStart
    <3>2. logging # NoWrite => logging \in 1..w
      BY <1>0 DEF NoWrite
    <3> HIDE DEF w
    <3>3. QED
      BY <1>0, <3>1, <3>2
  <2>4. Range(snap'.data) \subseteq 1..w
    <3>1. snap' = snap \/ snap' = [id |-> checkpoint + 1, data |-> store]
      BY <1>3 DEF Next, Admit, LogWrite, LogWriteFails, Flush, BeginSave, SaveMarker, SaveSnapshot,
                  SaveDedup, FinishSave, SaveFails, Crash, Start, RefuseStart, diskVars
    <3>2. QED
      BY <1>0, <3>1
  <2>5. Range(store') \subseteq 1..w
    <3>1. CASE Start
      BY <1>0, <3>1, LoadedRange
    <3>2. CASE ~ Start
      <4>1. store' = store
        BY <1>3, <3>2
           DEF Next, Admit, LogWrite, LogWriteFails, Flush, BeginSave, SaveMarker, SaveSnapshot,
               SaveDedup, FinishSave, SaveFails, Crash, RefuseStart, memVars
      <4>2. QED
        BY <1>0, <4>1
    <3>3. QED
      BY <3>1, <3>2
  <2> HIDE DEF w
  <2>6. QED
    BY <1>1, <2>1, <2>2, <2>3, <2>4, <2>5 DEF IdsOK
<1>4. QED
  BY <1>2, <1>3

\* TypeOK and FileInv are inductive together.
LEMMA BasicStep ==
    ASSUME TypeOK, FileInv, [Next]_vars
    PROVE  TypeOK' /\ FileInv'
<1>1. CASE Next
  <2>1. TypeOK'
    BY <1>1, FileTypesStep, OtherTypesStep, TypeParts DEF TypeOK, FileTypes, OtherTypes, CountsType, Record
  <2>2. (~ behind => ~ TornInside /\ up # "refused")'
    <3>1. behind' = (behind \/ TornInside')
      BY <1>1 DEF Next
    <3>2. up' = "refused" => up = "refused" \/ TornInside'
      <4>1. CASE RefuseStart
        BY <4>1 DEF RefuseStart, TornInside, diskVars
      <4>2. CASE ~ RefuseStart
        BY <1>1, <4>2
           DEF Next, Admit, Execute, LogWrite, LogWriteFails, Flush, BeginSave, SaveMarker,
               SaveSnapshot, SaveDedup, FinishSave, SaveFails, Crash, Start
      <4>3. QED
        BY <4>1, <4>2
    <3>3. QED
      BY <3>1, <3>2 DEF FileInv
  <2>3. IdsOK'
    BY <1>1, IdsStep
  <2>4. QED
    BY <2>1, <2>2, <2>3 DEF FileInv, IdsOK
<1>2. CASE UNCHANGED vars
  <2>1. UNCHANGED <<sync, up, store, waiting, logging, mark, dirty, checkpoint, healthy, saving, aof,
                    synced, snap, sidecar, durable, unlogged, behind, counts>>
    BY <1>2 DEF vars, memVars, diskVars
  <2>2. TypeOK'
    BY <2>1 DEF TypeOK
  <2>3. FileInv'
    BY <2>1 DEF FileInv, Logged, TornInside
  <2>4. QED
    BY <2>2, <2>3
<1>3. QED
  BY <1>1, <1>2

\* Initially there is nothing.
LEMMA BasicInit == Init => TypeOK /\ FileInv
<1> SUFFICES ASSUME Init PROVE TypeOK /\ FileInv
  OBVIOUS
<1>1. << >> \in Seq(Nat \ {0}) /\ << >> \in Seq(Record) /\ Len(<< >>) = 0 /\ Range(<< >>) = {}
  BY DEF Range
<1>2. OtherTypes
  <2>1. counts \in CountsType /\ snap \in [id : Nat, data : Seq(Nat \ {0})]
    BY <1>1 DEF Init, CountsType
  <2>2. 0 \in 0..MaxWaiting
    BY DurabilityAssumption
  <2>3. QED
    BY <1>1, <2>1, <2>2 DEF Init, OtherTypes, NoWrite
<1>3. FileTypes
  BY <1>1 DEF Init, FileTypes
<1>4. FileInv
  BY <1>1 DEF Init, FileInv, Logged, TornInside, NoWrite
<1>5. QED
  BY <1>2, <1>3, <1>4, TypeParts

\* Every variable of the write path, of save and of the start-up stays in its type, and
\* replaying an AOF, torn or not, always ends with a keyspace.
THEOREM TypeCorrect == Spec => []TypeOK
<1>1. TypeOK /\ FileInv /\ [Next]_vars => (TypeOK /\ FileInv)'
  BY BasicStep
<1>2. QED
  BY BasicInit, <1>1, PTL DEF Spec

-----------------------------------------------------------------------------
(* Dedup marks *)

\* Every step keeps the marks behind the keyspace and the persisted ones behind the snapshot.
LEMMA MarkStep ==
    ASSUME TypeOK, FileInv, MarkInv, [Next]_vars
    PROVE  MarkInv'
<1> USE DEF memVars, diskVars
<1>0. dirty \in BOOLEAN /\ mark \in Nat /\ store \in Seq(Ids) /\ counts \in CountsType
  BY DEF TypeOK, Ids, CountsType
<1>1. CASE Execute
  <2>1. /\ counts' = [counts EXCEPT !.writes = @ + 1] /\ store' = Append(store, counts'.writes)
        /\ logging' = counts'.writes /\ up = "up"
        /\ UNCHANGED <<up, mark, dirty, saving, snap, sidecar>>
        /\ FollowsPrimary \/ saving = "idle"
    BY <1>1, DurabilityAssumption DEF Execute
  <2>2. Range(store') = Range(store) \cup {logging'}
    BY <1>0, <2>1, AppendRange
  <2>3. QED
    BY <2>1, <2>2 DEF MarkInv
<1>2. CASE LogWrite \/ LogWriteFails
  <2>1. /\ up = "up" /\ logging # NoWrite /\ logging' = NoWrite
        /\ UNCHANGED <<up, store, saving, snap, sidecar>>
        /\ IF FollowsPrimary THEN UNCHANGED <<mark, dirty>> ELSE mark' = logging /\ dirty' = TRUE
    BY <1>2 DEF LogWrite, LogWriteFails, Commit
  <2>2. QED
    BY <2>1 DEF MarkInv, NoWrite
<1>3. CASE SaveSnapshot
  BY <1>3 DEF SaveSnapshot, MarkInv
<1>4. CASE SaveDedup
  BY <1>0, <1>4 DEF SaveDedup, MarkInv
<1>5. CASE SaveFails
  <2>1. /\ up = "up" /\ saving' = "idle" /\ UNCHANGED <<up, store, logging, mark, dirty>>
        /\ \/ UNCHANGED <<snap, sidecar>>
           \/ snap' = [id |-> checkpoint + 1, data |-> store] /\ sidecar' = sidecar
           \/ saving = "dedup" /\ dirty /\ snap' = snap /\ sidecar' \in {sidecar, mark}
    BY <1>5 DEF SaveFails
  <2>2. QED
    BY <2>1 DEF MarkInv, NoWrite
<1>6. CASE Crash
  BY <1>6 DEF Crash, MarkInv, NoWrite
<1>7. CASE Start
  <2>1. Range(snap.data) \subseteq Range(store')
    BY <1>7, LoadedRange
  <2>2. QED
    BY <1>7, <2>1 DEF Start, LoadDedup, MarkInv, NoWrite
<1>8. CASE RefuseStart
  BY <1>8 DEF RefuseStart, MarkInv
<1>9. CASE Admit \/ Flush \/ UNCHANGED vars
  BY <1>9 DEF Admit, Flush, vars, MarkInv
<1>10. CASE BeginSave \/ SaveMarker \/ FinishSave
  <2>1. /\ up = "up" /\ saving' \in {"idle", "marker", "snapshot"}
        /\ UNCHANGED <<up, store, logging, mark, dirty, snap, sidecar>>
        /\ FollowsPrimary \/ logging = NoWrite
    BY <1>10, DurabilityAssumption DEF BeginSave, SaveMarker, FinishSave, MarkInv
  <2>2. QED
    BY <2>1 DEF MarkInv
<1>11. QED
  BY <1>1, <1>2, <1>3, <1>4, <1>5, <1>6, <1>7, <1>8, <1>9, <1>10 DEF Next

\* The three invariants, in every state.
LEMMA MarkAlways == Spec => [](TypeOK /\ FileInv /\ MarkInv)
<1>1. Init => MarkInv
  BY DEF Init, MarkInv, NoWrite
<1>2. TypeOK /\ FileInv /\ MarkInv /\ [Next]_vars => (TypeOK /\ FileInv /\ MarkInv)'
  BY BasicStep, MarkStep
<1>3. QED
  BY BasicInit, <1>1, <1>2, PTL DEF Spec

\* Whatever failed, tore or crashed, and on a primary and a replica alike: a dedup mark
\* never claims a write the keyspace does not hold, so no retry is answered DUP and lost.
THEOREM MarkIsAppliedAlways == Spec => []MarkIsApplied
<1>1. MarkInv => MarkIsApplied
  BY DEF MarkInv, MarkIsApplied
<1>2. QED
  BY MarkAlways, <1>1, PTL

\* A checkpoint that succeeds has persisted the marks, also after one that failed half-way.
THEOREM CompletedSavesHaveMarks == Spec => CompletedSaveHasMarks
<1>1. MarkInv /\ [Next]_vars =>
        [saving = "truncate" /\ saving' = "idle" /\ healthy' /\ up' = "up" => sidecar' = mark']_vars
  <2> SUFFICES ASSUME MarkInv, Next, saving = "truncate", saving' = "idle", healthy', up' = "up"
               PROVE  sidecar' = mark'
    OBVIOUS
  <2>1. mark = sidecar
    BY DEF MarkInv
  <2>2. FinishSave
    BY DEF Next, Admit, Execute, LogWrite, LogWriteFails, Flush, BeginSave, SaveMarker,
           SaveSnapshot, SaveDedup, SaveFails, Fails, Crash, Start, RefuseStart, MarkInv, memVars
  <2>3. QED
    BY <2>1, <2>2 DEF FinishSave
<1>2. QED
  BY MarkAlways, <1>1, PTL DEF Spec, CompletedSaveHasMarks

-----------------------------------------------------------------------------
(* Recovery *)

\* Positions and ids of the log.
LEMMA FileFacts ==
    ASSUME TypeOK
    PROVE  /\ aof \in Seq(Record) /\ DOMAIN aof = 1..Len(aof) /\ Len(aof) \in Nat
           /\ synced \in Nat /\ synced <= Len(aof)
           /\ \A i \in 1..Len(aof) : aof[i].kind = "write" => aof[i].id \in Logged(Len(aof))
           /\ \A w \in Logged(Len(aof)) : \E i \in 1..Len(aof) : aof[i].kind = "write" /\ aof[i].id = w
           /\ Logged(synced) \subseteq Logged(Len(aof))
           /\ checkpoint + 1 \in Nat /\ snap.id \in Nat /\ logging \in Nat
<1>1. aof \in Seq(Record) /\ synced \in 0..Len(aof)
  BY DEF TypeOK, Record
<1>2. Len(aof) \in Nat /\ DOMAIN aof = 1..Len(aof)
  BY <1>1
<1>3. synced \in Nat /\ synced <= Len(aof)
  BY <1>1, <1>2
<1>4. \A i \in 1..Len(aof) : aof[i].kind = "write" => aof[i].id \in Logged(Len(aof))
  BY DEF Logged
<1>5. \A w \in Logged(Len(aof)) : \E i \in 1..Len(aof) : aof[i].kind = "write" /\ aof[i].id = w
  BY DEF Logged
<1>6. Logged(synced) \subseteq Logged(Len(aof))
  BY <1>2, <1>3 DEF Logged
<1>7. checkpoint + 1 \in Nat /\ snap.id \in Nat /\ logging \in Nat
  BY DEF TypeOK
<1>8. QED
  BY <1>1, <1>2, <1>3, <1>4, <1>5, <1>6, <1>7

\* What is counted as written to the file is in it.
LEMMA WrittenIsLogged ==
    ASSUME TypeOK
    PROVE  Written(aof) \subseteq Logged(Len(aof))
<1>1. DOMAIN aof = 1..Len(aof)
  BY FileFacts
<1>2. QED
  BY <1>1, RecordKinds DEF Written, Logged, Range

\* The files are as good as they were.
LEMMA FilesSame ==
    ASSUME FilesOK, UNCHANGED <<aof, synced, snap, durable>>
    PROVE  FilesOK'
BY DEF FilesOK, Uncovered, Logged

\* A record that is not a marker of the snapshot's checkpoint is appended, a write being
\* later than all others.
LEMMA FilesAppend ==
    ASSUME TypeOK, FilesOK, NEW r \in Record, aof' = Append(aof, r), r # Marker(snap.id),
           snap' = snap, synced' \in {synced, Len(aof')},
           r.kind = "write" =>
             \A w \in Range(snap.data) \cup Logged(Len(aof)) : w < r.id,
           durable' \subseteq durable \cup (IF synced' = synced THEN {} ELSE Logged(Len(aof))')
    PROVE  FilesOK'
<1>0. /\ aof \in Seq(Record) /\ DOMAIN aof = 1..Len(aof) /\ Len(aof) \in Nat
      /\ synced \in Nat /\ synced <= Len(aof)
      /\ \A i \in 1..Len(aof) : aof[i].kind = "write" => aof[i].id \in Logged(Len(aof))
  BY FileFacts
<1>1. /\ Len(aof') = Len(aof) + 1 /\ DOMAIN aof' = 1..(Len(aof) + 1)
      /\ \A i \in 1..Len(aof) : aof'[i] = aof[i]
      /\ aof'[Len(aof) + 1] = r
  BY <1>0, Appended
<1>2. \A i \in 1..Len(aof) : Uncovered(i)' <=> Uncovered(i)
  BY <1>0, <1>1 DEF Uncovered
<1>3. (\A i \in Nat : i = Len(aof) + 1 => Uncovered(i)') /\ snap'.data = snap.data
  BY <1>0, <1>1 DEF Uncovered
<1>4. \A i, j \in DOMAIN aof' :
         i < j /\ aof'[i].kind = "write" /\ aof'[j].kind = "write" => aof'[i].id < aof'[j].id
  <2> SUFFICES ASSUME NEW i \in 1..(Len(aof) + 1), NEW j \in 1..(Len(aof) + 1), i < j,
                      aof'[i].kind = "write", aof'[j].kind = "write"
               PROVE  aof'[i].id < aof'[j].id
    BY <1>1
  <2>1. i \in 1..Len(aof) /\ aof'[i] = aof[i] /\ aof[i].id \in Logged(Len(aof))
    BY <1>0, <1>1
  <2>2. CASE j = Len(aof) + 1
    BY <1>1, <2>1, <2>2
  <2>3. CASE j # Len(aof) + 1
    <3>1. j \in 1..Len(aof) /\ aof'[j] = aof[j]
      BY <1>0, <1>1, <2>3
    <3>2. QED
      BY <1>0, <2>1, <3>1 DEF FilesOK
  <2>4. QED
    BY <2>2, <2>3
<1>5. \A j \in DOMAIN aof' : aof'[j] = Marker(snap'.id) => j <= synced'
  <2> SUFFICES ASSUME NEW j \in 1..(Len(aof) + 1), aof'[j] = Marker(snap.id) PROVE j <= synced'
    BY <1>1
  <2>1. j \in 1..Len(aof) /\ aof[j] = Marker(snap.id)
    BY <1>0, <1>1
  <2>2. j <= synced
    BY <1>0, <2>1 DEF FilesOK
  <2>3. QED
    BY <1>0, <1>1, <2>1, <2>2
<1>6. \A i \in DOMAIN aof' : aof'[i].kind = "write" =>
         IF Uncovered(i)' THEN \A w \in Range(snap'.data) : w < aof'[i].id
                          ELSE aof'[i].id \in Range(snap'.data)
  <2> SUFFICES ASSUME NEW i \in 1..(Len(aof) + 1), aof'[i].kind = "write"
               PROVE  IF Uncovered(i)' THEN \A w \in Range(snap'.data) : w < aof'[i].id
                                       ELSE aof'[i].id \in Range(snap'.data)
    BY <1>1
  <2>1. CASE i = Len(aof) + 1
    BY <1>1, <1>3, <2>1
  <2>2. CASE i # Len(aof) + 1
    <3>1. i \in 1..Len(aof) /\ aof'[i] = aof[i]
      BY <1>0, <1>1, <2>2
    <3>2. QED
      BY <1>0, <1>2, <1>3, <3>1 DEF FilesOK
  <2>3. QED
    BY <2>1, <2>2
<1>7. durable' \subseteq Range(snap'.data) \cup Logged(synced)'
  <2>1. \A n \in 0..Len(aof) :
           {aof'[i].id : i \in {j \in 1..n : aof'[j].kind = "write"}} = Logged(n)
    BY <1>0, LoggedAppend
  <2>2. CASE synced' = synced
    <3>1. Logged(synced)' = Logged(synced)
      BY <1>0, <2>1, <2>2 DEF Logged
    <3>2. QED
      BY <1>3, <2>2, <3>1 DEF FilesOK
  <2>3. CASE synced' = Len(aof')
    <3>1. Logged(synced)' = Logged(Len(aof))'
      BY <2>3 DEF Logged
    <3>2. Logged(synced) \subseteq Logged(Len(aof))'
      BY <1>0, <1>1 DEF Logged
    <3>3. QED
      BY <1>3, <3>1, <3>2 DEF FilesOK
  <2>4. QED
    BY <2>2, <2>3
<1>8. QED
  BY <1>3, <1>4, <1>5, <1>6, <1>7 DEF FilesOK

\* A start after a tail that may be torn makes the keyspace of its files, in their order.
LEMMA Restarts ==
    ASSUME TypeOK, FileInv, FilesOK, ~ behind, Start
    PROVE  /\ Ascending(store')
           /\ Range(store') = Range(snap.data) \cup Logged(Len(aof))
<1>0. /\ aof \in Seq(Record) /\ DOMAIN aof = 1..Len(aof) /\ Len(aof) \in Nat
      /\ \A i \in 1..Len(aof) : aof[i].kind = "write" => aof[i].id \in Logged(Len(aof))
      /\ snap.id \in Nat
  BY FileFacts
<1>1. PICK g : ReplayOf(g) /\ store' = g[Len(aof)]
  BY Loads DEF Start
<1>2. \A i \in 1..Len(aof) : aof[i] # Torn => Parsed(i)
  BY <1>0 DEF FileInv, TornInside, Parsed
<1>3. ASSUME NEW i \in 1..Len(aof), aof[i].kind = "write" PROVE Replays(i) <=> Uncovered(i)
  <2>1. Parsed(i)
    BY <1>2, <1>3, RecordKinds
  <2>2. \A j \in i..Len(aof) : aof[j] = Marker(snap.id) => Parsed(j) /\ j > i
    BY <1>0, <1>2, <1>3, RecordKinds
  <2>3. QED
    BY <1>0, <1>3, <2>1, <2>2 DEF Replays, Uncovered
<1>4. \A i \in 1..Len(aof) : Replays(i) => aof[i].kind = "write"
  BY DEF Replays
<1>5. Range(store') = Range(snap.data) \cup ReplayedBy(Len(aof))
  BY <1>0, <1>1, ReplayRange
<1>6. ReplayedBy(Len(aof)) \subseteq Logged(Len(aof))
  BY <1>4 DEF ReplayedBy, Logged
<1>7. Logged(Len(aof)) \subseteq Range(snap.data) \cup ReplayedBy(Len(aof))
  BY <1>0, <1>3 DEF ReplayedBy, Logged, FilesOK
<1>8. Ascending(store')
  <2>1. \A i, j \in 1..Len(aof) : i < j /\ Replays(i) /\ Replays(j) => aof[i].id < aof[j].id
    BY <1>0, <1>4 DEF FilesOK
  <2>2. \A i \in 1..Len(aof) : Replays(i) => \A w \in Range(snap.data) : w < aof[i].id
    BY <1>0, <1>3, <1>4 DEF FilesOK
  <2>3. \A n \in 0..Len(aof) : Ascending(g[n])
    BY <1>1, <2>1, <2>2, ReplayAscends DEF FilesOK
  <2>4. QED
    BY <1>0, <1>1, <2>3
<1>9. QED
  BY <1>5, <1>6, <1>7, <1>8

\* What a crash leaves are files a start can recover from.
LEMMA CrashKeepsFiles ==
    ASSUME TypeOK, FilesOK, RunningOK, MarkInv, ~ FollowsPrimary, Crash
    PROVE  FilesOK' /\ StoppedOK'
<1>0. /\ aof \in Seq(Record) /\ DOMAIN aof = 1..Len(aof) /\ Len(aof) \in Nat
      /\ synced \in Nat /\ synced <= Len(aof)
      /\ \A i \in 1..Len(aof) : aof[i].kind = "write" => aof[i].id \in Logged(Len(aof))
      /\ \A w \in Logged(Len(aof)) : \E i \in 1..Len(aof) : aof[i].kind = "write" /\ aof[i].id = w
      /\ checkpoint + 1 \in Nat /\ snap.id \in Nat /\ logging \in Nat /\ checkpoint \in Nat
  BY FileFacts DEF TypeOK
<1>1. PICK n \in synced..Len(Begun) :
         /\ aof' \in Seq(Record) /\ Len(aof') \in {n, n + 1} /\ n \in Nat /\ n <= Len(Begun)
         /\ \A i \in 1..n : aof'[i] = Begun[i]
         /\ Len(aof') = n + 1 => aof'[n + 1] = Torn
         /\ synced' = Len(aof')
  BY Crashed
<1>2. /\ Len(Begun) \in {Len(aof), Len(aof) + 1}
      /\ \A i \in 1..Len(aof) : Begun[i] = aof[i]
      /\ Len(Begun) = Len(aof) + 1 =>
           \/ Begun[Len(Begun)] = Write(logging) /\ logging # NoWrite
           \/ Begun[Len(Begun)] = Marker(checkpoint + 1) /\ saving = "marker"
  BY BegunShape
<1>3. DOMAIN aof' = 1..Len(aof') /\ UNCHANGED <<snap, durable, store, unlogged>> /\ n >= synced
  BY <1>0, <1>1 DEF Crash
<1>4. ASSUME NEW i \in 1..Len(aof'), aof'[i].kind = "write"
      PROVE  /\ i <= n
             /\ \/ i <= Len(aof) /\ aof'[i] = aof[i]
                \/ i = Len(aof) + 1 /\ aof'[i].id = logging /\ logging # NoWrite
  <2>1. i \in 1..n
    BY <1>1, <1>4, RecordKinds
  <2>2. aof'[i] = Begun[i]
    BY <1>1, <2>1
  <2>3. CASE i <= Len(aof)
    BY <1>0, <1>2, <2>1, <2>2, <2>3
  <2>4. CASE ~ (i <= Len(aof))
    <3>1. i = Len(Begun) /\ Len(Begun) = Len(aof) + 1
      BY <1>0, <1>1, <1>2, <2>1, <2>4
    <3>2. aof'[i] = Write(logging) /\ logging # NoWrite
      BY <1>0, <1>2, <1>4, <2>2, <3>1, RecordKinds
    <3>3. QED
      BY <1>0, <2>1, <3>1, <3>2, RecordKinds
  <2>5. QED
    BY <2>3, <2>4
<1>5. ASSUME NEW i \in 1..Len(aof'), aof'[i] = Marker(snap.id)
      PROVE  i <= Len(aof) /\ aof[i] = Marker(snap.id)
  <2>1. i \in 1..n /\ aof'[i] = Begun[i]
    BY <1>0, <1>1, <1>5, RecordKinds
  <2>2. CASE i <= Len(aof)
    BY <1>0, <1>2, <1>5, <2>1, <2>2
  <2>3. CASE ~ (i <= Len(aof))
    <3>1. i = Len(Begun) /\ Len(Begun) = Len(aof) + 1
      BY <1>0, <1>1, <1>2, <2>1, <2>3
    <3>2. Begun[Len(Begun)] = Marker(checkpoint + 1) /\ saving = "marker"
      <4>1. Begun[Len(Begun)] = Marker(snap.id)
        BY <1>5, <2>1, <3>1
      <4>2. Marker(snap.id).kind = "marker" /\ Write(logging).kind = "write"
        BY <1>0, RecordKinds
      <4>3. QED
        BY <1>2, <3>1, <4>1, <4>2
    <3>3. Marker(snap.id) = Marker(checkpoint + 1) /\ snap.id = checkpoint
      BY <1>5, <2>1, <3>1, <3>2 DEF RunningOK
    <3>4. QED
      BY <1>0, <3>3, RecordKinds
  <2>4. QED
    BY <2>2, <2>3
<1>6. ASSUME NEW i \in 1..Len(aof), i <= n PROVE i \in 1..Len(aof') /\ aof'[i] = aof[i]
  <2>1. i \in 1..n /\ i \in 1..Len(aof')
    BY <1>0, <1>1, <1>6
  <2>2. aof'[i] = Begun[i] /\ Begun[i] = aof[i]
    BY <1>1, <1>2, <2>1
  <2>3. QED
    BY <2>1, <2>2
<1>7. logging # NoWrite => \A w \in Range(snap.data) \cup Logged(Len(aof)) : w < logging
  BY DEF RunningOK
<1>8. ASSUME NEW i \in 1..Len(aof), aof[i].kind = "write", i <= n PROVE Uncovered(i)' <=> Uncovered(i)
  <2>1. ASSUME NEW j \in 1..Len(aof), j > i, aof[j] = Marker(snap.id) PROVE ~ Uncovered(i)'
    <3>1. j <= n
      BY <1>0, <1>1, <1>3, <2>1 DEF FilesOK
    <3>2. j \in DOMAIN aof' /\ aof'[j] = Marker(snap'.id)
      BY <1>3, <1>6, <2>1, <3>1
    <3>3. QED
      BY <2>1, <3>2 DEF Uncovered
  <2>2. ASSUME NEW j \in 1..Len(aof'), j > i, aof'[j] = Marker(snap.id) PROVE ~ Uncovered(i)
    <3>1. j \in DOMAIN aof /\ aof[j] = Marker(snap.id)
      BY <1>0, <1>1, <1>5, <2>2
    <3>2. QED
      BY <2>2, <3>1 DEF Uncovered
  <2>3. QED
    BY <1>0, <1>3, <2>1, <2>2 DEF Uncovered
<1>9. FilesOK'
  <2>1. Ascending(snap'.data)
    BY <1>3 DEF FilesOK
  <2>2. ASSUME NEW i \in 1..Len(aof'), NEW j \in 1..Len(aof'), i < j,
               aof'[i].kind = "write", aof'[j].kind = "write"
        PROVE  aof'[i].id < aof'[j].id
    <3>1. i <= Len(aof) /\ aof'[i] = aof[i] /\ i \in 1..Len(aof)
      BY <1>0, <1>1, <1>2, <1>4, <2>2
    <3>2. CASE j <= Len(aof) /\ aof'[j] = aof[j]
      <4>1. j \in 1..Len(aof) /\ aof[i].kind = "write" /\ aof[j].kind = "write"
        BY <1>0, <2>2, <3>1, <3>2
      <4>2. aof[i].id < aof[j].id
        BY <1>0, <2>2, <3>1, <4>1 DEF FilesOK
      <4>3. QED
        BY <3>1, <3>2, <4>2
    <3>3. CASE aof'[j].id = logging /\ logging # NoWrite
      BY <1>0, <1>7, <2>2, <3>1, <3>3
    <3>4. QED
      BY <1>4, <2>2, <3>2, <3>3
  <2>3. \A j \in 1..Len(aof') : j <= synced'
    BY <1>1
  <2>4. ASSUME NEW i \in 1..Len(aof'), aof'[i].kind = "write"
        PROVE  IF Uncovered(i)' THEN \A w \in Range(snap'.data) : w < aof'[i].id
                                ELSE aof'[i].id \in Range(snap'.data)
    <3>1. CASE i <= Len(aof) /\ aof'[i] = aof[i]
      <4>1. i \in 1..Len(aof) /\ aof[i].kind = "write" /\ i <= n
        BY <1>0, <1>4, <2>4, <3>1
      <4>2. Uncovered(i)' <=> Uncovered(i)
        BY <1>8, <4>1
      <4>3. QED
        BY <1>0, <1>3, <3>1, <4>1, <4>2 DEF FilesOK
    <3>2. CASE i = Len(aof) + 1 /\ aof'[i].id = logging /\ logging # NoWrite
      <4>1. Uncovered(i)'
        <5>1. \A j \in 1..Len(aof') : j > i => aof'[j] # Marker(snap.id)
          BY <1>0, <1>1, <1>5, <3>2
        <5>2. QED
          BY <1>3, <5>1 DEF Uncovered
      <4>2. QED
        BY <1>3, <1>7, <3>2, <4>1
    <3>3. QED
      BY <1>4, <2>4, <3>1, <3>2
  <2>5. durable' \subseteq Range(snap'.data) \cup Logged(synced)'
    <3>1. Logged(synced) \subseteq Logged(synced)'
      <4>1. ASSUME NEW i \in 1..synced, aof[i].kind = "write" PROVE aof[i].id \in Logged(synced)'
        <5>1. i \in 1..Len(aof') /\ aof'[i] = aof[i]
          BY <1>0, <1>1, <1>3, <1>6
        <5>2. QED
          BY <1>1, <4>1, <5>1 DEF Logged
      <4>2. QED
        BY <4>1 DEF Logged
    <3>2. QED
      BY <1>3, <3>1 DEF FilesOK
  <2>6. QED
    BY <1>3, <2>1, <2>2, <2>3, <2>4, <2>5 DEF FilesOK
<1>10. StoppedOK'
  <2>1. \A w \in Logged(Len(aof))' : \E i \in 1..Len(aof') : aof'[i].kind = "write" /\ aof'[i].id = w
    BY DEF Logged
  <2>2. \A i \in 1..Len(aof') : aof'[i].kind = "write" => aof'[i].id \in Logged(Len(aof))'
    BY DEF Logged
  <2>3. /\ Range(store) =
             Range(snap.data) \cup Logged(Len(aof)) \cup unlogged \cup ({logging} \ {NoWrite})
        /\ unlogged \cap (Range(snap.data) \cup Logged(Len(aof))) = {}
        /\ logging # NoWrite =>
             \A w \in Range(snap.data) \cup Logged(Len(aof)) \cup unlogged : w < logging
    BY DEF RunningOK
  <2>4. unlogged \subseteq Nat /\ Range(snap.data) \subseteq Nat /\ Logged(Len(aof)) \subseteq Nat
    <3>1. snap.data \in Seq(Nat \ {0})
      BY DEF TypeOK
    <3>2. ASSUME NEW i \in 1..Len(aof) PROVE aof[i].id \in Nat
      <4>1. aof[i] \in Record
        BY <1>0
      <4>2. QED
        BY <4>1 DEF Record
    <3>3. QED
      BY <3>1, <3>2, RangeType DEF TypeOK, Logged
  <2>5. Logged(Len(aof))' \subseteq Logged(Len(aof)) \cup ({logging} \ {NoWrite})
    BY CrashLogged
  <2>6. Range(snap.data) \cup Logged(Len(aof))' \subseteq Range(store) \ unlogged
    BY <1>0, <2>3, <2>4, <2>5
  <2>7. ASSUME NEW w \in Range(snap.data) \cup Logged(Len(aof))', NEW v \in Range(store) \ unlogged, v < w
        PROVE  v \in Range(snap.data) \cup Logged(Len(aof))'
    <3>1. CASE v \in Range(snap.data)
      BY <3>1
    <3>2. CASE v \in Logged(Len(aof)) /\ v \notin Range(snap.data)
      <4>1. PICK p \in 1..Len(aof) : aof[p].kind = "write" /\ aof[p].id = v
        BY <1>0, <3>2
      <4>2. \A u \in Range(snap.data) : u < v
        BY <1>0, <3>2, <4>1 DEF FilesOK
      <4>3. w \in Logged(Len(aof))'
        BY <2>4, <2>7, <3>2, <4>2
      <4>4. PICK i \in 1..Len(aof') : aof'[i].kind = "write" /\ aof'[i].id = w
        BY <2>1, <4>3
      <4>5. p <= n
        <5>1. CASE i <= Len(aof) /\ aof'[i] = aof[i]
          <6>1. ~ (i < p) /\ i # p
            <7>1. i \in 1..Len(aof) /\ aof[i].kind = "write" /\ aof[i].id = w
              BY <1>0, <4>4, <5>1
            <7>2. w \in Nat /\ v \in Nat
              BY <1>0, <2>4, <3>2, <7>1
            <7>3. i < p => aof[i].id < aof[p].id
              BY <1>0, <4>1, <7>1 DEF FilesOK
            <7>4. QED
              BY <2>7, <4>1, <7>1, <7>2, <7>3
          <6>2. QED
            BY <1>0, <1>1, <1>4, <4>4, <6>1
        <5>2. CASE i = Len(aof) + 1
          BY <1>0, <1>1, <1>4, <4>4, <5>2
        <5>3. QED
          BY <1>4, <4>4, <5>1, <5>2
      <4>6. p \in 1..Len(aof') /\ aof'[p] = aof[p]
        BY <1>6, <4>5
      <4>7. QED
        BY <2>2, <4>1, <4>6
    <3>3. CASE v = logging /\ logging # NoWrite
      <4>1. w = logging \/ w < logging
        BY <2>3, <2>5, <2>7, <3>3
      <4>2. QED
        BY <1>0, <2>4, <2>5, <2>7, <3>3, <4>1
    <3>4. QED
      BY <2>3, <2>7, <3>1, <3>2, <3>3
  <2>8. QED
    BY <1>3, <2>6, <2>7 DEF StoppedOK
<1>11. QED
  BY <1>9, <1>10

\* A wound stays.
LEMMA WoundsStay ==
    ASSUME TypeOK, [Next]_vars, ~ Wounded'
    PROVE  ~ Wounded /\ \A k : Fails(k) => k \notin {"partial", "late"}
<1>1. CASE UNCHANGED vars
  <2>1. counts' = counts /\ behind' = behind
    BY <1>1 DEF vars
  <2>2. \A k : ~ Fails(k)
    <3>1. SUFFICES ASSUME NEW k, Fails(k) PROVE FALSE
      OBVIOUS
    <3>2. counts'.failures = counts.failures + 1 /\ counts.failures \in Nat
      <4>1. counts' = [counts EXCEPT !.failures = @ + 1, !.kinds = @ \cup {k}]
        BY <3>1 DEF Fails
      <4>2. QED
        BY <4>1 DEF TypeOK
    <3>3. QED
      BY <2>1, <3>2
  <2>3. QED
    BY <2>1, <2>2 DEF Wounded
<1>2. CASE Next
  <2>1. behind' = (behind \/ TornInside')
    BY <1>2 DEF Next
  <2>2. \A k : Fails(k) => counts'.kinds = counts.kinds \cup {k}
    BY Failed
  <2>3. counts.kinds \subseteq counts'.kinds
    <3>1. CASE \E k : Fails(k)
      BY <2>2, <3>1
    <3>2. CASE ~ \E k : Fails(k)
      <4>1. \/ counts' = counts \/ counts' = [counts EXCEPT !.writes = @ + 1]
            \/ counts' = [counts EXCEPT !.saves = @ + 1]
            \/ counts' = [counts EXCEPT !.crashes = @ + 1]
        BY <1>2, <3>2
           DEF Next, Admit, Execute, LogWrite, LogWriteFails, Flush, BeginSave, SaveMarker,
               SaveSnapshot, SaveDedup, FinishSave, SaveFails, Crash, Start, RefuseStart
      <4>2. QED
        BY <4>1 DEF TypeOK
    <3>3. QED
      BY <3>1, <3>2
  <2>4. QED
    BY <2>1, <2>2, <2>3 DEF Wounded
<1>3. QED
  BY <1>1, <1>2

\* The invariant of a running server, from what the step leaves alone.
LEMMA RunningSame ==
    ASSUME RunningOK, UNCHANGED <<store, snap, aof, unlogged, logging, checkpoint>>,
           saving' \in {"dedup", "truncate"} <=> saving \in {"dedup", "truncate"},
           saving' = "snapshot" => saving = "snapshot" /\ synced' = synced
    PROVE  RunningOK'
BY DEF RunningOK, Logged

\* Every step of a running server keeps the files and the keyspace together.
LEMMA RunningStep ==
    ASSUME TypeOK, TypeOK', FileInv, MarkInv, FilesOK, RunningOK, ~ FollowsPrimary,
           up = "up", up' = "up", Next, \A k : Fails(k) => k \notin {"partial", "late"}
    PROVE  FilesOK' /\ RunningOK'
<1> USE DEF diskVars, memVars
<1>0. /\ aof \in Seq(Record) /\ DOMAIN aof = 1..Len(aof) /\ Len(aof) \in Nat
      /\ synced \in Nat /\ synced <= Len(aof)
      /\ \A i \in 1..Len(aof) : aof[i].kind = "write" => aof[i].id \in Logged(Len(aof))
      /\ Logged(synced) \subseteq Logged(Len(aof))
      /\ checkpoint + 1 \in Nat /\ snap.id \in Nat /\ logging \in Nat
  BY FileFacts
<1>1. /\ Range(store) =
           Range(snap.data) \cup Logged(Len(aof)) \cup unlogged \cup ({logging} \ {NoWrite})
      /\ unlogged \cap (Range(snap.data) \cup Logged(Len(aof))) = {}
      /\ Ascending(store)
      /\ logging # NoWrite =>
           \A w \in Range(snap.data) \cup Logged(Len(aof)) \cup unlogged : w < logging
      /\ durable \subseteq Range(snap.data) \cup Logged(synced)
      /\ saving # "idle" => logging = NoWrite
  BY DEF RunningOK, FilesOK, MarkInv
<1>2. ASSUME UNCHANGED <<aof, synced, snap, durable, store, unlogged, logging, checkpoint>>,
             saving' \in {"dedup", "truncate"} <=> saving \in {"dedup", "truncate"},
             saving' = "snapshot" => saving = "snapshot"
      PROVE  FilesOK' /\ RunningOK'
  BY <1>2, FilesSame, RunningSame
<1>3. CASE Admit \/ BeginSave \/ SaveDedup
  BY <1>2, <1>3 DEF Admit, BeginSave, SaveDedup
<1>4. CASE Execute
  <2>1. /\ UNCHANGED <<aof, synced, snap, durable, unlogged, checkpoint, saving>>
        /\ logging = NoWrite /\ saving = "idle"
        /\ counts' = [counts EXCEPT !.writes = @ + 1] /\ store' = Append(store, counts'.writes)
        /\ logging' = counts'.writes
    BY <1>4, DurabilityAssumption DEF Execute
  <2>2. counts.writes \in Nat /\ logging' = counts.writes + 1
    BY <2>1 DEF TypeOK
  <2>3. Range(store) \subseteq 1..counts.writes
    BY DEF FileInv
  <2>4. store \in Seq(Ids) /\ logging' \in Ids /\ \A w \in Range(store) : w < logging'
    <3>1. store \in Seq(Ids)
      BY DEF TypeOK, Ids
    <3>2. logging' \in Ids
      BY <2>2 DEF Ids
    <3>3. \A w \in Range(store) : w < logging'
      BY <2>2, <2>3
    <3>4. QED
      BY <3>1, <3>2, <3>3
  <2>5. Ascending(store') /\ Range(store') = Range(store) \cup {logging'}
    BY <1>1, <2>1, <2>4, AppendAscends, AppendRange
  <2>6. Logged(Len(aof))' = Logged(Len(aof)) /\ logging' # NoWrite
    BY <2>1, <2>2 DEF Logged, NoWrite
  <2>7. RunningOK'
    BY <1>1, <2>1, <2>4, <2>5, <2>6 DEF RunningOK
  <2>8. QED
    BY <2>1, <2>7, FilesSame
<1>5. ASSUME logging # NoWrite, aof' = Append(aof, Write(logging)), logging' = NoWrite,
             UNCHANGED <<store, snap, unlogged, checkpoint, saving>>,
             synced' \in {synced, Len(aof')},
             durable' \subseteq durable \cup (IF synced' = synced THEN {} ELSE Logged(Len(aof))')
      PROVE  FilesOK' /\ RunningOK'
  <2>1. Write(logging) \in Record /\ Write(logging).kind = "write" /\ Write(logging).id = logging
        /\ Write(logging) # Marker(snap.id)
    BY <1>0, RecordKinds
  <2>2. FilesOK'
    BY <1>1, <1>5, <2>1, FilesAppend
  <2>3. Logged(Len(aof))' = Logged(Len(aof)) \cup {logging}
    <3>1. Logged(Len(aof))' = Logged(Len(aof)) \cup
             (IF Write(logging).kind = "write" THEN {Write(logging).id} ELSE {})
      BY <1>0, <1>5, <2>1, LoggedAppend
    <3>2. QED
      BY <2>1, <3>1
  <2>4. logging \notin unlogged /\ saving = "idle"
    BY <1>0, <1>1, <1>5
  <2>5. RunningOK'
    BY <1>1, <1>5, <2>3, <2>4 DEF RunningOK
  <2>6. QED
    BY <2>2, <2>5
<1>6. CASE LogWrite
  <2>1. /\ logging # NoWrite /\ aof' = Append(aof, Write(logging)) /\ logging' = NoWrite
        /\ UNCHANGED <<store, snap, unlogged, checkpoint, saving>>
        /\ \/ synced' = synced /\ durable' = durable
           \/ synced' = Len(aof') /\ durable' = durable \cup Written(aof')
    BY <1>6 DEF LogWrite, Commit
  <2>2. Written(aof') \subseteq Logged(Len(aof))'
    <3>1. DOMAIN aof' = 1..Len(aof')
      BY DEF TypeOK
    <3>2. QED
      BY <3>1, RecordKinds DEF Written, Logged, Range
  <2>3. Len(aof') # synced
    BY <1>0, <2>1, Appended, RecordKinds
  <2>4. durable' \subseteq durable \cup (IF synced' = synced THEN {} ELSE Logged(Len(aof))')
    BY <2>1, <2>2, <2>3
  <2>5. QED
    BY <1>5, <2>1, <2>4
<1>7. CASE LogWriteFails
  <2>1. /\ logging # NoWrite /\ logging' = NoWrite
        /\ UNCHANGED <<store, snap, checkpoint, saving, synced, durable>>
        /\ unlogged' = unlogged \cup ({logging} \ Written(aof'))
        /\ aof' = aof \/ aof' = Append(aof, Write(logging))
    BY <1>7 DEF LogWriteFails, Commit
  <2>2. CASE aof' = aof
    <3>1. unlogged' = unlogged \cup {logging} /\ logging \notin Logged(Len(aof)) \cup Range(snap.data)
      <4>1. Written(aof) \subseteq Logged(Len(aof))
        BY WrittenIsLogged
      <4>2. logging \notin Logged(Len(aof)) \cup Range(snap.data)
        BY <1>0, <1>1, <2>1
      <4>3. QED
        BY <2>1, <2>2, <4>1, <4>2
    <3>2. Logged(Len(aof))' = Logged(Len(aof)) /\ saving = "idle"
      BY <1>1, <2>1, <2>2 DEF Logged
    <3>3. RunningOK'
      BY <1>1, <2>1, <2>2, <3>1, <3>2 DEF RunningOK
    <3>4. QED
      BY <2>1, <2>2, <3>3, FilesSame
  <2>3. CASE aof' = Append(aof, Write(logging))
    <3>1. logging \in Written(aof')
      <4>1. Write(logging) \in Range(aof')
        BY <1>0, <2>3, RecordKinds, AppendRange
      <4>2. logging \in 1..counts.writes
        <5>1. logging \in 0..counts.writes /\ logging # 0
          BY <2>1 DEF FileInv, NoWrite
        <5>2. counts.writes \in Nat
          BY DEF TypeOK
        <5>3. QED
          BY <5>1, <5>2
      <4>3. QED
        BY <4>1, <4>2 DEF Written
    <3>2. unlogged' = unlogged
      BY <2>1, <3>1
    <3>3. QED
      BY <1>5, <2>1, <2>3, <3>2
  <2>4. QED
    BY <2>1, <2>2, <2>3
<1>8. CASE Flush
  <2>1. UNCHANGED <<aof, snap, store, unlogged, logging, checkpoint, saving>>
    BY <1>8 DEF Flush
  <2>2. CASE UNCHANGED <<synced, durable>>
    BY <1>2, <2>1, <2>2
  <2>3. CASE synced' = Len(aof) /\ durable' = durable \cup Written(aof)
    <3>1. durable' \subseteq Range(snap'.data) \cup Logged(synced)'
      <4>1. Logged(synced)' = Logged(Len(aof))
        BY <2>1, <2>3 DEF Logged
      <4>2. QED
        BY <1>0, <1>1, <2>1, <2>3, <4>1, WrittenIsLogged
    <3>2. FilesOK'
      <4>1. \A i \in Nat : Uncovered(i)' <=> Uncovered(i)
        BY <2>1 DEF Uncovered
      <4>2. \A i \in DOMAIN aof : i \in Nat /\ i <= Len(aof)
        BY <1>0
      <4>3. QED
        BY <2>1, <2>3, <3>1, <4>1, <4>2 DEF FilesOK
    <3>3. RunningOK'
      BY <2>1, <2>3 DEF RunningOK, Logged
    <3>4. QED
      BY <3>2, <3>3
  <2>4. QED
    BY <1>8, <2>2, <2>3 DEF Flush
<1>9. ASSUME saving = "marker", aof' = Append(aof, Marker(checkpoint + 1)),
             synced' \in {synced, Len(aof')},
             durable' \subseteq durable \cup (IF synced' = synced THEN {} ELSE Logged(Len(aof))'),
             UNCHANGED <<store, logging, checkpoint, snap, unlogged>>,
             saving' = "idle" \/ (saving' = "snapshot" /\ synced' = Len(aof'))
      PROVE  FilesOK' /\ RunningOK'
  <2>1. /\ Marker(checkpoint + 1) \in Record /\ Marker(checkpoint + 1).kind = "marker"
        /\ snap.id = checkpoint
    BY <1>0, <1>9, RecordKinds DEF RunningOK
  <2>2. Marker(checkpoint + 1) # Marker(snap.id)
    BY <1>0, <2>1, RecordKinds
  <2>3. FilesOK'
    BY <1>9, <2>1, <2>2, FilesAppend
  <2>4. Logged(Len(aof))' = Logged(Len(aof))
    <3>1. Logged(Len(aof))' = Logged(Len(aof)) \cup
             (IF Marker(checkpoint + 1).kind = "write" THEN {Marker(checkpoint + 1).id} ELSE {})
      BY <1>0, <1>9, <2>1, LoggedAppend
    <3>2. QED
      BY <2>1, <3>1
  <2>5. Len(aof') = Len(aof) + 1 /\ aof'[Len(aof) + 1] = Marker(checkpoint + 1) /\ aof' # << >>
    BY <1>0, <1>9, <2>1, Appended
  <2>6. RunningOK'
    BY <1>1, <1>9, <2>1, <2>4, <2>5 DEF RunningOK
  <2>7. QED
    BY <2>3, <2>6
<1>10. CASE SaveMarker
  <2>1. /\ saving = "marker" /\ aof' = Append(aof, Marker(checkpoint + 1)) /\ synced' = Len(aof')
        /\ durable' = durable \cup Written(aof) /\ saving' = "snapshot"
        /\ UNCHANGED <<store, logging, checkpoint, snap, unlogged>>
    BY <1>10 DEF SaveMarker
  <2>2. Len(aof') = Len(aof) + 1 /\ Logged(Len(aof)) \subseteq Logged(Len(aof))'
    <3>1. Marker(checkpoint + 1) \in Record
      BY <1>0, RecordKinds
    <3>2. QED
      BY <1>0, <2>1, <3>1, Appended, LoggedAppend
  <2>3. durable' \subseteq durable \cup (IF synced' = synced THEN {} ELSE Logged(Len(aof))')
    BY <1>0, <2>1, <2>2, WrittenIsLogged
  <2>4. QED
    BY <1>9, <2>1, <2>3
<1>11. CASE SaveFails
  <2>1. /\ saving' = "idle" /\ UNCHANGED <<store, logging, checkpoint, durable, unlogged>>
        /\ saving \in {"marker", "snapshot"} /\ UNCHANGED <<synced, snap>>
        /\ \/ aof' = aof
           \/ saving = "marker" /\ aof' = Append(aof, Marker(checkpoint + 1))
    BY <1>11 DEF SaveFails
  <2>2. CASE aof' = aof
    BY <1>2, <2>1, <2>2
  <2>3. CASE saving = "marker" /\ aof' = Append(aof, Marker(checkpoint + 1))
    BY <1>9, <2>1, <2>3
  <2>4. QED
    BY <2>1, <2>2, <2>3
<1>12. CASE SaveSnapshot
  <2>1. /\ saving = "snapshot" /\ saving' = "dedup" /\ unlogged' = {}
        /\ snap' = [id |-> checkpoint + 1, data |-> store] /\ durable' = durable \cup Range(store)
        /\ UNCHANGED <<store, logging, checkpoint, aof, synced>>
    BY <1>12 DEF SaveSnapshot
  <2>2. /\ snap'.id = checkpoint + 1 /\ snap'.data = store /\ logging = NoWrite
        /\ synced = Len(aof) /\ Len(aof) >= 1 /\ aof[Len(aof)] = Marker(checkpoint + 1)
    BY <1>0, <1>1, <2>1 DEF RunningOK
  <2>3. ASSUME NEW i \in 1..Len(aof), aof[i].kind = "write"
        PROVE  ~ Uncovered(i)' /\ aof[i].id \in Range(store)
    <3>1. i # Len(aof)
      <4>1. aof[Len(aof)].kind = "marker"
        BY <1>0, <2>2, RecordKinds
      <4>2. QED
        BY <2>3, <4>1
    <3>2. ~ Uncovered(i)'
      <4>1. Len(aof) \in DOMAIN aof' /\ Len(aof) > i /\ aof'[Len(aof)] = Marker(snap'.id)
        <5>1. aof' = aof /\ snap'.id = checkpoint + 1
          BY <2>1, <2>2
        <5>2. Len(aof) \in 1..Len(aof) /\ Len(aof) > i
          BY <1>0, <2>2, <3>1
        <5>3. aof[Len(aof)] = Marker(checkpoint + 1)
          BY <2>2
        <5>4. QED
          BY <1>0, <5>1, <5>2, <5>3
      <4>2. QED
        BY <4>1 DEF Uncovered
    <3>3. QED
      BY <1>0, <1>1, <2>3, <3>2
  <2>4. FilesOK'
    BY <1>0, <1>1, <2>1, <2>2, <2>3 DEF FilesOK
  <2>5. RunningOK'
    <3>1. Logged(Len(aof))' = Logged(Len(aof))
      BY <2>1 DEF Logged
    <3>2. QED
      BY <1>1, <2>1, <2>2, <3>1 DEF RunningOK
  <2>6. QED
    BY <2>4, <2>5
<1>13. CASE FinishSave
  <2>1. /\ saving = "truncate" /\ saving' = "idle" /\ aof' = << >> /\ synced' = 0
        /\ checkpoint' = checkpoint + 1 /\ UNCHANGED <<store, logging, snap, durable, unlogged>>
    BY <1>13 DEF FinishSave
  <2>2. snap.id = checkpoint + 1 /\ snap.data = store /\ logging = NoWrite
    BY <1>1, <2>1 DEF RunningOK
  <2>3. Logged(Len(aof))' = {} /\ Logged(synced)' = {} /\ DOMAIN aof' = {} /\ Len(aof') = 0
    BY <2>1 DEF Logged
  <2>4. FilesOK'
    BY <1>0, <1>1, <2>1, <2>2, <2>3 DEF FilesOK
  <2>5. RunningOK'
    BY <1>1, <2>1, <2>2, <2>3 DEF RunningOK
  <2>6. QED
    BY <2>4, <2>5
<1>14. QED
  BY <1>3, <1>4, <1>6, <1>7, <1>8, <1>10, <1>11, <1>12, <1>13 DEF Next, Crash, Start, RefuseStart

\* The recovery invariant is inductive.
LEMMA RecoveryStep ==
    ASSUME ~ FollowsPrimary, TypeOK, TypeOK', FileInv, MarkInv, RecoveryInv, [Next]_vars
    PROVE  RecoveryInv'
<1> USE DEF diskVars, memVars
<1> SUFFICES ASSUME ~ Wounded'
             PROVE  FilesOK' /\ (up' = "up" => RunningOK') /\ (up' = "down" => StoppedOK')
  BY DEF RecoveryInv
<1>1. ~ Wounded /\ \A k : Fails(k) => k \notin {"partial", "late"}
  BY WoundsStay
<1>2. FilesOK /\ (up = "up" => RunningOK) /\ (up = "down" => StoppedOK) /\ ~ behind
  BY <1>1 DEF RecoveryInv, Wounded
<1>3. CASE UNCHANGED vars
  <2>1. UNCHANGED <<aof, synced, snap, durable, store, unlogged, logging, checkpoint, saving, up>>
    BY <1>3 DEF vars
  <2>2. FilesOK'
    BY <1>2, <2>1, FilesSame
  <2>3. up' = "up" => RunningOK'
    BY <1>2, <2>1, RunningSame
  <2>4. up' = "down" => StoppedOK'
    BY <1>2, <2>1 DEF StoppedOK, Logged
  <2>5. QED
    BY <2>2, <2>3, <2>4
<1>4. CASE Next /\ up = "up" /\ up' = "up"
  BY <1>1, <1>2, <1>4, RunningStep
<1>5. CASE Crash
  <2>1. up = "up" /\ up' = "down"
    BY <1>5 DEF Crash
  <2>2. QED
    BY <1>2, <1>5, <2>1, CrashKeepsFiles
<1>6. CASE Start
  <2>1. /\ up = "down" /\ UNCHANGED <<aof, synced, snap, durable, logging, saving>>
        /\ unlogged' = {} /\ checkpoint' = snap.id /\ up' = "up"
    BY <1>6 DEF Start, LoadSnapshot
  <2>2. logging = NoWrite /\ saving = "idle"
    BY <2>1 DEF MarkInv
  <2>3. Ascending(store') /\ Range(store') = Range(snap.data) \cup Logged(Len(aof))
    BY <1>2, <1>6, Restarts
  <2>4. Logged(Len(aof))' = Logged(Len(aof))
    BY <2>1 DEF Logged
  <2>5. RunningOK'
    BY <2>1, <2>2, <2>3, <2>4 DEF RunningOK
  <2>6. FilesOK'
    BY <1>2, <2>1, FilesSame
  <2>7. QED
    BY <2>1, <2>5, <2>6
<1>7. CASE RefuseStart
  <2>1. up' = "refused" /\ UNCHANGED <<aof, synced, snap, durable>>
    BY <1>7 DEF RefuseStart
  <2>2. QED
    BY <1>2, <2>1, FilesSame
<1>8. QED
  <2>1. Next /\ ~ (up = "up" /\ up' = "up") => Crash \/ Start \/ RefuseStart
    BY DEF Next, Admit, Execute, LogWrite, LogWriteFails, Flush, BeginSave, SaveMarker,
           SaveSnapshot, SaveDedup, FinishSave, SaveFails
  <2>2. QED
    BY <1>3, <1>4, <1>5, <1>6, <1>7, <2>1

\* The four invariants, in every state of a server that is not a replica.
LEMMA RecoveryAlways ==
    FollowsPrimary = FALSE => (Spec => [](TypeOK /\ FileInv /\ MarkInv /\ RecoveryInv))
<1> SUFFICES ASSUME FollowsPrimary = FALSE
             PROVE  Spec => [](TypeOK /\ FileInv /\ MarkInv /\ RecoveryInv)
  OBVIOUS
<1>1. Init => RecoveryInv
  <2> SUFFICES ASSUME Init PROVE FilesOK /\ RunningOK /\ up = "up"
    BY DEF RecoveryInv
  <2>1. /\ Range(<< >>) = {} /\ Len(<< >>) = 0 /\ Ascending(<< >>) /\ snap.data = << >> /\ snap.id = 0
        /\ aof = << >> /\ store = << >>
    BY DEF Init, Range, Ascending
  <2>2. Logged(Len(aof)) = {} /\ DOMAIN aof = {} /\ up = "up"
    BY <2>1 DEF Logged, Init
  <2>3. FilesOK
    BY <2>1, <2>2 DEF Init, FilesOK
  <2>4. RunningOK
    BY <2>1, <2>2 DEF Init, RunningOK
  <2>5. QED
    BY <2>2, <2>3, <2>4
<1>2. TypeOK /\ FileInv /\ MarkInv /\ RecoveryInv /\ [Next]_vars => RecoveryInv'
  BY BasicStep, RecoveryStep
<1>3. QED
  BY MarkAlways, <1>1, <1>2, PTL DEF Spec

\* However appends, fsyncs, checkpoints and crashes interleave, as long as nothing was
\* appended behind half a record and no checkpoint failed after its rename: a write that was
\* fsynced or is in an installed snapshot is in the keyspace of every later run, and the
\* server starts.  Frames applied on a replica do not wait for save's guards: there it fails.
THEOREM DurableSurvivesAlways ==
    FollowsPrimary = FALSE => (Spec => []DurableSurvives)
<1> SUFFICES ASSUME FollowsPrimary = FALSE PROVE Spec => []DurableSurvives
  OBVIOUS
<1>1. TypeOK /\ FileInv /\ RecoveryInv => DurableSurvives
  <2> SUFFICES ASSUME TypeOK, FileInv, RecoveryInv, ~ Wounded PROVE NothingLost
    BY DEF DurableSurvives
  <2>1. up # "refused"
    BY DEF FileInv, Wounded
  <2>2. up = "up" => durable \subseteq Range(store)
    BY FileFacts DEF RecoveryInv, FilesOK, RunningOK
  <2>3. QED
    BY <2>1, <2>2 DEF NothingLost
<1>2. QED
  BY RecoveryAlways, <1>1, PTL

\* Under the same conditions a restart recovers what the server had, cut off at the end:
\* nothing twice, nothing out of turn, nothing skipped but writes whose append had failed.
THEOREM RestartsRecoverPrefix ==
    FollowsPrimary = FALSE => (Spec => RecoversPrefix)
<1> SUFFICES ASSUME FollowsPrimary = FALSE PROVE Spec => RecoversPrefix
  OBVIOUS
<1>1. TypeOK /\ FileInv /\ RecoveryInv /\ [Next]_vars =>
        [up = "down" /\ up' = "up" /\ ~Wounded =>
           /\ Ascending(store')
           /\ Range(store') \subseteq Range(store) \ unlogged
           /\ \A w \in Range(store'), v \in Range(store) \ unlogged :
                v < w => v \in Range(store')]_vars
  <2> SUFFICES ASSUME TypeOK, FileInv, RecoveryInv, Next, up = "down", up' = "up", ~ Wounded
               PROVE  /\ Ascending(store')
                      /\ Range(store') \subseteq Range(store) \ unlogged
                      /\ \A w \in Range(store'), v \in Range(store) \ unlogged :
                           v < w => v \in Range(store')
    OBVIOUS
  <2>1. Start
    BY DEF Next, Admit, Execute, LogWrite, LogWriteFails, Flush, BeginSave, SaveMarker,
           SaveSnapshot, SaveDedup, FinishSave, SaveFails, Crash, RefuseStart
  <2>2. FilesOK /\ StoppedOK /\ ~ behind
    BY DEF RecoveryInv, Wounded
  <2>3. Ascending(store') /\ Range(store') = Range(snap.data) \cup Logged(Len(aof))
    BY <2>1, <2>2, Restarts
  <2>4. QED
    BY <2>2, <2>3 DEF StoppedOK
<1>2. QED
  BY RecoveryAlways, <1>1, PTL DEF Spec, RecoversPrefix
==============================================================================
