-------------------------- MODULE WriteOrderProof ---------------------------
(***************************************************************************)
(* Proofs about WriteOrder for every number of connections, keys, stripes  *)
(* and commands: an operation that runs holds the locks of everything it   *)
(* touches, and what follows from it.                                      *)
(***************************************************************************)
EXTENDS WriteOrder, TLAPS, FiniteSetTheorems

-----------------------------------------------------------------------------
(* Sequences and finite sets *)

\* The elements of a sequence are finitely many.
LEMMA RangeIsFinite ==
    ASSUME NEW S, NEW s \in Seq(S)
    PROVE  IsFiniteSet(Range(s)) /\ Range(s) \subseteq S
<1>1. Len(s) \in Nat /\ DOMAIN s = 1..Len(s) /\ s \in [1..Len(s) -> S]
  OBVIOUS
<1>2. IsFiniteSet(1..Len(s))
  BY <1>1, FS_Interval
<1>3. s \in Surjection(1..Len(s), Range(s))
  BY <1>1 DEF Surjection, Range
<1>4. QED
  BY <1>1, <1>2, <1>3, FS_Surjection DEF Range

\* SetToSeq lists a finite set.
LEMMA SetToSeqProperties ==
    ASSUME NEW S, IsFiniteSet(S)
    PROVE  SetToSeq(S) \in Seq(S) /\ Range(SetToSeq(S)) = S
           /\ Len(SetToSeq(S)) = Cardinality(S)
<1> DEFINE n == Cardinality(S)
<1>1. n \in Nat /\ ExistsBijection(1..n, S)
  BY FS_CardinalityType
<1>2. \E f \in [1..n -> S] : IsInjective(f)
  BY <1>1 DEF ExistsBijection, Bijection, Injection, IsInjective
<1>3. SetToSeq(S) \in [1..n -> S] /\ IsInjective(SetToSeq(S))
  BY <1>2 DEF SetToSeq
<1> DEFINE f == SetToSeq(S)
<1> HIDE DEF f, n
<1>4. f \in Injection(1..n, S)
  BY <1>3 DEF f, Injection
<1>5. IsFiniteSet(1..n) /\ Cardinality(1..n) = n
  BY <1>1, FS_Interval
<1>6. f \in Surjection(1..n, S)
  BY <1>4, <1>5, FS_Injection DEF n
<1>7. f \in Seq(S) /\ Len(f) = n /\ DOMAIN f = 1..n
  BY <1>1, <1>4 DEF Injection
<1>8. QED
  BY <1>6, <1>7 DEF f, n, Surjection, Range

\* The elements of two sequences put together.
LEMMA RangeOfConcat ==
    ASSUME NEW S, NEW s \in Seq(S), NEW t \in Seq(S)
    PROVE  Range(s \o t) = Range(s) \cup Range(t)
<1>1. /\ Len(s) \in Nat /\ Len(t) \in Nat /\ DOMAIN s = 1..Len(s) /\ DOMAIN t = 1..Len(t)
      /\ DOMAIN (s \o t) = 1..(Len(s) + Len(t))
      /\ \A i \in 1..(Len(s) + Len(t)) :
           (s \o t)[i] = IF i <= Len(s) THEN s[i] ELSE t[i - Len(s)]
  OBVIOUS
<1>2. \A i \in 1..Len(s) : i \in 1..(Len(s) + Len(t)) /\ i <= Len(s)
  BY <1>1
<1>3. \A i \in 1..Len(t) : i + Len(s) \in 1..(Len(s) + Len(t)) /\ ~ (i + Len(s) <= Len(s))
                           /\ (i + Len(s)) - Len(s) = i
  BY <1>1
<1>4. \A i \in 1..(Len(s) + Len(t)) : ~ (i <= Len(s)) => i - Len(s) \in 1..Len(t)
  BY <1>1
<1>5. \A i \in 1..(Len(s) + Len(t)) : i <= Len(s) => i \in 1..Len(s)
  BY <1>1
<1>6. Range(s \o t) \subseteq Range(s) \cup Range(t)
  BY <1>1, <1>4, <1>5 DEF Range
<1>7. Range(s) \subseteq Range(s \o t)
  BY <1>1, <1>2 DEF Range
<1>8. Range(t) \subseteq Range(s \o t)
  BY <1>1, <1>3 DEF Range
<1>9. QED
  BY <1>6, <1>7, <1>8

\* The larger of two numbers.
LEMMA MaxOfTwo ==
    ASSUME NEW m \in Nat, NEW n \in Nat
    PROVE  /\ Max({m, n}) \in Nat
           /\ Max({m, n}) = IF m >= n THEN m ELSE n
<1>1. \E x \in {m, n} : \A y \in {m, n} : x >= y
  OBVIOUS
<1>2. Max({m, n}) \in {m, n} /\ \A y \in {m, n} : Max({m, n}) >= y
  BY <1>1 DEF Max
<1>3. QED
  BY <1>2

\* Head and tail of a sequence are of the sequence.
LEMMA HeadTailRange ==
    ASSUME NEW S, NEW s \in Seq(S), s # << >>
    PROVE  /\ Head(s) \in Range(s) /\ Head(s) \in S
           /\ Tail(s) \in Seq(S) /\ Range(Tail(s)) \subseteq Range(s)
           /\ Range(s) = {Head(s)} \cup Range(Tail(s))
           /\ Len(Tail(s)) = Len(s) - 1
<1>1. Len(s) \in Nat /\ Len(s) > 0 /\ DOMAIN s = 1..Len(s) /\ Head(s) = s[1]
  OBVIOUS
<1>2. /\ Tail(s) \in Seq(S) /\ Len(Tail(s)) = Len(s) - 1 /\ DOMAIN Tail(s) = 1..(Len(s) - 1)
      /\ \A i \in 1..(Len(s) - 1) : Tail(s)[i] = s[i + 1]
  BY <1>1
<1>3. 1 \in 1..Len(s) /\ \A i \in 1..(Len(s) - 1) : i + 1 \in 1..Len(s)
  BY <1>1
<1>4. \A i \in 1..Len(s) : i = 1 \/ (i - 1 \in 1..(Len(s) - 1) /\ (i - 1) + 1 = i)
  BY <1>1
<1>5. Head(s) \in Range(s) /\ Head(s) \in S
  BY <1>1, <1>3 DEF Range
<1>6. Range(Tail(s)) \subseteq Range(s)
  BY <1>1, <1>2, <1>3 DEF Range
<1>7. Range(s) \subseteq {Head(s)} \cup Range(Tail(s))
  <2> SUFFICES ASSUME NEW i \in 1..Len(s) PROVE s[i] \in {Head(s)} \cup Range(Tail(s))
    BY <1>1 DEF Range
  <2>1. CASE i = 1
    BY <1>1, <2>1
  <2>2. CASE i # 1
    <3>1. i - 1 \in 1..(Len(s) - 1) /\ (i - 1) + 1 = i
      BY <1>4, <2>2
    <3>2. Tail(s)[i - 1] = s[i] /\ i - 1 \in DOMAIN Tail(s)
      BY <1>2, <3>1
    <3>3. QED
      BY <3>2 DEF Range
  <2>3. QED
    BY <2>1, <2>2
<1>8. QED
  BY <1>2, <1>5, <1>6, <1>7

\* A sequence over a set is one over a larger set.
LEMMA SeqOfSubset ==
    ASSUME NEW S, NEW T, S \subseteq T, NEW s \in Seq(S)
    PROVE  s \in Seq(T)
<1>1. Len(s) \in Nat /\ s \in [1..Len(s) -> S]
  OBVIOUS
<1>2. s \in [1..Len(s) -> T]
  BY <1>1
<1>3. QED
  BY <1>1, <1>2

-----------------------------------------------------------------------------
(* Commands *)

\* The commands a log can carry: the clients' and the DELs of evicted keys.
Loggable == Commands \cup [op : {"del"}, keys : SUBSET Keys, src : {{}}, size : {1}]

\* The fields of a command.
LEMMA CommandFields ==
    ASSUME NEW cmd \in Loggable
    PROVE  /\ cmd.keys \subseteq Keys /\ cmd.src \subseteq Keys /\ cmd.size \in Nat \ {0}
           /\ WriteKeys(cmd) \subseteq Keys /\ OrderingKeys(cmd) \subseteq Keys
           /\ WriteKeys(cmd) \subseteq OrderingKeys(cmd)
BY WriteOrderAssumption DEF Loggable, WriteKeys, OrderingKeys

\* A set of ids is listed as a sequence of ids.
LEMMA ElementsType ==
    ASSUME NEW S \in SUBSET Nat, IsFiniteSet(S)
    PROVE  Elements(S) \in Seq(Nat)
<1>1. SetToSeq(S) \in Seq(S)
  BY SetToSeqProperties
<1>2. SetToSeq(S) \in Seq(Nat)
  BY <1>1, SeqOfSubset
<1>3. QED
  BY <1>2 DEF Elements

\* Executing a command makes values of values.
LEMMA NewValueType ==
    ASSUME NEW st \in [Keys -> Values], NEW cmd \in Loggable, NEW id \in Nat, NEW k \in Keys
    PROVE  /\ NewValue(st, cmd, id, k) \in Values
           /\ NewValue(st, cmd, id, k).size \in {1, cmd.size}
<1>1. st[k].data \in Seq(Nat) /\ cmd.size \in Nat \ {0} /\ cmd.src \subseteq Keys
  BY CommandFields DEF Values
<1>2. Append(st[k].data, id) \in Seq(Nat) /\ <<id>> \in Seq(Nat)
  BY <1>1
<1>3. Elements(Range(st[k].data) \cup {id}) \in Seq(Nat)
  <2>1. IsFiniteSet(Range(st[k].data)) /\ Range(st[k].data) \subseteq Nat
    BY <1>1, RangeIsFinite
  <2>2. IsFiniteSet(Range(st[k].data) \cup {id})
    BY <2>1, FS_AddElement
  <2>3. QED
    BY <2>1, <2>2, ElementsType
<1>4. Elements(UNION {Range(st[s].data) : s \in cmd.src}) \in Seq(Nat)
  <2> DEFINE R == {Range(st[s].data) : s \in cmd.src}
             f == [s \in cmd.src |-> Range(st[s].data)]
  <2>1. IsFiniteSet(cmd.src)
    BY <1>1, FS_Subset, WriteOrderAssumption
  <2>2. f \in Surjection(cmd.src, R)
    BY DEF Surjection
  <2>3. IsFiniteSet(R)
    BY <2>1, <2>2, FS_Surjection
  <2>4. ASSUME NEW T \in R PROVE IsFiniteSet(T) /\ T \subseteq Nat
    <3>1. PICK s \in cmd.src : T = Range(st[s].data)
      OBVIOUS
    <3>2. st[s].data \in Seq(Nat)
      BY <1>1, <3>1 DEF Values
    <3>3. QED
      BY <3>1, <3>2, RangeIsFinite
  <2> HIDE DEF R
  <2>5. IsFiniteSet(UNION R) /\ UNION R \subseteq Nat
    BY <2>3, <2>4, FS_UNION
  <2>6. QED
    BY <2>5, ElementsType DEF R
<1>5. Nil \in Values /\ Nil.size = 1
  BY DEF Nil, Values
<1> DEFINE t(type, data) == [type |-> type, data |-> data, size |-> cmd.size]
<1>6. ASSUME NEW type \in {"string", "list", "set"}, NEW data \in Seq(Nat)
      PROVE  t(type, data) \in Values /\ t(type, data).size = cmd.size
  BY <1>1, <1>6 DEF Values
<1> HIDE DEF t
<1>7. NewValue(st, cmd, id, k) \in
        {t("string", <<id>>), t("string", Append(st[k].data, id)), t("list", Append(st[k].data, id)),
         t("set", Elements(Range(st[k].data) \cup {id})),
         t("set", Elements(UNION {Range(st[s].data) : s \in cmd.src})), Nil}
  BY DEF NewValue, t
<1>8. QED
  BY <1>2, <1>3, <1>4, <1>5, <1>6, <1>7

\* What executing a command without limits does: it changes the keys it writes, or nothing.
LEMMA ApplyProperties ==
    ASSUME NEW st \in [Keys -> Values], NEW cmd \in Loggable, NEW id \in Nat
    PROVE  /\ Apply(st, cmd, id) \in [Keys -> Values]
           /\ \A k \in Keys : k \notin WriteKeys(cmd) => Apply(st, cmd, id)[k] = st[k]
           /\ \A k \in Keys : Apply(st, cmd, id)[k].size \in {st[k].size, 1, cmd.size}
           /\ Fails(st, cmd) => Apply(st, cmd, id) = st
<1>1. CASE Fails(st, cmd)
  BY <1>1 DEF Apply
<1>2. CASE ~ Fails(st, cmd)
  <2>1. Apply(st, cmd, id) =
          [k \in Keys |-> IF k \in WriteKeys(cmd) THEN NewValue(st, cmd, id, k) ELSE st[k]]
    BY <1>2 DEF Apply
  <2>2. \A k \in Keys : /\ NewValue(st, cmd, id, k) \in Values
                        /\ NewValue(st, cmd, id, k).size \in {1, cmd.size}
    BY NewValueType
  <2>3. QED
    BY <1>2, <2>1, <2>2
<1>3. QED
  BY <1>1, <1>2

\* What a command makes of the keys it writes depends on its ordering domain only.
LEMMA ApplyIsLocal ==
    ASSUME NEW st \in [Keys -> Values], NEW tt \in [Keys -> Values],
           NEW cmd \in Loggable, NEW id \in Nat,
           \A k \in OrderingKeys(cmd) : st[k] = tt[k]
    PROVE  /\ Fails(st, cmd) <=> Fails(tt, cmd)
           /\ \A k \in WriteKeys(cmd) : Apply(st, cmd, id)[k] = Apply(tt, cmd, id)[k]
<1>1. \A k \in cmd.src : st[k] = tt[k]
  BY DEF OrderingKeys
<1>2. cmd.op # "flush" => \A k \in cmd.keys : st[k] = tt[k]
  BY DEF OrderingKeys, WriteKeys
<1>3. Fails(st, cmd) <=> Fails(tt, cmd)
  BY <1>1, <1>2 DEF Fails
<1>4. ASSUME NEW k \in WriteKeys(cmd)
      PROVE  NewValue(st, cmd, id, k) = NewValue(tt, cmd, id, k)
  <2>1. st[k] = tt[k]
    BY <1>4 DEF OrderingKeys
  <2>2. {Range(st[s].data) : s \in cmd.src} = {Range(tt[s].data) : s \in cmd.src}
    BY <1>1
  <2>3. QED
    BY <2>1, <2>2 DEF NewValue
<1>5. WriteKeys(cmd) \subseteq Keys
  BY CommandFields
<1>6. ASSUME NEW k \in WriteKeys(cmd)
      PROVE  Apply(st, cmd, id)[k] = Apply(tt, cmd, id)[k]
  <2>1. st[k] = tt[k] /\ k \in Keys
    BY <1>5, <1>6 DEF OrderingKeys
  <2>2. CASE Fails(st, cmd)
    BY <1>3, <2>1, <2>2 DEF Apply
  <2>3. CASE ~ Fails(st, cmd)
    <3>1. Apply(st, cmd, id)[k] = NewValue(st, cmd, id, k)
      BY <1>6, <2>1, <2>3 DEF Apply
    <3>2. Apply(tt, cmd, id)[k] = NewValue(tt, cmd, id, k)
      BY <1>3, <1>6, <2>1, <2>3 DEF Apply
    <3>3. QED
      BY <1>4, <1>6, <3>1, <3>2
  <2>4. QED
    BY <2>2, <2>3
<1>7. QED
  BY <1>3, <1>6

\* Removing keys.
LEMMA WithoutProperties ==
    ASSUME NEW st \in [Keys -> Values], NEW gone
    PROVE  /\ Without(st, gone) \in [Keys -> Values]
           /\ \A k \in Keys : k \notin gone => Without(st, gone)[k] = st[k]
           /\ \A k \in Keys : Without(st, gone)[k].size \in {st[k].size, 1}
           /\ gone = {} => Without(st, gone) = st
<1>1. Nil \in Values /\ Nil.size = 1
  BY DEF Nil, Values
<1>2. QED
  BY <1>1 DEF Without

\* How an outcome of a command comes about: keys evicted before it, the keyspace it makes,
\* keys evicted after it, and whether it was refused for lack of keys or of memory.
ComesAbout(st, cmd, id, out, early, after, late, tooMany, oom) ==
    /\ Cardinality(early) =
         (IF Evicts THEN Min({Needed(st, cmd), Cardinality(Full(st))}) ELSE 0)
    /\ tooMany <=> Cardinality(early) < Needed(st, cmd)
    /\ after = IF tooMany THEN Without(st, early) ELSE Apply(Without(st, early), cmd, id)
    /\ oom => MaxMemory > 0
    /\ late \in Victims(after)
    /\ out.store = IF oom THEN st ELSE Without(after, late)
    /\ out.err \in BOOLEAN
    /\ out.err <=> tooMany \/ oom \/ Fails(Without(st, early), cmd)
    /\ out.evicted = early \cup late

\* Every outcome comes about so.
LEMMA OutcomeShape ==
    ASSUME NEW st \in [Keys -> Values], NEW cmd \in Commands, NEW id \in Nat,
           NEW out \in Outcomes(st, cmd, id)
    PROVE  \E early \in SUBSET Full(st), after \in [Keys -> Values], late \in SUBSET Keys,
              tooMany \in BOOLEAN, oom \in BOOLEAN :
             ComesAbout(st, cmd, id, out, early, after, late, tooMany, oom)
<1> DEFINE needed == Needed(st, cmd)
           room == Min({needed, Cardinality(Full(st))})
           sets == kSubset(IF Evicts THEN room ELSE 0, Full(st))
           base(early) == Without(st, early)
           tooMany(early) == Cardinality(early) < needed
           after(early) == IF tooMany(early) THEN base(early) ELSE Apply(base(early), cmd, id)
           oom(early) == ~ Evicts /\ MaxMemory > 0
                           /\ Used(after(early)) > MaxMemory /\ Used(after(early)) > Used(st)
           result(early, late) ==
                [store |-> IF oom(early) THEN st ELSE Without(after(early), late),
                 err |-> tooMany(early) \/ oom(early) \/ Fails(base(early), cmd),
                 evicted |-> early \cup late]
<1>1. Outcomes(st, cmd, id) =
        UNION {{result(early, late) : late \in Victims(after(early))} : early \in sets}
  BY DEF Outcomes
<1> HIDE DEF sets, after, result
<1>2. PICK early \in sets : \E late \in Victims(after(early)) : out = result(early, late)
  BY <1>1
<1>3. PICK late \in Victims(after(early)) : out = result(early, late)
  BY <1>2
<1> USE DEF sets, after, result
<1>4. early \in SUBSET Full(st) /\ Cardinality(early) = (IF Evicts THEN room ELSE 0)
  BY <1>2 DEF kSubset
<1>0. late \in SUBSET Keys
  BY <1>3 DEF Victims, Full
<1>5. base(early) \in [Keys -> Values]
  BY WithoutProperties
<1>6. after(early) \in [Keys -> Values]
  BY <1>5, ApplyProperties DEF Loggable
<1>7. tooMany(early) \in BOOLEAN /\ oom(early) \in BOOLEAN
  OBVIOUS
<1>8. oom(early) => MaxMemory > 0
  OBVIOUS
<1>9. /\ out.store = IF oom(early) THEN st ELSE Without(after(early), late)
      /\ out.err = (tooMany(early) \/ oom(early) \/ Fails(base(early), cmd))
      /\ out.evicted = early \cup late
  BY <1>3
<1>10. after(early) = IF tooMany(early) THEN base(early) ELSE Apply(base(early), cmd, id)
  OBVIOUS
<1>11. base(early) = Without(st, early) /\ (tooMany(early) <=> Cardinality(early) < Needed(st, cmd))
  OBVIOUS
<1>12. Cardinality(early) = (IF Evicts THEN Min({Needed(st, cmd), Cardinality(Full(st))}) ELSE 0)
  BY <1>4
<1> HIDE DEF base, after, tooMany, oom, result
<1>13. QED
  BY <1>0, <1>3, <1>4, <1>5, <1>6, <1>7, <1>8, <1>9, <1>10, <1>11, <1>12
     DEF ComesAbout

\* What a command may do to the keyspace: a key it changes was evicted, or is one it
\* writes and then the command is propagated.
LEMMA OutcomeProperties ==
    ASSUME NEW st \in [Keys -> Values], NEW cmd \in Commands, NEW id \in Nat,
           NEW out \in Outcomes(st, cmd, id)
    PROVE  /\ out.store \in [Keys -> Values] /\ out.err \in BOOLEAN /\ out.evicted \subseteq Keys
           /\ \A k \in Keys : out.store[k] # st[k] =>
                k \in out.evicted \/ (k \in WriteKeys(cmd) /\ Propagates(cmd, out.err))
           /\ \A k \in Keys : out.store[k].size \in {st[k].size, 1, cmd.size}
<1>1. PICK early \in SUBSET Full(st), after \in [Keys -> Values], late \in SUBSET Keys,
           tooMany \in BOOLEAN, oom \in BOOLEAN :
             ComesAbout(st, cmd, id, out, early, after, late, tooMany, oom)
  BY OutcomeShape
<1> USE DEF ComesAbout
<1> DEFINE base == Without(st, early)
<1>2. early \subseteq Keys /\ late \subseteq Keys
  BY DEF Full
<1>3. /\ base \in [Keys -> Values]
      /\ \A k \in Keys : k \notin early => base[k] = st[k]
      /\ \A k \in Keys : base[k].size \in {st[k].size, 1}
  BY WithoutProperties
<1> HIDE DEF base
<1>10. /\ after = IF tooMany THEN base ELSE Apply(base, cmd, id)
       /\ out.err <=> tooMany \/ oom \/ Fails(base, cmd)
  BY <1>1 DEF base
<1>4. /\ \A k \in Keys : k \notin WriteKeys(cmd) => after[k] = base[k]
      /\ \A k \in Keys : after[k].size \in {base[k].size, 1, cmd.size}
      /\ Fails(base, cmd) => after = base
  BY <1>10, <1>3, ApplyProperties DEF Loggable
<1>5. /\ Without(after, late) \in [Keys -> Values]
      /\ \A k \in Keys : k \notin late => Without(after, late)[k] = after[k]
      /\ \A k \in Keys : Without(after, late)[k].size \in {after[k].size, 1}
  BY <1>1, WithoutProperties
<1>6. out.store \in [Keys -> Values]
  BY <1>1, <1>5
<1>7. ASSUME NEW k \in Keys, out.store[k] # st[k], k \notin out.evicted
      PROVE  k \in WriteKeys(cmd) /\ Propagates(cmd, out.err)
  <2>1. ~ oom
    BY <1>1, <1>7
  <2>2. out.store[k] = after[k] /\ base[k] = st[k]
    BY <1>1, <1>3, <1>5, <1>7, <2>1
  <2>3. ~ tooMany /\ ~ Fails(base, cmd)
    BY <1>10, <1>4, <1>7, <2>2
  <2>4. ~ out.err
    BY <1>10, <2>1, <2>3
  <2>5. QED
    BY <1>4, <1>7, <2>2, <2>4 DEF Propagates
<1>8. \A k \in Keys : out.store[k].size \in {st[k].size, 1, cmd.size}
  BY <1>1, <1>3, <1>4, <1>5
<1>9. QED
  BY <1>1, <1>2, <1>6, <1>7, <1>8

\* Without limits a command is simply executed.
LEMMA UncappedOutcome ==
    ASSUME ~ Capped, NEW st \in [Keys -> Values], NEW cmd \in Commands, NEW id \in Nat,
           NEW out \in Outcomes(st, cmd, id)
    PROVE  /\ out.store = Apply(st, cmd, id)
           /\ out.err <=> Fails(st, cmd)
           /\ out.evicted = {}
<1>1. MaxKeys = 0 /\ MaxMemory = 0
  BY WriteOrderAssumption DEF Capped
<1>2. Needed(st, cmd) = 0
  BY <1>1 DEF Needed
<1>3. IsFiniteSet(Full(st)) /\ Cardinality(Full(st)) \in Nat
  BY FS_Subset, FS_CardinalityType, WriteOrderAssumption DEF Full
<1>4. Min({0, Cardinality(Full(st))}) = 0
  BY <1>3 DEF Min
<1>5. PICK early \in SUBSET Full(st), after \in [Keys -> Values], late \in SUBSET Keys,
           tooMany \in BOOLEAN, oom \in BOOLEAN :
             ComesAbout(st, cmd, id, out, early, after, late, tooMany, oom)
  BY OutcomeShape
<1> USE DEF ComesAbout
<1>6. early = {}
  BY <1>2, <1>3, <1>4, <1>5, FS_Subset, FS_EmptySet
<1>7. Without(st, early) = st
  BY <1>5, <1>6, WithoutProperties
<1>8. ~ tooMany /\ ~ oom
  <2>1. Cardinality(early) = 0
    BY <1>6, FS_EmptySet
  <2>2. QED
    BY <1>1, <1>2, <1>5, <2>1
<1>9. late = {}
  BY <1>1, <1>5 DEF Victims
<1>10. Without(after, late) = after
  BY <1>5, <1>9, WithoutProperties
<1>11. QED
  BY <1>5, <1>6, <1>7, <1>8, <1>9, <1>10

-----------------------------------------------------------------------------
(* Type correctness *)

\* The stripes of commands and keys.
LEMMA StripesForType ==
    ASSUME NEW commands \in Seq(Commands), NEW extra \in SUBSET Keys
    PROVE  /\ StripesFor(commands, extra) \subseteq AllStripes
           /\ \A cmd \in Range(commands) : \A k \in OrderingKeys(cmd) :
                StripeOf[k] \in StripesFor(commands, extra)
           /\ \A k \in extra : StripeOf[k] \in StripesFor(commands, extra)
           /\ Capped => StripesFor(commands, extra) = AllStripes
<1>1. Range(commands) \subseteq Commands
  BY RangeIsFinite
<1>2. \A cmd \in Range(commands) : OrderingKeys(cmd) \subseteq Keys
  BY <1>1, CommandFields DEF Loggable
<1>3. \A k \in Keys : StripeOf[k] \in AllStripes
  BY WriteOrderAssumption DEF AllStripes
<1>4. QED
  BY <1>2, <1>3 DEF StripesFor

\* The effects of an executed command, to be logged one by one.
LEMMA EffectsType ==
    ASSUME NEW cmd \in Commands, NEW id \in Nat, NEW evicted \in SUBSET Keys, NEW p \in BOOLEAN
    PROVE  LET eff == (IF p THEN <<[cmd |-> cmd, id |-> id]>> ELSE << >>)
                        \o SetToSeq({[cmd |-> [op |-> "del", keys |-> {k}, src |-> {}, size |-> 1],
                                      id |-> id] : k \in evicted})
           IN  /\ eff \in Seq(Effects)
               /\ Range(eff) =
                    (IF p THEN {[cmd |-> cmd, id |-> id]} ELSE {})
                      \cup {[cmd |-> [op |-> "del", keys |-> {k}, src |-> {}, size |-> 1],
                             id |-> id] : k \in evicted}
               /\ evicted = {} => eff = (IF p THEN <<[cmd |-> cmd, id |-> id]>> ELSE << >>)
<1> DEFINE del(k) == [cmd |-> [op |-> "del", keys |-> {k}, src |-> {}, size |-> 1], id |-> id]
           dels == {del(k) : k \in evicted}
           first == IF p THEN <<[cmd |-> cmd, id |-> id]>> ELSE << >>
           f == [k \in evicted |-> del(k)]
<1>1. IsFiniteSet(dels)
  <2>1. IsFiniteSet(evicted)
    BY FS_Subset, WriteOrderAssumption
  <2>2. f \in Surjection(evicted, dels)
    BY DEF Surjection
  <2> HIDE DEF dels, f
  <2>3. QED
    BY <2>1, <2>2, FS_Surjection
<1>2. [cmd |-> cmd, id |-> id] \in Effects
  BY DEF Effects
<1>3. ASSUME NEW k \in evicted PROVE del(k) \in Effects
  <2>1. [op |-> "del", keys |-> {k}, src |-> {}, size |-> 1]
           \in [op : {"del"}, keys : SUBSET Keys, src : {{}}, size : {1}]
    OBVIOUS
  <2>2. QED
    BY <2>1 DEF Effects
<1>4. dels \subseteq Effects
  BY <1>3
<1>5. SetToSeq(dels) \in Seq(dels) /\ Range(SetToSeq(dels)) = dels
        /\ Len(SetToSeq(dels)) = Cardinality(dels)
  BY <1>1, SetToSeqProperties
<1>6. SetToSeq(dels) \in Seq(Effects)
  BY <1>4, <1>5, SeqOfSubset
<1>7. first \in Seq(Effects) /\ Range(first) = (IF p THEN {[cmd |-> cmd, id |-> id]} ELSE {})
  BY <1>2 DEF Range
<1>8. evicted = {} => dels = {}
  OBVIOUS
<1> HIDE DEF dels, first
<1>9. first \o SetToSeq(dels) \in Seq(Effects)
  BY <1>6, <1>7
<1>10. Range(first \o SetToSeq(dels)) = Range(first) \cup dels
  BY <1>5, <1>6, <1>7, RangeOfConcat
<1>11. evicted = {} => first \o SetToSeq(dels) = first
  <2> SUFFICES ASSUME evicted = {} PROVE first \o SetToSeq(dels) = first
    OBVIOUS
  <2>1. Len(SetToSeq(dels)) = 0
    BY <1>5, <1>8, FS_EmptySet
  <2>2. SetToSeq(dels) = << >>
    BY <1>6, <2>1
  <2>3. QED
    BY <1>7, <2>2
<1>12. QED
  BY <1>7, <1>9, <1>10, <1>11 DEF dels, first

\* Initially everything is empty.
LEMMA TypesInit == Init => Types
<1> SUFFICES ASSUME Init PROVE Types
  OBVIOUS
<1>1. Nil \in Values /\ << >> \in Seq(Commands) /\ << >> \in Seq(Effects) /\ << >> \in Seq(Nat)
  BY DEF Nil, Values
<1>2. 0 \in 0..MaxIds /\ 0 \in Nat /\ \A c \in Conns : Len(notifs[c]) <= NotifItems
  BY WriteOrderAssumption DEF Init
<1>3. holder \in [0..Stripes -> Conns \cup {Free}] /\ runs \in [1..MaxIds -> Nat]
  BY <1>2 DEF Init
<1>4. QED
  BY <1>1, <1>2, <1>3 DEF Init, Types, NoId

\* The types of what a connection watches and is told.
WatchTypes ==
    /\ registry \in [Keys -> SUBSET Conns]
    /\ watched \in [Conns -> SUBSET Keys]
    /\ stale \in [Conns -> SUBSET Keys]
    /\ notifs \in [Conns -> Seq(Nat)]
    /\ \A c \in Conns : Len(notifs[c]) <= NotifItems
    /\ dirty \in [Conns -> BOOLEAN]
    /\ overflow \in [Conns -> BOOLEAN]

\* The types of the variables an operation's end resets.
LockTypes ==
    /\ pc \in [Conns -> {"idle", "dedup", "lock", "run"}]
    /\ kind \in [Conns -> {"none", "write", "exec", "barrier"}]
    /\ todo \in [Conns -> Seq(Commands)]
    /\ dedup \in [Conns -> 0..MaxIds]
    /\ failed \in [Conns -> BOOLEAN]
    /\ holder \in [0..Stripes -> Conns \cup {Free}]

\* Forgetting what a connection watches keeps the types.
LEMMA UnregisterTypes ==
    ASSUME Types, NEW c \in Conns, Unregister(c)
    PROVE  WatchTypes'
<1>1. << >> \in Seq(Nat) /\ Len(<< >>) = 0 /\ 0 <= NotifItems
  BY WriteOrderAssumption
<1>2. registry' \in [Keys -> SUBSET Conns] /\ watched' \in [Conns -> SUBSET Keys]
      /\ stale' \in [Conns -> SUBSET Keys] /\ dirty' \in [Conns -> BOOLEAN]
      /\ overflow' \in [Conns -> BOOLEAN]
  BY DEF Types, Unregister
<1>3. notifs' \in [Conns -> Seq(Nat)] /\ \A d \in Conns : Len(notifs'[d]) <= NotifItems
  BY <1>1 DEF Types, Unregister
<1>4. QED
  BY <1>2, <1>3 DEF WatchTypes

\* Ending an operation keeps the types.
LEMMA ReleaseTypes ==
    ASSUME Types, NEW c \in Conns, Release(c)
    PROVE  LockTypes'
<1>1. << >> \in Seq(Commands) /\ NoId \in 0..MaxIds
  BY WriteOrderAssumption DEF NoId
<1>2. QED
  BY <1>1 DEF Types, Release, LockTypes

\* Starting an operation keeps the types.
LEMMA StartTypes ==
    ASSUME Types, NEW c \in Conns, NEW what \in {"write", "exec", "barrier"},
           NEW locks \in SUBSET AllStripes, NEW commands \in Seq(Commands), NEW id \in 0..MaxIds,
           Start(c, what, locks, commands, id)
    PROVE  /\ LockTypes' /\ need' \in [Conns -> SUBSET AllStripes]
           /\ UNCHANGED <<store, replayed, refused, written, hwm, runs, effects, tell>>
BY DEF Types, Start, LockTypes, dataVars

USE DEF dataVars, opVars, multiVars, watchVars

\* Every step of a connection keeps the variables in their types.
LEMMA TypesStep ==
    ASSUME Types, [Next]_vars
    PROVE  Types'
<1>1. ASSUME NEW c \in Conns, NEW k \in Keys, Watch(c, k) PROVE Types'
  BY <1>1 DEF Types, Watch
<1>2. ASSUME NEW c \in Conns, NEW k \in Keys, Unwatch(c, k) PROVE Types'
  <2>1. << >> \in Seq(Nat) /\ Len(<< >>) = 0 /\ 0 <= NotifItems
    BY WriteOrderAssumption
  <2>2. notifs' \in [Conns -> Seq(Nat)] /\ \A d \in Conns : Len(notifs'[d]) <= NotifItems
    <3>1. notifs' = notifs \/ notifs' = [notifs EXCEPT ![c] = << >>]
      BY <1>2 DEF Unwatch
    <3>2. QED
      BY <2>1, <3>1 DEF Types
  <2>3. dirty' \in [Conns -> BOOLEAN]
    BY <1>2 DEF Types, Unwatch
  <2>4. QED
    BY <1>2, <2>2, <2>3 DEF Types, Unwatch
<1>3. ASSUME NEW c \in Conns, Receive(c) PROVE Types'
  <2>1. Tail(notifs[c]) \in Seq(Nat) /\ Len(Tail(notifs[c])) <= NotifItems
    <3>1. notifs[c] \in Seq(Nat) /\ notifs[c] # << >> /\ Len(notifs[c]) <= NotifItems
      BY <1>3 DEF Types, Receive
    <3>2. QED
      BY <3>1, WriteOrderAssumption
  <2>2. notifs' \in [Conns -> Seq(Nat)] /\ \A d \in Conns : Len(notifs'[d]) <= NotifItems
    BY <1>3, <2>1 DEF Types, Receive
  <2>3. QED
    BY <1>3, <2>2 DEF Types, Receive
<1>4. ASSUME NEW c \in Conns, Multi(c) PROVE Types'
  <2>1. << >> \in Seq(Commands)
    OBVIOUS
  <2>2. QED
    BY <1>4, <2>1 DEF Types, Multi
<1>5. ASSUME NEW c \in Conns, Discard(c) PROVE Types'
  <2>1. << >> \in Seq(Commands) /\ WatchTypes'
    BY <1>5, UnregisterTypes DEF Discard
  <2>2. QED
    BY <1>5, <2>1 DEF Types, Discard, WatchTypes
<1>6. ASSUME NEW c \in Conns, Close(c) PROVE Types'
  <2>1. << >> \in Seq(Commands) /\ << >> \in Seq(Nat) /\ Len(<< >>) = 0 /\ 0 <= NotifItems
    BY WriteOrderAssumption
  <2>2. notifs' \in [Conns -> Seq(Nat)] /\ \A d \in Conns : Len(notifs'[d]) <= NotifItems
    BY <1>6, <2>1 DEF Types, Close
  <2>3. QED
    BY <1>6, <2>1, <2>2 DEF Types, Close
<1>7. ASSUME NEW c \in Conns, NEW cmd \in Commands, Enqueue(c, cmd) PROVE Types'
  <2>1. Append(multi[c], cmd) \in Seq(Commands)
    BY DEF Types
  <2>2. multi' \in [Conns -> Seq(Commands)] /\ poisoned' \in [Conns -> BOOLEAN]
    <3>1. /\ multi' = multi \/ multi' = [multi EXCEPT ![c] = Append(@, cmd)]
          /\ poisoned' = poisoned \/ poisoned' = [poisoned EXCEPT ![c] = TRUE]
      BY <1>7 DEF Enqueue
    <3>2. multi' \in [Conns -> Seq(Commands)]
      <4>1. multi \in [Conns -> Seq(Commands)]
        BY DEF Types
      <4>2. CASE multi' = multi
        BY <4>1, <4>2
      <4>3. CASE multi' = [multi EXCEPT ![c] = Append(@, cmd)]
        BY <2>1, <4>1, <4>3
      <4>4. QED
        BY <3>1, <4>2, <4>3
    <3>3. poisoned' \in [Conns -> BOOLEAN]
      BY <3>1 DEF Types
    <3>4. QED
      BY <3>2, <3>3
  <2>3. QED
    BY <1>7, <2>2 DEF Types, Enqueue
<1>8. ASSUME NEW c \in Conns, NEW cmd \in Commands, NEW id \in 0..MaxIds, BeginWrite(c, cmd, id)
      PROVE  Types'
  <2>1. <<cmd>> \in Seq(Commands)
    OBVIOUS
  <2>2. StripesFor(<<cmd>>, {}) \in SUBSET AllStripes
    BY <2>1, StripesForType
  <2>3. /\ LockTypes' /\ need' \in [Conns -> SUBSET AllStripes]
        /\ UNCHANGED <<store, replayed, refused, written, hwm, runs, effects, tell>>
    BY <1>8, <2>1, <2>2, StartTypes DEF BeginWrite
  <2>4. QED
    BY <1>8, <2>3 DEF Types, LockTypes, BeginWrite
<1>9. ASSUME NEW c \in Conns, BeginExec(c) PROVE Types'
  <2>1. multi[c] \in Seq(Commands) /\ watched[c] \in SUBSET Keys /\ << >> \in Seq(Commands)
        /\ NoId \in 0..MaxIds
    BY WriteOrderAssumption DEF Types, NoId
  <2>2. StripesFor(multi[c], watched[c]) \in SUBSET AllStripes
    BY <2>1, StripesForType
  <2>3. /\ LockTypes' /\ need' \in [Conns -> SUBSET AllStripes]
        /\ UNCHANGED <<store, replayed, refused, written, hwm, runs, effects, tell>>
    BY <1>9, <2>1, <2>2, StartTypes DEF BeginExec
  <2>4. QED
    BY <1>9, <2>1, <2>3 DEF Types, LockTypes, BeginExec
<1>10. ASSUME NEW c \in Conns, BeginBarrier(c) PROVE Types'
  <2>1. << >> \in Seq(Commands) /\ NoId \in 0..MaxIds
    BY WriteOrderAssumption DEF NoId
  <2>2. /\ LockTypes' /\ need' \in [Conns -> SUBSET AllStripes]
        /\ UNCHANGED <<store, replayed, refused, written, hwm, runs, effects, tell>>
    BY <1>10, <2>1, StartTypes DEF BeginBarrier
  <2>3. QED
    BY <1>10, <2>1, <2>2 DEF Types, LockTypes, BeginBarrier
<1>11. ASSUME NEW c \in Conns, Dedup(c) PROVE Types'
  <2>1. << >> \in Seq(Commands) /\ NoId \in 0..MaxIds
    BY WriteOrderAssumption DEF NoId
  <2>2. /\ pc' \in [Conns -> {"idle", "dedup", "lock", "run"}]
        /\ kind' \in [Conns -> {"none", "write", "exec", "barrier"}]
        /\ need' \in [Conns -> SUBSET AllStripes]
        /\ todo' \in [Conns -> Seq(Commands)]
        /\ dedup' \in [Conns -> 0..MaxIds]
        /\ holder' \in [0..Stripes -> Conns \cup {Free}]
    <3>1. CASE dedup[c] <= hwm
      <4>1. /\ pc' = [pc EXCEPT ![c] = "idle"] /\ kind' = [kind EXCEPT ![c] = "none"]
            /\ need' = [need EXCEPT ![c] = {}] /\ todo' = [todo EXCEPT ![c] = << >>]
            /\ dedup' = [dedup EXCEPT ![c] = NoId] /\ holder' = holder
        BY <1>11, <3>1 DEF Dedup
      <4>2. QED
        BY <2>1, <4>1 DEF Types
    <3>2. CASE ~ (dedup[c] <= hwm)
      <4>1. /\ pc' = [pc EXCEPT ![c] = "lock"] /\ holder' = [holder EXCEPT ![DedupOrder] = c]
            /\ UNCHANGED <<kind, need, todo, dedup>>
        BY <1>11, <3>2 DEF Dedup
      <4>2. QED
        BY <4>1 DEF Types
    <3>3. QED
      BY <3>1, <3>2
  <2>3. QED
    BY <1>11, <2>2 DEF Types, Dedup
<1>12. ASSUME NEW c \in Conns, Lock(c) PROVE Types'
  BY <1>12 DEF Types, Lock
<1>13. ASSUME NEW c \in Conns, Locked(c) PROVE Types'
  <2>1. CASE kind[c] = "exec" /\ (notifs[c] # << >> \/ dirty[c])
    <3>1. LockTypes' /\ WatchTypes'
      BY <1>13, <2>1, ReleaseTypes, UnregisterTypes DEF Locked
    <3>2. QED
      BY <1>13, <3>1 DEF Types, LockTypes, WatchTypes, Locked
  <2>2. CASE ~ (kind[c] = "exec" /\ (notifs[c] # << >> \/ dirty[c]))
    BY <1>13, <2>2 DEF Types, Locked
  <2>3. QED
    BY <2>1, <2>2
<1>14. ASSUME NEW c \in Conns, Execute(c) PROVE Types'
  <2> DEFINE cmd == Head(todo[c])
             id == written + 1
  <2>1. todo[c] \in Seq(Commands) /\ todo[c] # << >> /\ written \in Nat
    BY <1>14 DEF Types, Execute
  <2>2. cmd \in Commands /\ Tail(todo[c]) \in Seq(Commands) /\ id \in Nat
    BY <2>1
  <2>3. PICK out \in Outcomes(store, cmd, id) :
             /\ store' = out.store
             /\ effects' = [effects EXCEPT ![c] =
                   (IF Propagates(cmd, out.err) THEN <<[cmd |-> cmd, id |-> id]>> ELSE << >>)
                     \o SetToSeq({[cmd |-> [op |-> "del", keys |-> {k}, src |-> {}, size |-> 1],
                                   id |-> id] : k \in out.evicted})]
             /\ failed' = [failed EXCEPT ![c] = out.err]
    BY <1>14 DEF Execute
  <2> HIDE DEF cmd, id
  <2>4. out.store \in [Keys -> Values] /\ out.err \in BOOLEAN /\ out.evicted \subseteq Keys
    BY <2>2, <2>3, OutcomeProperties DEF Types
  <2>5. Propagates(cmd, out.err) \in BOOLEAN
    BY DEF Propagates
  <2>6. (IF Propagates(cmd, out.err) THEN <<[cmd |-> cmd, id |-> id]>> ELSE << >>)
                     \o SetToSeq({[cmd |-> [op |-> "del", keys |-> {k}, src |-> {}, size |-> 1],
                                   id |-> id] : k \in out.evicted}) \in Seq(Effects)
    BY <2>2, <2>4, <2>5, EffectsType
  <2>7. effects' \in [Conns -> Seq(Effects)]
    BY <2>3, <2>6 DEF Types
  <2>8. store' \in [Keys -> Values] /\ failed' \in [Conns -> BOOLEAN]
    BY <2>3, <2>4 DEF Types
  <2>9. todo' \in [Conns -> Seq(Commands)] /\ written' \in Nat
    BY <1>14, <2>2 DEF Types, Execute
  <2>10. stale' \in [Conns -> SUBSET Keys]
    <3>1. stale' = [d \in Conns |-> stale[d] \cup {k \in watched[d] : store'[k] # store[k]}]
      BY <1>14 DEF Execute
    <3>2. QED
      BY <3>1 DEF Types
  <2>11. UNCHANGED <<replayed, refused, holder, hwm, runs, pc, kind, need, tell, dedup,
                     multiVars, registry, watched, notifs, dirty, overflow>>
    BY <1>14 DEF Execute
  <2>12. QED
    BY <2>7, <2>8, <2>9, <2>10, <2>11 DEF Types
<1>15. ASSUME NEW c \in Conns, LogEffect(c) PROVE Types'
  <2> DEFINE e == Head(effects[c])
  <2>1. effects[c] \in Seq(Effects) /\ effects[c] # << >>
    BY <1>15 DEF Types, LogEffect
  <2>2. e \in Effects /\ Tail(effects[c]) \in Seq(Effects)
    BY <2>1
  <2>3. e.cmd \in Loggable /\ e.id \in Nat
    BY <2>2 DEF Effects, Loggable
  <2>4. Apply(replayed, e.cmd, e.id) \in [Keys -> Values] /\ WriteKeys(e.cmd) \subseteq Keys
    BY <2>3, ApplyProperties, CommandFields DEF Types
  <2>5. replayed' \in [Keys -> Values]
    BY <1>15, <2>4 DEF LogEffect
  <2>6. refused' \in BOOLEAN
    BY <1>15 DEF LogEffect
  <2>7. tell' \in [Conns -> SUBSET Keys]
    BY <1>15, <2>4 DEF Types, LogEffect
  <2>8. effects' \in [Conns -> Seq(Effects)]
    BY <1>15, <2>2 DEF Types, LogEffect
  <2>9. QED
    BY <1>15, <2>5, <2>6, <2>7, <2>8 DEF Types, LogEffect
<1>16. ASSUME NEW c \in Conns, NEW k \in Keys, Notify(c, k) PROVE Types'
  <2> DEFINE size == store[k].size
             told == {d \in registry[k] : Fits(d, size)}
  <2>1. size \in Nat /\ told \subseteq Conns
    BY DEF Types, Values
  <2>2. /\ notifs' = [d \in Conns |-> IF d \in told THEN Append(notifs[d], size) ELSE notifs[d]]
        /\ overflow' = [d \in Conns |-> overflow[d] \/ d \in registry[k] \ told]
        /\ registry' = [registry EXCEPT ![k] = told]
    BY <1>16 DEF Notify
  <2>3. \A d \in told : Len(notifs[d]) < NotifItems
    BY DEF Fits
  <2> HIDE DEF told, size
  <2>4. ASSUME NEW d \in Conns PROVE notifs'[d] \in Seq(Nat) /\ Len(notifs'[d]) <= NotifItems
    <3>1. notifs[d] \in Seq(Nat) /\ Len(notifs[d]) <= NotifItems
      BY DEF Types
    <3>2. CASE d \in told
      <4>1. notifs'[d] = Append(notifs[d], size) /\ Len(notifs[d]) < NotifItems
        BY <2>2, <2>3, <3>2
      <4>2. QED
        BY <2>1, <3>1, <4>1, WriteOrderAssumption
    <3>3. CASE d \notin told
      BY <2>2, <3>1, <3>3
    <3>4. QED
      BY <3>2, <3>3
  <2>5. notifs' \in [Conns -> Seq(Nat)] /\ overflow' \in [Conns -> BOOLEAN]
    BY <2>2, <2>4 DEF Types
  <2>6. registry' \in [Keys -> SUBSET Conns]
    BY <2>1, <2>2 DEF Types
  <2>7. tell' \in [Conns -> SUBSET Keys]
    BY <1>16 DEF Types, Notify
  <2>8. UNCHANGED <<dataVars, written, holder, hwm, runs, pc, kind, need, todo, effects, dedup,
                    failed, multiVars, watched, stale, dirty>>
    BY <1>16 DEF Notify
  <2>9. QED
    BY <2>4, <2>5, <2>6, <2>7, <2>8 DEF Types
<1>17. ASSUME NEW c \in Conns, Finish(c) PROVE Types'
  <2>1. LockTypes'
    BY <1>17, ReleaseTypes DEF Finish
  <2>2. WatchTypes'
    <3>1. CASE kind[c] = "exec"
      BY <1>17, <3>1, UnregisterTypes DEF Finish
    <3>2. CASE kind[c] # "exec"
      BY <1>17, <3>2 DEF Finish, Types, WatchTypes
    <3>3. QED
      BY <3>1, <3>2
  <2>3. hwm' \in Nat /\ runs' \in [1..MaxIds -> Nat]
    <3>1. dedup[c] \in Nat /\ hwm \in Nat
      BY WriteOrderAssumption DEF Types
    <3>2. Max({hwm, dedup[c]}) \in Nat
      BY <3>1, MaxOfTwo
    <3>3. /\ hwm' = hwm \/ hwm' = Max({hwm, dedup[c]})
          /\ runs' = runs \/ runs' = [runs EXCEPT ![dedup[c]] = @ + 1]
      BY <1>17 DEF Finish
    <3>4. runs \in [1..MaxIds -> Nat]
      BY DEF Types
    <3>5. QED
      BY <3>1, <3>2, <3>3, <3>4
  <2>4. QED
    BY <1>17, <2>1, <2>2, <2>3 DEF Types, LockTypes, WatchTypes, Finish
<1>18. ASSUME UNCHANGED vars PROVE Types'
  BY <1>18 DEF Types, vars
<1>19. QED
  BY <1>1, <1>2, <1>3, <1>4, <1>5, <1>6, <1>7, <1>8, <1>9, <1>10, <1>11, <1>12, <1>13, <1>14,
     <1>15, <1>16, <1>17, <1>18 DEF Next, Client, Server

\* Whatever clients send, every variable of the command loops keeps its type.
THEOREM TypesCorrect == Spec => []Types
<1>1. Types /\ [Next]_vars => Types'
  BY TypesStep
<1>2. QED
  BY TypesInit, <1>1, PTL DEF Spec

\* Without limits a command has no effect but its own.
LEMMA UncappedEffects ==
    ASSUME Types, ~ Capped, NEW c \in Conns, Execute(c)
    PROVE  /\ Range(effects'[c]) \subseteq {[cmd |-> Head(todo[c]), id |-> written + 1]}
           /\ Len(effects'[c]) <= 1
           /\ store' = Apply(store, Head(todo[c]), written + 1)
           /\ Range(effects'[c]) = {} => store' = store
<1> DEFINE cmd == Head(todo[c])
           id == written + 1
<1>1. todo[c] \in Seq(Commands) /\ todo[c] # << >> /\ written \in Nat
  BY DEF Types, Execute
<1>2. cmd \in Commands /\ id \in Nat
  BY <1>1
<1>3. PICK out \in Outcomes(store, cmd, id) :
           /\ store' = out.store
           /\ effects' = [effects EXCEPT ![c] =
                 (IF Propagates(cmd, out.err) THEN <<[cmd |-> cmd, id |-> id]>> ELSE << >>)
                   \o SetToSeq({[cmd |-> [op |-> "del", keys |-> {k}, src |-> {}, size |-> 1],
                                 id |-> id] : k \in out.evicted})]
  BY DEF Execute
<1> HIDE DEF cmd, id
<1>4. store \in [Keys -> Values] /\ effects \in [Conns -> Seq(Effects)]
  BY DEF Types
<1>5. out.store = Apply(store, cmd, id) /\ (out.err <=> Fails(store, cmd)) /\ out.evicted = {}
  BY <1>2, <1>3, <1>4, UncappedOutcome
<1>6. Propagates(cmd, out.err) \in BOOLEAN
  BY DEF Propagates
<1>7. effects'[c] = (IF Propagates(cmd, out.err) THEN <<[cmd |-> cmd, id |-> id]>> ELSE << >>)
  <2>1. effects'[c] =
           (IF Propagates(cmd, out.err) THEN <<[cmd |-> cmd, id |-> id]>> ELSE << >>)
             \o SetToSeq({[cmd |-> [op |-> "del", keys |-> {k}, src |-> {}, size |-> 1],
                           id |-> id] : k \in out.evicted})
    BY <1>3, <1>4
  <2>2. out.evicted \in SUBSET Keys
    BY <1>5
  <2>3. QED
    BY <1>2, <1>5, <1>6, <2>1, <2>2, EffectsType
<1>8. ~ Propagates(cmd, out.err) => store' = store
  BY <1>2, <1>3, <1>4, <1>5, ApplyProperties DEF Propagates, Loggable
<1>9. /\ Range(effects'[c]) \subseteq {[cmd |-> cmd, id |-> id]} /\ Len(effects'[c]) <= 1
      /\ Range(effects'[c]) = {} => store' = store
  <2>1. CASE Propagates(cmd, out.err)
    <3>1. effects'[c] = <<[cmd |-> cmd, id |-> id]>>
      BY <1>7, <2>1
    <3>2. Range(effects'[c]) = {[cmd |-> cmd, id |-> id]} /\ Len(effects'[c]) = 1
      BY <3>1 DEF Range
    <3>3. Len(effects'[c]) <= 1
      BY <3>2
    <3>4. Range(effects'[c]) # {}
      BY <3>2, Zenon
    <3>5. QED
      BY <3>2, <3>3, <3>4, Zenon
  <2>2. CASE ~ Propagates(cmd, out.err)
    <3>1. effects'[c] = << >>
      BY <1>7, <2>2
    <3>2. Range(effects'[c]) = {} /\ Len(effects'[c]) = 0
      BY <3>1 DEF Range
    <3>3. QED
      BY <1>8, <2>2, <3>2
  <2>3. QED
    BY <2>1, <2>2
<1>10. store' = Apply(store, cmd, id)
  BY <1>3, <1>5
<1>11. QED
  BY <1>9, <1>10 DEF cmd, id

-----------------------------------------------------------------------------
(* An operation that runs has its locks *)

\* The operation of d is where it was, under the same locks.
SameOp(d) ==
    /\ pc'[d] = pc[d] /\ kind'[d] = kind[d] /\ need'[d] = need[d] /\ todo'[d] = todo[d]
    /\ effects'[d] = effects[d] /\ tell'[d] = tell[d] /\ dedup'[d] = dedup[d]
    /\ \A l \in 0..Stripes : holder'[l] = d <=> holder[l] = d

\* A connection between operations.
Resting(c) ==
    /\ pc[c] = "idle" /\ kind[c] = "none" /\ need[c] = {} /\ todo[c] = << >>
    /\ effects[c] = << >> /\ tell[c] = {} /\ dedup[c] = NoId
    /\ \A l \in 0..Stripes : holder[l] # c

\* A connection between operations has no locks to answer for.
LEMMA RestingIsOK == \A c \in Conns : Resting(c) => LocksOK(c)
BY DEF Resting, LocksOK

\* An idle connection is between operations.
LEMMA IdleIsResting == \A c \in Conns : LocksOK(c) /\ pc[c] = "idle" => Resting(c)
BY DEF Resting, LocksOK

\* What an operation works under are stripes.
LEMMA ClaimedType ==
    ASSUME Types, NEW c \in Conns
    PROVE  Claimed(c) \subseteq AllStripes
<1>1. \A k \in Keys : StripeOf[k] \in AllStripes
  BY WriteOrderAssumption DEF AllStripes
<1>2. TodoKeys(c) \subseteq Keys
  <2>1. Range(todo[c]) \subseteq Commands
    BY RangeIsFinite DEF Types
  <2>2. QED
    BY <2>1, CommandFields DEF TodoKeys, Loggable
<1>3. EffectKeys(c) \subseteq Keys
  <2>1. Range(effects[c]) \subseteq Effects
    BY RangeIsFinite DEF Types
  <2>2. \A e \in Effects : e.cmd \in Loggable
    BY DEF Effects, Loggable
  <2>3. QED
    BY <2>1, <2>2, CommandFields DEF EffectKeys
<1>4. tell[c] \subseteq Keys /\ watched[c] \subseteq Keys
  BY DEF Types
<1>5. QED
  BY <1>1, <1>2, <1>3, <1>4 DEF Claimed

\* A connection that a step does not touch keeps its locks.
LEMMA OtherOp ==
    ASSUME Types, NEW d \in Conns, LocksOK(d), SameOp(d),
           watched'[d] = watched[d] \/ pc[d] = "idle"
    PROVE  LocksOK(d)'
<1>1. CASE pc[d] = "idle"
  <2>1. Resting(d)'
    BY <1>1, IdleIsResting DEF Resting, SameOp
  <2>2. QED
    BY <2>1, RestingIsOK DEF Resting, LocksOK
<1>2. CASE pc[d] # "idle"
  <2>1. Claimed(d)' = Claimed(d)
    BY <1>2 DEF Claimed, TodoKeys, EffectKeys, SameOp
  <2>2. \A l \in Claimed(d) : l \in 0..Stripes
    BY ClaimedType, WriteOrderAssumption DEF AllStripes
  <2>3. QED
    BY <1>2, <2>1, <2>2, WriteOrderAssumption DEF LocksOK, SameOp, DedupOrder
<1>3. QED
  BY <1>1, <1>2

\* A step of a running operation that only gives claims up keeps its locks.
LEMMA ClaimsShrink ==
    ASSUME Types, NEW c \in Conns, LocksOK(c), pc[c] = "run",
           UNCHANGED <<pc, kind, need, dedup, holder>>, Claimed(c)' \subseteq Claimed(c),
           kind[c] = "barrier" => todo'[c] = << >> /\ effects'[c] = << >>
    PROVE  LocksOK(c)'
BY DEF LocksOK

\* The end of an operation.
LEMMA Released ==
    ASSUME Types, NEW c \in Conns, LocksOK(c), Release(c), UNCHANGED <<need, effects, tell>>,
           need[c] = {}, effects[c] = << >>, tell[c] = {},
           \A d \in Conns \ {c} : watched'[d] = watched[d]
    PROVE  Resting(c)' /\ \A d \in Conns \ {c} : SameOp(d)
<1>1. Free \notin Conns
  BY WriteOrderAssumption DEF Free
<1>2. \A l \in 0..Stripes : holder'[l] = IF holder[l] = c THEN Free ELSE holder[l]
  BY DEF Release
<1>3. Resting(c)'
  BY <1>1, <1>2 DEF Release, Resting, Types
<1>4. \A d \in Conns \ {c} : SameOp(d)
  BY <1>1, <1>2 DEF Release, SameOp, Types
<1>5. QED
  BY <1>3, <1>4

\* The beginning of one.
LEMMA Started ==
    ASSUME Types, NEW c \in Conns, LocksOK(c), NEW what \in {"write", "exec", "barrier"},
           NEW locks, NEW commands, NEW id \in 0..MaxIds,
           Start(c, what, locks, commands, id),
           what # "write" => id = NoId, what = "barrier" => commands = << >>, watched' = watched,
           \A l \in Claimed(c)' : l \in locks
    PROVE  LocksOK(c)' /\ \A d \in Conns \ {c} : SameOp(d)
<1>1. Resting(c)
  BY IdleIsResting DEF Start
<1>2. /\ pc'[c] = (IF id = NoId THEN "lock" ELSE "dedup") /\ kind'[c] = what
      /\ need'[c] = locks /\ dedup'[c] = id /\ todo'[c] = commands /\ effects' = effects /\ tell' = tell /\ holder' = holder
  BY DEF Start, Types
<1>3. \A d \in Conns \ {c} : SameOp(d)
  BY DEF Start, SameOp, Types
<1>4. LocksOK(c)'
  BY <1>1, <1>2 DEF LocksOK, Resting
<1>5. QED
  BY <1>3, <1>4

\* Every step keeps every connection's locks in order.
LEMMA LockStep ==
    ASSUME LockInv, [Next]_vars
    PROVE  LockInv'
<1>0. Types /\ Types' /\ \A d \in Conns : LocksOK(d)
  BY TypesStep DEF LockInv
<1> SUFFICES \A d \in Conns : LocksOK(d)'
  BY <1>0 DEF LockInv
<1>1. ASSUME NEW c \in Conns, LocksOK(c)', \A d \in Conns \ {c} : SameOp(d),
             \A d \in Conns \ {c} : watched'[d] = watched[d]
      PROVE  \A d \in Conns : LocksOK(d)'
  BY <1>0, <1>1, OtherOp
<1>2. ASSUME NEW c \in Conns, pc[c] = "idle", UNCHANGED <<opVars, holder>>,
             \A d \in Conns \ {c} : watched'[d] = watched[d]
      PROVE  \A d \in Conns : LocksOK(d)'
  <2>1. \A d \in Conns : SameOp(d)
    BY <1>2 DEF SameOp
  <2>2. QED
    BY <1>0, <1>2, <2>1, OtherOp
<1>3. ASSUME NEW c \in Conns,
             \/ \E k \in Keys : Watch(c, k) \/ Unwatch(c, k)
             \/ Receive(c) \/ Multi(c) \/ Discard(c) \/ Close(c)
             \/ \E cmd \in Commands : Enqueue(c, cmd)
      PROVE  \A d \in Conns : LocksOK(d)'
  <2>1. pc[c] = "idle" /\ UNCHANGED <<opVars, holder>>
    BY <1>3 DEF Watch, Unwatch, Receive, Multi, Discard, Close, Enqueue
  <2>2. \A d \in Conns \ {c} : watched'[d] = watched[d]
    <3>1. watched' = watched \/ \E new : watched' = [watched EXCEPT ![c] = new]
      BY <1>3 DEF Watch, Unwatch, Receive, Multi, Discard, Close, Enqueue, Unregister
    <3>2. QED
      BY <1>0, <3>1 DEF Types
  <2>3. QED
    BY <1>2, <2>1, <2>2
<1>4. ASSUME NEW c \in Conns, NEW cmd \in Commands, NEW id \in 0..MaxIds, BeginWrite(c, cmd, id)
      PROVE  \A d \in Conns : LocksOK(d)'
  <2>1. Start(c, "write", StripesFor(<<cmd>>, {}), <<cmd>>, id) /\ watched' = watched
    BY <1>4 DEF BeginWrite
  <2>2. Resting(c)
    BY <1>0, <2>1, IdleIsResting DEF Start
  <2>3. /\ todo'[c] = <<cmd>> /\ effects'[c] = << >> /\ tell'[c] = {} /\ kind'[c] = "write"
    BY <1>0, <2>1, <2>2 DEF Start, Resting, Types
  <2>4. <<cmd>> \in Seq(Commands) /\ Range(<<cmd>>) = {cmd} /\ Range(<< >>) = {}
    BY DEF Range
  <2>5. Claimed(c)' = IF Capped THEN AllStripes ELSE {StripeOf[k] : k \in OrderingKeys(cmd)}
    BY <2>3, <2>4 DEF Claimed, TodoKeys, EffectKeys
  <2>6. \A l \in Claimed(c)' : l \in StripesFor(<<cmd>>, {})
    <3>1. {} \in SUBSET Keys
      OBVIOUS
    <3>2. /\ Capped => StripesFor(<<cmd>>, {}) = AllStripes
          /\ \A k \in OrderingKeys(cmd) : StripeOf[k] \in StripesFor(<<cmd>>, {})
      BY <2>4, <3>1, StripesForType
    <3>3. QED
      BY <2>5, <3>2
  <2>7. LocksOK(c)' /\ \A d \in Conns \ {c} : SameOp(d)
    BY <1>0, <2>1, <2>6, Started
  <2>8. QED
    BY <1>1, <2>1, <2>7
<1>5. ASSUME NEW c \in Conns, BeginExec(c) PROVE \A d \in Conns : LocksOK(d)'
  <2>1. Start(c, "exec", StripesFor(multi[c], watched[c]), multi[c], NoId) /\ watched' = watched
    BY <1>5 DEF BeginExec
  <2>2. Resting(c)
    BY <1>0, <2>1, IdleIsResting DEF Start
  <2>3. /\ todo'[c] = multi[c] /\ effects'[c] = << >> /\ tell'[c] = {} /\ kind'[c] = "exec"
    BY <1>0, <2>1, <2>2 DEF Start, Resting, Types
  <2>4. multi[c] \in Seq(Commands) /\ watched[c] \in SUBSET Keys /\ Range(<< >>) = {}
        /\ NoId \in 0..MaxIds
    BY <1>0, WriteOrderAssumption DEF Range, Types, NoId
  <2>5. Claimed(c)' = IF Capped THEN AllStripes
                      ELSE {StripeOf[k] : k \in watched[c] \cup
                                               UNION {OrderingKeys(cmd) : cmd \in Range(multi[c])}}
    <3>1. /\ TodoKeys(c)' = UNION {OrderingKeys(cmd) : cmd \in Range(multi[c])}
          /\ EffectKeys(c)' = {}
      BY <2>3, <2>4 DEF TodoKeys, EffectKeys
    <3>2. QED
      BY <2>1, <2>3, <3>1 DEF Claimed
  <2>6. \A l \in Claimed(c)' : l \in StripesFor(multi[c], watched[c])
    <3>1. /\ Capped => StripesFor(multi[c], watched[c]) = AllStripes
          /\ \A k \in watched[c] : StripeOf[k] \in StripesFor(multi[c], watched[c])
          /\ \A cmd \in Range(multi[c]) : \A k \in OrderingKeys(cmd) :
               StripeOf[k] \in StripesFor(multi[c], watched[c])
      BY <2>4, StripesForType
    <3>2. QED
      BY <2>5, <3>1
  <2>7. LocksOK(c)' /\ \A d \in Conns \ {c} : SameOp(d)
    BY <1>0, <2>1, <2>4, <2>6, Started
  <2>8. QED
    BY <1>1, <2>1, <2>7
<1>6. ASSUME NEW c \in Conns, BeginBarrier(c) PROVE \A d \in Conns : LocksOK(d)'
  <2>1. Start(c, "barrier", AllStripes, << >>, NoId) /\ watched' = watched
        /\ NoId \in 0..MaxIds
    BY <1>6, WriteOrderAssumption DEF BeginBarrier, NoId
  <2>2. kind'[c] = "barrier"
    BY <1>0, <2>1 DEF Start, Types
  <2>3. \A l \in Claimed(c)' : l \in AllStripes
    BY <2>2 DEF Claimed
  <2>4. LocksOK(c)' /\ \A d \in Conns \ {c} : SameOp(d)
    BY <1>0, <2>1, <2>3, Started
  <2>5. QED
    BY <1>1, <2>1, <2>4
<1>7. ASSUME NEW c \in Conns, Dedup(c) PROVE \A d \in Conns : LocksOK(d)'
  <2>1. /\ pc[c] = "dedup" /\ holder[DedupOrder] = Free /\ Free \notin Conns
        /\ UNCHANGED <<effects, tell, watched>> /\ DedupOrder \in 0..Stripes
    BY <1>7, WriteOrderAssumption DEF Dedup, Free, DedupOrder
  <2>2. effects[c] = << >> /\ tell[c] = {} /\ \A l \in 0..Stripes : holder[l] # c
    BY <1>0, <2>1 DEF LocksOK
  <2>3. CASE dedup[c] <= hwm
    <3>1. /\ pc' = [pc EXCEPT ![c] = "idle"] /\ kind' = [kind EXCEPT ![c] = "none"]
          /\ need' = [need EXCEPT ![c] = {}] /\ todo' = [todo EXCEPT ![c] = << >>]
          /\ dedup' = [dedup EXCEPT ![c] = NoId] /\ holder' = holder
      BY <1>7, <2>3 DEF Dedup
    <3>2. Resting(c)'
      BY <1>0, <2>1, <2>2, <3>1 DEF Resting, Types
    <3>3. \A d \in Conns \ {c} : SameOp(d)
      BY <1>0, <2>1, <3>1 DEF SameOp, Types
    <3>4. LocksOK(c)'
      BY <3>2 DEF Resting, LocksOK
    <3>5. QED
      BY <1>1, <2>1, <3>3, <3>4
  <2>4. CASE ~ (dedup[c] <= hwm)
    <3>1. /\ pc' = [pc EXCEPT ![c] = "lock"] /\ holder' = [holder EXCEPT ![DedupOrder] = c]
          /\ UNCHANGED <<kind, need, todo, dedup>>
      BY <1>7, <2>4 DEF Dedup
    <3>2. \A l \in 0..Stripes : holder'[l] = IF l = DedupOrder THEN c ELSE holder[l]
      BY <1>0, <3>1 DEF Types
    <3>3. \A d \in Conns \ {c} : SameOp(d)
      <4>1. \A d \in Conns \ {c} : pc'[d] = pc[d]
        BY <1>0, <3>1 DEF Types
      <4>2. \A d \in Conns \ {c} : \A l \in 0..Stripes : holder'[l] = d <=> holder[l] = d
        BY <2>1, <3>2
      <4>3. QED
        BY <2>1, <3>1, <4>1, <4>2 DEF SameOp
    <3>4. Claimed(c)' = Claimed(c) /\ Claimed(c) \subseteq AllStripes
      BY <1>0, <2>1, <3>1, ClaimedType DEF Claimed, TodoKeys, EffectKeys
    <3>5. pc'[c] = "lock" /\ holder'[DedupOrder] = c
      BY <1>0, <2>1, <3>1, <3>2 DEF Types
    <3>6. LocksOK(c)'
      BY <1>0, <2>1, <2>2, <3>1, <3>2, <3>4, <3>5 DEF LocksOK, AllStripes
    <3>7. QED
      BY <1>1, <2>1, <3>3, <3>6
  <2>5. QED
    BY <2>3, <2>4
<1>8. ASSUME NEW c \in Conns, Lock(c) PROVE \A d \in Conns : LocksOK(d)'
  <2> DEFINE m == Min(need[c])
  <2>1. /\ pc[c] = "lock" /\ holder[m] = Free /\ Free \notin Conns
        /\ holder' = [holder EXCEPT ![m] = c] /\ need' = [need EXCEPT ![c] = @ \ {m}]
        /\ UNCHANGED <<pc, kind, todo, effects, tell, dedup, watched>>
    BY <1>8, WriteOrderAssumption DEF Lock, Free
  <2> HIDE DEF m
  <2>2. \A l \in 0..Stripes : holder'[l] = IF l = m THEN c ELSE holder[l]
    BY <1>0, <2>1 DEF Types
  <2>3. \A d \in Conns \ {c} : SameOp(d)
    <3>1. \A d \in Conns \ {c} : need'[d] = need[d]
      BY <1>0, <2>1 DEF Types
    <3>2. \A d \in Conns \ {c} : \A l \in 0..Stripes : holder'[l] = d <=> holder[l] = d
      BY <2>1, <2>2
    <3>3. QED
      BY <2>1, <3>1, <3>2 DEF SameOp
  <2>4. Claimed(c)' = Claimed(c) /\ Claimed(c) \subseteq 0..Stripes
    BY <1>0, <2>1, ClaimedType, WriteOrderAssumption DEF Claimed, TodoKeys, EffectKeys, AllStripes
  <2>5. need'[c] = need[c] \ {m} /\ pc'[c] = "lock" /\ DedupOrder \in 0..Stripes
    BY <1>0, <2>1, WriteOrderAssumption DEF Types, DedupOrder
  <2>6. \A l \in Claimed(c) : l \in need'[c] \/ holder'[l] = c
    BY <1>0, <2>1, <2>2, <2>4, <2>5 DEF LocksOK
  <2>7. LocksOK(c)'
    BY <1>0, <2>1, <2>2, <2>4, <2>5, <2>6 DEF LocksOK
  <2>8. QED
    BY <1>1, <2>1, <2>3, <2>7
<1>9. ASSUME NEW c \in Conns, Locked(c) PROVE \A d \in Conns : LocksOK(d)'
  <2>1. pc[c] = "lock" /\ need[c] = {} /\ UNCHANGED <<need, effects, tell>>
    BY <1>9 DEF Locked
  <2>2. CASE kind[c] = "exec" /\ (notifs[c] # << >> \/ dirty[c])
    <3>1. Release(c) /\ Unregister(c)
      BY <1>9, <2>2 DEF Locked
    <3>2. \A d \in Conns \ {c} : watched'[d] = watched[d]
      BY <1>0, <3>1 DEF Unregister, Types
    <3>3. effects[c] = << >> /\ tell[c] = {}
      BY <1>0, <2>1 DEF LocksOK
    <3>4. Resting(c)' /\ \A d \in Conns \ {c} : SameOp(d)
      BY <1>0, <2>1, <3>1, <3>2, <3>3, Released
    <3>5. LocksOK(c)'
      BY <3>4 DEF Resting, LocksOK
    <3>6. QED
      BY <1>1, <3>2, <3>4, <3>5
  <2>3. CASE ~ (kind[c] = "exec" /\ (notifs[c] # << >> \/ dirty[c]))
    <3>1. /\ pc' = [pc EXCEPT ![c] = "run"]
          /\ UNCHANGED <<kind, todo, dedup, failed, holder, watchVars>>
      BY <1>9, <2>3 DEF Locked
    <3>2. \A d \in Conns \ {c} : SameOp(d)
      BY <1>0, <2>1, <3>1 DEF SameOp, Types
    <3>3. Claimed(c)' = Claimed(c)
      BY <2>1, <3>1 DEF Claimed, TodoKeys, EffectKeys
    <3>4. pc'[c] = "run"
      BY <1>0, <3>1 DEF Types
    <3>5. LocksOK(c)'
      BY <1>0, <2>1, <3>1, <3>3, <3>4 DEF LocksOK
    <3>6. QED
      BY <1>1, <3>1, <3>2, <3>5
  <2>4. QED
    BY <2>2, <2>3
<1>10. ASSUME NEW c \in Conns, Execute(c) PROVE \A d \in Conns : LocksOK(d)'
  <2>1. /\ pc[c] = "run" /\ todo[c] # << >> /\ tell[c] = {} /\ todo[c] \in Seq(Commands)
        /\ UNCHANGED <<holder, pc, kind, need, tell, dedup, watched>>
        /\ todo' = [todo EXCEPT ![c] = Tail(@)]
    BY <1>0, <1>10 DEF Execute, Types
  <2>2. \A d \in Conns \ {c} : SameOp(d)
    <3>1. \A d \in Conns \ {c} : effects'[d] = effects[d]
      BY <1>0, <1>10 DEF Execute, Types
    <3>2. QED
      BY <1>0, <2>1, <3>1 DEF SameOp, Types
  <2>3. Claimed(c)' \subseteq Claimed(c)
    <3>1. CASE Capped
      BY <3>1 DEF Claimed
    <3>2. CASE ~ Capped
      <4>1. Range(effects'[c]) \subseteq {[cmd |-> Head(todo[c]), id |-> written + 1]}
        BY <1>0, <1>10, <3>2, UncappedEffects
      <4>2. Head(todo[c]) \in Range(todo[c])
        BY <2>1, HeadTailRange
      <4>3. EffectKeys(c)' \subseteq TodoKeys(c)
        BY <4>1, <4>2 DEF EffectKeys, TodoKeys
      <4>4. todo'[c] = Tail(todo[c]) /\ Range(Tail(todo[c])) \subseteq Range(todo[c])
        BY <1>0, <2>1, HeadTailRange DEF Types
      <4>5. TodoKeys(c)' \subseteq TodoKeys(c)
        BY <4>4 DEF TodoKeys
      <4>6. QED
        BY <2>1, <3>2, <4>3, <4>5 DEF Claimed
    <3>3. QED
      BY <3>1, <3>2
  <2>4. LocksOK(c)'
    <3>1. kind[c] # "barrier"
      BY <1>0, <2>1 DEF LocksOK
    <3>2. QED
      BY <1>0, <2>1, <2>3, <3>1, ClaimsShrink
  <2>5. QED
    BY <1>1, <2>1, <2>2, <2>4
<1>11. ASSUME NEW c \in Conns, LogEffect(c) PROVE \A d \in Conns : LocksOK(d)'
  <2>1. /\ effects[c] # << >> /\ effects[c] \in Seq(Effects) /\ tell[c] = {}
        /\ UNCHANGED <<holder, pc, kind, need, todo, dedup, watched>>
        /\ effects' = [effects EXCEPT ![c] = Tail(@)]
    BY <1>0, <1>11 DEF LogEffect, Types
  <2>2. pc[c] = "run"
    BY <1>0, <2>1 DEF LocksOK
  <2>3. /\ \A d \in Conns \ {c} : tell'[d] = tell[d]
        /\ tell'[c] \subseteq WriteKeys(Head(effects[c]).cmd)
    BY <1>0, <1>11 DEF LogEffect, Types
  <2>4. \A d \in Conns \ {c} : SameOp(d)
    BY <1>0, <2>1, <2>3 DEF SameOp, Types
  <2>5. /\ effects'[c] = Tail(effects[c]) /\ Range(Tail(effects[c])) \subseteq Range(effects[c])
        /\ Head(effects[c]) \in Range(effects[c])
    BY <1>0, <2>1, HeadTailRange DEF Types
  <2>6. tell'[c] \subseteq EffectKeys(c) /\ EffectKeys(c)' \subseteq EffectKeys(c)
    BY <2>3, <2>5 DEF EffectKeys, OrderingKeys
  <2>7. Claimed(c)' \subseteq Claimed(c)
    BY <2>1, <2>6 DEF Claimed, TodoKeys
  <2>8. LocksOK(c)'
    <3>1. kind[c] # "barrier"
      BY <1>0, <2>1 DEF LocksOK
    <3>2. QED
      BY <1>0, <2>1, <2>2, <2>7, <3>1, ClaimsShrink
  <2>9. QED
    BY <1>1, <2>1, <2>4, <2>8
<1>12. ASSUME NEW c \in Conns, NEW k \in Keys, Notify(c, k) PROVE \A d \in Conns : LocksOK(d)'
  <2>1. /\ k \in tell[c] /\ tell' = [tell EXCEPT ![c] = @ \ {k}]
        /\ UNCHANGED <<holder, pc, kind, need, todo, effects, dedup, watched>>
    BY <1>12 DEF Notify
  <2>2. pc[c] = "run"
    BY <1>0, <2>1 DEF LocksOK
  <2>3. tell'[c] \subseteq tell[c] /\ \A d \in Conns \ {c} : SameOp(d)
    BY <1>0, <2>1 DEF SameOp, Types
  <2>4. Claimed(c)' \subseteq Claimed(c)
    BY <2>1, <2>3 DEF Claimed, TodoKeys, EffectKeys
  <2>5. LocksOK(c)'
    <3>1. kind[c] = "barrier" => todo'[c] = << >> /\ effects'[c] = << >>
      BY <1>0, <2>1 DEF LocksOK
    <3>2. QED
      BY <1>0, <2>1, <2>2, <2>4, <3>1, ClaimsShrink
  <2>6. QED
    BY <1>1, <2>1, <2>3, <2>5
<1>13. ASSUME NEW c \in Conns, Finish(c) PROVE \A d \in Conns : LocksOK(d)'
  <2>1. /\ pc[c] = "run" /\ effects[c] = << >> /\ tell[c] = {} /\ Release(c)
        /\ UNCHANGED <<need, effects, tell>>
    BY <1>13 DEF Finish
  <2>2. need[c] = {}
    BY <1>0, <2>1 DEF LocksOK
  <2>3. \A d \in Conns \ {c} : watched'[d] = watched[d]
    <3>1. watched' = [watched EXCEPT ![c] = {}] \/ watched' = watched
      BY <1>13 DEF Finish, Unregister
    <3>2. watched \in [Conns -> SUBSET Keys]
      BY <1>0 DEF Types
    <3>3. QED
      BY <3>1, <3>2
  <2>4. Resting(c)' /\ \A d \in Conns \ {c} : SameOp(d)
    BY <1>0, <2>1, <2>2, <2>3, Released
  <2>5. LocksOK(c)'
    BY <2>4 DEF Resting, LocksOK
  <2>6. QED
    BY <1>1, <2>3, <2>4, <2>5
<1>14. ASSUME UNCHANGED vars PROVE \A d \in Conns : LocksOK(d)'
  <2>1. \A d \in Conns : SameOp(d) /\ watched'[d] = watched[d]
    BY <1>14 DEF SameOp, vars
  <2>2. QED
    BY <1>0, <2>1, OtherOp
<1>15. QED
  BY <1>3, <1>4, <1>5, <1>6, <1>7, <1>8, <1>9, <1>10, <1>11, <1>12, <1>13, <1>14
     DEF Next, Client, Server

\* Initially every connection rests.
LEMMA LockInit == Init => LockInv
<1> SUFFICES ASSUME Init PROVE LockInv
  OBVIOUS
<1>1. Free \notin Conns
  BY WriteOrderAssumption DEF Free
<1>2. \A c \in Conns : Resting(c)
  BY <1>1 DEF Init, Resting
<1>3. QED
  BY <1>2, TypesInit, RestingIsOK DEF LockInv

\* An operation under way has its locks, or waits for them, in every state.
LEMMA LockAlways == Spec => []LockInv
<1>1. LockInv /\ [Next]_vars => LockInv'
  BY LockStep
<1>2. QED
  BY LockInit, <1>1, PTL DEF Spec

\* A lock that two operations have both taken does not exist.
LEMMA Exclusive ==
    ASSUME LockInv, NEW c \in Conns, NEW d \in Conns, NEW l \in Claimed(c) \cap Claimed(d),
           pc[c] \in {"lock", "run"}, need[c] = {}, pc[d] \in {"lock", "run"}, need[d] = {}
    PROVE  c = d
BY DEF LockInv, LocksOK

\* What the operation of c touches is under its claims.
LEMMA ClaimsCover ==
    ASSUME Types, NEW c \in Conns,
           NEW k \in TodoKeys(c) \cup EffectKeys(c) \cup tell[c], k \in Keys
    PROVE  StripeOf[k] \in Claimed(c)
BY WriteOrderAssumption DEF Claimed, AllStripes

-----------------------------------------------------------------------------
(* Deduplication *)

\* A step that leaves marks and counts alone and takes up no old id.
LEMMA MarksStay ==
    ASSUME DedupInv, UNCHANGED <<hwm, runs>>,
           \A d \in Conns : pc'[d] \in {"lock", "run"} /\ dedup'[d] # NoId =>
             \/ pc[d] \in {"lock", "run"} /\ dedup[d] = dedup'[d]
             \/ dedup'[d] > hwm
    PROVE  DedupInv'
BY DEF DedupInv

\* An id is looked up and counted under dedup_order, so no other is in between.
LEMMA DedupStep ==
    ASSUME LockInv, DedupInv, [Next]_vars
    PROVE  DedupInv'
<1>0. Types /\ \A d \in Conns : LocksOK(d)
  BY DEF LockInv
<1>1. ASSUME NEW c \in Conns, NEW what, NEW locks, NEW commands, NEW id,
             Start(c, what, locks, commands, id)
      PROVE  DedupInv'
  <2>1. /\ pc' = [pc EXCEPT ![c] = IF id = NoId THEN "lock" ELSE "dedup"]
        /\ dedup' = [dedup EXCEPT ![c] = id] /\ UNCHANGED <<hwm, runs>>
    BY <1>1 DEF Start
  <2>2. ASSUME NEW d \in Conns, pc'[d] \in {"lock", "run"}, dedup'[d] # NoId
        PROVE  pc[d] \in {"lock", "run"} /\ dedup[d] = dedup'[d]
    BY <1>0, <2>1, <2>2 DEF Types
  <2>3. QED
    BY <2>1, <2>2, MarksStay
<1>2. ASSUME NEW c \in Conns, Dedup(c) PROVE DedupInv'
  <2>1. CASE dedup[c] <= hwm
    <3>1. pc' = [pc EXCEPT ![c] = "idle"] /\ dedup' = [dedup EXCEPT ![c] = NoId]
          /\ UNCHANGED <<hwm, runs>>
      BY <1>2, <2>1 DEF Dedup
    <3>2. ASSUME NEW d \in Conns, pc'[d] \in {"lock", "run"}, dedup'[d] # NoId
          PROVE  pc[d] \in {"lock", "run"} /\ dedup[d] = dedup'[d]
      BY <1>0, <3>1, <3>2 DEF Types
    <3>3. QED
      BY <3>1, <3>2, MarksStay
  <2>2. CASE ~ (dedup[c] <= hwm)
    <3>1. pc' = [pc EXCEPT ![c] = "lock"] /\ UNCHANGED <<dedup, hwm, runs>>
      BY <1>2, <2>2 DEF Dedup
    <3>2. dedup[c] \in Nat /\ hwm \in Nat
      BY <1>0, WriteOrderAssumption DEF Types
    <3>3. ASSUME NEW d \in Conns, pc'[d] \in {"lock", "run"}, dedup'[d] # NoId
          PROVE  (pc[d] \in {"lock", "run"} /\ dedup[d] = dedup'[d]) \/ dedup'[d] > hwm
      BY <1>0, <2>2, <3>1, <3>2, <3>3 DEF Types
    <3>4. QED
      BY <3>1, <3>3, MarksStay
  <2>3. QED
    BY <2>1, <2>2
<1>3. ASSUME NEW c \in Conns, Locked(c) PROVE DedupInv'
  <2>1. pc[c] = "lock" /\ UNCHANGED <<hwm, runs>>
    BY <1>3 DEF Locked
  <2>2. \/ pc' = [pc EXCEPT ![c] = "idle"] /\ dedup' = [dedup EXCEPT ![c] = NoId]
        \/ pc' = [pc EXCEPT ![c] = "run"] /\ dedup' = dedup
    BY <1>3 DEF Locked, Release
  <2>3. pc \in [Conns -> {"idle", "dedup", "lock", "run"}] /\ dedup \in [Conns -> 0..MaxIds]
    BY <1>0 DEF Types
  <2>4. ASSUME NEW d \in Conns, pc'[d] \in {"lock", "run"}, dedup'[d] # NoId
        PROVE  pc[d] \in {"lock", "run"} /\ dedup[d] = dedup'[d]
    BY <2>1, <2>2, <2>3, <2>4
  <2>5. QED
    BY <2>1, <2>4, MarksStay
<1>4. ASSUME NEW c \in Conns, Finish(c) PROVE DedupInv'
  <2>1. /\ pc[c] = "run" /\ pc' = [pc EXCEPT ![c] = "idle"]
        /\ dedup' = [dedup EXCEPT ![c] = NoId]
    BY <1>4 DEF Finish, Release
  <2>2. /\ pc \in [Conns -> {"idle", "dedup", "lock", "run"}] /\ dedup \in [Conns -> 0..MaxIds]
        /\ runs \in [1..MaxIds -> Nat] /\ hwm \in Nat
    BY <1>0 DEF Types
  <2>3. ASSUME NEW d \in Conns, pc'[d] \in {"lock", "run"}, dedup'[d] # NoId
        PROVE  pc[d] \in {"lock", "run"} /\ dedup[d] = dedup'[d] /\ d # c
    BY <2>1, <2>2, <2>3
  <2>4. CASE dedup[c] = NoId \/ failed[c]
    <3>1. UNCHANGED <<hwm, runs>>
      BY <1>4, <2>4 DEF Finish
    <3>2. QED
      BY <2>3, <3>1, MarksStay
  <2>5. CASE dedup[c] # NoId /\ ~ failed[c]
    <3>1. hwm' = Max({hwm, dedup[c]}) /\ runs' = [runs EXCEPT ![dedup[c]] = @ + 1]
      BY <1>4, <2>5 DEF Finish
    <3>2. dedup[c] \in 1..MaxIds /\ dedup[c] \in Nat /\ dedup[c] > hwm
      BY <2>1, <2>2, <2>5, WriteOrderAssumption DEF DedupInv, NoId
    <3>3. hwm' = dedup[c]
      BY <2>2, <3>1, <3>2, MaxOfTwo
    <3>4. holder[DedupOrder] = c
      BY <1>0, <2>1, <2>5 DEF LocksOK
    <3>5. \A d \in Conns : ~ (pc'[d] \in {"lock", "run"} /\ dedup'[d] # NoId)
      <4>1. SUFFICES ASSUME NEW d \in Conns, pc'[d] \in {"lock", "run"}, dedup'[d] # NoId
                     PROVE  FALSE
        OBVIOUS
      <4>2. pc[d] \in {"lock", "run"} /\ dedup[d] # NoId /\ d # c
        BY <2>3, <4>1
      <4>3. holder[DedupOrder] = d
        BY <1>0, <4>2 DEF LocksOK
      <4>4. QED
        BY <3>4, <4>2, <4>3
    <3>6. ASSUME NEW i \in 1..MaxIds PROVE runs'[i] <= 1 /\ (i > hwm' => runs'[i] = 0)
      <4>1. runs[i] \in Nat /\ runs[i] <= 1 /\ (i > hwm => runs[i] = 0) /\ i \in Nat
        BY <2>2, WriteOrderAssumption DEF DedupInv
      <4>2. CASE i = dedup[c]
        BY <2>2, <3>1, <3>2, <3>3, <4>1, <4>2
      <4>3. CASE i # dedup[c]
        BY <2>2, <3>1, <3>2, <3>3, <4>1, <4>3
      <4>4. QED
        BY <4>2, <4>3
    <3>7. QED
      BY <3>5, <3>6 DEF DedupInv
  <2>6. QED
    BY <2>4, <2>5
<1>5. ASSUME UNCHANGED <<hwm, runs, pc, dedup>> PROVE DedupInv'
  BY <1>5 DEF DedupInv
<1>6. ASSUME NEW c \in Conns, Client(c) PROVE DedupInv'
  <2>1. CASE \E cmd \in Commands, id \in 0..MaxIds : BeginWrite(c, cmd, id)
    BY <1>1, <2>1 DEF BeginWrite
  <2>2. CASE BeginExec(c) \/ BeginBarrier(c)
    BY <1>1, <2>2 DEF BeginExec, BeginBarrier
  <2>3. QED
    BY <1>5, <1>6, <2>1, <2>2 DEF Client, Watch, Unwatch, Receive, Multi, Enqueue, Discard, Close
<1>7. ASSUME NEW c \in Conns, Server(c) PROVE DedupInv'
  BY <1>2, <1>3, <1>4, <1>5, <1>7 DEF Server, Lock, Execute, LogEffect, Notify
<1>8. QED
  BY <1>5, <1>6, <1>7 DEF Next, vars

\* However many connections send the write of one dedup id, and however they
\* interleave, execute_ordered_write lets it take effect once.
THEOREM DedupOnceAlways == Spec => []DedupOnce
<1>1. Init => DedupInv
  <2> SUFFICES ASSUME Init PROVE DedupInv
    OBVIOUS
  <2>1. \A i \in 1..MaxIds : runs[i] = 0
    BY DEF Init
  <2>2. \A c \in Conns : pc[c] = "idle"
    BY DEF Init
  <2>3. QED
    BY <2>1, <2>2 DEF DedupInv
<1>2. LockInv /\ DedupInv /\ [Next]_vars => DedupInv'
  BY DedupStep
<1>3. DedupInv => DedupOnce
  BY DEF DedupInv, DedupOnce
<1>4. QED
  BY LockAlways, <1>1, <1>2, <1>3, PTL DEF Spec

-----------------------------------------------------------------------------
(* Isolation *)

\* A step changes no key under the locks of another operation that runs.
LEMMA OthersKeys ==
    ASSUME LockInv, NEW c \in Conns, NEW d \in Conns, c # d, Execute(d),
           pc[c] = "run" \/ (pc[c] = "lock" /\ need[c] = {}),
           NEW k \in Keys, StripeOf[k] \in Claimed(c)
    PROVE  store'[k] = store[k]
<1>0. Types /\ \A b \in Conns : LocksOK(b)
  BY DEF LockInv
<1>1. pc[d] = "run" /\ need[d] = {} /\ need[c] = {} /\ pc[c] \in {"lock", "run"}
  BY <1>0 DEF Execute, LocksOK
<1>2. StripeOf[k] \notin Claimed(d)
  BY <1>1, Exclusive
<1>3. ~ Capped
  BY <1>2, WriteOrderAssumption DEF Claimed, AllStripes
<1>4. store' = Apply(store, Head(todo[d]), written + 1)
  BY <1>0, <1>3, UncappedEffects
<1>5. todo[d] \in Seq(Commands) /\ todo[d] # << >> /\ written + 1 \in Nat
      /\ store \in [Keys -> Values]
  BY <1>0 DEF Execute, Types
<1>6. Head(todo[d]) \in Range(todo[d]) /\ Head(todo[d]) \in Loggable
  BY <1>5, HeadTailRange DEF Loggable
<1>7. k \notin WriteKeys(Head(todo[d]))
  <2>1. SUFFICES ASSUME k \in WriteKeys(Head(todo[d])) PROVE FALSE
    OBVIOUS
  <2>2. k \in TodoKeys(d)
    BY <1>6, <2>1 DEF TodoKeys, OrderingKeys
  <2>3. QED
    BY <1>0, <1>2, <2>2, ClaimsCover
<1>8. QED
  BY <1>4, <1>5, <1>6, <1>7, ApplyProperties

\* From the check of its watch to its end, no other connection changes a key a
\* transaction watches or still has to write, with and without limits of the store.
THEOREM TransactionsIsolated == Spec => Isolated
<1>1. LockInv /\ [Next]_vars =>
        [\A c, d \in Conns :
          (c # d /\ kind[c] = "exec" /\ pc[c] = "run" /\ todo'[d] # todo[d] /\ pc[d] = "run") =>
              \A k \in watched[c] \cup UNION {OrderingKeys(cmd) : cmd \in Range(todo[c])} :
                  store'[k] = store[k]]_vars
  <2> SUFFICES ASSUME LockInv, Next, NEW c \in Conns, NEW d \in Conns,
                      c # d, kind[c] = "exec", pc[c] = "run", todo'[d] # todo[d], pc[d] = "run",
                      NEW k \in watched[c] \cup TodoKeys(c)
               PROVE  store'[k] = store[k]
    BY DEF TodoKeys
  <2>1. Types
    BY DEF LockInv
  <2>2. k \in Keys
    <3>1. Range(todo[c]) \subseteq Commands
      BY <2>1, RangeIsFinite DEF Types
    <3>2. QED
      BY <2>1, <3>1, CommandFields DEF TodoKeys, Loggable, Types
  <2>3. StripeOf[k] \in Claimed(c)
    <3>1. CASE k \in TodoKeys(c)
      BY <2>1, <2>2, <3>1, ClaimsCover
    <3>2. CASE k \in watched[c]
      BY <2>2, <3>2, WriteOrderAssumption DEF Claimed, AllStripes
    <3>3. QED
      BY <3>1, <3>2
  <2>4. CASE Execute(d)
    BY <2>2, <2>3, <2>4, OthersKeys
  <2>5. CASE ~ Execute(d)
    <3>1. PICK b \in Conns : Client(b) \/ Server(b)
      BY DEF Next
    <3>2. CASE Execute(b)
      <4>1. b # d
        BY <2>5, <3>2
      <4>2. QED
        BY <2>1, <3>2, <4>1 DEF Execute, Types
    <3>3. CASE ~ Execute(b)
      BY <3>1, <3>3
         DEF Client, Server, Watch, Unwatch, Receive, Multi, Enqueue, Discard, Close,
             BeginWrite, BeginExec, BeginBarrier, Start, Dedup, Lock, Locked, LogEffect, Notify,
             Finish
    <3>4. QED
      BY <3>2, <3>3
  <2>6. QED
    BY <2>4, <2>5
<1>2. QED
  BY LockAlways, <1>1, PTL DEF Spec, Isolated

-----------------------------------------------------------------------------
(* The log of a store without limits *)

\* An effect still to be logged belongs to an operation that runs and is under its claims.
LEMMA EffectsClaimed ==
    ASSUME LockInv, NEW d \in Conns, NEW e \in Range(effects[d])
    PROVE  /\ e.cmd \in Loggable /\ e.id \in Nat
           /\ WriteKeys(e.cmd) \subseteq OrderingKeys(e.cmd) /\ OrderingKeys(e.cmd) \subseteq Keys
           /\ \A k \in OrderingKeys(e.cmd) : StripeOf[k] \in Claimed(d)
           /\ pc[d] = "run" /\ need[d] = {}
<1>0. Types /\ LocksOK(d)
  BY DEF LockInv
<1>1. effects[d] \in Seq(Effects)
  BY <1>0 DEF Types
<1>2. e \in Effects
  BY <1>1, RangeIsFinite
<1>3. e.cmd \in Loggable /\ e.id \in Nat
  BY <1>2 DEF Effects, Loggable
<1>4. WriteKeys(e.cmd) \subseteq OrderingKeys(e.cmd) /\ OrderingKeys(e.cmd) \subseteq Keys
  BY <1>3, CommandFields
<1>5. OrderingKeys(e.cmd) \subseteq EffectKeys(d)
  BY DEF EffectKeys
<1>6. \A k \in OrderingKeys(e.cmd) : StripeOf[k] \in Claimed(d)
  BY <1>0, <1>4, <1>5, ClaimsCover
<1>7. effects[d] # << >>
  BY DEF Range
<1>8. pc[d] = "run" /\ need[d] = {}
  BY <1>0, <1>7 DEF LocksOK
<1>9. QED
  BY <1>3, <1>4, <1>6, <1>8

\* Executing a command under its stripes.
LEMMA ExecuteKeepsLog ==
    ASSUME ~ Capped, LockInv, LogInv, NEW c \in Conns, Execute(c)
    PROVE  LogInv'
<1> DEFINE cmd == Head(todo[c])
           id == written + 1
<1>0. Types /\ LocksOK(c)
  BY DEF LockInv
<1>1. /\ pc[c] = "run" /\ need[c] = {} /\ effects[c] = << >> /\ replayed' = replayed
      /\ \A d \in Conns \ {c} : effects'[d] = effects[d]
  BY <1>0 DEF Execute, LocksOK, Types
<1>2. todo[c] \in Seq(Commands) /\ todo[c] # << >> /\ id \in Nat
      /\ store \in [Keys -> Values] /\ replayed \in [Keys -> Values]
  BY <1>0 DEF Execute, Types
<1>3. cmd \in Range(todo[c]) /\ cmd \in Loggable
  BY <1>2, HeadTailRange DEF Loggable
<1>4. /\ Range(effects'[c]) \subseteq {[cmd |-> cmd, id |-> id]}
      /\ Len(effects'[c]) <= 1
      /\ store' = Apply(store, cmd, id)
      /\ Range(effects'[c]) = {} => store' = store
  BY <1>0, UncappedEffects
<1> HIDE DEF cmd, id
<1>5. WriteKeys(cmd) \subseteq OrderingKeys(cmd) /\ OrderingKeys(cmd) \subseteq Keys
  BY <1>3, CommandFields
<1>6. \A k \in OrderingKeys(cmd) : StripeOf[k] \in Claimed(c)
  <2>1. OrderingKeys(cmd) \subseteq TodoKeys(c)
    BY <1>3 DEF TodoKeys
  <2>2. QED
    BY <1>0, <1>5, <2>1, ClaimsCover
<1>7. ASSUME NEW d \in Conns, NEW e \in Range(effects[d])
      PROVE  d # c /\ OrderingKeys(e.cmd) \cap OrderingKeys(cmd) = {}
  <2>1. Range(effects[c]) = {}
    BY <1>1 DEF Range
  <2>2. d # c
    BY <1>7, <2>1
  <2>3. QED
    BY <1>1, <1>6, <1>7, <2>2, EffectsClaimed, Exclusive
<1>8. \A k \in OrderingKeys(cmd) : replayed[k] = store[k]
  BY <1>5, <1>7, EffectsClaimed DEF LogInv
<1>9. \A k \in WriteKeys(cmd) : store'[k] = Apply(replayed, cmd, id)[k]
  BY <1>2, <1>3, <1>4, <1>8, ApplyIsLocal
<1>10. \A k \in Keys : k \notin WriteKeys(cmd) => store'[k] = store[k]
  BY <1>2, <1>3, <1>4, ApplyProperties
<1>11. \A d \in Conns : Len(effects'[d]) <= 1
  BY <1>1, <1>4 DEF LogInv
<1>12. ASSUME NEW k \in Keys, \A d \in Conns : \A e \in Range(effects'[d]) : k \notin WriteKeys(e.cmd)
       PROVE  replayed'[k] = store'[k]
  <2>1. \A d \in Conns : \A e \in Range(effects[d]) : k \notin WriteKeys(e.cmd)
    BY <1>1, <1>7, <1>12
  <2>2. replayed[k] = store[k]
    BY <2>1 DEF LogInv
  <2>3. store'[k] = store[k]
    <3>1. CASE Range(effects'[c]) = {}
      BY <1>4, <3>1
    <3>2. CASE Range(effects'[c]) # {}
      <4>1. PICK e \in Range(effects'[c]) : e = [cmd |-> cmd, id |-> id]
        BY <1>4, <3>2
      <4>2. k \notin WriteKeys(cmd)
        BY <1>12, <4>1
      <4>3. QED
        BY <1>10, <4>2
    <3>3. QED
      BY <3>1, <3>2
  <2>4. QED
    BY <1>1, <2>2, <2>3
<1>13. ASSUME NEW d \in Conns, NEW e \in Range(effects'[d]), NEW k \in WriteKeys(e.cmd)
       PROVE  store'[k] = Apply(replayed', e.cmd, e.id)[k]
  <2>1. CASE d = c
    <3>1. e = [cmd |-> cmd, id |-> id]
      BY <1>4, <1>13, <2>1
    <3>2. QED
      BY <1>1, <1>9, <1>13, <3>1
  <2>2. CASE d # c
    <3>1. e \in Range(effects[d])
      BY <1>1, <1>13, <2>2
    <3>2. k \in OrderingKeys(e.cmd) /\ k \in Keys
      BY <1>13, <3>1, EffectsClaimed
    <3>3. k \notin WriteKeys(cmd)
      BY <1>5, <1>7, <3>1, <3>2
    <3>4. store'[k] = store[k]
      BY <1>10, <3>2, <3>3
    <3>5. QED
      BY <1>1, <1>13, <3>1, <3>4 DEF LogInv
  <2>3. QED
    BY <2>1, <2>2
<1>14. QED
  BY <1>11, <1>12, <1>13 DEF LogInv

\* Logging an effect under the stripes of its command.
LEMMA LogEffectKeepsLog ==
    ASSUME LockInv, LogInv, NEW c \in Conns, LogEffect(c)
    PROVE  LogInv'
<1> DEFINE f == Head(effects[c])
<1>0. Types /\ LocksOK(c)
  BY DEF LockInv
<1>1. /\ effects[c] # << >> /\ store' = store /\ replayed' = Apply(replayed, f.cmd, f.id)
      /\ effects' = [effects EXCEPT ![c] = Tail(@)]
  BY DEF LogEffect
<1>2. effects[c] \in Seq(Effects) /\ replayed \in [Keys -> Values] /\ Len(effects[c]) <= 1
  BY <1>0 DEF Types, LogInv
<1>3. /\ f \in Range(effects[c]) /\ Tail(effects[c]) = << >>
      /\ Range(effects[c]) = {f} \cup Range(Tail(effects[c]))
  <2>1. Tail(effects[c]) \in Seq(Effects) /\ Len(Tail(effects[c])) = Len(effects[c]) - 1
    BY <1>1, <1>2, HeadTailRange
  <2>2. Tail(effects[c]) = << >>
    BY <1>1, <1>2, <2>1
  <2>3. QED
    BY <1>1, <1>2, <2>2, HeadTailRange
<1>4. /\ effects'[c] = << >> /\ Range(effects'[c]) = {} /\ Range(effects[c]) = {f}
      /\ \A d \in Conns \ {c} : effects'[d] = effects[d]
  <2>1. effects \in [Conns -> Seq(Effects)] /\ Range(<< >>) = {}
    BY <1>0 DEF Types, Range
  <2>2. QED
    BY <1>1, <1>3, <2>1
<1> HIDE DEF f
<1>5. /\ f.cmd \in Loggable /\ f.id \in Nat /\ pc[c] = "run" /\ need[c] = {}
      /\ WriteKeys(f.cmd) \subseteq OrderingKeys(f.cmd) /\ OrderingKeys(f.cmd) \subseteq Keys
      /\ \A k \in OrderingKeys(f.cmd) : StripeOf[k] \in Claimed(c)
  BY <1>3, EffectsClaimed
<1>6. ASSUME NEW d \in Conns \ {c}, NEW e \in Range(effects[d])
      PROVE  OrderingKeys(e.cmd) \cap OrderingKeys(f.cmd) = {}
  BY <1>5, <1>6, EffectsClaimed, Exclusive
<1>7. /\ replayed' \in [Keys -> Values]
      /\ \A k \in Keys : k \notin WriteKeys(f.cmd) => replayed'[k] = replayed[k]
  BY <1>1, <1>2, <1>5, ApplyProperties
<1>8. \A d \in Conns : Len(effects'[d]) <= 1
  <2>1. Len(<< >>) = 0
    OBVIOUS
  <2>2. QED
    BY <1>4, <2>1 DEF LogInv
<1>9. ASSUME NEW k \in Keys, \A d \in Conns : \A e \in Range(effects'[d]) : k \notin WriteKeys(e.cmd)
      PROVE  replayed'[k] = store'[k]
  <2>1. CASE k \in WriteKeys(f.cmd)
    BY <1>1, <1>3, <2>1 DEF LogInv
  <2>2. CASE k \notin WriteKeys(f.cmd)
    <3>1. \A d \in Conns : \A e \in Range(effects[d]) : k \notin WriteKeys(e.cmd)
      BY <1>4, <1>9, <2>2
    <3>2. replayed[k] = store[k]
      BY <3>1 DEF LogInv
    <3>3. QED
      BY <1>1, <1>7, <2>2, <3>2
  <2>3. QED
    BY <2>1, <2>2
<1>10. ASSUME NEW d \in Conns, NEW e \in Range(effects'[d]), NEW k \in WriteKeys(e.cmd)
       PROVE  store'[k] = Apply(replayed', e.cmd, e.id)[k]
  <2>1. d # c
    BY <1>4, <1>10
  <2>2. e \in Range(effects[d])
    BY <1>4, <1>10, <2>1
  <2>3. e.cmd \in Loggable /\ e.id \in Nat /\ OrderingKeys(e.cmd) \subseteq Keys
    BY <2>2, EffectsClaimed
  <2>4. \A j \in OrderingKeys(e.cmd) : replayed[j] = replayed'[j]
    BY <1>5, <1>6, <1>7, <2>1, <2>2, <2>3
  <2>5. Apply(replayed, e.cmd, e.id)[k] = Apply(replayed', e.cmd, e.id)[k]
    BY <1>2, <1>7, <1>10, <2>3, <2>4, ApplyIsLocal
  <2>6. store[k] = Apply(replayed, e.cmd, e.id)[k]
    BY <1>10, <2>2 DEF LogInv
  <2>7. QED
    BY <1>1, <2>5, <2>6
<1>11. QED
  BY <1>8, <1>9, <1>10 DEF LogInv

\* The log and the effects still to be logged make the keyspace, in every state.
LEMMA LogAlways == ~ Capped => (Spec => [](LockInv /\ LogInv))
<1> SUFFICES ASSUME ~ Capped PROVE Spec => [](LockInv /\ LogInv)
  OBVIOUS
<1>1. Init => LogInv
  <2> SUFFICES ASSUME Init PROVE LogInv
    OBVIOUS
  <2>1. Range(<< >>) = {} /\ Len(<< >>) = 0
    BY DEF Range
  <2>2. QED
    BY <2>1 DEF Init, LogInv
<1>2. LockInv /\ LogInv /\ [Next]_vars => LogInv'
  <2> SUFFICES ASSUME LockInv, LogInv, [Next]_vars PROVE LogInv'
    OBVIOUS
  <2>1. ASSUME UNCHANGED <<store, replayed, effects>> PROVE LogInv'
    BY <2>1 DEF LogInv
  <2>2. ASSUME NEW c \in Conns, Client(c) PROVE UNCHANGED <<store, replayed, effects>>
    BY <2>2 DEF Client, Watch, Unwatch, Receive, Multi, Enqueue, Discard, Close, BeginWrite,
                BeginExec, BeginBarrier, Start
  <2>3. ASSUME NEW c \in Conns, Server(c) PROVE LogInv'
    BY <2>1, <2>3, ExecuteKeepsLog, LogEffectKeepsLog
       DEF Server, Dedup, Lock, Locked, Notify, Finish
  <2>4. QED
    BY <2>1, <2>2, <2>3 DEF Next, vars
<1>3. QED
  BY LockAlways, <1>1, <1>2, PTL DEF Spec

\* Whatever commands, transactions and barriers interleave on a store without limits, a
\* log that has caught up replays to the keyspace: the commit order is the log's order on
\* every key, the sources of *STORE commands included.
THEOREM LogReplaysAlways == ~ Capped => (Spec => []LogReplays)
<1> SUFFICES ASSUME ~ Capped PROVE Spec => []LogReplays
  OBVIOUS
<1>1. LockInv /\ LogInv => LogReplays
  <2> SUFFICES ASSUME LockInv, LogInv, \A c \in Conns : effects[c] = << >>
               PROVE  replayed = store
    BY DEF LogReplays
  <2>1. \A c \in Conns : Range(effects[c]) = {}
    BY DEF Range
  <2>2. \A k \in Keys : replayed[k] = store[k]
    BY <2>1 DEF LogInv
  <2>3. replayed \in [Keys -> Values] /\ store \in [Keys -> Values]
    BY DEF LockInv, Types
  <2>4. QED
    BY <2>2, <2>3
<1>2. QED
  BY LogAlways, <1>1, PTL

\* Behind lock_all_writes the log of a store without limits has caught up: what SAVE
\* truncates, QSUB answers and a replica is given is one exact boundary.
THEOREM BarrierExactAlways == ~ Capped => (Spec => []BarrierIsExact)
<1> SUFFICES ASSUME ~ Capped PROVE Spec => []BarrierIsExact
  OBVIOUS
<1>1. LockInv /\ LogInv => BarrierIsExact
  <2> SUFFICES ASSUME LockInv, LogInv, NEW c \in Conns, kind[c] = "barrier", pc[c] = "run"
               PROVE  replayed = store
    BY DEF BarrierIsExact
  <2>1. Claimed(c) = AllStripes /\ need[c] = {} /\ effects[c] = << >>
    BY DEF Claimed, LockInv, LocksOK
  <2>2. ASSUME NEW d \in Conns, NEW e \in Range(effects[d]), NEW k \in WriteKeys(e.cmd)
        PROVE  FALSE
    <3>1. /\ pc[d] = "run" /\ need[d] = {} /\ StripeOf[k] \in Claimed(d) /\ k \in Keys
      BY <2>2, EffectsClaimed
    <3>2. StripeOf[k] \in Claimed(c)
      BY <2>1, <3>1, WriteOrderAssumption DEF AllStripes
    <3>3. d = c
      BY <2>1, <3>1, <3>2, Exclusive
    <3>4. Range(effects[c]) = {}
      BY <2>1 DEF Range
    <3>5. QED
      BY <2>2, <3>3, <3>4
  <2>3. \A k \in Keys : replayed[k] = store[k]
    BY <2>2 DEF LogInv
  <2>4. replayed \in [Keys -> Values] /\ store \in [Keys -> Values]
    BY DEF LockInv, Types
  <2>5. QED
    BY <2>3, <2>4
<1>2. QED
  BY LogAlways, <1>1, PTL

-----------------------------------------------------------------------------
(* WATCH *)

\* A connection with nothing queued uses none of its budget.
LEMMA NothingPending ==
    ASSUME NEW c \in Conns, notifs[c] = << >>
    PROVE  Pending(c) = 0
<1> DEFINE S == DOMAIN notifs[c]
           size(i) == notifs[c][i]
           sum[s \in SUBSET S] ==
               IF s = {} THEN 0
               ELSE LET x == CHOOSE x \in s : TRUE IN size(x) + sum[s \ {x}]
           step(g) == [s \in SUBSET S |->
               IF s = {} THEN 0
               ELSE LET x == CHOOSE x \in s : TRUE IN size(x) + g[s \ {x}]]
           zero == [s \in SUBSET S |-> 0]
<1>1. S = {}
  OBVIOUS
<1>2. Pending(c) = sum[S]
  BY DEF Pending, MapThenSumSet, MapThenFoldSet
<1>3. sum = CHOOSE g : g = step(g)
  BY DEF sum, step
<1>4. zero = step(zero)
  BY <1>1
<1>5. sum = step(sum)
  BY <1>3, <1>4
<1>6. sum[S] = 0
  BY <1>1, <1>5
<1>7. QED
  BY <1>2, <1>6

\* A value within the budget always fits an empty queue.
LEMMA EmptyQueueFits ==
    ASSUME NEW c \in Conns, notifs[c] = << >>, NEW size \in Nat, size <= NotifBytes
    PROVE  Fits(c, size)
<1>1. Len(notifs[c]) = 0
  OBVIOUS
<1>2. QED
  BY <1>1, NothingPending, WriteOrderAssumption DEF Fits

\* The step forgets nothing that the watch of c rests on.
Keeps(c) ==
    /\ stale'[c] \subseteq stale[c] \cap watched'[c]
    /\ \A k \in watched'[c] : k \in watched[c] /\ c \in registry[k] => c \in registry'[k]
    /\ \A k \in watched'[c] : k \notin watched[c] => c \in registry'[k]
    /\ Noticed(c) => Noticed(c)' \/ watched'[c] = {}

\* A watch whose state a step keeps stays good.
LEMMA WatchKept ==
    ASSUME NEW c \in Conns, WatchOK(c), Keeps(c),
           \A d \in Conns : ToTell(d) \subseteq ToTell(d)'
    PROVE  WatchOK(c)'
BY DEF WatchOK, Keeps

\* A step that leaves the watches alone keeps them.
LEMMA SameWatch ==
    ASSUME NEW c \in Conns, UNCHANGED watchVars, WatchOK(c)
    PROVE  Keeps(c)
BY DEF Keeps, WatchOK, Noticed

\* Forgetting the watch of one connection keeps the others'.
LEMMA Forgets ==
    ASSUME Types, \A d \in Conns : WatchOK(d), NEW c \in Conns, Unregister(c)
    PROVE  \A d \in Conns : Keeps(d)
<1>1. /\ \A d \in Conns \ {c} : /\ watched'[d] = watched[d] /\ notifs'[d] = notifs[d]
                                /\ dirty'[d] = dirty[d] /\ stale'[d] = stale[d]
      /\ watched'[c] = {} /\ stale'[c] = {}
  BY DEF Unregister, Types
<1>2. \A k \in Keys : \A d \in Conns \ {c} : d \in registry'[k] <=> d \in registry[k]
  BY DEF Unregister
<1>3. \A d \in Conns : watched[d] \subseteq Keys
  BY DEF Types
<1>4. QED
  BY <1>1, <1>2, <1>3 DEF Keeps, WatchOK, Noticed

\* WATCH, UNWATCH, the arrival of a notification and the steps of MULTI keep all watches.
LEMMA ClientKeeps ==
    ASSUME Types, \A d \in Conns : WatchOK(d), NEW c \in Conns, Client(c)
    PROVE  \A d \in Conns : Keeps(d)
<1>0. \A d \in Conns : watched[d] \subseteq Keys
  BY DEF Types
<1>1. ASSUME NEW k \in Keys, Watch(c, k) PROVE \A d \in Conns : Keeps(d)
  <2>1. /\ watched' = [watched EXCEPT ![c] = @ \cup {k}]
        /\ registry' = [registry EXCEPT ![k] = @ \cup {c}]
        /\ UNCHANGED <<stale, notifs, dirty>>
    BY <1>1 DEF Watch
  <2>2. /\ watched'[c] = watched[c] \cup {k} /\ \A d \in Conns \ {c} : watched'[d] = watched[d]
        /\ c \in registry'[k] /\ \A j \in Keys : registry[j] \subseteq registry'[j]
    BY <2>1 DEF Types
  <2>3. QED
    BY <1>0, <2>1, <2>2 DEF Keeps, WatchOK, Noticed
<1>2. ASSUME NEW k \in Keys, Unwatch(c, k) PROVE \A d \in Conns : Keeps(d)
  <2>1. /\ watched' = [watched EXCEPT ![c] = @ \ {k}]
        /\ registry' = [registry EXCEPT ![k] = @ \ {c}]
        /\ stale' = [stale EXCEPT ![c] = @ \ {k}]
    BY <1>2 DEF Unwatch
  <2>2. \/ watched'[c] = {} /\ notifs' = [notifs EXCEPT ![c] = << >>]
           /\ dirty' = [dirty EXCEPT ![c] = FALSE]
        \/ UNCHANGED <<notifs, dirty>>
    BY <1>2 DEF Unwatch
  <2>3. /\ watched'[c] = watched[c] \ {k} /\ stale'[c] = stale[c] \ {k}
        /\ \A d \in Conns \ {c} : watched'[d] = watched[d] /\ stale'[d] = stale[d]
        /\ \A j \in Keys : \A d \in Conns : j # k \/ d # c => (d \in registry'[j] <=> d \in registry[j])
    BY <2>1 DEF Types
  <2>4. \A d \in Conns : Noticed(d) => Noticed(d)' \/ watched'[d] = {}
    <3>1. notifs \in [Conns -> Seq(Nat)] /\ dirty \in [Conns -> BOOLEAN]
      BY DEF Types
    <3>2. CASE UNCHANGED <<notifs, dirty>>
      BY <3>2 DEF Noticed
    <3>3. CASE watched'[c] = {} /\ notifs' = [notifs EXCEPT ![c] = << >>]
               /\ dirty' = [dirty EXCEPT ![c] = FALSE]
      BY <3>1, <3>3 DEF Noticed
    <3>4. QED
      BY <2>2, <3>2, <3>3
  <2>5. QED
    BY <1>0, <2>3, <2>4 DEF Keeps, WatchOK
<1>3. ASSUME Receive(c) PROVE \A d \in Conns : Keeps(d)
  <2>1. /\ notifs' = [notifs EXCEPT ![c] = Tail(@)] /\ dirty' = [dirty EXCEPT ![c] = TRUE]
        /\ UNCHANGED <<registry, watched, stale>>
    BY <1>3 DEF Receive
  <2>2. \A d \in Conns : Noticed(d) => Noticed(d)'
    BY <2>1 DEF Noticed, Types
  <2>3. QED
    BY <2>1, <2>2 DEF Keeps, WatchOK
<1>4. ASSUME Discard(c) PROVE \A d \in Conns : Keeps(d)
  BY <1>4, Forgets DEF Discard
<1>5. ASSUME Close(c) PROVE \A d \in Conns : Keeps(d)
  <2>1. /\ \A d \in Conns \ {c} : /\ watched'[d] = watched[d] /\ notifs'[d] = notifs[d]
                                  /\ dirty'[d] = dirty[d] /\ stale'[d] = stale[d]
        /\ watched'[c] = {} /\ stale'[c] = {}
    BY <1>5 DEF Close, Types
  <2>2. \A k \in Keys : \A d \in Conns \ {c} : d \in registry'[k] <=> d \in registry[k]
    BY <1>5 DEF Close
  <2>3. QED
    BY <1>0, <2>1, <2>2 DEF Keeps, WatchOK, Noticed
<1>6. ASSUME UNCHANGED watchVars PROVE \A d \in Conns : Keeps(d)
  BY <1>6, SameWatch
<1>7. QED
  BY <1>1, <1>2, <1>3, <1>4, <1>5, <1>6
     DEF Client, Multi, Enqueue, BeginWrite, BeginExec, BeginBarrier

\* Executing a command: the keys it changes are among those whose watchers it has to tell.
LEMMA ExecuteTells ==
    ASSUME LockInv, NEW c \in Conns, Execute(c)
    PROVE  /\ \A k \in Keys : store'[k] # store[k] => k \in ToTell(c)'
           /\ \A d \in Conns : ToTell(d) \subseteq ToTell(d)'
           /\ \A k \in Keys : \/ store'[k].size \in {store[k].size, 1}
                              \/ \E cmd \in Commands : store'[k].size = cmd.size
<1> DEFINE cmd == Head(todo[c])
           id == written + 1
<1>0. Types
  BY DEF LockInv
<1>1. /\ todo[c] \in Seq(Commands) /\ todo[c] # << >> /\ written \in Nat /\ tell' = tell
      /\ effects[c] = << >> /\ effects \in [Conns -> Seq(Effects)] /\ store \in [Keys -> Values]
      /\ tell[c] = {}
  BY <1>0 DEF Types, Execute
<1>2. cmd \in Commands /\ id \in Nat
  BY <1>1
<1>3. PICK out \in Outcomes(store, cmd, id) :
           /\ store' = out.store
           /\ effects' = [effects EXCEPT ![c] =
                 (IF Propagates(cmd, out.err) THEN <<[cmd |-> cmd, id |-> id]>> ELSE << >>)
                   \o SetToSeq({[cmd |-> [op |-> "del", keys |-> {k}, src |-> {}, size |-> 1],
                                 id |-> id] : k \in out.evicted})]
  BY DEF Execute
<1> HIDE DEF cmd, id
<1>4. /\ out.evicted \subseteq Keys
      /\ \A k \in Keys : out.store[k] # store[k] =>
           k \in out.evicted \/ (k \in WriteKeys(cmd) /\ Propagates(cmd, out.err))
      /\ \A k \in Keys : out.store[k].size \in {store[k].size, 1, cmd.size}
  BY <1>1, <1>2, <1>3, OutcomeProperties
<1>5. Propagates(cmd, out.err) \in BOOLEAN
  BY DEF Propagates
<1>6. Range(effects'[c]) =
         (IF Propagates(cmd, out.err) THEN {[cmd |-> cmd, id |-> id]} ELSE {})
           \cup {[cmd |-> [op |-> "del", keys |-> {k}, src |-> {}, size |-> 1], id |-> id] :
                 k \in out.evicted}
  <2>1. effects'[c] =
           (IF Propagates(cmd, out.err) THEN <<[cmd |-> cmd, id |-> id]>> ELSE << >>)
             \o SetToSeq({[cmd |-> [op |-> "del", keys |-> {k}, src |-> {}, size |-> 1],
                           id |-> id] : k \in out.evicted})
    BY <1>1, <1>3
  <2>2. out.evicted \in SUBSET Keys
    BY <1>4
  <2>3. ASSUME NEW evicted \in SUBSET Keys, NEW p \in BOOLEAN
        PROVE  Range((IF p THEN <<[cmd |-> cmd, id |-> id]>> ELSE << >>)
                       \o SetToSeq({[cmd |-> [op |-> "del", keys |-> {k}, src |-> {}, size |-> 1],
                                     id |-> id] : k \in evicted})) =
                 (IF p THEN {[cmd |-> cmd, id |-> id]} ELSE {})
                   \cup {[cmd |-> [op |-> "del", keys |-> {k}, src |-> {}, size |-> 1],
                          id |-> id] : k \in evicted}
    BY <1>2, EffectsType
  <2>4. QED
    BY <1>5, <2>1, <2>2, <2>3, Zenon
<1>7. ASSUME NEW k \in Keys, store'[k] # store[k] PROVE k \in ToTell(c)'
  <2>1. CASE k \in out.evicted
    <3>1. [cmd |-> [op |-> "del", keys |-> {k}, src |-> {}, size |-> 1], id |-> id]
            \in Range(effects'[c])
      BY <1>6, <2>1
    <3>2. k \in WriteKeys([op |-> "del", keys |-> {k}, src |-> {}, size |-> 1])
      BY DEF WriteKeys
    <3>3. PICK e \in Range(effects'[c]) : k \in WriteKeys(e.cmd)
      BY <3>1, <3>2
    <3>4. QED
      BY <3>3 DEF ToTell
  <2>2. CASE k \in WriteKeys(cmd) /\ Propagates(cmd, out.err)
    <3>1. [cmd |-> cmd, id |-> id] \in Range(effects'[c])
      BY <1>6, <2>2
    <3>2. PICK e \in Range(effects'[c]) : k \in WriteKeys(e.cmd)
      BY <2>2, <3>1
    <3>3. QED
      BY <3>2 DEF ToTell
  <2>3. QED
    BY <1>3, <1>4, <1>7, <2>1, <2>2
<1>8. \A d \in Conns : ToTell(d) \subseteq ToTell(d)'
  <2>1. ToTell(c) = {}
    BY <1>1 DEF ToTell, Range
  <2>2. \A d \in Conns \ {c} : effects'[d] = effects[d]
    BY <1>1, <1>3
  <2>3. QED
    BY <1>1, <2>1, <2>2 DEF ToTell
<1>9. QED
  BY <1>2, <1>3, <1>4, <1>7, <1>8

\* Executing a command keeps the invariant of the watches.
LEMMA ExecuteKeepsWatch ==
    ASSUME \A cmd \in Commands : cmd.size <= NotifBytes, LockInv, WatchInv,
           NEW c \in Conns, Execute(c)
    PROVE  WatchInv'
<1>0. Types
  BY DEF LockInv
<1>1. /\ stale' = [d \in Conns |-> stale[d] \cup {k \in watched[d] : store'[k] # store[k]}]
      /\ UNCHANGED <<registry, watched, notifs, dirty>>
  BY DEF Execute
<1>2. /\ \A k \in Keys : store'[k] # store[k] => k \in ToTell(c)'
      /\ \A d \in Conns : ToTell(d) \subseteq ToTell(d)'
      /\ \A k \in Keys : \/ store'[k].size \in {store[k].size, 1}
                         \/ \E cmd \in Commands : store'[k].size = cmd.size
  BY ExecuteTells
<1>3. \A k \in Keys : store'[k].size <= NotifBytes
  <2>1. 1 <= NotifBytes
    BY WriteOrderAssumption
  <2>2. QED
    BY <1>2, <2>1 DEF WatchInv
<1>4. ASSUME NEW d \in Conns PROVE WatchOK(d)'
  <2>1. stale'[d] = stale[d] \cup {k \in watched[d] : store'[k] # store[k]}
    BY <1>1
  <2>2. watched[d] \subseteq Keys
    BY <1>0 DEF Types
  <2>3. WatchOK(d) /\ (Noticed(d)' <=> Noticed(d))
    BY <1>1 DEF WatchInv, Noticed
  <2>4. stale'[d] \subseteq watched'[d] /\ \A k \in watched'[d] : d \in registry'[k] \/ Noticed(d)'
    BY <1>1, <2>1, <2>3 DEF WatchOK
  <2>5. ASSUME NEW k \in stale'[d] PROVE Noticed(d)' \/ \E b \in Conns : k \in ToTell(b)'
    BY <1>2, <2>1, <2>2, <2>3, <2>5 DEF WatchOK
  <2>6. QED
    BY <2>4, <2>5 DEF WatchOK
<1>5. QED
  BY <1>3, <1>4 DEF WatchInv

\* Logging an effect hands its keys over to be told, unless nobody watches anything.
LEMMA LogEffectKeepsWatch ==
    ASSUME LockInv, WatchInv, NEW c \in Conns, LogEffect(c)
    PROVE  WatchInv'
<1> DEFINE f == Head(effects[c])
<1>0. Types
  BY DEF LockInv
<1>1. /\ effects[c] # << >> /\ effects[c] \in Seq(Effects) /\ tell[c] = {}
      /\ UNCHANGED <<store, watchVars>>
      /\ effects' = [effects EXCEPT ![c] = Tail(@)]
      /\ tell' = [tell EXCEPT ![c] =
                    IF \E k \in Keys : registry[k] # {} THEN WriteKeys(f.cmd) ELSE {}]
  BY <1>0 DEF LogEffect, Types
<1>2. /\ effects'[c] = Tail(effects[c])
      /\ Range(effects[c]) = {f} \cup Range(Tail(effects[c]))
      /\ \A d \in Conns \ {c} : effects'[d] = effects[d] /\ tell'[d] = tell[d]
      /\ tell'[c] = IF \E k \in Keys : registry[k] # {} THEN WriteKeys(f.cmd) ELSE {}
  BY <1>0, <1>1, HeadTailRange DEF Types
<1> HIDE DEF f
<1>3. \A d \in Conns : WatchOK(d) /\ watched[d] \subseteq Keys
  BY <1>0 DEF WatchInv, Types
<1>4. CASE \E k \in Keys : registry[k] # {}
  <2>1. ToTell(c) \subseteq ToTell(c)'
    <3>1. ToTell(c) = WriteKeys(f.cmd) \cup UNION {WriteKeys(e.cmd) : e \in Range(effects'[c])}
      BY <1>1, <1>2 DEF ToTell
    <3>2. QED
      BY <1>2, <1>4, <3>1 DEF ToTell
  <2>2. \A d \in Conns : ToTell(d) \subseteq ToTell(d)'
    BY <1>2, <2>1 DEF ToTell
  <2>3. \A d \in Conns : Keeps(d)
    BY <1>1, <1>3, SameWatch
  <2>4. QED
    BY <1>1, <1>3, <2>2, <2>3, WatchKept DEF WatchInv
<1>5. CASE \A k \in Keys : registry[k] = {}
  <2>1. \A d \in Conns : watched[d] # {} => Noticed(d)
    BY <1>3, <1>5 DEF WatchOK
  <2>2. \A d \in Conns : WatchOK(d)'
    BY <1>1, <1>3, <2>1 DEF WatchOK, Noticed
  <2>3. QED
    BY <1>1, <2>2 DEF WatchInv
<1>6. QED
  BY <1>4, <1>5

\* fan_out: whoever watches the key has noticed afterwards, for a queue without room is
\* not an empty one.
LEMMA NotifyKeepsWatch ==
    ASSUME LockInv, WatchInv, NEW c \in Conns, NEW k \in Keys, Notify(c, k)
    PROVE  WatchInv'
<1> DEFINE size == store[k].size
           told == {d \in registry[k] : Fits(d, size)}
<1>0. Types /\ \A d \in Conns : WatchOK(d) /\ watched[d] \subseteq Keys
  BY DEF LockInv, WatchInv, Types
<1>1. /\ notifs' = [d \in Conns |-> IF d \in told THEN Append(notifs[d], size) ELSE notifs[d]]
      /\ registry' = [registry EXCEPT ![k] = told]
      /\ tell' = [tell EXCEPT ![c] = @ \ {k}]
      /\ UNCHANGED <<store, effects, watched, stale, dirty>>
  BY DEF Notify
<1>2. size \in Nat /\ size <= NotifBytes
  BY <1>0 DEF Types, Values, WatchInv
<1>3. ASSUME NEW d \in registry[k], ~ Fits(d, size) PROVE notifs[d] # << >>
  BY <1>0, <1>2, <1>3, EmptyQueueFits DEF Types
<1> HIDE DEF size, told
<1>4. \A d \in Conns : d \in told => notifs'[d] # << >>
  <2>1. \A d \in Conns : notifs[d] \in Seq(Nat)
    BY <1>0 DEF Types
  <2>2. ASSUME NEW s \in Seq(Nat) PROVE Append(s, size) # << >>
    <3>1. Len(Append(s, size)) = Len(s) + 1 /\ Len(s) \in Nat /\ Len(<< >>) = 0
      BY <1>2
    <3>2. QED
      BY <3>1
  <2>3. QED
    BY <1>1, <2>1, <2>2
<1>5. \A d \in Conns : Noticed(d) => Noticed(d)'
  BY <1>1, <1>4 DEF Noticed
<1>6. \A d \in Conns : k \in watched[d] => Noticed(d)'
  <2> SUFFICES ASSUME NEW d \in Conns, k \in watched[d] PROVE Noticed(d)'
    OBVIOUS
  <2>1. CASE d \in told
    BY <1>4, <2>1 DEF Noticed
  <2>2. CASE d \in registry[k] /\ d \notin told
    <3>1. notifs[d] # << >>
      BY <1>3, <2>2 DEF told
    <3>2. QED
      BY <1>5, <3>1 DEF Noticed
  <2>3. CASE d \notin registry[k]
    BY <1>0, <1>5, <2>3 DEF WatchOK
  <2>4. QED
    BY <2>1, <2>2, <2>3
<1>7. /\ \A j \in Keys \ {k} : registry'[j] = registry[j]
      /\ \A d \in Conns : \A j \in ToTell(d) : j # k => j \in ToTell(d)'
  <2>1. \A d \in Conns : tell[d] \ {k} \subseteq tell'[d]
    BY <1>0, <1>1 DEF Types
  <2>2. \A j \in Keys \ {k} : registry'[j] = registry[j]
    BY <1>0, <1>1 DEF Types
  <2>3. QED
    BY <1>1, <2>1, <2>2 DEF ToTell
<1>8. ASSUME NEW d \in Conns PROVE WatchOK(d)'
  <2>1. WatchOK(d) /\ watched'[d] = watched[d] /\ stale'[d] = stale[d]
    BY <1>0, <1>1
  <2>2. \A j \in watched[d] : d \in registry'[j] \/ Noticed(d)'
    BY <1>0, <1>5, <1>6, <1>7 DEF WatchOK
  <2>3. \A j \in stale[d] : Noticed(d)' \/ \E b \in Conns : j \in ToTell(b)'
    BY <1>5, <1>6, <1>7, <2>1 DEF WatchOK
  <2>4. QED
    BY <2>1, <2>2, <2>3 DEF WatchOK
<1>9. QED
  BY <1>1, <1>8 DEF WatchInv

\* Every step keeps the invariant of the watches.
LEMMA WatchStep ==
    ASSUME \A cmd \in Commands : cmd.size <= NotifBytes, LockInv, WatchInv, [Next]_vars
    PROVE  WatchInv'
<1>0. Types /\ \A d \in Conns : WatchOK(d)
  BY DEF LockInv, WatchInv
<1>1. ASSUME UNCHANGED <<store, effects, tell>>, \A d \in Conns : Keeps(d) PROVE WatchInv'
  <2>1. \A d \in Conns : ToTell(d)' = ToTell(d)
    BY <1>1 DEF ToTell
  <2>2. QED
    BY <1>0, <1>1, <2>1, WatchKept DEF WatchInv
<1>2. ASSUME NEW c \in Conns, Client(c) PROVE WatchInv'
  <2>1. UNCHANGED <<store, effects, tell>>
    BY <1>2 DEF Client, Watch, Unwatch, Receive, Multi, Enqueue, Discard, Close, BeginWrite,
                BeginExec, BeginBarrier, Start
  <2>2. QED
    BY <1>0, <1>1, <1>2, <2>1, ClientKeeps
<1>3. ASSUME NEW c \in Conns, Dedup(c) \/ Lock(c) \/ Locked(c) \/ Finish(c) PROVE WatchInv'
  <2>1. UNCHANGED <<store, effects, tell>>
    BY <1>3 DEF Dedup, Lock, Locked, Finish
  <2>2. UNCHANGED watchVars \/ Unregister(c)
    BY <1>3 DEF Dedup, Lock, Locked, Finish
  <2>3. \A d \in Conns : Keeps(d)
    BY <1>0, <2>2, SameWatch, Forgets
  <2>4. QED
    BY <1>1, <2>1, <2>3
<1>4. ASSUME NEW c \in Conns, Server(c) PROVE WatchInv'
  BY <1>3, <1>4, ExecuteKeepsWatch, LogEffectKeepsWatch, NotifyKeepsWatch DEF Server
<1>5. ASSUME UNCHANGED vars PROVE WatchInv'
  BY <1>0, <1>1, <1>5, SameWatch DEF vars
<1>6. QED
  BY <1>2, <1>4, <1>5 DEF Next

\* For values that fit the budget of a notification queue: when EXEC has its stripes and
\* finds nothing queued or received, no key it watches has changed, for whoever changed one
\* has either told it or still has the key's stripe.
THEOREM TransactionsCompareAndSet ==
    (\A cmd \in Commands : cmd.size <= NotifBytes) => (Spec => CompareAndSet)
<1> SUFFICES ASSUME \A cmd \in Commands : cmd.size <= NotifBytes PROVE Spec => CompareAndSet
  OBVIOUS
<1>1. Init => WatchInv
  <2> SUFFICES ASSUME Init PROVE WatchInv
    OBVIOUS
  <2>1. \A c \in Conns : WatchOK(c)
    BY DEF Init, WatchOK
  <2>2. \A k \in Keys : store[k].size <= NotifBytes
    BY WriteOrderAssumption DEF Init, Nil
  <2>3. QED
    BY <2>1, <2>2 DEF WatchInv
<1>2. LockInv /\ WatchInv /\ [Next]_vars => WatchInv'
  BY WatchStep
<1>3. LockInv /\ WatchInv /\ [Next]_vars =>
        [\A c \in Conns :
            kind[c] = "exec" /\ pc[c] = "lock" /\ pc'[c] = "run" => stale[c] = {}]_vars
  <2> SUFFICES ASSUME LockInv, WatchInv, Next, NEW c \in Conns,
                      kind[c] = "exec", pc[c] = "lock", pc'[c] = "run"
               PROVE  stale[c] = {}
    OBVIOUS
  <2>0. Types /\ \A d \in Conns : LocksOK(d) /\ WatchOK(d)
    BY DEF LockInv, WatchInv
  <2>1. need[c] = {} /\ ~ Noticed(c)
    <3>1. PICK d \in Conns : Client(d) \/ Server(d)
      BY DEF Next
    <3>2. Locked(d) \/ ~ Locked(d)
      OBVIOUS
    <3>3. CASE ~ Locked(d)
      <4>1. \/ pc' = pc
            \/ \E where \in {"idle", "lock", "dedup"} : pc' = [pc EXCEPT ![d] = where]
        BY <3>1, <3>3
           DEF Client, Server, Watch, Unwatch, Receive, Multi, Enqueue, Discard, Close,
               BeginWrite, BeginExec, BeginBarrier, Start, Dedup, Lock, Execute, LogEffect,
               Notify, Finish, Release
      <4>2. QED
        BY <2>0, <4>1 DEF Types
    <3>4. CASE Locked(d)
      <4>1. d = c
        <5>1. \E where \in {"idle", "run"} : pc' = [pc EXCEPT ![d] = where]
          BY <3>4 DEF Locked, Release
        <5>2. QED
          BY <2>0, <5>1 DEF Types
      <4>2. QED
        BY <2>0, <3>4, <4>1 DEF Locked, Release, Noticed, Types
    <3>5. QED
      BY <3>3, <3>4
  <2>2. SUFFICES ASSUME NEW k \in stale[c] PROVE FALSE
    OBVIOUS
  <2>3. PICK d \in Conns : k \in ToTell(d)
    BY <2>0, <2>1, <2>2 DEF WatchOK
  <2>4. k \in watched[c] /\ k \in Keys
    BY <2>0, <2>2 DEF WatchOK, Types
  <2>5. pc[d] = "run" /\ need[d] = {}
    <3>1. effects[d] # << >> \/ tell[d] # {}
      BY <2>3 DEF ToTell, Range
    <3>2. QED
      BY <2>0, <3>1 DEF LocksOK
  <2>6. StripeOf[k] \in Claimed(d)
    <3>1. k \in EffectKeys(d) \cup tell[d]
      BY <2>3 DEF ToTell, EffectKeys, OrderingKeys
    <3>2. QED
      BY <2>0, <2>4, <3>1, ClaimsCover
  <2>7. StripeOf[k] \in Claimed(c)
    BY <2>4, WriteOrderAssumption DEF Claimed, AllStripes
  <2>8. c = d
    BY <2>1, <2>5, <2>6, <2>7, Exclusive
  <2>9. QED
    BY <2>5, <2>8
<1>4. QED
  BY LockAlways, <1>1, <1>2, <1>3, PTL DEF Spec, CompareAndSet
=============================================================================
