----------------------------- MODULE DataTypes ------------------------------
(***************************************************************************)
(* What every data command of the store does (execute_inner in             *)
(* core-engine/src/store.rs), as a function of the keyspace, the clock and *)
(* the command.  A keyspace maps the keys that are physically there to     *)
(* entries [val, exp]; an entry whose deadline has passed is still there   *)
(* until something removes it.  A command has a set of outcomes            *)
(* [db, reply], more than one where it draws random members.               *)
(*                                                                         *)
(* Keys, fields and members are numbers, so that sorted replies have an    *)
(* order; a string is a sequence of symbols, and a numeral is one symbol.  *)
(***************************************************************************)
EXTENDS Integers, FiniteSetsExt, SequencesExt

CONSTANTS
    Second,         \* milliseconds in a second (1000 in the code)
    MaxTime,        \* u64::MAX, where deadlines saturate
    MinInt, MaxInt, \* the range of i64
    AbandonFloor,   \* INDEX_ABANDON_FLOOR
    RlBuckets       \* RL_BUCKETS

ASSUME DataTypesAssumption ==
    /\ Second \in Nat \ {0} /\ MaxTime \in Nat
    /\ MinInt \in Int /\ MaxInt \in Nat /\ MinInt < 0
    /\ AbandonFloor \in Nat /\ RlBuckets \in Nat \ {0}

\* Answers.
Num(n)     == <<"int", n>>
Bulk(s)    == <<"bulk", s>>
Many(s)    == <<"array", s>>
Nil        == <<"nil">>
OK         == <<"ok">>
Error(why) == <<"error", why>>
WRONGTYPE  == Error("WRONGTYPE")
IsError(r) == r[1] = "error"

Never == -1
Sat(t) == IF t > MaxTime THEN MaxTime ELSE t
Least(a, b) == IF a < b THEN a ELSE b
Greatest(a, b) == IF a > b THEN a ELSE b
Ordered(S) == SetToSortSeq(S, <)

IsExpired(e, now) == e.exp # Never /\ now >= e.exp
Live(db, k, now) == k \in DOMAIN db /\ ~IsExpired(db[k], now)
Fresh(v) == [val |-> v, exp |-> Never]
Put(db, k, e) == [x \in DOMAIN db \cup {k} |-> IF x = k THEN e ELSE db[x]]
Without(db, K) == [x \in DOMAIN db \ K |-> db[x]]

-----------------------------------------------------------------------------
\* The three ways a command gets at its key.

\* typed_entry!: create the entry, or start it over if its deadline has passed, and
\* hand its payload to Do, a set of [val, reply].  The entry stays even if Do refuses.
EntryOr(db, k, now, type, default) ==
    IF Live(db, k, now) THEN db[k] ELSE Fresh(<<type, default>>)
TypedEntry(db, k, now, type, default, Do(_)) ==
    LET e == EntryOr(db, k, now, type, default)
    IN  IF e.val[1] # type
        THEN {[db |-> db, reply |-> WRONGTYPE]}
        ELSE {[db |-> Put(db, k, [e EXCEPT !.val = <<type, r.val>>]), reply |-> r.reply] :
                r \in Do(e.val[2])}

\* get_mut: change a live entry in place; an expired one is left where it is.
GetMut(db, k, now, type, missing, Do(_)) ==
    IF ~Live(db, k, now) THEN {[db |-> db, reply |-> missing]}
    ELSE IF db[k].val[1] # type THEN {[db |-> db, reply |-> WRONGTYPE]}
    ELSE {[db |-> [db EXCEPT ![k].val = <<type, r.val>>], reply |-> r.reply] :
            r \in Do(db[k].val[2])}

\* get: look only.
Read(db, k, now, type, missing, Answer(_)) ==
    GetMut(db, k, now, type, missing, LAMBDA v : {[val |-> v, reply |-> Answer(v)]})

One(v, r) == {[val |-> v, reply |-> r]}
Says(db, r) == {[db |-> db, reply |-> r]}

-----------------------------------------------------------------------------
\* Indices and pages.

\* resolve_idx: an index may count from the end; Never if there is no such place.
\* Places are 1.. here and 0.. in the code.
ResolveIdx(idx, len) ==
    LET i == IF idx >= 0 THEN idx ELSE len + idx
    IN  IF i >= 0 /\ i < len THEN i + 1 ELSE Never

\* resolve_range: the part of a sequence between two indices, either from the end.
ResolveRange(s, start, stop) ==
    LET len == Len(s)
        a   == Greatest(IF start < 0 THEN len + start ELSE start, 0)
        b   == Least(IF stop < 0 THEN len + stop ELSE stop, len - 1)
    IN  IF b < 0 \/ a >= len \/ a > b THEN <<>> ELSE SubSeq(s, a + 1, b + 1)

\* byte_range: GETRANGE clamps its ends differently: the end never falls before the
\* first byte.
ByteRange(s, start, end) ==
    LET len == Len(s)
        a   == Greatest(IF start < 0 THEN start + len ELSE start, 0)
        b   == Least(Greatest(IF end < 0 THEN end + len ELSE end, 0), len - 1)
    IN  IF len = 0 \/ a > b THEN <<>> ELSE SubSeq(s, a + 1, b + 1)

\* apply_limit: LIMIT offset count.
ApplyLimit(s, limit) ==
    IF limit = <<>> THEN s
    ELSE LET rest == SubSeq(s, Greatest(limit[1], 0) + 1, Len(s))
         IN  IF limit[2] < 0 THEN rest ELSE SubSeq(rest, 1, Least(limit[2], Len(rest)))

\* scan_page: the page of a collection scan behind an offset, and the next offset.
ScanPage(s, cursor, count) ==
    LET from == Least(cursor, Len(s))
        to   == Least(from + Greatest(count, 1), Len(s))
    IN  Many(<<IF to >= Len(s) THEN 0 ELSE to, SubSeq(s, from + 1, to)>>)

EmptyScan == Many(<<0, <<>>>>)
Page(S, c) == ScanPage(Ordered(S \cap c.match), c.cursor, c.count)

-----------------------------------------------------------------------------
\* Strings.

IsNumeral(s) == Len(s) = 1 /\ s[1] \in MinInt..MaxInt
ParseInt(s) == s[1]
StrOf(db, k, now) ==
    IF Live(db, k, now) /\ db[k].val[1] = "str" THEN Bulk(db[k].val[2]) ELSE Nil
SetStr(db, k, s, exp) == Put(db, k, [val |-> <<"str", s>>, exp |-> exp])

\* The deadline a SET asks for, given the one the key has.
SetDeadline(c, now, ttl) ==
    CASE c.exp = "none"    -> Never
      [] c.exp = "EX"      -> Sat(now + Second * c.t)
      [] c.exp = "PX"      -> Sat(now + c.t)
      [] c.exp = "EXAT"    -> Sat(Second * c.t)
      [] c.exp = "PXAT"    -> c.t
      [] c.exp = "KEEPTTL" -> ttl

\* SET key value [NX|XX] [GET] [EX|PX|EXAT|PXAT t | KEEPTTL].
Set(db, now, c) ==
    LET live == Live(db, c.key, now)
        old  == StrOf(db, c.key, now)
        met  == c.cond = "none" \/ (c.cond = "NX" /\ ~live) \/ (c.cond = "XX" /\ live)
    IN  IF c.get /\ live /\ db[c.key].val[1] # "str" THEN Says(db, WRONGTYPE)
        ELSE IF ~met THEN Says(db, IF c.get THEN old ELSE Nil)
        ELSE IF c.exp = "EX" /\ c.t > MaxTime \div Second THEN Says(db, Error("overflow"))
        ELSE {[db    |-> SetStr(db, c.key, c.val,
                             SetDeadline(c, now, IF live THEN db[c.key].exp ELSE Never)),
               reply |-> IF c.get THEN old ELSE OK]}

Get(db, now, c) == Read(db, c.key, now, "str", Nil, Bulk)
Strlen(db, now, c) == Read(db, c.key, now, "str", Num(0), LAMBDA s : Num(Len(s)))
GetRange(db, now, c) ==
    Read(db, c.key, now, "str", Bulk(<<>>), LAMBDA s : Bulk(ByteRange(s, c.start, c.stop)))
MGet(db, now, c) == Says(db, Many([i \in DOMAIN c.keys |-> StrOf(db, c.keys[i], now)]))

\* DEL and UNLINK take live keys only: the sweep takes the others, and reports them.
Del(db, now, c) ==
    LET gone == {k \in ToSet(c.keys) : Live(db, k, now)}
    IN  {[db |-> Without(db, gone), reply |-> Num(Cardinality(gone))]}

Append_(db, now, c) ==
    TypedEntry(db, c.key, now, "str", <<>>, LAMBDA s : One(s \o c.val, Num(Len(s \o c.val))))

GetSet(db, now, c) ==
    IF Live(db, c.key, now) /\ db[c.key].val[1] # "str" THEN Says(db, WRONGTYPE)
    ELSE {[db |-> SetStr(db, c.key, c.val, Never), reply |-> StrOf(db, c.key, now)]}

MSet(db, now, c) ==
    {[db |-> FoldLeft(LAMBDA d, p : SetStr(d, p[1], p[2], Never), db, c.pairs), reply |-> OK]}

SetNx(db, now, c) ==
    IF Live(db, c.key, now) THEN Says(db, Num(0))
    ELSE {[db |-> SetStr(db, c.key, c.val, Never), reply |-> Num(1)]}

\* SETEX and PSETEX.
SetEx(db, now, c) ==
    {[db    |-> SetStr(db, c.key, c.val,
                    Sat(now + Sat(IF c.op = "SETEX" THEN Second * c.t ELSE c.t))),
      reply |-> OK]}

\* INCR, DECR, INCRBY and DECRBY: c.by is the signed step; DECRBY of the least i64
\* has none.
IncrBy(db, now, c) ==
    LET by  == IF c.op = "DECRBY" THEN -c.by ELSE c.by
        Add(s) ==
            IF ~IsNumeral(s) THEN One(s, Error("not an integer"))
            ELSE IF ParseInt(s) + by \notin MinInt..MaxInt THEN One(s, Error("overflow"))
            ELSE One(<<ParseInt(s) + by>>, Num(ParseInt(s) + by))
    IN  IF by > MaxInt THEN Says(db, Error("overflow"))
        ELSE TypedEntry(db, c.key, now, "str", <<0>>, Add)

-----------------------------------------------------------------------------
\* Expiry and keys.

\* EXPIRE, PEXPIRE, EXPIREAT and PEXPIREAT.
ExpireDeadline(c, now) ==
    CASE c.op = "EXPIRE"    -> Sat(now + Sat(Second * c.t))
      [] c.op = "PEXPIRE"   -> Sat(now + c.t)
      [] c.op = "EXPIREAT"  -> Sat(Second * c.t)
      [] c.op = "PEXPIREAT" -> c.t

SetExpiry(db, now, c) ==
    IF ~Live(db, c.key, now) THEN Says(db, Num(0))
    ELSE {[db |-> [db EXCEPT ![c.key].exp = ExpireDeadline(c, now)], reply |-> Num(1)]}

\* TTL rounds to the nearest second, PTTL does not.
Ttl(db, now, c) ==
    LET left == db[c.key].exp - now
    IN  Says(db, IF ~Live(db, c.key, now) THEN Num(-2)
                 ELSE IF db[c.key].exp = Never THEN Num(-1)
                 ELSE IF c.op = "PTTL" THEN Num(left)
                 ELSE Num((left + Second \div 2) \div Second))

Persist(db, now, c) ==
    IF Live(db, c.key, now) /\ db[c.key].exp # Never
    THEN {[db |-> [db EXCEPT ![c.key].exp = Never], reply |-> Num(1)]}
    ELSE Says(db, Num(0))

Exists(db, now, c) ==
    Says(db, Num(Cardinality({i \in DOMAIN c.keys : Live(db, c.keys[i], now)})))
Keys_(db, now, c) ==
    Says(db, Many(Ordered({k \in DOMAIN db \cap c.match : Live(db, k, now)})))
Type(db, now, c) ==
    Says(db, Bulk(IF Live(db, c.key, now) THEN db[c.key].val[1] ELSE "none"))
FlushDb(db, now, c) == {[db |-> Without(db, DOMAIN db), reply |-> OK]}

\* RENAME takes the source out even if its deadline has passed.
Rename(db, now, c) ==
    LET rest == Without(db, {c.key})
    IN  IF ~Live(db, c.key, now) THEN Says(rest, Error("no such key"))
        ELSE {[db |-> Put(rest, c.dst, db[c.key]), reply |-> OK]}

-----------------------------------------------------------------------------
\* Hashes: a payload maps fields to strings (CompactHash).

HashInsert(h, f, v) == Put(h, f, v)
HashRemove(h, F) == Without(h, F)
NoHash == [f \in {} |-> <<>>]
FieldOf(h, f) == IF f \in DOMAIN h THEN Bulk(h[f]) ELSE Nil

HSet(db, now, c) ==
    TypedEntry(db, c.key, now, "hash", NoHash,
        LAMBDA h : One(FoldLeft(LAMBDA g, p : HashInsert(g, p[1], p[2]), h, c.pairs),
                       Num(Cardinality({i \in DOMAIN c.pairs : c.pairs[i][1] \notin DOMAIN h}))))
HSetNx(db, now, c) ==
    TypedEntry(db, c.key, now, "hash", NoHash,
        LAMBDA h : IF c.field \in DOMAIN h THEN One(h, Num(0))
                   ELSE One(HashInsert(h, c.field, c.val), Num(1)))
HGet(db, now, c) == Read(db, c.key, now, "hash", Nil, LAMBDA h : FieldOf(h, c.field))
HGetAll(db, now, c) ==
    Read(db, c.key, now, "hash", Many(<<>>),
        LAMBDA h : LET F == Ordered(DOMAIN h) IN Many([i \in DOMAIN F |-> <<F[i], h[F[i]]>>]))
HDel(db, now, c) ==
    GetMut(db, c.key, now, "hash", Num(0),
        LAMBDA h : One(HashRemove(h, ToSet(c.fields)),
                       Num(Cardinality(ToSet(c.fields) \cap DOMAIN h))))
HKeys(db, now, c) == Read(db, c.key, now, "hash", Many(<<>>), LAMBDA h : Many(Ordered(DOMAIN h)))
HVals(db, now, c) ==
    Read(db, c.key, now, "hash", Many(<<>>),
        LAMBDA h : LET F == Ordered(DOMAIN h) IN Many([i \in DOMAIN F |-> h[F[i]]]))
HScan(db, now, c) == Read(db, c.key, now, "hash", EmptyScan, LAMBDA h : Page(DOMAIN h, c))
HLen(db, now, c) ==
    Read(db, c.key, now, "hash", Num(0), LAMBDA h : Num(Cardinality(DOMAIN h)))
HExists(db, now, c) ==
    Read(db, c.key, now, "hash", Num(0), LAMBDA h : Num(IF c.field \in DOMAIN h THEN 1 ELSE 0))
HMGet(db, now, c) ==
    Read(db, c.key, now, "hash", Many([i \in DOMAIN c.fields |-> Nil]),
        LAMBDA h : Many([i \in DOMAIN c.fields |-> FieldOf(h, c.fields[i])]))

\* HINCRBY takes a field that is not a number for 0.
HIncrBy(db, now, c) ==
    LET Cur(h) == IF c.field \in DOMAIN h /\ IsNumeral(h[c.field])
                  THEN ParseInt(h[c.field]) ELSE 0
    IN  TypedEntry(db, c.key, now, "hash", NoHash,
            LAMBDA h : IF Cur(h) + c.by \notin MinInt..MaxInt THEN One(h, Error("overflow"))
                       ELSE One(HashInsert(h, c.field, <<Cur(h) + c.by>>), Num(Cur(h) + c.by)))

\* Floating-point numbers: small integers and the infinities.
Inf == 1000
NaN == 2000
AddFloat(a, b) ==
    IF NaN \in {a, b} \/ {a, b} = {Inf, -Inf} THEN NaN
    ELSE IF Inf \in {a, b} THEN Inf
    ELSE IF -Inf \in {a, b} THEN -Inf
    ELSE a + b

HIncrByFloat(db, now, c) ==
    LET New(h) == AddFloat(IF c.field \in DOMAIN h /\ IsNumeral(h[c.field])
                           THEN ParseInt(h[c.field]) ELSE 0, c.by)
    IN  TypedEntry(db, c.key, now, "hash", NoHash,
            LAMBDA h : IF New(h) \in {Inf, -Inf, NaN} THEN One(h, Error("NaN or Infinity"))
                       ELSE One(HashInsert(h, c.field, <<New(h)>>), Bulk(<<New(h)>>)))

-----------------------------------------------------------------------------
\* Lists: a payload is a sequence of strings.  An emptied list keeps its key.

Pushed(left, s, vals) == IF left THEN Reverse(vals) \o s ELSE s \o vals
NoList(c) == IF c.count = Never THEN Nil ELSE Many(<<>>)

\* LPUSH and RPUSH.
Push(db, now, c) ==
    TypedEntry(db, c.key, now, "list", <<>>,
        LAMBDA s : One(Pushed(c.op = "LPUSH", s, c.vals), Num(Len(s) + Len(c.vals))))
\* LPUSHX and RPUSHX.
PushX(db, now, c) ==
    GetMut(db, c.key, now, "list", Num(0),
        LAMBDA s : One(Pushed(c.op = "LPUSHX", s, c.vals), Num(Len(s) + Len(c.vals))))

\* LPOP and RPOP, with a count (a list, in popping order) or without (one element).
Pop(db, now, c) ==
    LET Taken(s) == Least(IF c.count = Never THEN 1 ELSE c.count, Len(s))
        Items(s) == IF c.op = "LPOP" THEN SubSeq(s, 1, Taken(s))
                    ELSE SubSeq(Reverse(s), 1, Taken(s))
        Rest(s)  == IF c.op = "LPOP" THEN SubSeq(s, Taken(s) + 1, Len(s))
                    ELSE SubSeq(s, 1, Len(s) - Taken(s))
    IN  GetMut(db, c.key, now, "list", NoList(c),
            LAMBDA s : One(Rest(s), IF c.count # Never THEN Many(Items(s))
                                    ELSE IF s = <<>> THEN Nil ELSE Bulk(Items(s)[1])))

LRange(db, now, c) ==
    Read(db, c.key, now, "list", Many(<<>>), LAMBDA s : Many(ResolveRange(s, c.start, c.stop)))
LLen(db, now, c) == Read(db, c.key, now, "list", Num(0), LAMBDA s : Num(Len(s)))
LIndex(db, now, c) ==
    LET At(s) == ResolveIdx(c.idx, Len(s))
    IN  Read(db, c.key, now, "list", Nil, LAMBDA s : IF At(s) = Never THEN Nil ELSE Bulk(s[At(s)]))
LSet(db, now, c) ==
    LET At(s) == ResolveIdx(c.idx, Len(s))
    IN  GetMut(db, c.key, now, "list", Error("no such key"),
            LAMBDA s : IF At(s) = Never THEN One(s, Error("out of range"))
                       ELSE One([s EXCEPT ![At(s)] = c.val], OK))

\* LREM removes the first (count > 0), the last (count < 0) or all (0) occurrences.
LRem(db, now, c) ==
    LET Places(s) == {i \in DOMAIN s : s[i] = c.val}
        Gone(s) == {i \in Places(s) :
                      \/ c.count = 0
                      \/ c.count > 0 /\ Cardinality({j \in Places(s) : j < i}) < c.count
                      \/ c.count < 0 /\ Cardinality({j \in Places(s) : j > i}) < -c.count}
        Kept(s) == Ordered(DOMAIN s \ Gone(s))
    IN  GetMut(db, c.key, now, "list", Num(0),
            LAMBDA s : One([i \in DOMAIN Kept(s) |-> s[Kept(s)[i]]], Num(Cardinality(Gone(s)))))
LTrim(db, now, c) ==
    GetMut(db, c.key, now, "list", OK, LAMBDA s : One(ResolveRange(s, c.start, c.stop), OK))

-----------------------------------------------------------------------------
\* Sets (CompactSet: an inline array or a table, a set in either case).

SetInsert(S, T) == S \cup T
SetRemove(S, T) == S \ T

SAdd(db, now, c) ==
    TypedEntry(db, c.key, now, "set", {},
        LAMBDA S : One(SetInsert(S, ToSet(c.members)), Num(Cardinality(ToSet(c.members) \ S))))
SRem(db, now, c) ==
    GetMut(db, c.key, now, "set", Num(0),
        LAMBDA S : One(SetRemove(S, ToSet(c.members)), Num(Cardinality(ToSet(c.members) \cap S))))
SMembers(db, now, c) == Read(db, c.key, now, "set", Many(<<>>), LAMBDA S : Many(Ordered(S)))
SScan(db, now, c) == Read(db, c.key, now, "set", EmptyScan, LAMBDA S : Page(S, c))
SCard(db, now, c) == Read(db, c.key, now, "set", Num(0), LAMBDA S : Num(Cardinality(S)))
SIsMember(db, now, c) ==
    Read(db, c.key, now, "set", Num(0), LAMBDA S : Num(IF c.member \in S THEN 1 ELSE 0))
SMIsMember(db, now, c) ==
    Read(db, c.key, now, "set", Many([i \in DOMAIN c.members |-> 0]),
        LAMBDA S : Many([i \in DOMAIN c.members |-> IF c.members[i] \in S THEN 1 ELSE 0]))

\* SPOP takes random members.
SPop(db, now, c) ==
    LET Draws(S) == kSubset(Least(IF c.count = Never THEN 1 ELSE c.count, Cardinality(S)), S)
    IN  GetMut(db, c.key, now, "set", NoList(c),
            LAMBDA S : {[val   |-> SetRemove(S, T),
                         reply |-> IF c.count # Never THEN Many(Ordered(T))
                                   ELSE IF T = {} THEN Nil ELSE Bulk(CHOOSE m \in T : TRUE)] :
                        T \in Draws(S)})

\* SRANDMEMBER draws distinct members (count >= 0) or with repetition (count < 0).
SRandMember(db, now, c) ==
    LET Draws(S) ==
            IF c.how = "one" THEN IF S = {} THEN {Nil} ELSE {Bulk(m) : m \in S}
            ELSE IF c.count >= 0
            THEN {Many(Ordered(T)) : T \in kSubset(Least(c.count, Cardinality(S)), S)}
            ELSE {Many(t) : t \in IF S = {} THEN {<<>>} ELSE [1..(-c.count) -> S]}
    IN  IF Live(db, c.key, now) /\ db[c.key].val[1] # "set" THEN Says(db, WRONGTYPE)
        ELSE {[db |-> db, reply |-> r] :
                r \in Draws(IF Live(db, c.key, now) THEN db[c.key].val[2] ELSE {})}

\* set_inter, set_union and set_diff over the sets that are there.
WrongSet(db, now, keys) ==
    \E i \in DOMAIN keys : Live(db, keys[i], now) /\ db[keys[i]].val[1] # "set"
SetAt(db, now, k) == IF Live(db, k, now) THEN db[k].val[2] ELSE {}
Combined(db, now, c) ==
    LET S(i) == SetAt(db, now, c.keys[i])
    IN  CASE c.keys = <<>>   -> {}
          [] c.fn = "inter" -> {m \in S(1) : \A i \in DOMAIN c.keys : m \in S(i)}
          [] c.fn = "union" -> UNION {S(i) : i \in DOMAIN c.keys}
          [] c.fn = "diff"  -> {m \in S(1) : \A i \in 2..Len(c.keys) : m \notin S(i)}

\* SINTER, SUNION, SDIFF, and their STORE forms, which replace whatever dst held.
Combine(db, now, c) ==
    Says(db, IF WrongSet(db, now, c.keys) THEN WRONGTYPE ELSE Many(Ordered(Combined(db, now, c))))
CombineStore(db, now, c) ==
    IF WrongSet(db, now, c.keys) THEN Says(db, WRONGTYPE)
    ELSE {[db    |-> Put(db, c.dst, Fresh(<<"set", Combined(db, now, c)>>)),
           reply |-> Num(Cardinality(Combined(db, now, c)))]}

\* SMOVE checks both types first, then moves.
SMove(db, now, c) ==
    LET src == SetAt(db, now, c.key)
        out == [db EXCEPT ![c.key].val = <<"set", SetRemove(src, {c.member})>>]
    IN  IF WrongSet(db, now, <<c.key, c.dst>>) THEN Says(db, WRONGTYPE)
        ELSE IF c.member \notin src THEN Says(db, Num(0))
        ELSE TypedEntry(out, c.dst, now, "set", {}, LAMBDA S : One(SetInsert(S, {c.member}), Num(1)))

-----------------------------------------------------------------------------
\* Sorted sets (ZSetInner): scores, and an index of <<score, member>> pairs that is
\* built by the first ranged read, kept in step by writes, and given up after writes
\* enough without one.  index is <<>> or holds the index.

NewZSet == [scores |-> [m \in {} |-> 0], index |-> <<>>, writes |-> 0]
Score(z, m) == IF m \in DOMAIN z.scores THEN Bulk(z.scores[m]) ELSE Nil
Pairs(z) == {<<z.scores[m], m>> : m \in DOMAIN z.scores}

\* reindex: what a write of score s for m does to the index.
Reindex(z, m, s) ==
    IF z.index = <<>> THEN z
    ELSE IF z.writes > Greatest(AbandonFloor, Cardinality(DOMAIN z.scores))
    THEN [z EXCEPT !.index = <<>>, !.writes = 0]
    ELSE [z EXCEPT !.index = <<{p \in @[1] : m \notin DOMAIN z.scores \/ p # <<z.scores[m], m>>}
                               \cup {<<s, m>>}>>,
                   !.writes = @ + 1]
ZInsert(z, m, s) ==
    IF m \in DOMAIN z.scores /\ z.scores[m] = s THEN z
    ELSE [Reindex(z, m, s) EXCEPT !.scores = Put(@, m, s)]
\* Mutant of ZRemove: the index keeps the member.
ZRemoveScore(z, M) == [z EXCEPT !.scores = Without(@, M)]

ZRemove(z, M) ==
    [z EXCEPT !.scores = Without(@, M),
              !.index  = IF @ = <<>> THEN @ ELSE <<{p \in @[1] : p[2] \notin M}>>]
\* index(): build it if it is not there; iter_asc: walk it.
Indexed(z) == [z EXCEPT !.index = IF @ = <<>> THEN <<Pairs(z)>> ELSE @, !.writes = 0]
Before(p, q) == p[1] < q[1] \/ (p[1] = q[1] /\ p[2] < q[2])
Ascending(z) == SetToSortSeq(Indexed(z).index[1], Before)

\* score_should_update.
ShouldUpdate(c, s, old) == IF c.gt THEN s > old ELSE IF c.lt THEN s < old ELSE s # old

\* One pair of ZADD: what it does to <<set, added, changed>>.
ZAddPair(c, acc, p) ==
    LET z    == acc[1]
        there == p[2] \in DOMAIN z.scores
        put  == CASE c.cond = "NX" -> ~there
                  [] c.cond = "XX" -> there /\ ShouldUpdate(c, p[1], z.scores[p[2]])
                  [] c.cond = "none" -> ~there \/ ShouldUpdate(c, p[1], z.scores[p[2]])
    IN  IF put THEN <<ZInsert(z, p[2], p[1]), acc[2] + (IF there THEN 0 ELSE 1), acc[3] + 1>>
        ELSE acc
\* INCR ignores the conditions and does not look for NaN.
ZAddExec(z, c) ==
    LET m    == c.pairs[1][2]
        sum  == AddFloat(IF m \in DOMAIN z.scores THEN z.scores[m] ELSE 0, c.pairs[1][1])
        done == FoldLeft(LAMBDA acc, p : ZAddPair(c, acc, p), <<z, 0, 0>>, c.pairs)
    IN  IF c.incr THEN One(ZInsert(z, m, sum), Bulk(sum))
        ELSE One(done[1], Num(IF c.ch THEN done[3] ELSE done[2]))
ZAdd(db, now, c) ==
    TypedEntry(db, c.key, now, "zset", NewZSet, LAMBDA z : ZAddExec(z, c))
ZIncrBy(db, now, c) ==
    LET Sum(z) == AddFloat(IF c.member \in DOMAIN z.scores THEN z.scores[c.member] ELSE 0, c.by)
    IN  TypedEntry(db, c.key, now, "zset", NewZSet,
            LAMBDA z : IF Sum(z) \in {Inf, -Inf, NaN} THEN One(z, Error("NaN or Infinity"))
                       ELSE One(ZInsert(z, c.member, Sum(z)), Bulk(Sum(z))))
ZRem(db, now, c) ==
    GetMut(db, c.key, now, "zset", Num(0),
        LAMBDA z : One(ZRemove(z, ToSet(c.members)),
                       Num(Cardinality(ToSet(c.members) \cap DOMAIN z.scores))))

\* zset_read: a missing key is an empty set; a ranged read leaves an index behind.
Ranged(db, now, c, Answer(_)) ==
    GetMut(db, c.key, now, "zset", Answer(<<>>), LAMBDA z : One(Indexed(z), Answer(Ascending(z))))

\* ZRANGE and ZREVRANGE.
ZRange(db, now, c) ==
    Ranged(db, now, c,
        LAMBDA s : Many(ResolveRange(IF c.op = "ZRANGE" THEN s ELSE Reverse(s), c.start, c.stop)))

\* above_min and below_max; a bound is <<kind, score>>.
AboveMin(s, min) ==
    CASE min[1] = "-inf" -> TRUE [] min[1] = "+inf" -> FALSE
      [] min[1] = "[" -> s >= min[2] [] min[1] = "(" -> s > min[2]
BelowMax(s, max) ==
    CASE max[1] = "+inf" -> TRUE [] max[1] = "-inf" -> FALSE
      [] max[1] = "[" -> s <= max[2] [] max[1] = "(" -> s < max[2]
\* range_by_score: walk from the lower bound, stop at the first score past the upper one.
RangeByScore(s, min, max) ==
    LET from == SelectSeq(s, LAMBDA p : CASE min[1] = "-inf" -> p[1] >= -Inf
                                          [] min[1] = "+inf" -> p[1] >= Inf
                                          [] OTHER -> p[1] >= min[2])
        past == {i \in DOMAIN from : ~BelowMax(from[i][1], max)}
        upto == IF past = {} THEN from ELSE SubSeq(from, 1, Min(past) - 1)
    IN  SelectSeq(upto, LAMBDA p : AboveMin(p[1], min))
BadBound(c) == "bad" \in {c.min[1], c.max[1]}
\* ZRANGEBYSCORE, ZREVRANGEBYSCORE and ZCOUNT.  A bad bound is found before the index
\* is used.
ZByScore(db, now, c) ==
    LET Sel(s) == RangeByScore(s, c.min, c.max)
        Turned(s) == IF c.op = "ZREVRANGEBYSCORE" THEN Reverse(Sel(s)) ELSE Sel(s)
    IN  IF BadBound(c)
        THEN Read(db, c.key, now, "zset", Error("not a float"), LAMBDA z : Error("not a float"))
        ELSE Ranged(db, now, c,
            LAMBDA s : IF c.op = "ZCOUNT" THEN Num(Len(Sel(s)))
                       ELSE Many(ApplyLimit(Turned(s), c.limit)))
ZScore(db, now, c) == Read(db, c.key, now, "zset", Nil, LAMBDA z : Score(z, c.member))
ZMScore(db, now, c) ==
    Read(db, c.key, now, "zset", Many([i \in DOMAIN c.members |-> Nil]),
        LAMBDA z : Many([i \in DOMAIN c.members |-> Score(z, c.members[i])]))
\* ZRANK and ZREVRANK count the pairs before the member's own.
ZRank(db, now, c) ==
    LET Rank(z) == Cardinality({p \in Indexed(z).index[1] :
                                  Before(p, <<z.scores[c.member], c.member>>)})
    IN  GetMut(db, c.key, now, "zset", Nil,
            LAMBDA z : IF c.member \notin DOMAIN z.scores THEN One(z, Nil)
                       ELSE One(Indexed(z), Num(IF c.op = "ZRANK" THEN Rank(z)
                                       ELSE Cardinality(DOMAIN z.scores) - 1 - Rank(z))))
ZCard(db, now, c) ==
    Read(db, c.key, now, "zset", Num(0), LAMBDA z : Num(Cardinality(DOMAIN z.scores)))
ZScan(db, now, c) == Read(db, c.key, now, "zset", EmptyScan, LAMBDA z : Page(DOMAIN z.scores, c))

-----------------------------------------------------------------------------
\* JSON: null, numbers, objects and arrays.  A path is a sequence of <<"field", f>>
\* and <<"index", i>>; <<<<"bad">>>> is one that does not parse.

JNull == <<"null">>
IsObj(d) == d[1] = "obj"
NoObj == <<"obj", [f \in {} |-> JNull]>>

\* json_set_at: <<whether it worked, the document>>.  Objects created on the way stay
\* when a later segment fails.
RECURSIVE JsonSetAt(_, _, _)
JsonSetAt(d, segs, v) ==
    IF segs = <<>> THEN <<TRUE, v>>
    ELSE LET x == segs[1][2]
         IN  IF segs[1][1] = "field"
             THEN LET o == IF d = JNull THEN NoObj ELSE d
                      r == JsonSetAt(IF x \in DOMAIN o[2] THEN o[2][x] ELSE JNull, Tail(segs), v)
                  IN  IF IsObj(o) THEN <<r[1], <<"obj", Put(o[2], x, r[2])>>>> ELSE <<FALSE, d>>
             ELSE IF d[1] # "arr" \/ x \notin DOMAIN d[2] THEN <<FALSE, d>>
             ELSE LET r == JsonSetAt(d[2][x], Tail(segs), v)
                  IN  <<r[1], <<"arr", [d[2] EXCEPT ![x] = r[2]]>>>>

\* json_get_at: the document at a path, or <<>>.
JsonGetAt(d, segs) ==
    LET Step(at, seg) ==
            IF at # <<>> /\ at[1][1] = (IF seg[1] = "field" THEN "obj" ELSE "arr")
                         /\ seg[2] \in DOMAIN at[1][2]
            THEN <<at[1][2][seg[2]]>> ELSE <<>>
    IN  FoldLeft(Step, <<d>>, segs)

\* json_merge_patch (RFC 7386).
RECURSIVE JsonMerge(_, _)
JsonMerge(d, patch) ==
    IF ~IsObj(patch) THEN patch
    ELSE LET o   == IF IsObj(d) THEN d[2] ELSE NoObj[2]
             p   == patch[2]
             dom == {f \in DOMAIN o \cup DOMAIN p : f \in DOMAIN p => p[f] # JNull}
         IN  <<"obj", [f \in dom |-> IF f \notin DOMAIN p THEN o[f]
                         ELSE JsonMerge(IF f \in DOMAIN o THEN o[f] ELSE JNull, p[f])]>>

\* JSET refuses a path that starts with an index before it creates the key.
JSet(db, now, c) ==
    LET Put_(d) == LET r == JsonSetAt(d, c.path, c.doc)
                   IN  One(r[2], IF r[1] THEN OK ELSE Error("path"))
    IN  IF c.path = <<<<"bad">>>> \/ c.doc = <<"bad">> THEN Says(db, Error("syntax"))
        ELSE IF ~Live(db, c.key, now) /\ c.path # <<>> /\ c.path[1][1] = "index"
        THEN Says(db, Error("not an array"))
        ELSE TypedEntry(db, c.key, now, "json", JNull, Put_)
JGet(db, now, c) ==
    LET At(d) == JsonGetAt(d, c.path)
    IN  Read(db, c.key, now, "json", Nil,
            LAMBDA d : IF c.path = <<<<"bad">>>> THEN Error("syntax")
                       ELSE IF At(d) = <<>> THEN Nil ELSE Bulk(At(d)[1]))
\* A null patch deletes the document, and only a document.
JMerge(db, now, c) ==
    IF c.doc = <<"bad">> THEN Says(db, Error("syntax"))
    ELSE IF c.doc # JNull
    THEN TypedEntry(db, c.key, now, "json", JNull, LAMBDA d : One(JsonMerge(d, c.doc), OK))
    ELSE IF Live(db, c.key, now) /\ db[c.key].val[1] # "json" THEN Says(db, WRONGTYPE)
    ELSE Says(Without(db, {c.key}), OK)

-----------------------------------------------------------------------------
\* The sliding-window rate limiter; a bucket is <<start, attempts>>.

NewLimiter(limit, window) == [limit |-> limit, window |-> window, buckets |-> <<>>]
BucketMs(rl) == Greatest(rl.window \div RlBuckets, 1)
Attempts(buckets) == FoldLeft(LAMBDA n, b : n + b[2], 0, buckets)

\* check: drop the buckets that have left the window, then count the attempt or deny it.
Check(rl, now) ==
    LET width == BucketMs(rl)
        kept  == SelectSeq(rl.buckets, LAMBDA b : b[1] + width > Greatest(now - rl.window, 0))
        used  == Attempts(kept)
        start == now - (now % width)
        last  == Len(kept)
    IN  IF used >= rl.limit
        THEN One([rl EXCEPT !.buckets = kept],
                 Many(<<0, 0, IF kept = <<>> THEN 0
                              ELSE Least(Greatest(kept[1][1] + width + rl.window - now, 0),
                                         rl.window)>>))
        ELSE One([rl EXCEPT !.buckets = IF kept # <<>> /\ kept[last][1] = start
                                        THEN [kept EXCEPT ![last][2] = @ + 1]
                                        ELSE Append(kept, <<start, 1>>)],
                 Many(<<1, rl.limit - used - 1, 0>>))

\* RLSET keeps the attempts recorded so far, and the limiter for good.
RlSet(db, now, c) ==
    LET w == Sat(Second * c.t)
    IN  {[db    |-> IF IsError(r.reply) THEN r.db ELSE [r.db EXCEPT ![c.key].exp = Never],
          reply |-> r.reply] :
           r \in TypedEntry(db, c.key, now, "rate", NewLimiter(c.limit, w),
                    LAMBDA rl : One([rl EXCEPT !.limit = c.limit, !.window = w], OK))}

\* RLCHECK makes a limiter that lasts for one window if the command carries its limits.
RlCheck(db, now, c) ==
    LET w   == Sat(Second * c.t)
        e   == IF Live(db, c.key, now) THEN db[c.key]
               ELSE [val |-> <<"rate", NewLimiter(c.limit, w)>>, exp |-> Sat(now + w)]
        rl  == IF c.inline THEN [e.val[2] EXCEPT !.limit = c.limit, !.window = w] ELSE e.val[2]
    IN  IF ~Live(db, c.key, now) /\ ~c.inline THEN Says(db, Error("no rate limit"))
        ELSE IF e.val[1] # "rate" THEN Says(db, WRONGTYPE)
        ELSE {[db    |-> Put(db, c.key, [val |-> <<"rate", r.val>>,
                                         exp |-> IF e.exp = Never THEN Never
                                                 ELSE Sat(now + rl.window)]),
               reply |-> r.reply] : r \in Check(rl, now)}

-----------------------------------------------------------------------------
\* What an entry is billed for (entry_size); keys, fields and members have length 1.

RECURSIVE JsonSize(_)
JsonSize(d) ==
    CASE d[1] = "null" -> 8
      [] d[1] = "num"  -> 16
      [] d[1] = "arr"  -> FoldSeq(LAMBDA x, n : n + JsonSize(x), 8, d[2])
      [] d[1] = "obj"  -> FoldSet(LAMBDA f, n : n + 1 + JsonSize(d[2][f]), 8, DOMAIN d[2])

EntrySize(e) ==
    LET v == e.val[2]
    IN  65 + CASE e.val[1] = "str"  -> Len(v)
               [] e.val[1] = "hash" -> FoldSet(LAMBDA f, n : n + 1 + Len(v[f]), 0, DOMAIN v)
               [] e.val[1] = "list" -> FoldSeq(LAMBDA x, n : n + Len(x), 0, v)
               [] e.val[1] = "set"  -> Cardinality(v)
               [] e.val[1] = "zset" -> 9 * Cardinality(DOMAIN v.scores)
               [] e.val[1] = "rate" -> 16 * Len(v.buckets) + 16
               [] e.val[1] = "json" -> JsonSize(v)
MemoryUsage(db, now, c) ==
    Says(db, IF Live(db, c.key, now) THEN Num(EntrySize(db[c.key])) ELSE Nil)

-----------------------------------------------------------------------------
\* The dispatch of execute_inner.

Exec(db, now, c) ==
    CASE c.op = "SET" -> Set(db, now, c)              [] c.op = "GET" -> Get(db, now, c)
      [] c.op = "STRLEN" -> Strlen(db, now, c)        [] c.op = "GETRANGE" -> GetRange(db, now, c)
      [] c.op = "MGET" -> MGet(db, now, c)            [] c.op = "DEL" -> Del(db, now, c)
      [] c.op = "APPEND" -> Append_(db, now, c)       [] c.op = "GETSET" -> GetSet(db, now, c)
      [] c.op = "MSET" -> MSet(db, now, c)            [] c.op = "SETNX" -> SetNx(db, now, c)
      [] c.op \in {"SETEX", "PSETEX"} -> SetEx(db, now, c)
      [] c.op \in {"INCRBY", "DECRBY"} -> IncrBy(db, now, c)
      [] c.op \in {"EXPIRE", "PEXPIRE", "EXPIREAT", "PEXPIREAT"} -> SetExpiry(db, now, c)
      [] c.op \in {"TTL", "PTTL"} -> Ttl(db, now, c)  [] c.op = "PERSIST" -> Persist(db, now, c)
      [] c.op = "EXISTS" -> Exists(db, now, c)        [] c.op = "KEYS" -> Keys_(db, now, c)
      [] c.op = "TYPE" -> Type(db, now, c)            [] c.op = "FLUSHDB" -> FlushDb(db, now, c)
      [] c.op = "RENAME" -> Rename(db, now, c)        [] c.op = "MEMORY" -> MemoryUsage(db, now, c)
      [] c.op = "HSET" -> HSet(db, now, c)            [] c.op = "HSETNX" -> HSetNx(db, now, c)
      [] c.op = "HGET" -> HGet(db, now, c)            [] c.op = "HGETALL" -> HGetAll(db, now, c)
      [] c.op = "HDEL" -> HDel(db, now, c)            [] c.op = "HKEYS" -> HKeys(db, now, c)
      [] c.op = "HVALS" -> HVals(db, now, c)          [] c.op = "HSCAN" -> HScan(db, now, c)
      [] c.op = "HLEN" -> HLen(db, now, c)            [] c.op = "HEXISTS" -> HExists(db, now, c)
      [] c.op = "HMGET" -> HMGet(db, now, c)          [] c.op = "HINCRBY" -> HIncrBy(db, now, c)
      [] c.op = "HINCRBYFLOAT" -> HIncrByFloat(db, now, c)
      [] c.op \in {"LPUSH", "RPUSH"} -> Push(db, now, c)
      [] c.op \in {"LPUSHX", "RPUSHX"} -> PushX(db, now, c)
      [] c.op \in {"LPOP", "RPOP"} -> Pop(db, now, c) [] c.op = "LRANGE" -> LRange(db, now, c)
      [] c.op = "LLEN" -> LLen(db, now, c)            [] c.op = "LINDEX" -> LIndex(db, now, c)
      [] c.op = "LSET" -> LSet(db, now, c)            [] c.op = "LREM" -> LRem(db, now, c)
      [] c.op = "LTRIM" -> LTrim(db, now, c)          [] c.op = "SADD" -> SAdd(db, now, c)
      [] c.op = "SREM" -> SRem(db, now, c)            [] c.op = "SMEMBERS" -> SMembers(db, now, c)
      [] c.op = "SSCAN" -> SScan(db, now, c)          [] c.op = "SCARD" -> SCard(db, now, c)
      [] c.op = "SISMEMBER" -> SIsMember(db, now, c)  [] c.op = "SMISMEMBER" -> SMIsMember(db, now, c)
      [] c.op = "SPOP" -> SPop(db, now, c)            [] c.op = "SRANDMEMBER" -> SRandMember(db, now, c)
      [] c.op = "SCOMBINE" -> Combine(db, now, c)     [] c.op = "SCOMBINESTORE" -> CombineStore(db, now, c)
      [] c.op = "SMOVE" -> SMove(db, now, c)          [] c.op = "ZADD" -> ZAdd(db, now, c)
      [] c.op = "ZINCRBY" -> ZIncrBy(db, now, c)      [] c.op = "ZREM" -> ZRem(db, now, c)
      [] c.op \in {"ZRANGE", "ZREVRANGE"} -> ZRange(db, now, c)
      [] c.op \in {"ZRANGEBYSCORE", "ZREVRANGEBYSCORE", "ZCOUNT"} -> ZByScore(db, now, c)
      [] c.op = "ZSCORE" -> ZScore(db, now, c)        [] c.op = "ZMSCORE" -> ZMScore(db, now, c)
      [] c.op \in {"ZRANK", "ZREVRANK"} -> ZRank(db, now, c)
      [] c.op = "ZCARD" -> ZCard(db, now, c)          [] c.op = "ZSCAN" -> ZScan(db, now, c)
      [] c.op = "JSET" -> JSet(db, now, c)            [] c.op = "JGET" -> JGet(db, now, c)
      [] c.op = "JMERGE" -> JMerge(db, now, c)        [] c.op = "RLSET" -> RlSet(db, now, c)
      [] c.op = "RLCHECK" -> RlCheck(db, now, c)
=============================================================================
