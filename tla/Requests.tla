------------------------------ MODULE Requests ------------------------------
(***************************************************************************)
(* The command parser (Command::from_value in core-engine/src/cmd.rs): a   *)
(* request is a name and a sequence of words, and becomes a command of     *)
(* DataTypes or is refused.  The frames that the AOF and the replicas read *)
(* are requests too, in the words that broadcast_for gives them.           *)
(*                                                                         *)
(* A word is <<"word", w>> (an option), <<"text", x>> (an identifier, 0    *)
(* the empty one), <<"bytes", s>> (a payload), <<"int", n>>, <<"float",    *)
(* x>>, a JSON document, path, score bound or pattern, or the nil bulk     *)
(* string.  Only payloads may be other than UTF-8.                         *)
(***************************************************************************)
EXTENDS Propagation

CONSTANTS
    Texts,          \* the identifiers, numbers
    LongTexts,      \* those of more than MAX_KEY_BYTES
    MaxArray        \* MAX_ARRAY_ELEMENTS

ASSUME RequestsAssumption == Texts \subseteq Nat /\ LongTexts \subseteq Texts /\ MaxArray \in Nat

Opt(w)   == <<"word", w>>
Text(x)  == <<"text", x>>
Bytes(s) == <<"bytes", s>>
Int_(n)  == <<"int", n>>
Float(x) == <<"float", x>>
NilWord  == <<"nil">>
Empty    == 0
LongPattern == <<"long pattern">>

Refused == [op |-> "refused"]

\* A payload that is not UTF-8: one with a symbol past 127.
IsText(w) == ~(w[1] = "bytes" /\ \E i \in DOMAIN w[2] : w[2][i] > 127)

-----------------------------------------------------------------------------
\* Words as arguments.  A kind says what a word must be and what becomes of it.

\* validate_key.
ValidateKey(x) == x # Empty /\ x \notin LongTexts
\* extract_int: i64.
IsInt(w) == w[1] = "int" /\ w[2] \in MinInt..MaxInt

\* extract_key, extract_int, extract_count, extract_float, check_pattern and the bounds
\* that the arms put on numbers.
Fits(kind, w) ==
    CASE kind = "key"     -> w[1] = "text" /\ ValidateKey(w[2])
      [] kind = "int"     -> IsInt(w)
      [] kind = "nat"     -> IsInt(w) /\ w[2] >= 0
      [] kind = "pos"     -> IsInt(w) /\ w[2] >= 1
      [] kind = "draw"    -> IsInt(w) /\ -w[2] <= MaxArray
      [] kind = "float"   -> w[1] \in {"int", "float"}
      [] kind = "pattern" -> w # LongPattern
      [] OTHER            -> TRUE

\* extract_string and extract_bytes with unwrap_or_default: nil is the empty string,
\* which is an identifier, a payload, the root path, and no document and no bound.
Got(kind, w) ==
    IF w # NilWord THEN IF kind = "val" /\ w[1] = "int" THEN <<w[2]>> ELSE w[2]
    ELSE CASE kind = "name"             -> Empty
           [] kind = "pattern"          -> {Empty}
           [] kind \in {"val", "path"}  -> <<>>
           [] kind \in {"doc", "bound"} -> <<"bad">>

\* The kinds that take all words that are left, each of an elementary kind: extract_keys,
\* and filter_map, which drops nils.
Lists == [keys |-> "key", names |-> "name", vals |-> "val"]
\* The kinds of a last argument that may be missing, and what it is then.
Optional == [count |-> Never, root |-> <<>>]
Elementary(kind) ==
    CASE kind \in DOMAIN Lists -> Lists[kind] [] kind = "count" -> "nat" [] kind = "root" -> "path"
      [] OTHER -> kind
Rest(s, i) == SubSeq(s, i, Len(s))
GotAll(kind, ws) ==
    LET there == IF kind = "keys" THEN ws ELSE SelectSeq(ws, LAMBDA w : w # NilWord)
    IN  [i \in DOMAIN there |-> Got(Lists[kind], there[i])]

\* An arm of from_value that takes its arguments in order: shape is a sequence of
\* <<field, kind>>.  need! asks for enough words; what is left over is not looked at.
Arm(op, shape, ws) ==
    LET Kind(i)  == shape[i][2]
        needed   == Cardinality({i \in DOMAIN shape : Kind(i) \notin DOMAIN Optional})
        Mine(i)  == IF Kind(i) \in DOMAIN Lists THEN i..Len(ws) ELSE {i} \cap DOMAIN ws
        fit      == \A i \in DOMAIN shape : \A j \in Mine(i) : Fits(Elementary(Kind(i)), ws[j])
        Value(i) == IF Kind(i) \in DOMAIN Lists THEN GotAll(Kind(i), Rest(ws, i))
                    ELSE IF i > Len(ws) THEN Optional[Kind(i)]
                    ELSE Got(Elementary(Kind(i)), ws[i])
        fields   == {shape[i][1] : i \in DOMAIN shape}
    IN  IF Len(ws) < needed \/ ~fit THEN Refused
        ELSE [op |-> op] @@ [f \in fields |-> Value(CHOOSE i \in DOMAIN shape : shape[i][1] = f)]

-----------------------------------------------------------------------------
\* The arms, family by family.  Some validate their key, some take any text.

Key  == <<"key", "key">>
Name == <<"key", "name">>
Dst  == <<"dst", "name">>
Field == <<"field", "name">>
Member == <<"member", "name">>
Val  == <<"val", "val">>
Vals == <<"vals", "vals">>
Keys == <<"keys", "keys">>
Members == <<"members", "names">>
T(kind) == <<"t", kind>>
Range_ == << <<"start", "int">>, <<"stop", "int">> >>

StringArms ==
    [GET |-> <<Key>>, DEL |-> <<Keys>>, APPEND |-> <<Key, Val>>, STRLEN |-> <<Key>>,
     GETRANGE |-> <<Key>> \o Range_, GETSET |-> <<Key, Val>>, MGET |-> <<Keys>>,
     SETNX |-> <<Key, Val>>, SETEX |-> <<Key, T("pos"), Val>>, PSETEX |-> <<Key, T("pos"), Val>>,
     INCR |-> <<Key>>, DECR |-> <<Key>>, INCRBY |-> <<Key, <<"by", "int">>>>,
     DECRBY |-> <<Key, <<"by", "int">>>>]
ExpiryArms ==
    [EXPIRE |-> <<Name, T("nat")>>, PEXPIRE |-> <<Name, T("nat")>>, EXPIREAT |-> <<Name, T("nat")>>,
     PEXPIREAT |-> <<Name, T("nat")>>, TTL |-> <<Name>>, PTTL |-> <<Name>>, PERSIST |-> <<Name>>]
KeyArms ==
    [EXISTS |-> <<Keys>>, KEYS |-> <<<<"match", "pattern">>>>, FLUSHDB |-> <<>>,
     RENAME |-> <<Name, Dst>>, TYPE |-> <<Name>>]
JsonArms ==
    [JSET |-> <<Key, <<"path", "path">>, <<"doc", "doc">>>>, JGET |-> <<Key, <<"path", "root">>>>,
     JMERGE |-> <<Key, <<"doc", "doc">>>>]
RateArms == [RLSET |-> <<Key, <<"limit", "pos">>, T("pos")>>]
HashArms ==
    [HGET |-> <<Name, Field>>, HGETALL |-> <<Name>>, HDEL |-> <<Key, <<"fields", "names">>>>,
     HKEYS |-> <<Name>>, HVALS |-> <<Name>>, HLEN |-> <<Name>>,
     HINCRBY |-> <<Name, Field, <<"by", "int">>>>, HINCRBYFLOAT |-> <<Name, Field, <<"by", "float">>>>,
     HEXISTS |-> <<Name, Field>>, HSETNX |-> <<Name, Field, Val>>,
     HMGET |-> <<Key, <<"fields", "names">>>>]
ListArms ==
    [LPUSH |-> <<Key, Vals>>, RPUSH |-> <<Key, Vals>>, LPUSHX |-> <<Key, Vals>>, RPUSHX |-> <<Key, Vals>>,
     LPOP |-> <<Key, <<"count", "count">>>>, RPOP |-> <<Key, <<"count", "count">>>>,
     LRANGE |-> <<Name>> \o Range_, LLEN |-> <<Name>>, LINDEX |-> <<Name, <<"idx", "int">>>>,
     LSET |-> <<Name, <<"idx", "int">>, Val>>, LREM |-> <<Name, <<"count", "int">>, Val>>,
     LTRIM |-> <<Name>> \o Range_]
SetArms ==
    [SADD |-> <<Key, Members>>, SMEMBERS |-> <<Name>>, SREM |-> <<Key, Members>>, SCARD |-> <<Name>>,
     SISMEMBER |-> <<Name, Member>>, SMISMEMBER |-> <<Key, Members>>,
     SPOP |-> <<Key, <<"count", "count">>>>, SMOVE |-> <<Name, Dst, Member>>]
ZSetArms ==
    [ZRANGE |-> <<Key>> \o Range_, ZREVRANGE |-> <<Key>> \o Range_, ZSCORE |-> <<Name, Member>>,
     ZMSCORE |-> <<Key, Members>>, ZRANK |-> <<Name, Member>>, ZREVRANK |-> <<Name, Member>>,
     ZREM |-> <<Key, Members>>, ZCARD |-> <<Name>>, ZINCRBY |-> <<Name, <<"by", "float">>, Member>>]
Arms == StringArms @@ ExpiryArms @@ KeyArms @@ JsonArms @@ RateArms @@ HashArms @@ ListArms
          @@ SetArms @@ ZSetArms

-----------------------------------------------------------------------------
\* The arms with a grammar of their own.  A tail parser works on a command in progress.

\* SET's options; a later one replaces an earlier one.
RECURSIVE SetOptions(_, _)
SetOptions(c, ws) ==
    IF ws = <<>> \/ c = Refused THEN c
    ELSE CASE ws[1] \in {Opt("EX"), Opt("PX"), Opt("EXAT"), Opt("PXAT")} ->
                IF Len(ws) < 2 \/ ~Fits("pos", ws[2]) THEN Refused
                ELSE SetOptions([c EXCEPT !.exp = ws[1][2], !.t = ws[2][2]], Rest(ws, 3))
           [] ws[1] = Opt("KEEPTTL") -> SetOptions([c EXCEPT !.exp = "KEEPTTL", !.t = 0], Tail(ws))
           [] ws[1] \in {Opt("NX"), Opt("XX")} -> SetOptions([c EXCEPT !.cond = ws[1][2]], Tail(ws))
           [] ws[1] = Opt("GET") -> SetOptions([c EXCEPT !.get = TRUE], Tail(ws))
           [] OTHER -> Refused
SetArm(ws) ==
    LET c == Arm("SET", <<Key, Val>>, ws)
    IN  IF c = Refused THEN c
        ELSE SetOptions(c @@ [cond |-> "none", get |-> FALSE, exp |-> "none", t |-> 0], Rest(ws, 3))

\* Words two by two.
PairsOf(ws, first, second) ==
    [i \in 1..(Len(ws) \div 2) |-> <<Got(first, ws[2 * i - 1]), Got(second, ws[2 * i])>>]
Paired(ws) == Len(ws) >= 2 /\ Len(ws) % 2 = 0
MSetArm(ws) ==
    IF ~Paired(ws) \/ \E i \in DOMAIN ws : i % 2 = 1 /\ ~Fits("key", ws[i]) THEN Refused
    ELSE [op |-> "MSET", pairs |-> PairsOf(ws, "key", "val")]
\* HSET and HMSET.
HSetArm(ws) ==
    IF ws = <<>> \/ ~Paired(Tail(ws)) \/ ~Fits("key", ws[1]) THEN Refused
    ELSE [op |-> "HSET", key |-> ws[1][2], pairs |-> PairsOf(Tail(ws), "name", "val")]

RECURSIVE ZAddOptions(_, _)
ZAddOptions(c, ws) ==
    IF ws # <<>> /\ ws[1] \in {Opt("NX"), Opt("XX")}
    THEN ZAddOptions([c EXCEPT !.cond = ws[1][2]], Tail(ws))
    ELSE IF ws # <<>> /\ ws[1] = Opt("GT") THEN ZAddOptions([c EXCEPT !.gt = TRUE], Tail(ws))
    ELSE IF ws # <<>> /\ ws[1] = Opt("LT") THEN ZAddOptions([c EXCEPT !.lt = TRUE], Tail(ws))
    ELSE IF ws # <<>> /\ ws[1] = Opt("CH") THEN ZAddOptions([c EXCEPT !.ch = TRUE], Tail(ws))
    ELSE IF ws # <<>> /\ ws[1] = Opt("INCR") THEN ZAddOptions([c EXCEPT !.incr = TRUE], Tail(ws))
    ELSE [c EXCEPT !.pairs = ws]
ZAddArm(ws) ==
    LET c == ZAddOptions([op |-> "ZADD", key |-> Empty, cond |-> "none", gt |-> FALSE, lt |-> FALSE,
                          ch |-> FALSE, incr |-> FALSE, pairs |-> <<>>], Tail(ws))
    IN  IF \/ Len(ws) < 3 \/ ~Fits("key", ws[1]) \/ ~Paired(c.pairs)
           \/ \E i \in DOMAIN c.pairs : i % 2 = 1 /\ ~Fits("float", c.pairs[i])
           \/ c.gt /\ c.lt
           \/ (c.gt \/ c.lt) /\ c.cond = "NX"
           \/ c.incr /\ Len(c.pairs) # 2
        THEN Refused
        ELSE [c EXCEPT !.key = ws[1][2], !.pairs = PairsOf(@, "float", "name")]

\* parse_scan_args, without the layout of the answer.
RECURSIVE ScanOptions(_, _)
ScanOptions(c, ws) ==
    IF ws = <<>> THEN c
    ELSE IF ws[1] = Opt("NOVALUES") /\ c.op = "HSCAN" THEN ScanOptions(c, Tail(ws))
    ELSE IF Len(ws) < 2 THEN Refused
    ELSE CASE ws[1] = Opt("MATCH") /\ Fits("pattern", ws[2]) ->
                ScanOptions([c EXCEPT !.match = IF ws[2] = NilWord THEN Texts ELSE ws[2][2]],
                            Rest(ws, 3))
           [] ws[1] = Opt("COUNT") /\ Fits("pos", ws[2]) ->
                ScanOptions([c EXCEPT !.count = ws[2][2]], Rest(ws, 3))
           [] OTHER -> Refused
ScanArm(op, ws) ==
    LET c == Arm(op, <<Key, <<"cursor", "nat">>>>, ws)
    IN  IF c = Refused THEN c ELSE ScanOptions(c @@ [match |-> Texts, count |-> 10], Rest(ws, 3))

\* parse_zrange_opts; ZREVRANGEBYSCORE has its bounds the other way round.
RECURSIVE ScoreOptions(_, _)
ScoreOptions(c, ws) ==
    IF ws = <<>> THEN c
    ELSE IF ws[1] = Opt("WITHSCORES") THEN ScoreOptions(c, Tail(ws))
    ELSE IF ws[1] = Opt("LIMIT") /\ Len(ws) >= 3 /\ IsInt(ws[2]) /\ IsInt(ws[3])
    THEN ScoreOptions([c EXCEPT !.limit = <<ws[2][2], ws[3][2]>>], Rest(ws, 4))
    ELSE Refused
ByScoreArm(op, ws) ==
    LET min == <<"min", "bound">>
        max == <<"max", "bound">>
        c == Arm(op, CASE op = "ZRANGEBYSCORE"    -> <<Key, min, max>>
                       [] op = "ZREVRANGEBYSCORE" -> <<Key, max, min>>
                       [] op = "ZCOUNT"           -> <<Name, min, max>>, ws)
    IN  IF c = Refused THEN c
        ELSE ScoreOptions(c @@ [limit |-> <<>>], IF op = "ZCOUNT" THEN <<>> ELSE Rest(ws, 4))

\* RLCHECK with or without its limits.
RlCheckArm(ws) ==
    CASE Len(ws) = 1 /\ Fits("key", ws[1]) ->
            [op |-> "RLCHECK", key |-> ws[1][2], inline |-> FALSE, limit |-> 1, t |-> 1]
      [] Len(ws) = 3 -> LET c == Arm("RLCHECK", <<Key, <<"limit", "pos">>, T("pos")>>, ws)
                        IN  IF c = Refused THEN c ELSE c @@ [inline |-> TRUE]
      [] OTHER -> Refused
SRandMemberArm(ws) ==
    LET c == Arm("SRANDMEMBER", <<Key, <<"count", "draw">>>>, IF Len(ws) = 1 THEN Append(ws, Int_(0)) ELSE ws)
    IN  IF c = Refused THEN c ELSE c @@ [how |-> IF Len(ws) = 1 THEN "one" ELSE "many"]
\* MEMORY USAGE key [SAMPLES n].
MemoryArm(ws) ==
    IF /\ Len(ws) \in {2, 4} /\ ws[1] = Opt("USAGE") /\ Fits("key", ws[2])
       /\ Len(ws) = 4 => ws[3] = Opt("SAMPLES") /\ Fits("nat", ws[4])
    THEN [op |-> "MEMORY", key |-> ws[2][2]] ELSE Refused

\* The set operations; their keys are not validated.
Combinations == [SINTER |-> "inter", SUNION |-> "union", SDIFF |-> "diff"]
Stores == [SINTERSTORE |-> "inter", SUNIONSTORE |-> "union", SDIFFSTORE |-> "diff"]
CombineArm(name, ws) ==
    LET keys == <<"keys", "names">>
        c == IF name \in DOMAIN Stores THEN Arm("SCOMBINESTORE", <<Dst, keys>>, ws)
             ELSE Arm("SCOMBINE", <<keys>>, ws)
    IN  IF c = Refused THEN c ELSE c @@ [fn |-> (Combinations @@ Stores)[name]]

-----------------------------------------------------------------------------
\* Mutant of PayloadIndex: HSET's values are looked for where MSET has them.
PayloadIndexShifted(name, i) ==
    CASE name \in {"SET", "ESET", "APPEND", "GETSET", "SETNX"} -> i = 2
      [] name \in {"SETEX", "PSETEX", "HSETNX", "LSET", "LREM"} -> i = 3
      [] name \in {"LPUSH", "RPUSH", "LPUSHX", "RPUSHX"} -> i >= 2
      [] name \in {"HSET", "HMSET", "MSET"} -> i >= 2 /\ i % 2 = 0
      [] OTHER -> FALSE

\* is_payload_index: the arguments, counted from 1, that may hold any bytes.
PayloadIndex(name, i) ==
    CASE name \in {"SET", "ESET", "APPEND", "GETSET", "SETNX"} -> i = 2
      [] name \in {"SETEX", "PSETEX", "HSETNX", "LSET", "LREM"} -> i = 3
      [] name \in {"LPUSH", "RPUSH", "LPUSHX", "RPUSHX"} -> i >= 2
      [] name \in {"HSET", "HMSET"} -> i >= 3 /\ i % 2 = 1
      [] name = "MSET" -> i >= 2 /\ i % 2 = 0
      [] OTHER -> FALSE

\* from_value.  INCR and DECR are steps of 1, UNLINK is DEL, and ESET is a SET to the store.
FromValue(name, ws) ==
    IF \E i \in DOMAIN ws : ~PayloadIndex(name, i) /\ ~IsText(ws[i]) THEN Refused
    ELSE CASE name = "SET" -> SetArm(ws)
           [] name = "ESET" -> SetArm(SubSeq(ws, 1, Least(Len(ws), 2)))
           [] name = "MSET" -> MSetArm(ws)
           [] name \in {"HSET", "HMSET"} -> HSetArm(ws)
           [] name = "ZADD" -> ZAddArm(ws)
           [] name \in {"HSCAN", "SSCAN", "ZSCAN"} -> ScanArm(name, ws)
           [] name \in {"ZRANGEBYSCORE", "ZREVRANGEBYSCORE", "ZCOUNT"} -> ByScoreArm(name, ws)
           [] name = "RLCHECK" -> RlCheckArm(ws)
           [] name = "SRANDMEMBER" -> SRandMemberArm(ws)
           [] name = "MEMORY" -> MemoryArm(ws)
           [] name \in DOMAIN Combinations \cup DOMAIN Stores -> CombineArm(name, ws)
           [] name = "UNLINK" -> Arm("DEL", <<Keys>>, ws)
           [] name \in {"INCR", "DECR"} ->
                LET c == Arm(IF name = "INCR" THEN "INCRBY" ELSE "DECRBY", <<Key>>, ws)
                IN  IF c = Refused THEN c ELSE c @@ [by |-> 1]
           [] name \in DOMAIN Arms -> Arm(name, Arms[name], ws)
           [] OTHER -> Refused

-----------------------------------------------------------------------------
\* broadcast_for's words for the frames of Propagation, as <<name, words>>.

\* What each part of a frame is written as (resp_push).
Written(kind, v) ==
    CASE kind = "text"  -> <<Text(v)>>
      [] kind = "bytes" -> <<Bytes(v)>>
      [] kind = "int"   -> <<Int_(v)>>
      [] kind = "float" -> <<Float(v)>>
      [] kind \in {"path", "doc"} -> <<<<kind, v>>>>
      [] kind = "texts" -> [i \in DOMAIN v |-> Text(v[i])]
      [] kind = "payloads" -> [i \in DOMAIN v |-> Bytes(v[i])]
      [] kind = "count" -> IF v = Never THEN <<>> ELSE <<Int_(v)>>
      [] kind = "values" -> FlattenSeq([i \in DOMAIN v |-> <<Text(v[i][1]), Bytes(v[i][2])>>])
      [] kind = "scores" -> FlattenSeq([i \in DOMAIN v |-> <<Float(v[i][1]), Text(v[i][2])>>])
K_ == <<"key", "text">>
FrameLayout ==
    [DEL |-> <<<<"keys", "texts">>>>, MSET |-> <<<<"pairs", "values">>>>,
     APPEND |-> <<K_, <<"val", "bytes">>>>, PEXPIREAT |-> <<K_, <<"t", "int">>>>, PERSIST |-> <<K_>>,
     FLUSHDB |-> <<>>, RENAME |-> <<K_, <<"dst", "text">>>>, HSET |-> <<K_, <<"pairs", "values">>>>,
     HDEL |-> <<K_, <<"fields", "texts">>>>, LPUSH |-> <<K_, <<"vals", "payloads">>>>,
     RPUSH |-> <<K_, <<"vals", "payloads">>>>, LPOP |-> <<K_, <<"count", "count">>>>,
     RPOP |-> <<K_, <<"count", "count">>>>, LSET |-> <<K_, <<"idx", "int">>, <<"val", "bytes">>>>,
     LREM |-> <<K_, <<"count", "int">>, <<"val", "bytes">>>>,
     LTRIM |-> <<K_, <<"start", "int">>, <<"stop", "int">>>>, SADD |-> <<K_, <<"members", "texts">>>>,
     SREM |-> <<K_, <<"members", "texts">>>>,
     SMOVE |-> <<K_, <<"dst", "text">>, <<"member", "text">>>>,
     SCOMBINESTORE |-> <<<<"dst", "text">>, <<"keys", "texts">>>>,
     ZREM |-> <<K_, <<"members", "texts">>>>,
     ZINCRBY |-> <<K_, <<"by", "float">>, <<"member", "text">>>>,
     JSET |-> <<K_, <<"path", "path">>, <<"doc", "doc">>>>, JMERGE |-> <<K_, <<"doc", "doc">>>>,
     RLSET |-> <<K_, <<"limit", "int">>, <<"t", "int">>>>]
SetWords(c) ==
    <<Text(c.key), Bytes(c.val)>>
      \o (CASE c.exp = "PXAT" -> <<Opt("PXAT"), Int_(c.t)>> [] c.exp = "KEEPTTL" -> <<Opt("KEEPTTL")>>
            [] c.exp = "none" -> <<>>)
ZAddWords(c) ==
    <<Text(c.key)>> \o (IF c.cond = "none" THEN <<>> ELSE <<Opt(c.cond)>>)
      \o (IF c.ch THEN <<Opt("CH")>> ELSE <<>>) \o (IF c.incr THEN <<Opt("INCR")>> ELSE <<>>)
      \o Written("scores", c.pairs)
FrameWords(c) ==
    CASE c.op = "SET"  -> <<"SET", SetWords(c)>>
      [] c.op = "ZADD" -> <<"ZADD", ZAddWords(c)>>
      [] OTHER ->
            <<IF c.op = "SCOMBINESTORE" THEN CHOOSE n \in DOMAIN Stores : Stores[n] = c.fn ELSE c.op,
              FlattenSeq([i \in DOMAIN FrameLayout[c.op] |->
                            Written(FrameLayout[c.op][i][2], c[FrameLayout[c.op][i][1]])])>>
=============================================================================
