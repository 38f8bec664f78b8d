------------------------------ MODULE MCStore -------------------------------
(* The situations the store is looked at in: a keyspace, limits, and the commands that *)
(* are sent.                                                                            *)
EXTENDS Store

\* Constructors of commands.
K(op, k) == [op |-> op, key |-> k]
SetC(k, v, cond, get, exp, t) ==
    [op |-> "SET", key |-> k, val |-> v, cond |-> cond, get |-> get, exp |-> exp, t |-> t]
KV(op, k, v) == [op |-> op, key |-> k, val |-> v]
KT(op, k, t) == [op |-> op, key |-> k, t |-> t]
KVT(op, k, v, t) == [op |-> op, key |-> k, val |-> v, t |-> t]
KBy(op, k, n) == [op |-> op, key |-> k, by |-> n]
Ks(op, ks) == [op |-> op, keys |-> ks]
KDst(op, k, d) == [op |-> op, key |-> k, dst |-> d]
KRange(op, k, a, b) == [op |-> op, key |-> k, start |-> a, stop |-> b]
KField(op, k, f) == [op |-> op, key |-> k, field |-> f]
KFields(op, k, fs) == [op |-> op, key |-> k, fields |-> fs]
KMember(op, k, m) == [op |-> op, key |-> k, member |-> m]
KMembers(op, k, ms) == [op |-> op, key |-> k, members |-> ms]
KPage(op, k, cursor, count) ==
    [op |-> op, key |-> k, match |-> 1..9, cursor |-> cursor, count |-> count]
KVals(op, k, vs) == [op |-> op, key |-> k, vals |-> vs]
KCount(op, k, n) == [op |-> op, key |-> k, count |-> n]
ByScore(op, k, min, max, limit) ==
    [op |-> op, key |-> k, min |-> min, max |-> max, limit |-> limit]
ZAddC(k, cond, gt, lt, ch, incr, pairs) ==
    [op |-> "ZADD", key |-> k, cond |-> cond, gt |-> gt, lt |-> lt, ch |-> ch, incr |-> incr,
     pairs |-> pairs]

\* A string that is no numeral.
Word == <<50, 51>>
Entry(type, v, exp) == [val |-> <<type, v>>, exp |-> exp]
Str(v, exp) == Entry("str", v, exp)

\* The least number.
LeastInt == -8

Unlimited == [maxKeys |-> Never, maxMemory |-> Never, policy |-> "noeviction"]
Limits(keys, bytes, policy) == [maxKeys |-> keys, maxMemory |-> bytes, policy |-> policy]
Situation(d, limits, commands, n) ==
    [keys |-> 1..3, data |-> d, limits |-> limits, commands |-> commands, ops |-> n,
     scan |-> FALSE, restarts |-> FALSE, propagates |-> TRUE, prompt |-> TRUE]

-----------------------------------------------------------------------------
StringCommands ==
    {SetC(1, <<2>>, "none", FALSE, "none", 0), SetC(2, <<2>>, "NX", FALSE, "PX", 1),
     SetC(2, Word, "XX", FALSE, "KEEPTTL", 0), SetC(1, Word, "none", TRUE, "EX", 1),
     SetC(2, Word, "none", FALSE, "EXAT", 1),
     SetC(1, Word, "none", FALSE, "PXAT", 1), KV("SETNX", 2, Word), KV("SETNX", 1, Word),
     KVT("SETEX", 2, Word, 1), KVT("PSETEX", 1, Word, 1), KV("GETSET", 2, <<3>>),
     KV("APPEND", 2, Word), KBy("INCRBY", 2, 1), KBy("INCRBY", 1, 3), KBy("DECRBY", 1, MinInt),
     K("GET", 1), K("GET", 2), K("STRLEN", 2), KRange("GETRANGE", 2, -2, 0),
     Ks("MGET", <<1, 2>>), Ks("DEL", <<2, 1, 2>>), [op |-> "MSET", pairs |-> <<<<2, <<1>>>>, <<2, Word>>>>],
     KFields("HDEL", 2, <<1>>)}
KeyCommands ==
    {KT("EXPIRE", 1, 1), KT("PEXPIRE", 2, 2), KT("EXPIREAT", 1, 1), KT("PEXPIREAT", 2, 0),
     K("TTL", 1), K("TTL", 2), K("PTTL", 2), K("PERSIST", 2), Ks("EXISTS", <<1, 2, 1>>),
     [op |-> "KEYS", match |-> 1..3], K("TYPE", 2), [op |-> "FLUSHDB"], KDst("RENAME", 2, 1),
     KDst("RENAME", 1, 3), K("MEMORY", 1), K("MEMORY", 2), SetC(2, <<3>>, "none", FALSE, "none", 0),
     Ks("DEL", <<2>>), K("GET", 2)}
HashCommands ==
    {[op |-> "HSET", key |-> 1, pairs |-> <<<<1, <<4>>>>, <<3, Word>>>>],
     [op |-> "HSET", key |-> 2, pairs |-> <<<<1, <<4>>>>>>],
     [op |-> "HSETNX", key |-> 1, field |-> 2, val |-> Word],
     [op |-> "HSETNX", key |-> 2, field |-> 2, val |-> Word],
     KField("HGET", 1, 2), K("HGETALL", 1), KFields("HDEL", 1, <<1, 2>>), KFields("HDEL", 2, <<1>>),
     K("HKEYS", 1), K("HVALS", 2), KPage("HSCAN", 1, 1, 1), K("HLEN", 2), KField("HEXISTS", 1, 1),
     KFields("HMGET", 2, <<2, 1>>), [op |-> "HINCRBY", key |-> 1, field |-> 1, by |-> 5],
     [op |-> "HINCRBY", key |-> 2, field |-> 2, by |-> 1],
     [op |-> "HINCRBYFLOAT", key |-> 1, field |-> 1, by |-> 1],
     KT("PEXPIRE", 1, 1), K("MEMORY", 1), K("GET", 1)}
ListCommands ==
    {KVals("LPUSH", 1, <<<<1>>, <<2>>>>), KVals("RPUSH", 2, <<<<1>>>>), KVals("LPUSHX", 1, <<Word>>),
     KVals("RPUSHX", 2, <<Word>>), KCount("LPOP", 1, Never), KCount("RPOP", 1, 2),
     KCount("LPOP", 2, 2), KCount("RPOP", 2, Never), KRange("LRANGE", 1, 0, -1),
     KRange("LRANGE", 2, -3, 5), K("LLEN", 2), [op |-> "LINDEX", key |-> 1, idx |-> -1],
     [op |-> "LSET", key |-> 1, idx |-> 1, val |-> <<5>>],
     [op |-> "LSET", key |-> 2, idx |-> 0, val |-> <<5>>],
     [op |-> "LREM", key |-> 1, count |-> -1, val |-> <<1>>],
     [op |-> "LREM", key |-> 2, count |-> 0, val |-> <<1>>],
     KRange("LTRIM", 1, 1, -1), KRange("LTRIM", 2, 1, 0), KT("PEXPIRE", 1, 1), K("MEMORY", 1)}
SetCommands ==
    {KMembers("SADD", 1, <<1, 3, 3>>), KMembers("SADD", 2, <<4>>), KMembers("SREM", 1, <<1, 4>>),
     KMembers("SREM", 2, <<2>>), K("SMEMBERS", 1), KPage("SSCAN", 1, 0, 1), K("SCARD", 2),
     KMember("SISMEMBER", 1, 2), KMembers("SMISMEMBER", 2, <<2, 1>>), KCount("SPOP", 1, Never),
     KCount("SPOP", 2, 2), [op |-> "SRANDMEMBER", key |-> 1, how |-> "one", count |-> 0],
     [op |-> "SRANDMEMBER", key |-> 1, how |-> "many", count |-> 2],
     [op |-> "SRANDMEMBER", key |-> 2, how |-> "many", count |-> -2],
     KMember("SMOVE", 1, 1) @@ [dst |-> 2], KMember("SMOVE", 2, 2) @@ [dst |-> 1],
     KMember("SMOVE", 1, 2) @@ [dst |-> 1], KT("PEXPIRE", 1, 1), K("MEMORY", 1)}
    \cup {[op |-> op, fn |-> f, keys |-> <<1, 2>>, dst |-> 2] :
            op \in {"SCOMBINE", "SCOMBINESTORE"}, f \in {"inter", "union", "diff"}}
ZSetCommands ==
    {ZAddC(1, "none", FALSE, FALSE, FALSE, FALSE, <<<<1, 1>>, <<2, 3>>>>),
     ZAddC(1, "NX", FALSE, FALSE, FALSE, FALSE, <<<<3, 2>>>>),
     ZAddC(1, "XX", FALSE, FALSE, TRUE, FALSE, <<<<3, 2>>, <<1, 4>>>>),
     ZAddC(1, "none", FALSE, FALSE, FALSE, TRUE, <<<<1, 1>>>>),
     ZAddC(2, "none", FALSE, FALSE, FALSE, FALSE, <<<<1, 1>>>>),
     [op |-> "ZINCRBY", key |-> 1, by |-> 2, member |-> 1], KMembers("ZREM", 1, <<1, 4>>),
     KMembers("ZREM", 2, <<1>>), KRange("ZRANGE", 1, 0, -1), KRange("ZREVRANGE", 1, 0, 0),
     KRange("ZRANGE", 2, 0, -1), ByScore("ZRANGEBYSCORE", 1, <<"(", 1>>, <<"+inf">>, <<>>),
     ByScore("ZREVRANGEBYSCORE", 1, <<"-inf">>, <<"[", 2>>, <<0, 1>>),
     ByScore("ZCOUNT", 1, <<"[", 1>>, <<"(", 3>>, <<>>),
     ByScore("ZCOUNT", 2, <<"bad">>, <<"(", 3>>, <<>>), KMember("ZSCORE", 1, 1),
     KMembers("ZMSCORE", 2, <<1, 2>>), KMember("ZRANK", 1, 2), KMember("ZREVRANK", 1, 1),
     K("ZCARD", 1), KPage("ZSCAN", 1, 1, 1), KT("PEXPIRE", 1, 1), K("MEMORY", 1)}
One_ == <<"num", 1>>
Obj(f, d) == <<"obj", [x \in {f} |-> d]>>
JsonCommands ==
    {[op |-> "JSET", key |-> 1, path |-> p, doc |-> d] :
        p \in {<<>>, <<<<"field", 1>>>>, <<<<"field", 2>>>>, <<<<"field", 1>>, <<"field", 2>>>>, <<<<"bad">>>>},
        d \in {One_, Obj(2, JNull)}}
      \cup {[op |-> "JSET", key |-> 2, path |-> <<<<"index", 1>>>>, doc |-> One_],
            [op |-> "JSET", key |-> 2, path |-> <<<<"field", 1>>, <<"field", 2>>>>, doc |-> One_]}
      \cup {[op |-> "JGET", key |-> k, path |-> p] :
              k \in {1, 2}, p \in {<<>>, <<<<"field", 1>>>>, <<<<"field", 2>>, <<"index", 1>>>>, <<<<"bad">>>>}}
      \cup {[op |-> "JMERGE", key |-> k, doc |-> d] :
              k \in {1, 2}, d \in {JNull, One_, Obj(1, JNull), Obj(2, Obj(1, One_)), <<"bad">>}}
      \cup {KT("PEXPIRE", 1, 1), K("MEMORY", 1)}
RateCommands ==
    {[op |-> "RLSET", key |-> k, limit |-> n, t |-> 1] : k \in {1, 2}, n \in {1, 2}}
      \cup {[op |-> "RLCHECK", key |-> k, inline |-> i, limit |-> 2, t |-> t] :
              k \in {1, 2}, i \in BOOLEAN, t \in {1, 2}}
      \cup {K("PTTL", 1), K("PTTL", 2), Ks("DEL", <<1>>), K("MEMORY", 1), K("TYPE", 2)}

Hash == [f \in {1, 2} |-> IF f = 1 THEN <<3>> ELSE Word]
ZSet(index, writes) == [scores |-> (1 :> 2 @@ 2 :> 1), index |-> index, writes |-> writes]
Limiter(n, w, buckets) == [NewLimiter(n, w) EXCEPT !.buckets = buckets]

Families == <<
    Situation(1 :> Str(<<7>>, Never) @@ 2 :> Str(Word, 1), Unlimited, StringCommands, 2),
    Situation(1 :> Str(<<7>>, Never) @@ 2 :> Str(Word, 1), Unlimited, KeyCommands, 2),
    Situation(1 :> Entry("hash", Hash, Never) @@ 2 :> Entry("hash", Hash, 1), Unlimited,
              HashCommands, 2),
    Situation(1 :> Entry("list", <<<<1>>, <<2>>, <<1>>>>, Never) @@ 2 :> Entry("list", <<<<1>>>>, 1),
              Unlimited, ListCommands, 2),
    Situation(1 :> Entry("set", {1, 2}, Never) @@ 2 :> Entry("set", {2}, 1), Unlimited,
              SetCommands, 2),
    Situation(1 :> Entry("zset", ZSet(<<>>, 0), Never) @@ 2 :> Entry("zset", ZSet(<<>>, 0), 1),
              Unlimited, ZSetCommands, 2),
    Situation(1 :> Entry("zset", ZSet(<<{<<2, 1>>, <<1, 2>>}>>, 2), Never), Unlimited,
              ZSetCommands, 2),
    Situation(1 :> Entry("json", Obj(2, <<"arr", <<One_>>>>), Never)
                @@ 2 :> Entry("json", Obj(1, JNull), 1),
              Unlimited, JsonCommands, 2),
    [Situation(1 :> Entry("rate", Limiter(2, 2, <<<<0, 1>>>>), Never)
                 @@ 2 :> Entry("rate", Limiter(1, 2, <<<<0, 1>>>>), 2), Unlimited, RateCommands, 2)
       EXCEPT !.restarts = TRUE]
    >>

-----------------------------------------------------------------------------
\* Commands whose frames do not say what they did.
OddCommands ==
    {SetC(1, Word, "NX", TRUE, "none", 0), SetC(1, Word, "none", FALSE, "EX", 4), SetC(3, Word, "XX", TRUE, "none", 0),
     ZAddC(2, "none", TRUE, FALSE, FALSE, FALSE, <<<<1, 1>>>>),
     ZAddC(2, "none", FALSE, TRUE, TRUE, FALSE, <<<<1, 1>>>>),
     [op |-> "ZINCRBY", key |-> 2, by |-> Inf, member |-> 1],
     ZAddC(2, "none", FALSE, FALSE, FALSE, TRUE, <<<<Inf, 1>>>>),
     [op |-> "HINCRBYFLOAT", key |-> 3, field |-> 1, by |-> Inf],
     [op |-> "JSET", key |-> 3, path |-> <<<<"field", 1>>, <<"index", 1>>>>, doc |-> One_],
     K("GET", 1), KRange("ZRANGE", 2, 0, -1), K("TYPE", 3)}

\* Commands that meet limits.
CapCommands ==
    {SetC(k, v, "none", FALSE, "none", 0) : k \in 1..3, v \in {<<1>>, Word \o Word}}
      \cup {SetC(3, <<1>>, "XX", FALSE, "none", 0), KVT("PSETEX", 3, <<1>>, 1),
            KVT("SETEX", 3, <<1>>, 1), KV("SETNX", 3, <<1>>), KV("APPEND", 2, Word),
            KVals("RPUSH", 3, <<<<1>>, <<2>>>>), Ks("DEL", <<1>>), [op |-> "FLUSHDB"],
            KT("PEXPIRE", 1, 1), K("GET", 1)}
MSets == {[op |-> "MSET", pairs |-> <<<<1, <<1>>>>, <<3, <<1>>>>>>],
          [op |-> "MSET", pairs |-> <<<<2, <<1>>>>, <<3, Word>>>>]}
Two == 1 :> Str(<<1>>, Never) @@ 2 :> Str(<<2>>, 1)
Three == Two @@ 3 :> Str(Word, 2)
Capped(d, limits, commands, faithful) ==
    [Situation(d, limits, commands, 2) EXCEPT !.propagates = faithful]

Capacity == <<
    [Situation(1 :> Str(<<1>>, Never) @@ 2 :> Entry("zset", ZSet(<<>>, 0), Never), Unlimited,
               OddCommands, 2) EXCEPT !.propagates = FALSE],
    Capped(Two, Limits(2, Never, "allkeys-lru"), CapCommands, TRUE),
    Capped(Two, Limits(2, Never, "allkeys-random"), CapCommands \cup MSets, FALSE),
    Capped(Three, Limits(2, Never, "volatile-ttl"), CapCommands \cup MSets, FALSE),
    Capped(Two, Limits(2, Never, "noeviction"), CapCommands \cup MSets, FALSE),
    Capped(Two, Limits(Never, 140, "noeviction"), CapCommands, FALSE),
    Capped(Two, Limits(Never, 140, "allkeys-lru"), CapCommands, TRUE),
    Capped(Two, Limits(Never, 140, "volatile-lru"), CapCommands, TRUE)
    >>

\* Scans while keys come and go.
ScanCommands ==
    {SetC(2, <<1>>, "none", FALSE, "none", 0), Ks("DEL", <<1>>)}
Scans == <<
    [Situation(1 :> Str(<<1>>, Never) @@ 3 :> Str(<<1>>, Never) @@ 4 :> Str(<<1>>, 1)
                 @@ 5 :> Str(<<1>>, Never), Unlimited, ScanCommands, 2)
       EXCEPT !.scan = TRUE, !.keys = 1..5]
    >>

\* Frames that may be replayed at any time: whole values with their deadlines, and
\* changes of keys that have none.
SafeLate ==
    {SetC(1, <<1>>, "none", FALSE, "PX", 1), SetC(1, <<2>>, "none", FALSE, "EX", 1),
     Ks("DEL", <<1>>), KBy("INCRBY", 2, 1)}
Late(d, commands, n) == [Situation(d, Unlimited, commands, n) EXCEPT !.prompt = FALSE]

AllScenarios == Families \o Capacity \o Scans \o <<Late(2 :> Str(<<1>>, Never), SafeLate, 3)>>

\* Counters and deadlines, replayed late.
LateCommands ==
    {SetC(1, <<1>>, "none", FALSE, "PX", 1), KBy("INCRBY", 1, 1), K("PERSIST", 1),
     KT("PEXPIRE", 1, 1)}
LateScenarios == <<Late(<<>>, LateCommands, 3)>>
=============================================================================
