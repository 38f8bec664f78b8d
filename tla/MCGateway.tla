----------------------------- MODULE MCGateway ------------------------------
(* Requests, family by family, to a keyspace that has a key of every kind they are for, one *)
(* of another kind, and one with a deadline.                                                *)
EXTENDS Gateway

K1 == Text(1)
K2 == Text(2)
K3 == Text(3)
NoText == Text(Empty)
LongText == Text(9)
TextSet == 0..5 \cup {9}
Word == <<50, 51>>
Binary == <<200, 201>>
W == Bytes(Word)
Bin == Bytes(Binary)
N(n) == Int_(n)
LeastInt == -8
\* A number no i64 holds.
TooBig == 8

Str(v, exp) == [val |-> <<"str", v>>, exp |-> exp]
Entry(type, v, exp) == [val |-> <<type, v>>, exp |-> exp]
Case(d, requests) == [data |-> d, requests |-> requests, ops |-> 3]

StringRequests ==
    {<<"SET", <<K1, Bin>>>>, <<"SET", <<K2, Bin, Opt("NX"), Opt("PX"), N(1)>>>>,
     <<"SET", <<K2, W, Opt("XX"), Opt("KEEPTTL")>>>>, <<"SET", <<K1, W, Opt("GET"), Opt("EX"), N(1)>>>>,
     <<"SET", <<K2, W, Opt("EXAT"), N(1), Opt("PXAT"), N(2)>>>>, <<"SET", <<K1, NilWord>>>>,
     <<"SET", <<K1, W, Opt("EX")>>>>, <<"SET", <<K1, W, Opt("PX"), N(0)>>>>,
     <<"SET", <<K1, W, Opt("CH")>>>>, <<"SET", <<NoText, W>>>>, <<"SET", <<LongText, W>>>>,
     <<"SET", <<Bin, W>>>>, <<"SET", <<K1>>>>, <<"SET", <<K1, W, Opt("PX"), N(7)>>>>, <<"ESET", <<K3, Bin>>>>,
     <<"SETNX", <<K2, Bin>>>>, <<"SETEX", <<K2, N(1), Bin>>>>, <<"SETEX", <<K2, N(7), Bin>>>>,
     <<"SETEX", <<K2, N(0), W>>>>, <<"PSETEX", <<K1, N(2), Bin>>>>, <<"PSETEX", <<K1, N(TooBig), W>>>>,
     <<"GETSET", <<K2, Bin>>>>, <<"APPEND", <<K2, Bin>>>>, <<"APPEND", <<NilWord, W>>>>,
     <<"INCR", <<K1>>>>, <<"DECR", <<K3>>>>, <<"INCRBY", <<K1, N(2), N(3)>>>>, <<"DECRBY", <<K1, N(LeastInt)>>>>,
     <<"INCRBY", <<K1, N(TooBig)>>>>, <<"GET", <<K1>>>>, <<"STRLEN", <<K2>>>>,
     <<"GETRANGE", <<K2, N(-2), N(0)>>>>, <<"MGET", <<K1, K2>>>>, <<"MGET", <<K1, NilWord>>>>,
     <<"DEL", <<K2, K1, K2>>>>, <<"UNLINK", <<K1>>>>, <<"DEL", <<>>>>, <<"DEL", <<K1, NoText>>>>,
     <<"MSET", <<K2, N(1), K3, Bin>>>>, <<"MSET", <<K2, W, K3>>>>, <<"MSET", <<NoText, W>>>>}
KeyRequests ==
    {<<"EXPIRE", <<K1, N(1)>>>>, <<"EXPIRE", <<K1, N(7)>>>>, <<"PEXPIRE", <<K2, N(2)>>>>,
     <<"PEXPIRE", <<K1, N(7)>>>>, <<"PEXPIRE", <<K1, N(-1)>>>>, <<"EXPIREAT", <<K1, N(1)>>>>,
     <<"EXPIREAT", <<K1, N(5)>>>>, <<"PEXPIREAT", <<K2, N(0)>>>>, <<"PEXPIREAT", <<K1>>>>,
     <<"TTL", <<K1>>>>, <<"PTTL", <<K2>>>>, <<"PERSIST", <<K2>>>>, <<"EXISTS", <<K1, K2, K1>>>>,
     <<"EXISTS", <<NoText>>>>, <<"KEYS", <<<<"pattern", 1..3>>>>>>, <<"KEYS", <<LongPattern>>>>,
     <<"TYPE", <<K2>>>>, <<"FLUSHDB", <<>>>>, <<"RENAME", <<K2, K1>>>>, <<"RENAME", <<K1, NoText>>>>,
     <<"RENAME", <<NoText, K3>>>>, <<"RENAME", <<K1, NilWord>>>>, <<"MEMORY", <<Opt("USAGE"), K1>>>>,
     <<"MEMORY", <<Opt("USAGE"), K2, Opt("SAMPLES"), N(0)>>>>,
     <<"MEMORY", <<Opt("USAGE"), K2, Opt("SAMPLES"), N(-1)>>>>, <<"SHUTDOWN", <<>>>>}
HashRequests ==
    {<<"HSET", <<K1, Text(1), N(4), Text(3), Bin>>>>, <<"HMSET", <<K2, Text(1), Bin>>>>,
     <<"HSET", <<K1, Text(1)>>>>, <<"HSET", <<NoText, Text(1), W>>>>, <<"HSET", <<K1, Bin, W>>>>,
     <<"HSET", <<K1, NoText, W>>>>, <<"HSET", <<K1, NilWord, NilWord>>>>,
     <<"HSETNX", <<K1, Text(3), Bin>>>>, <<"HSETNX", <<NoText, Text(2), W>>>>,
     <<"HGET", <<K1, Text(2)>>>>, <<"HGETALL", <<K1>>>>, <<"HDEL", <<K1, Text(1), Text(2)>>>>,
     <<"HDEL", <<K1, NilWord>>>>, <<"HDEL", <<K1>>>>, <<"HKEYS", <<K1>>>>, <<"HVALS", <<K2>>>>,
     <<"HSCAN", <<K1, N(1), Opt("COUNT"), N(1), Opt("NOVALUES")>>>>,
     <<"HSCAN", <<K1, N(0), Opt("MATCH"), NilWord>>>>, <<"HSCAN", <<K1, N(-1)>>>>,
     <<"HLEN", <<K2>>>>, <<"HEXISTS", <<K1, Text(1)>>>>, <<"HMGET", <<K2, Text(2), NilWord>>>>,
     <<"HINCRBY", <<K1, Text(1), N(2)>>>>, <<"HINCRBY", <<NoText, Text(1), N(2)>>>>,
     <<"HINCRBY", <<LongText, Text(1), N(2)>>>>, <<"HINCRBY", <<K1, Text(1), Float(2)>>>>,
     <<"HINCRBYFLOAT", <<K1, Text(1), Float(1)>>>>, <<"HINCRBYFLOAT", <<NilWord, Text(1), N(1)>>>>,
     <<"HINCRBYFLOAT", <<K1, Text(1), W>>>>, <<"PEXPIRE", <<K1, N(1)>>>>}
ListRequests ==
    {<<"LPUSH", <<K1, Bin, N(2)>>>>, <<"RPUSH", <<K2, NilWord, N(1)>>>>, <<"RPUSH", <<K3, NilWord>>>>,
     <<"LPUSH", <<K1>>>>, <<"LPUSHX", <<K1, Bin>>>>, <<"RPUSHX", <<K2, W>>>>, <<"LPUSHX", <<K1, NilWord>>>>,
     <<"LPOP", <<K1>>>>, <<"RPOP", <<K1, N(2)>>>>, <<"LPOP", <<K2, N(-1)>>>>, <<"RPOP", <<K2, N(0)>>>>,
     <<"LRANGE", <<K1, N(0), N(-1)>>>>, <<"LLEN", <<K2>>>>, <<"LINDEX", <<K1, N(-1)>>>>,
     <<"LSET", <<K1, N(1), Bin>>>>, <<"LSET", <<K1, W, Bin>>>>, <<"LREM", <<K1, N(-1), N(1)>>>>,
     <<"LREM", <<K1, N(0), NilWord>>>>, <<"LTRIM", <<K1, N(1), N(-1)>>>>, <<"PEXPIRE", <<K1, N(1)>>>>,
     <<"LPUSH", <<Text(4), W>>>>}
SetRequests ==
    {<<"SADD", <<K1, Text(1), Text(3), Text(3)>>>>, <<"SADD", <<K2, NilWord>>>>, <<"SADD", <<K1, Bin>>>>,
     <<"SADD", <<K1, NoText>>>>, <<"SREM", <<K1, Text(1), Text(4)>>>>, <<"SREM", <<K2>>>>, <<"SMEMBERS", <<K1>>>>,
     <<"SSCAN", <<K1, N(0), Opt("COUNT"), N(1)>>>>, <<"SSCAN", <<K1, N(0), Opt("NOVALUES")>>>>,
     <<"SSCAN", <<K1, N(0), Opt("COUNT"), N(0)>>>>, <<"SSCAN", <<K1, N(0), Opt("MATCH"), <<"pattern", 1..2>>>>>>,
     <<"SCARD", <<K2>>>>, <<"SISMEMBER", <<K1, Text(2)>>>>, <<"SMISMEMBER", <<K2, Text(2), Text(1)>>>>,
     <<"SPOP", <<K1>>>>, <<"SPOP", <<K1, N(2)>>>>, <<"SPOP", <<K1, N(-1)>>>>, <<"SRANDMEMBER", <<K1>>>>,
     <<"SRANDMEMBER", <<K1, N(-2)>>>>, <<"SRANDMEMBER", <<K1, N(-3)>>>>, <<"SMOVE", <<K1, K2, Text(1)>>>>,
     <<"SMOVE", <<K1, NoText, Text(2)>>>>, <<"SMOVE", <<NoText, K1, Text(2)>>>>, <<"SMOVE", <<K1, K2>>>>,
     <<"PEXPIRE", <<K1, N(1)>>>>, <<"SINTER", <<K1, K2>>>>, <<"SDIFF", <<K1, K2>>>>, <<"SUNION", <<>>>>}
      \cup {<<op, ws>> : op \in DOMAIN Stores,
                         ws \in {<<K2, K1, K2>>, <<NilWord, K1>>, <<K2, NilWord>>, <<K2>>}}
ZSetRequests ==
    {<<"ZADD", <<K1, Float(1), Text(1), N(2), Text(3)>>>>, <<"ZADD", <<K1, Opt("NX"), Float(2), Text(3)>>>>,
     <<"ZADD", <<K1, Opt("XX"), Opt("CH"), Float(2), Text(3), Float(4), Text(1)>>>>,
     <<"ZADD", <<K1, Opt("INCR"), Float(1), Text(1)>>>>,
     <<"ZADD", <<K1, Opt("INCR"), Float(1), Text(1), Float(1), Text(2)>>>>,
     <<"ZADD", <<K1, Opt("GT"), Opt("LT"), Float(1), Text(1)>>>>,
     <<"ZADD", <<K1, Opt("NX"), Opt("GT"), Float(1), Text(1)>>>>,
     <<"ZADD", <<K1, Float(1)>>>>, <<"ZADD", <<K1, Opt("NX"), Opt("CH")>>>>, <<"ZADD", <<K2, W, Text(1)>>>>,
     <<"ZADD", <<K2, Float(Inf), NilWord>>>>, <<"ZADD", <<NoText, Float(1), Text(1)>>>>,
     <<"ZINCRBY", <<K1, Float(2), Text(1)>>>>, <<"ZINCRBY", <<NoText, Float(2), Text(1)>>>>,
     <<"ZREM", <<K1, Text(1), Text(4)>>>>, <<"ZREM", <<K2, NilWord>>>>, <<"ZRANGE", <<K1, N(0), N(-1), Opt("WITHSCORES")>>>>,
     <<"ZREVRANGE", <<K1, N(0), N(0)>>>>,
     <<"ZRANGEBYSCORE", <<K1, <<"bound", <<"(", 1>>>>, <<"bound", <<"+inf">>>>, Opt("LIMIT"), N(0), N(1)>>>>,
     <<"ZREVRANGEBYSCORE", <<K1, <<"bound", <<"[", 2>>>>, <<"bound", <<"-inf">>>>, Opt("WITHSCORES")>>>>,
     <<"ZRANGEBYSCORE", <<K1, NilWord, <<"bound", <<"+inf">>>>>>>>,
     <<"ZRANGEBYSCORE", <<K1, <<"bound", <<"(", 1>>>>, <<"bound", <<"+inf">>>>, Opt("LIMIT"), N(0)>>>>,
     <<"ZCOUNT", <<K1, <<"bound", <<"[", 1>>>>, <<"bound", <<"(", 3>>>>>>>>, <<"ZSCORE", <<K1, Text(1)>>>>,
     <<"ZMSCORE", <<K1, Text(1), Text(2)>>>>, <<"ZRANK", <<K1, Text(2)>>>>, <<"ZREVRANK", <<K1, Text(1)>>>>,
     <<"ZCARD", <<K1>>>>, <<"ZSCAN", <<K1, N(1), Opt("COUNT"), N(1)>>>>, <<"PEXPIRE", <<K1, N(1)>>>>}
One_ == <<"num", 1>>
Obj(f, d) == <<"obj", [x \in {f} |-> d]>>
Doc(d) == <<"doc", d>>
Path(p) == <<"path", p>>
JsonRequests ==
    {<<"JSET", <<K1, Path(p), Doc(d)>>>> :
        p \in {<<>>, <<<<"field", 1>>>>, <<<<"bad">>>>}, d \in {One_, Obj(2, JNull), <<"bad">>}}
      \cup {<<"JSET", <<K1, NilWord, Doc(One_)>>>>, <<"JSET", <<K1, Path(<<>>), NilWord>>>>,
            <<"JSET", <<K1, Path(<<>>)>>>>, <<"JSET", <<K1, Path(<<>>), Bin>>>>, <<"JSET", <<NoText, Path(<<>>), Doc(One_)>>>>,
            <<"JGET", <<K1>>>>, <<"JGET", <<K2, Path(<<<<"field", 1>>>>)>>>>, <<"JMERGE", <<K1, Doc(JNull)>>>>,
            <<"JMERGE", <<K2, Doc(Obj(1, JNull))>>>>, <<"JMERGE", <<K2, NilWord>>>>, <<"PEXPIRE", <<K1, N(1)>>>>}
RateRequests ==
    {<<"RLSET", <<K1, N(2), N(1)>>>>, <<"RLSET", <<K3, N(7), N(7)>>>>, <<"RLSET", <<K1, N(0), N(1)>>>>,
     <<"RLSET", <<K1, N(1)>>>>, <<"RLCHECK", <<K1>>>>, <<"RLCHECK", <<K2, N(2), N(1)>>>>, <<"RLCHECK", <<K2, N(2)>>>>,
     <<"RLCHECK", <<NoText>>>>, <<"RLCHECK", <<K2, N(1), N(0)>>>>, <<"PTTL", <<K2>>>>, <<"DEL", <<K1>>>>}

Hash == [f \in {1, 2} |-> IF f = 1 THEN <<3>> ELSE Word]
ZSet == [NewZSet EXCEPT !.scores = (1 :> 2 @@ 2 :> 1)]
Both(type, v, w) == 1 :> Entry(type, v, Never) @@ 2 :> Entry(type, w, 1)

AllCases == <<
    Case(Both("str", <<3>>, Word), StringRequests),
    Case(Both("str", <<3>>, Word), KeyRequests),
    Case(Both("hash", Hash, Hash), HashRequests),
    Case(Both("list", <<<<1>>, <<2>>, <<1>>>>, <<<<1>>>>) @@ 4 :> Str(Word, Never), ListRequests),
    Case(Both("set", {1, 2}, {2}), SetRequests),
    Case(Both("zset", ZSet, ZSet), ZSetRequests),
    Case(Both("json", Obj(2, <<"arr", <<One_>>>>), Obj(1, JNull)), JsonRequests),
    Case(Both("rate", NewLimiter(2, 2), NewLimiter(1, 2)), RateRequests) >>

\* Deadlines far ahead.
DeadlineCases ==
    <<Case(Both("str", <<3>>, Word), {<<"SET", <<K1, W, Opt("PX"), N(7)>>>>, <<"EXPIRE", <<K1, N(2)>>>>,
                                     <<"PSETEX", <<K1, N(2), W>>>>, <<"GET", <<K1>>>>})>>
=============================================================================
