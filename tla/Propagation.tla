---------------------------- MODULE Propagation -----------------------------
(***************************************************************************)
(* What a command that was executed leaves for others: the frame that the  *)
(* AOF, the replicas and the synchronized clients get (broadcast_for), the *)
(* keys that watchers hear of (primary_keys), and the keys the store       *)
(* accounts for (mutation_scope).  A frame is a command again.             *)
(***************************************************************************)
EXTENDS DataTypes

OneKey == {"SET", "APPEND", "GETSET", "SETNX", "SETEX", "PSETEX", "INCRBY", "DECRBY", "EXPIRE",
           "PEXPIRE", "EXPIREAT", "PEXPIREAT", "PERSIST", "HSET", "HDEL", "HSETNX", "HINCRBY",
           "HINCRBYFLOAT", "LPUSH", "RPUSH", "LPUSHX", "RPUSHX", "LPOP", "RPOP", "LSET", "LREM",
           "LTRIM", "SADD", "SREM", "SPOP", "ZADD", "ZREM", "ZINCRBY", "RLSET", "JSET", "JMERGE"}

\* Mutant of PrimaryKeys: RENAME and SMOVE announce the destination only.
PrimaryKeysDst(c) ==
    CASE c.op \in OneKey           -> {c.key}
      [] c.op \in {"SCOMBINESTORE", "RENAME", "SMOVE"} -> {c.dst}
      [] c.op = "DEL"              -> ToSet(c.keys)
      [] c.op = "MSET"             -> {p[1] : p \in ToSet(c.pairs)}
      [] OTHER                     -> {}

\* primary_keys: the keys that are announced.  RLCHECK has none, FLUSHDB is announced
\* in another way.
PrimaryKeys(c) ==
    CASE c.op \in OneKey           -> {c.key}
      [] c.op = "SCOMBINESTORE"    -> {c.dst}
      [] c.op = "DEL"              -> ToSet(c.keys)
      [] c.op = "MSET"             -> {p[1] : p \in ToSet(c.pairs)}
      [] c.op \in {"RENAME", "SMOVE"} -> {c.key, c.dst}
      [] OTHER                     -> {}

\* Mutant of MutationScope: a *STORE command accounts for its sources only.
ScopeOfSources(c) ==
    CASE c.op = "RLCHECK"       -> {c.key}
      [] c.op = "SCOMBINESTORE" -> {c.keys[1]}
      [] OTHER                  -> PrimaryKeys(c)

\* mutation_scope: the keys whose size and index entries are brought up to date.
MutationScope(c) ==
    CASE c.op = "RLCHECK"       -> {c.key}
      [] c.op = "SCOMBINESTORE" -> {c.dst} \cup ToSet(c.keys)
      [] c.op \in {"RENAME", "SMOVE"} -> {c.key, c.dst}
      [] OTHER                  -> PrimaryKeys(c)

\* is_write_command.
IsWrite(c) == c.op = "FLUSHDB" \/ MutationScope(c) # {}

-----------------------------------------------------------------------------
\* broadcast_for: a sequence of at most one frame.

SetFrame(c, val, exp, t) ==
    <<[op |-> "SET", key |-> c.key, val |-> val, cond |-> "none", get |-> FALSE,
       exp |-> exp, t |-> t]>>
ExpireFrame(c, t) == <<[op |-> "PEXPIREAT", key |-> c.key, t |-> t]>>
HSetFrame(c, val) == <<[op |-> "HSET", key |-> c.key, pairs |-> <<<<c.field, val>>>>]>>
SRemFrame(c, members) == <<[op |-> "SREM", key |-> c.key, members |-> members]>>

\* A frame in the command's own words.
Same(c) == <<c>>
\* The frame, if the answer says that something was done.
If(happened, frame) == IF happened THEN frame ELSE <<>>
Positive(r) == r[1] = "int" /\ r[2] > 0

\* Mutant of SetBroadcast: the deadline is sent as it was given.
SetBroadcastRelative(c, r, now) == If(c.get \/ r # Nil, SetFrame(c, c.val, c.exp, c.t))

\* SET: the deadline becomes absolute; with GET the answer does not tell whether the
\* key was set, and the frame is sent in either case.
SetBroadcast(c, r, now) ==
    If(c.get \/ r # Nil,
       CASE c.exp \in {"none", "KEEPTTL"} -> SetFrame(c, c.val, c.exp, 0)
         [] OTHER -> SetFrame(c, c.val, "PXAT", SetDeadline(c, now, Never)))

\* The members SPOP took.
Popped(r) == CASE r[1] = "bulk"  -> <<r[2]>>
               [] r[1] = "array" -> r[2]
               [] OTHER          -> <<>>

\* LPOP and RPOP, also when the answer is an error.
PopBroadcast(c, r) == If(r # Nil /\ r # Many(<<>>), Same(c))

\* ZADD, without GT and LT.
ZAddBroadcast(c) == <<[c EXCEPT !.gt = FALSE, !.lt = FALSE]>>

BroadcastFor(c, r, now) ==
    CASE c.op = "SET"     -> SetBroadcast(c, r, now)
      [] c.op = "SETNX"   -> If(r = Num(1), SetFrame(c, c.val, "none", 0))
      [] c.op = "SETEX"   -> SetFrame(c, c.val, "PXAT", Sat(now + Sat(Second * c.t)))
      [] c.op = "PSETEX"  -> SetFrame(c, c.val, "PXAT", Sat(now + c.t))
      [] c.op = "GETSET"  -> SetFrame(c, c.val, "none", 0)
      [] c.op = "APPEND"  -> If(r[1] = "int", Same(c))
      [] c.op \in {"INCRBY", "DECRBY"} -> If(r[1] = "int", SetFrame(c, <<r[2]>>, "KEEPTTL", 0))
      [] c.op \in {"EXPIRE", "PEXPIRE", "EXPIREAT", "PEXPIREAT"} ->
            If(r = Num(1), ExpireFrame(c, ExpireDeadline(c, now)))
      [] c.op = "PERSIST" -> If(r = Num(1), Same(c))
      [] c.op = "RENAME"  -> If(~IsError(r), Same(c))
      [] c.op = "HINCRBY" -> If(r[1] = "int", HSetFrame(c, <<r[2]>>))
      [] c.op = "HINCRBYFLOAT" -> If(r[1] = "bulk", HSetFrame(c, r[2]))
      [] c.op = "HSETNX"  -> If(r = Num(1), HSetFrame(c, c.val))
      [] c.op \in {"HDEL", "LREM", "SADD", "SREM", "ZREM"} -> If(Positive(r), Same(c))
      [] c.op = "LPUSHX"  -> If(Positive(r), <<[c EXCEPT !.op = "LPUSH"]>>)
      [] c.op = "RPUSHX"  -> If(Positive(r), <<[c EXCEPT !.op = "RPUSH"]>>)
      [] c.op \in {"LPOP", "RPOP"} -> PopBroadcast(c, r)
      [] c.op = "SPOP"    -> If(Popped(r) # <<>>, SRemFrame(c, Popped(r)))
      [] c.op = "SMOVE"   -> If(r = Num(1), Same(c))
      [] c.op = "ZADD"    -> ZAddBroadcast(c)
      [] c.op \in {"LSET", "JSET", "JMERGE"} -> If(r = OK, Same(c))
      [] c.op \in {"DEL", "MSET", "FLUSHDB", "HSET", "LPUSH", "RPUSH", "LTRIM", "SCOMBINESTORE",
                   "ZINCRBY", "RLSET"} -> Same(c)
      [] OTHER -> <<>>

-----------------------------------------------------------------------------
\* Replaying (replay_aof, apply_repl_frame): every frame is executed at the clock of
\* whoever replays it.  Frames are deterministic.

Replay(db, frame, now) == (CHOOSE r \in Exec(db, now, frame) : TRUE).db
ReplayAll(db, frames, now) == FoldLeft(LAMBDA d, f : Replay(d, f, now), db, frames)

-----------------------------------------------------------------------------
\* What a client can see of a keyspace: the live entries, without the sorted sets'
\* indexes.

Plain(e) ==
    IF e.val[1] = "zset"
    THEN [e EXCEPT !.val[2] = [scores |-> @.scores, index |-> <<>>, writes |-> 0]] ELSE e
Visible(db, now) == [k \in {x \in DOMAIN db : Live(db, x, now)} |-> Plain(db[k])]

\* get_current: what a notification carries, nothing for a key that is gone.
ValueOf(d, k, now) == IF Live(d, k, now) THEN <<Plain(d[k]).val>> ELSE <<>>
=============================================================================
