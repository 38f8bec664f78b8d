---------------------------- MODULE MCWriteOrder ----------------------------
(* Instances of WriteOrder: the stripe of each key and the commands sent. *)
EXTENDS WriteOrder, TLC

CONSTANTS c1, c2, k1, k2

Symmetry == Permutations(Conns)

Set(k, size) == [op |-> "set", keys |-> {k}, src |-> {}, size |-> size]
Append1(k) == [op |-> "append", keys |-> {k}, src |-> {}, size |-> 1]
Push(k) == [op |-> "push", keys |-> {k}, src |-> {}, size |-> 1]
SAdd(k) == [op |-> "sadd", keys |-> {k}, src |-> {}, size |-> 1]
StoreTo(k, s) == [op |-> "store", keys |-> {k}, src |-> {s}, size |-> 1]
Del(K) == [op |-> "del", keys |-> K, src |-> {}, size |-> 1]
Flush == [op |-> "flush", keys |-> {}, src |-> {}, size |-> 1]

\* Two keys with a stripe each.
TwoStripes == k1 :> 1 @@ k2 :> 2

\* A *STORE and the writes of its source: the log carries the commands, so their
\* order matters.
StoreCommands == {SAdd(k1), StoreTo(k2, k1)}

\* The same with a command of every ordering domain: one key, several keys, all keys.
MixedCommands == {Push(k2), SAdd(k1), StoreTo(k2, k1), Flush}

\* Strings with values that fit the notification queue once, or twice.
StringCommands == {Set(k1, 2), Del({k1, k2})}

\* A value larger than the whole notification queue.
OversizeCommands == {Set(k1, 3), Set(k2, 1)}

\* Writes that can exceed a limit of one key or two bytes, one key at a time.
CappedCommands == {Set(k1, 1), Set(k2, 2), Push(k1)}

\* Two writes that do not fit together, neither in the store nor in a notification queue.
RivalCommands == {Set(k1, 1), Set(k2, 2)}

\* MSET of both keys next to SET.
MSetCommands == {Set(k1, 1), [Set(k1, 1) EXCEPT !.keys = {k1, k2}]}

\* A push onto a key that holds a string.
ConflictingCommands == {Set(k1, 1), Push(k1)}
=============================================================================
