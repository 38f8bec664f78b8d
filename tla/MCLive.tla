------------------------------- MODULE MCLive -------------------------------
(* The situations in which TLC checks Live. *)
EXTENDS Live

LeastInt == -8

\* Keys, patterns, channels.
A == <<"a">>
B == <<"b">>
AA == <<"a", "a">>
UnderA == <<"a", "*">>
All == <<"*">>

SetOf(k, v) == [op |-> "SET", key |-> k, val |-> <<v>>, cond |-> "none", get |-> FALSE,
                exp |-> "none", t |-> 0]
SetFor(k, t) == [op |-> "PSETEX", key |-> k, val |-> <<1>>, t |-> t]
DelOf(ks) == [op |-> "DEL", keys |-> ks]
AddTo(k, m) == [op |-> "SADD", key |-> k, members |-> <<m>>]
SetAll(ks) == [op |-> "MSET", pairs |-> SetToSeq({<<k, <<5>>>> : k \in ks})]
PushTo(k, v) == [op |-> "RPUSH", key |-> k, vals |-> <<<<v>>>>]
GetOf(k) == [op |-> "GET", key |-> k]
Flush == [op |-> "FLUSHDB"]

Do(cmd) == [op |-> "DATA", cmd |-> cmd, eset |-> FALSE]
ESet(k) == [op |-> "DATA", cmd |-> SetOf(k, 1), eset |-> TRUE]
QSubTo(p) == [op |-> "QSUB", pattern |-> p]
QUnsubFrom(ps) == [op |-> "QUNSUB", names |-> ps]
WatchOf(ks) == [op |-> "WATCH", names |-> ks]
UnwatchOf(ks) == [op |-> "UNWATCH", names |-> ks]
SubTo(glob, ns) == [op |-> "SUBSCRIBE", glob |-> glob, names |-> ns]
UnsubFrom(glob, ns) == [op |-> "UNSUBSCRIBE", glob |-> glob, names |-> ns]
PublishTo(ch, m) == [op |-> "PUBLISH", channel |-> ch, msg |-> m]
Just(op) == [op |-> op]
SyncWith(scopes) == [op |-> "SYNC", scopes |-> scopes]

Stored(k) == k :> [val |-> <<"str", <<0>>>>, exp |-> Never]
Situation(scripts, writes) ==
    [session |-> <<>>, script |-> scripts, backend |-> writes, data |-> Stored(A),
     strict |-> FALSE, localFirst |-> FALSE, drops |-> 0, wounds |-> 0, ticks |-> 0]
Alone(seq) == 1 :> seq
Both(s, t) == 1 :> s @@ 2 :> t

\* Live queries: breaks, FLUSHDB, collections, too large an answer, overflow, lag.
Queries == <<
    [Situation(Alone(<<QSubTo(UnderA)>>), <<SetOf(A, 1), DelOf(<<A>>), SetOf(AA, 2)>>) EXCEPT !.drops = 1],
    [Situation(Alone(<<QSubTo(All), QUnsubFrom({All})>>), <<AddTo(B, 1), Flush>>) EXCEPT !.drops = 1],
    [Situation(Alone(<<QSubTo(All), QSubTo(UnderA), QSubTo(B)>>), <<SetOf(AA, 1), SetOf(B, 2)>>)
        EXCEPT !.session = <<SyncWith({UnderA})>>],
    Situation(Alone(<<QSubTo(UnderA)>>), <<SetOf(A, 1), SetOf(A, 2), SetOf(AA, 3), SetOf(A, 4)>>) >>

\* The client's own writes, applied before they are sent, also offline, while others write to other
\* keys.
LocalFirst == <<
    [Situation(Both(<<QSubTo(UnderA), Do(SetOf(A, 1))>>, <<Do(SetOf(AA, 3))>>), <<>>)
        EXCEPT !.localFirst = TRUE],
    [Situation(Alone(<<QSubTo(UnderA), Do(SetOf(A, 1))>>), <<SetOf(AA, 2)>>)
        EXCEPT !.localFirst = TRUE, !.drops = 1] >>

\* Lifetimes.
Expiring ==
    <<[Situation(Alone(<<QSubTo(UnderA), Do(GetOf(A))>>), <<SetFor(A, 1), SetOf(AA, 1)>>)
         EXCEPT !.ticks = 1]>>

\* Strict scopes: commands and patterns inside and outside of them, writes of several keys, and
\* scopes that take the place of others under a live query and a watch.
Scoped(scopes, commands, writes) ==
    [Situation(Alone(commands), writes) EXCEPT !.session = <<SyncWith(scopes)>>, !.strict = TRUE]
Strict == <<
    Scoped({UnderA}, <<QSubTo(All), QSubTo(UnderA), Do(SetOf(B, 1)), Do(Flush)>>, <<SetOf(B, 2), SetOf(AA, 2)>>),
    Scoped({UnderA}, <<QSubTo(UnderA)>>, <<SetAll({A, B}), DelOf(<<A, B>>)>>),
    Scoped({UnderA, B}, <<QSubTo(B), SyncWith({UnderA}), QSubTo(B), QSubTo(AA)>>, <<SetOf(AA, 1), SetOf(B, 2)>>),
    Scoped({B}, <<WatchOf({B}), SyncWith({UnderA}), UnwatchOf({B}), WatchOf({A})>>, <<SetOf(B, 2), SetOf(A, 2)>>) >>

\* Transactions under WATCH, against a write of a watched key.
Transactions == <<
    Situation(Alone(<<WatchOf({A}), Just("MULTI"), Do(SetOf(B, 1)), PublishTo(B, 1), Just("EXEC")>>),
              <<SetOf(A, 2)>>),
    Situation(Alone(<<WatchOf({A, B}), UnwatchOf({A}), UnwatchOf({}), WatchOf({A, B, AA}), Just("MULTI"),
                    Just("MULTI"), Do(DelOf(<<A>>)), Just("EXEC"), Just("EXEC")>>), <<SetOf(A, 2)>>),
    Situation(Alone(<<Just("DISCARD"), WatchOf({A}), Just("MULTI"), WatchOf({B}), Do(SetOf(A, 1)),
                    Just("EXEC"), Just("MULTI"), Do(SetOf(A, 3)), Just("DISCARD")>>), <<SetOf(A, 2)>>),
    [Situation(Alone(<<Just("MULTI"), Do(SetOf(B, 1)), Do(SetOf(A, 3)), Just("EXEC")>>), <<>>)
        EXCEPT !.wounds = 1] >>

\* Subscriptions to channels, one more than fits, messages faster than they are sent.
PubSub == <<
    Situation(Both(<<SubTo(FALSE, <<A, B>>), SubTo(TRUE, <<UnderA>>), Do(GetOf(A)),
                    UnsubFrom(FALSE, <<A>>), UnsubFrom(TRUE, <<>>)>>,
                  <<PublishTo(A, 1), PublishTo(AA, 2)>>), <<>>),
    Situation(Both(<<SubTo(FALSE, <<A>>), SubTo(TRUE, <<UnderA>>)>>,
                  <<PublishTo(A, 1), PublishTo(A, 2), PublishTo(A, 3)>>), <<>>) >>

\* Keys that live as long as their connection.
Presence == <<
    [Situation(Both(<<ESet(B)>>, <<ESet(B)>>), <<>>) EXCEPT !.drops = 1],
    [Situation(Alone(<<ESet(B)>>), <<SetOf(B, 2)>>) EXCEPT !.drops = 1, !.wounds = 1] >>

AllScenarios == Queries \o LocalFirst \o Expiring \o Strict \o Transactions \o PubSub \o Presence

\* A client writes to a key under its live query that somebody else has just written to.
OvertakenScenarios ==
    <<[Situation(Alone(<<QSubTo(UnderA), Do(SetOf(A, 1))>>), <<SetOf(A, 2)>>) EXCEPT !.localFirst = TRUE]>>

\* One write of two keys, one of them in scope.
ScopeScenarios == <<Scoped({UnderA}, <<>>, <<SetAll({A, B})>>)>>

\* A live query, and other scopes after it.
NarrowScenarios == <<Scoped({B}, <<QSubTo(B), SyncWith({UnderA})>>, <<SetOf(B, 1), SetOf(B, 2)>>)>>

\* One push to a list under a live query.
DoubleScenarios == <<Situation(Alone(<<QSubTo(UnderA)>>), <<PushTo(AA, 1)>>)>>

\* The second tab of a user.
PresenceScenarios == <<[Situation(Both(<<ESet(B)>>, <<ESet(B)>>), <<>>) EXCEPT !.drops = 1]>>
=============================================================================
