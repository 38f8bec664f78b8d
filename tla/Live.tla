-------------------------------- MODULE Live --------------------------------
(***************************************************************************)
(* What a WebSocket connection hears (handle_ws): mutations through the    *)
(* broadcast channel, changes of watched keys and of live queries, pub/sub *)
(* messages, each through a bounded queue of its own that one select loop  *)
(* drains in any order; and the local copy a client keeps from it          *)
(* (handle_frame of sync-client).  With the registries behind the queues,  *)
(* sync scopes, transactions, and the keys that live as long as their      *)
(* connection (ESET).                                                      *)
(*                                                                         *)
(* Writes are atomic here: the ordering guards are the subject of          *)
(* WriteOrder.                                                             *)
(***************************************************************************)
EXTENDS Propagation, Glob

CONSTANTS
    Clients,           \* clients with a WebSocket connection, numbers
    QueueItems,        \* NOTIFICATION_QUEUE_ITEMS and PUBSUB_QUEUE_ITEMS (256)
    ChannelCapacity,   \* BROADCAST_CHANNEL_CAPACITY (512)
    MaxNames,          \* live queries, watches, subscriptions of a connection
    MaxInitialKeys,    \* max_qsub_initial_keys
    Scenarios          \* situations, a sequence of records
                       \*   [session, script, backend, data, strict, localFirst, drops,
                       \*    wounds, ticks]

ASSUME LiveAssumption ==
    /\ Clients \subseteq Nat \ {0} /\ Clients # {}
    /\ QueueItems \in Nat \ {0} /\ ChannelCapacity \in Nat \ {0}
    /\ MaxNames \in Nat /\ MaxInitialKeys \in Nat

VARIABLES
    scenario, clock, drops,
    data,        \* the keyspace of the server
    healthy, wounds,   \* persistence_is_healthy
    owner,       \* ServerState::ephemeral: key -> connection
    queries, watches, channels, patterns,   \* registries, sets of <<name, connection>>
    conn,        \* client -> its connection, as the server sees it
    closing,     \* connections whose handler has left its loop: [id, keys, stage]
    nextId,
    inbox, wire, \* commands and frames under way
    local, live, \* the client's store, its live queries
    script, backend,   \* what the clients and the TCP connections have still to send
    author,      \* history: key -> the connection whose ESET was its last write
    orphaned     \* history: keys whose deletion at the close was refused

registries == <<queries, watches, channels, patterns>>
socket == <<inbox, wire>>
client == <<local, live, script>>
world == <<scenario, clock, drops, wounds>>
ghosts == <<owner, author, orphaned>>
vars == <<world, data, healthy, ghosts, registries, conn, closing, nextId, socket, client, backend>>

Setup == Scenarios[scenario]
None == 0

\* A connection as handle_ws starts it.  From missed on: history.
NewConn(id, open) ==
    [id |-> id, open |-> open, scopes |-> <<>>,
     qsubs |-> {}, watched |-> {}, chans |-> {}, pats |-> {},
     multi |-> <<>>, dirty |-> FALSE, watchDirty |-> FALSE,
     q |-> <<>>, w |-> <<>>, ps |-> <<>>, b |-> <<>>, lagged |-> FALSE, overflow |-> FALSE,
     missed |-> FALSE, refused |-> {}, older |-> {}]

Using == DOMAIN Setup.script
Named(reg, id) == {r[1] : r \in {x \in reg : x[2] = id}}
Unregistered(reg, id) == {r \in reg : r[2] # id}
Registered(reg, id, names) == reg \cup {<<n, id>> : n \in names}
Names(reg) == {r[1] : r \in reg}
Left(reg, id, names) == reg \ {<<n, id>> : n \in names}
Match(p, k) == GlobMatch(p, k)

Init ==
    /\ scenario \in DOMAIN Scenarios
    /\ clock = 0 /\ drops = 0 /\ wounds = 0 /\ healthy = TRUE
    /\ data = Setup.data
    /\ owner = <<>> /\ author = <<>> /\ orphaned = {}
    /\ queries = {} /\ watches = {} /\ channels = {} /\ patterns = {}
    /\ nextId = Max(Clients) + 1
    /\ conn = [c \in Clients |-> NewConn(c, c \in Using)]
    /\ closing = {}
    /\ inbox = [c \in Clients |-> IF c \in Using THEN Setup.session ELSE <<>>] /\ wire = [c \in Clients |-> <<>>]
    /\ local = [c \in Clients |-> <<>>] /\ live = [c \in Clients |-> {}]
    /\ script = [c \in Clients |-> IF c \in Using THEN Setup.script[c] ELSE <<>>]
    /\ backend = Setup.backend

-----------------------------------------------------------------------------
\* Hearing of a change.

\* notify, send: a queue takes what there is for each of the names its connection is registered
\* under (notes, a function of the name); the name for which it is full loses its registration.
Offer(queue, names, notes) ==
    LET take(n, st, note) ==
            IF n \in st.lost THEN st
            ELSE IF Len(st.queue) < QueueItems THEN [st EXCEPT !.queue = Append(@, note)]
            ELSE [st EXCEPT !.lost = @ \cup {n}]
    IN  FoldLeft(LAMBDA st, n : FoldLeft(LAMBDA s, note : take(n, s, note), st, notes[n]),
                 [queue |-> queue, lost |-> {}], SetToSeq(names))

\* Every connection in a registry, with its queue; an overflow is signalled to its loop.
Hear(cs, reg, field, notes) ==
    LET offer == [c \in Clients |->
                    Offer(cs[c][field], IF cs[c].open THEN Named(reg, cs[c].id) ELSE {}, notes)]
    IN  [conn |-> [c \in Clients |-> [cs[c] EXCEPT ![field] = offer[c].queue,
                                                   !.overflow = @ \/ offer[c].lost # {}]],
         reg  |-> {r \in reg : \A c \in Clients : cs[c].id = r[2] => r[1] \notin offer[c].lost}]

Note(k, val) == [key |-> k, val |-> val]

\* fan_out, to watchers of the keys and to the live queries they match.
FanOut(hub, notes) ==
    LET keyed == Hear(hub.conn, hub.watches, "w",
                      [k \in Names(hub.watches) |-> SelectSeq(notes, LAMBDA n : n.key = k)])
        globbed == Hear(keyed.conn, hub.queries, "q",
                        [p \in Names(hub.queries) |-> SelectSeq(notes, LAMBDA n : Match(p, n.key))])
    IN  [hub EXCEPT !.conn = globbed.conn, !.watches = keyed.reg, !.queries = globbed.reg]

\* notify_flushdb: a watched key is told by name, a live query by its pattern.
NotifyFlushdb(hub) ==
    LET gone(reg) == [n \in Names(reg) |-> <<Note(n, <<>>)>>]
        keyed == Hear(hub.conn, hub.watches, "w", gone(hub.watches))
        globbed == Hear(keyed.conn, hub.queries, "q", gone(hub.queries))
    IN  [hub EXCEPT !.conn = globbed.conn, !.watches = keyed.reg, !.queries = globbed.reg]

\* publish: exact subscribers, then patterns, whose registration an overflow leaves alone.
Published(hub, channel, msg) ==
    LET said  == <<[channel |-> channel, msg |-> msg]>>
        exact == Hear(hub.conn, hub.channels, "ps",
                      [n \in Names(hub.channels) |-> IF n = channel THEN said ELSE <<>>])
        globbed == Hear(exact.conn, hub.patterns, "ps",
                        [p \in Names(hub.patterns) |-> IF Match(p, channel) THEN said ELSE <<>>])
    IN  [hub EXCEPT !.conn = globbed.conn, !.channels = exact.reg]

\* The broadcast channel: who is too far behind loses its place.
Broadcast(cs, msg) ==
    [c \in Clients |->
        IF ~cs[c].open THEN cs[c]
        ELSE IF Len(cs[c].b) < ChannelCapacity THEN [cs[c] EXCEPT !.b = Append(@, msg)]
        ELSE [cs[c] EXCEPT !.lagged = TRUE]]

\* apply_write_effects, for a command that was executed and left d.
WriteEffects(hub, d, c, r, origin) ==
    LET frames == BroadcastFor(c, r, clock)
        notes  == [i \in 1..Cardinality(PrimaryKeys(c)) |->
                      LET k == SetToSeq(PrimaryKeys(c))[i] IN Note(k, ValueOf(d, k, clock))]
        told   == IF c.op = "FLUSHDB" THEN NotifyFlushdb(hub) ELSE FanOut(hub, notes)
    IN  IF frames = <<>> THEN hub
        ELSE [told EXCEPT !.conn = Broadcast(@, [origin |-> origin, keys |-> PrimaryKeys(c),
                                                 frame |-> frames[1]])]

\* One write with its effects: {[hub, data, reply]}.  Frames are of commands without random
\* choice.
Written(hub, d, c, origin) ==
    {[hub |-> WriteEffects(hub, o.db, c, o.reply, origin),
      data |-> o.db, reply |-> o.reply] : o \in Exec(d, clock, c)}

Hub == [conn |-> conn, watches |-> watches, queries |-> queries, channels |-> channels,
        patterns |-> patterns]
Heard(hub) == watches' = hub.watches /\ queries' = hub.queries /\ channels' = hub.channels

\* History: the last write of the keys of a command, by an ESET of connection id or by another
\* command (None).
Wrote(last, c, id) ==
    LET keys == IF c.op = "FLUSHDB" THEN DOMAIN last ELSE PrimaryKeys(c)
    IN  [k \in DOMAIN last \cup keys |-> IF k \in keys THEN id ELSE last[k]]

-----------------------------------------------------------------------------
\* A command of a client, at the server.

Cmd(c) == Head(inbox[c])
Arrives(c, op) == conn[c].open /\ inbox[c] # <<>> /\ Cmd(c).op = op
Answer(c, frames) == /\ inbox' = [inbox EXCEPT ![c] = Tail(@)]
                     /\ wire' = [wire EXCEPT ![c] = @ \o frames]
Reply(what) == <<[kind |-> "reply", answer |-> what]>>

\* scopes_match, for one key.
InScope(scopes, k) == scopes # <<>> /\ \E s \in scopes[1] : Match(s, k)
\* command_scope: the keys of a command, and whether it is about the keyspace as a whole.
KeysOf(m) ==
    CASE m.op \in {"WATCH", "UNWATCH"} -> m.names
      [] m.op = "DATA"  ->
            LET d == m.cmd
            IN  (IF "key" \in DOMAIN d THEN {d.key} ELSE {})
                    \cup (IF "dst" \in DOMAIN d THEN {d.dst} ELSE {})
                    \cup (IF "keys" \in DOMAIN d THEN ToSet(d.keys) ELSE {})
                    \cup (IF "pairs" \in DOMAIN d /\ d.op = "MSET" THEN PrimaryKeys(d) ELSE {})
      [] OTHER -> {}
Admin(m) == m.op = "DATA" /\ m.cmd.op \in {"FLUSHDB", "KEYS", "SCAN", "DBSIZE"}
Denied(c, m) ==
    Setup.strict /\ \/ Admin(m)
                    \/ m.op \in {"DATA", "WATCH", "UNWATCH"} /\ conn[c].scopes = <<>>
                    \/ \E k \in KeysOf(m) : ~InScope(conn[c].scopes, k)

\* Inside MULTI everything but these is queued or refused.
InMulti(c) == conn[c].multi # <<>>
Runs(c, op) == Arrives(c, op) /\ ~Denied(c, Cmd(c)) /\ ~InMulti(c)

\* What a connection was registered for under its scopes so far, and has still to be told of it.
Outstanding(cn) ==
    cn.qsubs \cup cn.watched \cup {n.key : n \in ToSet(cn.q) \cup ToSet(cn.w)}

\* SYNC: a token in strict mode, patterns in open mode.  It takes the place of the scopes before;
\* live queries and watches stay.
Sync(c) ==
    /\ Arrives(c, "SYNC")
    /\ Answer(c, Reply("ok"))
    /\ conn' = [conn EXCEPT ![c].scopes = <<Cmd(c).scopes>>, ![c].older = @ \cup Outstanding(conn[c])]
    /\ UNCHANGED <<world, data, healthy, ghosts, registries, closing, nextId, client, backend>>

\* A command outside the scopes is refused, inside MULTI too, where it poisons nothing.
RefuseScope(c) ==
    /\ conn[c].open /\ inbox[c] # <<>> /\ Denied(c, Cmd(c))
    /\ Answer(c, Reply("noscope"))
    /\ UNCHANGED <<world, data, healthy, ghosts, registries, conn, closing, nextId, client, backend>>

-----------------------------------------------------------------------------
\* Transactions.

Multi(c) ==
    /\ Arrives(c, "MULTI")
    /\ Answer(c, Reply(IF InMulti(c) THEN "error" ELSE "ok"))
    /\ conn' = IF InMulti(c) THEN conn
               ELSE [conn EXCEPT ![c].multi = <<<<>>>>, ![c].dirty = FALSE]
    /\ UNCHANGED <<world, data, healthy, ghosts, registries, closing, nextId, client, backend>>

\* unregister_all_watches and the draining of their queue.
Unwatched(cn) == [cn EXCEPT !.watched = {}, !.w = <<>>, !.watchDirty = FALSE]
Ended(cn) == [Unwatched(cn) EXCEPT !.multi = <<>>, !.dirty = FALSE]

Discard(c) ==
    /\ Arrives(c, "DISCARD")
    /\ Answer(c, Reply(IF InMulti(c) THEN "ok" ELSE "error"))
    /\ conn' = IF InMulti(c) THEN [conn EXCEPT ![c] = Ended(@)] ELSE conn
    /\ watches' = IF InMulti(c) THEN Unregistered(watches, conn[c].id) ELSE watches
    /\ UNCHANGED <<world, data, healthy, ghosts, queries, channels, patterns, closing, nextId,
                   client, backend>>

\* The commands of a transaction, one after the other.  An ESET among them claims nothing.
RECURSIVE RunAll(_, _, _, _)
RunAll(hub, d, cmds, origin) ==
    IF cmds = <<>> THEN {[hub |-> hub, data |-> d]}
    ELSE LET m == Head(cmds)
             outcomes == IF m.op = "PUBLISH"
                         THEN {[hub |-> Published(hub, m.channel, m.msg), data |-> d]}
                         ELSE Written(hub, d, m.cmd, origin)
         IN  UNION {RunAll(o.hub, o.data, Tail(cmds), origin) : o \in outcomes}

\* The check of EXEC under its guards: what the loop has seen, and what is still in the queue.
WatchBroken(cn) == cn.watchDirty \/ cn.w # <<>>

\* Why an EXEC runs nothing.
ExecRefusal(cn) ==
    LET writes == \E i \in DOMAIN cn.multi[1] : cn.multi[1][i].op = "DATA"
                                                  /\ IsWrite(cn.multi[1][i].cmd)
    IN  IF cn.multi = <<>> THEN "error"
        ELSE IF cn.dirty THEN "execabort"
        ELSE IF writes /\ ~healthy THEN "misconf"
        ELSE IF WatchBroken(cn) THEN "nil"
        ELSE "none"

ExecCommand(c) ==
    /\ Arrives(c, "EXEC")
    /\ LET cn == conn[c]
           refusal == ExecRefusal(cn)
       IN  IF refusal # "none"
           THEN /\ Answer(c, Reply(refusal))
                /\ conn' = IF InMulti(c) THEN [conn EXCEPT ![c] = Ended(@)] ELSE conn
                /\ watches' = IF InMulti(c) THEN Unregistered(watches, cn.id) ELSE watches
                /\ UNCHANGED <<data, queries, channels, author>>
           ELSE \E o \in RunAll(Hub, data, cn.multi[1], cn.id) :
                /\ Answer(c, Reply("array"))
                /\ data' = o.data
                /\ conn' = [o.hub.conn EXCEPT ![c] = Ended(@)]
                /\ watches' = Unregistered(o.hub.watches, cn.id)
                /\ queries' = o.hub.queries /\ channels' = o.hub.channels
                /\ author' = FoldLeft(LAMBDA a, m : IF m.op = "DATA" THEN Wrote(a, m.cmd, None) ELSE a,
                                      author, cn.multi[1])
    /\ UNCHANGED <<world, healthy, owner, orphaned, patterns, closing, nextId, client, backend>>

\* A command between MULTI and EXEC.
Queue(c) ==
    /\ conn[c].open /\ inbox[c] # <<>> /\ ~Denied(c, Cmd(c)) /\ InMulti(c)
    /\ Cmd(c).op \notin {"SYNC", "MULTI", "EXEC", "DISCARD"}
    /\ IF Cmd(c).op \in {"DATA", "PUBLISH"}
       THEN /\ Answer(c, Reply("queued"))
            /\ conn' = [conn EXCEPT ![c].multi = <<Append(@[1], Cmd(c))>>]
       ELSE /\ Answer(c, Reply("error"))
            /\ conn' = [conn EXCEPT ![c].dirty = TRUE]
    /\ UNCHANGED <<world, data, healthy, ghosts, registries, closing, nextId, client, backend>>

-----------------------------------------------------------------------------
\* Names a connection is registered under.

Subscribed(cn) == cn.chans \cup cn.pats # {}

Acks(n, what) == [i \in 1..n |-> Reply(what)[1]]

\* max_subscriptions_per_conn, of channels and patterns together.
Room(cn) == Greatest(MaxNames - Cardinality(cn.chans) - Cardinality(cn.pats), 0)

\* SUBSCRIBE and PSUBSCRIBE (glob): an answer for each name.
Subscribe(c) ==
    /\ Runs(c, "SUBSCRIBE")
    /\ LET m     == Cmd(c)
           cn    == conn[c]
           mine  == IF m.glob THEN cn.pats ELSE cn.chans
           fresh == SelectSeq(m.names, LAMBDA n : n \notin mine)
           taken == ToSet(SubSeq(fresh, 1, Least(Len(fresh), Room(cn))))
       IN  /\ conn' = IF m.glob THEN [conn EXCEPT ![c].pats = @ \cup taken]
                                ELSE [conn EXCEPT ![c].chans = @ \cup taken]
           /\ channels' = IF m.glob THEN channels ELSE Registered(channels, cn.id, taken)
           /\ patterns' = IF m.glob THEN Registered(patterns, cn.id, taken) ELSE patterns
           /\ Answer(c, [i \in DOMAIN m.names |->
                            Reply(IF m.names[i] \in mine \cup taken THEN "ack" ELSE "error")[1]])
    /\ UNCHANGED <<world, data, healthy, ghosts, queries, watches, closing, nextId, client, backend>>

\* UNSUBSCRIBE and PUNSUBSCRIBE; what is queued stays queued.
Unsubscribe(c) ==
    /\ Runs(c, "UNSUBSCRIBE")
    /\ LET m    == Cmd(c)
           cn   == conn[c]
           mine == IF m.glob THEN cn.pats ELSE cn.chans
           gone == IF m.names = <<>> THEN mine ELSE ToSet(m.names) \cap mine
       IN  /\ conn' = IF m.glob THEN [conn EXCEPT ![c].pats = @ \ gone]
                                ELSE [conn EXCEPT ![c].chans = @ \ gone]
           /\ channels' = IF m.glob THEN channels ELSE Left(channels, cn.id, gone)
           /\ patterns' = IF m.glob THEN Left(patterns, cn.id, gone) ELSE patterns
           /\ Answer(c, Acks(Greatest(Cardinality(gone), 1), "ack"))
    /\ UNCHANGED <<world, data, healthy, ghosts, queries, watches, closing, nextId, client, backend>>

Publish(c) ==
    /\ Runs(c, "PUBLISH")
    /\ LET hub == Published(Hub, Cmd(c).channel, Cmd(c).msg)
       IN  conn' = hub.conn /\ channels' = hub.channels
    /\ Answer(c, Reply("count"))
    /\ UNCHANGED <<world, data, healthy, ghosts, queries, watches, patterns, closing, nextId, client,
                   backend>>

Watch(c) ==
    /\ Runs(c, "WATCH")
    /\ LET fits == Cardinality(conn[c].watched \cup Cmd(c).names) <= MaxNames
           fresh == Cmd(c).names \ conn[c].watched
       IN  IF fits
           THEN /\ conn' = [conn EXCEPT ![c].watched = @ \cup fresh]
                /\ watches' = Registered(watches, conn[c].id, fresh)
                /\ Answer(c, Reply("ok"))
           ELSE Answer(c, Reply("error")) /\ UNCHANGED <<conn, watches>>
    /\ UNCHANGED <<world, data, healthy, ghosts, queries, channels, patterns, closing, nextId,
                   client, backend>>

\* UNWATCH: with the last watch, what was heard of them is forgotten.
Unwatch(c) ==
    /\ Runs(c, "UNWATCH")
    /\ LET cn == conn[c]
           gone == IF Cmd(c).names = {} THEN cn.watched ELSE Cmd(c).names \cap cn.watched
       IN  /\ conn' = [conn EXCEPT ![c] = IF cn.watched = gone THEN Unwatched(@)
                                          ELSE [@ EXCEPT !.watched = @ \ gone]]
           /\ watches' = Left(watches, cn.id, gone)
    /\ Answer(c, Reply("ok"))
    /\ UNCHANGED <<world, data, healthy, ghosts, queries, channels, patterns, closing, nextId,
                   client, backend>>

\* matching_key_values; initial_qstate refuses what would not be complete.
StateOf(d, p) == [k \in {x \in DOMAIN d : Live(d, x, clock) /\ Match(p, x)} |-> ValueOf(d, k, clock)[1]]

\* QSUB: the snapshot and the registration are one step; the snapshot is the answer.
QSub(c) ==
    /\ Runs(c, "QSUB")
    /\ LET p == Cmd(c).pattern
           cn == conn[c]
           allowed == Setup.strict => /\ cn.scopes # <<>>
                                      /\ \E s \in cn.scopes[1] : ScopeCoversPattern(s, p)
           fits == Cardinality(cn.qsubs \cup {p}) <= MaxNames
           state == StateOf(data, p)
       IN  IF allowed /\ fits /\ Cardinality(DOMAIN state) <= MaxInitialKeys
           THEN /\ conn' = [conn EXCEPT ![c].qsubs = @ \cup {p}]
                /\ queries' = Registered(queries, cn.id, {p} \ cn.qsubs)
                /\ Answer(c, <<[kind |-> "qstate", pattern |-> p, state |-> state]>>)
           ELSE /\ conn' = [conn EXCEPT ![c].refused = @ \cup {p}]
                /\ Answer(c, Reply("error")) /\ UNCHANGED queries
    /\ UNCHANGED <<world, data, healthy, ghosts, watches, channels, patterns, closing, nextId,
                   client, backend>>

\* QUNSUB of some patterns or of all; what is queued for them stays queued.
QUnsub(c) ==
    /\ Runs(c, "QUNSUB")
    /\ LET gone == IF Cmd(c).names = {} THEN conn[c].qsubs ELSE Cmd(c).names \cap conn[c].qsubs
       IN  /\ conn' = [conn EXCEPT ![c].qsubs = @ \ gone]
           /\ queries' = Left(queries, conn[c].id, gone)
    /\ Answer(c, Reply("ok"))
    /\ UNCHANGED <<world, data, healthy, ghosts, watches, channels, patterns, closing, nextId,
                   client, backend>>

-----------------------------------------------------------------------------
\* Data commands.

\* Mutant of Claim: the first owner stays.
ClaimFirst(own, k, id) == IF k \in DOMAIN own THEN own ELSE Put(own, k, id)

\* claim_ephemeral: the newest connection owns the key.
Claim(own, k, id) == Put(own, k, id)

\* execute_ordered_write, of a connection with number id: the write with its effects, and the claim
\* of an ESET.  The keys it is the last to write, for the history.
OrderedWrite(m, id) ==
    \E o \in Written(Hub, data, m.cmd, id) :
        /\ data' = o.data
        /\ conn' = o.hub.conn /\ Heard(o.hub)
        /\ owner' = IF m.eset /\ ~IsError(o.reply) THEN Claim(owner, m.cmd.key, id) ELSE owner
        /\ author' = IF IsError(o.reply) THEN author
                     ELSE Wrote(author, m.cmd, IF m.eset THEN id ELSE None)

Data(c) ==
    /\ Runs(c, "DATA")
    /\ LET m == Cmd(c)
           refused == Subscribed(conn[c]) \/ (IsWrite(m.cmd) /\ ~healthy)
       IN  IF refused \/ ~IsWrite(m.cmd)
           THEN /\ Answer(c, Reply(IF refused THEN "error" ELSE "value"))
                /\ UNCHANGED <<data, conn, watches, queries, channels, owner, author>>
           ELSE OrderedWrite(m, conn[c].id) /\ Answer(c, Reply("done"))
    /\ UNCHANGED <<world, healthy, orphaned, patterns, closing, nextId, client, backend>>

\* The same over TCP, where nobody listens.
Backend ==
    /\ backend # <<>> /\ healthy
    /\ backend' = Tail(backend)
    /\ OrderedWrite([op |-> "DATA", cmd |-> Head(backend), eset |-> FALSE], None)
    /\ UNCHANGED <<world, healthy, orphaned, patterns, closing, nextId, socket, client>>

\* The sweep of the maintenance task: the removal of an expired key is announced to watchers and
\* live queries, and not broadcast.
Sweep ==
    /\ \E k \in DOMAIN data :
        /\ IsExpired(data[k], clock)
        /\ data' = Without(data, {k})
        /\ LET hub == FanOut(Hub, <<Note(k, <<>>)>>)
           IN  conn' = hub.conn /\ watches' = hub.watches /\ queries' = hub.queries
    /\ UNCHANGED <<world, healthy, ghosts, channels, patterns, closing, nextId, socket, client,
                   backend>>

\* Persistence fails, or is repaired by a SAVE.
Wound ==
    /\ healthy => wounds < Setup.wounds
    /\ healthy' = ~healthy
    /\ wounds' = IF healthy THEN wounds + 1 ELSE wounds
    /\ UNCHANGED <<scenario, clock, drops, data, ghosts, registries, conn, closing, nextId, socket,
                   client, backend>>

Tick ==
    /\ clock < Setup.ticks
    /\ clock' = clock + 1
    /\ UNCHANGED <<scenario, drops, wounds, data, healthy, ghosts, registries, conn, closing, nextId,
                   socket, client, backend>>

-----------------------------------------------------------------------------
\* The other arms of the select loop, whenever their queue has something.

Send(c, frames) == wire' = [wire EXCEPT ![c] = @ \o frames]
Keychange(n) == <<[kind |-> "keychange", key |-> n.key, val |-> n.val]>>

\* A mutation of another connection is passed on if one of its keys is in scope; whoever has lagged
\* starts again at the end of the channel.
RecvBroadcast(c) ==
    /\ conn[c].open /\ (conn[c].b # <<>> \/ conn[c].lagged)
    /\ IF conn[c].lagged
       THEN /\ conn' = [conn EXCEPT ![c].b = <<>>, ![c].lagged = FALSE, ![c].missed = TRUE]
            /\ UNCHANGED wire
       ELSE LET m == Head(conn[c].b)
                visible == IF conn[c].scopes = <<>> THEN ~Setup.strict
                           ELSE m.keys = {} \/ \E k \in m.keys : InScope(conn[c].scopes, k)
            IN  /\ conn' = [conn EXCEPT ![c].b = Tail(@)]
                /\ Send(c, IF m.origin # conn[c].id /\ visible
                           THEN <<[kind |-> "push", frame |-> m.frame, keys |-> m.keys]>> ELSE <<>>)
    /\ UNCHANGED <<world, data, healthy, ghosts, registries, closing, nextId, inbox, client, backend>>

RecvPubSub(c) ==
    /\ conn[c].open /\ conn[c].ps # <<>> /\ Subscribed(conn[c])
    /\ conn' = [conn EXCEPT ![c].ps = Tail(@)]
    /\ Send(c, <<[kind |-> "message", message |-> Head(conn[c].ps)]>>)
    /\ UNCHANGED <<world, data, healthy, ghosts, registries, closing, nextId, inbox, client, backend>>

RecvWatch(c) ==
    /\ conn[c].open /\ conn[c].w # <<>> /\ conn[c].watched # {}
    /\ conn' = [conn EXCEPT ![c].w = Tail(@), ![c].watchDirty = TRUE]
    /\ Send(c, Keychange(Head(conn[c].w)))
    /\ UNCHANGED <<world, data, healthy, ghosts, registries, closing, nextId, inbox, client, backend>>

RecvQuery(c) ==
    /\ conn[c].open /\ conn[c].q # <<>> /\ conn[c].qsubs # {}
    /\ conn' = [conn EXCEPT ![c].q = Tail(@)]
    /\ Send(c, Keychange(Head(conn[c].q)))
    /\ UNCHANGED <<world, data, healthy, ghosts, registries, closing, nextId, inbox, client, backend>>

-----------------------------------------------------------------------------
\* The end of a connection.

\* The handler leaves its loop; frames under way are lost.
Leave(c) ==
    /\ conn' = [conn EXCEPT ![c].open = FALSE]
    /\ closing' = closing \cup {[id |-> conn[c].id, keys |-> {}, stage |-> "registered"]}
    /\ wire' = [wire EXCEPT ![c] = <<>>]
    /\ UNCHANGED <<scenario, clock, wounds, data, healthy, ghosts, registries, nextId, inbox, client,
                   backend>>

Overflow(c) == conn[c].open /\ conn[c].overflow /\ Leave(c) /\ UNCHANGED drops

Drop(c) == conn[c].open /\ drops < Setup.drops /\ drops' = drops + 1 /\ Leave(c)

Advance(x, y) == closing' = (closing \ {x}) \cup y

\* Mutant of Unregister: live queries are forgotten.
UnregisterSome(x) ==
    /\ x.stage = "registered"
    /\ Advance(x, {[x EXCEPT !.stage = "owning"]})
    /\ watches' = Unregistered(watches, x.id) /\ UNCHANGED queries
    /\ channels' = Unregistered(channels, x.id) /\ patterns' = Unregistered(patterns, x.id)
    /\ UNCHANGED <<world, data, healthy, ghosts, conn, nextId, socket, client, backend>>

Unregister(x) ==
    /\ x.stage = "registered"
    /\ Advance(x, {[x EXCEPT !.stage = "owning"]})
    /\ watches' = Unregistered(watches, x.id) /\ queries' = Unregistered(queries, x.id)
    /\ channels' = Unregistered(channels, x.id) /\ patterns' = Unregistered(patterns, x.id)
    /\ UNCHANGED <<world, data, healthy, ghosts, conn, nextId, socket, client, backend>>

\* take_ephemeral_for.
TakeEphemeral(x) ==
    /\ x.stage = "owning"
    /\ LET mine == {k \in DOMAIN owner : owner[k] = x.id}
       IN  /\ owner' = Without(owner, mine)
           /\ Advance(x, IF mine = {} THEN {} ELSE {[x EXCEPT !.keys = mine, !.stage = "deleting"]})
    /\ UNCHANGED <<world, data, healthy, author, orphaned, registries, conn, nextId, socket, client,
                   backend>>

\* The deletion of what it owned: a write like any other, refused while persistence is unhealthy.
DeleteEphemeral(x) ==
    /\ x.stage = "deleting"
    /\ Advance(x, {})
    /\ IF healthy
       THEN /\ \E o \in Written(Hub, data, [op |-> "DEL", keys |-> SetToSeq(x.keys)], x.id) :
                 data' = o.data /\ conn' = o.hub.conn /\ Heard(o.hub)
            /\ UNCHANGED orphaned
       ELSE orphaned' = orphaned \cup x.keys /\ UNCHANGED <<data, conn, watches, queries, channels>>
    /\ UNCHANGED <<world, healthy, owner, author, patterns, nextId, socket, client, backend>>

Mutation(m) == m.op = "DATA" /\ IsWrite(m.cmd)

\* Mutant of OnOpen: the live queries are forgotten.
OnOpenScopesOnly(queried, unsent) == Setup.session \o SelectSeq(unsent, Mutation)

\* on_open: the session and the live queries first, then the writes that were not executed (the
\* others are answered DUP).
OnOpen(queried, unsent) ==
    Setup.session
      \o [i \in 1..Cardinality(queried) |-> [op |-> "QSUB", pattern |-> SetToSeq(queried)[i]]]
      \o SelectSeq(unsent, Mutation)

\* The client is back.
Reopen(c) ==
    /\ ~conn[c].open /\ c \in Using
    /\ conn' = [conn EXCEPT ![c] = NewConn(nextId, TRUE)]
    /\ nextId' = nextId + 1
    /\ inbox' = [inbox EXCEPT ![c] = OnOpen(live[c], @)]
    /\ UNCHANGED <<world, data, healthy, ghosts, registries, closing, wire, client, backend>>

-----------------------------------------------------------------------------
\* The client.

\* The next thing an application does.  A browser applies its write before it sends it, and may
\* write while it is offline.
Issue(c) ==
    /\ script[c] # <<>>
    /\ LET m == Head(script[c])
       IN  /\ conn[c].open \/ Mutation(m)
           /\ inbox' = [inbox EXCEPT ![c] = Append(@, m)]
           /\ live' = [live EXCEPT ![c] = CASE m.op = "QSUB" -> @ \cup {m.pattern}
                                            [] m.op = "QUNSUB" -> @ \ m.names
                                            [] OTHER -> @]
           /\ local' = IF Mutation(m) /\ Setup.localFirst
                       THEN [local EXCEPT ![c] = Replay(@, m.cmd, clock)] ELSE local
    /\ script' = [script EXCEPT ![c] = Tail(@)]
    /\ UNCHANGED <<world, data, healthy, ghosts, registries, conn, closing, nextId, wire, backend>>

\* is_replayable_mutation.
Replayable(f) == f.op \notin {"APPEND", "RLSET"}

\* A value as a keychange or a qstate carries it, put in place of what was there.
ApplyValue(db, k, v) == IF v[1] = "rate" THEN db ELSE Put(db, k, Fresh(v))

\* apply_keychange: nothing under the name of a live query is the word for FLUSHDB.
ApplyKeychange(db, queried, m) ==
    IF m.val # <<>> THEN ApplyValue(db, m.key, m.val[1])
    ELSE Without(db, IF m.key \in queried THEN {k \in DOMAIN db : Match(m.key, k)} ELSE {m.key})

\* Mutant of ApplyQstate: what the state does not mention is left alone.
ApplyQstateOnly(db, m) ==
    FoldLeft(LAMBDA d, k : ApplyValue(d, k, m.state[k]), db, SetToSeq(DOMAIN m.state))

\* apply_qstate: what is there, and nothing else under the pattern.
ApplyQstate(db, m) ==
    Without(FoldLeft(LAMBDA d, k : ApplyValue(d, k, m.state[k]), db, SetToSeq(DOMAIN m.state)),
            {k \in DOMAIN db : Match(m.pattern, k)} \ DOMAIN m.state)

\* handle_frame.
Deliver(c) ==
    /\ wire[c] # <<>>
    /\ wire' = [wire EXCEPT ![c] = Tail(@)]
    /\ LET m == Head(wire[c])
       IN  local' = [local EXCEPT ![c] =
               CASE m.kind = "push" -> IF Replayable(m.frame) THEN Replay(@, m.frame, clock) ELSE @
                 [] m.kind = "keychange" -> ApplyKeychange(@, live[c], m)
                 [] m.kind = "qstate" -> ApplyQstate(@, m)
                 [] OTHER -> @]
    /\ UNCHANGED <<world, data, healthy, ghosts, registries, conn, closing, nextId, inbox, live,
                   script, backend>>

-----------------------------------------------------------------------------
Handle(c) ==
    \/ Sync(c) \/ RefuseScope(c) \/ Multi(c) \/ Discard(c) \/ ExecCommand(c) \/ Queue(c)
    \/ Subscribe(c) \/ Unsubscribe(c) \/ Publish(c) \/ Watch(c) \/ Unwatch(c)
    \/ QSub(c) \/ QUnsub(c) \/ Data(c)
\* The select loop of handle_ws.
Loop(c) == \/ Handle(c) \/ RecvBroadcast(c) \/ RecvPubSub(c) \/ RecvWatch(c) \/ RecvQuery(c)
           \/ Overflow(c)
CloseStep == \E x \in closing : Unregister(x) \/ TakeEphemeral(x) \/ DeleteEphemeral(x)

Next ==
    \/ \E c \in Clients : \/ Loop(c) \/ Drop(c) \/ Reopen(c) \/ Issue(c) \/ Deliver(c)
    \/ CloseStep
    \/ Backend \/ Sweep \/ Wound \/ Tick

\* The server goes on while one of its tasks can, the clients reconnect and read what they are sent.
\* Whose turn it is, and which ready arm a loop takes, is left open.
Fairness ==
    /\ WF_vars(CloseStep \/ Sweep \/ \E c \in Clients : Loop(c))
    /\ WF_vars(\E c \in Clients : Reopen(c) \/ Deliver(c))

Spec == Init /\ [][Next]_vars /\ Fairness

-----------------------------------------------------------------------------
\* Properties.

\* The keys of a keyspace that a pattern means, with their values.
Meant(d, p) ==
    [k \in {x \in DOMAIN d : Live(d, x, clock) /\ Matches(p, x)} |-> ValueOf(d, k, clock)[1]]
Swept == \A k \in DOMAIN data : ~IsExpired(data[k], clock)
Agrees(c) == \A p \in conn[c].qsubs \cap live[c] : Meant(local[c], p) = Meant(data, p)
Quiet(c) == /\ conn[c].open /\ ~conn[c].overflow /\ ~conn[c].lagged
            /\ <<>> = conn[c].q \o conn[c].b \o wire[c] \o inbox[c]

\* When nothing is under way, a client has under each of its live queries exactly what the server
\* has: the snapshot and the queue behind it miss nothing and repeat nothing, whatever the order in
\* which the loop drains its queues, through overflows, reconnects, FLUSHDB, expiry and those of the
\* client's own writes whose keys nobody else writes at the time.
QueryConverges == \A c \in Using : Quiet(c) /\ ~conn[c].missed /\ Swept => Agrees(c)

\* And it comes to that once writes stop: a client ends up connected, with each of its live queries
\* answered or refused and in agreement with the server, whatever became of earlier connections.
Settles ==
    <>[](\A c \in Using :
            /\ conn[c].open /\ live[c] \subseteq conn[c].qsubs \cup conn[c].refused
            /\ conn[c].missed \/ Agrees(c))

\* A connection is registered under the names it believes in, until an overflow dooms it, no
\* registration outlives its connection, and queues and numbers of names keep their limits.
RegistryExact ==
    /\ \A c \in Clients :
        /\ {Len(conn[c].q), Len(conn[c].w), Len(conn[c].ps)} \subseteq 0..QueueItems
        /\ Len(conn[c].b) <= ChannelCapacity
        /\ {Cardinality(conn[c].qsubs), Cardinality(conn[c].watched),
            Cardinality(conn[c].chans \X {0} \cup conn[c].pats \X {1})} \subseteq 0..MaxNames
    /\ \A c \in Clients : conn[c].open /\ ~conn[c].overflow =>
        /\ Named(queries, conn[c].id) = conn[c].qsubs
        /\ Named(watches, conn[c].id) = conn[c].watched
        /\ Named(channels, conn[c].id) = conn[c].chans
        /\ Named(patterns, conn[c].id) = conn[c].pats
    /\ \A r \in queries \cup watches \cup channels \cup patterns :
        \/ \E c \in Clients : conn[c].open /\ conn[c].id = r[2]
        \/ \E x \in closing : x.id = r[2] /\ x.stage = "registered"

\* The frames a connection of a strict server is sent, each at the step that sends it.
Sent(c) == {wire'[c][i] : i \in (Len(wire[c]) + 1)..Len(wire'[c])}
EachSent(ok(_, _)) == Setup.strict => \A c \in Using : \A m \in Sent(c) : ok(conn[c], m)

Granted(cn, k) == cn.scopes # <<>> /\ \E s \in cn.scopes[1] : Matches(s, k)
\* A mutation of several keys, some of them in scope, is passed on as it is.
Mixed(cn, m) == \E j, k \in m.keys : Granted(cn, j) /\ ~Granted(cn, k)
\* A live query or a watch from before the last SYNC is not checked against the new scopes.
Older(cn, m) == \E p \in cn.older : Matches(p, m.key)

PushOK(cn, m) == m.kind = "push" => \A k \in m.keys : Granted(cn, k)
QueryOK(cn, m) ==
    /\ m.kind = "keychange" => Granted(cn, m.key)
    /\ m.kind = "qstate" => \A k \in DOMAIN m.state : Granted(cn, k)

\* A strict server tells a connection of no key outside the scopes the connection has at that time,
\* whatever they were when the key was written or its pattern was asked for: all keys of a mutation
\* are in scope unless it mixes keys in scope with others, and those of a live query or a watch
\* unless it is older than the scopes.
TellOK(cn, m) ==
    /\ PushOK(cn, m) \/ Mixed(cn, m)
    /\ QueryOK(cn, m) \/ (m.kind = "keychange" /\ Older(cn, m))
ToldInScope == [][EachSent(TellOK)]_vars

\* The same of every mutation that is pushed.
PushesInScope == [][EachSent(PushOK)]_vars
\* And of everything that live queries and watches tell.
QueriesInScope == [][EachSent(QueryOK)]_vars

\* A key whose last write was the ESET of a connection is gone once that connection is.
Present(id) == \/ \E c \in Clients : conn[c].open /\ conn[c].id = id
               \/ \E x \in closing : x.id = id
NoGhosts ==
    \A k \in DOMAIN author \ orphaned :
        author[k] # None /\ k \in DOMAIN data => Present(author[k])

\* As long as the connection whose ESET was the last write of a key is open, the key is there.
PresenceKept ==
    \A k \in DOMAIN author :
        (\E c \in Clients : conn[c].open /\ conn[c].id = author[k]) => k \in DOMAIN data
=============================================================================
