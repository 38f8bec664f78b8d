----------------------------- MODULE EdgeClient -----------------------------
(***************************************************************************)
(* The write path of a client from end to end: the two adapters of         *)
(* SyncClient (the task of recached-embed, the browser glue of wasm-edge   *)
(* with its IndexedDB), sockets that break at any point, and the server's  *)
(* DEDUP envelope.  A socket the client has given up on may still hold     *)
(* commands that the server executes, next to those of its successor.      *)
(***************************************************************************)
EXTENDS SyncClient

CONSTANTS
    Tabs,        \* clients; browser tabs of one origin share their IndexedDB
    Keys,        \* keys of the local store
    MaxWrites, MaxSockets,   \* bounds on the writes and on the connections of a behaviour
    Scenarios,   \* situations, a sequence of records [mode, password, keys, writes,
                 \*   sockets, mishaps, faults, commands, ttls, ticks, compactAt]
    NoKey        \* the value of a key that is not there

ASSUME EdgeClientAssumption ==
    /\ MaxWrites \in Nat /\ MaxSockets \in Nat
    /\ \A i \in DOMAIN Scenarios : /\ Scenarios[i].keys \subseteq Keys
                                    /\ Scenarios[i].ttls \subseteq Nat
                                    /\ Scenarios[i].password \in BOOLEAN
                                    /\ Scenarios[i].writes <= MaxWrites
                                    /\ Scenarios[i].sockets <= MaxSockets

VARIABLES
    scenario,
    core,        \* the SyncClient of every tab
    phase,       \* how far a tab has come: closed, a step of enable_persistence, ready
    conn,        \* its socket, 0 when there is none
    waiters,     \* embed: who awaits the answers, one slot per frame sent
    channel,     \* embed: it has a subscription, which the adapter renews
    tasks,       \* browser: IndexedDB transactions on the way, in order
    local, walSeq,  \* browser: the store of the tab, the next key of its log
    idb,         \* [client, epoch, rows, wal], rows and log as number -> content
    up, down,    \* per socket: commands the server has not read, frames the client has not
    auth, subscribed,     \* per socket, at the server
    mark, refusing,       \* high-water marks; the server refuses writes for now
    clock, spent, commands,   \* time; faults and session commands so far
    issued,      \* history: the writes, in order of issue
    applied,     \* history: the writes the server executed, in that order
    fate,        \* history: what became of each write
    told,        \* history: what its caller was told
    skewed,      \* history: the outbox was cleared while answers were on their way
    journal      \* history: key -> the last write of it that reached the log

client == <<core, phase, conn, waiters, channel>>
browser == <<tasks, local, walSeq, idb, journal>>
network == <<up, down, auth, subscribed>>
server == <<mark, refusing, applied>>
bounds == <<scenario, clock, spent, commands>>
history == <<issued, fate, told, skewed>>
vars == <<client, browser, network, server, bounds, history>>

Setup == Scenarios[scenario]
Browser == Setup.mode = "browser"

Connected(t) == conn[t] # 0
Ready(t) == phase[t] = "ready"

\* The things that go wrong, few of them in one behaviour.
Fault(kind) == kind \in Setup.faults /\ spent < Setup.mishaps /\ spent' = spent + 1

Mark(K, what) == [w \in DOMAIN fate |-> IF w \in K THEN fate[w] \cup {what} ELSE fate[w]]
\* An answer reaches its client: noted of a refusal.
Heard(m) ==
    IF m.kind = "reply" /\ m.answer = "error" THEN Mark({m.frame.write}, "heard") ELSE fate
WritesOf(rows) == {rows[i].frame.write : i \in DOMAIN rows} \ {None}

-----------------------------------------------------------------------------
\* IndexedDB: transactions run in the order in which they were asked for.

PutRow(id, frame) == [kind |-> "put", id |-> id, frame |-> frame]
DeleteRow(id) == [kind |-> "delete", id |-> id]
AppendLog(seq, write) == [kind |-> "append", id |-> seq, write |-> write]
ClearAll == [kind |-> "clear"]

Entry(seq, write) == [key |-> issued[write].key, val |-> write, ttl |-> issued[write].ttl]
Without(f, x) == [y \in DOMAIN f \ {x} |-> f[y]]
With(f, x, v) == [y \in DOMAIN f \cup {x} |-> IF y = x THEN v ELSE f[y]]

\* One transaction of a tab commits.
Commit(t) ==
    /\ tasks[t] # <<>>
    /\ tasks' = [tasks EXCEPT ![t] = Tail(@)]
    /\ LET task == Head(tasks[t])
       IN  CASE task.kind = "put" ->
                    idb' = [idb EXCEPT !.rows = With(@, task.id, task.frame)] /\ UNCHANGED journal
             [] task.kind = "delete" ->
                    idb' = [idb EXCEPT !.rows = Without(@, task.id)] /\ UNCHANGED journal
             [] task.kind = "append" ->
                    /\ idb' = [idb EXCEPT !.wal = With(@, task.id, Entry(task.id, task.write))]
                    /\ journal' = [journal EXCEPT ![issued[task.write].key] = task.write]
             [] task.kind = "clear" ->
                    /\ idb' = [idb EXCEPT !.rows = <<>>, !.wal = <<>>]
                    /\ journal' = [k \in Keys |-> NoKey]
    /\ UNCHANGED <<client, local, walSeq, network, server, bounds, history>>

\* The content of a number -> content store, in the order of its numbers.
Nth(S, i) == CHOOSE n \in S : Cardinality({m \in S : m < n}) = i - 1
InOrder(f) == [i \in 1..Cardinality(DOMAIN f) |-> f[Nth(DOMAIN f, i)]]

-----------------------------------------------------------------------------
\* A tab starts.  enable_persistence is a chain of awaited transactions; createCache lets the
\* application at the cache only after the last of them.

Blank == [k \in Keys |-> [val |-> NoKey, exp |-> 0]]

Init ==
    /\ scenario \in DOMAIN Scenarios
    /\ core = [t \in Tabs |-> NewClient(None, FALSE)]
    /\ phase = [t \in Tabs |-> "closed"]
    /\ conn = [t \in Tabs |-> 0]
    /\ waiters = [t \in Tabs |-> <<>>]
    /\ channel = [t \in Tabs |-> FALSE]
    /\ tasks = [t \in Tabs |-> <<>>]
    /\ local = [t \in Tabs |-> Blank]
    /\ walSeq = [t \in Tabs |-> 0]
    /\ idb = [client |-> None, epoch |-> 0, rows |-> <<>>, wal |-> <<>>]
    /\ journal = [k \in Keys |-> NoKey]
    /\ up = <<>> /\ down = <<>> /\ auth = <<>> /\ subscribed = <<>>
    /\ mark = <<>> /\ refusing = FALSE /\ applied = <<>>
    /\ clock = 0 /\ spent = 0 /\ commands = 0
    /\ issued = <<>> /\ fate = <<>> /\ told = <<>> /\ skewed = FALSE

\* A client id nobody has had: a random one.  mark knows every id that was ever used.
FreshClient == Len(mark) + 1

Opened(t, next) ==
    /\ phase[t] = "closed"
    /\ core' = [core EXCEPT ![t] = NewClient(FreshClient, Setup.password)]
    /\ mark' = Append(mark, None)
    /\ phase' = [phase EXCEPT ![t] = next]
    /\ UNCHANGED <<conn, waiters, channel, browser, network, refusing, applied, bounds, history>>
OpenBrowser(t) == Browser /\ Opened(t, "identity")
OpenEmbed(t) == ~Browser /\ Opened(t, "ready")

AdoptIdentity(t) ==
    /\ phase[t] = "identity"
    /\ IF idb.client # None
       THEN core' = [core EXCEPT ![t] = AdoptClientId(@, idb.client)] /\ UNCHANGED idb
       ELSE idb' = [idb EXCEPT !.client = core[t].client] /\ UNCHANGED core
    /\ phase' = [phase EXCEPT ![t] = "epoch"]
    /\ UNCHANGED <<conn, waiters, channel, tasks, local, walSeq, journal, network, server, bounds,
                   history>>

ReadEpoch(t) ==
    /\ phase[t] = "epoch"
    /\ core' = [core EXCEPT ![t].epoch = idb.epoch + 1]
    /\ phase' = [phase EXCEPT ![t] = "bump"]
    /\ UNCHANGED <<conn, waiters, channel, browser, network, server, bounds, history>>

BumpEpoch(t) ==
    /\ phase[t] = "bump"
    /\ idb' = [idb EXCEPT !.epoch = core[t].epoch]
    /\ phase' = [phase EXCEPT ![t] = "outbox"]
    /\ UNCHANGED <<core, conn, waiters, channel, tasks, local, walSeq, journal, network, server,
                   bounds, history>>

RestoreRows(t) ==
    /\ phase[t] = "outbox"
    /\ LET frames == InOrder(idb.rows)
           rows == [i \in 1..Len(frames) |-> [id |-> i, frame |-> frames[i]]]
       IN  core' = [core EXCEPT ![t] = RestoreOutbox(@, rows)]
    /\ phase' = [phase EXCEPT ![t] = "replace"]
    /\ UNCHANGED <<conn, waiters, channel, browser, network, server, bounds, history>>

\* idbOutboxReplace: the rows under their new numbers, in one transaction.
ReplaceRows(t) ==
    /\ phase[t] = "replace"
    /\ LET outbox == core[t].outbox
       IN  idb' = [idb EXCEPT !.rows =
                       [id \in {outbox[i].id : i \in DOMAIN outbox} |->
                           (CHOOSE row \in ToSet(outbox) : row.id = id).frame]]
    /\ phase' = [phase EXCEPT ![t] = "log"]
    /\ UNCHANGED <<core, conn, waiters, channel, tasks, local, walSeq, journal, network, server,
                   bounds, history>>

\* Executing the commands of a log now.
Deadline(ttl) == IF ttl = 0 THEN 0 ELSE clock + ttl
Expired(e) == e.exp # 0 /\ e.exp <= clock
Execute(st, c) == [st EXCEPT ![c.key] = [val |-> c.val, exp |-> Deadline(c.ttl)]]
Hydrate(log) ==
    LET st[i \in 0..Len(log)] == IF i = 0 THEN Blank ELSE Execute(st[i - 1], log[i])
    IN  st[Len(log)]

\* snapshot_to_resp_cmds: one command per live key, with the time it has left.
SnapshotCommands(st) ==
    LET live == {k \in Keys : st[k].val # NoKey /\ ~Expired(st[k])}
        command(k) == [key |-> k, val |-> st[k].val,
                       ttl |-> IF st[k].exp = 0 THEN 0 ELSE st[k].exp - clock]
    IN  [i \in 1..Cardinality(live) |-> command(SetToSeq(live)[i])]

\* Mutant of ReplayLog: the next entry goes where the last one is.
ReplayLogOver(t) ==
    /\ phase[t] = "log"
    /\ LET log == InOrder(idb.wal)
           top == CHOOSE s \in DOMAIN idb.wal : \A r \in DOMAIN idb.wal : r <= s
       IN  /\ local' = [local EXCEPT ![t] = Hydrate(log)]
           /\ walSeq' = [walSeq EXCEPT ![t] = IF log = <<>> THEN 0 ELSE top]
    /\ phase' = [phase EXCEPT ![t] = "ready"]
    /\ UNCHANGED <<core, conn, waiters, channel, tasks, idb, journal, network, server, bounds,
                   history>>

\* The log is executed, and rewritten when it has grown long.
ReplayLog(t) ==
    /\ phase[t] = "log"
    /\ LET log == InOrder(idb.wal)
           st == Hydrate(log)
           compact == SnapshotCommands(st)
           top == CHOOSE s \in DOMAIN idb.wal : \A r \in DOMAIN idb.wal : r <= s
       IN  /\ local' = [local EXCEPT ![t] = st]
           /\ IF Len(log) > Setup.compactAt
              THEN /\ idb' = [idb EXCEPT !.wal = [i \in 0..(Len(compact) - 1) |-> compact[i + 1]]]
                   /\ walSeq' = [walSeq EXCEPT ![t] = Len(compact)]
              ELSE /\ walSeq' = [walSeq EXCEPT ![t] = IF log = <<>> THEN 0 ELSE top + 1]
                   /\ UNCHANGED idb
    /\ phase' = [phase EXCEPT ![t] = "ready"]
    /\ UNCHANGED <<core, conn, waiters, channel, tasks, journal, network, server, bounds, history>>

\* The page is closed or reloaded, or the process ends, with what was not on disk yet.
Durable == {idb.rows[id].write : id \in DOMAIN idb.rows}
Crash(t) ==
    /\ phase[t] # "closed" /\ Fault("crash")
    /\ phase' = [phase EXCEPT ![t] = "closed"]
    /\ fate' = Mark(WritesOf(core[t].outbox) \ Durable, "lost")
    /\ tasks' = [tasks EXCEPT ![t] = <<>>]
    /\ conn' = [conn EXCEPT ![t] = 0]
    /\ waiters' = [waiters EXCEPT ![t] = <<>>]
    /\ channel' = [channel EXCEPT ![t] = FALSE]
    /\ core' = [core EXCEPT ![t] = NewClient(None, FALSE)]
    /\ down' = IF Connected(t) THEN [down EXCEPT ![conn[t]] = <<>>] ELSE down
    /\ UNCHANGED <<local, walSeq, idb, journal, up, auth, subscribed, server, scenario, clock,
                   commands, issued, told, skewed>>

-----------------------------------------------------------------------------
\* The socket.

\* Mutant of NobodyWaits: the adapter keeps no slots for the frames of on_open.
NobodyWaitsAtAll(frames) == <<>>

\* embed: nobody waits for the answers to what is sent on opening, but they have their slots.
NobodyWaits(frames) == [i \in 1..Len(frames) |-> None]

\* It opens: the session, then the outbox; embed renews its subscription after that.
Connect(t) ==
    /\ Ready(t) /\ ~Connected(t) /\ Len(up) < Setup.sockets
    /\ LET opened == OnOpen(core[t])
           again == channel[t]
           frames == opened.frames
                         \o (IF again THEN <<SessionCommand("subscribe")>> ELSE <<>>)
       IN  /\ core' = [core EXCEPT ![t] = SessionFrame(opened.core, again)]
           /\ up' = Append(up, frames)
           /\ waiters' = [waiters EXCEPT ![t] = IF Browser THEN <<>>
                                                 ELSE NobodyWaits(frames)]
    /\ down' = Append(down, <<>>)
    /\ auth' = Append(auth, ~Setup.password)
    /\ subscribed' = Append(subscribed, FALSE)
    /\ conn' = [conn EXCEPT ![t] = Len(up) + 1]
    /\ UNCHANGED <<phase, channel, browser, server, bounds, history>>

\* Its end, seen by the client: whoever waits is told so; the rows stay queued.
Awaiting(t) == ToSet(waiters[t]) \ {None}
Tell(K, what) == [w \in DOMAIN told |-> IF w \in K THEN what ELSE told[w]]
HangUp(t) ==
    /\ conn' = [conn EXCEPT ![t] = 0]
    /\ waiters' = [waiters EXCEPT ![t] = <<>>]
    /\ down' = [down EXCEPT ![conn[t]] = <<>>]
    /\ told' = Tell(Awaiting(t), "disconnected")

\* The connection breaks: some of the commands on their way still reach the server.
Close(t) ==
    /\ Connected(t) /\ Fault("close")
    /\ HangUp(t)
    /\ \E arrive \in 0..Len(up[conn[t]]) :
           up' = [up EXCEPT ![conn[t]] = SubSeq(@, 1, arrive)]
    /\ UNCHANGED <<core, phase, channel, browser, auth, subscribed, server, scenario, clock,
                   commands, issued, fate, skewed>>

-----------------------------------------------------------------------------
\* Operations of the application.

Send(t, frame) == IF Connected(t) THEN [up EXCEPT ![conn[t]] = Append(@, frame)] ELSE up

\* embed: who awaits the answer has a slot; without a socket nobody does.
Awaits(t, w) ==
    waiters' = [waiters EXCEPT ![t] = IF Connected(t) /\ ~Browser THEN Append(@, w) ELSE @]

\* The row a full outbox lost is reported.
NoteDropped(e) == Mark(WritesOf(e.dropped), "dropped")

\* browser: the rows on disk follow the outbox.
StoreRow(e) ==
    [i \in DOMAIN e.dropped |-> DeleteRow(e.dropped[i].id)] \o <<PutRow(e.id, e.frame)>>

\* A write is queued, and sent if there is a socket.
Enqueued(t, e, k, ttl) ==
    /\ core' = [core EXCEPT ![t] = e.core]
    /\ up' = Send(t, e.frame)
    /\ issued' = Append(issued, [client |-> core[t].client, key |-> k, ttl |-> ttl,
                                 deadline |-> Deadline(ttl)])
    /\ fate' = Append(NoteDropped(e), {})
NewWrite(t) ==
    EnqueueWrite(core[t], "write", Len(issued) + 1, TRUE, Connected(t))

\* The browser applies the write, queues it with its row, and logs it.
BrowserWrite(t) ==
    /\ Browser /\ Ready(t) /\ Len(issued) < Setup.writes
    /\ \E k \in Setup.keys, ttl \in Setup.ttls :
        LET e == NewWrite(t)
            w == Len(issued) + 1
        IN  /\ Enqueued(t, e, k, ttl)
            /\ local' = [local EXCEPT ![t][k] = [val |-> w, exp |-> Deadline(ttl)]]
            /\ tasks' = [tasks EXCEPT ![t] = @ \o StoreRow(e) \o <<AppendLog(walSeq[t], w)>>]
    /\ walSeq' = [walSeq EXCEPT ![t] = @ + 1]
    /\ told' = Append(told, "nobody")
    /\ UNCHANGED <<phase, conn, waiters, channel, idb, journal, down, auth, subscribed, server,
                   bounds, skewed>>

\* embed queues it, and tells the caller at once when there is no socket.
EmbedWrite(t) ==
    /\ ~Browser /\ Ready(t) /\ Len(issued) < Setup.writes
    /\ \E k \in Setup.keys, ttl \in Setup.ttls : Enqueued(t, NewWrite(t), k, ttl)
    /\ Awaits(t, Len(issued) + 1)
    /\ told' = Append(told, IF Connected(t) THEN "waits" ELSE "disconnected")
    /\ UNCHANGED <<phase, conn, channel, browser, down, auth, subscribed, server, bounds, skewed>>

\* A command of the session.
Command(t, kind, next) ==
    /\ Ready(t) /\ commands < Setup.commands
    /\ commands' = commands + 1
    /\ core' = [core EXCEPT ![t] = next]
    /\ up' = Send(t, SessionCommand(kind))
    /\ Awaits(t, None)
    /\ UNCHANGED <<phase, conn, channel, browser, down, auth, subscribed, server, scenario, clock,
                   spent, history>>

\* embed: a read that its store cannot answer; without a socket it is refused.
Read(t) == ~Browser /\ Connected(t) /\ Command(t, "read", SessionFrame(core[t], TRUE))

\* A live query is added and remembered, or dropped; without a socket embed refuses both.
Query(t) ==
    /\ Browser \/ Connected(t)
    /\ Command(t, "query", AddLiveQuery(core[t], "q", Connected(t)))
Unquery(t) ==
    /\ Browser \/ Connected(t)
    /\ core[t].queries # {}
    /\ Command(t, "query", RemoveLiveQuery(core[t], "q", Connected(t)))

\* SUBSCRIBE in the browser: a row without an envelope.
BrowserSubscribe(t) ==
    /\ Browser /\ Ready(t) /\ Fault("subscribe")
    /\ LET e == EnqueueWrite(core[t], "subscribe", None, FALSE, Connected(t))
       IN  /\ core' = [core EXCEPT ![t] = e.core]
           /\ up' = Send(t, e.frame)
           /\ fate' = NoteDropped(e)
           /\ tasks' = [tasks EXCEPT ![t] = @ \o StoreRow(e)]
    /\ UNCHANGED <<phase, conn, waiters, channel, local, walSeq, idb, journal, down, auth,
                   subscribed, server, scenario, clock, commands, issued, told, skewed>>

\* In embed: a command of the session, and the adapter remembers the channel.
EmbedSubscribe(t) ==
    /\ ~Browser /\ Ready(t) /\ Fault("subscribe")
    /\ core' = [core EXCEPT ![t] = SessionFrame(@, Connected(t))]
    /\ up' = Send(t, SessionCommand("subscribe"))
    /\ channel' = [channel EXCEPT ![t] = TRUE]
    /\ Awaits(t, None)
    /\ UNCHANGED <<phase, conn, browser, down, auth, subscribed, server, scenario, clock, commands,
                   issued, fate, told, skewed>>

\* clear_persistence: sign-out.
Clear(t) ==
    /\ Ready(t) /\ Browser /\ Fault("clear")
    /\ core' = [core EXCEPT ![t] = ClearOutbox(@)]
    /\ fate' = Mark(WritesOf(core[t].outbox), "cleared")
    /\ skewed' = (skewed \/ (Connected(t) /\ core[t].inflight # <<>>))
    /\ tasks' = [tasks EXCEPT ![t] = Append(@, ClearAll)]
    /\ UNCHANGED <<phase, conn, waiters, channel, local, walSeq, idb, journal, network, server,
                   scenario, clock, commands, issued, told>>

-----------------------------------------------------------------------------
\* The server: one command of one socket, in order, with one answer.

\* Mutant of IsDuplicate: the last id is taken for a new one.
IsDuplicateBelow(f) == f.wire # None /\ f.wire < mark[f.client]

IsDuplicate(f) == f.wire # None /\ f.wire <= mark[f.client]

Answer(n, f) ==
    CASE f.kind = "auth" -> "ok"
      [] f.kind # "auth" /\ ~auth[n] -> "noauth"
      [] f.kind \in {"query", "subscribe"} /\ auth[n] -> "ok"
      [] f.kind \in {"read", "write"} /\ auth[n] /\ subscribed[n] -> "error"
      [] f.kind = "read" /\ auth[n] /\ ~subscribed[n] -> "ok"
      [] f.kind = "write" /\ auth[n] /\ ~subscribed[n] /\ refusing -> "error"
      [] f.kind = "write" /\ auth[n] /\ ~subscribed[n] /\ ~refusing /\ IsDuplicate(f) -> "dup"
      [] OTHER -> "applied"

Listening(n) == \E t \in Tabs : conn[t] = n

Serve(n) ==
    /\ up[n] # <<>>
    /\ LET f == Head(up[n])
           answer == Answer(n, f)
       IN  /\ auth' = [auth EXCEPT ![n] = @ \/ f.kind = "auth"]
           /\ subscribed' = [subscribed EXCEPT ![n] = @ \/ (f.kind = "subscribe" /\ answer = "ok")]
           /\ applied' = IF answer = "applied" THEN Append(applied, f.write) ELSE applied
           /\ mark' = IF answer = "applied" THEN [mark EXCEPT ![f.client] = f.wire] ELSE mark
           /\ fate' = IF f.write = None THEN fate ELSE Mark({f.write}, answer)
           /\ down' = IF Listening(n)
                      THEN [down EXCEPT ![n] =
                               Append(@, [kind |-> "reply", frame |-> f, answer |-> answer])]
                      ELSE down
    /\ up' = [up EXCEPT ![n] = Tail(@)]
    /\ UNCHANGED <<client, browser, refusing, bounds, issued, told, skewed>>

\* A push between the answers.
Push(n) ==
    /\ Listening(n) /\ Fault("push")
    /\ down' = [down EXCEPT ![n] = Append(@, [kind |-> "push"])]
    /\ UNCHANGED <<client, browser, up, auth, subscribed, server, scenario, clock, commands,
                   history>>

\* The answer to a read or to a live query is too large for the client's parser.
Overgrow(n) ==
    /\ Listening(n) /\ Fault("huge")
    /\ \E i \in DOMAIN down[n] :
        /\ down[n][i].kind = "reply" /\ down[n][i].frame.kind \in {"read", "query"}
        /\ down' = [down EXCEPT ![n][i].kind = "huge"]
    /\ UNCHANGED <<client, browser, up, auth, subscribed, server, scenario, clock, commands,
                   history>>

\* Writes are refused for a while: persistence is unhealthy, the server is a replica, the store
\* is out of memory.
Refuse ==
    /\ refusing \/ Fault("refuse")
    /\ refusing => spent' = spent
    /\ refusing' = ~refusing
    /\ UNCHANGED <<client, browser, network, mark, applied, scenario, clock, commands, history>>

-----------------------------------------------------------------------------
\* Mutant of Unparsable: the frame is ignored.
UnparsableIgnored(t) ==
    /\ down' = [down EXCEPT ![conn[t]] = Tail(@)]
    /\ UNCHANGED <<conn, waiters, told>>

\* A frame that cannot be parsed may have been an answer: the socket is dropped.
Unparsable(t) == HangUp(t)

\* embed: an answer goes to whoever has the first slot.
Answered(t, answer) ==
    /\ waiters' = [waiters EXCEPT ![t] = IF @ = <<>> THEN @ ELSE Tail(@)]
    /\ told' = IF waiters[t] = <<>> THEN told ELSE Tell({Head(waiters[t])}, answer)

\* browser: the row of an answered write is deleted.
Retired(t, id) ==
    tasks' = IF Browser /\ id # None THEN [tasks EXCEPT ![t] = Append(@, DeleteRow(id))] ELSE tasks

\* handle_frame and what the adapter makes of it.
Receive(t) ==
    /\ Connected(t) /\ down[conn[t]] # <<>>
    /\ LET m == Head(down[conn[t]])
           ack == AckReply(core[t])
           rest == [down EXCEPT ![conn[t]] = Tail(@)]
       IN  CASE m.kind = "reply" -> /\ core' = [core EXCEPT ![t] = ack.core]
                                    /\ Retired(t, ack.retired) /\ Answered(t, m.answer)
                                    /\ down' = rest /\ UNCHANGED conn
             [] m.kind = "push" -> down' = rest /\ UNCHANGED <<core, conn, waiters, tasks, told>>
             [] m.kind = "huge" -> Unparsable(t) /\ UNCHANGED <<core, tasks>>
    /\ fate' = Heard(Head(down[conn[t]]))
    /\ UNCHANGED <<phase, channel, local, walSeq, idb, journal, up, auth, subscribed, server,
                   bounds, issued, skewed>>

Tick ==
    /\ clock < Setup.ticks
    /\ clock' = clock + 1
    /\ UNCHANGED <<client, browser, network, server, scenario, spent, commands, history>>

Start(t) ==
    \/ AdoptIdentity(t) \/ ReadEpoch(t) \/ BumpEpoch(t) \/ RestoreRows(t) \/ ReplaceRows(t)
    \/ ReplayLog(t)

Next ==
    \/ \E t \in Tabs : \/ OpenBrowser(t) \/ OpenEmbed(t) \/ Start(t) \/ Crash(t)
                       \/ Connect(t) \/ Close(t) \/ BrowserWrite(t) \/ EmbedWrite(t)
                       \/ Read(t) \/ Query(t) \/ Unquery(t) \/ BrowserSubscribe(t)
                       \/ EmbedSubscribe(t) \/ Clear(t) \/ Receive(t) \/ Commit(t)
    \/ \E n \in DOMAIN up : Serve(n) \/ Push(n) \/ Overgrow(n)
    \/ Refuse
    \/ Tick

\* The tasks of both sides run; a client that lost its socket tries again until it has one.
Fairness ==
    /\ \A t \in Tabs : WF_vars(Start(t)) /\ WF_vars(Connect(t)) /\ WF_vars(Receive(t))
    /\ \A n \in 1..MaxSockets : WF_vars(n \in DOMAIN up /\ Serve(n))

Spec == Init /\ [][Next]_vars /\ Fairness

-----------------------------------------------------------------------------
\* Properties.

\* The answers among the messages on their way to a client, and the commands of a socket whose
\* answers its client has not seen yet, oldest first.
AnswersIn(msgs) == Kept(msgs, {i \in DOMAIN msgs : msgs[i].kind # "push"})
Unanswered(msgs, cmds) ==
    LET answers == AnswersIn(msgs) IN [i \in 1..Len(answers) |-> answers[i].frame] \o cmds
Outstanding(t) == Unanswered(down[conn[t]], up[conn[t]])

\* One slot per command, that of a row for its row; one waiter per command, or nobody.
SlotsFor(slots, frames, outbox) ==
    /\ Len(slots) = Len(frames)
    /\ \A i \in DOMAIN slots :
         /\ (slots[i] = None) <=> (frames[i].client = None)
         /\ \A row \in ToSet(outbox) : row.id = slots[i] => row.frame = frames[i]
WaitersFor(slots, frames) ==
    /\ Len(slots) = Len(frames)
    /\ \A i \in DOMAIN frames : slots[i] \in {None, frames[i].write}

InStep(t) ==
    Connected(t) /\ ~skewed =>
        /\ SlotsFor(core[t].inflight, Outstanding(t), core[t].outbox)
        /\ ~Browser => WaitersFor(waiters[t], Outstanding(t))

\* The slots of the client and of its adapter always stand for the commands the server has still
\* to answer, in order, through reconnects, pushes between the answers, evicted rows and answers
\* that cannot be parsed: an answer retires the row and reaches the caller it belongs to.  Only
\* clear_outbox while answers are on their way upsets this.  The ids of the rows stay below
\* the one that is given next, so that no slot stands for two of them.
Aligned == \A t \in Tabs : InStep(t) /\ \A row \in ToSet(core[t].outbox) : row.id < core[t].seq

\* The server executes the writes of one client identity in the order of their issue and none of
\* them twice, although they are sent again after a reconnect or a reload while the socket before
\* may still be served.
AppliedInOrder ==
    \A i, j \in DOMAIN applied :
        i < j /\ issued[applied[i]].client = issued[applied[j]].client => applied[i] < applied[j]

\* No write disappears without anybody knowing: it is queued or on disk, or it was executed, or
\* the answer that refused it reached its client, or it was dropped from a full outbox and
\* reported, or discarded at sign-out, or lost with a process before it was on disk.  One write may
\* go otherwise, a misled one: its refusal is lost with the socket, a later write of the client is
\* executed and raises the mark, and when it is sent again the answer is +DUP, which retires its
\* row as that of an executed write.
Queued(w) ==
    \/ w \in {idb.rows[id].write : id \in DOMAIN idb.rows}
    \/ \E t \in Tabs : w \in WritesOf(core[t].outbox)
Settled(w) == fate[w] \cap {"applied", "heard", "dropped", "cleared", "lost"} # {}
Misled(w) == {"error", "dup"} \subseteq fate[w] /\ "applied" \notin fate[w]
NoSilentLoss == \A w \in DOMAIN issued : Queued(w) \/ Settled(w) \/ Misled(w) \/ skewed

\* What a caller of the embedded client is told about its write is what the server did with it;
\* that it is a duplicate, when the server executed it or had refused it before.
ToldTruth ==
    \A w \in DOMAIN told :
        /\ told[w] = "applied" => "applied" \in fate[w]
        /\ told[w] = "dup" => fate[w] \cap {"applied", "error"} # {}
        /\ told[w] = "error" => "error" \in fate[w]

\* What a reload would bring back: for every key the last write of it that reached the log, unless
\* a compaction found it expired.
LogKeepsWrites ==
    (\A t \in Tabs : phase[t] \in {"closed", "ready"}) =>
        LET st == Hydrate(InOrder(idb.wal))
        IN  \A k \in Keys :
                \/ st[k].val = journal[k]
                \/ st[k].val = NoKey /\ issued[journal[k]].ttl # 0

\* The same of every write: a row is retired when its write was executed or its client heard that it
\* was not.  A misled write is one for which this fails.
RetiredWhenKnown == \A w \in DOMAIN issued : Queued(w) \/ Settled(w) \/ skewed

\* +DUP is the answer for a write the server has executed.
DupWasApplied == \A w \in DOMAIN fate : "dup" \in fate[w] => "applied" \in fate[w]

\* A key of the local store expires when its write said, whatever reloads lie between.
DeadlineKept ==
    \A t \in Tabs, k \in Keys :
        local[t][k].val # NoKey => local[t][k].exp = issued[local[t][k].val].deadline

\* Every write of a client that stays open comes to one of its ends: faults are finite in number
\* and the client reconnects after each of them.
Delivered ==
    \A w \in 1..MaxWrites :
        w \in DOMAIN issued /\ Setup.sockets > Setup.mishaps
            ~> \/ w \in DOMAIN issued /\ (Settled(w) \/ Misled(w))
               \/ skewed
               \/ \E t \in Tabs : phase[t] = "closed"
-----------------------------------------------------------------------------
(* The inductive invariants *)

Clients == Nat \ {0}
Option(S) == S \cup {None}
RowFrame ==
    [kind : {"write"}, write : Nat, client : Clients, wire : Nat]
      \cup [kind : {"subscribe"}, write : {None}, client : Clients, wire : {None}]
SessionFrameSet ==
    [kind : {"auth", "query", "subscribe", "read"}, write : {None}, client : {None}, wire : {None}]
Frame == RowFrame \cup SessionFrameSet
Row == [id : Nat, frame : RowFrame]
Core == [client : Option(Clients), epoch : Nat, seq : Nat, outbox : Seq(Row),
         inflight : Seq(Option(Nat)), password : BOOLEAN, queries : SUBSET {"q"}]
Answers == {"ok", "noauth", "error", "dup", "applied"}
Message == [kind : {"reply", "huge"}, frame : Frame, answer : Answers] \cup [kind : {"push"}]
TaskOK(task) ==
    /\ task.kind \in {"put", "delete", "append", "clear"}
    /\ task.kind = "put" => task.id \in Nat /\ task.frame \in RowFrame
TasksOK(s) == s \in Seq(ToSet(s)) /\ \A i \in DOMAIN s : TaskOK(s[i])
Phases == {"closed", "identity", "epoch", "bump", "outbox", "replace", "log", "ready"}

\* What the variables hold that the slots of the clients and the marks of the server depend on.
ClientTypes ==
    /\ core \in [Tabs -> Core]
    /\ phase \in [Tabs -> Phases]
    /\ \A t \in Tabs : phase[t] # "closed" => core[t].client # None
    /\ conn \in [Tabs -> Nat]
    /\ waiters \in [Tabs -> Seq(Option(Nat))]
    /\ channel \in [Tabs -> BOOLEAN]
TaskTypes == tasks = [t \in Tabs |-> tasks[t]] /\ \A t \in Tabs : TasksOK(tasks[t])
DiskTypes ==
    /\ idb = [client |-> idb.client, epoch |-> idb.epoch, rows |-> idb.rows, wal |-> idb.wal]
    /\ idb.client \in Option(Clients) /\ idb.epoch \in Nat
    /\ idb.rows \in [DOMAIN idb.rows -> RowFrame]
    /\ DOMAIN idb.rows \in SUBSET Nat /\ IsFiniteSet(DOMAIN idb.rows)
NetworkTypes ==
    /\ up \in Seq(Seq(Frame)) /\ down \in Seq(Seq(Message)) /\ Len(down) = Len(up)
ServerTypes == mark \in Seq(Option(Nat)) /\ applied \in Seq(Nat)
HistoryTypes ==
    /\ scenario \in DOMAIN Scenarios
    /\ clock \in Nat
    /\ issued \in Seq([client : Clients, key : Keys, ttl : Nat, deadline : Nat])
Types == ClientTypes /\ TaskTypes /\ DiskTypes /\ NetworkTypes /\ ServerTypes /\ HistoryTypes

\* Sockets belong to open clients, each to one.
SocketsOK ==
    \A t \in Tabs : Connected(t) =>
        /\ conn[t] \in DOMAIN up /\ Ready(t)
        /\ \A u \in Tabs : conn[u] = conn[t] => u = t

\* The rows of an outbox are numbered upwards, below the number given next, and so are the slots.
RowsOK(c) ==
    /\ \A i, j \in DOMAIN c.outbox : i < j => c.outbox[i].id < c.outbox[j].id
    /\ \A i \in DOMAIN c.outbox : c.outbox[i].id < c.seq
    /\ \A i \in DOMAIN c.inflight : c.inflight[i] < c.seq

\* A tab that has not restored its rows has none.
Starting(t) ==
    phase[t] \in {"closed", "identity", "epoch", "bump", "outbox"} =>
        core[t].outbox = <<>> /\ core[t].inflight = <<>> /\ core[t].seq = 0

Good(t) == RowsOK(core[t]) /\ Starting(t) /\ InStep(t)
AlignInv == \A t \in Tabs : Good(t)

\* The writes in an envelope that the server may still be sent.
OnDisk == {idb.rows[i] : i \in DOMAIN idb.rows}
HeldIn(rows) == {rows[i].frame : i \in DOMAIN rows}
PutsIn(s) == {s[i].frame : i \in {j \in DOMAIN s : s[j].kind = "put"}}
Held == UNION {HeldIn(core[t].outbox) \cup PutsIn(tasks[t]) : t \in Tabs}
Sent == UNION {ToSet(up[n]) : n \in DOMAIN up}
InPlay == {f \in OnDisk \cup Held \cup Sent : f.wire # None}

\* Their wire ids are in the order of their issue, and a mark that lets one pass has let none
\* pass that was issued after it.
OrderOK ==
    /\ \A f \in InPlay : /\ f.write \in DOMAIN issued /\ issued[f.write].client = f.client
                         /\ f.client \in DOMAIN mark
    /\ \A f, g \in InPlay : f.client = g.client /\ f.wire < g.wire => f.write < g.write
    /\ \A i \in DOMAIN applied :
         /\ applied[i] \in DOMAIN issued
         /\ \A f \in InPlay : f.client = issued[applied[i]].client /\ f.wire > mark[f.client] =>
              applied[i] < f.write

\* The tab of an origin has the identity on disk and an epoch of its own; embedded clients have
\* an identity each.  The next wire id is greater than those in play.
Begun(t) == phase[t] \in {"outbox", "replace", "log", "ready"}
EpochOK ==
    /\ Browser =>
         /\ \A f \in InPlay : f.client = idb.client /\ f.wire < (idb.epoch + 1) * IdRange
         /\ \A t \in Tabs : /\ phase[t] = "bump" => core[t].epoch = idb.epoch + 1
                            /\ Begun(t) => core[t].epoch = idb.epoch
                            /\ phase[t] \notin {"closed", "identity"} => core[t].client = idb.client
    /\ ~Browser =>
         /\ \A t \in Tabs : phase[t] \in {"closed", "ready"} /\ tasks[t] = <<>>
         /\ \A t, u \in Tabs : core[t].client = core[u].client /\ Ready(t) /\ Ready(u) => t = u
         /\ idb.rows = <<>>
    /\ idb.client # None => idb.client \in DOMAIN mark
    /\ \A t \in Tabs :
         /\ phase[t] # "closed" => core[t].client \in DOMAIN mark
         /\ Begun(t) => \A f \in InPlay : f.client = core[t].client =>
                            f.wire < core[t].epoch * IdRange + core[t].seq

OrderInv == OrderOK /\ EpochOK /\ AppliedInOrder

\* One tab per origin, and no session that uses up its wire ids.
OneTab ==
    \A i \in DOMAIN Scenarios : Scenarios[i].mode = "browser" => \A t, u \in Tabs : t = u
IdsLeft == \A t \in Tabs : core[t].seq < IdRange

\* One tab in the situation at hand.
Alone == Browser => \A t, u \in Tabs : t = u

\* The writes on the socket a tab listens to, those a tab has, and those on disk.
Wire(t) == IF Connected(t) THEN ToSet(up[conn[t]]) ELSE {}
Enveloped(F) == {f \in F : f.wire # None}
OwnedBy(t) == Enveloped(HeldIn(core[t].outbox) \cup PutsIn(tasks[t]) \cup Wire(t))
Stored == Enveloped(OnDisk)
Owned == Stored \cup UNION {OwnedBy(t) : t \in Tabs}

\* A socket is authenticated before anything else is sent on it, so that no write is answered
\* with NOAUTH.
LineTypes ==
    /\ auth \in Seq(BOOLEAN) /\ subscribed \in Seq(BOOLEAN)
    /\ Len(auth) = Len(up) /\ Len(subscribed) = Len(up)
Authenticates(n) ==
    auth[n] \/ IF up[n] = <<>> THEN ~Listening(n) ELSE Head(up[n]).kind = "auth"
AuthOK ==
    /\ LineTypes
    /\ \A t \in Tabs : phase[t] # "closed" => core[t].password = Setup.password
    /\ \A n \in DOMAIN up : Authenticates(n)

\* Wire ids are given once, in the order of the rows, and above the marks.
UniqueOK == \A f, g \in InPlay : f.client = g.client /\ f.wire = g.wire => f = g
Ascends(rows) ==
    \A i, j \in DOMAIN rows :
        i < j /\ rows[i].frame.wire # None /\ rows[j].frame.wire # None =>
            rows[i].frame.wire < rows[j].frame.wire
AscendOK == \A t \in Tabs : Ascends(core[t].outbox)
MarksOK ==
    /\ \A t \in Tabs : Begun(t) => mark[core[t].client] < core[t].epoch * IdRange + core[t].seq
    /\ Browser => \A c \in DOMAIN mark : mark[c] < (idb.epoch + 1) * IdRange
OwnOK == \A t \in Tabs : \A f \in OwnedBy(t) : f.client = core[t].client

\* The rows on disk and those on their way to it are numbered in the order of their wire ids,
\* below the number given next.
Numbered(t) ==
    {<<id, idb.rows[id]>> : id \in DOMAIN idb.rows}
        \cup {<<tasks[t][i].id, tasks[t][i].frame>> :
                 i \in {j \in DOMAIN tasks[t] : tasks[t][j].kind = "put"}}
Rising(N) ==
    \A a, b \in N : a[1] < b[1] /\ a[2].wire # None /\ b[2].wire # None => a[2].wire < b[2].wire
DiskOK ==
    \A t \in Tabs :
        /\ Rising(Numbered(t))
        /\ phase[t] \in {"log", "ready"} => \A a \in Numbered(t) : a[1] < core[t].seq
        /\ phase[t] # "ready" => tasks[t] = <<>>

WireInv == AuthOK /\ UniqueOK /\ AscendOK /\ MarksOK /\ OwnOK /\ DiskOK

\* The log has for every key the last write of it that reached the log, and its numbers rise: those
\* of the entries on disk, those of the entries on their way to it in their order, the next one.
LogEntry == [key : Keys, val : Nat, ttl : Nat]
LogTypes ==
    /\ walSeq \in [Tabs -> Nat] /\ journal \in [Keys -> (DOMAIN issued) \cup {NoKey}]
    /\ idb.wal \in [DOMAIN idb.wal -> LogEntry]
    /\ DOMAIN idb.wal \in SUBSET Nat /\ IsFiniteSet(DOMAIN idb.wal)
    /\ \A id \in DOMAIN idb.wal :
         /\ idb.wal[id].val \in DOMAIN issued
         /\ idb.wal[id].ttl # 0 => issued[idb.wal[id].val].ttl # 0
Missing(wal, k) == \A id \in DOMAIN wal : wal[id].key # k
LastIn(wal, k, id) ==
    /\ id \in DOMAIN wal /\ wal[id].key = k
    /\ \A other \in DOMAIN wal : wal[other].key = k => other <= id
Logged(k) ==
    \/ Missing(idb.wal, k) /\ (journal[k] = NoKey \/ issued[journal[k]].ttl # 0)
    \/ \E id \in DOMAIN idb.wal : LastIn(idb.wal, k, id) /\ idb.wal[id].val = journal[k]
Appends(s) == {i \in DOMAIN s : s[i].kind = "append"}
LogRises(t) ==
    /\ \A i \in Appends(tasks[t]) :
         /\ tasks[t][i].id \in Nat /\ tasks[t][i].write \in DOMAIN issued
         /\ tasks[t][i].id < walSeq[t]
         /\ \A id \in DOMAIN idb.wal : id < tasks[t][i].id
         /\ \A j \in Appends(tasks[t]) : i < j => tasks[t][i].id < tasks[t][j].id
    /\ Ready(t) => \A id \in DOMAIN idb.wal : id < walSeq[t]
    /\ ~Ready(t) => tasks[t] = <<>>
LogInv ==
    /\ LogTypes /\ \A k \in Keys : Logged(k)
    /\ IF Browser THEN \A t \in Tabs : LogRises(t)
       ELSE idb.wal = <<>> /\ \A t \in Tabs : tasks[t] = <<>>

\* The ends a write can come to.  An embedded client tells its callers itself of the writes that
\* it dropped or lost.
Ends ==
    {"applied", "error"} \cup IF Browser THEN {"heard", "dropped", "cleared", "lost"} ELSE {}
Over(w) == fate[w] \cap Ends # {}

\* It is over and its client is done with it.
Closed(w) == Settled(w) \/ Misled(w)
Done(w) == Over(w) /\ Closed(w)

FateTypes ==
    /\ fate \in Seq(SUBSET (Answers \cup {"heard", "dropped", "cleared", "lost"}))
    /\ told \in Seq(Answers \cup {"waits", "nobody", "disconnected"})
    /\ Len(fate) = Len(issued) /\ Len(told) = Len(issued)

\* A write that a mark has passed is over.  One that is earlier than a write of its client on a
\* socket is over, or stands before that one on the socket.
InTurn(s, i, h) == Over(h.write) \/ \E j \in 1..(i - 1) : s[j] = h
PassedOver ==
    /\ \A h \in Owned : h.wire <= mark[h.client] => Over(h.write)
    /\ \A n \in DOMAIN up : \A i \in DOMAIN up[n] : \A h \in Owned :
         h.client = up[n][i].client /\ h.wire < up[n][i].wire => InTurn(up[n], i, h)

\* A client has sent every write of its outbox that is not over, and has every write in its outbox
\* that is on disk and that it is not done with.
Sends(t) == Connected(t) =>
    \A h \in Enveloped(HeldIn(core[t].outbox)) : Over(h.write) \/ h \in Wire(t)
Has(t) == phase[t] \in {"replace", "log", "ready"} =>
    \A h \in Stored \cup Enveloped(PutsIn(tasks[t])) :
        Done(h.write) \/ h \in HeldIn(core[t].outbox)
HasAll == \A t \in Tabs : Sends(t) /\ Has(t)

\* What an answer says is so.
AnswerTrue(m) ==
    m.kind = "reply" /\ m.frame.wire # None =>
        /\ m.frame.write \in DOMAIN fate /\ Over(m.frame.write)
        /\ m.answer \in {"applied", "error", "dup"} /\ m.answer \in fate[m.frame.write]
AnswersTrue == \A n \in DOMAIN down : \A i \in DOMAIN down[n] : AnswerTrue(down[n][i])

FateInv == ~skewed => PassedOver /\ HasAll /\ AnswersTrue /\ NoSilentLoss

\* Nobody waits for an answer in the browser, and nobody signs out in embed.
ModeOK ==
    IF Browser THEN /\ \A t \in Tabs : waiters[t] = <<>>
                    /\ \A w \in DOMAIN told : told[w] = "nobody"
    ELSE ~skewed
=============================================================================
