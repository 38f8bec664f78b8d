# Recached in TLA+

Recached is a Redis-compatible in-memory server (`server-native`, on top of the
store of `core-engine`) whose keyspace is also synchronized to replicas, browsers
(`wasm-edge`) and embedded clients (`recached-embed`), the latter two through the
state machine of `sync-client`. This directory models the way of a write from the
client's outbox to the copies others keep of it: parser, ordered write path, store
and data types, propagation, durability, replication, live connections, and the
clients themselves. The models are checked with TLC; replication, the ordered write path
with its transactions, the persistence files and the client's write path to the server are
proved correct with TLAPS.

## Inventory

| Component | State | Operations | What makes it correct |
|---|---|---|---|
| Command parser (`cmd.rs`) | none | words to command or refusal | what is put into a frame can be read back |
| Store (`store.rs`) | keyspace, dense key index, memory estimate, SCAN cursors | ~150 commands, eviction, expiry sweep, snapshot, replace | a key is gone at its deadline; index and estimate are exact; limits are kept |
| Propagation (`propagation.rs`) | none | command and answer to logged form | replaying the frames makes the keyspace; watchers hear of every changed key |
| Ordered write path (`propagation.rs`, `replication.rs`) | 256 ordering stripes, `dedup_order` | lock, execute, log, notify, release | conflicting writes are executed, logged and announced in one order; no deadlock |
| Transactions (`connection.rs`, `watch.rs`) | `multi_queue`, `multi_dirty`, `watched_keys`, `watch_dirty`, registry, bounded notification queues | WATCH, UNWATCH, MULTI, DISCARD, EXEC, overflow disconnect | compare-and-set is sound; writers do not get between the commands of a transaction |
| Durability (`persistence.rs`, `server_state.rs`) | AOF, snapshot, dedup sidecar, checkpoint id, health flag | append, flush, save (marker, snapshot, marks, truncate), start-up | nothing fsynced is lost, nothing replayed twice, a mark never claims a lost write |
| Dedup marks (`server_state.rs`) | high-water mark per client | check, commit, sweep, persist | a retried write takes effect once |
| Replication hub (`replication.rs`) | run id, offset, backlog, queue per replica | fan out, serve (full or partial), stream, read acks | every replica gets every frame once and in order, or is disconnected |
| Replication client (`replication.rs`) | resume run and offset, keyspace | connect, install, apply, reject, retry | the keyspace is the one the resume offset names |
| Live queries, ephemeral keys, pub/sub, sync fan-out (`connection.rs`, `watch.rs`, `pubsub.rs`, `sync_scopes.rs`) | registries, owners, bounded queues, broadcast channel | QSUB, ESET, SUBSCRIBE, SYNC, close | snapshot and pushes meet without a gap; a key lives as long as its owner; nothing outlives its connection |
| Sync client (`sync-client`), edge cache, embedded client | outbox, in-flight FIFO, session state, IndexedDB rows and log | write, acknowledge, reconnect, replay, reload | every offline write reaches the server once and in order, or somebody is told |
| Promotion, AUTH throttle, client registry, RESP, catalog, INFO, CONFIG, TLS | flags, tables, counters | | not modelled, see the end |

How they interact: a command loop (one tokio task per connection) parses a request,
takes `dedup_order` if it is wrapped in DEDUP, then the stripes of its keys in
ascending order, executes in the store, and under those guards appends to the AOF,
fans out to the replicas, notifies watchers and live queries and broadcasts to
WebSocket peers. `save`, QSUB and the synchronization of a replica take every stripe
and so see one boundary between all writes. A replica's client applies frames with
`apply_repl_frame`, which takes no stripe. A client library applies a write to its own
store, puts it into its outbox under a wire id, and retires it with the answer.

What is hard here: many tasks and several locks; state read before an await and used
after it (the health check, the watch check); bounded queues that overflow, and several
of them that one loop drains in any order; crashes between the updates of four files,
or between two IndexedDB transactions; reconnects that resume in the middle of a log
that is being trimmed, or send again what was already done; answers that are matched by
counting; ~60 writing commands each of which has to be told to others as what it did.
`PROJECT.json` lists these hazards at their lines, with the properties that cover them.

## Modules

| Part | Modules | Configurations |
|---|---|---|
| Replication | `ReplicatedLog` (abstract), `Replication`, `MCReplication`, `ReplicationProof` (theorems) | `Replication_*` |
| Durability | `Durability`, `DurabilityProof` (theorems) | `Durability_*` |
| Ordered write path, transactions | `WriteOrder`, `MCWriteOrder`, `WriteOrderProof` (theorems) | `WriteOrder_*` |
| Store | `DataTypes` (commands as functions), `Propagation` (frames and keys), `Keyspace` (abstract), `Store`, `MCStore` | `Store_*` |
| Parser | `Requests` (parser), `Gateway`, `MCGateway` | `Gateway_*` |
| Clients | `SyncClient` (functions), `EdgeClient`, `MCEdgeClient`, `EdgeClientTypes` (lemmas), `EdgeClientSlots`, `EdgeClientOrder` (theorems), `EdgeClientWire`, `EdgeClientFate` (theorems) | `EdgeClient_*` |
| Live connections | `Glob`, `Live`, `MCLive` | `Live_*` |

`DataTypes` and `Propagation` are shared: `Store`, `Gateway` and `Live` execute the same
commands and send the same frames. `WriteOrder` has the stripes one by one and shows that
a barrier sees keyspace and log equal (`BarrierIsExact`); `Durability` and `Replication`
rely on this and keep one guard for all or one per key, and `Live` makes a write with all
it announces one step.

### Replication

`store`, `inflight`, `offset`, `run`, `backlog` are the hub's; `handler`, `queue`,
`sent`, `acked` belong to `handle_replica`; `reply`, `wire`, `acks` are the socket;
`phase`, `resume`, `goal`, `left`, `rstore` are the replica's `sync_from_primary`.
`Execute` and `FanOut` are the two halves of a write, under the guard of its key
(`inflight[k]`); `Serve` is the whole registration behind `lock_all_writes`
(`BarrierFree`), with the choice between backlog and snapshot. `Enqueue` is `fan_out`:
offset, backlog, trimming and the queues in one step under the backlog lock. `Reject`
is the client's answer to InvalidData, which forgets the resume state. A frame appends
a fresh id to a list, so a frame that is skipped, doubled or out of order leaves a
different value. `hist` is a history variable: the keyspace after each frame.
An acknowledgement is eight bytes, which the primary reads with a `read_exact` in an arm of
its select loop. `ReadAck` takes them in two halves (`acks[r]` holds the offsets written, how
much of the first is off the socket, and `ack_buf`), and `Stream`, the other arm, drops a read
under way with what it has in the buffer (`DropRead`); the halves that follow are then put
together wrongly. `torn` is a history variable that says so of a connection.
`HubIsReplica` models a mid-tier hub, whose writes come from its own primary without a
guard, and whose keyspace a full synchronization replaces.

`ReplicatedLog` is what all this promises: the keyspaces of a run of the hub are a log that
only grows, a reader is at a place of it with the keyspace that is there, moves forward or
gives its place up, and a restart begins a new log. `RefinesLog` says that `Replication`
implements it, with `hist` as the log and the resume state of a replica as its place.

Abstractions: a queue's bytes are released when the frame is put on the socket (the
code: when the write ends); the socket is unbounded; an acknowledgement comes in two parts and
not in up to eight; each key is a stripe of its own; back-off delays and TLS are left out.

### Durability

One list is the keyspace. `Admit` (the health check), `Execute`, `LogWrite` or
`LogWriteFails` are one client write, the last with the commit of its dedup mark;
`Flush` is the everysec task; `BeginSave` to `FinishSave` are the steps of `save`, any of
which may fail (`SaveFails`); `Crash` keeps what was fsynced and some prefix of the rest,
perhaps with half a record at its end; `Start` loads snapshot, AOF behind the marker
(`LoadSnapshot`, a loop over the records) and sidecar, `RefuseStart` is the error on a file it cannot parse. `FollowsPrimary` makes the
writes arrive by `apply_repl_frame`. `durable`, `unlogged` and `behind` are history
variables; `Wounded` names the two faults the files do not get over, half a record that
others were appended behind, and a checkpoint that failed after its rename. Writes have
ascending ids, so `RecoversPrefix` can say of a restart: the recovered keyspace ascends (no
write twice or out of turn), has nothing new, and has with a write all those before it whose
append did not fail.

Abstractions: in the modes everysec and no, tokio reports a failed write at the next
operation on the file, the model at the append itself; pages dropped by a failed fsync
and errors that persist across a restart are not modelled; rename and directory fsync
are one step that may fail after its effect.

### WriteOrder

Per connection: `pc` and `kind` (what the command loop is doing), `need` (stripes still
to lock), `todo`, `effects` and `tell` (commands to execute, to log, keys to announce),
the transaction (`open`, `multi`, `poisoned`) and the watch (`watched`, `notifs`,
`dirty`, `overflow`). Shared: `holder` (the locks; 0 is `dedup_order`), `registry`,
`store`. `replayed` is the keyspace that replaying everything logged so far makes,
`stale` the watched keys that changed, `runs` how often a dedup id took effect: history
variables. `Outcomes` is `execute_reporting` with the key and memory limits.
Seven kinds of command stand for the ~60 that write (they are all in `DataTypes`):
replace (SET, MSET), APPEND, push, SADD, *STORE, DEL, FLUSHDB; values carry a type, the
ids written and a size.

Abstractions: the registry lock is held for all keys of one command, the model notifies
key by key; a victim of eviction is any key (LRU, TTL and random sampling only narrow
the choice); the 1/16 headroom of memory eviction is zero at these sizes; expiry and
reads are left out; replaying is without limits, as on a replica that has none. The
TCP loop is modelled; the WebSocket loop is in `Live`.

### DataTypes, Propagation, Store, Keyspace

`DataTypes!Exec(db, now, c)` is `execute_inner`: the set of outcomes `[db, reply]` of a
command. Three operators are the three ways a command gets at its key (`typed_entry!`
creates and restarts, `get_mut` changes, `get` looks), because they treat an expired
entry differently; the commands are written on top of them, one operator per family
branch. A sorted set is its scores and, once a range has asked for it, the ordered index
next to them, kept or abandoned as in the code. Integers are bounded by `MinInt` and
`MaxInt` and deadlines saturate at `MaxTime`, so overflow is met. `Propagation` has
`primary_keys`, `ordering_keys`, which commands write, and `BroadcastFor`.

`Store` is the machine: `Execute` is one command with accounting, eviction or refusal
with rollback, its frames and what watchers are told; `Maintain` one pass of the sweep
(a cursor over `volatile`, which is a dense list that removals reorder) and of eviction;
`ReplayOne` a replica or an AOF replay; `Restart` snapshot and restore; `Scan` one page.
`mirror` is what a live query of everything has been told. `drifted` and `slipped` are
history variables for what is known to go wrong (below).

`Keyspace` is the abstract specification: keys vanish at their deadline, a command acts
at once, sorted sets have no index, and only a store with limits loses keys or refuses.
`RefinesKeyspace` says that `Store` implements it under the mapping
`db <- Visible(data, clock)`: neither expired entries nor index, cursor, sweep and
accounting can be noticed.

Abstractions: a string is a sequence of symbols and a numeral is one symbol; floats are
small integers and the infinities; JSON has null, numbers, objects and arrays; a
sample of candidates is any sample; sizes are small numbers that grow with the
contents. A store without limits runs writes of different keys at once; the model runs
them one after another, which the locks per shard justify.

### Requests and Gateway

`Requests!FromValue(name, words)` is `Command::from_value`: a table of arms per family
(arity, kind of each argument, which names are validated), the commands with options
of their own as operators, and `PayloadIndex` for the positions where bytes need not be
UTF-8. `FrameWords` gives a frame the words `broadcast_for` gives it. `Gateway` sends
requests through parser, store and propagation and lets a reader (`replay_aof`,
`apply_repl_frame`) parse and execute the words of every frame; a reader stops at one it
cannot take. `Stray` lists the frames known not to do.

### SyncClient and EdgeClient

`SyncClient` is `sync-client/src/lib.rs` as functions on a core (`seq`, `outbox`,
`inflight`, `epoch`, queries): a row is retired by counting answers, a full outbox loses
its oldest row and says so, `OnOpen` sends session state and then the whole outbox.
`EdgeClient` puts the two adapters around it. Embedded: `waiters`, one per frame sent.
Browser: IndexedDB transactions on their way in `tasks`, committed one by one, the rows,
the log of the local store, and start-up in its steps (identity, epoch, rows, renumbered
rows, log), with a reload (`Crash`) between any two. `up` and `down` are sockets; one
that the client gave up on may still be served (`Serve`) next to its successor. The
server is its DEDUP envelope with the marks. `fate` notes of a write what the server did with
it and what its client got to know: a refusal settles a write only when its answer was received
(`Heard`, `Settled`). A refused write whose answer was lost, and that DUP answers when it is sent
again because a later write has raised the mark, is `Misled`. `fate`, `told`, `issued`, `applied`,
`journal`, `skewed` are history variables.

Abstractions: a write is its number; a local store has the last write of each key; the
values of session commands are left out, and the live queries of a client are a set, since
only their number is sent again; back-off is left to fairness.

### Glob and Live

`Glob` is `glob_match` with its one point of return, `scope_covers_pattern`, and what a
pattern means (`Matches`). `Live` is `handle_ws`: per connection the registrations,
transaction, scopes, and four queues (`b` broadcast channel with lag, `q` live queries,
`w` watches, `ps` pub/sub); `Loop` is one turn of the select loop, any ready arm. Closing
takes three steps (`Unregister`, `TakeEphemeral`, `DeleteEphemeral`), between which
others write and claim. The client is `handle_frame`: `local` is its store, `live` its
live queries, and `localFirst` makes it apply its own writes before it sends them.
`ToldInScope` judges every frame at the step that sends it, against the scopes of that time; the
history field `older` has what a connection had asked for before its last SYNC.
`Sweep` announces expired keys. Which command a client sends and which writes arrive
over TCP comes from scripts, one per situation (`MCLive`).

Abstractions: writes are atomic; a queue is limited by items, not by bytes (`WriteOrder`
has bytes); a token is the scopes it grants.

## Runs

| Run | Shows |
|---|---|
| `Replication_stream` | through overflow, trimming, broken connections, rejected frames and restarts a replica always holds exactly the keyspace its resume offset names, implements `ReplicatedLog` (so never steps back), equals the hub when drained, is not counted as further than it is unless a read of an acknowledgement was dropped half way, and ends up in sync |
| `Replication_midtier` | what survives on a mid-tier hub: contiguous offsets |
| `Durability_crash` | all I/O errors, two crashes that may tear: durable writes survive and recovery is a prefix unless `Wounded`; marks never run ahead, a completed checkpoint holds them, in any case |
| `Durability_torn` | writes logged behind a torn record are lost (finding) |
| `WriteOrder_log` | commands of every ordering domain, transactions of two, barriers: `LogReplays`, `BarrierIsExact`, `Isolated`, and every operation ends |
| `WriteOrder_sessions` | one connection watches and the other writes, with a bounded notification queue, dedup ids, and limits that evict: `CompareAndSet`, `DedupOnce`, `LogReplays` |
| `Store_all` | every data command in sequences of two, per family, with expiry, sweeps, limits under every policy, restarts, scans: `IndexExact`, `MemoryCapped`, `ReplicaAgrees`, `MirrorAgrees`, `ScanComplete`, `ExpiredSwept`, and the refinement of `Keyspace` |
| `Gateway_frames` | requests of every family with odd words and numbers: no frame but a stray is refused, and its reader has the same keyspace |
| `EdgeClient_all` | embedded and browser client through breaks, refusals, reloads, sign-out: `Aligned`, `AppliedInOrder`, `NoSilentLoss`, `ToldTruth`, `LogKeepsWrites`, and `Delivered` under fairness |
| `EdgeClient_tabs` | the second of two tabs is told DUP for a write nobody executed (finding) |
| `Live_all` | live queries, watches, subscriptions, scopes, transactions, ephemeral keys: `QueryConverges`, `RegistryExact`, `ToldInScope`, `NoGhosts`, and `Settles` under fairness |
| `Live_overtaken` | a client keeps an older value than the server's (finding) |

### Bounds

Every bound is a named constant.

* Replication: 2 keys, frames of 1 or 2 bytes, backlog of 3, queue of 2, 3 writes (one
  retained, one trimmed, one in flight), 2 runs, 2 faults: every branch of the resume
  decision is taken. `AckHalf` is 2 where the code has 2^32, so that offsets up to 3 have both
  halves different from zero.
* Durability: 3 writes, 3 checkpoints, 2 errors of any kind, 2 crashes: an error in one
  run matters in the next, and a second crash finds what recovery left.
* WriteOrder: 2 connections, 2 keys with a stripe each, 3 commands: a transaction overlaps
  a conflicting write on either side. `Watchers` limits who uses WATCH, `MaxIds` the
  dedup ids.
* Store: situations of 2 or 3 commands on up to 3 keys, each starting from entries in the
  states that matter (live, expired, about to expire, indexed, of the wrong type); clock
  to 2, `SweepLimit` 1 of at most 3 keys, `MaxCursors` 1 with 2 scanners, pages of 2,
  `MaxInt` 7. Most hazards are in one command after another; the cross product of all
  commands is out of reach. A command that changes and sends nothing is the last of its
  behaviour, since nothing could tell it had been there.
* Gateway: up to 3 requests per case, `MaxInt` 7 below `MaxTime` 16, as i64 is below u64.
* EdgeClient: outbox of 2, 3 writes, 3 sockets, 2 mishaps: an outbox overflows, and a
  socket is served after its successor.
* Live: 2 clients, queues and channel of 2, at most 2 names, 1 key in an initial answer:
  each limit is met.

Deadlock checking is off where behaviours end because the bounds are used up; the
`WriteOrder` runs check it. Symmetry is used in `Replication_midtier` only.

### Fairness

* `Replication`: weak fairness of the hub's tasks and the replica's retry loop: a tokio
  task that can run does. Nothing obliges a client to write or a fault to happen.
* `WriteOrder`: the same per step, and strong fairness for taking a lock, because tokio's
  mutex is FIFO.
* `EdgeClient`: a started client goes on starting, connects again, reads what it is sent,
  and the server serves its sockets.
* `Live`: weak fairness of "some task of the server moves" and of "some client reconnects
  or reads". Nothing is assumed of which connection is next or which ready arm a select
  takes, because tokio's select picks at random.

## Proofs

Every theorem holds for any values of the constants that the module's named assumption
allows: any number of replicas, keys, connections, writes, crashes and faults. The
invariants of the inductive arguments stand in the modules themselves; TLC checked each of
them on the configurations above before it was proved.

### ReplicationProof

* `TypeCorrect`: `TypeOK` is invariant, for a mid-tier hub too;
* for a hub that is not itself a replica (`HubIsReplica = FALSE`):
  `ReplicaIsPrefix` (`ReplicaMatchesHistory`), `NoGap` (`StreamHasNoGap`),
  `DrainedReplicaIsCurrent`, `DrainedReplicaEqualsHub`, `AckedNotAhead`, and
  `ImplementsLog`: `Replication` implements `ReplicatedLog`.

The inductive invariant `IInv` says that the backlog is the last frames of the history
without a gap (`BacklogOK`); that socket and channel of a connected replica hold, in order,
the frames from where the replica is (or will be once it has installed the snapshot on the
way) up to `sent`, which is the hub's offset while it is registered (`PathOK`); that a
header promises what follows it (`SyncOK`); that no acknowledgement is ahead and, as long as
no read was dropped, the buffer and the socket hold the two halves of the same one (`AcksOK`,
`InStep`); and that the keyspace is the last entry of the history plus the writes in
flight (`StoreOK`). The last is where the write barrier enters: `Serve` captures the
store only when nothing is in flight, so the snapshot is the history at the boundary.
`ReplicaMatchesHistory` alone is not inductive, because what a replica applies next
lies in the socket. The proof has a lemma per action (`FanOutKeeps`, `ServeKeeps`,
`ApplyFrameKeeps`, ...); `Untouched` and `OneReplica` reduce a step to the replica it
concerns. The refinement maps a fan-out to `Grow`, a restart of the hub to `Restart`,
installing and applying to `Move`, rejecting and restarting a replica to `Forget`, and the
rest to stuttering; that a replica never moves back to an older place of a run comes from
`PathOK` and `SyncOK`. The hypothesis cannot be dropped: the mid-tier configurations refute
the properties; nor can `AckedNotAhead` do without `~torn` (`Replication_lag.cfg`).

### WriteOrderProof

* `TypesCorrect`: every variable keeps its type, and no queue of notifications outgrows its
  number of items;
* `DedupOnceAlways`: a dedup id takes effect at most once;
* `TransactionsIsolated`: nobody else changes a key that a running transaction watches or
  has still to write, on a store with limits too;
* `LogReplaysAlways` and `BarrierExactAlways`, for a store without limits (`~Capped`);
* `TransactionsCompareAndSet`, for commands whose notification fits the byte budget.

`LockInv` is the core: the stripe of every key a command, a logged effect or a pending
notification of an operation is about is held by that operation from when it has all its
locks to its end (`Claimed`, `LocksOK`), and while locking it holds those it no longer
needs. Two operations under way thus have disjoint keys. On top of it, `DedupInv` says that
an id's run count is 1 from its execution on and that its high-water mark, or the holder of
`dedup_order`, knows; `LogInv` that for each key the keyspace is what replaying the log and
then the effects its stripe's holder has yet to log would make; `WatchInv` that a watched key
that changed has been queued, received, or is still to be announced by whoever holds its
stripe. The hypotheses are those of the code: with limits a refused write is logged
(`WriteOrder_refuse.cfg`), and a notification beyond the budget is dropped
(the last but one row on `WriteOrder` below); for both the property is false.

### DurabilityProof

* `TypeCorrect`, `MarkIsAppliedAlways`, `CompletedSavesHaveMarks`: on a primary and on a
  replica, wounded or not;
* `DurableSurvivesAlways` and `RestartsRecoverPrefix`: on a primary
  (`FollowsPrimary = FALSE`; `~Wounded` is part of the properties).

`FileInv` bounds the ids and says that a server which refuses to start has half a record
inside its file; `MarkInv` that the marks in memory are those of writes in the keyspace, and
the persisted ones of writes in the snapshot, so that a crash between any two files leaves
no mark without its write. `RecoveryInv` relates the files to the keyspace: the writes of the AOF
ascend, and each is either in the snapshot or behind its marker and later than all of it
(`FilesOK`, which also says that the marker that decides this is fsynced); the keyspace of a
running server is snapshot, AOF, failed appends and the write under way (`RunningOK`); the
files of a stopped one are what it had, cut off (`StoppedOK`). What the replay loop computes
is proved by taking a least number of records for which the claim would fail
(`LeastElement`, `UpTo`), since the library's induction theorems cannot be used. On a
replica the two properties are false: frames do not wait for the guards of `save`.

### EdgeClientTypes, EdgeClientSlots, EdgeClientOrder

* `SlotsStandForCommands`: `Aligned`, for any number of tabs or embedded clients, sockets,
  writes and mishaps, without a hypothesis;
* `WritesExecutedInOrder`: `AppliedInOrder`, if one tab at a time uses the IndexedDB of an
  origin (`OneTab`; there may be any number of embedded clients) and no session gives away
  all its 2^32 wire ids (`[]IdsLeft`). Neither hypothesis can be dropped.
  With the constants of `EdgeClient_tabs` TLC finds `AppliedInOrder` violated: the tab with
  the lower epoch writes later and is executed first. With `IdRange = 2`, three writes, a
  break and a refusal, the third write, whose id has wrapped, is executed before the second.

`EdgeClientTypes` has what every operation of `SyncClient` returns (`OnOpenType`,
`EnqueueType`, `AckType`, ...), that every step keeps the types (`TypesStep`), and how a
step changes the commands without an answer (`Unanswered*`). `Aligned` needs little more
than itself (`AlignInv`): rows and slots carry numbers below the next one, so that a new row
never takes a number that a slot still stands for, and a tab has no rows before it restored
them. `EdgeClientSlots` shows it per tab; a step of one tab or on one socket does not reach
the others (`OthersGood`, `SocketGood`).

`OrderInv` is about the writes in play (`InPlay`): those in an envelope that may still reach
the server, in an outbox, on disk, in a transaction on its way to it, or in a socket that the
client may have given up. Of one client, they have wire ids in the order of issue; one whose
id is above the mark was issued after everything executed (`OrderOK`); and the next wire id is
above all of them, because a reload takes an epoch greater than the one on disk before it
restores a row (`EpochOK`). Most steps only take writes out of play (`Keeps`, a lemma per
action); what remains are the start of a client, a new write, and `Serve`, which is where
the mark moves.

### EdgeClientWire, EdgeClientFate

* `NothingLostSilently`: `NoSilentLoss`, under `OneTab` and `[]IdsLeft`;
* `CallersToldTruth`: `ToldTruth`, under `[]IdsLeft` alone;
* `LogBringsWritesBack` (`EdgeClientWire`): `LogKeepsWrites`, under `OneTab` alone.

Again no hypothesis can be dropped. With the constants of `EdgeClient_tabs` TLC finds
`NoSilentLoss` violated, and, with writes to two keys in its scenario, `LogKeepsWrites`; with
those of `EdgeClient_all` and `IdRange = 2` it finds the first two violated.

A row leaves the outbox and the disk when its answer comes, so the question is whether a
write that was answered with DUP, or that was passed over, has come to an end: executed or
refused, or, in a browser, dropped, cleared or lost (`Over`). A write that is over may still be
sent again; its client is `Done` with it once it is also `Closed`, that is settled or misled. The inductive invariant is
`EdgeInv`: the types, `AlignInv`, and, for one tab or embedded clients (`Alone`), `OrderInv`,
`WireInv`, `FateInv` and `ToldTruth` itself.

`WireInv` (`EdgeClientWire`) is about the writes a client has, on disk, in its outbox, on their
way to the disk or on the socket it listens to (`Owned`), and has six parts. A socket is
authenticated before anything else is sent on it (`AuthOK`), so no write is answered with
NOAUTH; a wire id stands for one write (`UniqueOK`); outbox rows are in the order of their
wire ids (`AscendOK`); ids still to be given are above the server's mark (`MarksOK`); a tab
has writes of its own client only (`OwnOK`); and the rows on disk and on their way to it are
numbered in the order of their wire ids (`DiskOK`), which is why a reload restores them in
order.

`FateInv` (`EdgeClientFate`) has three parts beside `NoSilentLoss`. The server takes the
writes of a client in the order of their wire ids: an owned write that the mark has passed is
over, and one that a later write comes before on a socket, a socket the client gave up
included, is over or stands before that one too (`PassedOver`). A client
sends what it has and has what is on disk, except what it is done with (`HasAll`): without it, a new
write could pass an older one that never left. An answer on its way is true (`AnswersTrue`):
one that says executed or refused says what was done, and a DUP that the server gave one to
a write that is over.
The proofs have one lemma per action and part. `Serve` moves the mark and needs `PassedOver`
for what stands before the command served; the opening of a socket, which sends the outbox
again, needs `AscendOK`; the answer that retires a row needs `Aligned` and `AnswersTrue`, and
so does `ToldTruth`. `clear_outbox` with answers on their way sets `skewed`, from where
`FateInv` says nothing, as `NoSilentLoss` does; embedded clients never call it (`ModeOK`).

`LogKeepsWrites` rests on `LogInv`. Of a key, the log's entry with the greatest number is the
last write that reached the log (`Logged`), or there is none and that write has a lifetime,
which a compaction may have found run out. This survives an append only if the new entry has a
number above all on disk, and the append may be queued for long, behind rows of the outbox and
ahead of other appends; so the numbers rise from the entries on disk to those on their way, in
the order of the queue, to `walSeq` (`LogRises`). The lemmas say what the pieces do: `HydrateIs`,
that executing a log leaves at each key what its last command there says, by induction over the
log's length (`Hydrate` is a recursive function over it); `ReplayIs`, the same for the entries on
disk; `SnapshotIs` and `CompactedIs`, that a compaction keeps the last entry of each key and no
other, under new numbers; `TopIs`, that the number a reload goes on from is the greatest.

### Only model-checked

The liveness properties (fairness and ENABLED are beyond the prover); the byte bound of
`WriteOrder!TypeOK`, which is a sum over a sequence; the properties of `Store`, `Gateway` and
`Live` and the refinement of `Keyspace`. `DataTypes`, `Requests` and `Glob`, and what extends them, use
RECURSIVE operators and so stay with TLC.

## Findings

`PROJECT.json` quotes, for each run that ends in a violation, the line of the
repository that says otherwise: the AOF is appended to behind a torn tail; two queues to
one connection overtake each other and the client keeps the older value; two tabs share
a dedup identity.

The modules show more, with a configuration of its own or the constants of a passing run
changed as given. They are not kept as runs, having the same causes or being rarer.

| Module and property | Configuration or change | What TLC finds |
|---|---|---|
| `Replication`, `NoWriteAppliedTwice` | `Replication_midtier_snapshot.cfg` | a sub-replica attaches while a mid-tier hub is between executing and fanning out a frame (`apply_repl_frame` takes no guard; `replication.rs:599` relies on it): the write is applied twice |
| `Replication`, `DrainedEqualsHub` | added to `Replication_midtier` | a full synchronization replaces a mid-tier hub's keyspace (`store.rs:1820`) and its sub-replicas stay on the old one with nothing left to receive |
| `Durability`, `NothingLost` | `Failures = {"late"}`, `TornCrashes = {}` in `Durability_crash` | the id of a checkpoint that failed after its snapshot was renamed is used again (`server_state.rs:240`): a crash before the next snapshot skips the writes between the two markers |
| `Durability`, `DurableSurvives` | `FollowsPrimary = TRUE` and no other property in `Durability_crash` | on a replica a frame is logged between snapshot and truncation of a checkpoint, and discarded |
| `Durability`, `RecoversPrefix` | without its `~Wounded`, in `Durability_crash` | a checkpoint marker behind a torn record is not found, so covered records are replayed over the snapshot |
| `Durability`, `WritesFailClosed` | added to `Durability_crash` | a write that passed the health check (`propagation.rs:161`) before a failure is executed after it |
| `Replication`, `LagIsTrue` | `Replication_lag.cfg` | a frame becomes ready while an acknowledgement is half read: the bytes in the buffer are lost, a number is put together from two acknowledgements, and `fetch_max` keeps it although the replica is not that far (`replication.rs:696`; `replication.rs:165` says "This is true lag", `docs/server/operations.md:67` "Zero means every replica is caught up") |
| `WriteOrder`, `LogIsReplayable` | `WriteOrder_replayable.cfg` | a push refused with WRONGTYPE is in the log, although `broadcast_for` is documented as "`None` if the command mutated nothing" (`propagation.rs:496`) |
| `WriteOrder`, `LogReplays` | `WriteOrder_refuse.cfg` | a SET refused for lack of memory and undone is in the log and takes effect in the replay (`docs/server/configuration.md:56`) |
| `WriteOrder`, `LogReplays` | `Commands <- MSetCommands` in `WriteOrder_sessions` | MSET at the key limit may evict one of its own keys before writing it (`store.rs:2187`), and the DEL is logged after the MSET |
| `WriteOrder`, `CompareAndSet` | `Commands <- OversizeCommands`, `MaxMemory = 0` in `WriteOrder_sessions` | a notification larger than its queue (8 MB; a value may have 64 MB) is dropped with nothing queued, and EXEC runs although a watched key changed |
| `Store`, `ReplicaAgrees` | `Store_late.cfg` | frames replayed after a deadline has passed that a later frame lifts: the key of SET ... PX, PERSIST is expired when PERSIST is replayed, and stays so, although it lives on the primary; INCRBY likewise starts over |
| `Gateway`, `FramesReadable` | `Gateway_deadline.cfg` | a deadline past the greatest i64 is stored, written to the frame and refused by `extract_int` when it is read; a test calls "an encoding no parser accepts" a "silent data-loss bug" (`propagation.rs:1137`) |
| `EdgeClient`, `RetiredWhenKnown` | `EdgeClient_refused.cfg` | a write is refused and the answer is lost with the socket, a later write of the same client is executed and raises the mark, and the first one, sent again, is answered with DUP and retired: never executed, and nobody was told (`docs/server/protocol.md:85` "Acknowledgment means the server accepted and applied the write"; `docs/browser/offline.md:22` "skips ids it has already applied") |
| `EdgeClient`, `DeadlineKept` | `EdgeClient_lifetime.cfg` | a reload replays a relative lifetime from the log and so extends it (`docs/browser/persistence.md:127`) |
| `Live`, `QueryConverges` | `Live_double.cfg` | a push to a list under a live query reaches the client as a state and as a mutation; when the state comes first, the mutation is applied on top of it (`docs/server/commands.md:438`) |
| `Live`, `PushesInScope` | `Live_scopes.cfg` | MSET or DEL of a key in scope and one out of scope is pushed whole, since `scopes_match` asks for one key and the frame is not split (`sync_scopes.rs:20`, `propagation.rs:593`; `docs/server/sync-scopes.md:5` "delivers only matching keys") |
| `Live`, `QueriesInScope` | `Live_narrowed.cfg` | a SYNC that narrows the scopes leaves live queries and watches as they are (`connection.rs:1415` checks at QSUB only), and they go on telling of keys out of scope; with `QueryConverges` in its place, such a query keeps a value whose newer push was filtered |
| `Live`, `PresenceKept` | `Live_presence.cfg` | a closing connection has taken its ephemeral key but not deleted it yet when another one sets and claims it; the deletion then removes the key of the open connection (`docs/server/commands.md:172`) |

What the passing runs exclude by name, because the code is known to differ there:

* `Gateway!Stray`: failed writes that are logged (LPUSH, ZADD, HSET, GETSET, ZINCRBY, ... of
  the wrong type); deadlines past i64; HINCRBY, HINCRBYFLOAT and HSETNX on a name that HSET,
  their frame, refuses; pushes and *STORE of nil words only; SADD of nil words, which makes
  an empty set and no frame.
* `Store!Drifts`: the rollback after OOM rebuilds the metadata without expired entries that
  are still stored; MSET bills twice a key of its own that it evicted. `Store!Slips`: RENAME
  of an expired source, and JMERGE of null over an expired document, remove it without a
  word to live queries.
* `Live`: `missed` (a connection that lagged behind the broadcast channel may hold stale keys
  until their next change), `orphaned` (the DEL at close is refused while persistence is unhealthy),
  `Mixed` and `Older` (mutations of keys in and out of scope; live queries and watches from before
  the last SYNC).
* `Replication`: `torn`, an acknowledgement that was read in part (`AckedIsApplied` only).
* `EdgeClient!skewed`: `clear_outbox` while answers are on their way shifts rows and answers
  against each other. `EdgeClient!Misled`: a lost refusal followed by DUP.
* `Durability!Wounded`: above.

Noticed while reading, not stated as properties: ZADD with GT or LT is propagated without
them, and SET ... GET whose condition failed is logged; HINCRBYFLOAT to infinity leaves an
empty hash; `max_keys` is enforced only by SET, SETNX, SETEX, PSETEX and MSET; a local-first
write that the server refuses stays in the client's store; ESET inside MULTI or over TCP
claims nothing; a plain SET does not release an ephemeral key; `glob_match("*", "*a")` is
false; wire ids wrap at 2^32; dedup marks are dropped after 24 hours.

## Plan

Done: `Replication` with its refinement of `ReplicatedLog`, `WriteOrder`, `Durability` and
the clients, each with proofs; `Store` with its refinement of `Keyspace`; the parser, live
connections. Next:

1. `Failover`: REPLICAOF NO ONE during a stream and the resume state after it.

## Not modelled

The byte grammar of RESP, the catalog, INFO, CONFIG, metrics, TLS, listeners, the SDK
wrappers and packaging: formatting, tables and I/O without state of their own. AUTH, its
throttle and the client registry: counters that nothing else depends on (the effect of AUTH
on the client's session is in `EdgeClient`). The verification of sync tokens. Promotion: one
flag, read between connections; planned. The BroadcastChannel between tabs and the
JavaScript callbacks of the browser cache, local reads of the embedded client. The parsing
of session and administration commands, which start parsed in `WriteOrder`, `Live` and
`EdgeClient`.
