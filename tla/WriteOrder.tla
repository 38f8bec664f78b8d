----------------------------- MODULE WriteOrder -----------------------------
(***************************************************************************)
(* Client writes and transactions of one server (the command loops of      *)
(* server-native/src/connection.rs, execute_ordered_write and              *)
(* apply_write_effects in propagation.rs, the ordering stripes of          *)
(* replication.rs and the WATCH registry of watch.rs).  A write locks the  *)
(* stripes of its keys in ascending order, is executed, logged, and told to*)
(* the connections that watch its keys, and only then lets go of them.     *)
(* EXEC also locks the keys its connection watches before it looks whether *)
(* one of them has changed.                                                *)
(***************************************************************************)
EXTENDS Integers, FiniteSetsExt, SequencesExt

CONSTANTS
    Conns,          \* connections
    Keys,
    Stripes,        \* number of ordering stripes (WRITE_ORDER_STRIPES)
    StripeOf,       \* stripe_for: the stripe of each key
    Commands,       \* the commands clients send
    MaxKeys,        \* RECACHED_MAX_KEYS, 0 for no limit
    MaxMemory,      \* max_memory_bytes, 0 for no limit
    Evicts,         \* whether the eviction policy may evict, or refuses (NoEviction)
    NotifItems,     \* NOTIFICATION_QUEUE_ITEMS
    NotifBytes,     \* NOTIFICATION_QUEUE_BYTES
    MaxQueue,       \* RECACHED_MAX_MULTI_QUEUE, the length of a transaction
    Watchers,       \* bound: the connections that use WATCH
    MaxIds,         \* bound: ids a DEDUP client uses
    MaxWrites       \* bound: commands executed

Ops == {"set", "append", "push", "sadd", "store", "del", "flush"}

ASSUME WriteOrderAssumption ==
    /\ "free" \notin Conns
    /\ IsFiniteSet(Keys)
    /\ Stripes \in Nat \ {0}
    /\ StripeOf \in [Keys -> 1..Stripes]
    /\ Commands \subseteq [op : Ops, keys : SUBSET Keys, src : SUBSET Keys, size : Nat \ {0}]
    /\ MaxKeys \in Nat /\ MaxMemory \in Nat /\ Evicts \in BOOLEAN
    /\ Watchers \subseteq Conns
    /\ NotifItems \in Nat \ {0} /\ NotifBytes \in Nat \ {0}
    /\ MaxQueue \in Nat /\ MaxIds \in Nat /\ MaxWrites \in Nat

VARIABLES
    store,      \* the keyspace
    replayed,   \* history: the keyspace that replaying the log makes
    refused,    \* history: whether a logged command fails when it is replayed
    written,    \* commands executed, the source of fresh ids
    holder,     \* who holds each lock; lock 0 is dedup_order, the others are stripes
    registry,   \* per key: the connections registered for it (WatchHub.map)
    hwm,        \* the dedup high-water mark of the client
    runs,       \* history: how often the write of each dedup id took effect
    pc,         \* per connection: where its command loop is
    kind,       \* per connection: the operation under way
    need,       \* per connection: locks still to take
    todo,       \* per connection: commands still to execute
    effects,    \* per connection: executed commands and evictions still to be logged
    tell,       \* per connection: keys whose watchers are still to be told
    dedup,      \* per connection: the dedup id of the operation, or NoId
    failed,     \* per connection: the last command gave an error
    open,       \* per connection: a transaction is open (multi_queue is Some)
    multi,      \* per connection: the commands queued in it
    poisoned,   \* per connection: multi_dirty
    watched,    \* per connection: its watched_keys
    stale,      \* history: per connection, watched keys that changed since WATCH
    notifs,     \* per connection: sizes of the queued notifications (watch_rx)
    dirty,      \* per connection: watch_dirty
    overflow    \* per connection: an overflow was signalled

dataVars == <<store, replayed, refused>>
opVars == <<pc, kind, need, todo, effects, tell, dedup, failed>>
multiVars == <<open, multi, poisoned>>
watchVars == <<registry, watched, stale, notifs, dirty, overflow>>
vars == <<dataVars, written, holder, hwm, runs, opVars, multiVars, watchVars>>

NoId == 0
Free == "free"
DedupOrder == 0
AllStripes == 1..Stripes

Nil == [type |-> "none", data |-> << >>, size |-> 1]
Values == [type : {"none", "string", "list", "set"}, data : Seq(Nat), size : Nat \ {0}]
Effects == [cmd : Commands \cup [op : {"del"}, keys : SUBSET Keys, src : {{}}, size : {1}], id : Nat]

\* NotificationBudget: bytes queued for a connection.
Pending(c) == MapThenSumSet(LAMBDA i : notifs[c][i], DOMAIN notifs[c])

Types ==
    /\ store \in [Keys -> Values]
    /\ replayed \in [Keys -> Values]
    /\ refused \in BOOLEAN
    /\ written \in Nat
    /\ holder \in [0..Stripes -> Conns \cup {Free}]
    /\ registry \in [Keys -> SUBSET Conns]
    /\ hwm \in Nat
    /\ runs \in [1..MaxIds -> Nat]
    /\ pc \in [Conns -> {"idle", "dedup", "lock", "run"}]
    /\ kind \in [Conns -> {"none", "write", "exec", "barrier"}]
    /\ need \in [Conns -> SUBSET AllStripes]
    /\ todo \in [Conns -> Seq(Commands)]
    /\ effects \in [Conns -> Seq(Effects)]
    /\ tell \in [Conns -> SUBSET Keys]
    /\ dedup \in [Conns -> 0..MaxIds]
    /\ failed \in [Conns -> BOOLEAN]
    /\ open \in [Conns -> BOOLEAN]
    /\ multi \in [Conns -> Seq(Commands)]
    /\ poisoned \in [Conns -> BOOLEAN]
    /\ watched \in [Conns -> SUBSET Keys]
    /\ stale \in [Conns -> SUBSET Keys]
    /\ notifs \in [Conns -> Seq(Nat)]
    /\ \A c \in Conns : Len(notifs[c]) <= NotifItems
    /\ dirty \in [Conns -> BOOLEAN]
    /\ overflow \in [Conns -> BOOLEAN]

TypeOK == Types /\ \A c \in Conns : Pending(c) <= NotifBytes

Init ==
    /\ store = [k \in Keys |-> Nil]
    /\ replayed = [k \in Keys |-> Nil]
    /\ refused = FALSE
    /\ written = 0
    /\ holder = [l \in 0..Stripes |-> Free]
    /\ registry = [k \in Keys |-> {}]
    /\ hwm = 0
    /\ runs = [i \in 1..MaxIds |-> 0]
    /\ pc = [c \in Conns |-> "idle"]
    /\ kind = [c \in Conns |-> "none"]
    /\ need = [c \in Conns |-> {}]
    /\ todo = [c \in Conns |-> << >>]
    /\ effects = [c \in Conns |-> << >>]
    /\ tell = [c \in Conns |-> {}]
    /\ dedup = [c \in Conns |-> NoId]
    /\ failed = [c \in Conns |-> FALSE]
    /\ open = [c \in Conns |-> FALSE]
    /\ multi = [c \in Conns |-> << >>]
    /\ poisoned = [c \in Conns |-> FALSE]
    /\ watched = [c \in Conns |-> {}]
    /\ stale = [c \in Conns |-> {}]
    /\ notifs = [c \in Conns |-> << >>]
    /\ dirty = [c \in Conns |-> FALSE]
    /\ overflow = [c \in Conns |-> FALSE]

-----------------------------------------------------------------------------
(* Commands *)

\* The keys a command writes (primary_keys); FLUSHDB writes every key.
WriteKeys(cmd) == IF cmd.op = "flush" THEN Keys ELSE cmd.keys

\* Mutant of OrderingKeys: the sources of a *STORE command are left out.
OrderingKeysDst(cmd) == WriteKeys(cmd)

\* ordering_keys: the source sets of a *STORE command belong to its ordering domain.
OrderingKeys(cmd) == WriteKeys(cmd) \cup cmd.src

\* WRONGTYPE: the key, or a source of a *STORE command, holds a value of another type.
Fails(st, cmd) ==
    \/ cmd.op = "append" /\ \E k \in cmd.keys : st[k].type \notin {"none", "string"}
    \/ cmd.op = "push" /\ \E k \in cmd.keys : st[k].type \notin {"none", "list"}
    \/ cmd.op = "sadd" /\ \E k \in cmd.keys : st[k].type \notin {"none", "set"}
    \/ cmd.op = "store" /\ \E k \in cmd.src : st[k].type \notin {"none", "set"}

\* The elements of a set, in one order.
Elements(S) == SetToSeq(S)

\* What the command makes of the value of key k; its argument is a fresh id.
NewValue(st, cmd, id, k) ==
    LET old == st[k].data
        typed(type, data) == [type |-> type, data |-> data, size |-> cmd.size]
    IN  CASE cmd.op = "set" -> typed("string", <<id>>)
          [] cmd.op = "append" -> typed("string", Append(old, id))
          [] cmd.op = "push" -> typed("list", Append(old, id))
          [] cmd.op = "sadd" -> typed("set", Elements(Range(old) \cup {id}))
          [] cmd.op = "store" ->
               typed("set", Elements(UNION {Range(st[s].data) : s \in cmd.src}))
          [] OTHER -> Nil

\* execute_inner, for a store without limits.
Apply(st, cmd, id) ==
    IF Fails(st, cmd) THEN st
    ELSE [k \in Keys |-> IF k \in WriteKeys(cmd) THEN NewValue(st, cmd, id, k) ELSE st[k]]

Capped == MaxKeys > 0 \/ MaxMemory > 0

Full(st) == {k \in Keys : st[k] # Nil}

Used(st) == MapThenSumSet(LAMBDA k : st[k].size, Full(st))

Without(st, gone) == [k \in Keys |-> IF k \in gone THEN Nil ELSE st[k]]

\* SET and MSET make room for the keys they add before they write.
Needed(st, cmd) ==
    IF MaxKeys = 0 \/ cmd.op # "set" THEN 0
    ELSE Max({0, Cardinality(cmd.keys \ Full(st)) - Max({0, MaxKeys - Cardinality(Full(st))})})

\* try_evict_for_memory_inner: victims are chosen one by one until the store fits.
Victims(st) ==
    IF ~ Evicts \/ MaxMemory = 0 \/ Used(st) <= MaxMemory THEN {{}}
    ELSE {gone \in SUBSET Full(st) :
            /\ Used(Without(st, gone)) <= MaxMemory
            /\ \E k \in gone : Used(Without(st, gone \ {k})) > MaxMemory}

\* execute_reporting: the possible outcomes of a command, with the keys evicted for
\* it.  Without an eviction policy a write that does not fit is refused, and undone.
Outcomes(st, cmd, id) ==
    LET needed == Needed(st, cmd)
        room == Min({needed, Cardinality(Full(st))})
    IN  UNION {
          LET base == Without(st, early)
              tooMany == Cardinality(early) < needed
              after == IF tooMany THEN base ELSE Apply(base, cmd, id)
              oom == ~ Evicts /\ MaxMemory > 0
                       /\ Used(after) > MaxMemory /\ Used(after) > Used(st)
          IN  {[store |-> IF oom THEN st ELSE Without(after, late),
                err |-> tooMany \/ oom \/ Fails(base, cmd),
                evicted |-> early \cup late] : late \in Victims(after)}
        : early \in kSubset(IF Evicts THEN room ELSE 0, Full(st))}

\* broadcast_for: an APPEND or SADD that failed is not propagated; SET, pushes,
\* *STORE, DEL and FLUSHDB are, whatever they answered.
Propagates(cmd, err) == err => cmd.op \notin {"append", "sadd"}

\* Mutant of StripesFor: only the first command of a transaction counts.
StripesForFirst(commands, extra) ==
    {StripeOf[k] : k \in extra \cup (IF commands = << >> THEN {} ELSE OrderingKeys(commands[1]))}

\* Mutant of StripesFor: a capped store is not special.
StripesForUncapped(commands, extra) ==
    {StripeOf[k] : k \in extra \cup UNION {OrderingKeys(cmd) : cmd \in Range(commands)}}

\* lock_commands_and_keys: every stripe for a capped store or a FLUSHDB, else the
\* stripes of the commands and of the extra keys.
StripesFor(commands, extra) ==
    IF Capped \/ \E cmd \in Range(commands) : cmd.op = "flush"
    THEN AllStripes
    ELSE {StripeOf[k] : k \in extra \cup UNION {OrderingKeys(cmd) : cmd \in Range(commands)}}

-----------------------------------------------------------------------------
(* WATCH, MULTI and their kin: steps of an idle connection *)

\* unregister_all_watches, and the drain of watch_rx that always follows it.
Unregister(c) ==
    /\ registry' = [k \in Keys |-> IF k \in watched[c] THEN registry[k] \ {c} ELSE registry[k]]
    /\ watched' = [watched EXCEPT ![c] = {}]
    /\ notifs' = [notifs EXCEPT ![c] = << >>]
    /\ dirty' = [dirty EXCEPT ![c] = FALSE]
    /\ stale' = [stale EXCEPT ![c] = {}]
    /\ UNCHANGED overflow

\* WATCH outside MULTI, for each of its keys: one watched already is not registered
\* again.
Watch(c, k) ==
    /\ pc[c] = "idle" /\ ~ open[c]
    /\ c \in Watchers /\ k \notin watched[c]
    /\ watched' = [watched EXCEPT ![c] = @ \cup {k}]
    /\ registry' = [registry EXCEPT ![k] = @ \cup {c}]
    /\ UNCHANGED <<dataVars, written, holder, hwm, runs, opVars, multiVars,
                   stale, notifs, dirty, overflow>>

\* UNWATCH, for each of its keys: what is queued is dropped once nothing is watched
\* any more.
Unwatch(c, k) ==
    /\ pc[c] = "idle" /\ ~ open[c]
    /\ k \in watched[c]
    /\ watched' = [watched EXCEPT ![c] = @ \ {k}]
    /\ registry' = [registry EXCEPT ![k] = @ \ {c}]
    /\ IF watched'[c] = {}
       THEN notifs' = [notifs EXCEPT ![c] = << >>] /\ dirty' = [dirty EXCEPT ![c] = FALSE]
       ELSE UNCHANGED <<notifs, dirty>>
    /\ stale' = [stale EXCEPT ![c] = @ \ {k}]
    /\ UNCHANGED <<dataVars, written, holder, hwm, runs, opVars, multiVars, overflow>>

\* The select arm of watch_rx.
Receive(c) ==
    /\ pc[c] = "idle"
    /\ watched[c] # {} /\ notifs[c] # << >>
    /\ notifs' = [notifs EXCEPT ![c] = Tail(@)]
    /\ dirty' = [dirty EXCEPT ![c] = TRUE]
    /\ UNCHANGED <<dataVars, written, holder, hwm, runs, opVars, multiVars,
                   registry, watched, stale, overflow>>

Multi(c) ==
    /\ pc[c] = "idle" /\ ~ open[c]
    /\ open' = [open EXCEPT ![c] = TRUE]
    /\ multi' = [multi EXCEPT ![c] = << >>]
    /\ poisoned' = [poisoned EXCEPT ![c] = FALSE]
    /\ UNCHANGED <<dataVars, written, holder, hwm, runs, opVars, watchVars>>

\* A command inside MULTI is queued; one over the limit poisons the transaction, as
\* does one that cannot be parsed or is not allowed there.
Enqueue(c, cmd) ==
    /\ pc[c] = "idle" /\ open[c]
    /\ IF Len(multi[c]) < MaxQueue
       THEN multi' = [multi EXCEPT ![c] = Append(@, cmd)] /\ UNCHANGED poisoned
       ELSE poisoned' = [poisoned EXCEPT ![c] = TRUE] /\ UNCHANGED multi
    /\ UNCHANGED <<dataVars, written, holder, hwm, runs, opVars, open, watchVars>>

\* DISCARD, and EXEC of a poisoned transaction or, for a transaction that writes, of
\* one on a replica or an unhealthy server: nothing runs, nothing stays watched.
Discard(c) ==
    /\ pc[c] = "idle" /\ open[c]
    /\ open' = [open EXCEPT ![c] = FALSE]
    /\ multi' = [multi EXCEPT ![c] = << >>]
    /\ poisoned' = [poisoned EXCEPT ![c] = FALSE]
    /\ Unregister(c)
    /\ UNCHANGED <<dataVars, written, holder, hwm, runs, opVars>>

\* The connection ends, of its own accord or on an overflow signal, and another
\* takes its place.  The select loop may read one more command before the signal.
Close(c) ==
    /\ pc[c] = "idle"
    /\ overflow[c] \/ watched[c] # {} \/ open[c]
    /\ registry' = [k \in Keys |-> registry[k] \ {c}]
    /\ watched' = [watched EXCEPT ![c] = {}]
    /\ notifs' = [notifs EXCEPT ![c] = << >>]
    /\ dirty' = [dirty EXCEPT ![c] = FALSE]
    /\ overflow' = [overflow EXCEPT ![c] = FALSE]
    /\ open' = [open EXCEPT ![c] = FALSE]
    /\ multi' = [multi EXCEPT ![c] = << >>]
    /\ poisoned' = [poisoned EXCEPT ![c] = FALSE]
    /\ stale' = [stale EXCEPT ![c] = {}]
    /\ UNCHANGED <<dataVars, written, holder, hwm, runs, opVars>>

-----------------------------------------------------------------------------
(* Starting an operation and locking *)

Underway == MapThenSumSet(LAMBDA d : Len(todo[d]), Conns)

Start(c, what, locks, commands, id) ==
    /\ pc[c] = "idle"
    /\ written + Underway + Len(commands) <= MaxWrites
    /\ pc' = [pc EXCEPT ![c] = IF id = NoId THEN "lock" ELSE "dedup"]
    /\ kind' = [kind EXCEPT ![c] = what]
    /\ need' = [need EXCEPT ![c] = locks]
    /\ todo' = [todo EXCEPT ![c] = commands]
    /\ dedup' = [dedup EXCEPT ![c] = id]
    /\ failed' = [failed EXCEPT ![c] = FALSE]
    /\ UNCHANGED <<dataVars, written, holder, hwm, runs, effects, tell>>

\* execute_ordered_write, for a plain command or one wrapped in DEDUP.
BeginWrite(c, cmd, id) ==
    /\ ~ open[c]
    /\ Start(c, "write", StripesFor(<<cmd>>, {}), <<cmd>>, id)
    /\ UNCHANGED <<multiVars, watchVars>>

\* EXEC of a transaction that is not poisoned: it reserves the keys of its commands
\* and the watched ones.
BeginExec(c) ==
    /\ open[c] /\ ~ poisoned[c]
    /\ Start(c, "exec", StripesFor(multi[c], watched[c]), multi[c], NoId)
    /\ open' = [open EXCEPT ![c] = FALSE]
    /\ multi' = [multi EXCEPT ![c] = << >>]
    /\ UNCHANGED <<poisoned, watchVars>>

\* Mutant of BeginBarrier: only one stripe is locked.
BeginBarrierOne(c) ==
    /\ ~ open[c]
    /\ Start(c, "barrier", {1}, << >>, NoId)
    /\ UNCHANGED <<multiVars, watchVars>>

\* lock_all_writes as SAVE, QSUB and a replica's synchronization use it.
BeginBarrier(c) ==
    /\ ~ open[c]
    /\ Start(c, "barrier", AllStripes, << >>, NoId)
    /\ UNCHANGED <<multiVars, watchVars>>

\* Mutant of Dedup: the lookup is not ordered with the write that follows it.
DedupUnordered(c) ==
    /\ pc[c] = "dedup"
    /\ IF dedup[c] <= hwm
       THEN /\ pc' = [pc EXCEPT ![c] = "idle"]
            /\ kind' = [kind EXCEPT ![c] = "none"]
            /\ need' = [need EXCEPT ![c] = {}]
            /\ todo' = [todo EXCEPT ![c] = << >>]
            /\ dedup' = [dedup EXCEPT ![c] = NoId]
       ELSE pc' = [pc EXCEPT ![c] = "lock"] /\ UNCHANGED <<kind, need, todo, dedup>>
    /\ UNCHANGED <<dataVars, written, holder, hwm, runs, effects, tell, failed, multiVars,
                   watchVars>>

\* dedup_order, then dedup_is_duplicate: a duplicate is answered DUP.
Dedup(c) ==
    /\ pc[c] = "dedup"
    /\ holder[DedupOrder] = Free
    /\ IF dedup[c] <= hwm
       THEN /\ pc' = [pc EXCEPT ![c] = "idle"]
            /\ kind' = [kind EXCEPT ![c] = "none"]
            /\ need' = [need EXCEPT ![c] = {}]
            /\ todo' = [todo EXCEPT ![c] = << >>]
            /\ dedup' = [dedup EXCEPT ![c] = NoId]
            /\ UNCHANGED holder
       ELSE /\ pc' = [pc EXCEPT ![c] = "lock"]
            /\ holder' = [holder EXCEPT ![DedupOrder] = c]
            /\ UNCHANGED <<kind, need, todo, dedup>>
    /\ UNCHANGED <<dataVars, written, hwm, runs, effects, tell, failed, multiVars, watchVars>>

\* Mutant of Lock: the stripes are locked in the order of the keys of the commands.
LockUnsorted(c) ==
    /\ pc[c] = "lock"
    /\ \E l \in need[c] :
           /\ holder[l] = Free
           /\ holder' = [holder EXCEPT ![l] = c]
           /\ need' = [need EXCEPT ![c] = @ \ {l}]
    /\ UNCHANGED <<dataVars, written, hwm, runs, pc, kind, todo, effects, tell, dedup, failed,
                   multiVars, watchVars>>

\* The stripes are locked one by one, in ascending order.
Lock(c) ==
    /\ pc[c] = "lock" /\ need[c] # {}
    /\ LET l == Min(need[c])
       IN  /\ holder[l] = Free
           /\ holder' = [holder EXCEPT ![l] = c]
           /\ need' = [need EXCEPT ![c] = @ \ {l}]
    /\ UNCHANGED <<dataVars, written, hwm, runs, pc, kind, todo, effects, tell, dedup, failed,
                   multiVars, watchVars>>

\* The operation is over and its guards are dropped.
Release(c) ==
    /\ pc' = [pc EXCEPT ![c] = "idle"]
    /\ kind' = [kind EXCEPT ![c] = "none"]
    /\ todo' = [todo EXCEPT ![c] = << >>]
    /\ dedup' = [dedup EXCEPT ![c] = NoId]
    /\ failed' = [failed EXCEPT ![c] = FALSE]
    /\ holder' = [l \in 0..Stripes |-> IF holder[l] = c THEN Free ELSE holder[l]]

\* All guards are held.  EXEC now looks at its watch: a notification queued or
\* received since WATCH aborts it.
Locked(c) ==
    /\ pc[c] = "lock" /\ need[c] = {}
    /\ IF kind[c] = "exec" /\ (notifs[c] # << >> \/ dirty[c])
       THEN Release(c) /\ Unregister(c)
       ELSE /\ pc' = [pc EXCEPT ![c] = "run"]
            /\ UNCHANGED <<kind, todo, dedup, failed, holder, watchVars>>
    /\ UNCHANGED <<dataVars, written, hwm, runs, need, effects, tell, multiVars>>

-----------------------------------------------------------------------------
(* Executing under the guards *)

\* One command is executed in memory.  Its evictions are propagated as DELs, after
\* the command itself.
Execute(c) ==
    /\ pc[c] = "run" /\ todo[c] # << >>
    /\ effects[c] = << >> /\ tell[c] = {}
    /\ LET cmd == Head(todo[c])
           id == written + 1
       IN  \E out \in Outcomes(store, cmd, id) :
             /\ store' = out.store
             /\ effects' = [effects EXCEPT ![c] =
                   (IF Propagates(cmd, out.err) THEN <<[cmd |-> cmd, id |-> id]>> ELSE << >>)
                     \o SetToSeq({[cmd |-> [op |-> "del", keys |-> {k}, src |-> {}, size |-> 1],
                                   id |-> id] : k \in out.evicted})]
             /\ failed' = [failed EXCEPT ![c] = out.err]
    /\ stale' = [d \in Conns |-> stale[d] \cup {k \in watched[d] : store'[k] # store[k]}]
    /\ written' = written + 1
    /\ todo' = [todo EXCEPT ![c] = Tail(@)]
    /\ UNCHANGED <<replayed, refused, holder, hwm, runs, pc, kind, need, tell, dedup,
                   multiVars, registry, watched, notifs, dirty, overflow>>

\* apply_write_effects: whether anyone watches is read before on_write logs the
\* command.
LogEffect(c) ==
    /\ effects[c] # << >> /\ tell[c] = {}
    /\ LET e == Head(effects[c])
       IN  /\ replayed' = Apply(replayed, e.cmd, e.id)
           /\ refused' = (refused \/ Fails(replayed, e.cmd))
           /\ tell' = [tell EXCEPT ![c] =
                         IF \E k \in Keys : registry[k] # {} THEN WriteKeys(e.cmd) ELSE {}]
    /\ effects' = [effects EXCEPT ![c] = Tail(@)]
    /\ UNCHANGED <<store, written, holder, hwm, runs, pc, kind, need, todo, dedup, failed,
                   multiVars, watchVars>>

\* Mutant of Fits: the bytes queued already are not counted.
FitsAlone(c, size) == Len(notifs[c]) < NotifItems /\ size <= NotifBytes

\* WatchSubscriber::notify has room for a value of the given size.
Fits(c, size) == Len(notifs[c]) < NotifItems /\ Pending(c) + size <= NotifBytes

\* Mutant of Notify: the removal of a key is not announced.
NotifyUnlessRemoved(c, k) ==
    /\ k \in tell[c]
    /\ LET size == store[k].size
           told == {d \in registry[k] : store[k] = Nil \/ Fits(d, size)}
       IN  /\ notifs' = [d \in Conns |-> IF d \in told /\ store[k] # Nil
                                         THEN Append(notifs[d], size) ELSE notifs[d]]
           /\ overflow' = [d \in Conns |-> overflow[d] \/ d \in registry[k] \ told]
           /\ registry' = [registry EXCEPT ![k] = told]
    /\ tell' = [tell EXCEPT ![c] = @ \ {k}]
    /\ UNCHANGED <<dataVars, written, holder, hwm, runs, pc, kind, need, todo, effects, dedup,
                   failed, multiVars, watched, stale, dirty>>

\* fan_out of notify_watchers for key k: a connection without room is signalled and
\* loses its registration.
Notify(c, k) ==
    /\ k \in tell[c]
    /\ LET size == store[k].size
           told == {d \in registry[k] : Fits(d, size)}
       IN  /\ notifs' = [d \in Conns |-> IF d \in told THEN Append(notifs[d], size) ELSE notifs[d]]
           /\ overflow' = [d \in Conns |-> overflow[d] \/ d \in registry[k] \ told]
           /\ registry' = [registry EXCEPT ![k] = told]
    /\ tell' = [tell EXCEPT ![c] = @ \ {k}]
    /\ UNCHANGED <<dataVars, written, holder, hwm, runs, pc, kind, need, todo, effects, dedup,
                   failed, multiVars, watched, stale, dirty>>

\* Everything is done: commit_dedup unless the write failed; EXEC forgets its watch.
Finish(c) ==
    /\ pc[c] = "run" /\ todo[c] = << >>
    /\ effects[c] = << >> /\ tell[c] = {}
    /\ IF dedup[c] # NoId /\ ~ failed[c]
       THEN /\ hwm' = Max({hwm, dedup[c]})
            /\ runs' = [runs EXCEPT ![dedup[c]] = @ + 1]
       ELSE UNCHANGED <<hwm, runs>>
    /\ IF kind[c] = "exec" THEN Unregister(c) ELSE UNCHANGED watchVars
    /\ Release(c)
    /\ UNCHANGED <<dataVars, written, need, effects, tell, multiVars>>

-----------------------------------------------------------------------------
Client(c) ==
    \/ \E k \in Keys : Watch(c, k) \/ Unwatch(c, k)
    \/ Receive(c) \/ Multi(c) \/ Discard(c) \/ Close(c)
    \/ \E cmd \in Commands : Enqueue(c, cmd) \/ \E id \in 0..MaxIds : BeginWrite(c, cmd, id)
    \/ BeginExec(c) \/ BeginBarrier(c)

Server(c) ==
    \/ Dedup(c) \/ Lock(c) \/ Locked(c) \/ Execute(c) \/ LogEffect(c)
    \/ (\E k \in Keys : Notify(c, k)) \/ Finish(c)

Next == \E c \in Conns : Client(c) \/ Server(c)

Spec == Init /\ [][Next]_vars

\* A task that can go on does; tokio's mutex serves its waiters in the order they
\* came, so that nobody waits for ever for a lock that is free again and again.
Fairness ==
    \A c \in Conns :
        /\ WF_vars(Locked(c)) /\ WF_vars(Execute(c)) /\ WF_vars(LogEffect(c))
        /\ WF_vars(\E k \in Keys : Notify(c, k)) /\ WF_vars(Finish(c))
        /\ SF_vars(Dedup(c)) /\ SF_vars(Lock(c))

FairSpec == Spec /\ Fairness

-----------------------------------------------------------------------------
(* Properties *)

\* "The store commit order [is] the observable AOF, replica, watcher, and
\* browser-sync order for every pair of conflicting writes": once every executed
\* command is logged, replaying the log makes the keyspace.
LogReplays ==
    (\A c \in Conns : effects[c] = << >>) => replayed = store

\* Behind lock_all_writes the log and the keyspace agree: SAVE, QSUB and a
\* replica's synchronization see one exact boundary.
BarrierIsExact ==
    \A c \in Conns : kind[c] = "barrier" /\ pc[c] = "run" => replayed = store

\* A transaction runs only if none of the keys it watches has changed since WATCH.
CompareAndSet ==
    [][\A c \in Conns :
          kind[c] = "exec" /\ pc[c] = "lock" /\ pc'[c] = "run" =>
              stale[c] = {}]_vars

\* Writer isolation: from the check to the end of a transaction no other connection
\* changes a key it watches or still has to write.
Isolated ==
    [][\A c, d \in Conns :
          (c # d /\ kind[c] = "exec" /\ pc[c] = "run" /\ todo'[d] # todo[d] /\ pc[d] = "run") =>
              \A k \in watched[c] \cup UNION {OrderingKeys(cmd) : cmd \in Range(todo[c])} :
                  store'[k] = store[k]]_vars

\* However often a client sends a write with the same dedup id, over several
\* connections at once, it takes effect once.
DedupOnce == \A i \in 1..MaxIds : runs[i] <= 1

\* Every command that the log carries can be replayed at start-up and on a replica.
LogIsReplayable == ~ refused

\* No set of multi-key writes, transactions, deduplicated writes and barriers waits
\* for each other: every operation ends.
EveryOperationEnds == \A c \in Conns : pc[c] # "idle" ~> pc[c] = "idle"

-----------------------------------------------------------------------------
(* The inductive invariants *)

\* The keys of the commands still to be executed, and of the effects to be logged.
TodoKeys(c) == UNION {OrderingKeys(cmd) : cmd \in Range(todo[c])}
EffectKeys(c) == UNION {OrderingKeys(e.cmd) : e \in Range(effects[c])}

\* The stripes an operation works under.
Claimed(c) ==
    IF Capped \/ kind[c] = "barrier" THEN AllStripes
    ELSE {StripeOf[k] : k \in TodoKeys(c) \cup EffectKeys(c) \cup tell[c]
                                \cup (IF kind[c] = "exec" THEN watched[c] ELSE {})}

\* An operation that is under way has, or still waits for, all of its locks; once it
\* runs it has them.  A barrier executes nothing of its own.
LocksOK(c) ==
    /\ pc[c] = "idle" => kind[c] = "none" /\ need[c] = {} /\ todo[c] = << >> /\ dedup[c] = NoId
    /\ pc[c] \in {"idle", "dedup"} => \A l \in 0..Stripes : holder[l] # c
    /\ pc[c] \in {"lock", "run"} /\ dedup[c] # NoId => holder[DedupOrder] = c
    /\ pc[c] # "run" => effects[c] = << >> /\ tell[c] = {}
    /\ pc[c] = "run" => need[c] = {}
    /\ pc[c] # "idle" => \A l \in Claimed(c) : l \in need[c] \/ holder[l] = c
    /\ kind[c] \in {"barrier", "exec"} => dedup[c] = NoId
    /\ kind[c] = "barrier" => todo[c] = << >> /\ effects[c] = << >>

LockInv == Types /\ \A c \in Conns : LocksOK(c)

\* An id that is under way is newer than the mark, and what is newer than the mark has
\* not taken effect.
DedupInv ==
    /\ \A i \in 1..MaxIds : runs[i] <= 1 /\ (i > hwm => runs[i] = 0)
    /\ \A c \in Conns : pc[c] \in {"lock", "run"} /\ dedup[c] # NoId => dedup[c] > hwm

\* Of a store without limits: on each key, the log and the effects still to be logged
\* make the keyspace.
LogInv ==
    /\ \A c \in Conns : Len(effects[c]) <= 1
    /\ \A k \in Keys :
         (\A c \in Conns : \A e \in Range(effects[c]) : k \notin WriteKeys(e.cmd))
             => replayed[k] = store[k]
    /\ \A c \in Conns : \A e \in Range(effects[c]) : \A k \in WriteKeys(e.cmd) :
         store[k] = Apply(replayed, e.cmd, e.id)[k]

\* A notification is queued or was received.
Noticed(c) == notifs[c] # << >> \/ dirty[c]

\* The keys whose watchers the operation of c has yet to tell.
ToTell(c) == tell[c] \cup UNION {WriteKeys(e.cmd) : e \in Range(effects[c])}

\* A connection that watches a changed key has noticed, or is about to be told by the
\* operation that changed it, which still has the key's stripe.
WatchOK(c) ==
    /\ stale[c] \subseteq watched[c]
    /\ \A k \in watched[c] : c \in registry[k] \/ Noticed(c)
    /\ \A k \in stale[c] : Noticed(c) \/ \E d \in Conns : k \in ToTell(d)

WatchInv ==
    /\ \A k \in Keys : store[k].size <= NotifBytes
    /\ \A c \in Conns : WatchOK(c)
=============================================================================
