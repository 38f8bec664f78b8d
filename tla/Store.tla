------------------------------- MODULE Store --------------------------------
(***************************************************************************)
(* The store of core-engine/src/store.rs as a machine: one command after   *)
(* another (a capped store serializes its writes; an uncapped one does so  *)
(* per key), with lazy expiry and the bounded sweep, the dense key index,  *)
(* the memory estimate, limits with eviction or refusal, SCAN cursors, and *)
(* what the server passes on of every change: frames for a replica and     *)
(* notifications for a live query.                                         *)
(***************************************************************************)
EXTENDS Propagation

CONSTANTS
    Scenarios,   \* situations, a sequence of records
                 \* [keys, data, limits, commands, ops, scan, restarts, propagates,
                 \*  prompt]
    MaxClock,    \* bound on the clock
    MaxVolatile, \* bound on the keys with a deadline at one time
    SweepLimit,  \* keys the sweep looks at in one pass (256 in the server)
    Sample,      \* eviction_sample
    MaxCursors,  \* SCAN cursors the store remembers (4096)
    ScanBatch,   \* COUNT of the scans
    Scanners     \* clients that scan

ASSUME StoreAssumption ==
    /\ MaxClock \in Nat /\ MaxVolatile \in Nat /\ SweepLimit \in Nat \ {0} /\ Sample \in Nat \ {0}
    /\ MaxCursors \in Nat \ {0} /\ ScanBatch \in Nat \ {0}

VARIABLES
    scenario,    \* which of Scenarios this is
    clock,
    data,        \* key -> entry, expired ones included
    all,         \* DenseKeys of every key
    volatile,    \* DenseKeys of the keys with a deadline
    memory,      \* memory_bytes
    expiryCursor,
    passes,      \* history: passes of the maintenance task since anything else happened
    cmd, reply,  \* the last command and its answer
    ops,         \* commands executed so far
    pending,     \* frames the replica has not replayed
    replica,     \* the keyspace they make
    mirror,      \* key -> value, as a live query of every key has it
    cursors,     \* scan_cursors: token -> last key
    nextCursor,
    scan,        \* scanner -> [token, got, stayed, state, lost]
    drifted,     \* history: an update of the metadata is known to have missed an entry
    slipped      \* history: keys that a command found expired and removed without a word

stored == <<data, all, volatile, memory>>
scanning == <<cursors, nextCursor>>
vars == <<scenario, clock, stored, expiryCursor, passes, cmd, reply, ops, pending, replica, mirror,
          scanning, scan, drifted, slipped>>

Setup == Scenarios[scenario]
MaxKeys == Setup.limits.maxKeys
MaxMemory == Setup.limits.maxMemory
Policy == Setup.limits.policy
Limited == MaxKeys # Never \/ MaxMemory # Never

-----------------------------------------------------------------------------
\* DenseKeys and KeyIndex.

DenseInsert(s, k) == IF Contains(s, k) THEN s ELSE Append(s, k)
\* swap_remove: the last key takes the place of the one that goes.
DenseRemove(s, k) ==
    IF ~Contains(s, k) THEN s
    ELSE [i \in 1..(Len(s) - 1) |-> IF s[i] = k THEN s[Len(s)] ELSE s[i]]

\* sync_key_metadata, on a store in progress st: [data, all, volatile, memory, evicted].
SyncKey(st, k) ==
    IF k \notin DOMAIN st.data
    THEN [st EXCEPT !.all = DenseRemove(@, k), !.volatile = DenseRemove(@, k)]
    ELSE [st EXCEPT !.all = DenseInsert(@, k),
                    !.volatile = IF st.data[k].exp # Never THEN DenseInsert(@, k)
                                 ELSE DenseRemove(@, k)]
SyncKeys(st, K) == FoldLeft(SyncKey, st, Ordered(K))

Footprint(d, K) == FoldSet(LAMBDA k, n : n + EntrySize(d[k]), 0, K \cap DOMAIN d)

\* adjust_memory: the estimate never falls below zero.
Adjust(m, before, after) == Greatest(m + after - before, 0)

\* rebuild_metadata leaves expired entries out.  (The order of its index is that of the
\* hash table, ascending here.)
Rebuild(st) ==
    LET live == {k \in DOMAIN st.data : Live(st.data, k, clock)}
    IN  [st EXCEPT !.all = Ordered(live),
                   !.volatile = Ordered({k \in live : st.data[k].exp # Never}),
                   !.memory = Footprint(st.data, live)]

-----------------------------------------------------------------------------
\* Eviction.

\* evict_one_reporting: the best victim of a random sample of the index.  Which of two
\* live keys was used longer ago is left open.
Weight(st, k) ==
    IF IsExpired(st.data[k], clock) THEN 0
    ELSE IF Policy = "volatile-ttl" THEN st.data[k].exp ELSE 1
Victims(st) ==
    LET source == IF Policy \in {"volatile-lru", "volatile-ttl"} THEN st.volatile ELSE st.all
        want   == Least(IF Policy = "allkeys-random" THEN 1 ELSE Sample, Len(source))
        In(S)  == {k \in S \cap DOMAIN st.data :
                     \/ Policy # "volatile-ttl"
                     \/ IsExpired(st.data[k], clock)
                     \/ st.data[k].exp # Never}
        Best(S) == {k \in In(S) : \A x \in In(S) : Weight(st, k) <= Weight(st, x)}
    IN  IF Policy = "noeviction" THEN {} ELSE UNION {Best(S) : S \in kSubset(want, ToSet(source))}
Evict(st, k) ==
    SyncKey([st EXCEPT !.data = Without(@, {k}), !.evicted = Append(@, k),
                       !.memory = Adjust(@, EntrySize(st.data[k]), 0)], k)

\* try_evict_for_memory_inner: down to a sixteenth below the limit, or until there is no
\* victim left.
RECURSIVE EvictForMemory(_)
EvictForMemory(st) ==
    IF \/ MaxMemory = Never
       \/ st.memory <= MaxMemory - MaxMemory \div 16
       \/ Victims(st) = {}
    THEN {st} ELSE UNION {EvictForMemory(Evict(st, k)) : k \in Victims(st)}

\* n victims, or as many as there are: {[st, enough]}.
RECURSIVE EvictKeys(_, _)
EvictKeys(st, n) ==
    IF n = 0 THEN {[st |-> st, enough |-> TRUE]}
    ELSE IF Victims(st) = {} THEN {[st |-> st, enough |-> FALSE]}
    ELSE UNION {EvictKeys(Evict(st, k), n - 1) : k \in Victims(st)}

\* The room SET, SETNX, SETEX, PSETEX and MSET make first.  No other command does.
RoomFor(c, d) ==
    LET new == CASE c.op \in {"SET", "SETNX", "SETEX", "PSETEX"} -> {c.key} \ DOMAIN d
                 [] c.op = "MSET" -> PrimaryKeys(c) \ DOMAIN d
                 [] OTHER -> {}
        count == IF c.op = "MSET"
                 THEN Cardinality({i \in DOMAIN c.pairs : c.pairs[i][1] \notin DOMAIN d})
                 ELSE Cardinality(new)
    IN  IF MaxKeys = Never THEN 0
        ELSE Greatest(count - Greatest(MaxKeys - Cardinality(DOMAIN d), 0), 0)

-----------------------------------------------------------------------------
\* execute_reporting.

Current == [data |-> data, all |-> all, volatile |-> volatile, memory |-> memory,
            evicted |-> <<>>]

\* execute_inner behind its capacity check: {[st, reply]}.
Inner(st, c) ==
    UNION {IF e.enough
           THEN {[st |-> [e.st EXCEPT !.data = r.db], reply |-> r.reply] :
                   r \in Exec(e.st.data, clock, c)}
           ELSE {[st |-> e.st, reply |-> Error("max keys")]} : e \in EvictKeys(st, RoomFor(c, st.data))}

\* Mutant of Account: a store that may not evict grows past its limit.
AccountAnyway(c, r) ==
    LET K      == MutationScope(c)
        billed == SyncKeys([r.st EXCEPT !.memory = Adjust(@, Footprint(data, K),
                                                          Footprint(r.st.data, K))], K)
    IN  {[st |-> st, reply |-> r.reply] : st \in EvictForMemory(billed)}

\* The bookkeeping after a command: size and index of the keys in its scope, and then
\* eviction, or the way back if there is none and the command made the store too large.
Account(c, r) ==
    LET K      == MutationScope(c)
        billed == SyncKeys([r.st EXCEPT !.memory = Adjust(@, Footprint(data, K),
                                                          Footprint(r.st.data, K))], K)
    IN  {IF /\ MaxMemory # Never /\ Policy = "noeviction"
            /\ st.memory > MaxMemory /\ st.memory > memory
         THEN [st |-> Rebuild(Current), reply |-> Error("OOM")]
         ELSE [st |-> st, reply |-> r.reply] : st \in EvictForMemory(billed)}

ExecuteReporting(c) ==
    IF ~IsWrite(c) THEN Inner(Current, c)
    ELSE IF c.op = "FLUSHDB"
    THEN UNION {{[st |-> st, reply |-> r.reply] : st \in EvictForMemory(Rebuild(r.st))} :
                  r \in Inner(Current, c)}
    ELSE UNION {Account(c, r) : r \in Inner(Current, c)}

\* Where the bookkeeping is known to miss something: a rollback that rebuilds while an
\* expired entry is there, and an MSET that evicts a key of its own and bills it twice.
Drifts(c, r) ==
    \/ r.reply = Error("OOM") /\ \E k \in DOMAIN data : IsExpired(data[k], clock)
    \/ ToSet(r.st.evicted) \cap MutationScope(c) # {}

-----------------------------------------------------------------------------
\* What others hear of a change.

Told(m, K, d) == [k \in DOMAIN m |-> IF k \in K THEN ValueOf(d, k, clock) ELSE m[k]]

\* The frames of a command and of the keys evicted for it.
Frames(c, r) ==
    BroadcastFor(c, r.reply, clock)
      \o [i \in DOMAIN r.st.evicted |-> [op |-> "DEL", keys |-> <<r.st.evicted[i]>>]]
\* The keys watchers hear of: those of a command with a frame, and the evicted ones.
Announced(c, r) ==
    (IF BroadcastFor(c, r.reply, clock) = <<>> THEN {}
     ELSE IF c.op = "FLUSHDB" THEN DOMAIN mirror ELSE PrimaryKeys(c))
      \cup ToSet(r.st.evicted)

\* RENAME and a null JMERGE remove an entry whose deadline has passed; the sweep, which
\* would have announced it, never sees it.
Slips(c, r) ==
    {k \in DOMAIN data \ DOMAIN r.st.data :
        c.op \in {"RENAME", "JMERGE"} /\ k = c.key /\ IsExpired(data[k], clock)}

\* Frames are replayed at once, or at any later time.
Ship(frames) ==
    IF Setup.prompt THEN replica' = ReplayAll(replica, frames, clock) /\ pending' = pending
    ELSE pending' = pending \o frames /\ replica' = replica

\* The keys that have been there since a scan began.
Staying(d, now) ==
    [s \in Scanners |-> [scan[s] EXCEPT !.stayed = {k \in @ : Live(d, k, now)}]]

Install(st) ==
    /\ data' = st.data /\ all' = st.all /\ volatile' = st.volatile /\ memory' = st.memory

-----------------------------------------------------------------------------
\* Actions.

Init ==
    /\ scenario \in DOMAIN Scenarios
    /\ clock = 0
    /\ data = Setup.data
    /\ all = Ordered(DOMAIN data)
    /\ volatile = Ordered({k \in DOMAIN data : data[k].exp # Never})
    /\ memory = Footprint(data, DOMAIN data)
    /\ expiryCursor = 0 /\ passes = 0
    /\ cmd = [op |-> "none"] /\ reply = Nil /\ ops = 0
    /\ pending = <<>> /\ replica = data
    /\ mirror = [k \in Setup.keys |-> ValueOf(data, k, 0)]
    /\ cursors = <<>> /\ nextCursor = 1
    /\ scan = [s \in Scanners |-> [token |-> 0, got |-> {}, stayed |-> {}, state |-> "idle",
                                   lost |-> FALSE]]
    /\ drifted = FALSE /\ slipped = {}

\* A client's command, with everything the server does about it.
\* Bound: one that changes and sends nothing is the last, for nothing could tell it had been
\* there.
Execute ==
    /\ ops < Setup.ops
    /\ \E c \in Setup.commands : \E r \in ExecuteReporting(c) :
         /\ Install(r.st)
         /\ cmd' = c /\ reply' = r.reply
         /\ Ship(Frames(c, r))
         /\ mirror' = Told(mirror, Announced(c, r), r.st.data)
         /\ drifted' = (drifted \/ Drifts(c, r))
         /\ slipped' = (slipped \cup Slips(c, r)) \ Announced(c, r)
         /\ scan' = Staying(r.st.data, clock)
         /\ ops' = IF r.st = Current /\ Frames(c, r) = <<>> THEN Setup.ops ELSE ops + 1
    /\ passes' = 0
    /\ UNCHANGED <<scenario, clock, expiryCursor, scanning>>

Tick ==
    /\ clock < MaxClock
    /\ clock' = clock + 1 /\ passes' = 0
    /\ scan' = Staying(data, clock')
    /\ UNCHANGED <<scenario, stored, expiryCursor, cmd, reply, ops, pending, replica, mirror,
                   scanning, drifted, slipped>>

\* A replica, or a restart with the AOF, replays a frame.
ReplayOne ==
    /\ pending # <<>>
    /\ replica' = Replay(replica, Head(pending), clock)
    /\ pending' = Tail(pending)
    /\ UNCHANGED <<scenario, clock, stored, expiryCursor, passes, cmd, reply, ops, mirror,
                   scanning, scan, drifted, slipped>>

\* sweep_expired_reporting_budget.  The cursor counts on; only its remainders by the
\* possible lengths of the index matter.
CursorPeriod == FoldSet(LAMBDA n, p : n * p, 1, 1..MaxVolatile)
\* Mutant of SweepCandidates: every pass starts at the first key.
SweepFromStart == SubSeq(volatile, 1, Least(SweepLimit, Len(volatile)))

SweepCandidates ==
    LET len == Len(volatile)
    IN  [i \in 1..Least(SweepLimit, len) |-> volatile[((expiryCursor + i - 1) % len) + 1]]
\* remove_expired_candidates, one key.
RemoveExpired(st, k) ==
    SyncKey(IF k \in DOMAIN st.data /\ IsExpired(st.data[k], clock)
            THEN [st EXCEPT !.data = Without(@, {k}),
                            !.memory = Adjust(@, EntrySize(st.data[k]), 0)]
            ELSE st, k)

\* Passes that are enough to find every expired key, each of which may move another.
EnoughPasses == (MaxVolatile * (MaxVolatile + 1)) \div 2

\* One pass of the maintenance task: the sweep, what it removed announced, and then
\* eviction if memory is over the limit.
Maintain ==
    /\ volatile # <<>> \/ (MaxMemory # Never /\ memory > MaxMemory)
    /\ LET swept   == IF volatile = <<>> THEN Current
                      ELSE FoldLeft(RemoveExpired, Current, SweepCandidates)
           removed == DOMAIN data \ DOMAIN swept.data
       IN  \E st \in EvictForMemory(swept) :
             /\ Install(st)
             /\ mirror' = Told([k \in DOMAIN mirror |-> IF k \in removed THEN <<>> ELSE mirror[k]],
                               ToSet(st.evicted), st.data)
             /\ Ship([i \in DOMAIN st.evicted |-> [op |-> "DEL", keys |-> <<st.evicted[i]>>]])
             /\ scan' = Staying(st.data, clock)
    /\ expiryCursor' = IF volatile = <<>> THEN expiryCursor
                       ELSE (expiryCursor + SweepLimit) % CursorPeriod
    /\ passes' = Least(passes + 1, EnoughPasses)
    /\ UNCHANGED <<scenario, clock, cmd, reply, ops, scanning, drifted, slipped>>

\* snapshot and restore: live entries only; an index is built anew, a limiter starts over.
SnapshotOf(d) ==
    [k \in DOMAIN Visible(d, clock) |->
        IF d[k].val[1] = "rate" THEN [d[k] EXCEPT !.val[2].buckets = <<>>] ELSE Plain(d[k])]

\* A restart from a snapshot, or the full synchronization of a replica (replace).  Whoever
\* listens comes back and starts over.
Restart ==
    /\ Setup.restarts /\ ops = 1 /\ pending = <<>>
    /\ Install(Rebuild([Current EXCEPT !.data = SnapshotOf(data)]))
    /\ replica' = SnapshotOf(data)
    /\ mirror' = Told(mirror, DOMAIN mirror, SnapshotOf(data))
    /\ expiryCursor' = 0 /\ passes' = 0
    /\ ops' = ops + 1
    /\ cursors' = <<>> /\ nextCursor' = 1
    /\ scan' = [s \in Scanners |-> [scan[s] EXCEPT !.lost = TRUE]]
    /\ drifted' = FALSE /\ slipped' = {}
    /\ UNCHANGED <<scenario, clock, cmd, reply, pending>>

-----------------------------------------------------------------------------
\* SCAN.  The server remembers the last key of a page under a token; when it remembers
\* too many, it forgets an arbitrary one, and that scan ends with an empty page.

\* Mutant of Keep: the next page begins behind the key after the last.
KeepNext(cs, token, last) == {[t \in {token} |-> last + 1]}

Keep(cs, token, last) ==
    {[t \in (DOMAIN cs \ F) \cup {token} |-> IF t = token THEN last ELSE cs[t]] :
        F \in IF Cardinality(DOMAIN cs) >= MaxCursors THEN {{t} : t \in DOMAIN cs} ELSE {{}}}

Scan(s) ==
    LET token == scan[s].token
        known == token = 0 \/ token \in DOMAIN cursors
        rest  == Ordered({k \in ToSet(all) : token = 0 \/ k > cursors[token]})
        page  == SubSeq(rest, 1, Least(ScanBatch, Len(rest)))
        left  == [t \in DOMAIN cursors \ {token} |-> cursors[t]]
        got   == {k \in ToSet(page) : Live(data, k, clock)}
        begun == IF scan[s].state = "idle"
                 THEN [scan[s] EXCEPT !.state = "on",
                                      !.stayed = {k \in DOMAIN data : Live(data, k, clock)}]
                 ELSE scan[s]
    IN  /\ Setup.scan /\ scan[s].state # "done"
        /\ IF ~known
           THEN /\ scan' = [scan EXCEPT ![s] = [@ EXCEPT !.state = "done", !.lost = TRUE]]
                /\ UNCHANGED scanning
           ELSE IF Len(rest) > ScanBatch
           THEN /\ cursors' \in Keep(left, nextCursor, Last(page))
                /\ nextCursor' = nextCursor + 1
                /\ scan' = [scan EXCEPT ![s] = [begun EXCEPT !.token = nextCursor,
                                                            !.got = @ \cup got]]
           ELSE /\ cursors' = left /\ nextCursor' = nextCursor
                /\ scan' = [scan EXCEPT ![s] = [begun EXCEPT !.token = 0, !.state = "done",
                                                            !.got = @ \cup got]]
        /\ UNCHANGED <<scenario, clock, stored, expiryCursor, passes, cmd, reply, ops, pending,
                       replica, mirror, drifted, slipped>>

Next ==
    \/ Execute \/ Tick \/ ReplayOne \/ Maintain \/ Restart
    \/ \E s \in Scanners : Scan(s)

Spec == Init /\ [][Next]_vars

-----------------------------------------------------------------------------
\* Properties.

\* Whatever sequence of commands, sweeps, evictions, rollbacks and restarts has gone
\* before, the index holds exactly the stored keys and those with a deadline, once each, and the
\* memory estimate is the sum of the entries' sizes, except after the two known misses
\* (Drifts).
IndexExact ==
    ~drifted => /\ IsInjective(all) /\ IsInjective(volatile)
                /\ ToSet(all) = DOMAIN data
                /\ ToSet(volatile) = {k \in DOMAIN data : data[k].exp # Never}
                /\ memory = Footprint(data, DOMAIN data)

\* A store with a memory limit stays within it, by eviction or by refusal; only the
\* volatile policies may run out of victims.
MemoryCapped ==
    (MaxMemory # Never /\ ~drifted) =>
        \/ Footprint(data, DOMAIN data) <= MaxMemory
        \/ Policy \in {"volatile-lru", "volatile-ttl"} /\ volatile = <<>>

\* Replaying the frames that were sent makes the keyspace a client sees (limiters aside,
\* whose attempts are not replicated).
Replicated(db) ==
    LET v == Visible(db, clock)
    IN  [k \in {x \in DOMAIN v : v[x].val[1] # "rate"} |-> v[k]]
ReplicaAgrees ==
    (Setup.propagates /\ pending = <<>>) => Replicated(replica) = Replicated(data)

\* A live query that applies every notification has the current value of every key, but
\* for a key that has expired and is still waiting for the sweep to announce it.
MirrorAgrees ==
    Setup.propagates =>
        \A k \in Setup.keys \ slipped :
            \/ mirror[k] = ValueOf(data, k, clock)
            \/ k \in DOMAIN data /\ IsExpired(data[k], clock)
            \/ k \in DOMAIN data /\ data[k].val[1] = "rate"

\* A scan that ran to its end has returned every key that was there from its beginning
\* to its end, whatever was added and removed meanwhile, unless its cursor was forgotten to
\* keep the table of cursors small.
ScanComplete ==
    /\ Cardinality(DOMAIN cursors) <= MaxCursors
    /\ \A s \in Scanners :
        scan[s].state = "done" /\ ~scan[s].lost => scan[s].stayed \subseteq scan[s].got

\* Left alone, the maintenance task has removed every entry whose deadline has passed
\* after a bounded number of passes, although each looks at a few keys only and every
\* removal moves another key in the index.
ExpiredSwept ==
    (passes = EnoughPasses /\ ~drifted) => \A k \in DOMAIN data : ~IsExpired(data[k], clock)

\* The store behaves as a keyspace in which keys vanish at their deadline: commands see
\* neither expired entries nor the sorted sets' index, and limits cost whole keys only.
Abstract == INSTANCE Keyspace WITH db <- Visible(data, clock), limited <- Limited
RefinesKeyspace == Abstract!Spec
=============================================================================
