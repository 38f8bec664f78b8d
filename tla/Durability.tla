----------------------------- MODULE Durability -----------------------------
(***************************************************************************)
(* Snapshot, append-only file and dedup sidecar of one server              *)
(* (server-native/src/persistence.rs, ServerState::save, on_write,         *)
(* persist_dedup and load_dedup in server_state.rs, the start-up order of  *)
(* main.rs and the health check of propagation.rs), with a crash between   *)
(* any two steps.                                                          *)
(*                                                                         *)
(* The keyspace is one list and a write appends a fresh id to it, so that a*)
(* write replayed twice, skipped or reordered shows.  A client write is    *)
(* wrapped in DEDUP and its id is the mark it commits.                     *)
(***************************************************************************)
EXTENDS Integers, FiniteSetsExt, SequencesExt

CONSTANTS
    AofSync,        \* the modes of RECACHED_AOF_SYNC considered
    FollowsPrimary, \* the server is a replica: writes arrive by apply_repl_frame
    Failures,       \* the I/O errors that may happen, a subset of FailureKinds
    TornCrashes,    \* the crashes, by number, that may leave half a record behind
    MaxWaiting,     \* bound: client writes past the health check, before the guard
    MaxWrites,      \* bound: writes executed
    MaxSaves,       \* bound: checkpoints attempted
    MaxFailures,    \* bound: I/O errors
    MaxCrashes      \* bound: crashes

FailureKinds ==
    {"append",      \* an AOF append fails and leaves nothing, or a record not fsynced
     "partial",     \* an AOF append fails and leaves half a record in the file
     "fsync",       \* the everysec flush fails
     "early",       \* a checkpoint fails before its snapshot is renamed into place
     "late"}        \* a checkpoint fails at or after the rename

ASSUME DurabilityAssumption ==
    /\ AofSync \subseteq {"always", "everysec", "no"}
    /\ FollowsPrimary \in BOOLEAN
    /\ Failures \subseteq FailureKinds
    /\ TornCrashes \subseteq Nat
    /\ MaxWaiting \in Nat /\ MaxWrites \in Nat /\ MaxSaves \in Nat
    /\ MaxFailures \in Nat /\ MaxCrashes \in Nat

VARIABLES
    sync,       \* RECACHED_AOF_SYNC
    up,         \* "up", "down" after a crash, "refused" when start-up gave an error
    store,      \* the keyspace in memory (of a server that is down: as it was)
    waiting,    \* client writes past the health check, waiting for their guard
    logging,    \* the write executed and not yet in the AOF, or NoWrite
    aof,        \* the records in the AOF
    synced,     \* how many of them have been fsynced
    snap,       \* the snapshot file: checkpoint id, contents
    sidecar,    \* the dedup sidecar: the mark it holds
    mark,       \* the dedup high-water mark in memory
    dirty,      \* dedup_dirty
    checkpoint, \* SnapshotConfig.checkpoint_id
    healthy,    \* persistence_healthy
    saving,     \* the step save is at
    durable,    \* history: writes that were fsynced or in an installed snapshot
    unlogged,   \* history: writes whose append failed, until a snapshot holds them
    behind,     \* history: a record was appended behind half of one
    counts      \* writes, saves, failures (and their kinds) and crashes so far

memVars == <<store, waiting, logging, mark, dirty, checkpoint, healthy, saving>>
diskVars == <<aof, synced, snap, sidecar>>
vars == <<sync, up, memVars, diskVars, durable, unlogged, behind, counts>>

NoWrite == 0
Write(w) == [kind |-> "write", id |-> w]
Marker(c) == [kind |-> "marker", id |-> c]
Torn == [kind |-> "torn", id |-> 0]

TypeOK ==
    /\ sync \in AofSync
    /\ up \in {"up", "down", "refused"}
    /\ store \in Seq(Nat \ {0})
    /\ waiting \in 0..MaxWaiting
    /\ logging \in Nat
    /\ aof \in Seq([kind : {"write", "marker", "torn"}, id : Nat])
    /\ synced \in 0..Len(aof)
    /\ snap \in [id : Nat, data : Seq(Nat \ {0})]
    /\ sidecar \in Nat
    /\ mark \in Nat
    /\ dirty \in BOOLEAN
    /\ checkpoint \in Nat
    /\ healthy \in BOOLEAN
    /\ saving \in {"idle", "marker", "snapshot", "dedup", "truncate"}
    /\ durable \in SUBSET (Nat \ {0})
    /\ unlogged \in SUBSET (Nat \ {0})
    /\ behind \in BOOLEAN
    /\ counts \in [writes : Nat, saves : Nat, failures : Nat, crashes : Nat,
                   kinds : SUBSET FailureKinds]

Init ==
    /\ sync \in AofSync
    /\ up = "up"
    /\ store = << >> /\ waiting = 0 /\ logging = NoWrite
    /\ aof = << >> /\ synced = 0
    /\ snap = [id |-> 0, data |-> << >>]
    /\ sidecar = 0 /\ mark = 0 /\ dirty = FALSE
    /\ checkpoint = 0
    /\ healthy = TRUE
    /\ saving = "idle"
    /\ durable = {} /\ unlogged = {}
    /\ behind = FALSE
    /\ counts = [writes |-> 0, saves |-> 0, failures |-> 0, crashes |-> 0, kinds |-> {}]

Written(records) == {w \in 1..counts.writes : Write(w) \in Range(records)}

\* An I/O error of the given kind; record_persistence_failure.
Fails(kind) ==
    /\ kind \in Failures
    /\ counts.failures < MaxFailures
    /\ counts' = [counts EXCEPT !.failures = @ + 1, !.kinds = @ \cup {kind}]
    /\ healthy' = FALSE

-----------------------------------------------------------------------------
(* The write path: execute_ordered_write and on_write *)

\* persistence_is_healthy is read before the guards are awaited.
Admit ==
    /\ up = "up" /\ ~ FollowsPrimary
    /\ healthy
    /\ waiting < MaxWaiting
    /\ waiting' = waiting + 1
    /\ UNCHANGED <<sync, up, store, logging, mark, dirty, checkpoint, healthy, saving,
                   diskVars, durable, unlogged, counts>>

\* Mutant of Execute: the guard is not taken.
ExecuteUnguarded ==
    /\ up = "up"
    /\ logging = NoWrite
    /\ counts.writes < MaxWrites
    /\ waiting > 0 /\ waiting' = waiting - 1
    /\ counts' = [counts EXCEPT !.writes = @ + 1]
    /\ store' = Append(store, counts'.writes)
    /\ logging' = counts'.writes
    /\ UNCHANGED <<sync, up, mark, dirty, checkpoint, healthy, saving, diskVars,
                   durable, unlogged>>

\* The guard is taken and the write executed.  save holds every guard; a frame
\* from the primary asks for none and for no health check.
Execute ==
    /\ up = "up"
    /\ logging = NoWrite
    /\ counts.writes < MaxWrites
    /\ IF FollowsPrimary THEN UNCHANGED waiting
                         ELSE saving = "idle" /\ waiting > 0 /\ waiting' = waiting - 1
    /\ counts' = [counts EXCEPT !.writes = @ + 1]
    /\ store' = Append(store, counts'.writes)
    /\ logging' = counts'.writes
    /\ UNCHANGED <<sync, up, mark, dirty, checkpoint, healthy, saving, diskVars,
                   durable, unlogged>>

\* commit_dedup, then the guard is released.
Commit ==
    /\ logging' = NoWrite
    /\ IF FollowsPrimary THEN UNCHANGED <<mark, dirty>>
                         ELSE mark' = logging /\ dirty' = TRUE

\* AofWriter::append; the mode `always` fsyncs.
LogWrite ==
    /\ up = "up"
    /\ logging # NoWrite
    /\ aof' = Append(aof, Write(logging))
    /\ IF sync = "always"
       THEN synced' = Len(aof') /\ durable' = durable \cup Written(aof')
       ELSE UNCHANGED <<synced, durable>>
    /\ Commit
    /\ UNCHANGED <<sync, up, store, waiting, checkpoint, healthy, saving, snap, sidecar,
                   unlogged, counts>>

\* The append fails, in the write or (mode `always`) in the fsync behind it: the
\* server turns unhealthy, the write stays in memory and is answered as a success.
LogWriteFails ==
    /\ up = "up"
    /\ logging # NoWrite
    /\ \/ Fails("append") /\ aof' = aof
       \/ Fails("append") /\ sync = "always" /\ aof' = Append(aof, Write(logging))
       \/ Fails("partial") /\ aof' = Append(aof, Torn)
    /\ unlogged' = unlogged \cup ({logging} \ Written(aof'))
    /\ Commit
    /\ UNCHANGED <<sync, up, store, waiting, checkpoint, saving, synced, snap, sidecar,
                   durable>>

\* The everysec task.
Flush ==
    /\ up = "up" /\ sync = "everysec"
    /\ synced < Len(aof)
    /\ \/ /\ synced' = Len(aof)
          /\ durable' = durable \cup Written(aof)
          /\ UNCHANGED <<healthy, counts>>
       \/ Fails("fsync") /\ UNCHANGED <<synced, durable>>
    /\ UNCHANGED <<sync, up, store, waiting, logging, mark, dirty, checkpoint, saving,
                   aof, snap, sidecar, unlogged>>

-----------------------------------------------------------------------------
(* ServerState::save *)

\* Mutant of BeginSave: the guards are not awaited.
BeginSaveUnguarded ==
    /\ up = "up"
    /\ saving = "idle"
    /\ counts.saves < MaxSaves
    /\ counts' = [counts EXCEPT !.saves = @ + 1]
    /\ saving' = "marker"
    /\ UNCHANGED <<sync, up, store, waiting, logging, mark, dirty, checkpoint, healthy,
                   diskVars, durable, unlogged>>

\* save_lock and every guard: no client write is between store and AOF.
BeginSave ==
    /\ up = "up"
    /\ saving = "idle"
    /\ FollowsPrimary \/ logging = NoWrite
    /\ counts.saves < MaxSaves
    /\ counts' = [counts EXCEPT !.saves = @ + 1]
    /\ saving' = "marker"
    /\ UNCHANGED <<sync, up, store, waiting, logging, mark, dirty, checkpoint, healthy,
                   diskVars, durable, unlogged>>

\* Mutant of SaveMarker: the marks are persisted before the snapshot.
SaveMarkerAndMarks ==
    /\ up = "up" /\ saving = "marker"
    /\ aof' = Append(aof, Marker(checkpoint + 1))
    /\ synced' = Len(aof')
    /\ durable' = durable \cup Written(aof)
    /\ sidecar' = mark
    /\ saving' = "snapshot"
    /\ UNCHANGED <<sync, up, store, waiting, logging, mark, dirty, checkpoint, healthy,
                   snap, unlogged, counts>>

\* The marker of the next checkpoint is appended and everything flushed.
SaveMarker ==
    /\ up = "up" /\ saving = "marker"
    /\ aof' = Append(aof, Marker(checkpoint + 1))
    /\ synced' = Len(aof')
    /\ durable' = durable \cup Written(aof)
    /\ saving' = "snapshot"
    /\ UNCHANGED <<sync, up, store, waiting, logging, mark, dirty, checkpoint, healthy,
                   snap, sidecar, unlogged, counts>>

\* save_snapshot: written aside, fsynced and renamed into place.
SaveSnapshot ==
    /\ up = "up" /\ saving = "snapshot"
    /\ snap' = [id |-> checkpoint + 1, data |-> store]
    /\ durable' = durable \cup Range(store)
    /\ unlogged' = {}
    /\ saving' = "dedup"
    /\ UNCHANGED <<sync, up, store, waiting, logging, mark, dirty, checkpoint, healthy,
                   aof, synced, sidecar, counts>>

\* persist_dedup.
SaveDedup ==
    /\ up = "up" /\ saving = "dedup"
    /\ IF dirty THEN sidecar' = mark /\ dirty' = FALSE
                ELSE UNCHANGED <<sidecar, dirty>>
    /\ saving' = "truncate"
    /\ UNCHANGED <<sync, up, store, waiting, logging, mark, checkpoint, healthy,
                   aof, synced, snap, durable, unlogged, counts>>

\* The covered AOF is truncated and the checkpoint counted.
FinishSave ==
    /\ up = "up" /\ saving = "truncate"
    /\ aof' = << >> /\ synced' = 0
    /\ checkpoint' = checkpoint + 1
    /\ healthy' = TRUE
    /\ saving' = "idle"
    /\ UNCHANGED <<sync, up, store, waiting, logging, mark, dirty, snap, sidecar,
                   durable, unlogged, counts>>

\* Mutant of SaveFails: a failed checkpoint leaves the marks counted as persisted.
SaveFailsClean ==
    /\ up = "up"
    /\ saving = "dedup" /\ Fails("late")
    /\ saving' = "idle" /\ dirty' = FALSE
    /\ UNCHANGED <<sync, up, store, waiting, logging, mark, checkpoint, diskVars,
                   durable, unlogged>>

\* A step of save fails and save ends; persist_dedup restores dedup_dirty.  An early
\* error leaves the snapshot file alone, with or without the marker in the AOF; a
\* late one comes from fsyncing the directory after a rename, from the sidecar or
\* from the truncation, whose effect may be on disk all the same.
SaveFails ==
    /\ up = "up"
    /\ \/ /\ saving = "marker" /\ Fails("early")
          /\ aof' \in {aof, Append(aof, Marker(checkpoint + 1))}
          /\ UNCHANGED <<synced, snap, sidecar>>
       \/ /\ saving = "marker" /\ Fails("partial")
          /\ aof' = Append(aof, Torn)
          /\ UNCHANGED <<synced, snap, sidecar>>
       \/ /\ saving = "snapshot" /\ Fails("early")
          /\ UNCHANGED diskVars
       \/ /\ saving = "snapshot" /\ Fails("late")
          /\ snap' = [id |-> checkpoint + 1, data |-> store]
          /\ UNCHANGED <<aof, synced, sidecar>>
       \/ /\ saving = "dedup" /\ dirty /\ Fails("late")
          /\ sidecar' \in {sidecar, mark}
          /\ UNCHANGED <<aof, synced, snap>>
       \/ /\ saving = "truncate" /\ Fails("late")
          /\ \/ UNCHANGED <<aof, synced>>
             \/ aof' = << >> /\ synced' = 0
          /\ UNCHANGED <<snap, sidecar>>
    /\ saving' = "idle"
    /\ UNCHANGED <<sync, up, store, waiting, logging, mark, dirty, checkpoint,
                   durable, unlogged>>

-----------------------------------------------------------------------------
(* Crash and start-up *)

\* The file with the record that an append may have begun to write.
Begun ==
    IF logging # NoWrite THEN Append(aof, Write(logging))
    ELSE IF saving = "marker" THEN Append(aof, Marker(checkpoint + 1))
    ELSE aof

\* What was not fsynced is lost from some record on, perhaps in the middle of it.
Crash ==
    /\ up = "up"
    /\ counts.crashes < MaxCrashes
    /\ counts' = [counts EXCEPT !.crashes = @ + 1]
    /\ \E n \in synced..Len(Begun) :
         \/ aof' = SubSeq(Begun, 1, n)
         \/ /\ n < Len(Begun) /\ counts'.crashes \in TornCrashes
            /\ aof' = Append(SubSeq(Begun, 1, n), Torn)
    /\ synced' = Len(aof')
    /\ up' = "down"
    /\ waiting' = 0 /\ logging' = NoWrite /\ saving' = "idle"
    /\ UNCHANGED <<sync, store, mark, dirty, checkpoint, healthy, snap, sidecar,
                   durable, unlogged>>

\* replay_aof_from_checkpoint parses the file up to half a record.
Parsed(i) == \A j \in 1..i : aof[j] # Torn

\* Mutant of Replays: the record that the file ends in the middle of is executed with
\* what there is of it, a write that no client made.
ReplaysIncomplete(i) ==
    /\ aof[i].kind \in {"write", "torn"} /\ (i > 1 => Parsed(i - 1))
    /\ ~ \E j \in i..Len(aof) : aof[j] = Marker(snap.id) /\ Parsed(j)

\* Replay executes the writes behind the last marker of the snapshot's checkpoint, or all.
Replays(i) ==
    /\ aof[i].kind = "write" /\ Parsed(i)
    /\ ~ \E j \in i..Len(aof) : aof[j] = Marker(snap.id) /\ Parsed(j)

\* Half a record with others behind it: the bytes behind it complete it to
\* something the parser rejects, or are all swallowed by it.
TornInside == \E i \in DOMAIN aof : aof[i] = Torn /\ i < Len(aof)

\* load_snapshot_checkpoint, with the AOF behind its checkpoint on top: the file was renamed into
\* place whole; without one the store is empty and the checkpoint 0, as snap is in Init.
LoadSnapshot ==
    LET after[i \in 0..Len(aof)] ==
          IF i = 0 THEN snap.data
          ELSE IF Replays(i) THEN Append(after[i - 1], aof[i].id) ELSE after[i - 1]
    IN  store' = after[Len(aof)] /\ checkpoint' = snap.id

\* load_dedup: the marks of the last sidecar, and nothing to write until one advances.
LoadDedup == mark' = sidecar /\ dirty' = FALSE

\* Snapshot, then AOF, then dedup sidecar; the AOF is opened for appending as it is.
Start ==
    /\ up = "down"
    /\ up' = "up"
    /\ LoadSnapshot
    /\ LoadDedup
    /\ healthy' = TRUE
    /\ unlogged' = {}
    /\ UNCHANGED <<sync, waiting, logging, saving, diskVars, durable, counts>>

\* "AOF corrupted" is a start-up error.
RefuseStart ==
    /\ up = "down"
    /\ TornInside
    /\ up' = "refused"
    /\ UNCHANGED <<sync, memVars, diskVars, durable, unlogged, counts>>

Next ==
    /\ \/ Admit \/ Execute \/ LogWrite \/ LogWriteFails \/ Flush
       \/ BeginSave \/ SaveMarker \/ SaveSnapshot \/ SaveDedup \/ FinishSave \/ SaveFails
       \/ Crash \/ Start \/ RefuseStart
    /\ behind' = (behind \/ TornInside')

Spec == Init /\ [][Next]_vars

-----------------------------------------------------------------------------
(* Properties *)

\* The faults that the files do not get over: half a record that others were appended behind,
\* and a checkpoint that failed after its snapshot was in place, whose id is then used again.
Wounded == behind \/ counts.kinds \cap {"partial", "late"} # {}

\* "Nothing" is what the mode always may lose: a write that was fsynced to the AOF or held by
\* an installed snapshot is in the keyspace of every later run, and there is a later run.
NothingLost == up # "refused" /\ (up = "up" => durable \subseteq Range(store))

\* Short of these, no failed append or fsync, no failed checkpoint and no crash point around the
\* truncation, a torn tail included, loses a durable write or keeps the server from
\* starting (save: "no post-snapshot write can be discarded").
DurableSurvives == ~Wounded => NothingLost

\* Ids are given in the order of the writes, so a keyspace in which no write is applied
\* twice or out of turn ascends.
Ascending(s) == \A i, j \in DOMAIN s : i < j => s[i] < s[j]

\* What a restart recovers is then what the server had, cut off at the end: nothing is
\* replayed twice on top of the snapshot that covers it, and with a write come all those
\* before it but the ones whose append failed.
RecoversPrefix ==
    [][up = "down" /\ up' = "up" /\ ~Wounded =>
         /\ Ascending(store')
         /\ Range(store') \subseteq Range(store) \ unlogged
         /\ \A w \in Range(store'), v \in Range(store) \ unlogged :
              v < w => v \in Range(store')]_vars

\* A dedup mark never claims a write the keyspace does not hold, so that no
\* client's retry is answered DUP and lost.
MarkIsApplied == up = "up" => mark \in Range(store) \cup {0}

\* A checkpoint that succeeds has stored the dedup marks of the writes in its
\* snapshot, also when an earlier attempt failed half-way.
CompletedSaveHasMarks ==
    [][saving = "truncate" /\ saving' = "idle" /\ healthy' /\ up' = "up" =>
         sidecar' = mark']_vars

\* "Client writes remain disabled until an operator completes a successful SAVE":
\* an unhealthy server executes no client write.
WritesFailClosed ==
    [][up = "up" /\ up' = "up" /\ ~ healthy => store' = store]_vars

-----------------------------------------------------------------------------
(* The inductive invariants *)

\* The dedup marks are those of writes in the keyspace, the persisted ones of writes in the
\* snapshot; while a checkpoint runs no client write is between store and AOF.
MarkInv ==
    /\ sidecar \in Range(snap.data) \cup {0}
    /\ up = "up" => /\ Range(snap.data) \subseteq Range(store)
                    /\ {mark, logging} \subseteq Range(store) \cup {0}
    /\ up # "up" => logging = NoWrite /\ saving = "idle"
    /\ ~ dirty => mark = sidecar
    /\ saving = "truncate" => ~ dirty
    /\ IF FollowsPrimary THEN mark = 0 /\ ~ dirty
       ELSE /\ saving # "idle" => logging = NoWrite
            /\ saving \in {"dedup", "truncate"} => mark \in Range(snap.data) \cup {0}

\* The writes among the first n records of the AOF.
Logged(n) == {aof[i].id : i \in {j \in 1..n : aof[j].kind = "write"}}

\* Ids are those of writes executed.  A server that refuses to start has half a record
\* inside its AOF.
FileInv ==
    /\ Range(store) \cup Range(snap.data) \cup Logged(Len(aof)) \cup unlogged
         \subseteq 1..counts.writes
    /\ logging \in 0..counts.writes
    /\ ~ behind => ~ TornInside /\ up # "refused"

\* No marker of the snapshot's checkpoint comes behind record i.
Uncovered(i) == \A j \in DOMAIN aof : j > i => aof[j] # Marker(snap.id)

\* The writes of the AOF ascend.  Each is in the snapshot, or later than all of it and
\* replayed; a marker that makes the difference cannot get lost.
FilesOK ==
    /\ Ascending(snap.data)
    /\ \A i, j \in DOMAIN aof :
         i < j /\ aof[i].kind = "write" /\ aof[j].kind = "write" => aof[i].id < aof[j].id
    /\ \A j \in DOMAIN aof : aof[j] = Marker(snap.id) => j <= synced
    /\ \A i \in DOMAIN aof : aof[i].kind = "write" =>
         IF Uncovered(i) THEN \A w \in Range(snap.data) : w < aof[i].id
                         ELSE aof[i].id \in Range(snap.data)
    /\ durable \subseteq Range(snap.data) \cup Logged(synced)

\* A running server: the keyspace is the snapshot, the AOF, the writes whose append failed
\* and the one under way.
RunningOK ==
    /\ Ascending(store)
    /\ Range(store) =
         Range(snap.data) \cup Logged(Len(aof)) \cup unlogged \cup ({logging} \ {NoWrite})
    /\ unlogged \cap (Range(snap.data) \cup Logged(Len(aof))) = {}
    /\ logging # NoWrite =>
         \A w \in Range(snap.data) \cup Logged(Len(aof)) \cup unlogged : w < logging
    /\ IF saving \in {"dedup", "truncate"}
       THEN snap = [id |-> checkpoint + 1, data |-> store]
       ELSE snap.id = checkpoint
    /\ saving = "snapshot" =>
         synced = Len(aof) /\ aof # << >> /\ aof[Len(aof)] = Marker(checkpoint + 1)

\* A server that is down: what its files hold is what it had, cut off at the end.
StoppedOK ==
    LET files == Range(snap.data) \cup Logged(Len(aof))
    IN  /\ files \subseteq Range(store) \ unlogged
        /\ \A w \in files, v \in Range(store) \ unlogged : v < w => v \in files

RecoveryInv ==
    ~Wounded =>
        FilesOK /\ (up = "up" => RunningOK) /\ (up = "down" => StoppedOK)
=============================================================================
