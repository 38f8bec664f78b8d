---------------------------- MODULE Replication ----------------------------
(***************************************************************************)
(* Replication of one hub to its replicas (server-native/src/replication.rs*)
(* and the write path of propagation.rs).  The hub executes a write under  *)
(* the ordering guard of its key, then fans the frame out: it takes the    *)
(* next offset, enters the bounded backlog and goes to the bounded queue of*)
(* every attached replica.  A replica connects, names the run and offset it*)
(* last applied, and receives either the missing frames or a snapshot, then*)
(* the live stream.  Connections break, queues overflow, both sides restart*)
(*                                                                         *)
(* A write is an append of a fresh id to the value of its key (RPUSH): a   *)
(* frame applied twice, skipped or out of order leaves a different value.  *)
(***************************************************************************)
EXTENDS Integers, Sequences, FiniteSets, FiniteSetsExt, Functions

CONSTANTS
    Replicas,       \* replicas that follow the hub
    Keys,           \* keys; each is an ordering domain of its own
    Sizes,          \* sizes, in bytes, a frame may have
    BacklogBytes,   \* RECACHED_REPL_BACKLOG_BYTES
    QueueBytes,     \* RECACHED_REPL_BUFFER_BYTES
    QueueFrames,    \* RECACHED_REPL_BUFFER
    AckHalf,        \* numbers the first half of an acknowledgement can hold, 2^32 of a u64
    HubIsReplica,   \* the hub itself follows a primary and serves sub-replicas
    MaxWrites,      \* bound: writes the hub executes
    MaxRuns,        \* bound: runs (restarts + 1) of the hub
    MaxFaults       \* bound: broken connections, rejected frames, restarts of replicas

ASSUME ReplicationAssumption ==
    /\ Sizes \subseteq Nat \ {0}
    /\ BacklogBytes \in Nat \ {0}
    /\ QueueBytes \in Nat \ {0}
    /\ QueueFrames \in Nat \ {0}
    /\ AckHalf \in Nat \ {0}
    /\ HubIsReplica \in BOOLEAN
    /\ MaxWrites \in Nat /\ MaxRuns \in Nat /\ MaxFaults \in Nat

VARIABLES
    run,        \* run id of the hub (ReplHub.run_id), fresh at every start
    offset,     \* offset of the last frame fanned out
    store,      \* the hub's keyspace
    inflight,   \* per key: the write executed and not yet fanned out, or NoWrite
    written,    \* writes executed so far, the source of fresh ids
    backlog,    \* retained frames (ReplBacklog)
    hist,       \* history: hist[o + 1] is the keyspace the frames 1..o make
    handler,    \* per replica: what the hub's handle_replica task does
    queue,      \* per replica: frames in its mpsc channel
    sent,       \* per replica: offset of the last frame queued (ReplicaHandle.sent)
    acked,      \* per replica: highest acknowledged offset (ReplicaHandle.acked)
    reply,      \* per replica: the synchronization header on the socket, or NoReply
    wire,       \* per replica: frames on the socket, after the header
    acks,       \* per replica: acknowledgements on the way back, and how they are read
    phase,      \* per replica: where sync_from_primary is
    resume,     \* per replica: ReplResume, the run and offset it last applied
    goal,       \* per replica: the boundary of the partial synchronization under way
    left,       \* per replica: frames of it still to be read
    rstore,     \* per replica: its keyspace
    faults      \* faults so far

hubVars == <<run, offset, store, inflight, written, backlog, hist>>
linkVars == <<handler, queue, sent, acked, reply, wire, acks>>
replicaVars == <<phase, resume, goal, left, rstore>>
vars == <<hubVars, linkVars, replicaVars, faults>>

NoWrite == 0
NoRun == 0
NoReply == [mode |-> "none"]

\* The way back of one connection: `sent` the offsets written and not yet read to
\* their end, `taken` the halves of the first of them that are off the socket,
\* `buf` what the read_exact under way has in ack_buf, and `torn`, a history: a
\* read_exact of this connection was dropped with something in ack_buf.
AckStates == [sent : Seq(Nat), taken : 0..1, buf : Seq(Nat), torn : BOOLEAN]
NoAcks == [sent |-> << >>, taken |-> 0, buf |-> << >>, torn |-> FALSE]

Stores == [Keys -> Seq(Nat \ {0})]
Frames == [offset : Nat \ {0}, key : Keys, id : Nat \ {0}, size : Sizes]
Replies == {NoReply}
             \cup [mode : {"F"}, boundary : Nat, snapshot : Stores]
             \cup [mode : {"P"}, boundary : Nat, count : Nat]
Empty == [k \in Keys |-> << >>]

\* Executing the command a frame carries.
Apply(st, f) == [st EXCEPT ![f.key] = Append(@, f.id)]

Bytes(frames) == MapThenSumSet(LAMBDA i : frames[i].size, DOMAIN frames)

\* `while backlog.bytes > backlog_limit { pop_front }`: a frame is dropped as
\* long as it and the frames behind it exceed the limit.
Trim(frames) ==
    LET tooOld == {i \in DOMAIN frames :
                      Bytes(SubSeq(frames, i, Len(frames))) > BacklogBytes}
    IN  SubSeq(frames, Cardinality(tooOld) + 1, Len(frames))

\* `frames.iter().filter(|frame| frame.offset > requested_offset)`.
FramesAfter(o) ==
    SubSeq(backlog, Cardinality({i \in DOMAIN backlog : backlog[i].offset <= o}) + 1,
           Len(backlog))

\* Mutant of CanResume: one frame too old is still served.
CanResumeTooOld(reqRun, o) ==
    /\ reqRun = run
    /\ o <= offset
    /\ \/ o = offset
       \/ backlog # << >> /\ o + 2 >= backlog[1].offset

\* resume_frames: whether the retained frames lead from offset o to the present.
CanResume(reqRun, o) ==
    /\ reqRun = run
    /\ o <= offset
    /\ \/ o = offset
       \/ backlog # << >> /\ o + 1 >= backlog[1].offset

TypeOK ==
    /\ run \in Nat \ {0}
    /\ offset \in Nat
    /\ store \in Stores
    /\ inflight \in [Keys -> Nat]
    /\ written \in Nat
    /\ backlog \in Seq(Frames)
    /\ hist \in Seq(Stores) /\ Len(hist) = offset + 1
    /\ handler \in [Replicas -> {"none", "greeted", "serving", "draining", "closed"}]
    /\ queue \in [Replicas -> Seq(Frames)]
    /\ sent \in [Replicas -> Nat]
    /\ acked \in [Replicas -> Nat]
    /\ reply \in [Replicas -> Replies]
    /\ wire \in [Replicas -> Seq(Frames)]
    /\ acks \in [Replicas -> AckStates]
    /\ phase \in [Replicas -> {"down", "await", "partial", "stream"}]
    /\ resume \in [Replicas -> [run : Nat, offset : Nat]]
    /\ goal \in [Replicas -> Nat]
    /\ left \in [Replicas -> Nat]
    /\ rstore \in [Replicas -> Stores]
    /\ faults \in Nat

Init ==
    /\ run = 1 /\ offset = 0
    /\ store = Empty
    /\ inflight = [k \in Keys |-> NoWrite]
    /\ written = 0
    /\ backlog = << >>
    /\ hist = <<Empty>>
    /\ handler = [r \in Replicas |-> "none"]
    /\ queue = [r \in Replicas |-> << >>]
    /\ sent = [r \in Replicas |-> 0]
    /\ acked = [r \in Replicas |-> 0]
    /\ reply = [r \in Replicas |-> NoReply]
    /\ wire = [r \in Replicas |-> << >>]
    /\ acks = [r \in Replicas |-> NoAcks]
    /\ phase = [r \in Replicas |-> "down"]
    /\ resume = [r \in Replicas |-> [run |-> NoRun, offset |-> 0]]
    /\ goal = [r \in Replicas |-> 0]
    /\ left = [r \in Replicas |-> 0]
    /\ rstore = [r \in Replicas |-> Empty]
    /\ faults = 0

-----------------------------------------------------------------------------
(* The hub's write path *)

\* Mutant of BarrierFree: a replica is registered while writes are in flight.
NoBarrier == TRUE

\* No write holds an ordering guard: lock_all_writes returns.  A frame that the
\* hub applies from its own primary (apply_repl_frame) takes no guard.
BarrierFree == HubIsReplica \/ \A k \in Keys : inflight[k] = NoWrite

\* The write is executed in memory.  A client write holds the guard of its key;
\* a hub that follows a primary applies one frame at a time.
Execute(k) ==
    /\ written < MaxWrites
    /\ inflight[k] = NoWrite
    /\ HubIsReplica => \A j \in Keys : inflight[j] = NoWrite
    /\ written' = written + 1
    /\ store' = [store EXCEPT ![k] = Append(@, written + 1)]
    /\ inflight' = [inflight EXCEPT ![k] = written + 1]
    /\ UNCHANGED <<run, offset, backlog, hist, linkVars, replicaVars, faults>>

\* fan_out's reservation and try_send on the channel of replica r.
Accepts(r, size) ==
    /\ Bytes(queue[r]) + size <= QueueBytes
    /\ Len(queue[r]) < QueueFrames

\* The frame fan_out makes of the write in flight on k.
NextFrame(k, size) ==
    [offset |-> offset + 1, key |-> k, id |-> inflight[k], size |-> size]

\* Mutant of Enqueue: a replica whose channel is full misses the frame and stays.
EnqueueLossy(f) ==
    LET ok == {r \in Replicas : handler[r] = "serving" /\ Accepts(r, f.size)}
    IN  /\ offset' = offset + 1
        /\ backlog' = Trim(Append(backlog, f))
        /\ hist' = Append(hist, Apply(hist[offset + 1], f))
        /\ queue' = [r \in Replicas |->
                        IF r \in ok THEN Append(queue[r], f) ELSE queue[r]]
        /\ sent' = [r \in Replicas |-> IF r \in ok THEN offset + 1 ELSE sent[r]]
        /\ UNCHANGED handler

\* The body of fan_out: offset, backlog, then try_send to every replica.  One
\* whose channel is full leaves the registry; its task drains what is queued.
Enqueue(f) ==
    LET ok == {r \in Replicas : handler[r] = "serving" /\ Accepts(r, f.size)}
    IN  /\ offset' = offset + 1
        /\ backlog' = Trim(Append(backlog, f))
        /\ hist' = Append(hist, Apply(hist[offset + 1], f))
        /\ queue' = [r \in Replicas |->
                        IF r \in ok THEN Append(queue[r], f) ELSE queue[r]]
        /\ sent' = [r \in Replicas |-> IF r \in ok THEN offset + 1 ELSE sent[r]]
        /\ handler' = [r \in Replicas |->
                         IF handler[r] = "serving" /\ r \notin ok
                         THEN "draining" ELSE handler[r]]

\* fan_out holds the backlog lock from the offset to the last try_send; the
\* write's guard is released after it.
FanOut(k) ==
    /\ inflight[k] # NoWrite
    /\ \E size \in Sizes : Enqueue(NextFrame(k, size))
    /\ inflight' = [inflight EXCEPT ![k] = NoWrite]
    /\ UNCHANGED <<run, store, written, acked, reply, wire, acks, replicaVars, faults>>

\* A hub that follows a primary is given a full snapshot by it: store.replace
\* changes the keyspace (here the value of k) without a frame, a backlog entry or
\* a guard.
ReplaceKeyspace(k) ==
    /\ HubIsReplica
    /\ written < MaxWrites
    /\ \A j \in Keys : inflight[j] = NoWrite
    /\ written' = written + 1
    /\ store' = [store EXCEPT ![k] = <<written + 1>>]
    /\ UNCHANGED <<run, offset, inflight, backlog, hist, linkVars, replicaVars, faults>>

-----------------------------------------------------------------------------
(* The hub's handle_replica task *)

\* Mutant of Serve: registration counts the snapshot as acknowledged.
ServeAcked(r) ==
    /\ handler[r] = "greeted"
    /\ BarrierFree
    /\ IF CanResume(resume[r].run, resume[r].offset)
       THEN /\ wire' = [wire EXCEPT ![r] = FramesAfter(resume[r].offset)]
            /\ reply' = [reply EXCEPT ![r] =
                           [mode |-> "P", boundary |-> offset,
                            count |-> Len(FramesAfter(resume[r].offset))]]
       ELSE /\ reply' = [reply EXCEPT ![r] =
                           [mode |-> "F", boundary |-> offset, snapshot |-> store]]
            /\ UNCHANGED wire
    /\ acked' = [acked EXCEPT ![r] = offset]
    /\ handler' = [handler EXCEPT ![r] = "serving"]
    /\ sent' = [sent EXCEPT ![r] = offset]
    /\ UNCHANGED <<hubVars, queue, acks, replicaVars, faults>>

\* Under the all-writes barrier: choose the missing frames or a snapshot, and
\* register the channel, so that every later frame is queued behind them.
Serve(r) ==
    /\ handler[r] = "greeted"
    /\ BarrierFree
    /\ IF CanResume(resume[r].run, resume[r].offset)
       THEN /\ wire' = [wire EXCEPT ![r] = FramesAfter(resume[r].offset)]
            /\ reply' = [reply EXCEPT ![r] =
                           [mode |-> "P", boundary |-> offset,
                            count |-> Len(FramesAfter(resume[r].offset))]]
            /\ acked' = [acked EXCEPT ![r] = resume[r].offset]
       ELSE /\ reply' = [reply EXCEPT ![r] =
                           [mode |-> "F", boundary |-> offset, snapshot |-> store]]
            /\ acked' = [acked EXCEPT ![r] = 0]
            /\ UNCHANGED wire
    /\ handler' = [handler EXCEPT ![r] = "serving"]
    /\ sent' = [sent EXCEPT ![r] = offset]
    /\ UNCHANGED <<hubVars, queue, acks, replicaVars, faults>>

\* A read_exact that is dropped: what it had read is off the socket and lost.
DropRead(a) == [a EXCEPT !.buf = << >>, !.torn = @ \/ a.buf # << >>]

\* rx.recv() yields a frame and write_repl_frame puts it on the socket.  The
\* select drops its other arm, the read_exact of an acknowledgement.
Stream(r) ==
    /\ handler[r] \in {"serving", "draining"}
    /\ queue[r] # << >>
    /\ wire' = [wire EXCEPT ![r] = Append(@, Head(queue[r]))]
    /\ queue' = [queue EXCEPT ![r] = Tail(@)]
    /\ acks' = [acks EXCEPT ![r] = DropRead(@)]
    /\ UNCHANGED <<hubVars, handler, sent, acked, reply, replicaVars, faults>>

\* The halves of an acknowledgement in the order of to_le_bytes, and the number
\* from_le_bytes makes of two halves that were read one after the other.
Halves(n) == <<n % AckHalf, n \div AckHalf>>
Offset(first, second) == first + AckHalf * second

\* The half of an acknowledgement that is next on the socket, and the way back
\* without it.
NextHalf(a) == Halves(Head(a.sent))[a.taken + 1]
TakeHalf(a) == [a EXCEPT !.sent = IF a.taken = 0 THEN @ ELSE Tail(@), !.taken = 1 - @]

\* The other arm of the select: bytes of an acknowledgement arrive in ack_buf (a
\* tear inside a half is like one between halves).  When ack_buf is full its
\* number raises the high-water mark, whatever acknowledgements the halves are of.
ReadAck(r) ==
    /\ handler[r] \in {"serving", "draining"}
    /\ acks[r].sent # << >>
    /\ LET a == acks[r]
           n == Offset(Head(a.buf), NextHalf(a))
       IN  \/ /\ a.buf = << >>
              /\ acks' = [acks EXCEPT ![r] = [TakeHalf(a) EXCEPT !.buf = <<NextHalf(a)>>]]
              /\ UNCHANGED acked
           \/ /\ a.buf # << >>
              /\ acks' = [acks EXCEPT ![r] = [TakeHalf(a) EXCEPT !.buf = << >>]]
              /\ acked' = [acked EXCEPT ![r] = IF n > @ THEN n ELSE @]
    /\ UNCHANGED <<hubVars, handler, queue, sent, reply, wire, replicaVars, faults>>

\* The channel's sender is gone and the channel is empty: the task ends and
\* closes the socket.
EndHandler(r) ==
    /\ handler[r] = "draining"
    /\ queue[r] = << >>
    /\ handler' = [handler EXCEPT ![r] = "closed"]
    /\ UNCHANGED <<hubVars, queue, sent, acked, reply, wire, acks, replicaVars, faults>>

-----------------------------------------------------------------------------
(* The replica's run_repl_client and sync_from_primary *)

\* The replica writes an acknowledgement of offset n.
Acknowledge(a, n) == [a EXCEPT !.sent = Append(@, n)]

\* Both ends forget the connection of the replicas in R.
Disconnect(R) ==
    /\ handler' = [r \in Replicas |-> IF r \in R THEN "none" ELSE handler[r]]
    /\ queue' = [r \in Replicas |-> IF r \in R THEN << >> ELSE queue[r]]
    /\ reply' = [r \in Replicas |-> IF r \in R THEN NoReply ELSE reply[r]]
    /\ wire' = [r \in Replicas |-> IF r \in R THEN << >> ELSE wire[r]]
    /\ acks' = [r \in Replicas |-> IF r \in R THEN NoAcks ELSE acks[r]]
    /\ phase' = [r \in Replicas |-> IF r \in R THEN "down" ELSE phase[r]]
    /\ UNCHANGED <<sent, acked, goal, left>>

\* Connect, authenticate, read the hub's run id and send the resume request:
\* the resume state if its run is the hub's, else the empty run id.
Connect(r) ==
    /\ phase[r] = "down"
    /\ handler[r] = "none"
    /\ phase' = [phase EXCEPT ![r] = "await"]
    /\ handler' = [handler EXCEPT ![r] = "greeted"]
    /\ UNCHANGED <<hubVars, queue, sent, acked, reply, wire, acks,
                   resume, goal, left, rstore, faults>>

\* Mode F: the whole snapshot is read, then installed by store.replace, and the
\* boundary is recorded and acknowledged.
InstallSnapshot(r) ==
    /\ phase[r] = "await"
    /\ reply[r].mode = "F"
    /\ rstore' = [rstore EXCEPT ![r] = reply[r].snapshot]
    /\ resume' = [resume EXCEPT ![r] = [run |-> run, offset |-> reply[r].boundary]]
    /\ phase' = [phase EXCEPT ![r] = "stream"]
    /\ reply' = [reply EXCEPT ![r] = NoReply]
    /\ acks' = [acks EXCEPT ![r] = Acknowledge(@, reply[r].boundary)]
    /\ UNCHANGED <<hubVars, handler, queue, sent, acked, wire, goal, left, faults>>

\* Mode P: the missing frames follow, up to the boundary.
BeginPartial(r) ==
    /\ phase[r] = "await"
    /\ reply[r].mode = "P"
    /\ goal' = [goal EXCEPT ![r] = reply[r].boundary]
    /\ left' = [left EXCEPT ![r] = reply[r].count]
    /\ phase' = [phase EXCEPT ![r] = "partial"]
    /\ reply' = [reply EXCEPT ![r] = NoReply]
    /\ UNCHANGED <<hubVars, handler, queue, sent, acked, wire, acks,
                   resume, rstore, faults>>

\* Mutant of ApplyFrame: a partial synchronization reads on past its count.
ApplyFrameUncounted(r) ==
    /\ phase[r] \in {"partial", "stream"}
    /\ wire[r] # << >>
    /\ LET f == Head(wire[r])
       IN  /\ f.offset = resume[r].offset + 1
           /\ rstore' = [rstore EXCEPT ![r] = Apply(@, f)]
           /\ resume' = [resume EXCEPT ![r].offset = f.offset]
           /\ IF phase[r] = "stream"
              THEN /\ acks' = [acks EXCEPT ![r] = Acknowledge(@, f.offset)]
                   /\ UNCHANGED left
              ELSE /\ left' = [left EXCEPT ![r] = @ - 1]
                   /\ UNCHANGED acks
    /\ wire' = [wire EXCEPT ![r] = Tail(@)]
    /\ UNCHANGED <<hubVars, handler, queue, sent, acked, reply, phase, goal, faults>>

\* read_repl_frame, the expected offset, apply_repl_frame, and the new resume
\* offset; acknowledged once streaming, not during a partial synchronization.
ApplyFrame(r) ==
    /\ phase[r] = "stream" \/ (phase[r] = "partial" /\ left[r] > 0)
    /\ wire[r] # << >>
    /\ LET f == Head(wire[r])
       IN  /\ f.offset = resume[r].offset + 1
           /\ rstore' = [rstore EXCEPT ![r] = Apply(@, f)]
           /\ resume' = [resume EXCEPT ![r].offset = f.offset]
           /\ IF phase[r] = "stream"
              THEN /\ acks' = [acks EXCEPT ![r] = Acknowledge(@, f.offset)]
                   /\ UNCHANGED left
              ELSE /\ left' = [left EXCEPT ![r] = @ - 1]
                   /\ UNCHANGED acks
    /\ wire' = [wire EXCEPT ![r] = Tail(@)]
    /\ UNCHANGED <<hubVars, handler, queue, sent, acked, reply, phase, goal, faults>>

\* The last frame of the partial synchronization was the boundary's.
EndPartial(r) ==
    /\ phase[r] = "partial"
    /\ left[r] = 0
    /\ resume[r].offset = goal[r]
    /\ resume' = [resume EXCEPT ![r] = [run |-> run, offset |-> goal[r]]]
    /\ phase' = [phase EXCEPT ![r] = "stream"]
    /\ acks' = [acks EXCEPT ![r] = Acknowledge(@, goal[r])]
    /\ UNCHANGED <<hubVars, handler, queue, sent, acked, reply, wire,
                   goal, left, rstore, faults>>

\* The ways sync_from_primary ends with InvalidData: the partial synchronization
\* stops short of its boundary, a frame is out of sequence, or the replica's own
\* store refuses the command (its memory limit, say).
InvalidData(r) ==
    IF phase[r] = "partial" /\ left[r] = 0
    THEN resume[r].offset # goal[r]
    ELSE wire[r] # << >> /\ (Head(wire[r]).offset # resume[r].offset + 1 \/ faults < MaxFaults)

\* Mutant of Reject: the offset is forgotten, the run id is kept.
RejectKeepsRun(r) ==
    /\ phase[r] \in {"partial", "stream"}
    /\ InvalidData(r)
    /\ faults' = faults + 1
    /\ resume' = [resume EXCEPT ![r].offset = 0]
    /\ Disconnect({r})
    /\ UNCHANGED <<hubVars, rstore>>

\* On InvalidData the resume state is forgotten, so that the next connection
\* asks for a snapshot.
Reject(r) ==
    /\ phase[r] \in {"partial", "stream"}
    /\ InvalidData(r)
    /\ faults' = faults + 1
    /\ resume' = [resume EXCEPT ![r] = [run |-> NoRun, offset |-> 0]]
    /\ Disconnect({r})
    /\ UNCHANGED <<hubVars, rstore>>

\* End of file, after everything the closed handler had written was read.
Eof(r) ==
    /\ handler[r] = "closed"
    /\ wire[r] = << >> /\ reply[r] = NoReply
    /\ ~ (phase[r] = "partial" /\ left[r] = 0)
    /\ Disconnect({r})
    /\ UNCHANGED <<hubVars, resume, rstore, faults>>

-----------------------------------------------------------------------------
(* Faults *)

\* The connection breaks: what is on the socket and in the channel is lost.
Break(r) ==
    /\ faults < MaxFaults
    /\ phase[r] # "down"
    /\ faults' = faults + 1
    /\ Disconnect({r})
    /\ UNCHANGED <<hubVars, resume, rstore>>

\* The replica restarts: ReplResume is not persisted.
RestartReplica(r) ==
    /\ faults < MaxFaults
    /\ resume[r].run # NoRun
    /\ faults' = faults + 1
    /\ resume' = [resume EXCEPT ![r] = [run |-> NoRun, offset |-> 0]]
    /\ Disconnect({r})
    /\ UNCHANGED <<hubVars, rstore>>

\* The hub restarts from its snapshot and AOF, perhaps without its last writes,
\* under a new run id with offset 0 and an empty backlog.
RestartHub ==
    /\ run < MaxRuns
    /\ run' = run + 1
    /\ offset' = 0
    /\ backlog' = << >>
    /\ inflight' = [k \in Keys |-> NoWrite]
    /\ \E kept \in [Keys -> 0..written] :
         /\ \A k \in Keys : kept[k] <= Len(store[k])
         /\ store' = [k \in Keys |-> SubSeq(store[k], 1, kept[k])]
    /\ hist' = <<store'>>
    /\ Disconnect(Replicas)
    /\ UNCHANGED <<written, resume, rstore, faults>>

-----------------------------------------------------------------------------
HubStep == \E k \in Keys : Execute(k) \/ FanOut(k) \/ ReplaceKeyspace(k)

HandlerStep(r) == Serve(r) \/ Stream(r) \/ ReadAck(r) \/ EndHandler(r)

ReplicaStep(r) ==
    \/ Connect(r) \/ InstallSnapshot(r) \/ BeginPartial(r) \/ ApplyFrame(r)
    \/ EndPartial(r) \/ Reject(r) \/ Eof(r)

FaultStep == RestartHub \/ \E r \in Replicas : Break(r) \/ RestartReplica(r)

Next ==
    \/ HubStep
    \/ \E r \in Replicas : HandlerStep(r) \/ ReplicaStep(r)
    \/ FaultStep

Spec == Init /\ [][Next]_vars

\* A write that was executed is fanned out; the task of a connected replica and
\* the replica's retry loop keep running.  Nothing obliges a client to write or
\* a fault to happen.
Fairness ==
    /\ \A k \in Keys : WF_vars(FanOut(k))
    /\ \A r \in Replicas :
         /\ WF_vars(Serve(r)) /\ WF_vars(Stream(r)) /\ WF_vars(EndHandler(r))
         /\ WF_vars(Connect(r)) /\ WF_vars(InstallSnapshot(r)) /\ WF_vars(BeginPartial(r))
         /\ WF_vars(ApplyFrame(r)) /\ WF_vars(EndPartial(r)) /\ WF_vars(Eof(r))

FairSpec == Spec /\ Fairness

-----------------------------------------------------------------------------
(* Properties *)

\* A replica that can resume in the hub's run holds exactly the keyspace the
\* frames up to its resume offset make: no frame was lost, doubled or reordered
\* across snapshots, partial synchronizations, overflows and broken connections
\* (handle_replica's "one exact snapshot/log boundary").
ReplicaMatchesHistory ==
    \A r \in Replicas :
        resume[r].run = run =>
            /\ resume[r].offset <= offset
            /\ rstore[r] = hist[resume[r].offset + 1]

\* The hub never gives a replica a gap: the frame a replica reads next is the
\* one it expects, and a partial synchronization ends at its boundary.  The
\* replica's InvalidData checks are a second line of defence.
StreamHasNoGap ==
    \A r \in Replicas : phase[r] \in {"partial", "stream"} =>
        /\ wire[r] # << >> => Head(wire[r]).offset = resume[r].offset + 1
        /\ phase[r] = "partial" /\ left[r] = 0 => resume[r].offset = goal[r]

\* A gap would only show when the next frame arrives: a streaming replica whose
\* channel and socket are empty has applied every frame the hub has fanned out.
DrainedIsCurrent ==
    \A r \in Replicas :
        (handler[r] = "serving" /\ phase[r] = "stream" /\ queue[r] = << >> /\ wire[r] = << >>)
            => resume[r] = [run |-> run, offset |-> offset]

\* "Every later mutation is queued with a strictly higher offset": when the hub is
\* between writes, a drained replica holds the hub's keyspace.
DrainedEqualsHub ==
    \A r \in Replicas :
        (/\ handler[r] = "serving" /\ phase[r] = "stream"
         /\ queue[r] = << >> /\ wire[r] = << >>
         /\ \A k \in Keys : inflight[k] = NoWrite)
            => rstore[r] = store

\* "No mutation can commit between channel registration and snapshot/backlog
\* capture": the snapshot a replica installs and the frames that follow never
\* carry the same write, so no id occurs twice in a value.
NoWriteAppliedTwice ==
    \A r \in Replicas, k \in Keys : IsInjective(rstore[r][k])

\* The lag gauge (max_lag_frames, sent - acked) never reports a frame as applied
\* that the replica has not applied, on a connection of which no read of an
\* acknowledgement was dropped half way: what registration, partial and full
\* synchronization, overflow and reconnection do to acked never runs ahead.
AckedIsApplied ==
    \A r \in Replicas : handler[r] \in {"serving", "draining"} /\ ~ acks[r].torn =>
        acked[r] <= resume[r].offset

\* "This is true lag: how much of what the primary sent has actually been applied
\* downstream" (max_lag_frames), on every connection.  Does not hold: the select
\* drops a read_exact when a frame is ready, the halves that follow are put
\* together wrongly, and fetch_max keeps the number that results.
LagIsTrue ==
    \A r \in Replicas : handler[r] \in {"serving", "draining"} =>
        acked[r] <= resume[r].offset

\* Whatever overflows, breaks or restarts, each replica is at a place of the hub's log with the
\* keyspace that is there, and moves forward in it, not even back by a full
\* synchronization, until it forgets its resume state or the hub starts a new run.
Log == INSTANCE ReplicatedLog WITH
    Readers <- Replicas, epoch <- run, log <- hist,
    place <- [r \in Replicas |-> [epoch |-> resume[r].run, at |-> resume[r].offset,
                                  state |-> rstore[r]]]
RefinesLog == Log!Spec

\* When faults and writes stop, every replica reaches the hub's keyspace and
\* stays there, whatever overflowed or broke before.
EventuallyInSync ==
    \A r \in Replicas : <>[](phase[r] = "stream" /\ rstore[r] = store)

-----------------------------------------------------------------------------
(* The inductive invariant, for a hub that is not itself a replica *)

\* A retained, queued or transmitted frame leads from the keyspace before its
\* offset to the one at its offset, in the history h of o frames.
FrameOK(f, h, o) ==
    /\ f.offset \in 1..o
    /\ h[f.offset + 1] = Apply(h[f.offset], f)

\* The hub's keyspace is that of the last frame and the writes in flight.
StoreOK ==
    \A k \in Keys :
        store[k] = IF inflight[k] = NoWrite THEN hist[offset + 1][k]
                   ELSE Append(hist[offset + 1][k], inflight[k])

\* The frames s are the last ones, without a gap, of the history h of o frames.
LastFrames(s, h, o) ==
    /\ Len(s) <= o
    /\ \A i \in 1..Len(s) : s[i].offset = o - Len(s) + i /\ FrameOK(s[i], h, o)

BacklogOK == LastFrames(backlog, hist, offset)

\* Where the frames on the socket of replica r continue from.
Base(r) == IF reply[r].mode = "F" THEN reply[r].boundary ELSE resume[r].offset

\* Socket and channel of r hold, in order, the frames after Base(r) up to sent[r].
PathOK(r) ==
    /\ \A i \in 1..Len(wire[r]) :
         wire[r][i].offset = Base(r) + i /\ FrameOK(wire[r][i], hist, offset)
    /\ \A i \in 1..Len(queue[r]) :
         /\ queue[r][i].offset = Base(r) + Len(wire[r]) + i
         /\ FrameOK(queue[r][i], hist, offset)
    /\ sent[r] = Base(r) + Len(wire[r]) + Len(queue[r])
    /\ sent[r] <= offset
    /\ handler[r] = "serving" => sent[r] = offset

\* What replica r has been told matches what it will be sent.
SyncOK(r) ==
    /\ reply[r].mode = "F" => reply[r].snapshot = hist[reply[r].boundary + 1]
    /\ reply[r].mode = "P" => /\ resume[r].run = run
                              /\ reply[r].boundary = resume[r].offset + reply[r].count
                              /\ reply[r].count <= Len(wire[r])
    /\ phase[r] = "await" <=> reply[r].mode # "none"
    /\ phase[r] # "await" => resume[r].run = run
    /\ phase[r] = "partial" => /\ goal[r] = resume[r].offset + left[r]
                               /\ left[r] <= Len(wire[r])

\* As long as no read was dropped, ack_buf and the socket are in step: the half
\* in ack_buf is the first of the acknowledgement whose second half comes next.
InStep(a) ==
    \/ a.taken = 0 /\ a.buf = << >>
    \/ a.taken = 1 /\ a.sent # << >> /\ a.buf = <<Halves(Head(a.sent))[1]>>

AcksOK(r) ==
    /\ reply[r].mode = "F" => acked[r] = 0 /\ acks[r] = NoAcks
    /\ ~ acks[r].torn => acked[r] <= resume[r].offset /\ InStep(acks[r])
    /\ \A i \in 1..Len(acks[r].sent) : acks[r].sent[i] <= resume[r].offset

LinkOK(r) ==
    /\ handler[r] = "none" <=> phase[r] = "down"
    /\ handler[r] = "greeted" => phase[r] = "await"
    /\ handler[r] \in {"none", "greeted"} =>
         queue[r] = << >> /\ wire[r] = << >> /\ reply[r] = NoReply /\ acks[r] = NoAcks
    /\ handler[r] \in {"serving", "draining", "closed"} =>
         PathOK(r) /\ SyncOK(r) /\ AcksOK(r)

\* Every frame in the system is the right one for its offset, and a connected
\* replica's socket and channel continue exactly where it is.
IInv ==
    /\ TypeOK
    /\ StoreOK
    /\ BacklogOK
    /\ \A r \in Replicas : resume[r].run <= run /\ LinkOK(r)
    /\ ReplicaMatchesHistory
=============================================================================
