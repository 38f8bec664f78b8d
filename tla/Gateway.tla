------------------------------ MODULE Gateway -------------------------------
(***************************************************************************)
(* A request on its way through the server: from_value makes a command of  *)
(* its words, the store executes it, broadcast_for puts the effect into    *)
(* words again, and whoever reads them (replay_aof at the next start,      *)
(* apply_repl_frame on a replica) parses and executes those.  Readers stop *)
(* at a frame that does not parse or that fails.                           *)
(***************************************************************************)
EXTENDS Requests

CONSTANTS
    Cases,       \* a sequence of [data, requests, ops]: a keyspace, requests
                 \* <<name, words>>, and a bound on how many are sent
    MaxClock     \* bound on the clock

VARIABLES
    case,        \* which of Cases this is
    clock,
    data,        \* the keyspace
    sent,        \* requests so far
    reader,      \* the keyspace of a reader of the frames
    stuck,       \* the reader has met a frame it cannot take
    strays       \* history: frames of the known kinds that no reader can take

vars == <<case, clock, data, sent, reader, stuck, strays>>

Init ==
    /\ case \in DOMAIN Cases
    /\ clock = 0 /\ sent = 0
    /\ data = Cases[case].data /\ reader = data
    /\ stuck = FALSE /\ strays = FALSE

\* replay_aof and apply_repl_frame, one frame in its words: <<whether it was taken, keyspace>>.
Take(db, name, ws) ==
    LET c == FromValue(name, ws)
    IN  IF c = Refused THEN <<FALSE, db>>
        ELSE LET r == CHOOSE r \in Exec(db, clock, c) : TRUE IN <<~IsError(r.reply), r.db>>

\* Where the frames of a command are known not to do: one for a write that failed, a
\* deadline past the greatest i64, HSET of a hash whose name HINCRBY, HINCRBYFLOAT and HSETNX
\* take and HSET does not, a list that is empty because all its words were nil, and the empty
\* set that SADD makes of such words and does not mention.
Stray(c, r, frames) ==
    \/ c.op = "SADD" /\ c.members = <<>>
    \/ \E f \in ToSet(frames) :
        \/ IsError(r)
        \/ f.op = "PEXPIREAT" /\ f.t > MaxInt
        \/ f.op = "SET" /\ f.exp = "PXAT" /\ f.t > MaxInt
        \/ f.op = "HSET" /\ ~ValidateKey(f.key)
        \/ f.op \in {"LPUSH", "RPUSH"} /\ f.vals = <<>>
        \/ f.op = "SCOMBINESTORE" /\ f.keys = <<>>

\* A request that is accepted: the effect c has, and what a reader makes of its frame.
Accept(c) ==
    \E r \in Exec(data, clock, c) :
        LET frames == BroadcastFor(c, r.reply, clock)
            words  == FrameWords(frames[1])
            taken  == IF frames = <<>> THEN <<TRUE, reader>> ELSE Take(reader, words[1], words[2])
        IN  /\ data' = r.db
            /\ stuck' = ~taken[1]
            /\ reader' = IF taken[1] THEN taken[2] ELSE reader
            /\ strays' = (strays \/ Stray(c, r.reply, frames))

\* A client's request.  One that is refused is answered with an error and nothing else.
Request ==
    /\ sent < Cases[case].ops /\ ~stuck
    /\ \E q \in Cases[case].requests :
         LET c == FromValue(q[1], q[2])
         IN  IF c = Refused THEN UNCHANGED <<data, reader, stuck, strays>> ELSE Accept(c)
    /\ sent' = sent + 1
    /\ UNCHANGED <<case, clock>>

Tick ==
    /\ clock < MaxClock
    /\ clock' = clock + 1
    /\ UNCHANGED <<case, data, sent, reader, stuck, strays>>

Next == Request \/ Tick
Spec == Init /\ [][Next]_vars

-----------------------------------------------------------------------------
\* Every frame that the server writes is one its own parser accepts and its own store
\* executes, whatever binary payloads, options, counts, empty names and nil words the request
\* had.
FramesReadable == ~stuck

\* The same but for the known frames; and a reader that has taken every frame has the
\* keyspace a client sees.
Replicated(db) ==
    LET v == Visible(db, clock)
    IN  [k \in {x \in DOMAIN v : v[x].val[1] # "rate"} |-> v[k]]
ReadersAgree == strays \/ (~stuck /\ Replicated(reader) = Replicated(data))
=============================================================================
