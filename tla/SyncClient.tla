----------------------------- MODULE SyncClient -----------------------------
(***************************************************************************)
(* sync-client/src/lib.rs: the state machine behind every client library,  *)
(* free of I/O.  Each operation takes a client core and returns the core   *)
(* after it with the effects its adapter has to carry out.                 *)
(*                                                                         *)
(* core:  [client, epoch, seq, outbox, inflight, password, queries]        *)
(* frame: [kind, write, client, wire]; write is the number of the          *)
(*        application's write, by which the properties recognise it.       *)
(***************************************************************************)
EXTENDS Integers, Sequences, FiniteSets, SequencesExt

CONSTANTS
    MaxPending,   \* max_pending: the cap of the outbox
    IdRange       \* 2^32: the wire ids of one session

ASSUME SyncClientAssumption == MaxPending \in Nat \ {0} /\ IdRange \in Nat \ {0}

None == -1   \* Option::None: no row, no wire id

NewClient(client, password) ==
    [client |-> client, epoch |-> 0, seq |-> 0, outbox |-> <<>>, inflight |-> <<>>,
     password |-> password, queries |-> {}]

NoWritesYet(c) == c.seq = 0 /\ c.outbox = <<>>
AdoptClientId(c, client) == IF NoWritesYet(c) THEN [c EXCEPT !.client = client] ELSE c

-----------------------------------------------------------------------------
\* Session state: remembered for every reconnect, and sent now if the socket is open.

SessionCommand(kind) == [kind |-> kind, write |-> None, client |-> None, wire |-> None]
SessionFrame(c, connected) == IF connected THEN [c EXCEPT !.inflight = Append(@, None)] ELSE c
AddLiveQuery(c, q, connected) ==
    SessionFrame([c EXCEPT !.queries = @ \cup {q}], connected)
RemoveLiveQuery(c, q, connected) ==
    SessionFrame([c EXCEPT !.queries = @ \ {q}], connected)

\* What re-establishes the session, in order.
SessionFrames(c) ==
    (IF c.password THEN <<SessionCommand("auth")>> ELSE <<>>)
        \o [i \in 1..Cardinality(c.queries) |-> SessionCommand("query")]

\* Mutant of OnOpen: the outbox first, the session after it.
OnOpenOutboxFirst(c) ==
    LET session == SessionFrames(c)
        rows == [i \in 1..Len(c.outbox) |-> c.outbox[i].frame]
    IN  [core |-> [c EXCEPT !.inflight = [i \in 1..Len(c.outbox) |-> c.outbox[i].id]
                                             \o [i \in 1..Len(session) |-> None]],
         frames |-> rows \o session]

\* Mutant of OnOpen: the rows wait for a write to push them.
OnOpenSessionOnly(c) ==
    LET session == SessionFrames(c)
    IN  [core |-> [c EXCEPT !.inflight = [i \in 1..Len(session) |-> None]], frames |-> session]

\* on_open: session state first, then the whole outbox; the slots of the last socket are gone.
OnOpen(c) ==
    LET session == SessionFrames(c)
        rows == [i \in 1..Len(c.outbox) |-> c.outbox[i].frame]
    IN  [core |-> [c EXCEPT !.inflight = [i \in 1..Len(session) |-> None]
                                             \o [i \in 1..Len(c.outbox) |-> c.outbox[i].id]],
         frames |-> session \o rows]

-----------------------------------------------------------------------------
\* Writes.

WireId(c, id) == c.epoch * IdRange + (id % IdRange)

\* enqueue_write: a new row, sent now if the socket is open; a full outbox loses its oldest row.
EnqueueWrite(c, kind, write, dedup, connected) ==
    LET frame == [kind |-> kind, write |-> write, client |-> c.client,
                  wire |-> IF dedup THEN WireId(c, c.seq) ELSE None]
        full == Len(c.outbox) >= MaxPending
        kept == IF full THEN Tail(c.outbox) ELSE c.outbox
    IN  [core |-> [c EXCEPT !.seq = @ + 1,
                            !.outbox = Append(kept, [id |-> c.seq, frame |-> frame]),
                            !.inflight = IF connected THEN Append(@, c.seq) ELSE @],
         id |-> c.seq,
         frame |-> frame,
         dropped |-> IF full THEN <<Head(c.outbox)>> ELSE <<>>]

\* restore_outbox: the rows of an earlier session, renumbered, before those of this one.
RestoreOutbox(c, rows) ==
    [c EXCEPT !.seq = @ + Len(rows),
              !.outbox = [i \in 1..Len(rows) |-> [id |-> c.seq + i - 1, frame |-> rows[i].frame]]
                             \o @]

ClearOutbox(c) == [c EXCEPT !.outbox = <<>>, !.inflight = <<>>]

\* The elements of a sequence at the places K, in their order.
Kept(s, K) ==
    LET keep[i \in 0..Len(s)] ==
            IF i = 0 THEN <<>>
            ELSE IF i \in K THEN Append(keep[i - 1], s[i]) ELSE keep[i - 1]
    IN  keep[Len(s)]

\* ack_reply: an answer is for the oldest slot; a row it stands for is done with.
AckReply(c) ==
    IF c.inflight = <<>> THEN [core |-> c, retired |-> None]
    ELSE LET id == Head(c.inflight)
         IN  [core |-> [c EXCEPT !.inflight = Tail(@),
                                 !.outbox = Kept(@, {i \in DOMAIN @ : @[i].id # id})],
              retired |-> id]
=============================================================================
