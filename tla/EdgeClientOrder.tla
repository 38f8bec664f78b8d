-------------------------- MODULE EdgeClientOrder ---------------------------
(***************************************************************************)
(* The server executes the writes of one identity in the order of their    *)
(* issue and none of them twice: AppliedInOrder, for one tab per origin and *)
(* any number of embedded clients.  The argument is about the writes in    *)
(* play: those in an envelope that the server may still be sent, wherever  *)
(* they are, in the outbox, on disk, on their way to it, or in a socket.   *)
(***************************************************************************)
EXTENDS EdgeClientSlots

-----------------------------------------------------------------------------
(* The writes in play *)

\* Where they are.
LEMMA InPlayHas ==
    /\ \A f \in OnDisk : f.wire # None => f \in InPlay
    /\ \A t \in Tabs : \A f \in HeldIn(core[t].outbox) : f.wire # None => f \in InPlay
    /\ \A t \in Tabs : \A f \in PutsIn(tasks[t]) : f.wire # None => f \in InPlay
    /\ \A n \in DOMAIN up : \A f \in ToSet(up[n]) : f.wire # None => f \in InPlay
<1>1. InPlay = {f \in OnDisk \cup Held \cup Sent : f.wire # None}
  BY DEF InPlay
<1>2. \A t \in Tabs : HeldIn(core[t].outbox) \subseteq Held /\ PutsIn(tasks[t]) \subseteq Held
  <2> DEFINE of(t) == HeldIn(core[t].outbox) \cup PutsIn(tasks[t])
  <2>1. Held = UNION {of(t) : t \in Tabs}
    BY DEF Held
  <2>2. \A t \in Tabs : HeldIn(core[t].outbox) \subseteq of(t) /\ PutsIn(tasks[t]) \subseteq of(t)
    OBVIOUS
  <2> HIDE DEF of
  <2>3. \A t \in Tabs : of(t) \subseteq Held
    BY <2>1
  <2>4. QED
    BY <2>2, <2>3
<1>3. \A n \in DOMAIN up : ToSet(up[n]) \subseteq Sent
  BY Zenon DEF Held, Sent
<1>4. QED
  BY <1>1, <1>2, <1>3

\* Nowhere else.
LEMMA InPlayStep ==
    ASSUME NEW N,
           \A f \in OnDisk' : f.wire # None => f \in N,
           \A t \in Tabs : \A f \in HeldIn(core'[t].outbox) : f.wire # None => f \in N,
           \A t \in Tabs : \A f \in PutsIn(tasks'[t]) : f.wire # None => f \in N,
           \A n \in DOMAIN up' : \A f \in ToSet(up'[n]) : f.wire # None => f \in N
    PROVE  InPlay' \subseteq N
<1> SUFFICES ASSUME NEW f \in InPlay' PROVE f \in N
  OBVIOUS
<1>0. InPlay' = {g \in OnDisk' \cup Held' \cup Sent' : g.wire # None}
  BY DEF InPlay
<1>1. f.wire # None
  BY <1>0
<1>2. \/ f \in OnDisk'
      \/ \E t \in Tabs : f \in HeldIn(core'[t].outbox) \/ f \in PutsIn(tasks'[t])
      \/ \E n \in DOMAIN up' : f \in ToSet(up'[n])
  <2>1. f \in OnDisk' \/ f \in Held' \/ f \in Sent'
    BY <1>0
  <2>2. CASE f \in Held'
    <3>1. \E t \in Tabs : f \in HeldIn(core'[t].outbox) \cup PutsIn(tasks'[t])
      BY <2>2, Zenon DEF Held
    <3>2. QED
      BY <3>1
  <2>3. CASE f \in Sent'
    BY <2>3, Zenon DEF Sent
  <2>4. QED
    BY <2>1, <2>2, <2>3
<1>3. QED
  BY <1>1, <1>2

\* They are the frames of writes.
LEMMA InPlayType ==
    ASSUME Types
    PROVE  \A f \in InPlay : f.wire \in Nat /\ f.write \in Nat /\ f.client \in Clients
<1> USE DEF Types
<1> SUFFICES ASSUME NEW f \in InPlay PROVE f.wire \in Nat /\ f.write \in Nat /\ f.client \in Clients
  OBVIOUS
<1>0. InPlay = {g \in OnDisk \cup Held \cup Sent : g.wire # None}
  BY DEF InPlay
<1>1. f.wire # None
  BY <1>0
<1>2. \/ f \in OnDisk
      \/ \E t \in Tabs : f \in HeldIn(core[t].outbox) \/ f \in PutsIn(tasks[t])
      \/ \E n \in DOMAIN up : f \in ToSet(up[n])
  <2>1. f \in OnDisk \/ f \in Held \/ f \in Sent
    BY <1>0
  <2>2. CASE f \in Held
    <3>1. \E t \in Tabs : f \in HeldIn(core[t].outbox) \cup PutsIn(tasks[t])
      BY <2>2, Zenon DEF Held
    <3>2. QED
      BY <3>1
  <2>3. CASE f \in Sent
    BY <2>3, Zenon DEF Sent
  <2>4. QED
    BY <2>1, <2>2, <2>3
<1>3. f \in Frame
  <2>1. CASE f \in OnDisk
    BY <2>1 DEF OnDisk, DiskTypes, Frame
  <2>2. ASSUME NEW t \in Tabs, f \in HeldIn(core[t].outbox) PROVE f \in Frame
    <3>1. core[t].outbox \in Seq(Row)
      BY CoreFields DEF ClientTypes
    <3>2. PICK i \in DOMAIN core[t].outbox : f = core[t].outbox[i].frame
      BY <2>2 DEF HeldIn
    <3>3. core[t].outbox[i] \in Row
      BY <3>1
    <3>4. QED
      BY <3>2, <3>3, RowFacts DEF Frame
  <2>3. ASSUME NEW t \in Tabs, f \in PutsIn(tasks[t]) PROVE f \in Frame
    <3>1. PICK i \in DOMAIN tasks[t] : tasks[t][i].kind = "put" /\ f = tasks[t][i].frame
      BY <2>3 DEF PutsIn
    <3>2. TaskOK(tasks[t][i])
      BY DEF TaskTypes, TasksOK
    <3>3. QED
      BY <3>1, <3>2 DEF TaskOK, Frame
  <2>4. ASSUME NEW n \in DOMAIN up, f \in ToSet(up[n]) PROVE f \in Frame
    BY <2>4 DEF ToSet, NetworkTypes
  <2>5. QED
    BY <1>2, <2>1, <2>2, <2>3, <2>4
<1>4. QED
  BY <1>1, <1>3, FrameFacts

-----------------------------------------------------------------------------
(* No step but a write puts one in play *)

\* The client of one tab changes.
LEMMA HeldStep ==
    ASSUME Types, NEW t \in Tabs, NEW x, core' = [core EXCEPT ![t] = x], NEW N, InPlay \subseteq N,
           \A f \in HeldIn(x.outbox) : f.wire # None => f \in N
    PROVE  \A u \in Tabs : \A f \in HeldIn(core'[u].outbox) : f.wire # None => f \in N
<1>1. \A u \in Tabs : core'[u] = IF u = t THEN x ELSE core[u]
  BY DEF Types, ClientTypes
<1>2. QED
  BY <1>1, InPlayHas

\* The transactions of one tab change.
LEMMA PutsStep ==
    ASSUME Types, NEW t \in Tabs, NEW x, tasks' = [tasks EXCEPT ![t] = x], NEW N, InPlay \subseteq N,
           \A f \in PutsIn(x) : f.wire # None => f \in N
    PROVE  \A u \in Tabs : \A f \in PutsIn(tasks'[u]) : f.wire # None => f \in N
<1>1. \A u \in Tabs : tasks'[u] = IF u = t THEN x ELSE tasks[u]
  BY DEF Types, TaskTypes
<1>2. QED
  BY <1>1, InPlayHas

\* What stays where it was is in play.
LEMMA StillInPlay ==
    ASSUME NEW N, InPlay \subseteq N
    PROVE  /\ UNCHANGED idb.rows => \A f \in OnDisk' : f.wire # None => f \in N
           /\ UNCHANGED core => \A t \in Tabs : \A f \in HeldIn(core'[t].outbox) : f.wire # None => f \in N
           /\ UNCHANGED tasks => \A t \in Tabs : \A f \in PutsIn(tasks'[t]) : f.wire # None => f \in N
           /\ UNCHANGED up => \A n \in DOMAIN up' : \A f \in ToSet(up'[n]) : f.wire # None => f \in N
<1>1. UNCHANGED idb.rows => \A f \in OnDisk' : f.wire # None => f \in N
  BY InPlayHas DEF OnDisk
<1>2. UNCHANGED core => \A t \in Tabs : \A f \in HeldIn(core'[t].outbox) : f.wire # None => f \in N
  BY InPlayHas
<1>3. UNCHANGED tasks => \A t \in Tabs : \A f \in PutsIn(tasks'[t]) : f.wire # None => f \in N
  BY InPlayHas
<1>4. UNCHANGED up => \A n \in DOMAIN up' : \A f \in ToSet(up'[n]) : f.wire # None => f \in N
  BY InPlayHas
<1>5. QED
  BY <1>1, <1>2, <1>3, <1>4

\* The puts among transactions.
LEMMA PutsFacts ==
    ASSUME NEW s, TasksOK(s)
    PROVE  /\ s # << >> => /\ PutsIn(Tail(s)) \subseteq PutsIn(s)
                           /\ Head(s).kind = "put" => Head(s).frame \in PutsIn(s)
           /\ \A r : TasksOK(r) => PutsIn(s \o r) = PutsIn(s) \cup PutsIn(r)
<1>1. s \in Seq(ToSet(s)) /\ DOMAIN s = 1..Len(s) /\ Len(s) \in Nat
  BY DEF TasksOK
<1>2. ASSUME s # << >> PROVE PutsIn(Tail(s)) \subseteq PutsIn(s)
  <2>1. \A i \in DOMAIN Tail(s) : i + 1 \in DOMAIN s /\ Tail(s)[i] = s[i + 1]
    BY <1>1, <1>2
  <2>2. QED
    BY <2>1 DEF PutsIn
<1>3. ASSUME s # << >>, Head(s).kind = "put" PROVE Head(s).frame \in PutsIn(s)
  <2>1. 1 \in DOMAIN s /\ Head(s) = s[1]
    BY <1>1, <1>3
  <2>2. QED
    BY <1>3, <2>1 DEF PutsIn
<1>4. ASSUME NEW r, TasksOK(r) PROVE PutsIn(s \o r) = PutsIn(s) \cup PutsIn(r)
  <2> DEFINE S == ToSet(s) \cup ToSet(r)
             c == s \o r
  <2>1. s \in Seq(S) /\ r \in Seq(S)
    <3>1. s \in Seq(ToSet(s)) /\ r \in Seq(ToSet(r))
      BY <1>4 DEF TasksOK
    <3>2. QED
      BY <3>1
  <2> HIDE DEF S
  <2>2. /\ c \in Seq(S) /\ Len(c) = Len(s) + Len(r)
        /\ \A i \in 1..Len(s) : c[i] = s[i]
        /\ \A j \in 1..Len(r) : c[Len(s) + j] = r[j]
    BY ONLY <2>1, ConcatFacts
  <2> HIDE DEF c
  <2>3. DOMAIN c = 1..(Len(s) + Len(r)) /\ DOMAIN r = 1..Len(r) /\ Len(r) \in Nat
    BY <2>1, <2>2
  <2>4. \A i \in DOMAIN s : i \in DOMAIN c /\ c[i] = s[i]
    BY <1>1, <2>2, <2>3
  <2>5. \A j \in DOMAIN r : Len(s) + j \in DOMAIN c /\ c[Len(s) + j] = r[j]
    BY <1>1, <2>2, <2>3
  <2>6. ASSUME NEW i \in DOMAIN c
        PROVE  (i \in DOMAIN s /\ c[i] = s[i]) \/ \E j \in DOMAIN r : c[i] = r[j]
    <3>1. CASE i <= Len(s)
      BY <1>1, <2>2, <2>3, <3>1
    <3>2. CASE i > Len(s)
      <4> DEFINE j == i - Len(s)
      <4>1. j \in DOMAIN r /\ Len(s) + j = i
        BY <1>1, <2>3, <3>2
      <4> HIDE DEF j
      <4>2. c[i] = r[j]
        BY <2>5, <4>1
      <4>3. QED
        BY <4>1, <4>2
    <3>3. QED
      BY <1>1, <2>3, <3>1, <3>2
  <2>7. PutsIn(c) \subseteq PutsIn(s) \cup PutsIn(r)
    BY <2>6 DEF PutsIn
  <2>8. PutsIn(s) \subseteq PutsIn(c) /\ PutsIn(r) \subseteq PutsIn(c)
    BY <2>4, <2>5 DEF PutsIn
  <2>9. QED
    BY <2>7, <2>8 DEF c
<1>5. QED
  BY <1>2, <1>3, <1>4

\* Those of an operation.
LEMMA PutsMade ==
    /\ PutsIn(<< >>) = {} /\ PutsIn(<<ClearAll>>) = {}
    /\ \A id : PutsIn(<<DeleteRow(id)>>) = {}
    /\ \A id, w : PutsIn(<<AppendLog(id, w)>>) = {}
<1>1. PutsIn(<< >>) = {}
  BY DEF PutsIn
<1>2. ASSUME NEW a, a.kind # "put" PROVE PutsIn(<<a>>) = {}
  <2>1. DOMAIN <<a>> = {1} /\ <<a>>[1] = a
    OBVIOUS
  <2>2. QED
    BY <1>2, <2>1 DEF PutsIn
<1>3. ClearAll.kind # "put" /\ (\A id : DeleteRow(id).kind # "put")
      /\ \A id, w : AppendLog(id, w).kind # "put"
  BY DEF ClearAll, DeleteRow, AppendLog
<1>4. QED
  BY <1>1, <1>2, <1>3

\* A row that is queued comes with its put.
LEMMA RowPuts ==
    ASSUME NEW c, NEW e, e.id \in Nat, e.frame \in RowFrame,
           e.dropped = << >> \/ e.dropped = <<Head(c.outbox)>>
    PROVE  PutsIn(StoreRow(e)) \subseteq {e.frame}
<1>1. \A i \in DOMAIN StoreRow(e) : StoreRow(e)[i].kind = "put" => StoreRow(e)[i].frame = e.frame
  BY StoreRowType
<1>2. QED
  BY <1>1 DEF PutsIn

\* What is sent on a socket changes.
LEMMA UpStep ==
    ASSUME Types, NEW n, NEW x \in Seq(Frame), up' = [up EXCEPT ![n] = x],
           NEW N, InPlay \subseteq N, \A f \in ToSet(x) : f.wire # None => f \in N
    PROVE  \A i \in DOMAIN up' : \A f \in ToSet(up'[i]) : f.wire # None => f \in N
<1>1. DOMAIN up' = DOMAIN up /\ \A i \in DOMAIN up : up'[i] = IF i = n THEN x ELSE up[i]
  BY UpSet DEF Types
<1>2. QED
  BY <1>1, InPlayHas

\* A command is sent.
LEMMA SendStep ==
    ASSUME Types, SocketsOK, NEW t \in Tabs, NEW f \in Frame, up' = Send(t, f),
           NEW N, InPlay \subseteq N, f.wire # None => f \in N
    PROVE  \A i \in DOMAIN up' : \A g \in ToSet(up'[i]) : g.wire # None => g \in N
<1>1. CASE ~Connected(t)
  BY <1>1, StillInPlay DEF Send
<1>2. CASE Connected(t)
  <2> DEFINE x == Append(up[conn[t]], f)
  <2>1. up[conn[t]] \in Seq(Frame) /\ conn[t] \in DOMAIN up
    BY <1>2 DEF Types, SocketsOK, NetworkTypes
  <2>2. x \in Seq(Frame) /\ ToSet(x) = ToSet(up[conn[t]]) \cup {f}
    BY <2>1, ElementsOf
  <2>3. up' = [up EXCEPT ![conn[t]] = x]
    BY <1>2 DEF Send
  <2>4. \A g \in ToSet(x) : g.wire # None => g \in N
    BY <2>1, <2>2, InPlayHas
  <2> HIDE DEF x
  <2>5. QED
    BY <2>2, <2>3, <2>4, UpStep
<1>3. QED
  BY <1>1, <1>2

\* The frames of rows.
LEMMA HeldFacts ==
    ASSUME NEW a, NEW b, ToSet(a) \subseteq ToSet(b) PROVE HeldIn(a) \subseteq HeldIn(b)
BY DEF ToSet, HeldIn

\* A row is queued.
LEMMA HeldEnqueued ==
    ASSUME NEW c \in Core, RowsOK(c), NEW e, NEW write, NEW wire, NEW connected,
           Enqueues(c, e, write, wire, connected)
    PROVE  HeldIn(e.core.outbox) \subseteq HeldIn(c.outbox) \cup {e.frame}
<1> DEFINE new == [id |-> c.seq, frame |-> e.frame]
<1>1. PICK kept \in Seq(Row) : ToSet(kept) \subseteq ToSet(c.outbox) /\ e.core.outbox = Append(kept, new)
  BY RowsEnqueue
<1>2. new \in Row /\ new.frame = e.frame
  BY CoreFields, RowFacts DEF Enqueues
<1> HIDE DEF new
<1>3. ToSet(Append(kept, new)) = ToSet(kept) \cup {new}
  BY <1>2, ElementsOf
<1>4. \A r, s : HeldIn(s) = {row.frame : row \in ToSet(s)}
  BY DEF HeldIn, ToSet
<1>5. QED
  BY <1>1, <1>2, <1>3, <1>4

-----------------------------------------------------------------------------
(* Steps that put nothing in play *)

\* The steps of a start after which an epoch stands.
LateSteps == {"outbox", "replace", "log", "ready"}
\* A tab keeps its identity and its epoch, or closes.
TabKeeps(u) ==
    \/ phase'[u] = "closed"
    \/ /\ \/ phase'[u] = phase[u]
          \/ Browser /\ phase[u] \in LateSteps /\ phase'[u] \in LateSteps
       /\ core'[u].client = core[u].client /\ core'[u].epoch = core[u].epoch
       /\ core'[u].seq >= core[u].seq
\* Nothing new is in play, and the tabs keep their identities and epochs.
Keeps ==
    /\ InPlay' \subseteq InPlay
    /\ UNCHANGED <<issued, scenario>> /\ DOMAIN mark \subseteq DOMAIN mark'
    /\ idb'.client = idb.client /\ idb'.epoch = idb.epoch
    /\ ~Browser => idb'.rows = << >> /\ \A u \in Tabs : tasks'[u] = << >>
    /\ \A u \in Tabs : TabKeeps(u)

\* One client changes, and keeps its identity.
LEMMA OneTabKeeps ==
    ASSUME Types, NEW t \in Tabs, NEW x, core' = [core EXCEPT ![t] = x], UNCHANGED phase,
           x.client = core[t].client, x.epoch = core[t].epoch, x.seq >= core[t].seq
    PROVE  \A u \in Tabs : TabKeeps(u)
<1> SUFFICES ASSUME NEW u \in Tabs PROVE TabKeeps(u)
  OBVIOUS
<1>1. core'[u] = IF u = t THEN x ELSE core[u]
  BY DEF Types, ClientTypes
<1>2. core[u].seq \in Nat
  BY CoreFields DEF Types, ClientTypes
<1>3. core[u].seq >= core[u].seq
  BY <1>2
<1>4. QED
  BY <1>1, <1>3 DEF TabKeeps

\* A tab takes a late step of its start.
LEMMA LateKeeps ==
    ASSUME Types, EpochOK, NEW t \in Tabs, NEW x, NEW p \in LateSteps,
           core' = [core EXCEPT ![t] = x], phase' = [phase EXCEPT ![t] = p],
           phase[t] \in {"outbox", "replace", "log"},
           x.client = core[t].client, x.epoch = core[t].epoch, x.seq >= core[t].seq
    PROVE  (\A u \in Tabs : TabKeeps(u)) /\ Browser
<1>1. Browser
  BY DEF EpochOK
<1> SUFFICES ASSUME NEW u \in Tabs PROVE TabKeeps(u)
  BY <1>1
<1>2. core'[u] = (IF u = t THEN x ELSE core[u]) /\ phase'[u] = IF u = t THEN p ELSE phase[u]
  BY DEF Types, ClientTypes
<1>3. core[u].seq \in Nat
  BY CoreFields DEF Types, ClientTypes
<1>4. core[u].seq >= core[u].seq
  BY <1>3
<1>5. QED
  BY <1>1, <1>2, <1>4 DEF TabKeeps, LateSteps

\* What restore_outbox brings back.
Restores(c, rows, frames) ==
    LET x == RestoreOutbox(c, rows)
    IN  /\ x.client = c.client /\ x.epoch = c.epoch /\ x.seq >= c.seq
        /\ \A f \in HeldIn(x.outbox) : \E i \in 1..Len(frames) : f = frames[i]

\* It brings back the frames it is given, and no others.
LEMMA RestoreHeld ==
    ASSUME NEW c \in Core, c.outbox = << >>, c.seq = 0, NEW frames \in Seq(RowFrame), NEW rows,
           rows = [i \in 1..Len(frames) |-> [id |-> i, frame |-> frames[i]]]
    PROVE  Restores(c, rows, frames)
<1> DEFINE x == RestoreOutbox(c, rows)
           n == Len(frames)
<1>1. /\ x \in Core /\ x.seq = 0 + n /\ x.client = c.client /\ x.epoch = c.epoch
      /\ Len(x.outbox) = n + 0
      /\ \A i \in 1..n : x.outbox[i] = [id |-> c.seq + i - 1, frame |-> frames[i]]
  <2>1. Len(c.outbox) = 0
    OBVIOUS
  <2>2. Restored(c, x, frames)
    BY RestoreType, Zenon
  <2> HIDE DEF x
  <2>3. QED
    BY <2>1, <2>2 DEF Restored
<1>2. n \in Nat /\ c.seq \in Nat
  BY CoreFields
<1> HIDE DEF x, n
<1>3. x.outbox \in Seq(Row) /\ DOMAIN x.outbox = 1..n
  <2>1. x.outbox \in Seq(Row)
    BY <1>1, CoreFields
  <2>2. QED
    BY <1>1, <1>2, <2>1
<1>4. ASSUME NEW i \in 1..n PROVE x.outbox[i].frame = frames[i]
  <2>1. x.outbox[i] = [id |-> c.seq + i - 1, frame |-> frames[i]]
    BY <1>1
  <2>2. \A y, a, b : y = [id |-> a, frame |-> b] => y.frame = b
    OBVIOUS
  <2>3. QED
    BY ONLY <2>1, <2>2, Zenon
<1>5. \A f \in HeldIn(x.outbox) : \E i \in 1..n : f = frames[i]
  BY <1>3, <1>4 DEF HeldIn
<1>6. x.seq >= c.seq
  BY <1>1, <1>2
<1>7. QED
  BY <1>1, <1>5, <1>6 DEF Restores, x, n

\* The rows are restored from those on disk.
LEMMA RestoreRowsKeeps ==
    ASSUME Types, SocketsOK, AlignInv, EpochOK, NEW t \in Tabs, RestoreRows(t)
    PROVE  Keeps
<1> DEFINE frames == InOrder(idb.rows)
           rows == [i \in 1..Len(frames) |-> [id |-> i, frame |-> frames[i]]]
           x == RestoreOutbox(core[t], rows)
<1>1. /\ core' = [core EXCEPT ![t] = x] /\ phase' = [phase EXCEPT ![t] = "replace"]
      /\ phase[t] = "outbox" /\ UNCHANGED <<idb, tasks, up, mark, issued, scenario>>
  BY Zenon DEF RestoreRows, browser, network, server, bounds, history
<1>2. core[t] \in Core /\ core[t].outbox = << >> /\ core[t].seq = 0
  BY <1>1 DEF AlignInv, Good, Starting, Types, ClientTypes
<1>3. frames \in Seq(RowFrame) /\ \A i \in 1..Len(frames) : \E j \in DOMAIN idb.rows : frames[i] = idb.rows[j]
  BY InOrderType DEF Types, DiskTypes
<1> HIDE DEF frames
<1>4. /\ x.client = core[t].client /\ x.epoch = core[t].epoch /\ x.seq >= core[t].seq
      /\ \A f \in HeldIn(x.outbox) : \E i \in 1..Len(frames) : f = frames[i]
  <2> DEFINE c == core[t]
             rs == rows
  <2>1. c \in Core /\ frames \in Seq(RowFrame) /\ c.outbox = << >> /\ c.seq = 0
        /\ rs = [i \in 1..Len(frames) |-> [id |-> i, frame |-> frames[i]]]
    BY <1>2, <1>3
  <2> HIDE DEF c, rs
  <2>2. Restores(c, rs, frames)
    BY <2>1, RestoreHeld, Zenon
  <2>3. QED
    BY <2>2 DEF Restores, c, rs
<1> HIDE DEF x
<1>7. \A f \in HeldIn(x.outbox) : f.wire # None => f \in InPlay
  <2>1. \A f \in HeldIn(x.outbox) : f \in OnDisk
    BY <1>3, <1>4 DEF OnDisk
  <2>2. QED
    BY <2>1, InPlayHas
<1>8. InPlay' \subseteq InPlay
  <2> DEFINE N == InPlay
  <2>1. InPlay \subseteq N /\ \A f \in HeldIn(x.outbox) : f.wire # None => f \in N
    BY <1>7
  <2> HIDE DEF N
  <2>2. \A u \in Tabs : \A f \in HeldIn(core'[u].outbox) : f.wire # None => f \in N
    BY <1>1, <2>1, HeldStep
  <2>3. QED
    BY <1>1, <2>1, <2>2, StillInPlay, InPlayStep DEF N
<1>10. (\A u \in Tabs : TabKeeps(u)) /\ Browser
  BY <1>1, <1>4, LateKeeps DEF LateSteps
<1>11. QED
  BY <1>1, <1>8, <1>10 DEF Keeps

\* The rows on disk are those of the outbox.
LEMMA ReplaceRowsKeeps ==
    ASSUME Types, SocketsOK, EpochOK, NEW t \in Tabs, ReplaceRows(t)
    PROVE  Keeps
<1> DEFINE outbox == core[t].outbox
           r == RowsOf(outbox)
<1>1. /\ idb' = [idb EXCEPT !.rows = r] /\ phase' = [phase EXCEPT ![t] = "log"]
      /\ phase[t] = "replace" /\ UNCHANGED <<core, tasks, up, mark, issued, scenario>>
  BY DEF ReplaceRows, RowsOf, network, server, bounds, history
<1>2. core[t] \in Core /\ outbox \in Seq(Row) /\ core[t].seq \in Nat
  BY CoreFields DEF Types, ClientTypes
<1>3. \A id \in DOMAIN r : \E i \in DOMAIN outbox : r[id] = outbox[i].frame
  BY <1>2, RowsOfType
<1> HIDE DEF r
<1>4. idb'.rows = r /\ idb'.client = idb.client /\ idb'.epoch = idb.epoch
  BY <1>1 DEF Types, DiskTypes
<1>5. \A f \in OnDisk' : f.wire # None => f \in InPlay
  <2>1. OnDisk' \subseteq HeldIn(outbox)
    BY <1>3, <1>4 DEF OnDisk, HeldIn
  <2>2. QED
    BY <2>1, InPlayHas
<1>6. InPlay' \subseteq InPlay
  BY <1>1, <1>5, StillInPlay, InPlayStep
<1>7. core' = [core EXCEPT ![t] = core[t]] /\ core[t].seq >= core[t].seq
  BY <1>1, <1>2 DEF Types, ClientTypes
<1>8. (\A u \in Tabs : TabKeeps(u)) /\ Browser
  BY <1>1, <1>7, LateKeeps DEF LateSteps
<1>9. QED
  BY <1>1, <1>4, <1>6, <1>8 DEF Keeps

\* The log has nothing to do with them.
LEMMA ReplayLogKeeps ==
    ASSUME Types, SocketsOK, EpochOK, NEW t \in Tabs, ReplayLog(t)
    PROVE  Keeps
<1>1. /\ phase' = [phase EXCEPT ![t] = "ready"] /\ phase[t] = "log"
      /\ UNCHANGED <<core, tasks, up, mark, issued, scenario>>
  BY DEF ReplayLog, network, server, bounds, history
<1>2. idb' = idb \/ \E l : idb' = [idb EXCEPT !.wal = l]
  BY Zenon DEF ReplayLog
<1>3. idb'.rows = idb.rows /\ idb'.client = idb.client /\ idb'.epoch = idb.epoch
  BY <1>2 DEF Types, DiskTypes
<1>4. InPlay' \subseteq InPlay
  BY <1>1, <1>3, StillInPlay, InPlayStep
<1>5. core[t].seq \in Nat
  BY CoreFields DEF Types, ClientTypes
<1>6. core' = [core EXCEPT ![t] = core[t]] /\ core[t].seq >= core[t].seq
  BY <1>1, <1>5 DEF Types, ClientTypes
<1>7. (\A u \in Tabs : TabKeeps(u)) /\ Browser
  BY <1>1, <1>6, LateKeeps DEF LateSteps
<1>8. QED
  BY <1>1, <1>3, <1>4, <1>7 DEF Keeps

\* A tab ends, and what was not on disk is forgotten.
LEMMA CrashKeeps ==
    ASSUME Types, SocketsOK, EpochOK, NEW t \in Tabs, Crash(t)
    PROVE  Keeps
<1> DEFINE x == NewClient(None, FALSE)
<1>1. /\ core' = [core EXCEPT ![t] = x] /\ phase' = [phase EXCEPT ![t] = "closed"]
      /\ tasks' = [tasks EXCEPT ![t] = << >>]
      /\ UNCHANGED <<idb, up, mark, issued, scenario>>
  BY DEF Crash, server
<1>2. x.outbox = << >>
  BY DEF NewClient
<1> HIDE DEF x
<1>3. HeldIn(x.outbox) = {} /\ PutsIn(<< >>) = {}
  BY <1>2, PutsMade DEF HeldIn
<1>4. InPlay' \subseteq InPlay
  <2> DEFINE N == InPlay
  <2>1. InPlay \subseteq N
    OBVIOUS
  <2> HIDE DEF N
  <2>2. \A u \in Tabs : \A f \in HeldIn(core'[u].outbox) : f.wire # None => f \in N
    BY <1>1, <1>3, <2>1, HeldStep
  <2>3. \A u \in Tabs : \A f \in PutsIn(tasks'[u]) : f.wire # None => f \in N
    BY <1>1, <1>3, <2>1, PutsStep
  <2>4. QED
    BY <1>1, <2>1, <2>2, <2>3, StillInPlay, InPlayStep DEF N
<1>5. ASSUME NEW u \in Tabs PROVE TabKeeps(u)
  <2>1. core'[u] = (IF u = t THEN x ELSE core[u]) /\ phase'[u] = IF u = t THEN "closed" ELSE phase[u]
    BY <1>1 DEF Types, ClientTypes
  <2>2. core[u].seq \in Nat
    BY CoreFields DEF Types, ClientTypes
  <2>3. core[u].seq >= core[u].seq
    BY <2>2
  <2>4. QED
    BY <2>1, <2>3 DEF TabKeeps
<1>6. ~Browser => idb.rows = << >> /\ \A u \in Tabs : tasks'[u] = << >>
  <2>1. \A u \in Tabs : tasks'[u] = IF u = t THEN << >> ELSE tasks[u]
    BY <1>1 DEF Types, TaskTypes
  <2>2. QED
    BY <2>1 DEF EpochOK
<1>7. QED
  BY <1>1, <1>4, <1>5, <1>6 DEF Keeps

\* A socket opens: its commands are those of the session and of the outbox.
LEMMA ConnectKeeps ==
    ASSUME Types, SocketsOK, AlignInv, EpochOK, NEW t \in Tabs, Connect(t)
    PROVE  Keeps
<1> USE DEF Types
<1> DEFINE opened == OnOpen(core[t])
           again == channel[t]
           sub == SessionCommand("subscribe")
           last == IF again THEN <<sub>> ELSE << >>
           frames == opened.frames \o last
           x == SessionFrame(opened.core, again)
           c == core[t]
<1>1. /\ core' = [core EXCEPT ![t] = x] /\ up' = Append(up, frames)
      /\ UNCHANGED <<phase, tasks, idb, mark, issued, scenario>>
  BY DEF Connect, browser, server, bounds, history
<1>2. c \in Core /\ again \in BOOLEAN /\ c.outbox \in Seq(Row) /\ c.seq \in Nat
  BY CoreFields DEF ClientTypes
<1>3. /\ opened.core \in Core /\ opened.frames \in Seq(Frame)
      /\ opened.core.outbox = c.outbox /\ opened.core.seq = c.seq
      /\ opened.core.client = c.client /\ opened.core.epoch = c.epoch
  BY <1>2, OnOpenType
<1>4. \A i \in 1..Len(opened.frames) :
          \/ opened.frames[i] \in SessionFrameSet
          \/ \E j \in 1..Len(c.outbox) : opened.frames[i] = c.outbox[j].frame
  BY <1>2, OnOpenType
<1>5. sub \in SessionFrameSet /\ sub \in Frame /\ sub.wire = None
  BY SessionCommandType, FrameFacts
<1> HIDE DEF opened, again, sub
<1>6. x.outbox = c.outbox /\ x.seq = c.seq /\ x.client = c.client /\ x.epoch = c.epoch
  BY <1>2, <1>3, SessionFrameType
<1>7. frames \in Seq(Frame) /\ frames = IF again THEN Append(opened.frames, sub) ELSE opened.frames
  <2> DEFINE s == opened.frames
  <2>1. s \in Seq(Frame)
    BY <1>3
  <2> HIDE DEF s
  <2>2. CASE again
    <3>1. frames = s \o <<sub>>
      BY <2>2 DEF s
    <3>2. s \o <<sub>> = Append(s, sub) /\ Append(s, sub) \in Seq(Frame)
      BY ONLY <1>5, <2>1, ConcatEnds
    <3>3. QED
      BY <2>2, <3>1, <3>2 DEF s
  <2>3. CASE ~again
    <3>1. frames = s \o << >>
      BY <2>3 DEF s
    <3>2. s \o << >> = s
      BY ONLY <2>1, ConcatEnds
    <3>3. QED
      BY <2>1, <2>3, <3>1, <3>2 DEF s
  <2>4. QED
    BY <2>2, <2>3
<1> HIDE DEF x, frames
<1>8. \A f \in ToSet(frames) : f.wire # None => f \in InPlay
  <2>1. ToSet(frames) \subseteq ToSet(opened.frames) \cup {sub}
    BY <1>3, <1>5, <1>7, ElementsOf
  <2>2. ASSUME NEW f \in ToSet(opened.frames), f.wire # None PROVE f \in InPlay
    <3>1. PICK i \in 1..Len(opened.frames) : f = opened.frames[i]
      BY <1>3 DEF ToSet
    <3>2. f \notin SessionFrameSet
      BY <2>2, FrameFacts DEF Frame
    <3>3. PICK j \in 1..Len(c.outbox) : f = c.outbox[j].frame
      BY <1>4, <3>1, <3>2
    <3>4. f \in HeldIn(c.outbox)
      BY <1>2, <3>3 DEF HeldIn
    <3>5. QED
      BY <2>2, <3>4, InPlayHas DEF c
  <2>3. QED
    BY <1>5, <2>1, <2>2
<1>9. \A f \in HeldIn(x.outbox) : f.wire # None => f \in InPlay
  BY <1>6, InPlayHas
<1>10. InPlay' \subseteq InPlay
  <2> DEFINE N == InPlay
  <2>1. InPlay \subseteq N /\ \A f \in HeldIn(x.outbox) : f.wire # None => f \in N
    BY <1>9
  <2>2. \A n \in DOMAIN up' : \A f \in ToSet(up'[n]) : f.wire # None => f \in N
    <3>1. \A n \in DOMAIN up' : up'[n] = frames \/ (n \in DOMAIN up /\ up'[n] = up[n])
      BY <1>1, <1>7 DEF NetworkTypes
    <3>2. QED
      BY <1>8, <3>1, InPlayHas
  <2> HIDE DEF N
  <2>3. \A u \in Tabs : \A f \in HeldIn(core'[u].outbox) : f.wire # None => f \in N
    BY <1>1, <2>1, HeldStep
  <2>4. QED
    BY <1>1, <2>1, <2>2, <2>3, StillInPlay, InPlayStep DEF N
<1>11. x.seq >= c.seq
  BY <1>2, <1>6
<1>12. \A u \in Tabs : TabKeeps(u)
  BY <1>1, <1>6, <1>11, OneTabKeeps
<1>13. QED
  BY <1>1, <1>10, <1>12 DEF Keeps, EpochOK

\* The connection breaks: fewer commands arrive.
LEMMA CloseKeeps ==
    ASSUME Types, SocketsOK, EpochOK, NEW t \in Tabs, Close(t)
    PROVE  Keeps
<1> USE DEF Types
<1>1. Connected(t) /\ UNCHANGED <<core, phase, tasks, idb, mark, issued, scenario>>
  BY DEF Close, browser, server
<1>2. PICK arrive \in 0..Len(up[conn[t]]) :
         up' = [up EXCEPT ![conn[t]] = SubSeq(up[conn[t]], 1, arrive)]
  BY DEF Close
<1>3. conn[t] \in DOMAIN up /\ up[conn[t]] \in Seq(Frame)
  BY <1>1 DEF SocketsOK, NetworkTypes
<1> DEFINE x == SubSeq(up[conn[t]], 1, arrive)
<1>4. x \in Seq(Frame) /\ DOMAIN x \subseteq DOMAIN up[conn[t]] /\ \A i \in DOMAIN x : x[i] = up[conn[t]][i]
  BY <1>3
<1> HIDE DEF x
<1>5. \A f \in ToSet(x) : f.wire # None => f \in InPlay
  <2>1. ToSet(x) \subseteq ToSet(up[conn[t]])
    BY <1>4 DEF ToSet
  <2>2. QED
    BY <1>3, <2>1, InPlayHas
<1>6. InPlay' \subseteq InPlay
  <2> DEFINE N == InPlay
  <2>1. InPlay \subseteq N /\ (\A f \in ToSet(x) : f.wire # None => f \in N)
        /\ up' = [up EXCEPT ![conn[t]] = x]
    BY <1>2, <1>5 DEF x
  <2> HIDE DEF N
  <2>2. \A n \in DOMAIN up' : \A f \in ToSet(up'[n]) : f.wire # None => f \in N
    BY <1>4, <2>1, UpStep
  <2>3. QED
    BY <1>1, <2>1, <2>2, StillInPlay, InPlayStep DEF N
<1>7. \A u \in Tabs : core[u].seq \in Nat
  BY CoreFields DEF ClientTypes
<1>8. \A u \in Tabs : TabKeeps(u)
  BY <1>1, <1>7 DEF TabKeeps
<1>9. QED
  BY <1>1, <1>6, <1>8 DEF Keeps, EpochOK

\* A command of the session has no envelope.
LEMMA SessionKeeps ==
    ASSUME Types, SocketsOK, EpochOK, NEW t \in Tabs, NEW x \in Core, NEW f \in SessionFrameSet,
           core' = [core EXCEPT ![t] = x], up' = Send(t, f),
           UNCHANGED <<phase, tasks, idb, mark, issued, scenario>>,
           x.outbox = core[t].outbox, x.seq = core[t].seq, x.client = core[t].client,
           x.epoch = core[t].epoch
    PROVE  Keeps
<1>1. f \in Frame /\ f.wire = None
  BY FrameFacts DEF Frame
<1>2. \A g \in HeldIn(x.outbox) : g.wire # None => g \in InPlay
  BY InPlayHas
<1>3. InPlay' \subseteq InPlay
  <2> DEFINE N == InPlay
  <2>1. InPlay \subseteq N /\ \A g \in HeldIn(x.outbox) : g.wire # None => g \in N
    BY <1>2
  <2> HIDE DEF N
  <2>2. \A n \in DOMAIN up' : \A g \in ToSet(up'[n]) : g.wire # None => g \in N
    BY <1>1, <2>1, SendStep
  <2>3. \A u \in Tabs : \A g \in HeldIn(core'[u].outbox) : g.wire # None => g \in N
    BY <2>1, HeldStep
  <2>4. QED
    BY <2>1, <2>2, <2>3, StillInPlay, InPlayStep DEF N
<1>4. x.seq >= core[t].seq
  BY CoreFields
<1>5. \A u \in Tabs : TabKeeps(u)
  BY <1>4, OneTabKeeps
<1>6. QED
  BY <1>3, <1>5 DEF Keeps, EpochOK

\* Reads, live queries and the subscription of the embedded client.
LEMMA CommandKeeps ==
    ASSUME Types, SocketsOK, EpochOK, NEW t \in Tabs,
           Read(t) \/ Query(t) \/ Unquery(t) \/ EmbedSubscribe(t)
    PROVE  Keeps
<1>1. CASE Read(t) \/ Query(t) \/ Unquery(t)
  <2>1. PICK kind \in {"query", "read"}, x \in Core :
             /\ Command(t, kind, x)
             /\ x.outbox = core[t].outbox /\ x.seq = core[t].seq /\ x.client = core[t].client
             /\ x.epoch = core[t].epoch
    BY <1>1, CommandIs
  <2>2. /\ core' = [core EXCEPT ![t] = x] /\ up' = Send(t, SessionCommand(kind))
        /\ UNCHANGED <<phase, tasks, idb, mark, issued, scenario>>
    BY <2>1 DEF Command, browser, server, history
  <2>3. SessionCommand(kind) \in SessionFrameSet
    BY SessionCommandType
  <2>4. QED
    BY <2>1, <2>2, <2>3, SessionKeeps
<1>2. CASE EmbedSubscribe(t)
  <2> DEFINE x == SessionFrame(core[t], Connected(t))
  <2>1. /\ core' = [core EXCEPT ![t] = x] /\ up' = Send(t, SessionCommand("subscribe"))
        /\ UNCHANGED <<phase, tasks, idb, mark, issued, scenario>>
    BY <1>2 DEF EmbedSubscribe, browser, server
  <2>2. core[t] \in Core /\ Connected(t) \in BOOLEAN
    BY DEF Types, ClientTypes, Connected
  <2>3. /\ x \in Core /\ x.outbox = core[t].outbox /\ x.seq = core[t].seq
        /\ x.client = core[t].client /\ x.epoch = core[t].epoch
    BY <2>2, SessionFrameType
  <2> HIDE DEF x
  <2>4. SessionCommand("subscribe") \in SessionFrameSet
    BY SessionCommandType
  <2>5. QED
    BY <2>1, <2>3, <2>4, SessionKeeps
<1>3. QED
  BY <1>1, <1>2

\* SUBSCRIBE in the browser is a row without an envelope.
LEMMA BrowserSubscribeKeeps ==
    ASSUME Types, SocketsOK, AlignInv, EpochOK, NEW t \in Tabs, BrowserSubscribe(t)
    PROVE  Keeps
<1> USE DEF Types
<1> DEFINE e == EnqueueWrite(core[t], "subscribe", None, FALSE, Connected(t))
           c == core[t]
           s == tasks[t] \o StoreRow(e)
<1>1. /\ Browser /\ Ready(t) /\ core' = [core EXCEPT ![t] = e.core] /\ up' = Send(t, e.frame)
      /\ tasks' = [tasks EXCEPT ![t] = s] /\ UNCHANGED <<phase, idb, mark, issued, scenario>>
  BY DEF BrowserSubscribe, server
<1>2. c \in Core /\ c.client # None /\ c.seq \in Nat /\ Connected(t) \in BOOLEAN /\ RowsOK(c)
  BY <1>1, CoreFields DEF ClientTypes, Ready, Connected, AlignInv, Good
<1>3. Enqueues(c, e, None, None, Connected(t))
  BY <1>2, SubscribeEnqueues, Zenon
<1> HIDE DEF e
<1>4. /\ e.core \in Core /\ e.frame \in RowFrame /\ e.id = c.seq /\ e.core.seq = c.seq + 1
      /\ e.core.client = c.client /\ e.core.epoch = c.epoch /\ e.frame.wire = None
      /\ e.dropped = << >> \/ e.dropped = <<Head(c.outbox)>>
  BY <1>3 DEF Enqueues
<1> HIDE DEF c
<1>5. HeldIn(e.core.outbox) \subseteq HeldIn(c.outbox) \cup {e.frame}
  BY <1>2, <1>3, HeldEnqueued
<1>6. PutsIn(s) \subseteq PutsIn(tasks[t]) \cup {e.frame}
  <2>1. TasksOK(tasks[t]) /\ TasksOK(StoreRow(e)) /\ PutsIn(StoreRow(e)) \subseteq {e.frame}
    BY <1>2, <1>4, StoreRowType, RowPuts DEF TaskTypes
  <2>2. QED
    BY <2>1, PutsFacts
<1> HIDE DEF s
<1>7. InPlay' \subseteq InPlay
  <2> DEFINE N == InPlay
             x == e.core
             f == e.frame
  <2>1. /\ InPlay \subseteq N /\ core' = [core EXCEPT ![t] = x] /\ up' = Send(t, f)
        /\ f \in Frame /\ f.wire = None
        /\ \A g \in HeldIn(x.outbox) : g.wire # None => g \in N
        /\ \A g \in PutsIn(s) : g.wire # None => g \in N
    BY <1>1, <1>4, <1>5, <1>6, InPlayHas DEF Frame, c
  <2> HIDE DEF N, x, f
  <2>2. \A n \in DOMAIN up' : \A g \in ToSet(up'[n]) : g.wire # None => g \in N
    BY <2>1, SendStep
  <2>3. \A u \in Tabs : \A g \in HeldIn(core'[u].outbox) : g.wire # None => g \in N
    BY <2>1, HeldStep
  <2>4. \A u \in Tabs : \A g \in PutsIn(tasks'[u]) : g.wire # None => g \in N
    BY <1>1, <2>1, PutsStep
  <2>5. QED
    BY <1>1, <2>1, <2>2, <2>3, <2>4, StillInPlay, InPlayStep DEF N
<1>8. \A u \in Tabs : TabKeeps(u)
  <2> DEFINE x == e.core
  <2>1. /\ core' = [core EXCEPT ![t] = x] /\ x.client = core[t].client /\ x.epoch = core[t].epoch
        /\ x.seq >= core[t].seq
    BY <1>1, <1>2, <1>4 DEF c
  <2> HIDE DEF x
  <2>2. QED
    BY <1>1, <2>1, OneTabKeeps
<1>9. QED
  BY <1>1, <1>7, <1>8 DEF Keeps

\* A transaction that puts no row is asked for.
LEMMA NoPut ==
    ASSUME Types, NEW t \in Tabs, NEW a, TasksOK(<<a>>), PutsIn(<<a>>) = {},
           tasks' = [tasks EXCEPT ![t] = Append(tasks[t], a)], NEW N, InPlay \subseteq N
    PROVE  \A u \in Tabs : \A g \in PutsIn(tasks'[u]) : g.wire # None => g \in N
<1> DEFINE s == Append(tasks[t], a)
<1>1. TasksOK(tasks[t])
  BY DEF Types, TaskTypes
<1>2. s = tasks[t] \o <<a>>
  BY <1>1 DEF TasksOK
<1>3. PutsIn(s) = PutsIn(tasks[t])
  <2> DEFINE first == tasks[t]
             last == <<a>>
  <2>1. TasksOK(first) /\ TasksOK(last)
    BY <1>1
  <2> HIDE DEF first, last
  <2>2. PutsIn(first \o last) = PutsIn(first) \cup PutsIn(last)
    BY ONLY <2>1, PutsFacts, Zenon
  <2>3. QED
    BY <1>2, <2>2 DEF first, last
<1>4. \A g \in PutsIn(s) : g.wire # None => g \in N
  BY <1>3, InPlayHas
<1> HIDE DEF s
<1>5. tasks' = [tasks EXCEPT ![t] = s]
  BY DEF s
<1>6. QED
  BY <1>4, <1>5, PutsStep

\* Sign-out.
LEMMA ClearKeeps ==
    ASSUME Types, SocketsOK, EpochOK, NEW t \in Tabs, Clear(t)
    PROVE  Keeps
<1> USE DEF Types
<1> DEFINE x == ClearOutbox(core[t])
<1>1. /\ Browser /\ core' = [core EXCEPT ![t] = x]
      /\ tasks' = [tasks EXCEPT ![t] = Append(tasks[t], ClearAll)]
      /\ UNCHANGED <<phase, idb, up, mark, issued, scenario>>
  BY DEF Clear, network, server
<1>2. core[t] \in Core /\ core[t].seq \in Nat
  BY CoreFields DEF ClientTypes
<1>3. x.outbox = << >> /\ x.seq = core[t].seq /\ x.client = core[t].client /\ x.epoch = core[t].epoch
  BY <1>2, ClearType
<1> HIDE DEF x
<1>4. InPlay' \subseteq InPlay
  <2> DEFINE N == InPlay
             a == ClearAll
  <2>1. InPlay \subseteq N /\ TasksOK(<<a>>) /\ PutsIn(<<a>>) = {} /\ HeldIn(x.outbox) = {}
        /\ tasks' = [tasks EXCEPT ![t] = Append(tasks[t], a)]
    BY <1>1, <1>3, TaskMade, PutsMade DEF HeldIn
  <2> HIDE DEF N, a
  <2>2. \A u \in Tabs : \A g \in PutsIn(tasks'[u]) : g.wire # None => g \in N
    BY <2>1, NoPut
  <2>3. \A u \in Tabs : \A g \in HeldIn(core'[u].outbox) : g.wire # None => g \in N
    BY <1>1, <2>1, HeldStep
  <2>4. QED
    BY <1>1, <2>1, <2>2, <2>3, StillInPlay, InPlayStep DEF N
<1>5. x.seq >= core[t].seq
  BY <1>2, <1>3
<1>6. \A u \in Tabs : TabKeeps(u)
  BY <1>1, <1>3, <1>5, OneTabKeeps
<1>7. QED
  BY <1>1, <1>4, <1>6 DEF Keeps

\* A client reads a frame.
LEMMA ReceiveKeeps ==
    ASSUME Types, SocketsOK, AlignInv, EpochOK, NEW t \in Tabs, Receive(t)
    PROVE  Keeps
<1> USE DEF Types
<1> DEFINE n == conn[t]
           m == Head(down[n])
           ack == AckReply(core[t])
           x == ack.core
<1>1. Connected(t) /\ down[n] # << >> /\ UNCHANGED <<phase, idb, up, mark, issued, scenario>>
  BY DEF Receive, server, bounds
<1>2. m.kind \in {"reply", "huge", "push"}
  <2>1. n \in DOMAIN down /\ down[n] \in Seq(Message)
    BY <1>1 DEF SocketsOK, NetworkTypes
  <2>2. m \in Message
    BY <1>1, <2>1
  <2>3. QED
    BY <2>2, MessageFacts
<1>3. core[t] \in Core /\ core[t].seq \in Nat /\ RowsOK(core[t])
  BY CoreFields DEF ClientTypes, AlignInv, Good
<1>4. \A u \in Tabs : core[u].seq \in Nat
  BY CoreFields DEF ClientTypes
<1>5. CASE m.kind # "reply"
  <2>1. UNCHANGED <<core, tasks>>
    BY <1>2, <1>5 DEF Receive
  <2>2. InPlay' \subseteq InPlay
    BY <1>1, <2>1, StillInPlay, InPlayStep
  <2>3. \A u \in Tabs : TabKeeps(u)
    BY <1>1, <1>4, <2>1 DEF TabKeeps
  <2>4. QED
    BY <1>1, <2>1, <2>2, <2>3 DEF Keeps, EpochOK
<1>6. CASE m.kind = "reply"
  <2>1. core' = [core EXCEPT ![t] = x] /\ Retired(t, ack.retired)
    BY <1>6 DEF Receive
  <2>2. /\ ToSet(x.outbox) \subseteq ToSet(core[t].outbox) /\ x.seq = core[t].seq
        /\ x.client = core[t].client /\ x.epoch = core[t].epoch
    <3>1. CASE core[t].inflight = << >>
      <4>1. x = core[t]
        BY <3>1, AckNothing
      <4> HIDE DEF x
      <4>2. QED
        BY <4>1
    <3>2. CASE core[t].inflight # << >>
      BY <1>3, <3>2, AckType, RowsAck
    <3>3. QED
      BY <3>1, <3>2
  <2> HIDE DEF x
  <2>3. HeldIn(x.outbox) \subseteq HeldIn(core[t].outbox)
    <3> DEFINE a == x.outbox
               b == core[t].outbox
    <3>1. ToSet(a) \subseteq ToSet(b)
      BY <2>2
    <3> HIDE DEF a, b
    <3>2. HeldIn(a) \subseteq HeldIn(b)
      BY <3>1, HeldFacts
    <3>3. QED
      BY <3>2 DEF a, b
  <2>4. InPlay' \subseteq InPlay
    <3> DEFINE N == InPlay
               a == DeleteRow(ack.retired)
    <3>1. InPlay \subseteq N /\ (\A g \in HeldIn(x.outbox) : g.wire # None => g \in N)
          /\ TasksOK(<<a>>) /\ PutsIn(<<a>>) = {}
      BY <2>3, InPlayHas, TaskMade, PutsMade
    <3>2. tasks' = tasks \/ tasks' = [tasks EXCEPT ![t] = Append(tasks[t], a)]
      BY <2>1 DEF Retired
    <3> HIDE DEF N, a
    <3>3. \A u \in Tabs : \A g \in PutsIn(tasks'[u]) : g.wire # None => g \in N
      BY <3>1, <3>2, NoPut, StillInPlay
    <3>4. \A u \in Tabs : \A g \in HeldIn(core'[u].outbox) : g.wire # None => g \in N
      BY <2>1, <3>1, HeldStep
    <3>5. QED
      BY <1>1, <3>1, <3>3, <3>4, StillInPlay, InPlayStep DEF N
  <2>5. x.seq >= core[t].seq
    BY <1>3, <2>2
  <2>6. \A u \in Tabs : TabKeeps(u)
    BY <1>1, <2>1, <2>2, <2>5, OneTabKeeps
  <2>7. ~Browser => tasks' = tasks
    BY <2>1 DEF Retired
  <2>8. QED
    BY <1>1, <2>4, <2>6, <2>7 DEF Keeps, EpochOK
<1>7. QED
  BY <1>5, <1>6

\* What a transaction makes of the rows on disk.
LEMMA CommitRows ==
    ASSUME Types, NEW t \in Tabs, Commit(t)
    PROVE  LET task == Head(tasks[t])
           IN  /\ tasks[t] # << >> /\ tasks' = [tasks EXCEPT ![t] = Tail(tasks[t])]
               /\ UNCHANGED <<core, phase, conn, up, down, mark, scenario>>
               /\ UNCHANGED <<waiters, auth, subscribed, issued, fate, told, skewed>>
               /\ TasksOK(tasks[t]) /\ idb'.client = idb.client /\ idb'.epoch = idb.epoch
               /\ PutsIn(Tail(tasks[t])) \subseteq PutsIn(tasks[t])
               /\ task.kind = "put" => task.frame \in PutsIn(tasks[t])
               /\ \A i \in DOMAIN idb'.rows :
                    \/ i \in DOMAIN idb.rows /\ idb'.rows[i] = idb.rows[i]
                    \/ task.kind = "put" /\ i = task.id /\ idb'.rows[i] = task.frame
<1> USE DEF Types
<1> DEFINE task == Head(tasks[t])
           s == Tail(tasks[t])
<1>1. /\ tasks[t] # << >> /\ tasks' = [tasks EXCEPT ![t] = s]
      /\ UNCHANGED <<core, phase, conn, up, down, mark, scenario>>
      /\ UNCHANGED <<waiters, auth, subscribed, issued, fate, told, skewed>>
  BY DEF Commit, client, network, server, bounds, history
<1>2. TasksOK(tasks[t])
  BY DEF TaskTypes
<1>3. PutsIn(s) \subseteq PutsIn(tasks[t]) /\ (task.kind = "put" => task.frame \in PutsIn(tasks[t]))
  BY <1>1, <1>2, PutsFacts
<1>4. task.kind \in {"put", "delete", "append", "clear"}
  <2>1. tasks[t] \in Seq(ToSet(tasks[t])) /\ tasks[t] # << >>
    BY <1>1, <1>2 DEF TasksOK
  <2>2. 1 \in DOMAIN tasks[t] /\ Head(tasks[t]) = tasks[t][1]
    BY <2>1
  <2>3. QED
    BY <1>2, <2>2 DEF TasksOK, TaskOK
<1>5. idb'.client = idb.client /\ idb'.epoch = idb.epoch
      /\ \A i \in DOMAIN idb'.rows : \/ i \in DOMAIN idb.rows /\ idb'.rows[i] = idb.rows[i]
                                     \/ task.kind = "put" /\ i = task.id /\ idb'.rows[i] = task.frame
  <2>1. CASE task.kind = "put"
    <3> DEFINE r == With(idb.rows, task.id, task.frame)
    <3>1. idb' = [idb EXCEPT !.rows = r]
      BY <2>1 DEF Commit
    <3>2. r = [y \in DOMAIN idb.rows \cup {task.id} |->
                 IF y = task.id THEN task.frame ELSE idb.rows[y]]
      BY DEF With
    <3> HIDE DEF r, task
    <3>3. idb'.client = idb.client /\ idb'.epoch = idb.epoch /\ idb'.rows = r
      BY <3>1 DEF DiskTypes
    <3>4. QED
      BY <2>1, <3>2, <3>3
  <2>2. CASE task.kind = "delete"
    <3> DEFINE r == Without(idb.rows, task.id)
    <3>1. idb' = [idb EXCEPT !.rows = r]
      BY <2>2 DEF Commit
    <3>2. r = [y \in DOMAIN idb.rows \ {task.id} |-> idb.rows[y]]
      BY DEF Without
    <3> HIDE DEF r, task
    <3>3. idb'.client = idb.client /\ idb'.epoch = idb.epoch /\ idb'.rows = r
      BY <3>1 DEF DiskTypes
    <3>4. QED
      BY <3>2, <3>3
  <2>3. CASE task.kind = "append"
    <3>1. PICK l : idb' = [idb EXCEPT !.wal = l]
      BY <2>3, Zenon DEF Commit
    <3> HIDE DEF task
    <3>2. idb'.client = idb.client /\ idb'.epoch = idb.epoch /\ idb'.rows = idb.rows
      BY <3>1 DEF DiskTypes
    <3>3. QED
      BY <3>2
  <2>4. CASE task.kind = "clear"
    <3>1. idb' = [idb EXCEPT !.rows = << >>, !.wal = << >>]
      BY <2>4 DEF Commit
    <3> HIDE DEF task
    <3>2. idb'.client = idb.client /\ idb'.epoch = idb.epoch /\ idb'.rows = << >>
      BY <3>1 DEF DiskTypes
    <3>3. QED
      BY <3>2
  <2>5. QED
    BY <1>4, <2>1, <2>2, <2>3, <2>4
<1> HIDE DEF task, s
<1>6. QED
  BY <1>1, <1>2, <1>3, <1>5 DEF task, s

\* A transaction commits.
LEMMA CommitKeeps ==
    ASSUME Types, SocketsOK, EpochOK, NEW t \in Tabs, Commit(t)
    PROVE  Keeps
<1> USE DEF Types
<1> DEFINE task == Head(tasks[t])
           s == Tail(tasks[t])
<1>1. /\ tasks[t] # << >> /\ tasks' = [tasks EXCEPT ![t] = s]
      /\ UNCHANGED <<core, phase, up, mark, issued, scenario>>
  BY CommitRows
<1>3. PutsIn(s) \subseteq PutsIn(tasks[t]) /\ (task.kind = "put" => task.frame \in PutsIn(tasks[t]))
  BY CommitRows
<1>5. idb'.client = idb.client /\ idb'.epoch = idb.epoch
      /\ \A i \in DOMAIN idb'.rows : \/ i \in DOMAIN idb.rows /\ idb'.rows[i] = idb.rows[i]
                                     \/ task.kind = "put" /\ idb'.rows[i] = task.frame
  BY CommitRows
<1> HIDE DEF task, s
<1>6. InPlay' \subseteq InPlay
  <2> DEFINE N == InPlay
  <2>1. InPlay \subseteq N /\ \A g \in PutsIn(s) : g.wire # None => g \in N
    BY <1>3, InPlayHas
  <2>2. \A f \in OnDisk' : f.wire # None => f \in N
    <3>1. \A f \in OnDisk' : f \in OnDisk \/ f \in PutsIn(tasks[t])
      BY <1>3, <1>5 DEF OnDisk
    <3>2. QED
      BY <3>1, InPlayHas
  <2> HIDE DEF N
  <2>3. \A u \in Tabs : \A g \in PutsIn(tasks'[u]) : g.wire # None => g \in N
    BY <1>1, <2>1, PutsStep
  <2>4. QED
    BY <1>1, <2>1, <2>2, <2>3, StillInPlay, InPlayStep DEF N
<1>7. \A u \in Tabs : core[u].seq \in Nat
  BY CoreFields DEF ClientTypes
<1>8. \A u \in Tabs : TabKeeps(u)
  BY <1>1, <1>7 DEF TabKeeps
<1>9. Browser
  BY <1>1 DEF EpochOK
<1>10. QED
  BY <1>1, <1>5, <1>6, <1>8, <1>9 DEF Keeps

\* The other steps of the network.
LEMMA QuietKeeps ==
    ASSUME Types, EpochOK, (\E n \in DOMAIN up : Push(n) \/ Overgrow(n)) \/ Refuse \/ Tick \/ UNCHANGED vars
    PROVE  Keeps /\ UNCHANGED <<mark, applied>>
<1>1. UNCHANGED <<core, phase, idb, tasks, up, mark, applied, issued, scenario>>
  BY DEF Push, Overgrow, Refuse, Tick, vars, client, browser, network, server, bounds, history
<1>2. InPlay' \subseteq InPlay
  BY <1>1, StillInPlay, InPlayStep
<1>3. \A u \in Tabs : core[u].seq \in Nat
  BY CoreFields DEF Types, ClientTypes
<1>4. \A u \in Tabs : TabKeeps(u)
  BY <1>1, <1>3 DEF TabKeeps
<1>5. QED
  BY <1>1, <1>2, <1>4 DEF Keeps, EpochOK

\* The server answers a command: it is no longer in play there.
LEMMA ServeKeeps ==
    ASSUME Types, SocketsOK, EpochOK, NEW n \in DOMAIN up, Serve(n)
    PROVE  Keeps
<1> USE DEF Types
<1> DEFINE x == Tail(up[n])
           f == Head(up[n])
<1>1. /\ up[n] # << >> /\ up' = [up EXCEPT ![n] = x]
      /\ UNCHANGED <<core, phase, tasks, idb, issued, scenario>>
      /\ mark' = mark \/ mark' = [mark EXCEPT ![f.client] = f.wire]
  BY DEF Serve, client, browser, bounds
<1>2. up[n] \in Seq(Frame)
  BY DEF NetworkTypes
<1>3. x \in Seq(Frame) /\ ToSet(x) \subseteq ToSet(up[n])
  BY <1>1, <1>2, ElementsOf
<1> HIDE DEF x, f
<1>4. InPlay' \subseteq InPlay
  <2> DEFINE N == InPlay
  <2>1. InPlay \subseteq N /\ \A g \in ToSet(x) : g.wire # None => g \in N
    BY <1>3, InPlayHas
  <2> HIDE DEF N
  <2>2. \A i \in DOMAIN up' : \A g \in ToSet(up'[i]) : g.wire # None => g \in N
    BY <1>1, <1>3, <2>1, UpStep
  <2>3. QED
    BY <1>1, <2>1, <2>2, StillInPlay, InPlayStep DEF N
<1>5. \A u \in Tabs : core[u].seq \in Nat
  BY CoreFields DEF ClientTypes
<1>6. \A u \in Tabs : TabKeeps(u)
  BY <1>1, <1>5 DEF TabKeeps
<1>7. DOMAIN mark \subseteq DOMAIN mark'
  BY <1>1
<1>8. QED
  BY <1>1, <1>4, <1>6, <1>7 DEF Keeps, EpochOK

-----------------------------------------------------------------------------
(* The order of the writes survives steps that put nothing in play *)

\* No write is put in play and none is executed; new clients have fresh marks.
LEMMA OrderSame ==
    ASSUME Types, OrderOK, AppliedInOrder, InPlay' \subseteq InPlay, UNCHANGED <<issued, applied>>,
           DOMAIN mark \subseteq DOMAIN mark', \A c \in DOMAIN mark : mark'[c] = mark[c]
    PROVE  OrderOK' /\ AppliedInOrder'
<1> DEFINE N == InPlay'
<1>1. \A f \in N : /\ f \in InPlay /\ f.write \in DOMAIN issued /\ issued[f.write].client = f.client
                   /\ f.client \in DOMAIN mark /\ mark'[f.client] = mark[f.client]
  BY DEF OrderOK
<1>2. \A f, g \in N : f.client = g.client /\ f.wire < g.wire => f.write < g.write
  BY <1>1 DEF OrderOK
<1>3. \A i \in DOMAIN applied :
         /\ applied[i] \in DOMAIN issued
         /\ \A f \in N : f.client = issued[applied[i]].client /\ f.wire > mark'[f.client] =>
              applied[i] < f.write
  BY <1>1 DEF OrderOK
<1>4. AppliedInOrder'
  BY DEF AppliedInOrder
<1> HIDE DEF N
<1>5. OrderOK'
  <2>1. OrderOK' = /\ \A f \in N : /\ f.write \in DOMAIN issued' /\ issued'[f.write].client = f.client
                                   /\ f.client \in DOMAIN mark'
                   /\ \A f, g \in N : f.client = g.client /\ f.wire < g.wire => f.write < g.write
                   /\ \A i \in DOMAIN applied' :
                        /\ applied'[i] \in DOMAIN issued'
                        /\ \A f \in N : f.client = issued'[applied'[i]].client /\ f.wire > mark'[f.client] =>
                             applied'[i] < f.write
    BY DEF OrderOK, N
  <2>2. QED
    BY <1>1, <1>2, <1>3, <2>1
<1>6. QED
  BY <1>4, <1>5

\* What a tab that stays open keeps.
LEMMA TabKept ==
    ASSUME EpochOK, NEW u \in Tabs, TabKeeps(u), phase'[u] # "closed"
    PROVE  /\ phase[u] # "closed" /\ (Begun(u)' => Begun(u))
           /\ phase'[u] = "bump" => phase[u] = "bump"
           /\ phase'[u] \notin {"closed", "identity"} => phase[u] \notin {"closed", "identity"}
           /\ ~Browser => phase'[u] = phase[u]
           /\ core'[u].client = core[u].client /\ core'[u].epoch = core[u].epoch
           /\ core'[u].seq >= core[u].seq
BY DEF TabKeeps, LateSteps, Begun

\* The next wire id stays above those in play.
LEMMA EpochKeeps ==
    ASSUME Types, Types', EpochOK, Keeps
    PROVE  EpochOK'
<1>1. /\ Browser' = Browser /\ InPlay' \subseteq InPlay /\ DOMAIN mark \subseteq DOMAIN mark'
      /\ idb'.client = idb.client /\ idb'.epoch = idb.epoch
      /\ ~Browser => idb'.rows = << >> /\ \A u \in Tabs : tasks'[u] = << >>
  BY DEF Keeps, Browser, Setup
<1>2. ASSUME NEW u \in Tabs, phase'[u] # "closed"
      PROVE  /\ phase[u] # "closed" /\ (Begun(u)' => Begun(u))
             /\ phase'[u] = "bump" => phase[u] = "bump"
             /\ phase'[u] \notin {"closed", "identity"} => phase[u] \notin {"closed", "identity"}
             /\ ~Browser => phase'[u] = phase[u]
             /\ core'[u].client = core[u].client /\ core'[u].epoch = core[u].epoch
             /\ core'[u].seq >= core[u].seq
  <2>1. TabKeeps(u)
    BY DEF Keeps
  <2>2. QED
    BY <1>2, <2>1, TabKept
<1>3. ASSUME Browser
      PROVE  /\ \A f \in InPlay' : f.client = idb'.client /\ f.wire < (idb'.epoch + 1) * IdRange
             /\ \A t \in Tabs : /\ phase'[t] = "bump" => core'[t].epoch = idb'.epoch + 1
                                /\ Begun(t)' => core'[t].epoch = idb'.epoch
                                /\ phase'[t] \notin {"closed", "identity"} => core'[t].client = idb'.client
  <2>1. \A f \in InPlay' : f.client = idb'.client /\ f.wire < (idb'.epoch + 1) * IdRange
    BY <1>1, <1>3 DEF EpochOK
  <2>2. ASSUME NEW t \in Tabs
        PROVE  /\ phase'[t] = "bump" => core'[t].epoch = idb'.epoch + 1
               /\ Begun(t)' => core'[t].epoch = idb'.epoch
               /\ phase'[t] \notin {"closed", "identity"} => core'[t].client = idb'.client
    <3>1. /\ phase[t] = "bump" => core[t].epoch = idb.epoch + 1
          /\ Begun(t) => core[t].epoch = idb.epoch
          /\ phase[t] \notin {"closed", "identity"} => core[t].client = idb.client
      BY <1>3 DEF EpochOK
    <3>2. Begun(t)' => phase'[t] # "closed"
      BY DEF Begun
    <3>3. QED
      BY <1>1, <1>2, <3>1, <3>2
  <2>3. QED
    BY <2>1, <2>2
<1>4. ASSUME ~Browser
      PROVE  /\ \A t \in Tabs : phase'[t] \in {"closed", "ready"} /\ tasks'[t] = << >>
             /\ \A t, u \in Tabs : core'[t].client = core'[u].client /\ Ready(t)' /\ Ready(u)' => t = u
             /\ idb'.rows = << >>
  <2>1. \A t \in Tabs : phase'[t] \in {"closed", "ready"}
    BY <1>2, <1>4 DEF EpochOK
  <2>2. \A t \in Tabs : Ready(t)' => Ready(t) /\ core'[t].client = core[t].client
    BY <1>2, <1>4 DEF Ready
  <2>3. \A t, u \in Tabs : core'[t].client = core'[u].client /\ Ready(t)' /\ Ready(u)' => t = u
    BY <1>4, <2>2 DEF EpochOK
  <2>4. QED
    BY <1>1, <1>4, <2>1, <2>3
<1>5. idb'.client # None => idb'.client \in DOMAIN mark'
  BY <1>1 DEF EpochOK
<1>6. ASSUME NEW t \in Tabs
      PROVE  /\ phase'[t] # "closed" => core'[t].client \in DOMAIN mark'
             /\ Begun(t)' => \A f \in InPlay' : f.client = core'[t].client =>
                               f.wire < core'[t].epoch * IdRange + core'[t].seq
  <2>1. phase'[t] # "closed" => core'[t].client \in DOMAIN mark'
    BY <1>1, <1>2 DEF EpochOK
  <2>2. ASSUME Begun(t)', NEW f \in InPlay', f.client = core'[t].client
        PROVE  f.wire < core'[t].epoch * IdRange + core'[t].seq
    <3> DEFINE base == core[t].epoch * IdRange
    <3>1. phase'[t] # "closed"
      BY <2>2 DEF Begun
    <3>2. f.wire < base + core[t].seq
      BY <1>1, <1>2, <2>2, <3>1 DEF EpochOK
    <3>3. base = core'[t].epoch * IdRange
      BY <1>2, <3>1
    <3>4. base \in Nat /\ core[t].seq \in Nat /\ core'[t].seq \in Nat /\ f.wire \in Nat
      <4>1. core[t] \in Core /\ core'[t] \in Core /\ IdRange \in Nat
        BY SyncClientAssumption DEF Types, ClientTypes
      <4>2. core[t].epoch \in Nat /\ core[t].seq \in Nat /\ core'[t].seq \in Nat
        BY <4>1, CoreFields
      <4>3. f \in InPlay
        BY <1>1, <2>2
      <4>4. f.wire \in Nat
        BY <4>3, InPlayType
      <4>5. QED
        BY <4>1, <4>2, <4>4
    <3> HIDE DEF base
    <3>5. QED
      BY <1>2, <3>1, <3>2, <3>3, <3>4
  <2>3. QED
    BY <2>1, <2>2
<1>7. QED
  BY <1>1, <1>3, <1>4, <1>5, <1>6 DEF EpochOK

-----------------------------------------------------------------------------
(* A client starts *)

\* The client of one tab changes and keeps its rows: nothing is put in play.
LEMMA NothingNew ==
    ASSUME Types, NEW t \in Tabs, NEW x, core' = [core EXCEPT ![t] = x],
           x.outbox = core[t].outbox \/ x.outbox = << >>, UNCHANGED <<tasks, up>>, idb'.rows = idb.rows
    PROVE  InPlay' \subseteq InPlay
<1> DEFINE N == InPlay
<1>1. InPlay \subseteq N /\ \A f \in HeldIn(x.outbox) : f.wire # None => f \in N
  BY InPlayHas DEF HeldIn
<1> HIDE DEF N
<1>2. \A u \in Tabs : \A f \in HeldIn(core'[u].outbox) : f.wire # None => f \in N
  BY <1>1, HeldStep
<1>3. QED
  BY <1>1, <1>2, StillInPlay, InPlayStep DEF N

\* A client with a fresh identity: no write in play is its own.
LEMMA OpenOrder ==
    ASSUME Types, OrderInv, NEW t \in Tabs,
           (Opened(t, "identity") /\ Browser) \/ (Opened(t, "ready") /\ ~Browser)
    PROVE  OrderInv'
<1> DEFINE x == NewClient(FreshClient, Setup.password)
           p == IF Browser THEN "identity" ELSE "ready"
           m == Len(mark) + 1
<1>1. /\ phase[t] = "closed" /\ core' = [core EXCEPT ![t] = x] /\ mark' = Append(mark, None)
      /\ phase' = [phase EXCEPT ![t] = p]
      /\ UNCHANGED <<tasks, idb, up, issued, applied, scenario>>
  BY DEF Opened, browser, network, bounds, history
<1>2. x.client = m /\ x.outbox = << >> /\ x.seq = 0 /\ x.epoch = 0
  BY DEF NewClient, FreshClient
<1> HIDE DEF x
<1>3. /\ DOMAIN mark' = 1..m /\ DOMAIN mark = 1..(m - 1) /\ m \in Nat /\ m - 1 \in Nat
      /\ \A c \in DOMAIN mark : mark'[c] = mark[c]
  BY <1>1 DEF Types, ServerTypes
<1> HIDE DEF m
<1>4. DOMAIN mark \subseteq DOMAIN mark' /\ m \in DOMAIN mark' /\ m \notin DOMAIN mark
  BY <1>3
<1>5. InPlay' \subseteq InPlay
  BY <1>1, <1>2, NothingNew
<1>6. OrderOK' /\ AppliedInOrder'
  BY <1>1, <1>3, <1>4, <1>5, OrderSame DEF OrderInv
<1>7. \A u \in Tabs : /\ core'[u] = IF u = t THEN x ELSE core[u]
                      /\ phase'[u] = IF u = t THEN p ELSE phase[u]
  BY <1>1 DEF Types, ClientTypes
<1>8. Browser' = Browser /\ \A f \in InPlay' : f \in InPlay /\ f.client \in DOMAIN mark
  BY <1>1, <1>5 DEF Browser, Setup, OrderInv, OrderOK
<1>9. EpochOK
  BY DEF OrderInv
<1>10. ASSUME Browser
       PROVE  /\ \A f \in InPlay' : f.client = idb'.client /\ f.wire < (idb'.epoch + 1) * IdRange
              /\ \A u \in Tabs : /\ phase'[u] = "bump" => core'[u].epoch = idb'.epoch + 1
                                 /\ Begun(u)' => core'[u].epoch = idb'.epoch
                                 /\ phase'[u] \notin {"closed", "identity"} => core'[u].client = idb'.client
  <2>1. \A f \in InPlay' : f.client = idb'.client /\ f.wire < (idb'.epoch + 1) * IdRange
    BY <1>1, <1>8, <1>9, <1>10 DEF EpochOK
  <2>2. p = "identity"
    BY <1>10
  <2>3. QED
    BY <1>1, <1>7, <1>9, <1>10, <2>1, <2>2 DEF EpochOK, Begun
<1>11. ASSUME ~Browser
       PROVE  /\ \A u \in Tabs : phase'[u] \in {"closed", "ready"} /\ tasks'[u] = << >>
              /\ \A u, v \in Tabs : core'[u].client = core'[v].client /\ Ready(u)' /\ Ready(v)' => u = v
              /\ idb'.rows = << >>
  <2>1. p = "ready"
    BY <1>11
  <2>2. \A u \in Tabs : u # t /\ Ready(u) => core[u].client # m
    BY <1>4, <1>9 DEF EpochOK, Ready
  <2>3. \A u, v \in Tabs : core'[u].client = core'[v].client /\ Ready(u)' /\ Ready(v)' => u = v
    BY <1>2, <1>7, <1>9, <1>11, <2>2 DEF EpochOK, Ready
  <2>4. QED
    BY <1>1, <1>7, <1>9, <1>11, <2>1, <2>3 DEF EpochOK
<1>12. idb'.client # None => idb'.client \in DOMAIN mark'
  BY <1>1, <1>4, <1>9 DEF EpochOK
<1>13. ASSUME NEW u \in Tabs
       PROVE  /\ phase'[u] # "closed" => core'[u].client \in DOMAIN mark'
              /\ Begun(u)' => \A f \in InPlay' : f.client = core'[u].client =>
                                f.wire < core'[u].epoch * IdRange + core'[u].seq
  <2>1. CASE u = t
    <3>1. core'[u].client = m
      BY <1>2, <1>7, <2>1
    <3>2. \A f \in InPlay' : f.client # core'[u].client
      BY <1>4, <1>8, <3>1
    <3>3. QED
      BY <1>4, <3>1, <3>2
  <2>2. CASE u # t
    <3>1. core'[u] = core[u] /\ phase'[u] = phase[u]
      BY <1>7, <2>2
    <3>2. Begun(u)' = Begun(u)
      BY <3>1 DEF Begun
    <3>3. QED
      BY <1>4, <1>8, <1>9, <3>1, <3>2 DEF EpochOK
  <2>3. QED
    BY <2>1, <2>2
<1>14. EpochOK'
  BY <1>8, <1>10, <1>11, <1>12, <1>13 DEF EpochOK
<1>15. QED
  BY <1>6, <1>14 DEF OrderInv

\* The only tab of an origin takes a step of its start that reaches neither its rows nor its
\* writes: what is left to show is about this tab.
LEMMA OnlyTabOrder ==
    ASSUME Types, OrderInv, NEW t \in Tabs, Browser, \A u \in Tabs : u = t,
           InPlay' \subseteq InPlay, UNCHANGED <<mark, applied, issued, scenario>>,
           \A f \in InPlay' : f.client = idb'.client /\ f.wire < (idb'.epoch + 1) * IdRange,
           phase'[t] = "bump" => core'[t].epoch = idb'.epoch + 1,
           phase'[t] \in {"epoch", "bump", "outbox"}, core'[t].client = idb'.client,
           idb'.client \in DOMAIN mark,
           phase'[t] = "outbox" =>
             /\ core'[t].epoch = idb'.epoch
             /\ \A f \in InPlay' : f.wire < core'[t].epoch * IdRange + core'[t].seq
    PROVE  OrderInv'
<1>1. OrderOK' /\ AppliedInOrder'
  BY OrderSame DEF OrderInv
<1>2. Browser'
  BY DEF Browser, Setup
<1>3. \A u \in Tabs : Begun(u)' => phase'[t] = "outbox"
  BY DEF Begun
<1>4. EpochOK'
  BY <1>2, <1>3 DEF EpochOK
<1>5. QED
  BY <1>1, <1>4 DEF OrderInv

\* It takes the identity on disk, or leaves its own there.
LEMMA AdoptIdentityOrder ==
    ASSUME Types, AlignInv, OrderInv, NEW t \in Tabs, \A u \in Tabs : Browser => u = t, AdoptIdentity(t)
    PROVE  OrderInv'
<1> USE DEF Types
<1>1. phase[t] = "identity" /\ phase' = [phase EXCEPT ![t] = "epoch"]
      /\ UNCHANGED <<tasks, up, mark, applied, issued, scenario>>
  BY DEF AdoptIdentity, network, server, bounds, history
<1>2. EpochOK /\ Browser /\ phase'[t] = "epoch"
  BY <1>1 DEF OrderInv, EpochOK, ClientTypes
<1>3. core[t] \in Core /\ core[t].outbox = << >> /\ core[t].seq = 0 /\ core[t].client \in DOMAIN mark
  BY <1>1, <1>2 DEF AlignInv, Good, Starting, ClientTypes, EpochOK
<1>4. CASE idb.client # None
  <2> DEFINE x == AdoptClientId(core[t], idb.client)
  <2>1. core' = [core EXCEPT ![t] = x] /\ UNCHANGED idb
    BY <1>4 DEF AdoptIdentity
  <2>2. x.outbox = core[t].outbox /\ x.client = idb.client
    BY <1>3 DEF AdoptClientId, NoWritesYet, Core
  <2> HIDE DEF x
  <2>3. InPlay' \subseteq InPlay
    BY <1>1, <2>1, <2>2, NothingNew
  <2>4. core'[t].client = idb.client /\ idb.client \in DOMAIN mark
    BY <1>2, <1>4, <2>1, <2>2 DEF ClientTypes, EpochOK
  <2>5. \A f \in InPlay' : f.client = idb'.client /\ f.wire < (idb'.epoch + 1) * IdRange
    BY <1>2, <2>1, <2>3 DEF EpochOK
  <2>6. QED
    BY <1>1, <1>2, <2>1, <2>3, <2>4, <2>5, OnlyTabOrder
<1>5. CASE idb.client = None
  <2>1. idb' = [idb EXCEPT !.client = core[t].client] /\ UNCHANGED core
    BY <1>5 DEF AdoptIdentity
  <2>2. idb'.client = core[t].client /\ idb'.rows = idb.rows
    BY <2>1 DEF DiskTypes
  <2>3. InPlay' \subseteq InPlay
    <3> DEFINE x == core[t]
    <3>1. core' = [core EXCEPT ![t] = x] /\ x.outbox = core[t].outbox
      BY <2>1 DEF ClientTypes
    <3> HIDE DEF x
    <3>2. QED
      BY <1>1, <2>2, <3>1, NothingNew
  <2>4. InPlay = {}
    BY <1>2, <1>5, InPlayType, NoneFacts DEF EpochOK, Clients
  <2>5. InPlay' = {}
    BY <2>3, <2>4
  <2>6. core'[t].client = idb'.client /\ idb'.client \in DOMAIN mark
    BY <1>3, <2>1, <2>2
  <2>7. QED
    BY <1>1, <1>2, <2>3, <2>5, <2>6, OnlyTabOrder
<1>6. QED
  BY <1>4, <1>5

\* It reads its epoch.
LEMMA ReadEpochOrder ==
    ASSUME Types, OrderInv, NEW t \in Tabs, \A u \in Tabs : Browser => u = t, ReadEpoch(t)
    PROVE  OrderInv'
<1> USE DEF Types
<1> DEFINE e == idb.epoch + 1
           x == [core[t] EXCEPT !.epoch = e]
<1>1. phase[t] = "epoch" /\ phase' = [phase EXCEPT ![t] = "bump"]
      /\ UNCHANGED <<tasks, idb, up, mark, applied, issued, scenario>>
  BY DEF ReadEpoch, browser, network, server, bounds, history
<1>2. EpochOK /\ Browser /\ phase'[t] = "bump"
  BY <1>1 DEF OrderInv, EpochOK, ClientTypes
<1>3. core[t] \in Core /\ core[t].client = idb.client /\ idb.client \in DOMAIN mark
  BY <1>1, <1>2 DEF ClientTypes, EpochOK
<1>4. core' = [core EXCEPT ![t] = x]
  BY DEF ReadEpoch
<1>5. x.outbox = core[t].outbox /\ x.client = core[t].client /\ x.epoch = e
  BY <1>3 DEF Core
<1> HIDE DEF x
<1>6. InPlay' \subseteq InPlay
  BY <1>1, <1>4, <1>5, NothingNew
<1>7. core'[t].client = idb'.client /\ core'[t].epoch = idb'.epoch + 1
  BY <1>1, <1>3, <1>4, <1>5 DEF ClientTypes
<1>8. \A f \in InPlay' : f.client = idb'.client /\ f.wire < (idb'.epoch + 1) * IdRange
  BY <1>1, <1>2, <1>6 DEF EpochOK
<1>9. QED
  BY <1>1, <1>2, <1>3, <1>6, <1>7, <1>8, OnlyTabOrder

\* It takes it: the ids of the sessions before are below its own.
LEMMA BumpEpochOrder ==
    ASSUME Types, OrderInv, NEW t \in Tabs, \A u \in Tabs : Browser => u = t, BumpEpoch(t)
    PROVE  OrderInv'
<1> USE DEF Types
<1>1. phase[t] = "bump" /\ phase' = [phase EXCEPT ![t] = "outbox"]
      /\ idb' = [idb EXCEPT !.epoch = core[t].epoch]
      /\ UNCHANGED <<core, tasks, up, mark, applied, issued, scenario>>
  BY DEF BumpEpoch, network, server, bounds, history
<1>2. EpochOK /\ Browser /\ phase'[t] = "outbox"
  BY <1>1 DEF OrderInv, EpochOK, ClientTypes
<1>3. core[t] \in Core /\ core[t].client = idb.client /\ idb.client \in DOMAIN mark
      /\ core[t].epoch = idb.epoch + 1
  BY <1>1, <1>2 DEF ClientTypes, EpochOK
<1>4. idb'.epoch = core[t].epoch /\ idb'.client = idb.client /\ idb'.rows = idb.rows
  BY <1>1 DEF DiskTypes
<1>5. InPlay' \subseteq InPlay
  <2> DEFINE x == core[t]
  <2>1. core' = [core EXCEPT ![t] = x] /\ x.outbox = core[t].outbox
    BY <1>1 DEF ClientTypes
  <2> HIDE DEF x
  <2>2. QED
    BY <1>1, <1>4, <2>1, NothingNew
<1>6. ASSUME NEW f \in InPlay'
      PROVE  /\ f.client = idb'.client /\ f.wire < (idb'.epoch + 1) * IdRange
             /\ f.wire < core'[t].epoch * IdRange + core'[t].seq
  <2> DEFINE e == core[t].epoch
             base == e * IdRange
  <2>1. f \in InPlay /\ f.client = idb.client /\ f.wire < base
    BY <1>2, <1>3, <1>5, <1>6 DEF EpochOK
  <2>2. e \in Nat /\ core[t].seq \in Nat /\ IdRange \in Nat /\ f.wire \in Nat
    BY <1>3, <2>1, CoreFields, InPlayType, SyncClientAssumption
  <2>3. base \in Nat /\ (e + 1) * IdRange = base + IdRange
    BY <2>2
  <2> HIDE DEF base
  <2>4. f.wire < base + core[t].seq /\ f.wire < base + IdRange
    BY <2>1, <2>2, <2>3
  <2>5. QED
    BY <1>1, <1>4, <2>1, <2>3, <2>4 DEF base
<1>7. core'[t].client = idb'.client /\ core'[t].epoch = idb'.epoch
  BY <1>1, <1>3, <1>4
<1>8. idb'.client \in DOMAIN mark
  BY <1>3, <1>4
<1>9. (\A f \in InPlay' : f.client = idb'.client /\ f.wire < (idb'.epoch + 1) * IdRange)
      /\ \A f \in InPlay' : f.wire < core'[t].epoch * IdRange + core'[t].seq
  BY <1>6
<1>10. QED
  BY <1>1, <1>2, <1>5, <1>7, <1>8, <1>9, OnlyTabOrder

-----------------------------------------------------------------------------
(* A write is put in play *)

\* The wire id of a session that has ids left.
LEMMA WireIdIs ==
    ASSUME NEW c \in Core, c.seq < IdRange
    PROVE  WireId(c, c.seq) = c.epoch * IdRange + c.seq
<1>1. c.seq \in Nat /\ c.epoch \in Nat /\ IdRange \in Nat \ {0}
  BY CoreFields, SyncClientAssumption
<1>2. c.seq % IdRange = c.seq
  BY <1>1
<1>3. QED
  BY <1>2 DEF WireId

\* Its frame is all that is new.
LEMMA WriteInPlay ==
    ASSUME Types, SocketsOK, AlignInv, EpochOK, NEW t \in Tabs, BrowserWrite(t) \/ EmbedWrite(t)
    PROVE  LET e == NewWrite(t)
           IN  /\ Enqueues(core[t], e, Len(issued) + 1, WireId(core[t], core[t].seq), Connected(t))
               /\ InPlay' \subseteq InPlay \cup {e.frame}
<1> USE DEF Types
<1> DEFINE e == NewWrite(t)
           w == Len(issued) + 1
           c == core[t]
           log == AppendLog(walSeq[t], w)
           s == (tasks[t] \o StoreRow(e)) \o <<log>>
<1>1. /\ Ready(t) /\ core' = [core EXCEPT ![t] = e.core] /\ up' = Send(t, e.frame)
      /\ UNCHANGED idb
      /\ tasks' = tasks \/ tasks' = [tasks EXCEPT ![t] = s]
  BY DEF BrowserWrite, EmbedWrite, Enqueued, browser
<1>2. c \in Core /\ c.client # None /\ RowsOK(c) /\ Connected(t) \in BOOLEAN /\ w \in Nat
  BY <1>1 DEF ClientTypes, Ready, AlignInv, Good, Connected, HistoryTypes
<1>3. Enqueues(c, e, w, WireId(c, c.seq), Connected(t))
  <2>1. e = EnqueueWrite(c, "write", w, TRUE, Connected(t))
    BY DEF NewWrite
  <2> HIDE DEF c, w, e
  <2>2. QED
    BY <1>2, <2>1, WriteEnqueues, Zenon
<1>4. TasksOK(<<log>>) /\ PutsIn(<<log>>) = {}
  BY TaskMade, PutsMade
<1> HIDE DEF e, w, log
<1>5. /\ e.core \in Core /\ e.frame \in RowFrame /\ e.id = c.seq
      /\ e.dropped = << >> \/ e.dropped = <<Head(c.outbox)>>
  BY <1>3 DEF Enqueues
<1> HIDE DEF c
<1>6. HeldIn(e.core.outbox) \subseteq HeldIn(c.outbox) \cup {e.frame}
  BY <1>2, <1>3, HeldEnqueued
<1>7. PutsIn(s) \subseteq PutsIn(tasks[t]) \cup {e.frame}
  <2> DEFINE a == tasks[t]
             b == StoreRow(e)
             d == <<log>>
  <2>1. TasksOK(a) /\ TasksOK(b) /\ TasksOK(d) /\ PutsIn(b) \subseteq {e.frame} /\ PutsIn(d) = {}
    <3>1. e.id \in Nat
      BY <1>2, <1>5, CoreFields
    <3>2. QED
      BY <1>4, <1>5, <3>1, StoreRowType, RowPuts DEF TaskTypes
  <2> HIDE DEF a, b, d
  <2>2. TasksOK(a \o b) /\ PutsIn(a \o b) = PutsIn(a) \cup PutsIn(b)
    <3>1. TasksOK(a \o b)
      BY ONLY <2>1, TasksAdded
    <3>2. PutsIn(a \o b) = PutsIn(a) \cup PutsIn(b)
      BY ONLY <2>1, PutsFacts, Zenon
    <3>3. QED
      BY <3>1, <3>2
  <2>3. PutsIn((a \o b) \o d) = PutsIn(a \o b) \cup PutsIn(d)
    BY ONLY <2>1, <2>2, PutsFacts, Zenon
  <2>4. QED
    BY <2>1, <2>2, <2>3 DEF a, b, d
<1> HIDE DEF s
<1>8. InPlay' \subseteq InPlay \cup {e.frame}
  <2> DEFINE N == InPlay \cup {e.frame}
             x == e.core
             f == e.frame
  <2>1. /\ InPlay \subseteq N /\ core' = [core EXCEPT ![t] = x] /\ up' = Send(t, f)
        /\ f \in Frame /\ f \in N
        /\ \A g \in HeldIn(x.outbox) : g.wire # None => g \in N
        /\ \A g \in PutsIn(s) : g.wire # None => g \in N
    BY <1>1, <1>5, <1>6, <1>7, InPlayHas DEF Frame, c
  <2> HIDE DEF N, x, f
  <2>2. \A n \in DOMAIN up' : \A g \in ToSet(up'[n]) : g.wire # None => g \in N
    BY <2>1, SendStep
  <2>3. \A u \in Tabs : \A g \in HeldIn(core'[u].outbox) : g.wire # None => g \in N
    BY <2>1, HeldStep
  <2>4. \A u \in Tabs : \A g \in PutsIn(tasks'[u]) : g.wire # None => g \in N
    BY <1>1, <2>1, PutsStep, StillInPlay
  <2>5. InPlay' \subseteq N
    BY <1>1, <2>1, <2>2, <2>3, <2>4, StillInPlay, InPlayStep
  <2>6. QED
    BY <2>5 DEF N
<1>9. QED
  BY <1>3, <1>8 DEF e, c, w

\* It is the last in the order of issue and has the greatest wire id of its client.
LEMMA NewWriteOrder ==
    ASSUME Types, SocketsOK, AlignInv, OrderInv, IdsLeft, NEW t \in Tabs,
           \A u \in Tabs : Browser => u = t, BrowserWrite(t) \/ EmbedWrite(t)
    PROVE  OrderInv'
<1> USE DEF Types
<1> DEFINE e == NewWrite(t)
           c == core[t]
           f0 == e.frame
           x == e.core
           w == Len(issued) + 1
           base == c.epoch * IdRange
           N == InPlay
           M == InPlay'
<1>1. Ready(t) /\ core' = [core EXCEPT ![t] = x]
      /\ UNCHANGED <<phase, idb, mark, applied, scenario>> /\ (~Browser => UNCHANGED tasks)
  BY DEF BrowserWrite, EmbedWrite, Enqueued, browser, server, bounds
<1>2. PICK r : issued' = Append(issued, r) /\ r.client = c.client
  <2>1. PICK k, ttl : Enqueued(t, e, k, ttl)
    BY Zenon DEF BrowserWrite, EmbedWrite
  <2> DEFINE y == [client |-> c.client, key |-> k, ttl |-> ttl, deadline |-> Deadline(ttl)]
  <2>2. issued' = Append(issued, y)
    BY <2>1 DEF Enqueued
  <2>3. y.client = c.client
    OBVIOUS
  <2> HIDE DEF y
  <2>4. QED
    BY <2>2, <2>3
<1>3. EpochOK /\ OrderOK /\ AppliedInOrder /\ Begun(t) /\ phase[t] # "closed"
  BY <1>1 DEF OrderInv, Ready, Begun
<1>4. /\ c \in Core /\ c.seq \in Nat /\ c.epoch \in Nat /\ c.seq < IdRange /\ IdRange \in Nat
      /\ base \in Nat /\ c.client \in DOMAIN mark
  <2>1. c \in Core /\ c.seq < IdRange /\ IdRange \in Nat
    BY SyncClientAssumption DEF ClientTypes, IdsLeft
  <2>2. c.seq \in Nat /\ c.epoch \in Nat
    BY <2>1, CoreFields
  <2>3. base \in Nat
    BY <2>1, <2>2
  <2>4. c.client \in DOMAIN mark
    BY <1>3 DEF EpochOK
  <2>5. QED
    BY <2>1, <2>2, <2>3, <2>4
<1>5. Enqueues(c, e, w, WireId(c, c.seq), Connected(t)) /\ M \subseteq N \cup {f0}
  BY <1>3, WriteInPlay
<1>6. WireId(c, c.seq) = base + c.seq
  BY <1>4, WireIdIs
<1> HIDE DEF e
<1>7. /\ f0.client = c.client /\ f0.write = w /\ f0.wire = base + c.seq
      /\ x.seq = c.seq + 1 /\ x.client = c.client /\ x.epoch = c.epoch
  BY <1>5, <1>6 DEF Enqueues
<1>8. /\ w \in Nat /\ w - 1 \in Nat /\ DOMAIN issued = 1..(w - 1) /\ DOMAIN issued' = 1..w
      /\ issued'[w] = r /\ \A i \in DOMAIN issued : issued'[i] = issued[i]
  BY <1>2 DEF HistoryTypes
<1> HIDE DEF w, f0, x
<1>9. /\ w \in DOMAIN issued' /\ DOMAIN issued \subseteq DOMAIN issued'
      /\ \A i \in DOMAIN issued : i \in Nat /\ i < w
  BY <1>8
<1>10. \A f \in N : /\ f.wire \in Nat /\ f.write \in DOMAIN issued /\ issued[f.write].client = f.client
                    /\ f.client \in DOMAIN mark /\ f.write < w
                    /\ f.client = c.client => f.wire < base + c.seq
  <2>1. \A f \in N : f.wire \in Nat
    BY InPlayType
  <2>2. \A f \in N : f.write \in DOMAIN issued /\ issued[f.write].client = f.client /\ f.client \in DOMAIN mark
    BY <1>3 DEF OrderOK
  <2>3. \A f \in N : f.client = c.client => f.wire < base + c.seq
    BY <1>3 DEF EpochOK
  <2>4. QED
    BY <1>9, <2>1, <2>2, <2>3
<1>11. /\ \A f, g \in N : f.client = g.client /\ f.wire < g.wire => f.write < g.write
       /\ \A i \in DOMAIN applied :
            /\ applied[i] \in DOMAIN issued
            /\ \A f \in N : f.client = issued[applied[i]].client /\ f.wire > mark[f.client] =>
                 applied[i] < f.write
  BY <1>3 DEF OrderOK
<1>12. /\ Browser => \A f \in N : f.client = idb.client /\ f.wire < (idb.epoch + 1) * IdRange
       /\ Browser => c.epoch = idb.epoch /\ c.client = idb.client
  BY <1>1, <1>3 DEF EpochOK, Ready
<1>13. \A u \in Tabs : core'[u] = IF u = t THEN x ELSE core[u]
  BY <1>1 DEF ClientTypes
<1>14. M = InPlay'
  OBVIOUS
<1> HIDE DEF N, M, base, c
<1>15. OrderOK'
  <2>1. \A f \in M : /\ f.write \in DOMAIN issued' /\ issued'[f.write].client = f.client
                     /\ f.client \in DOMAIN mark'
    BY <1>1, <1>2, <1>4, <1>5, <1>7, <1>8, <1>9, <1>10
  <2>2. ASSUME NEW f \in M, NEW g \in M, f.client = g.client, f.wire < g.wire PROVE f.write < g.write
    <3>1. CASE f \in N /\ g \in N
      BY <1>11, <2>2, <3>1
    <3>2. CASE f \in N /\ g = f0
      BY <1>7, <1>10, <3>2
    <3>3. CASE f = f0 /\ g \in N
      <4>1. g.wire \in Nat /\ g.wire < base + c.seq /\ f.wire = base + c.seq
        BY <1>7, <1>10, <2>2, <3>3
      <4>2. QED
        BY <1>4, <2>2, <4>1
    <3>4. CASE f = f0 /\ g = f0
      BY <1>4, <1>7, <2>2, <3>4
    <3>5. QED
      BY <1>5, <3>1, <3>2, <3>3, <3>4
  <2>3. ASSUME NEW i \in DOMAIN applied
        PROVE  /\ applied[i] \in DOMAIN issued'
               /\ \A f \in M : f.client = issued'[applied[i]].client /\ f.wire > mark[f.client] =>
                    applied[i] < f.write
    <3>1. applied[i] \in DOMAIN issued /\ issued'[applied[i]] = issued[applied[i]] /\ applied[i] < w
      BY <1>8, <1>9, <1>11
    <3>2. QED
      BY <1>5, <1>7, <1>9, <1>11, <3>1
  <2>4. QED
    BY <1>1, <1>14, <2>1, <2>2, <2>3 DEF OrderOK
<1>16. AppliedInOrder'
  <2>1. \A i \in DOMAIN applied : issued'[applied[i]] = issued[applied[i]]
    BY <1>8, <1>11
  <2>2. QED
    BY <1>1, <1>3, <2>1 DEF AppliedInOrder
<1>17. Browser' = Browser
  BY <1>1 DEF Browser, Setup
<1>18. ASSUME Browser
       PROVE  /\ \A f \in M : f.client = idb'.client /\ f.wire < (idb'.epoch + 1) * IdRange
              /\ \A u \in Tabs : /\ phase'[u] = "bump" => core'[u].epoch = idb'.epoch + 1
                                 /\ Begun(u)' => core'[u].epoch = idb'.epoch
                                 /\ phase'[u] \notin {"closed", "identity"} => core'[u].client = idb'.client
  <2>1. (c.epoch + 1) * IdRange = base + IdRange
    BY <1>4 DEF base
  <2>2. f0.client = idb.client /\ f0.wire < (idb.epoch + 1) * IdRange
    BY <1>4, <1>7, <1>12, <1>18, <2>1
  <2>3. \A f \in M : f.client = idb'.client /\ f.wire < (idb'.epoch + 1) * IdRange
    BY <1>1, <1>5, <1>12, <1>18, <2>2
  <2>4. \A u \in Tabs : core'[u].epoch = idb'.epoch /\ core'[u].client = idb'.client /\ phase'[u] # "bump"
    BY <1>1, <1>7, <1>12, <1>13, <1>18 DEF Ready
  <2>5. QED
    BY <2>3, <2>4
<1>19. ASSUME ~Browser
       PROVE  /\ \A u \in Tabs : phase'[u] \in {"closed", "ready"} /\ tasks'[u] = << >>
              /\ \A u, v \in Tabs : core'[u].client = core'[v].client /\ Ready(u)' /\ Ready(v)' => u = v
              /\ idb'.rows = << >>
  <2>1. \A u \in Tabs : core'[u].client = core[u].client /\ Ready(u)' = Ready(u)
    BY <1>1, <1>7, <1>13 DEF Ready, c
  <2>2. QED
    BY <1>1, <1>3, <1>19, <2>1 DEF EpochOK
<1>20. idb'.client # None => idb'.client \in DOMAIN mark'
  BY <1>1, <1>3 DEF EpochOK
<1>21. ASSUME NEW u \in Tabs
       PROVE  /\ phase'[u] # "closed" => core'[u].client \in DOMAIN mark'
              /\ Begun(u)' => \A f \in M : f.client = core'[u].client =>
                                f.wire < core'[u].epoch * IdRange + core'[u].seq
  <2>1. CASE u = t
    <3>1. core'[u].client = c.client /\ core'[u].seq = c.seq + 1 /\ core'[u].epoch * IdRange = base
      BY <1>7, <1>13, <2>1 DEF base
    <3>2. ASSUME NEW f \in M, f.client = c.client PROVE f.wire < base + (c.seq + 1)
      <4>1. CASE f \in N
        <5>1. f.wire \in Nat /\ f.wire < base + c.seq
          BY <1>10, <3>2, <4>1
        <5>2. QED
          BY <1>4, <5>1
      <4>2. CASE f = f0
        BY <1>4, <1>7, <4>2
      <4>3. QED
        BY <1>5, <4>1, <4>2
    <3>3. QED
      BY <1>1, <1>4, <3>1, <3>2
  <2>2. CASE u # t
    <3>1. ~Browser /\ core'[u] = core[u] /\ phase'[u] = phase[u]
      BY <1>1, <1>13, <2>2
    <3>2. Begun(u)' = Begun(u)
      BY <3>1 DEF Begun
    <3>3. Begun(u) => core[u].client # c.client
      <4>1. Begun(u) => Ready(u)
        BY <1>3, <3>1 DEF EpochOK, Begun, Ready
      <4>2. QED
        BY <1>1, <1>3, <2>2, <3>1, <4>1 DEF EpochOK, c
    <3>4. phase[u] # "closed" => core[u].client \in DOMAIN mark
      BY <1>3 DEF EpochOK
    <3>5. Begun(u) => \A f \in N : f.client = core[u].client =>
                                     f.wire < core[u].epoch * IdRange + core[u].seq
      BY <1>3 DEF EpochOK, N
    <3>6. QED
      BY <1>1, <1>5, <1>7, <3>1, <3>2, <3>3, <3>4, <3>5
  <2>3. QED
    BY <2>1, <2>2
<1>22. EpochOK'
  BY <1>14, <1>17, <1>18, <1>19, <1>20, <1>21 DEF EpochOK
<1>23. QED
  BY <1>15, <1>16, <1>22 DEF OrderInv

-----------------------------------------------------------------------------
(* The server executes a write *)

\* A mark it passes is below every write in play that has not been executed.
LEMMA ServeOrder ==
    ASSUME Types, Types', SocketsOK, OrderInv, NEW n \in DOMAIN up, Serve(n)
    PROVE  OrderInv'
<1> USE DEF Types
<1> DEFINE f0 == Head(up[n])
           k == Len(applied) + 1
           c == f0.client
<1>1. Keeps
  BY ServeKeeps DEF OrderInv
<1>2. EpochOK' /\ OrderOK /\ AppliedInOrder
  BY <1>1, EpochKeeps DEF OrderInv
<1>3. /\ up[n] # << >> /\ UNCHANGED issued
      /\ Answer(n, f0) # "applied" => UNCHANGED <<applied, mark>>
      /\ Answer(n, f0) = "applied" =>
           applied' = Append(applied, f0.write) /\ mark' = [mark EXCEPT ![c] = f0.wire]
  BY DEF Serve
<1>4. CASE Answer(n, f0) # "applied"
  <2>1. InPlay' \subseteq InPlay
    BY <1>1 DEF Keeps
  <2>2. OrderOK' /\ AppliedInOrder'
    BY <1>2, <1>3, <1>4, <2>1, OrderSame
  <2>3. QED
    BY <1>2, <2>2 DEF OrderInv
<1>5. CASE Answer(n, f0) = "applied"
  <2> DEFINE N == InPlay
             M == InPlay'
  <2>1. f0 \in ToSet(up[n]) /\ f0 \in Frame
    <3>1. up[n] \in Seq(Frame)
      BY DEF NetworkTypes
    <3>2. QED
      BY <1>3, <3>1, ElementsOf DEF ToSet
  <2>2. f0.wire # None /\ ~IsDuplicate(f0)
    BY <1>5, <2>1, AnswerFacts
  <2> HIDE DEF f0
  <2>3. f0 \in N /\ M \subseteq N
    BY <1>1, <2>1, <2>2, InPlayHas DEF Keeps
  <2>4. /\ \A f \in N : /\ f.write \in DOMAIN issued /\ issued[f.write].client = f.client
                        /\ f.client \in DOMAIN mark
        /\ \A f, g \in N : f.client = g.client /\ f.wire < g.wire => f.write < g.write
        /\ \A i \in DOMAIN applied :
             /\ applied[i] \in DOMAIN issued
             /\ \A f \in N : f.client = issued[applied[i]].client /\ f.wire > mark[f.client] =>
                  applied[i] < f.write
    BY <1>2 DEF OrderOK
  <2>5. \A f \in N : f.wire \in Nat
    BY InPlayType
  <2>6. \A d \in DOMAIN mark : mark[d] \in Int
    BY NoneFacts DEF ServerTypes, Option
  <2>7. c \in DOMAIN mark /\ f0.wire > mark[c] /\ f0.wire \in Nat
    <3>1. c \in DOMAIN mark /\ f0.wire \in Nat
      BY <2>3, <2>4, <2>5
    <3>2. QED
      BY <2>2, <2>6, <3>1 DEF IsDuplicate
  <2>8. /\ DOMAIN mark' = DOMAIN mark /\ mark'[c] = f0.wire
        /\ \A d \in DOMAIN mark : d # c => mark'[d] = mark[d]
    BY <1>3, <1>5, <2>7
  <2>9. /\ k \in Nat /\ k - 1 \in Nat /\ DOMAIN applied = 1..(k - 1) /\ DOMAIN applied' = 1..k
        /\ applied'[k] = f0.write /\ \A i \in DOMAIN applied : applied'[i] = applied[i]
    <3> DEFINE a == f0.write
    <3>1. applied' = Append(applied, a) /\ applied \in Seq(Nat) /\ a \in Nat
      BY <1>3, <1>5, <2>3, InPlayType DEF ServerTypes
    <3> HIDE DEF a
    <3>2. /\ DOMAIN applied' = 1..(Len(applied) + 1) /\ applied'[Len(applied) + 1] = a
          /\ \A i \in 1..Len(applied) : applied'[i] = applied[i]
      BY ONLY <3>1
    <3>3. Len(applied) \in Nat /\ DOMAIN applied = 1..Len(applied)
      BY ONLY <3>1
    <3>4. QED
      BY <3>2, <3>3 DEF a
  <2>10. M = InPlay'
    OBVIOUS
  <2> HIDE DEF N, M, c, k
  <2>11. \A i \in DOMAIN applied' : i \in DOMAIN applied \/ i = k
    BY <2>9
  <2>12. OrderOK'
    <3>1. ASSUME NEW i \in DOMAIN applied, NEW f \in M, f.client = issued[applied[i]].client,
                 f.wire > mark'[f.client]
          PROVE  applied[i] < f.write
      <4>1. f \in N /\ f.wire \in Nat /\ f.client \in DOMAIN mark
        BY <2>3, <2>4, <2>5, <3>1
      <4>2. f.wire > mark[f.client]
        <5>1. CASE f.client = c
          BY <2>6, <2>7, <2>8, <3>1, <4>1, <5>1
        <5>2. CASE f.client # c
          BY <2>8, <3>1, <4>1, <5>2
        <5>3. QED
          BY <5>1, <5>2
      <4>3. QED
        BY <2>4, <3>1, <4>1, <4>2
    <3>2. ASSUME NEW f \in M, f.client = issued[f0.write].client, f.wire > mark'[f.client]
          PROVE  f0.write < f.write
      <4>1. f \in N /\ f.client = f0.client /\ f.client = c
        BY <2>3, <2>4, <3>2 DEF c
      <4>2. f.wire \in Nat /\ f0.wire < f.wire
        BY <2>5, <2>7, <2>8, <3>2, <4>1
      <4>3. QED
        BY <2>3, <2>4, <4>1, <4>2
    <3>3. ASSUME NEW i \in DOMAIN applied'
          PROVE  /\ applied'[i] \in DOMAIN issued'
                 /\ \A f \in M : f.client = issued'[applied'[i]].client /\ f.wire > mark'[f.client] =>
                      applied'[i] < f.write
      <4>1. CASE i \in DOMAIN applied
        BY <1>3, <2>4, <2>9, <3>1, <4>1
      <4>2. CASE i = k
        BY <1>3, <2>3, <2>4, <2>9, <3>2, <4>2
      <4>3. QED
        BY <2>11, <4>1, <4>2
    <3>4. /\ \A f \in M : /\ f.write \in DOMAIN issued' /\ issued'[f.write].client = f.client
                          /\ f.client \in DOMAIN mark'
          /\ \A f, g \in M : f.client = g.client /\ f.wire < g.wire => f.write < g.write
      BY <1>3, <2>3, <2>4, <2>8
    <3>5. QED
      BY <2>10, <3>3, <3>4 DEF OrderOK
  <2>13. AppliedInOrder'
    <3>1. ASSUME NEW i \in DOMAIN applied', NEW j \in DOMAIN applied', i < j,
                 issued'[applied'[i]].client = issued'[applied'[j]].client
          PROVE  applied'[i] < applied'[j]
      <4>1. i \in DOMAIN applied /\ applied'[i] = applied[i]
        BY <2>9, <3>1
      <4>2. CASE j \in DOMAIN applied
        BY <1>2, <1>3, <2>9, <3>1, <4>1, <4>2 DEF AppliedInOrder
      <4>3. CASE j = k
        <5>1. issued[applied[i]].client = f0.client /\ f0.client = c
          BY <1>3, <2>3, <2>4, <2>9, <3>1, <4>1, <4>3 DEF c
        <5>2. applied[i] < f0.write
          BY <2>3, <2>4, <2>7, <4>1, <5>1
        <5>3. QED
          BY <2>9, <4>1, <4>3, <5>2
      <4>4. QED
        BY <2>11, <4>2, <4>3
    <3>2. QED
      BY <3>1 DEF AppliedInOrder
  <2>14. QED
    BY <1>2, <2>12, <2>13 DEF OrderInv
<1>6. QED
  BY <1>4, <1>5

-----------------------------------------------------------------------------
(* The server executes the writes of a client in order *)

\* Every other step.
LEMMA QuietOrder ==
    ASSUME Types, Types', OrderInv, Keeps, UNCHANGED <<mark, applied>>
    PROVE  OrderInv'
<1>1. InPlay' \subseteq InPlay /\ UNCHANGED issued
  BY DEF Keeps
<1>2. OrderOK' /\ AppliedInOrder'
  BY <1>1, OrderSame DEF OrderInv
<1>3. EpochOK'
  BY EpochKeeps DEF OrderInv
<1>4. QED
  BY <1>2, <1>3 DEF OrderInv

\* The order survives every step of one tab per origin whose sessions have ids left.
LEMMA OrderStep ==
    ASSUME Alone, Types, SocketsOK, AlignInv, OrderInv, IdsLeft, [Next]_vars
    PROVE  OrderInv'
<1> DEFINE OK == OrderInv'
<1>1. Types' /\ EpochOK
  BY TypesStep DEF OrderInv
<1>2. \A t, u \in Tabs : Browser => u = t
  BY DEF Alone
<1>3. \A t \in Tabs : (Opened(t, "identity") /\ Browser) \/ (Opened(t, "ready") /\ ~Browser) => OK
  BY OpenOrder
<1>4. \A t \in Tabs : AdoptIdentity(t) \/ ReadEpoch(t) \/ BumpEpoch(t) => OK
  BY <1>2, AdoptIdentityOrder, ReadEpochOrder, BumpEpochOrder
<1>5. \A t \in Tabs : BrowserWrite(t) \/ EmbedWrite(t) => OK
  BY <1>2, NewWriteOrder
<1>6. \A n \in DOMAIN up : Serve(n) => OK
  BY <1>1, ServeOrder
<1>7. Keeps /\ UNCHANGED <<mark, applied>> => OK
  BY <1>1, QuietOrder
<1>8. \A t \in Tabs : (\/ RestoreRows(t) \/ ReplaceRows(t) \/ ReplayLog(t)
                       \/ Crash(t) \/ Connect(t) \/ Close(t)) => OK
  <2>1. \A t \in Tabs : (\/ RestoreRows(t) \/ ReplaceRows(t) \/ ReplayLog(t)
                         \/ Crash(t) \/ Connect(t) \/ Close(t)) => Keeps
    BY <1>1, RestoreRowsKeeps, ReplaceRowsKeeps, ReplayLogKeeps, CrashKeeps, ConnectKeeps, CloseKeeps
  <2>2. \A t \in Tabs : (\/ RestoreRows(t) \/ ReplaceRows(t) \/ ReplayLog(t)
                         \/ Crash(t) \/ Connect(t) \/ Close(t)) => UNCHANGED <<mark, applied>>
    BY DEF RestoreRows, ReplaceRows, ReplayLog, Crash, Connect, Close, server
  <2>3. QED
    BY <1>7, <2>1, <2>2
<1>9. \A t \in Tabs : Read(t) \/ Query(t) \/ Unquery(t) \/ EmbedSubscribe(t) \/ BrowserSubscribe(t) => OK
  <2>1. \A t \in Tabs : Read(t) \/ Query(t) \/ Unquery(t) \/ EmbedSubscribe(t) \/ BrowserSubscribe(t) => Keeps
    BY <1>1, CommandKeeps, BrowserSubscribeKeeps
  <2>2. \A t \in Tabs : Read(t) \/ Query(t) \/ Unquery(t) \/ EmbedSubscribe(t) \/ BrowserSubscribe(t)
          => UNCHANGED <<mark, applied>>
    BY DEF Read, Query, Unquery, Command, EmbedSubscribe, BrowserSubscribe, server
  <2>3. QED
    BY <1>7, <2>1, <2>2
<1>10. \A t \in Tabs : Clear(t) \/ Receive(t) \/ Commit(t) => OK
  <2>1. \A t \in Tabs : Clear(t) \/ Receive(t) \/ Commit(t) => Keeps
    BY <1>1, ClearKeeps, ReceiveKeeps, CommitKeeps
  <2>2. \A t \in Tabs : Clear(t) \/ Receive(t) \/ Commit(t) => UNCHANGED <<mark, applied>>
    BY DEF Clear, Receive, Commit, server
  <2>3. QED
    BY <1>7, <2>1, <2>2
<1>11. (\E n \in DOMAIN up : Push(n) \/ Overgrow(n)) \/ Refuse \/ Tick \/ UNCHANGED vars => OK
  BY <1>1, <1>7, QuietKeeps
<1> HIDE DEF OK
<1>12. OK
  BY <1>3, <1>4, <1>5, <1>6, <1>8, <1>9, <1>10, <1>11, Steps
<1>13. QED
  BY <1>12 DEF OK

\* Nothing is in play at the start.
LEMMA OrderInit == Init => OrderInv
<1> SUFFICES ASSUME Init PROVE OrderInv
  OBVIOUS
<1>1. /\ idb.rows = << >> /\ idb.client = None /\ up = << >> /\ applied = << >>
      /\ \A t \in Tabs : tasks[t] = << >> /\ phase[t] = "closed" /\ core[t] = NewClient(None, FALSE)
  BY DEF Init
<1>2. \A t \in Tabs : core[t].outbox = << >>
  BY <1>1 DEF NewClient
<1>3. OnDisk = {} /\ Sent = {}
  BY <1>1 DEF OnDisk, Sent
<1>4. Held = {}
  <2>1. \A t \in Tabs : HeldIn(core[t].outbox) \cup PutsIn(tasks[t]) = {}
    <3>1. HeldIn(<< >>) = {} /\ PutsIn(<< >>) = {}
      BY PutsMade DEF HeldIn
    <3>2. QED
      BY <1>1, <1>2, <3>1
  <2>2. QED
    BY <2>1, Zenon DEF Held
<1>5. InPlay = {}
  BY <1>3, <1>4 DEF InPlay
<1>6. DOMAIN applied = {}
  BY <1>1
<1>7. OrderOK /\ AppliedInOrder
  BY <1>5, <1>6 DEF OrderOK, AppliedInOrder
<1>8. EpochOK
  BY <1>1, <1>5 DEF EpochOK, Begun, Ready
<1>9. QED
  BY <1>7, <1>8 DEF OrderInv

\* With one tab per origin the situation at hand has no other tab.
LEMMA OneTabAlone == ASSUME OneTab, Types PROVE Alone
BY DEF OneTab, Alone, Browser, Setup, Types, HistoryTypes

\* The server executes the writes of one identity in the order of their issue and none twice, as
\* long as one tab at a time uses the IndexedDB of an origin and no session gives away 2^32 ids:
\* what connection.rs does with DEDUP and the marks is enough for what sync-client sends again
\* after a reconnect and restores after a reload.
THEOREM WritesExecutedInOrder ==
    ASSUME OneTab
    PROVE  Spec /\ []IdsLeft => []AppliedInOrder
<1>1. Init => Types /\ SocketsOK /\ AlignInv /\ OrderInv
  BY TypesInit, AlignInit, OrderInit
<1>2. Types /\ SocketsOK /\ AlignInv /\ OrderInv /\ IdsLeft /\ [Next]_vars =>
        (Types /\ SocketsOK /\ AlignInv /\ OrderInv)'
  BY TypesStep, AlignStep, OrderStep, OneTabAlone
<1>3. OrderInv => AppliedInOrder
  BY DEF OrderInv
<1>4. QED
  BY <1>1, <1>2, <1>3, PTL DEF Spec
=============================================================================
