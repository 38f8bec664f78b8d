-------------------------- MODULE EdgeClientWire ----------------------------
(***************************************************************************)
(* Where the writes of a client are, and how they are ordered: WireInv is  *)
(* inductive.  A socket is authenticated before anything else is sent on   *)
(* it; a wire id is given once, above the server's mark of its client; the *)
(* rows of the outbox, and the rows on disk and on their way to it, are in *)
(* the order of their wire ids; and a tab has only writes of its own       *)
(* client.  Beside it, the lemmas that say where each step leaves the      *)
(* writes a tab has: on disk, in its outbox, on their way to the disk, or  *)
(* on the socket it listens to.  EdgeClientFate builds on both.            *)
(*                                                                         *)
(* The last section is about the browser's log of commands, which goes to  *)
(* the disk by the same queue of transactions: LogInv is inductive, and    *)
(* a reload reads the last write of every key from the log.                *)
(***************************************************************************)
EXTENDS EdgeClientOrder

\* The writes of a tab, by where they are.
Rows(t) == Enveloped(HeldIn(core[t].outbox))
Puts(t) == Enveloped(PutsIn(tasks[t]))
OnWire(t) == Enveloped(Wire(t))

-----------------------------------------------------------------------------
(* The writes the clients have *)

\* Where they are.
LEMMA OwnedIs ==
    /\ \A t \in Tabs : OwnedBy(t) = Rows(t) \cup Puts(t) \cup OnWire(t)
    /\ \A h \in Owned : h \in Stored \/ \E t \in Tabs : h \in OwnedBy(t)
    /\ Stored \subseteq Owned
    /\ \A t \in Tabs : Rows(t) \subseteq Owned /\ Puts(t) \subseteq Owned /\ OnWire(t) \subseteq Owned
<1>1. \A t \in Tabs : OwnedBy(t) = Rows(t) \cup Puts(t) \cup OnWire(t)
  BY DEF OwnedBy, Rows, Puts, OnWire, Enveloped
<1>2. \A h \in Owned : h \in Stored \/ \E t \in Tabs : h \in OwnedBy(t)
  BY Zenon DEF Owned
<1>3. Stored \subseteq Owned
  BY Zenon DEF Owned
<1>4. \A t \in Tabs : OwnedBy(t) \subseteq Owned
  BY Zenon DEF Owned
<1>5. QED
  BY <1>1, <1>2, <1>3, <1>4

\* Nowhere else after a step.
LEMMA OwnedStep ==
    ASSUME NEW N, Stored' \subseteq N,
           \A t \in Tabs : Rows(t)' \subseteq N /\ Puts(t)' \subseteq N /\ OnWire(t)' \subseteq N
    PROVE  Owned' \subseteq N
<1>1. \A t \in Tabs : OwnedBy(t)' = Rows(t)' \cup Puts(t)' \cup OnWire(t)'
  BY DEF OwnedBy, Rows, Puts, OnWire, Enveloped
<1>2. ASSUME NEW h \in Owned' PROVE h \in N
  <2>1. h \in Stored' \/ \E t \in Tabs : h \in OwnedBy(t)'
    BY Zenon DEF Owned
  <2>2. QED
    BY <1>1, <2>1
<1>3. QED
  BY <1>2

\* They are in play.
LEMMA OwnedInPlay ==
    ASSUME SocketsOK
    PROVE  /\ Owned \subseteq InPlay /\ Stored \subseteq InPlay
           /\ \A t \in Tabs : Rows(t) \subseteq InPlay /\ Puts(t) \subseteq InPlay /\ OnWire(t) \subseteq InPlay
<1>1. Stored \subseteq InPlay
  BY InPlayHas DEF Stored, Enveloped
<1>2. \A t \in Tabs : Rows(t) \subseteq InPlay /\ Puts(t) \subseteq InPlay
  BY InPlayHas DEF Rows, Puts, Enveloped
<1>3. \A t \in Tabs : OnWire(t) \subseteq InPlay
  <2> SUFFICES ASSUME NEW t \in Tabs, NEW h \in OnWire(t) PROVE h \in InPlay
    OBVIOUS
  <2>1. h.wire # None /\ h \in Wire(t)
    BY DEF OnWire, Enveloped
  <2>2. Connected(t) /\ h \in ToSet(up[conn[t]])
    BY <2>1 DEF Wire
  <2>3. conn[t] \in DOMAIN up
    BY <2>2 DEF SocketsOK
  <2>4. QED
    BY <2>1, <2>2, <2>3, InPlayHas
<1>4. Owned \subseteq InPlay
  BY <1>1, <1>2, <1>3, OwnedIs
<1>5. QED
  BY <1>1, <1>2, <1>3, <1>4

\* What is known of the writes in play.
LEMMA PlayFacts ==
    ASSUME Types, OrderOK
    PROVE  \A h \in InPlay : /\ h.wire \in Nat /\ h.wire # None /\ h.client \in DOMAIN mark
                             /\ h.write \in DOMAIN issued /\ h.write \in Nat /\ h.write # None
                             /\ mark[h.client] \in Int
<1>1. \A h \in InPlay : h.wire \in Nat /\ h.write \in Nat
  BY InPlayType
<1>2. \A c \in DOMAIN mark : mark[c] \in Int
  BY NoneFacts DEF Types, ServerTypes, Option
<1>3. QED
  BY <1>1, <1>2, NoneFacts DEF OrderOK

\* A closed tab and one that starts have none.
LEMMA NothingYet ==
    ASSUME Types, SocketsOK, AlignInv, EpochOK, DiskOK, NEW t \in Tabs, ~Begun(t) \/ phase[t] = "outbox"
    PROVE  Rows(t) = {} /\ Puts(t) = {} /\ OnWire(t) = {} /\ ~Connected(t)
<1>1. core[t].outbox = << >>
  BY DEF AlignInv, Good, Starting, Begun, Types, ClientTypes, Phases
<1>2. tasks[t] = << >>
  BY DEF DiskOK, Begun
<1>3. ~Connected(t)
  BY DEF SocketsOK, Ready, Begun
<1>4. HeldIn(<< >>) = {} /\ PutsIn(<< >>) = {}
  BY PutsMade DEF HeldIn
<1>5. QED
  BY <1>1, <1>2, <1>3, <1>4 DEF Rows, Puts, OnWire, Wire, Enveloped

-----------------------------------------------------------------------------
(* A tab that does not move *)

\* Nothing of a tab changes that the writes depend on.
Stays(u) ==
    /\ core'[u] = core[u] /\ phase'[u] = phase[u] /\ tasks'[u] = tasks[u] /\ conn'[u] = conn[u]
    /\ Connected(u) => up'[conn[u]] = up[conn[u]]

\* Its writes stay where they are.
LEMMA StaysFacts ==
    ASSUME NEW u \in Tabs, Stays(u)
    PROVE  /\ Rows(u)' = Rows(u) /\ Puts(u)' = Puts(u) /\ OnWire(u)' = OnWire(u)
           /\ Wire(u)' = Wire(u) /\ (Connected(u)' <=> Connected(u))
<1>1. Connected(u)' <=> Connected(u)
  BY DEF Stays, Connected
<1>2. Wire(u)' = Wire(u)
  BY <1>1 DEF Wire, Stays, Connected
<1>3. QED
  BY <1>1, <1>2 DEF Rows, Puts, OnWire, Enveloped, Stays

\* One tab moves, alone or with one socket: the others stay.
LEMMA OthersStay ==
    ASSUME SocketsOK, NEW t \in Tabs,
           \A u \in Tabs : u # t => /\ core'[u] = core[u] /\ phase'[u] = phase[u]
                                    /\ tasks'[u] = tasks[u] /\ conn'[u] = conn[u],
           \A n \in DOMAIN up : n # conn[t] => up'[n] = up[n]
    PROVE  \A u \in Tabs : u # t => Stays(u)
<1> SUFFICES ASSUME NEW u \in Tabs, u # t, Connected(u) PROVE up'[conn[u]] = up[conn[u]]
  BY DEF Stays
<1>1. conn[u] \in DOMAIN up /\ conn[t] # conn[u]
  BY DEF SocketsOK
<1>2. QED
  BY <1>1

-----------------------------------------------------------------------------
(* Wire ids are given once, above the marks, by the client that has the write *)

\* In the browser every write in play has the identity on disk.
LEMMA OwnBrowser ==
    Types /\ SocketsOK /\ AlignInv /\ EpochOK /\ DiskOK /\ Browser => OwnOK
<1> SUFFICES ASSUME Types, SocketsOK, AlignInv, EpochOK, DiskOK, Browser, NEW t \in Tabs,
                    NEW h \in OwnedBy(t)
             PROVE  h.client = core[t].client
  BY DEF OwnOK
<1>1. h \in Rows(t) \cup Puts(t) \cup OnWire(t)
  BY OwnedIs
<1>2. Begun(t)
  BY <1>1, NothingYet
<1>3. h \in InPlay
  BY <1>1, OwnedInPlay
<1>4. h.client = idb.client /\ core[t].client = idb.client
  BY <1>2, <1>3 DEF EpochOK, Begun
<1>5. QED
  BY <1>4

\* In embed nothing is stored and nothing is on its way to the disk.
LEMMA EmbedHasNoDisk ==
    EpochOK /\ ~Browser => Stored = {} /\ \A t \in Tabs : Puts(t) = {} /\ Numbered(t) = {}
<1> SUFFICES ASSUME EpochOK, ~Browser
             PROVE  Stored = {} /\ \A t \in Tabs : Puts(t) = {} /\ Numbered(t) = {}
  OBVIOUS
<1>1. idb.rows = << >> /\ \A t \in Tabs : tasks[t] = << >>
  BY DEF EpochOK
<1>2. DOMAIN << >> = {}
  OBVIOUS
<1>3. Stored = {}
  BY <1>1, <1>2 DEF Stored, Enveloped, OnDisk
<1>4. \A t \in Tabs : Puts(t) = {}
  BY <1>1, PutsMade DEF Puts, Enveloped
<1>5. \A t \in Tabs : Numbered(t) = {}
  BY <1>1, <1>2 DEF Numbered
<1>6. QED
  BY <1>3, <1>4, <1>5

\* A closed tab has no writes.
LEMMA ClosedHasNone ==
    Types /\ SocketsOK /\ AlignInv /\ OrderInv /\ DiskOK =>
      \A v \in Tabs : phase[v] = "closed" => OwnedBy(v) = {}
<1> SUFFICES ASSUME Types, SocketsOK, AlignInv, OrderInv, DiskOK, NEW v \in Tabs, phase[v] = "closed"
             PROVE  OwnedBy(v) = {}
  OBVIOUS
<1>1. ~Begun(v)
  BY DEF Begun
<1>2. Rows(v) = {} /\ Puts(v) = {} /\ OnWire(v) = {}
  BY <1>1, NothingYet DEF OrderInv
<1>3. QED
  BY <1>2, OwnedIs

\* A tab has only what it had, and what was on disk.
Gathers(u) == OwnedBy(u)' \subseteq OwnedBy(u) \cup Stored

\* So its writes are its own.
LEMMA OwnStep ==
    ASSUME SocketsOK', AlignInv', Types', OrderInv, OrderInv', DiskOK', Browser' = Browser,
           OwnOK, \A u \in Tabs : Gathers(u),
           \A u \in Tabs : phase'[u] = "closed" \/ core'[u].client = core[u].client \/ OwnedBy(u)' = {}
    PROVE  OwnOK'
<1>1. CASE Browser
  <2>1. (Types /\ SocketsOK /\ AlignInv /\ EpochOK /\ DiskOK /\ Browser => OwnOK)'
    BY OwnBrowser, PTL
  <2>2. QED
    BY <1>1, <2>1 DEF OrderInv
<1>2. CASE ~Browser
  <2> SUFFICES ASSUME NEW u \in Tabs, NEW h \in OwnedBy(u)' PROVE h.client = core'[u].client
    BY DEF OwnOK
  <2>1. Stored = {}
    BY <1>2, EmbedHasNoDisk DEF OrderInv
  <2>2. h \in OwnedBy(u)
    BY <2>1 DEF Gathers
  <2>3. phase'[u] # "closed"
    <3>1. (Types /\ SocketsOK /\ AlignInv /\ OrderInv /\ DiskOK =>
             \A v \in Tabs : phase[v] = "closed" => OwnedBy(v) = {})'
      BY ClosedHasNone, PTL
    <3>2. QED
      BY <3>1
  <2>4. core'[u].client = core[u].client
    BY <2>3
  <2>5. QED
    BY <2>2, <2>4 DEF OwnOK
<1>3. QED
  BY <1>1, <1>2

\* The marks move to the wire ids of writes in play, if at all.
MarkMoves ==
    /\ DOMAIN mark' = DOMAIN mark
    /\ \A c \in DOMAIN mark :
         mark'[c] = mark[c] \/ \E h \in InPlay : h.client = c /\ mark'[c] = h.wire

\* They stay below the next wire id of every tab that keeps its identity and its epoch.
LEMMA MarksStep ==
    ASSUME Types, Types', OrderInv, MarksOK, MarkMoves, UNCHANGED scenario, idb'.epoch = idb.epoch,
           \A u \in Tabs : TabKeeps(u)
    PROVE  MarksOK'
<1> USE DEF MarkMoves
<1>1. EpochOK /\ Browser' = Browser
  BY DEF OrderInv, Browser, Setup
<1>2. ASSUME NEW u \in Tabs, Begun(u)'
      PROVE  mark'[core'[u].client] < core'[u].epoch * IdRange + core'[u].seq
  <2> DEFINE base == core[u].epoch * IdRange
             c == core[u].client
  <2>1. phase'[u] # "closed"
    BY <1>2 DEF Begun
  <2>2. /\ Begun(u) /\ core'[u].client = c /\ core'[u].epoch = core[u].epoch
        /\ core'[u].seq >= core[u].seq /\ phase[u] # "closed"
    BY <1>1, <1>2, <2>1, TabKept
  <2>3. c \in DOMAIN mark /\ mark[c] < base + core[u].seq
    BY <1>1, <2>2 DEF EpochOK, MarksOK
  <2>4. \A h \in InPlay : h.client = c => h.wire < base + core[u].seq
    BY <1>1, <2>2 DEF EpochOK
  <2>5. base \in Nat /\ core[u].seq \in Nat /\ core'[u].seq \in Nat /\ base = core'[u].epoch * IdRange
    <3>1. core[u] \in Core /\ core'[u] \in Core /\ IdRange \in Nat
      BY SyncClientAssumption DEF Types, ClientTypes
    <3>2. core[u].epoch \in Nat /\ core[u].seq \in Nat /\ core'[u].seq \in Nat
      BY <3>1, CoreFields
    <3>3. QED
      BY <2>2, <3>1, <3>2
  <2>6. mark[c] \in Int /\ \A h \in InPlay : h.wire \in Nat
    BY <2>3, NoneFacts, InPlayType DEF Types, ServerTypes, Option
  <2> HIDE DEF base, c
  <2>7. mark'[c] \in Int /\ mark'[c] < base + core[u].seq
    BY <2>3, <2>4, <2>6
  <2>8. mark'[c] < base + core'[u].seq
    BY <2>2, <2>5, <2>7
  <2>9. QED
    BY <2>2, <2>5, <2>8
<1>3. Browser' => \A c \in DOMAIN mark' : mark'[c] < (idb'.epoch + 1) * IdRange
  BY <1>1 DEF MarksOK, EpochOK
<1>4. QED
  BY <1>2, <1>3 DEF MarksOK

\* A fresh client has a fresh mark.
LEMMA OpenMarks ==
    ASSUME Types, Types', OrderInv, MarksOK, NEW t \in Tabs,
           (Opened(t, "identity") /\ Browser) \/ (Opened(t, "ready") /\ ~Browser)
    PROVE  MarksOK'
<1> DEFINE x == NewClient(FreshClient, Setup.password)
           p == IF Browser THEN "identity" ELSE "ready"
           m == Len(mark) + 1
<1>1. /\ phase[t] = "closed" /\ core' = [core EXCEPT ![t] = x] /\ mark' = Append(mark, None)
      /\ phase' = [phase EXCEPT ![t] = p] /\ UNCHANGED <<idb, scenario>>
  BY DEF Opened, browser, bounds
<1>2. x.client = m /\ x.seq = 0 /\ x.epoch = 0
  BY DEF NewClient, FreshClient
<1> HIDE DEF x
<1>3. /\ DOMAIN mark' = 1..m /\ DOMAIN mark = 1..(m - 1) /\ m \in Nat /\ m - 1 \in Nat
      /\ mark'[m] = None /\ \A c \in DOMAIN mark : mark'[c] = mark[c]
  BY <1>1 DEF Types, ServerTypes
<1> HIDE DEF m
<1>4. EpochOK /\ Browser' = Browser /\ IdRange \in Nat \ {0}
  BY <1>1, SyncClientAssumption DEF OrderInv, Browser, Setup
<1>5. ASSUME NEW u \in Tabs, Begun(u)'
      PROVE  mark'[core'[u].client] < core'[u].epoch * IdRange + core'[u].seq
  <2>1. core'[u] = (IF u = t THEN x ELSE core[u]) /\ phase'[u] = IF u = t THEN p ELSE phase[u]
    BY <1>1 DEF Types, ClientTypes
  <2>2. CASE u = t
    BY <1>2, <1>3, <1>4, <2>1, <2>2, NoneFacts
  <2>3. CASE u # t
    <3>1. Begun(u) /\ core'[u] = core[u] /\ core[u].client \in DOMAIN mark
      BY <1>4, <1>5, <2>1, <2>3 DEF Begun, EpochOK
    <3>2. QED
      BY <1>3, <3>1 DEF MarksOK
  <2>4. QED
    BY <2>2, <2>3
<1>6. ASSUME Browser, NEW c \in DOMAIN mark' PROVE mark'[c] < (idb'.epoch + 1) * IdRange
  <2>1. CASE c = m
    <3>1. idb'.epoch = idb.epoch /\ idb.epoch \in Nat
      BY <1>1 DEF Types, DiskTypes
    <3>2. (idb.epoch + 1) * IdRange \in Nat
      BY <1>4, <3>1
    <3>3. QED
      BY <1>3, <2>1, <3>1, <3>2, NoneFacts
  <2>2. CASE c # m
    BY <1>1, <1>3, <1>6, <2>2 DEF MarksOK
  <2>3. QED
    BY <2>1, <2>2
<1>7. QED
  BY <1>4, <1>5, <1>6 DEF MarksOK

\* The only tab of an origin takes its identity and its epoch.
LEMMA EarlyMarks ==
    ASSUME Types, Types', AlignInv', OrderInv, OrderInv', MarksOK, NEW t \in Tabs, Alone,
           AdoptIdentity(t) \/ ReadEpoch(t) \/ BumpEpoch(t)
    PROVE  MarksOK'
<1>1. UNCHANGED <<mark, scenario>> /\ phase[t] # "closed" /\ phase[t] # "ready"
  BY DEF AdoptIdentity, ReadEpoch, BumpEpoch, server, bounds
<1>2. Browser /\ Browser' /\ EpochOK /\ EpochOK' /\ \A u \in Tabs : u = t
  BY <1>1 DEF OrderInv, EpochOK, Browser, Setup, Alone
<1>3. idb.epoch \in Nat /\ idb'.epoch \in Nat /\ IdRange \in Nat \ {0} /\ \A c \in DOMAIN mark : mark[c] \in Int
  BY SyncClientAssumption, NoneFacts DEF Types, DiskTypes, ServerTypes, Option
<1>4. idb'.epoch = idb.epoch \/ (BumpEpoch(t) /\ idb'.epoch = idb.epoch + 1)
  <2>1. CASE AdoptIdentity(t) \/ ReadEpoch(t)
    BY <2>1 DEF AdoptIdentity, ReadEpoch, browser, Types, DiskTypes
  <2>2. CASE BumpEpoch(t)
    <3>1. idb' = [idb EXCEPT !.epoch = core[t].epoch] /\ core[t].epoch = idb.epoch + 1
      BY <1>2, <2>2 DEF BumpEpoch, EpochOK
    <3>2. QED
      BY <2>2, <3>1 DEF Types, DiskTypes
  <2>3. QED
    BY <2>1, <2>2
<1>5. \A c \in DOMAIN mark : mark[c] < (idb.epoch + 1) * IdRange
  BY <1>2 DEF MarksOK
<1>6. \A c \in DOMAIN mark' : mark'[c] < (idb'.epoch + 1) * IdRange
  <2>1. CASE idb'.epoch = idb.epoch
    BY <1>1, <1>5, <2>1
  <2>2. CASE idb'.epoch = idb.epoch + 1
    <3> DEFINE b == (idb.epoch + 1) * IdRange
    <3>1. b \in Nat /\ (idb'.epoch + 1) * IdRange = b + IdRange
      BY <1>3, <2>2
    <3> HIDE DEF b
    <3>2. \A c \in DOMAIN mark : mark[c] < b
      BY <1>5 DEF b
    <3>3. QED
      BY <1>1, <1>3, <3>1, <3>2
  <2>3. QED
    BY <1>4, <2>1, <2>2
<1>7. ASSUME NEW u \in Tabs, Begun(u)'
      PROVE  mark'[core'[u].client] < core'[u].epoch * IdRange + core'[u].seq
  <2>1. u = t /\ phase'[t] \in {"outbox", "replace", "log", "ready"}
    BY <1>2, <1>7 DEF Begun
  <2>2. BumpEpoch(t) /\ phase'[t] = "outbox"
    BY <2>1 DEF AdoptIdentity, ReadEpoch, BumpEpoch, Types, ClientTypes
  <2>3. core'[t].epoch = idb'.epoch /\ core'[t].client = idb'.client /\ core'[t].client \in DOMAIN mark'
    BY <1>2, <2>2 DEF EpochOK, Begun
  <2>4. idb'.epoch = idb.epoch + 1
    <3>1. idb' = [idb EXCEPT !.epoch = core[t].epoch] /\ core[t].epoch = idb.epoch + 1
      BY <1>2, <2>2 DEF BumpEpoch, EpochOK
    <3>2. QED
      BY <3>1 DEF Types, DiskTypes
  <2>5. core'[t].seq = 0
    BY <2>2 DEF AlignInv, Good, Starting
  <2>6. mark[core'[t].client] < core'[t].epoch * IdRange
    BY <1>1, <1>5, <2>3, <2>4
  <2>7. core'[t].epoch * IdRange + core'[t].seq = core'[t].epoch * IdRange
    BY <1>3, <2>3, <2>5
  <2>8. QED
    BY <1>1, <2>1, <2>6, <2>7
<1>8. QED
  BY <1>6, <1>7 DEF MarksOK

-----------------------------------------------------------------------------
(* A socket is authenticated first *)

\* No operation but the opening of a client touches its password.
LEMMA PasswordKept ==
    ASSUME NEW c \in Core
    PROVE  /\ \A id : AdoptClientId(c, id).password = c.password
           /\ \A e : [c EXCEPT !.epoch = e].password = c.password
           /\ \A b : SessionFrame(c, b).password = c.password
           /\ \A b : /\ AddLiveQuery(c, "q", b).password = c.password
                     /\ RemoveLiveQuery(c, "q", b).password = c.password
           /\ OnOpen(c).core.password = c.password
           /\ \A rows : RestoreOutbox(c, rows).password = c.password
           /\ ClearOutbox(c).password = c.password
           /\ AckReply(c).core.password = c.password
<1>1. \A id : AdoptClientId(c, id).password = c.password
  BY DEF AdoptClientId, Core
<1>2. \A e : [c EXCEPT !.epoch = e].password = c.password
  BY DEF Core
<1>3. \A b : SessionFrame(c, b).password = c.password
  BY DEF SessionFrame, Core
<1>4. \A b : AddLiveQuery(c, "q", b).password = c.password
  BY DEF AddLiveQuery, SessionFrame, Core
<1>5. \A b : RemoveLiveQuery(c, "q", b).password = c.password
  BY DEF RemoveLiveQuery, SessionFrame, Core
<1>6. OnOpen(c).core.password = c.password
  BY DEF OnOpen, Core
<1>8. ASSUME NEW rows PROVE RestoreOutbox(c, rows).password = c.password
  BY DEF RestoreOutbox, Core
<1>9. ClearOutbox(c).password = c.password
  BY DEF ClearOutbox, Core
<1>10. AckReply(c).core.password = c.password
  BY DEF AckReply, Core
<1>11. QED
  BY <1>1, <1>2, <1>3, <1>4, <1>5, <1>6, <1>8, <1>9, <1>10

\* The same for a row that is queued.
LEMMA EnqueuePassword ==
    ASSUME NEW c \in Core, NEW w, NEW connected \in BOOLEAN
    PROVE  /\ EnqueueWrite(c, "write", w, TRUE, connected).core.password = c.password
           /\ EnqueueWrite(c, "subscribe", w, FALSE, connected).core.password = c.password
BY DEF EnqueueWrite, Core

\* What is first on a socket stays first.
LineKept(n) ==
    \/ up'[n] = up[n] /\ (Listening(n)' => Listening(n))
    \/ up[n] # << >> /\ up'[n] # << >> /\ Head(up'[n]) = Head(up[n])
    \/ up'[n] = << >> /\ ~Listening(n)'
    \/ up[n] = << >> /\ Listening(n)
\* The passwords of the open clients stand.
PasswordsKept ==
    \A u \in Tabs : phase'[u] # "closed" => phase[u] # "closed" /\ core'[u].password = core[u].password

\* A step that leaves the server's sessions, the passwords and the head of every line as they are.
LEMMA AuthSame ==
    ASSUME AuthOK, UNCHANGED <<auth, subscribed, scenario>>, DOMAIN up' = DOMAIN up, Len(up') = Len(up),
           PasswordsKept, \A n \in DOMAIN up : LineKept(n)
    PROVE  AuthOK'
<1>1. LineTypes'
  BY DEF AuthOK, LineTypes
<1>2. ASSUME NEW u \in Tabs, phase'[u] # "closed" PROVE core'[u].password = Setup'.password
  BY <1>2 DEF AuthOK, PasswordsKept, Setup
<1>3. ASSUME NEW n \in DOMAIN up PROVE Authenticates(n)'
  <2>1. Authenticates(n) /\ LineKept(n) /\ auth'[n] = auth[n]
    BY DEF AuthOK
  <2>2. QED
    BY <2>1 DEF Authenticates, LineKept
<1>4. QED
  BY <1>1, <1>2, <1>3 DEF AuthOK

\* Nobody begins to listen.
LEMMA ListensNot ==
    ASSUME Types, NEW n \in DOMAIN up, \A u \in Tabs : conn'[u] = conn[u] \/ conn'[u] = 0
    PROVE  Listening(n)' => Listening(n)
<1>1. n # 0
  BY DEF Types, NetworkTypes
<1>2. QED
  BY <1>1 DEF Listening

\* Nothing changes on the sockets.
LEMMA AuthQuiet ==
    ASSUME Types, AuthOK, UNCHANGED <<auth, subscribed, scenario, up>>, PasswordsKept,
           \A u \in Tabs : conn'[u] = conn[u] \/ conn'[u] = 0
    PROVE  AuthOK'
<1>1. \A n \in DOMAIN up : LineKept(n)
  BY ListensNot DEF LineKept
<1>2. QED
  BY <1>1, AuthSame

\* A frame is sent.
LEMMA AuthSend ==
    ASSUME Types, SocketsOK, AuthOK, NEW t \in Tabs, NEW f \in Frame, up' = Send(t, f),
           UNCHANGED <<auth, subscribed, scenario, conn>>, PasswordsKept
    PROVE  AuthOK'
<1>1. CASE ~Connected(t)
  <2>1. UNCHANGED up
    BY <1>1 DEF Send
  <2>2. QED
    BY <2>1, AuthQuiet
<1>2. CASE Connected(t)
  <2> DEFINE m == conn[t]
             x == Append(up[m], f)
  <2>1. m \in DOMAIN up /\ up[m] \in Seq(Frame)
    BY <1>2 DEF SocketsOK, Types, NetworkTypes
  <2>2. x \in Seq(Frame) /\ x # << >> /\ (up[m] # << >> => Head(x) = Head(up[m]))
    <3> DEFINE s == up[m]
    <3>1. s \in Seq(Frame)
      BY <2>1
    <3> HIDE DEF s
    <3> DEFINE r == Append(s, f)
    <3>2. r \in Seq(Frame) /\ Len(r) = Len(s) + 1 /\ Len(s) \in Nat /\ \A i \in 1..Len(s) : r[i] = s[i]
      BY <3>1
    <3> HIDE DEF r
    <3>3. r # << >> /\ Head(r) = r[1]
      BY <3>2
    <3>4. s # << >> => Head(s) = s[1] /\ 1 \in 1..Len(s)
      BY <3>1
    <3>5. r \in Seq(Frame) /\ r # << >> /\ (s # << >> => Head(r) = Head(s))
      BY <3>2, <3>3, <3>4
    <3>6. QED
      BY <3>5 DEF r, s
  <2>3. up' = [up EXCEPT ![m] = x]
    BY <1>2 DEF Send
  <2>4. Listening(m)
    BY DEF Listening
  <2> HIDE DEF x
  <2>5. DOMAIN up' = DOMAIN up /\ Len(up') = Len(up) /\ \A n \in DOMAIN up : up'[n] = IF n = m THEN x ELSE up[n]
    BY <2>2, <2>3, UpSet DEF Types
  <2>6. \A n \in DOMAIN up : Listening(n)' => Listening(n)
    BY ListensNot
  <2> HIDE DEF m
  <2>7. \A n \in DOMAIN up : LineKept(n)
    BY <2>2, <2>4, <2>5, <2>6 DEF LineKept
  <2>8. QED
    BY <2>5, <2>7, AuthSame
<1>3. QED
  BY <1>1, <1>2

\* The connection breaks, and nobody listens any more.
LEMMA AuthClose ==
    ASSUME Types, SocketsOK, AuthOK, NEW t \in Tabs, Close(t)
    PROVE  AuthOK'
<1>0. PICK m : m = conn[t]
  OBVIOUS
<1>1. /\ Connected(t) /\ conn' = [conn EXCEPT ![t] = 0]
      /\ UNCHANGED <<core, phase, auth, subscribed, scenario>>
  BY DEF Close, HangUp
<1>2. PICK arrive \in 0..Len(up[m]) : up' = [up EXCEPT ![m] = SubSeq(up[m], 1, arrive)]
  BY <1>0 DEF Close
<1> DEFINE x == SubSeq(up[m], 1, arrive)
<1>3. m \in DOMAIN up /\ up[m] \in Seq(Frame) /\ m # 0
  BY <1>0, <1>1 DEF SocketsOK, Types, NetworkTypes, Connected
<1>4. x \in Seq(Frame) /\ (x = << >> \/ (up[m] # << >> /\ x # << >> /\ Head(x) = Head(up[m])))
  BY <1>3
<1>5. up' = [up EXCEPT ![m] = x]
  BY <1>2
<1> HIDE DEF x
<1>6. DOMAIN up' = DOMAIN up /\ Len(up') = Len(up) /\ \A n \in DOMAIN up : up'[n] = IF n = m THEN x ELSE up[n]
  BY <1>4, <1>5, UpSet DEF Types
<1>7. \A u \in Tabs : conn'[u] = IF u = t THEN 0 ELSE conn[u]
  BY <1>1 DEF Types, ClientTypes
<1>8. \A n \in DOMAIN up : Listening(n)' => Listening(n)
  BY <1>7, ListensNot
<1>9. ~Listening(m)'
  <2>1. \A u \in Tabs : u # t => conn[u] # m
    BY <1>0, <1>1, <1>3 DEF SocketsOK, Connected
  <2>2. QED
    BY <1>3, <1>7, <2>1 DEF Listening
<1>10. \A n \in DOMAIN up : LineKept(n)
  <2> SUFFICES ASSUME NEW n \in DOMAIN up PROVE LineKept(n)
    OBVIOUS
  <2>1. CASE n # m
    BY <1>6, <1>8, <2>1 DEF LineKept
  <2>2. CASE n = m /\ x = << >>
    BY <1>6, <1>9, <2>2 DEF LineKept
  <2>3. CASE n = m /\ x # << >>
    BY <1>4, <1>6, <2>3 DEF LineKept
  <2>4. QED
    BY <2>1, <2>2, <2>3
<1>11. PasswordsKept
  BY <1>1 DEF PasswordsKept
<1>12. QED
  BY <1>1, <1>6, <1>10, <1>11, AuthSame

\* What a client sends on a new socket: the session, which begins with its password if it has one,
\* and its outbox in order.
Opens(c, s, n) ==
    /\ s \in Seq(Frame) /\ Len(s) = n + Len(c.outbox)
    /\ \A i \in 1..n : s[i] \in SessionFrameSet
    /\ \A j \in 1..Len(c.outbox) : s[n + j] = c.outbox[j].frame
    /\ c.password => n > 0 /\ s[1].kind = "auth"

\* Two sequences of frames one after the other.
Joined(a, b, s) ==
    /\ Len(s) = Len(a) + Len(b)
    /\ \A i \in 1..Len(a) : s[i] = a[i]
    /\ \A j \in 1..Len(b) : s[Len(a) + j] = b[j]

\* Concatenation puts one sequence behind the other.
LEMMA JoinedFacts == ASSUME NEW a \in Seq(Frame), NEW b \in Seq(Frame) PROVE Joined(a, b, a \o b)
BY ConcatFacts DEF Joined

\* So it is.
LEMMA OpenFrames == ASSUME NEW c \in Core PROVE \E n \in Nat : Opens(c, OnOpen(c).frames, n)
<1> DEFINE a == SessionCommand("auth")
           first == IF c.password THEN <<a>> ELSE << >>
           q == [i \in 1..Cardinality(c.queries) |-> SessionCommand("query")]
           rows == [i \in 1..Len(c.outbox) |-> c.outbox[i].frame]
           r == first \o q
           s == OnOpen(c).frames
           k == Len(c.outbox)
<1>1. a.kind = "auth" /\ a \in SessionFrameSet /\ SessionCommand("query") \in SessionFrameSet
  BY SessionCommandType DEF SessionCommand
<1>2. s = r \o rows /\ s \in Seq(Frame)
  BY OnOpenType DEF OnOpen, SessionFrames
<1>3. q \in Seq(SessionFrameSet)
  <2>1. Cardinality(c.queries) \in Nat
    <3>1. IsFiniteSet({"q"})
      BY FS_Singleton
    <3>2. c.queries \subseteq {"q"}
      BY CoreFields
    <3>3. QED
      BY <3>1, <3>2, FS_Subset, FS_CardinalityType
  <2>2. QED
    BY <1>1, <2>1
<1>4. c.outbox \in Seq(Row) /\ k \in Nat /\ rows \in Seq(Frame) /\ Len(rows) = k
      /\ \A j \in 1..k : rows[j] = c.outbox[j].frame
  <2>1. c.outbox \in Seq(Row)
    BY CoreFields
  <2>2. \A i \in 1..Len(c.outbox) : c.outbox[i].frame \in Frame
    BY <2>1, RowFacts DEF Frame
  <2>3. QED
    BY <2>1, <2>2
<1>5. first \in Seq(SessionFrameSet) /\ (c.password => Len(first) = 1 /\ first[1] = a)
  BY <1>1
<1> HIDE DEF a, q, first
<1>6. r \in Seq(SessionFrameSet) /\ Len(r) = Len(first) + Len(q) /\ (c.password => r[1] = a)
  <2>1. \A i \in 1..Len(first) : r[i] = first[i]
    BY <1>3, <1>5, ConcatFacts
  <2>2. QED
    BY <1>3, <1>5, <2>1, ConcatFacts
<1>7. Len(r) \in Nat /\ (c.password => Len(r) > 0)
  BY <1>3, <1>5, <1>6
<1>20. s = r \o rows
  BY <1>2
<1> HIDE DEF rows, r, s, k
<1>8. r \in Seq(Frame)
  BY <1>6 DEF Frame
<1>9. /\ Len(s) = Len(r) + k
      /\ \A i \in 1..Len(r) : s[i] = r[i]
      /\ \A j \in 1..k : s[Len(r) + j] = rows[j]
  <2>1. s = r \o rows /\ rows \in Seq(Frame) /\ Len(rows) = k
    BY <1>20, <1>4
  <2>2. Joined(r, rows, s)
    BY <1>8, <2>1, JoinedFacts, Zenon
  <2>3. QED
    BY <2>1, <2>2 DEF Joined
<1>10. \A i \in 1..Len(r) : r[i] \in SessionFrameSet
  BY <1>6
<1>11. c.password => s[1].kind = "auth"
  <2>1. c.password => 1 \in 1..Len(r)
    BY <1>7
  <2>2. QED
    BY <1>1, <1>6, <1>9, <2>1
<1>12. Opens(c, s, Len(r))
  BY <1>2, <1>4, <1>7, <1>9, <1>10, <1>11 DEF Opens, k
<1>13. QED
  BY <1>7, <1>12 DEF s

\* A socket opens with the password, if there is one.
LEMMA AuthConnect ==
    ASSUME Types, SocketsOK, AuthOK, NEW t \in Tabs, Connect(t)
    PROVE  AuthOK'
<1> DEFINE c == core[t]
           opened == OnOpen(c)
           last == IF channel[t] THEN <<SessionCommand("subscribe")>> ELSE << >>
           frames == opened.frames \o last
           x == SessionFrame(opened.core, channel[t])
<1>1. /\ core' = [core EXCEPT ![t] = x] /\ up' = Append(up, frames) /\ Ready(t) /\ ~Connected(t)
      /\ auth' = Append(auth, ~Setup.password) /\ subscribed' = Append(subscribed, FALSE)
      /\ conn' = [conn EXCEPT ![t] = Len(up) + 1] /\ UNCHANGED <<phase, scenario>>
  BY DEF Connect, bounds
<1>2. c \in Core /\ opened.core \in Core /\ x.password = c.password /\ c.password = Setup.password
  <2>1. c \in Core /\ opened.core \in Core
    BY OnOpenType DEF Types, ClientTypes
  <2>2. x.password = opened.core.password /\ opened.core.password = c.password
    BY <2>1, PasswordKept
  <2>3. phase[t] # "closed"
    BY <1>1 DEF Ready
  <2>4. QED
    BY <2>1, <2>2, <2>3 DEF AuthOK
<1>3. frames \in Seq(Frame) /\ (c.password => frames # << >> /\ Head(frames).kind = "auth")
  <2> DEFINE s == opened.frames
  <2>1. PICK n \in Nat : Opens(c, s, n)
    BY <1>2, OpenFrames
  <2> HIDE DEF s
  <2>2. /\ s \in Seq(Frame) /\ Len(s) = n + Len(c.outbox) /\ Len(c.outbox) \in Nat
        /\ c.password => n > 0 /\ s[1].kind = "auth"
    BY <1>2, <2>1, CoreFields DEF Opens
  <2>3. last \in Seq(Frame)
    BY SessionCommandType
  <2> HIDE DEF last
  <2>4. Joined(s, last, s \o last)
    BY <2>2, <2>3, JoinedFacts
  <2>5. frames = s \o last /\ s \o last \in Seq(Frame)
    BY <2>2, <2>3 DEF s
  <2> DEFINE r == s \o last
  <2>6. r \in Seq(Frame) /\ Joined(s, last, r) /\ frames = r
    BY <2>4, <2>5
  <2> HIDE DEF r, frames, c
  <2>7. ASSUME c.password PROVE r # << >> /\ Head(r).kind = "auth"
    <3>1. 1 \in 1..Len(s) /\ Len(last) \in Nat
      BY <2>2, <2>3, <2>7
    <3>2. r[1] = s[1] /\ Len(r) > 0
      BY <2>6, <3>1 DEF Joined
    <3>3. Head(r) = r[1] /\ r # << >>
      BY <2>6, <3>2
    <3>4. QED
      BY <2>2, <2>7, <3>2, <3>3
  <2>8. QED
    BY <2>6, <2>7
<1> DEFINE m == Len(up) + 1
<1> HIDE DEF frames
<1>4. /\ m \in Nat /\ DOMAIN up = 1..(m - 1) /\ DOMAIN up' = 1..m /\ Len(up') = m
      /\ up'[m] = frames /\ \A n \in 1..(m - 1) : up'[n] = up[n]
  <2>1. up \in Seq(Seq(Frame)) /\ frames \in Seq(Frame) /\ up' = Append(up, frames)
    BY <1>1, <1>3 DEF Types, NetworkTypes
  <2>2. QED
    BY <2>1
<1>5. /\ LineTypes'
      /\ auth'[m] = ~Setup.password /\ \A n \in 1..(m - 1) : auth'[n] = auth[n]
  <2>1. auth \in Seq(BOOLEAN) /\ subscribed \in Seq(BOOLEAN) /\ Len(auth) = Len(up) /\ Len(subscribed) = Len(up)
    BY DEF AuthOK, LineTypes
  <2>2. auth' \in Seq(BOOLEAN) /\ subscribed' \in Seq(BOOLEAN) /\ Len(auth') = m /\ Len(subscribed') = m
    BY <1>1, <2>1
  <2>3. QED
    BY <1>1, <1>4, <2>1, <2>2 DEF LineTypes
<1>6. \A u \in Tabs : core'[u] = (IF u = t THEN x ELSE core[u]) /\ conn'[u] = IF u = t THEN m ELSE conn[u]
  BY <1>1 DEF Types, ClientTypes
<1> HIDE DEF x, frames
<1>7. ASSUME NEW u \in Tabs, phase'[u] # "closed" PROVE core'[u].password = Setup'.password
  BY <1>1, <1>2, <1>6, <1>7 DEF AuthOK, Setup
<1>8. ASSUME NEW n \in DOMAIN up' PROVE Authenticates(n)'
  <2>1. CASE n = m
    <3>1. up'[n] = frames /\ auth'[n] = ~Setup.password
      BY <1>4, <1>5, <2>1
    <3>2. Setup.password => up'[n] # << >> /\ Head(up'[n]).kind = "auth"
      BY <1>2, <1>3, <3>1
    <3>3. QED
      BY <3>1, <3>2 DEF Authenticates
  <2>2. CASE n # m
    <3>1. n \in DOMAIN up /\ up'[n] = up[n] /\ auth'[n] = auth[n] /\ n # m
      BY <1>4, <1>5, <2>2
    <3>2. Listening(n)' => Listening(n)
      BY <1>6, <3>1 DEF Listening
    <3>3. QED
      BY <3>1, <3>2 DEF Authenticates, AuthOK
  <2>3. QED
    BY <2>1, <2>2
<1>9. QED
  BY <1>5, <1>7, <1>8 DEF AuthOK

\* The server takes a command.
LEMMA AuthServe ==
    ASSUME Types, AuthOK, NEW n \in DOMAIN up, Serve(n)
    PROVE  AuthOK'
<1> DEFINE f == Head(up[n])
           x == Tail(up[n])
           a == auth[n] \/ f.kind = "auth"
<1>1. /\ up[n] # << >> /\ up' = [up EXCEPT ![n] = x] /\ auth' = [auth EXCEPT ![n] = a]
      /\ UNCHANGED <<core, phase, conn, scenario>>
  BY DEF Serve, client, bounds
<1>2. PICK b \in BOOLEAN : subscribed' = [subscribed EXCEPT ![n] = b]
  BY DEF Serve
<1>3. a
  BY <1>1 DEF AuthOK, Authenticates
<1>4. auth \in Seq(BOOLEAN) /\ subscribed \in Seq(BOOLEAN) /\ Len(auth) = Len(up) /\ Len(subscribed) = Len(up)
  BY DEF AuthOK, LineTypes
<1>5. up[n] \in Seq(Frame)
  BY DEF Types, NetworkTypes
<1>6. x \in Seq(Frame)
  BY <1>1, <1>5
<1> HIDE DEF x
<1>7. DOMAIN up' = DOMAIN up /\ Len(up') = Len(up) /\ \A i \in DOMAIN up : up'[i] = IF i = n THEN x ELSE up[i]
  BY <1>1, <1>6, UpSet DEF Types
<1>8. auth' = [auth EXCEPT ![n] = TRUE]
  BY <1>1, <1>3
<1>9. DOMAIN auth = DOMAIN up
  BY <1>4 DEF Types, NetworkTypes
<1>10. LineTypes' /\ auth'[n] /\ \A i \in DOMAIN up : i # n => auth'[i] = auth[i]
  BY <1>2, <1>4, <1>7, <1>8, <1>9 DEF LineTypes
<1>11. ASSUME NEW i \in DOMAIN up PROVE Authenticates(i)'
  <2>1. CASE i = n
    BY <1>10, <2>1 DEF Authenticates
  <2>2. CASE i # n
    <3>1. up'[i] = up[i] /\ auth'[i] = auth[i] /\ (Listening(i)' <=> Listening(i))
      BY <1>1, <1>7, <1>10, <2>2 DEF Listening
    <3>2. QED
      BY <3>1 DEF Authenticates, AuthOK
  <2>3. QED
    BY <2>1, <2>2
<1>12. QED
  BY <1>1, <1>7, <1>10, <1>11 DEF AuthOK, Setup

\* One client changes, and keeps its password.
LEMMA PasswordSet ==
    ASSUME Types, NEW t \in Tabs, NEW x, core' = [core EXCEPT ![t] = x], x.password = core[t].password,
           \A u \in Tabs : phase'[u] # "closed" => phase[u] # "closed"
    PROVE  PasswordsKept
BY DEF PasswordsKept, Types, ClientTypes

\* A client is opened with the password.
LEMMA AuthOpen ==
    ASSUME Types, AuthOK, NEW t \in Tabs, NEW p, Opened(t, p)
    PROVE  AuthOK'
<1> DEFINE x == NewClient(FreshClient, Setup.password)
<1>1. /\ core' = [core EXCEPT ![t] = x] /\ phase' = [phase EXCEPT ![t] = p]
      /\ UNCHANGED <<conn, up, auth, subscribed, scenario>>
  BY DEF Opened, network, bounds
<1>2. x.password = Setup.password
  BY DEF NewClient
<1> HIDE DEF x
<1>3. \A u \in Tabs : core'[u] = (IF u = t THEN x ELSE core[u]) /\ (u # t => phase'[u] = phase[u])
  BY <1>1 DEF Types, ClientTypes
<1>4. \A n \in DOMAIN up : Authenticates(n)' <=> Authenticates(n)
  BY <1>1 DEF Authenticates, Listening
<1>5. QED
  BY <1>1, <1>2, <1>3, <1>4 DEF AuthOK, LineTypes, Setup

\* The steps of a start.
LEMMA AuthStart ==
    ASSUME Types, AuthOK, NEW t \in Tabs,
           \/ AdoptIdentity(t) \/ ReadEpoch(t) \/ BumpEpoch(t) \/ RestoreRows(t)
           \/ ReplaceRows(t) \/ ReplayLog(t)
    PROVE  AuthOK'
<1>1. /\ UNCHANGED <<conn, up, auth, subscribed, scenario>> /\ phase[t] # "closed"
      /\ \A u \in Tabs : phase'[u] # "closed" => phase[u] # "closed"
  BY DEF AdoptIdentity, ReadEpoch, BumpEpoch, RestoreRows, ReplaceRows, ReplayLog, network, bounds,
         Types, ClientTypes
<1>2. core[t] \in Core
  BY DEF Types, ClientTypes
<1>3. UNCHANGED core \/ \E x : core' = [core EXCEPT ![t] = x] /\ x.password = core[t].password
  <2>1. CASE AdoptIdentity(t)
    <3> DEFINE x == AdoptClientId(core[t], idb.client)
    <3>1. core' = core \/ core' = [core EXCEPT ![t] = x]
      BY <2>1 DEF AdoptIdentity
    <3>2. x.password = core[t].password
      BY <1>2, PasswordKept, Zenon
    <3> HIDE DEF x
    <3>3. QED
      BY <3>1, <3>2, Zenon
  <2>2. CASE ReadEpoch(t)
    <3> DEFINE x == [core[t] EXCEPT !.epoch = idb.epoch + 1]
    <3>1. core' = [core EXCEPT ![t] = x]
      BY <2>2 DEF ReadEpoch
    <3>2. x.password = core[t].password
      BY <1>2 DEF Core
    <3> HIDE DEF x
    <3>3. QED
      BY <3>1, <3>2, Zenon
  <2>3. CASE RestoreRows(t)
    <3> DEFINE frames == InOrder(idb.rows)
               rows == [i \in 1..Len(frames) |-> [id |-> i, frame |-> frames[i]]]
    <3>1. core' = [core EXCEPT ![t] = RestoreOutbox(core[t], rows)]
      BY <2>3, Zenon DEF RestoreRows
    <3>2. RestoreOutbox(core[t], rows).password = core[t].password
      BY <1>2, PasswordKept, Zenon
    <3>3. QED
      BY <3>1, <3>2, Zenon
  <2>4. CASE BumpEpoch(t) \/ ReplaceRows(t) \/ ReplayLog(t)
    BY <2>4 DEF BumpEpoch, ReplaceRows, ReplayLog
  <2>5. QED
    BY <2>1, <2>2, <2>3, <2>4
<1>4. PasswordsKept
  <2>1. CASE UNCHANGED core
    BY <1>1, <2>1 DEF PasswordsKept
  <2>2. QED
    BY <1>1, <1>3, <2>1, PasswordSet
<1>5. QED
  BY <1>1, <1>4, AuthQuiet

\* The steps in which a client sends what it is asked to.
LEMMA AuthRequest ==
    ASSUME Types, SocketsOK, AuthOK, NEW t \in Tabs,
           \/ BrowserWrite(t) \/ EmbedWrite(t) \/ Read(t) \/ Query(t) \/ Unquery(t)
           \/ BrowserSubscribe(t) \/ EmbedSubscribe(t)
    PROVE  AuthOK'
<1>1. core[t] \in Core /\ Connected(t) \in BOOLEAN
  BY DEF Types, ClientTypes, Connected
<1>2. UNCHANGED <<phase, conn, auth, subscribed, scenario>>
  BY DEF BrowserWrite, EmbedWrite, Read, Query, Unquery, Command, BrowserSubscribe, EmbedSubscribe, bounds
<1>3. \E x, f : /\ core' = [core EXCEPT ![t] = x] /\ x.password = core[t].password
                /\ up' = Send(t, f) /\ f \in Frame
  <2>1. CASE BrowserWrite(t) \/ EmbedWrite(t)
    <3> DEFINE e == NewWrite(t)
    <3>1. core' = [core EXCEPT ![t] = e.core] /\ up' = Send(t, e.frame) /\ Ready(t)
      BY <2>1 DEF BrowserWrite, EmbedWrite, Enqueued
    <3>2. e.core.password = core[t].password
      BY <1>1, EnqueuePassword, Zenon DEF NewWrite
    <3>3. e.frame \in Frame
      <4>1. core[t].client # None /\ Len(issued) + 1 \in Nat
        BY <3>1 DEF Ready, Types, ClientTypes, HistoryTypes
      <4>2. Enqueues(core[t], e, Len(issued) + 1, WireId(core[t], core[t].seq), Connected(t))
        BY <1>1, <4>1, WriteEnqueues DEF NewWrite
      <4>3. QED
        BY <4>2 DEF Enqueues, Frame
    <3> HIDE DEF e
    <3>4. QED
      BY <3>1, <3>2, <3>3
  <2>2. CASE BrowserSubscribe(t)
    <3> DEFINE e == EnqueueWrite(core[t], "subscribe", None, FALSE, Connected(t))
    <3>1. core' = [core EXCEPT ![t] = e.core] /\ up' = Send(t, e.frame) /\ Ready(t)
      BY <2>2 DEF BrowserSubscribe
    <3>2. e.core.password = core[t].password
      BY <1>1, EnqueuePassword, Zenon
    <3>3. e.frame \in Frame
      <4>1. core[t].client # None
        BY <3>1 DEF Ready, Types, ClientTypes
      <4>2. Enqueues(core[t], e, None, None, Connected(t))
        BY <1>1, <4>1, SubscribeEnqueues, Zenon
      <4>3. QED
        BY <4>2 DEF Enqueues, Frame
    <3> HIDE DEF e
    <3>4. QED
      BY <3>1, <3>2, <3>3
  <2>3. CASE Read(t)
    <3>1. core' = [core EXCEPT ![t] = SessionFrame(core[t], TRUE)] /\ up' = Send(t, SessionCommand("read"))
      BY <2>3 DEF Read, Command
    <3>2. QED
      BY <1>1, <3>1, PasswordKept, SessionCommandType
  <2>4. CASE EmbedSubscribe(t)
    <3>1. core' = [core EXCEPT ![t] = SessionFrame(core[t], Connected(t))]
          /\ up' = Send(t, SessionCommand("subscribe"))
      BY <2>4 DEF EmbedSubscribe
    <3>2. QED
      BY <1>1, <3>1, PasswordKept, SessionCommandType
  <2>5. CASE Query(t) \/ Unquery(t)
    <3> DEFINE a == AddLiveQuery(core[t], "q", Connected(t))
               r == RemoveLiveQuery(core[t], "q", Connected(t))
    <3>1. (core' = [core EXCEPT ![t] = a] \/ core' = [core EXCEPT ![t] = r])
          /\ up' = Send(t, SessionCommand("query"))
      BY <2>5 DEF Query, Unquery, Command
    <3>2. a.password = core[t].password /\ r.password = core[t].password
      BY <1>1, PasswordKept
    <3> HIDE DEF a, r
    <3>3. QED
      BY <3>1, <3>2, SessionCommandType
  <2>6. QED
    BY <2>1, <2>2, <2>3, <2>4, <2>5
<1>4. PICK x, f : /\ core' = [core EXCEPT ![t] = x] /\ x.password = core[t].password
                  /\ up' = Send(t, f) /\ f \in Frame
  BY <1>3
<1>5. PasswordsKept
  BY <1>2, <1>4, PasswordSet
<1>6. QED
  BY <1>2, <1>4, <1>5, AuthSend

\* What a client makes of a frame, by its kind.
ReceiveReply(t) ==
    LET m == Head(down[conn[t]])
        ack == AckReply(core[t])
    IN  /\ m.kind = "reply" /\ core' = [core EXCEPT ![t] = ack.core]
        /\ Retired(t, ack.retired) /\ Answered(t, m.answer)
        /\ down' = [down EXCEPT ![conn[t]] = Tail(@)] /\ UNCHANGED conn
ReceivePush(t) ==
    /\ down' = [down EXCEPT ![conn[t]] = Tail(@)] /\ UNCHANGED <<core, conn, waiters, tasks, told>>
ReceiveHuge(t) == HangUp(t) /\ UNCHANGED <<core, tasks>>
\* One of the three.
LEMMA ReceiveIs ==
    ASSUME Types, SocketsOK, NEW t \in Tabs, Receive(t)
    PROVE  /\ Connected(t) /\ down[conn[t]] # << >>
           /\ UNCHANGED <<phase, idb, up, auth, subscribed, mark, applied, scenario, issued, skewed>>
           /\ fate' = Heard(Head(down[conn[t]]))
           /\ ReceiveReply(t) \/ ReceivePush(t) \/ ReceiveHuge(t)
           /\ core' = core \/ core' = [core EXCEPT ![t] = AckReply(core[t]).core]
           /\ conn' = conn \/ conn' = [conn EXCEPT ![t] = 0]
<1> DEFINE n == conn[t]
           m == Head(down[n])
<1>1. /\ Connected(t) /\ down[n] # << >>
      /\ UNCHANGED <<phase, idb, up, auth, subscribed, mark, applied, scenario, issued, skewed>>
      /\ fate' = Heard(m)
  BY DEF Receive, server, bounds
<1>2. m.kind \in {"reply", "huge", "push"}
  <2>1. n \in DOMAIN down /\ down[n] \in Seq(Message)
    BY <1>1 DEF SocketsOK, Types, NetworkTypes
  <2>2. m \in Message
    BY <1>1, <2>1
  <2>3. QED
    BY <2>2, MessageFacts
<1>3. ReceiveReply(t) \/ ReceivePush(t) \/ ReceiveHuge(t)
  <2>1. CASE m.kind = "reply"
    BY <2>1 DEF Receive, ReceiveReply
  <2>2. CASE m.kind = "push"
    BY <2>2 DEF Receive, ReceivePush
  <2>3. CASE m.kind = "huge"
    BY <2>3 DEF Receive, ReceiveHuge, Unparsable
  <2>4. QED
    BY <1>2, <2>1, <2>2, <2>3
<1>4. QED
  BY <1>1, <1>3 DEF ReceiveReply, ReceivePush, ReceiveHuge, HangUp

\* The other steps of a client.
LEMMA AuthOther ==
    ASSUME Types, SocketsOK, AuthOK, NEW t \in Tabs, Crash(t) \/ Clear(t) \/ Receive(t) \/ Commit(t)
    PROVE  AuthOK'
<1>1. UNCHANGED <<up, auth, subscribed, scenario>>
  BY DEF Crash, Clear, Receive, Commit, network, bounds
<1>2. \A u \in Tabs : conn'[u] = conn[u] \/ conn'[u] = 0
  <2>1. conn' = conn \/ conn' = [conn EXCEPT ![t] = 0]
    <3>1. CASE Crash(t) \/ Clear(t) \/ Commit(t)
      BY <3>1 DEF Crash, Clear, Commit, client
    <3>2. CASE Receive(t)
      BY <3>2, ReceiveIs
    <3>3. QED
      BY <3>1, <3>2
  <2>2. QED
    BY <2>1 DEF Types, ClientTypes
<1>3. core[t] \in Core
  BY DEF Types, ClientTypes
<1>4. PasswordsKept
  <2>1. CASE Crash(t)
    <3>1. phase' = [phase EXCEPT ![t] = "closed"]
          /\ core' = [core EXCEPT ![t] = NewClient(None, FALSE)]
      BY <2>1 DEF Crash
    <3>2. QED
      BY <3>1 DEF PasswordsKept, Types, ClientTypes
  <2>2. CASE Clear(t)
    <3>1. core' = [core EXCEPT ![t] = ClearOutbox(core[t])] /\ UNCHANGED phase
      BY <2>2 DEF Clear
    <3>2. ClearOutbox(core[t]).password = core[t].password
      BY <1>3, PasswordKept
    <3>3. QED
      BY <3>1, <3>2, PasswordSet
  <2>3. CASE Receive(t)
    <3> DEFINE x == AckReply(core[t]).core
    <3>1. (core' = core \/ core' = [core EXCEPT ![t] = x]) /\ UNCHANGED phase
      BY <2>3, ReceiveIs
    <3>2. x.password = core[t].password
      BY <1>3, PasswordKept
    <3> HIDE DEF x
    <3>3. QED
      BY <3>1, <3>2, PasswordSet DEF PasswordsKept
  <2>4. CASE Commit(t)
    BY <2>4 DEF Commit, client, PasswordsKept
  <2>5. QED
    BY <2>1, <2>2, <2>3, <2>4
<1>5. QED
  BY <1>1, <1>2, <1>4, AuthQuiet

\* Every step keeps it.
LEMMA AuthStep ==
    ASSUME Types, SocketsOK, AuthOK, [Next]_vars
    PROVE  AuthOK'
<1> DEFINE OK == AuthOK'
<1>1. \A t \in Tabs : Opened(t, "identity") \/ Opened(t, "ready") => OK
  BY AuthOpen
<1>2. \A n \in DOMAIN up : Serve(n) => OK
  BY AuthServe
<1>3. (\E n \in DOMAIN up : Push(n) \/ Overgrow(n)) \/ Refuse \/ Tick \/ UNCHANGED vars => OK
  <2> SUFFICES ASSUME (\E n \in DOMAIN up : Push(n) \/ Overgrow(n)) \/ Refuse \/ Tick \/ UNCHANGED vars
               PROVE  AuthOK'
    OBVIOUS
  <2>1. UNCHANGED <<core, phase, conn, up, auth, subscribed, scenario>>
    BY DEF Push, Overgrow, Refuse, Tick, vars, client, network, bounds
  <2>2. PasswordsKept
    BY <2>1 DEF PasswordsKept
  <2>3. QED
    BY <2>1, <2>2, AuthQuiet
<1>4. \A t \in Tabs : Connect(t) \/ Close(t) => OK
  BY AuthConnect, AuthClose
<1>5. \A t \in Tabs : (\/ AdoptIdentity(t) \/ ReadEpoch(t) \/ BumpEpoch(t) \/ RestoreRows(t)
                       \/ ReplaceRows(t) \/ ReplayLog(t)) => OK
  BY AuthStart
<1>6. \A t \in Tabs : (\/ BrowserWrite(t) \/ EmbedWrite(t) \/ Read(t) \/ Query(t) \/ Unquery(t)
                       \/ BrowserSubscribe(t) \/ EmbedSubscribe(t)) => OK
  BY AuthRequest
<1>7. \A t \in Tabs : Crash(t) \/ Clear(t) \/ Receive(t) \/ Commit(t) => OK
  BY AuthOther
<1> HIDE DEF OK
<1>8. OK
  BY <1>1, <1>2, <1>3, <1>4, <1>5, <1>6, <1>7, Steps
<1>9. QED
  BY <1>8 DEF OK

-----------------------------------------------------------------------------
(* Wire ids are given once, above the marks *)

\* A write is issued.
Issues(t) == BrowserWrite(t) \/ EmbedWrite(t)
\* A client takes an identity or an epoch.
Settles(t) == AdoptIdentity(t) \/ ReadEpoch(t) \/ BumpEpoch(t)
Begins(t) == (Opened(t, "identity") /\ Browser) \/ (Opened(t, "ready") /\ ~Browser)

\* All the other steps bring nothing new into play.
LEMMA StepKinds ==
    ASSUME Types, SocketsOK, AlignInv, EpochOK, [Next]_vars
    PROVE  Keeps \/ \E t \in Tabs : Begins(t) \/ Settles(t) \/ Issues(t)
<1> DEFINE OK == Keeps
           New == \E t \in Tabs : Begins(t) \/ Settles(t) \/ Issues(t)
<1>1. \A t \in Tabs : (Opened(t, "identity") /\ Browser) \/ (Opened(t, "ready") /\ ~Browser)
         \/ AdoptIdentity(t) \/ ReadEpoch(t) \/ BumpEpoch(t) \/ BrowserWrite(t) \/ EmbedWrite(t) => New
  BY Zenon DEF Begins, Settles, Issues
<1>2. \A n \in DOMAIN up : Serve(n) => OK
  BY ServeKeeps
<1>3. \A t \in Tabs : (\/ RestoreRows(t) \/ ReplaceRows(t) \/ ReplayLog(t)
                       \/ Crash(t) \/ Connect(t) \/ Close(t)) => OK
  BY RestoreRowsKeeps, ReplaceRowsKeeps, ReplayLogKeeps, CrashKeeps, ConnectKeeps, CloseKeeps
<1>4. \A t \in Tabs : Read(t) \/ Query(t) \/ Unquery(t) \/ EmbedSubscribe(t) \/ BrowserSubscribe(t) => OK
  BY CommandKeeps, BrowserSubscribeKeeps
<1>5. \A t \in Tabs : Clear(t) \/ Receive(t) \/ Commit(t) => OK
  BY ClearKeeps, ReceiveKeeps, CommitKeeps
<1>6. (\E n \in DOMAIN up : Push(n) \/ Overgrow(n)) \/ Refuse \/ Tick \/ UNCHANGED vars => OK
  BY QuietKeeps
<1> HIDE DEF OK, New
<1>7. OK \/ New
  BY <1>1, <1>2, <1>3, <1>4, <1>5, <1>6, Steps
<1>8. QED
  BY <1>7, Zenon DEF OK, New

\* The server moves a mark to the wire id of the write it executes.
LEMMA ServeMark ==
    ASSUME Types, EpochOK, OrderOK, NEW n \in DOMAIN up, Serve(n)
    PROVE  MarkMoves
<1> DEFINE f == Head(up[n])
<1>1. /\ up[n] # << >>
      /\ mark' = (IF Answer(n, f) = "applied" THEN [mark EXCEPT ![f.client] = f.wire] ELSE mark)
  BY DEF Serve
<1>2. f \in ToSet(up[n]) /\ f \in Frame
  BY <1>1 DEF Types, NetworkTypes, ToSet
<1>3. Answer(n, f) = "applied" => f.wire # None
  BY <1>2, AnswerFacts
<1>4. Answer(n, f) = "applied" => f \in InPlay /\ f.client \in DOMAIN mark
  BY <1>2, <1>3, InPlayHas DEF OrderOK
<1> HIDE DEF f
<1>5. QED
  BY <1>1, <1>4 DEF MarkMoves, Types, ServerTypes

\* Only the opening of a client does something else to the marks.
LEMMA MarkSteps ==
    ASSUME Types, EpochOK, OrderOK, [Next]_vars
    PROVE  MarkMoves \/ \E t \in Tabs : Begins(t)
<1> DEFINE OK == MarkMoves
           New == \E t \in Tabs : Begins(t)
<1>1. \A t \in Tabs : (Opened(t, "identity") /\ Browser) \/ (Opened(t, "ready") /\ ~Browser) => New
  BY Zenon DEF Begins
<1>2. \A n \in DOMAIN up : Serve(n) => OK
  BY ServeMark
<1>3. UNCHANGED mark => OK
  BY DEF MarkMoves
<1>4. \A t \in Tabs : (\/ AdoptIdentity(t) \/ ReadEpoch(t) \/ BumpEpoch(t) \/ RestoreRows(t)
                       \/ ReplaceRows(t) \/ ReplayLog(t) \/ Crash(t) \/ Connect(t)
                       \/ Close(t)) => UNCHANGED mark
  BY DEF AdoptIdentity, ReadEpoch, BumpEpoch, RestoreRows, ReplaceRows, ReplayLog, Crash, Connect, Close, server
<1>5. \A t \in Tabs : (\/ BrowserWrite(t) \/ EmbedWrite(t) \/ Read(t) \/ Query(t) \/ Unquery(t)
                       \/ BrowserSubscribe(t) \/ EmbedSubscribe(t) \/ Clear(t)
                       \/ Receive(t) \/ Commit(t)) => UNCHANGED mark
  <2>1. \A t \in Tabs : BrowserWrite(t) \/ EmbedWrite(t) => UNCHANGED mark
    BY Zenon DEF BrowserWrite, EmbedWrite, server
  <2>2. \A t \in Tabs : Read(t) \/ Query(t) \/ Unquery(t) => UNCHANGED mark
    BY Zenon DEF Read, Query, Unquery, Command, server
  <2>3. \A t \in Tabs : BrowserSubscribe(t) \/ EmbedSubscribe(t) \/ Clear(t) => UNCHANGED mark
    BY Zenon DEF BrowserSubscribe, EmbedSubscribe, Command, Clear, server
  <2>4. \A t \in Tabs : Receive(t) \/ Commit(t) => UNCHANGED mark
    BY Zenon DEF Receive, Commit, server
  <2>5. QED
    BY <2>1, <2>2, <2>3, <2>4
<1>6. (\E n \in DOMAIN up : Push(n) \/ Overgrow(n)) \/ Refuse \/ Tick \/ UNCHANGED vars => UNCHANGED mark
  BY DEF Push, Overgrow, Refuse, Tick, vars, server
<1> HIDE DEF OK, New
<1>7. OK \/ New
  BY <1>1, <1>2, <1>3, <1>4, <1>5, <1>6, Steps
<1>8. QED
  BY <1>7, Zenon DEF OK, New

\* The wire id of a new write is greater than those of its client in play and than the mark.
LEMMA NewestWrite ==
    ASSUME Types, SocketsOK, AlignInv, OrderInv, MarksOK, IdsLeft, NEW t \in Tabs, Issues(t)
    PROVE  LET f == NewWrite(t).frame
           IN  /\ Enqueues(core[t], NewWrite(t), Len(issued) + 1, f.wire, Connected(t))
               /\ f.wire \in Nat /\ f.client = core[t].client /\ f.write = Len(issued) + 1
               /\ f.client \in DOMAIN mark /\ mark[f.client] < f.wire
               /\ \A h \in InPlay : h.client = f.client => h.wire < f.wire
               /\ InPlay' \subseteq InPlay \cup {f}
<1> DEFINE e == NewWrite(t)
           f == e.frame
           wire == WireId(core[t], core[t].seq)
<1>1. /\ Enqueues(core[t], e, Len(issued) + 1, wire, Connected(t))
      /\ InPlay' \subseteq InPlay \cup {f}
  BY WriteInPlay DEF OrderInv, Issues
<1>2. Ready(t) /\ core[t] \in Core /\ core[t].seq < IdRange
  BY DEF Issues, BrowserWrite, EmbedWrite, IdsLeft, Types, ClientTypes
<1>3. wire = core[t].epoch * IdRange + core[t].seq
  BY <1>2, WireIdIs
<1>4. Begun(t) /\ phase[t] # "closed"
  BY <1>2 DEF Ready, Begun
<1>5. core[t].client \in DOMAIN mark /\ mark[core[t].client] < wire
  BY <1>3, <1>4 DEF OrderInv, EpochOK, MarksOK
<1>6. \A h \in InPlay : h.client = core[t].client => h.wire < wire
  BY <1>3, <1>4 DEF OrderInv, EpochOK
<1>7. wire \in Nat
  <2>1. core[t].epoch \in Nat /\ core[t].seq \in Nat /\ IdRange \in Nat
    BY <1>2, CoreFields, SyncClientAssumption
  <2>2. QED
    BY <1>3, <2>1
<1> HIDE DEF e, wire
<1>8. f.client = core[t].client /\ f.write = Len(issued) + 1 /\ f.wire = wire
  BY <1>1 DEF Enqueues
<1>9. QED
  BY <1>1, <1>5, <1>6, <1>7, <1>8 DEF e

\* Every step keeps the wire ids apart.
LEMMA UniqueStep ==
    ASSUME Types, SocketsOK, AlignInv, OrderInv, MarksOK, UniqueOK, IdsLeft, [Next]_vars
    PROVE  UniqueOK'
<1>1. InPlay' \subseteq InPlay => UniqueOK'
  BY DEF UniqueOK
<1>2. ASSUME NEW t \in Tabs, Begins(t) \/ Settles(t) PROVE InPlay' \subseteq InPlay
  <2>1. \E x : core' = [core EXCEPT ![t] = x] /\ (x.outbox = core[t].outbox \/ x.outbox = << >>)
    <3>1. CASE Begins(t)
      <4> DEFINE x == NewClient(FreshClient, Setup.password)
      <4>1. core' = [core EXCEPT ![t] = x]
        BY <3>1 DEF Begins, Opened
      <4>2. x.outbox = << >>
        BY DEF NewClient
      <4> HIDE DEF x
      <4>3. QED
        BY <4>1, <4>2, Zenon
    <3>2. CASE AdoptIdentity(t)
      <4> DEFINE x == AdoptClientId(core[t], idb.client)
      <4>1. core' = core \/ core' = [core EXCEPT ![t] = x]
        BY <3>2 DEF AdoptIdentity
      <4>2. x.outbox = core[t].outbox /\ core = [core EXCEPT ![t] = core[t]]
        BY DEF AdoptClientId, Types, ClientTypes, Core
      <4> HIDE DEF x
      <4>3. QED
        BY <4>1, <4>2, Zenon
    <3>3. CASE ReadEpoch(t)
      <4> DEFINE x == [core[t] EXCEPT !.epoch = idb.epoch + 1]
      <4>1. core' = [core EXCEPT ![t] = x]
        BY <3>3 DEF ReadEpoch
      <4>2. x.outbox = core[t].outbox
        BY DEF Types, ClientTypes, Core
      <4> HIDE DEF x
      <4>3. QED
        BY <4>1, <4>2, Zenon
    <3>4. CASE BumpEpoch(t)
      <4>1. core' = [core EXCEPT ![t] = core[t]]
        BY <3>4 DEF BumpEpoch, Types, ClientTypes
      <4>2. QED
        BY <4>1, Zenon
    <3>5. QED
      BY <1>2, <3>1, <3>2, <3>3, <3>4 DEF Settles
  <2>2. UNCHANGED <<tasks, up>> /\ idb'.rows = idb.rows
    BY <1>2 DEF Begins, Settles, Opened, AdoptIdentity, ReadEpoch, BumpEpoch, browser, network, Types, DiskTypes
  <2>3. QED
    BY <2>1, <2>2, NothingNew
<1>3. ASSUME NEW t \in Tabs, Issues(t) PROVE UniqueOK'
  <2> DEFINE f == NewWrite(t).frame
  <2>1. /\ f.wire \in Nat /\ \A h \in InPlay : h.client = f.client => h.wire < f.wire
        /\ InPlay' \subseteq InPlay \cup {f}
    BY <1>3, NewestWrite
  <2>2. \A h \in InPlay : h.wire \in Nat
    BY InPlayType
  <2> HIDE DEF f
  <2>3. QED
    BY <2>1, <2>2 DEF UniqueOK
<1>4. Keeps => UniqueOK'
  BY <1>1 DEF Keeps
<1>5. QED
  BY <1>1, <1>2, <1>3, <1>4, StepKinds DEF OrderInv

\* Every step keeps them above the marks.
LEMMA MarksOKStep ==
    ASSUME Alone, Types, SocketsOK, AlignInv, OrderInv, MarksOK, IdsLeft, [Next]_vars
    PROVE  MarksOK'
<1>1. Types' /\ AlignInv' /\ OrderInv'
  BY TypesStep, AlignStep, OrderStep
<1>2. ASSUME NEW t \in Tabs, Begins(t) PROVE MarksOK'
  BY <1>1, <1>2, OpenMarks DEF Begins
<1>3. ASSUME NEW t \in Tabs, Settles(t) PROVE MarksOK'
  BY <1>1, <1>3, EarlyMarks DEF Settles
<1>4. ASSUME MarkMoves, NEW t \in Tabs, Issues(t) PROVE MarksOK'
  <2> DEFINE x == NewWrite(t).core
  <2>1. core' = [core EXCEPT ![t] = x] /\ UNCHANGED <<phase, idb, scenario>>
    BY <1>4 DEF Issues, BrowserWrite, EmbedWrite, Enqueued, browser, bounds
  <2>2. Enqueues(core[t], NewWrite(t), Len(issued) + 1, NewWrite(t).frame.wire, Connected(t))
    BY <1>4, NewestWrite
  <2>3. core[t].seq \in Nat
    BY CoreFields DEF Types, ClientTypes
  <2>4. x.client = core[t].client /\ x.epoch = core[t].epoch /\ x.seq >= core[t].seq
    BY <2>2, <2>3 DEF Enqueues
  <2> HIDE DEF x
  <2>5. \A u \in Tabs : TabKeeps(u)
    BY <2>1, <2>4, OneTabKeeps
  <2>6. QED
    BY <1>1, <1>4, <2>1, <2>5, MarksStep
<1>5. Keeps /\ MarkMoves => MarksOK'
  BY <1>1, MarksStep DEF Keeps
<1>6. QED
  BY <1>2, <1>3, <1>4, <1>5, StepKinds, MarkSteps DEF OrderInv

-----------------------------------------------------------------------------
(* The rows are in the order of their wire ids *)

\* Of two numbers the greater one has more before it.
LEMMA MoreBefore ==
    ASSUME NEW S \in SUBSET Nat, IsFiniteSet(S), NEW a \in S, NEW b \in S, a < b
    PROVE  /\ Cardinality({m \in S : m < a}) \in Nat /\ Cardinality({m \in S : m < b}) \in Nat
           /\ Cardinality({m \in S : m < a}) < Cardinality({m \in S : m < b})
<1> DEFINE A == {m \in S : m < a}
           B == {m \in S : m < b}
<1>1. A \subseteq S /\ B \subseteq S /\ a \notin A /\ A \cup {a} \subseteq B
  <2>1. \A m \in S : m < a => m < b
    OBVIOUS
  <2>2. ~(a < a)
    OBVIOUS
  <2>3. QED
    BY <2>1, <2>2, Zenon
<1> HIDE DEF A, B
<1>2. IsFiniteSet(A) /\ IsFiniteSet(B)
  BY <1>1, FS_Subset
<1>3. Cardinality(A \cup {a}) = Cardinality(A) + 1
  BY <1>1, <1>2, FS_AddElement
<1>4. Cardinality(A \cup {a}) <= Cardinality(B)
  BY <1>1, <1>2, FS_Subset
<1>5. Cardinality(A) \in Nat /\ Cardinality(B) \in Nat
  BY <1>2, FS_CardinalityType
<1>6. Cardinality(A) \in Nat /\ Cardinality(B) \in Nat /\ Cardinality(A) < Cardinality(B)
  BY <1>3, <1>4, <1>5
<1>7. QED
  BY <1>6 DEF A, B

\* The places are in the order of the numbers, and every number has one.
LEMMA NthOrder ==
    ASSUME NEW S \in SUBSET Nat, IsFiniteSet(S)
    PROVE  /\ \A i, j \in 1..Cardinality(S) : i < j => Nth(S, i) < Nth(S, j)
           /\ \A n \in S : \E i \in 1..Cardinality(S) : Nth(S, i) = n
<1> DEFINE k(n) == Cardinality({m \in S : m < n})
           size == Cardinality(S)
<1>1. size \in Nat /\ \A i \in 1..size : Nth(S, i) \in S /\ k(Nth(S, i)) = i - 1
  BY NthExists
<1>2. \A a, b \in S : a < b => k(a) < k(b)
  BY MoreBefore
<1>3. \A n \in S : n \in Nat
  OBVIOUS
<1>4. \A n \in S : k(n) \in Nat /\ k(n) < size
  <2> SUFFICES ASSUME NEW n \in S PROVE k(n) \in Nat /\ k(n) < size
    OBVIOUS
  <2> DEFINE A == {m \in S : m < n}
  <2>1. A \subseteq S /\ n \notin A
    <3>1. ~(n < n)
      BY <1>3
    <3>2. QED
      BY <3>1, Zenon
  <2> HIDE DEF A
  <2>2. IsFiniteSet(A)
    BY <2>1, FS_Subset
  <2>3. Cardinality(A \cup {n}) = Cardinality(A) + 1 /\ Cardinality(A) \in Nat
    BY <2>1, <2>2, FS_AddElement, FS_CardinalityType
  <2>4. Cardinality(A \cup {n}) <= size
    <3>1. A \cup {n} \subseteq S
      BY <2>1
    <3>2. QED
      BY <3>1, FS_Subset
  <2>5. Cardinality(A) \in Nat /\ Cardinality(A) < size
    BY <1>1, <2>3, <2>4
  <2>6. QED
    BY <2>5 DEF A
<1> HIDE DEF k, size
<1>5. ASSUME NEW i \in 1..size, NEW j \in 1..size, i < j PROVE Nth(S, i) < Nth(S, j)
  <2> DEFINE a == Nth(S, i)
             b == Nth(S, j)
  <2>1. a \in S /\ b \in S /\ k(a) = i - 1 /\ k(b) = j - 1
    BY <1>1
  <2> HIDE DEF a, b
  <2>2. a \in Nat /\ b \in Nat
    BY <1>3, <2>1
  <2>3. a < b
    <3>1. a # b
      BY <1>1, <1>5, <2>1
    <3>2. ~(b < a)
      <4>1. b < a => k(b) < k(a)
        BY <1>2, <2>1
      <4>2. QED
        BY <1>1, <1>5, <2>1, <4>1
    <3>3. QED
      BY <2>2, <3>1, <3>2
  <2>4. QED
    BY <2>3 DEF a, b
<1>6. ASSUME NEW n \in S PROVE \E i \in 1..size : Nth(S, i) = n
  <2> DEFINE i == k(n) + 1
             b == Nth(S, i)
  <2>1. i \in 1..size /\ i - 1 = k(n)
    BY <1>1, <1>4
  <2>2. b \in S /\ k(b) = k(n)
    BY <1>1, <2>1
  <2> HIDE DEF b
  <2>3. b \in Nat /\ n \in Nat /\ k(n) \in Nat
    BY <1>3, <1>4, <2>2
  <2>4. b = n
    <3>1. ~(b < n)
      BY <1>2, <2>2, <2>3
    <3>2. ~(n < b)
      BY <1>2, <2>2, <2>3
    <3>3. QED
      BY <2>3, <3>1, <3>2
  <2>5. QED
    BY <2>1, <2>4 DEF b
<1>7. QED
  BY <1>5, <1>6 DEF size

\* What a sequence of rows becomes.
LEMMA AscendsKept == ASSUME NEW s \in Seq(Row), Ascends(s), NEW K PROVE Ascends(Kept(s, K))
<1> DEFINE r == Kept(s, K)
<1>1. r \in Seq(Row)
  BY KeptElements
<1>2. \A m, n \in 1..Len(r) : m < n => \E i, j \in 1..Len(s) : i < j /\ r[m] = s[i] /\ r[n] = s[j]
  BY KeptOrder
<1> HIDE DEF r
<1>3. DOMAIN r = 1..Len(r) /\ DOMAIN s = 1..Len(s)
  BY <1>1
<1>4. Ascends(r)
  <2> SUFFICES ASSUME NEW m \in DOMAIN r, NEW n \in DOMAIN r, m < n,
                      r[m].frame.wire # None, r[n].frame.wire # None
               PROVE  r[m].frame.wire < r[n].frame.wire
    BY DEF Ascends
  <2>1. PICK i, j \in 1..Len(s) : i < j /\ r[m] = s[i] /\ r[n] = s[j]
    BY <1>2, <1>3
  <2>2. QED
    BY <1>3, <2>1 DEF Ascends
<1>5. QED
  BY <1>4 DEF r

\* The rows left when the oldest is evicted.
LEMMA AscendsTail == ASSUME NEW s \in Seq(Row), s # << >>, Ascends(s) PROVE Ascends(Tail(s))
<1> DEFINE r == Tail(s)
<1>1. /\ Len(s) \in Nat /\ DOMAIN s = 1..Len(s) /\ DOMAIN r = 1..(Len(s) - 1)
      /\ \A i \in DOMAIN r : r[i] = s[i + 1]
  OBVIOUS
<1> HIDE DEF r
<1>2. \A i \in DOMAIN r : i + 1 \in DOMAIN s
  BY <1>1
<1>3. Ascends(r)
  BY <1>1, <1>2 DEF Ascends
<1>4. QED
  BY <1>3 DEF r

\* A row with a later wire id than those of the others goes behind them.
LEMMA AscendsAppend ==
    ASSUME NEW s \in Seq(Row), Ascends(s), NEW row \in Row,
           row.frame.wire # None =>
             \A i \in DOMAIN s : s[i].frame.wire # None => s[i].frame.wire < row.frame.wire
    PROVE  Ascends(Append(s, row))
<1> DEFINE r == Append(s, row)
           n == Len(s)
<1>1. /\ n \in Nat /\ DOMAIN s = 1..n /\ DOMAIN r = 1..(n + 1) /\ r[n + 1] = row
      /\ \A i \in 1..n : r[i] = s[i]
  OBVIOUS
<1> HIDE DEF r, n
<1>2. Ascends(r)
  <2> SUFFICES ASSUME NEW i \in DOMAIN r, NEW j \in DOMAIN r, i < j,
                      r[i].frame.wire # None, r[j].frame.wire # None
               PROVE  r[i].frame.wire < r[j].frame.wire
    BY DEF Ascends
  <2>1. i \in 1..n /\ (j \in 1..n \/ j = n + 1)
    BY <1>1
  <2>2. QED
    BY <1>1, <2>1 DEF Ascends
<1>3. QED
  BY <1>2 DEF r

\* The steps that leave the outboxes as they are.
LEMMA OutboxSame ==
    ASSUME Types, NEW t \in Tabs,
           \/ Settles(t) \/ ReplaceRows(t) \/ ReplayLog(t) \/ Connect(t) \/ Close(t)
           \/ Read(t) \/ Query(t) \/ Unquery(t) \/ EmbedSubscribe(t) \/ Commit(t)
    PROVE  \A u \in Tabs : core'[u].outbox = core[u].outbox /\ (u # t => core'[u] = core[u])
<1>1. UNCHANGED core => \A u \in Tabs : core'[u].outbox = core[u].outbox /\ (u # t => core'[u] = core[u])
  OBVIOUS
<1>2. ASSUME NEW x, core' = [core EXCEPT ![t] = x], x.outbox = core[t].outbox
      PROVE  \A u \in Tabs : core'[u].outbox = core[u].outbox /\ (u # t => core'[u] = core[u])
  BY <1>2 DEF Types, ClientTypes
<1>3. core[t] \in Core
  BY DEF Types, ClientTypes
<1>4. CASE AdoptIdentity(t)
  <2> DEFINE x == AdoptClientId(core[t], idb.client)
  <2>1. core' = core \/ core' = [core EXCEPT ![t] = x]
    BY <1>4 DEF AdoptIdentity
  <2>2. x.outbox = core[t].outbox
    BY <1>3 DEF AdoptClientId, Core
  <2> HIDE DEF x
  <2>3. QED
    BY <1>1, <1>2, <2>1, <2>2
<1>5. CASE ReadEpoch(t)
  <2> DEFINE x == [core[t] EXCEPT !.epoch = idb.epoch + 1]
  <2>1. core' = [core EXCEPT ![t] = x]
    BY <1>5 DEF ReadEpoch
  <2>2. x.outbox = core[t].outbox
    BY <1>3 DEF Core
  <2> HIDE DEF x
  <2>3. QED
    BY <1>2, <2>1, <2>2
<1>6. CASE BumpEpoch(t) \/ ReplaceRows(t) \/ ReplayLog(t) \/ Close(t) \/ Commit(t)
  BY <1>1, <1>6 DEF BumpEpoch, ReplaceRows, ReplayLog, Close, Commit, client
<1>7. CASE Connect(t)
  <2> DEFINE opened == OnOpen(core[t])
             x == SessionFrame(opened.core, channel[t])
  <2>1. core' = [core EXCEPT ![t] = x]
    BY <1>7 DEF Connect
  <2>2. opened.core \in Core /\ opened.core.outbox = core[t].outbox /\ channel[t] \in BOOLEAN
    BY <1>3, OnOpenType DEF Types, ClientTypes
  <2> HIDE DEF opened
  <2>3. x.outbox = core[t].outbox
    BY <2>2, SessionFrameType
  <2> HIDE DEF x
  <2>4. QED
    BY <1>2, <2>1, <2>3
<1>8. CASE Read(t) \/ Query(t) \/ Unquery(t)
  <2>1. PICK kind \in {"query", "read"}, x \in Core : Command(t, kind, x) /\ x.outbox = core[t].outbox
    BY <1>8, CommandIs
  <2>2. core' = [core EXCEPT ![t] = x]
    BY <2>1 DEF Command
  <2>3. QED
    BY <1>2, <2>1, <2>2
<1>9. CASE EmbedSubscribe(t)
  <2> DEFINE x == SessionFrame(core[t], Connected(t))
  <2>1. core' = [core EXCEPT ![t] = x]
    BY <1>9 DEF EmbedSubscribe
  <2>2. x.outbox = core[t].outbox
    BY <1>3, SessionFrameType DEF Connected
  <2> HIDE DEF x
  <2>3. QED
    BY <1>2, <2>1, <2>2
<1>10. QED
  BY <1>4, <1>5, <1>6, <1>7, <1>8, <1>9 DEF Settles

\* The steps that empty an outbox.
LEMMA OutboxEmptied ==
    ASSUME Types, NEW t \in Tabs, Begins(t) \/ Crash(t) \/ Clear(t)
    PROVE  core'[t].outbox = << >> /\ \A u \in Tabs : u # t => core'[u] = core[u]
<1>1. ASSUME NEW x, core' = [core EXCEPT ![t] = x], x.outbox = << >>
      PROVE  core'[t].outbox = << >> /\ \A u \in Tabs : u # t => core'[u] = core[u]
  BY <1>1 DEF Types, ClientTypes
<1>2. CASE Begins(t)
  <2> DEFINE x == NewClient(FreshClient, Setup.password)
  <2>1. core' = [core EXCEPT ![t] = x]
    BY <1>2 DEF Begins, Opened
  <2>2. x.outbox = << >>
    BY DEF NewClient
  <2> HIDE DEF x
  <2>3. QED
    BY <1>1, <2>1, <2>2
<1>3. CASE Crash(t)
  <2> DEFINE x == NewClient(None, FALSE)
  <2>1. core' = [core EXCEPT ![t] = x]
    BY <1>3 DEF Crash
  <2>2. x.outbox = << >>
    BY DEF NewClient
  <2> HIDE DEF x
  <2>3. QED
    BY <1>1, <2>1, <2>2
<1>4. CASE Clear(t)
  <2> DEFINE x == ClearOutbox(core[t])
  <2>1. core' = [core EXCEPT ![t] = x]
    BY <1>4 DEF Clear
  <2>2. x.outbox = << >>
    BY ClearType DEF Types, ClientTypes
  <2> HIDE DEF x
  <2>3. QED
    BY <1>1, <2>1, <2>2
<1>5. QED
  BY <1>2, <1>3, <1>4

\* What a start restores.
LEMMA RestoredIs ==
    ASSUME Types, SocketsOK, AlignInv, NEW t \in Tabs, RestoreRows(t)
    PROVE  LET s == core'[t].outbox
               D == DOMAIN idb.rows
           IN  /\ s \in Seq(Row) /\ Len(s) = Cardinality(D) /\ core'[t].seq = Len(s)
               /\ \A i \in 1..Len(s) : /\ s[i].frame = idb.rows[Nth(D, i)] /\ Nth(D, i) \in D
                                       /\ s[i].id = i - 1
               /\ \A u \in Tabs : u # t => core'[u] = core[u]
<1> DEFINE D == DOMAIN idb.rows
           frames == InOrder(idb.rows)
           rows == [i \in 1..Len(frames) |-> [id |-> i, frame |-> frames[i]]]
           c == core[t]
           x == RestoreOutbox(c, rows)
<1>1. core' = [core EXCEPT ![t] = x] /\ phase[t] = "outbox"
  BY Zenon DEF RestoreRows
<1>2. c \in Core /\ c.outbox = << >> /\ c.seq = 0
  BY <1>1 DEF Types, ClientTypes, AlignInv, Good, Starting
<1>3. /\ idb.rows \in [D -> RowFrame] /\ D \in SUBSET Nat /\ IsFiniteSet(D)
      /\ Cardinality(D) \in Nat /\ \A i \in 1..Cardinality(D) : Nth(D, i) \in D
  BY NthExists DEF Types, DiskTypes
<1>4. frames \in Seq(RowFrame)
  BY <1>3, InOrderType
<1>5. Len(frames) = Cardinality(D) /\ \A i \in 1..Cardinality(D) : frames[i] = idb.rows[Nth(D, i)]
  BY <1>3 DEF InOrder
<1>6. Restored(c, x, frames)
  BY <1>2, <1>4, RestoreType, Zenon
<1>7. core'[t] = x /\ \A u \in Tabs : u # t => core'[u] = core[u]
  BY <1>1 DEF Types, ClientTypes
<1> HIDE DEF x, frames, c, D
<1>8. Len(c.outbox) = 0 /\ x \in Core /\ x.outbox \in Seq(Row)
  BY <1>2, <1>6, CoreFields DEF Restored
<1>9. /\ Len(x.outbox) = Len(frames) /\ x.seq = Len(frames)
      /\ \A i \in 1..Len(frames) : x.outbox[i] = [id |-> 0 + i - 1, frame |-> frames[i]]
  BY <1>2, <1>3, <1>5, <1>6, <1>8 DEF Restored
<1>10. \A i \in 1..Len(x.outbox) : /\ x.outbox[i].frame = idb.rows[Nth(D, i)] /\ Nth(D, i) \in D
                                   /\ x.outbox[i].id = i - 1
  <2> SUFFICES ASSUME NEW i \in 1..Len(x.outbox)
               PROVE  /\ x.outbox[i].frame = idb.rows[Nth(D, i)] /\ Nth(D, i) \in D
                      /\ x.outbox[i].id = i - 1
    OBVIOUS
  <2> DEFINE r == x.outbox[i]
  <2>1. r = [id |-> 0 + i - 1, frame |-> frames[i]] /\ i \in 1..Cardinality(D)
    BY <1>5, <1>9
  <2>2. r.id = 0 + i - 1 /\ r.frame = frames[i]
    BY <2>1
  <2> HIDE DEF r
  <2>3. 0 + i - 1 = i - 1
    BY <1>3, <2>1
  <2>4. r.frame = idb.rows[Nth(D, i)] /\ Nth(D, i) \in D /\ r.id = i - 1
    BY <1>3, <1>5, <2>1, <2>2, <2>3
  <2>5. QED
    BY <2>4 DEF r
<1>11. QED
  BY <1>3, <1>5, <1>7, <1>8, <1>9, <1>10 DEF D

\* They are in the order of their wire ids.
LEMMA RestoredAscends ==
    ASSUME Types, SocketsOK, AlignInv, DiskOK, NEW t \in Tabs, RestoreRows(t)
    PROVE  Ascends(core'[t].outbox)
<1> DEFINE s == core'[t].outbox
           D == DOMAIN idb.rows
<1>1. /\ s \in Seq(Row) /\ Len(s) = Cardinality(D)
      /\ \A i \in 1..Len(s) : s[i].frame = idb.rows[Nth(D, i)] /\ Nth(D, i) \in D
  BY RestoredIs
<1>2. \A i, j \in 1..Cardinality(D) : i < j => Nth(D, i) < Nth(D, j)
  BY NthOrder DEF Types, DiskTypes
<1>3. \A a, b \in D : a < b /\ idb.rows[a].wire # None /\ idb.rows[b].wire # None =>
         idb.rows[a].wire < idb.rows[b].wire
  <2> SUFFICES ASSUME NEW a \in D, NEW b \in D, a < b, idb.rows[a].wire # None, idb.rows[b].wire # None
               PROVE  idb.rows[a].wire < idb.rows[b].wire
    OBVIOUS
  <2>1. <<a, idb.rows[a]>> \in Numbered(t) /\ <<b, idb.rows[b]>> \in Numbered(t)
    BY DEF Numbered
  <2>2. Rising(Numbered(t))
    BY DEF DiskOK
  <2> DEFINE N == Numbered(t)
             p == <<a, idb.rows[a]>>
             q == <<b, idb.rows[b]>>
  <2>3. p[1] = a /\ q[1] = b /\ p[2] = idb.rows[a] /\ q[2] = idb.rows[b] /\ p \in N /\ q \in N
    BY <2>1
  <2> HIDE DEF N, p, q
  <2>4. Rising(N)
    BY <2>2 DEF N
  <2>5. QED
    BY <2>3, <2>4 DEF Rising
<1> HIDE DEF s, D
<1>4. DOMAIN s = 1..Len(s)
  BY <1>1
<1>5. Ascends(s)
  <2> SUFFICES ASSUME NEW i \in 1..Len(s), NEW j \in 1..Len(s), i < j,
                      s[i].frame.wire # None, s[j].frame.wire # None
               PROVE  s[i].frame.wire < s[j].frame.wire
    BY <1>4 DEF Ascends
  <2> DEFINE a == Nth(D, i)
             b == Nth(D, j)
  <2>1. a \in D /\ b \in D /\ a < b /\ s[i].frame = idb.rows[a] /\ s[j].frame = idb.rows[b]
    BY <1>1, <1>2
  <2> HIDE DEF a, b
  <2>2. QED
    BY <1>3, <2>1
<1>6. QED
  BY <1>5 DEF s

\* A row that is queued after those that a full outbox keeps.
LEMMA EnqueuedAscends ==
    ASSUME NEW c \in Core, Ascends(c.outbox), NEW e, NEW write, NEW wire, NEW connected,
           Enqueues(c, e, write, wire, connected),
           wire # None =>
             \A i \in DOMAIN c.outbox : c.outbox[i].frame.wire # None => c.outbox[i].frame.wire < wire
    PROVE  Ascends(e.core.outbox)
<1> DEFINE s == c.outbox
           kept == IF Len(s) >= MaxPending THEN Tail(s) ELSE s
           row == [id |-> c.seq, frame |-> e.frame]
<1>1. s \in Seq(Row) /\ c.seq \in Nat
  BY CoreFields
<1>2. kept \in Seq(Row) /\ e.core.outbox = Append(kept, row) /\ row.frame.wire = wire /\ row \in Row
  BY <1>1, RowFacts DEF Enqueues
<1>3. MaxPending \in Nat \ {0}
  BY SyncClientAssumption
<1> HIDE DEF row
<1>4. CASE Len(s) >= MaxPending
  <2>1. s # << >> /\ kept = Tail(s)
    BY <1>1, <1>3, <1>4
  <2>2. Ascends(kept)
    BY <1>1, <2>1, AscendsTail
  <2>3. \A i \in DOMAIN kept : \E j \in DOMAIN s : kept[i] = s[j]
    <3> DEFINE r == Tail(s)
    <3>1. /\ Len(s) \in Nat /\ DOMAIN s = 1..Len(s) /\ DOMAIN r = 1..(Len(s) - 1)
          /\ \A i \in DOMAIN r : r[i] = s[i + 1]
      BY <1>1, <2>1
    <3> HIDE DEF r
    <3>2. \A i \in DOMAIN r : i + 1 \in DOMAIN s
      BY <3>1
    <3>3. \A i \in DOMAIN r : \E j \in DOMAIN s : r[i] = s[j]
      BY <3>1, <3>2
    <3>4. QED
      BY <2>1, <3>3 DEF r
  <2> HIDE DEF s, kept
  <2>4. wire # None => \A i \in DOMAIN kept : kept[i].frame.wire # None => kept[i].frame.wire < wire
    BY <2>3 DEF s
  <2>5. Ascends(Append(kept, row))
    BY <1>2, <2>2, <2>4, AscendsAppend
  <2>6. QED
    BY <1>2, <2>5
<1>5. CASE ~(Len(s) >= MaxPending)
  <2>1. kept = s
    BY <1>5
  <2>2. Ascends(Append(s, row))
    BY <1>1, <1>2, AscendsAppend
  <2>3. QED
    BY <1>2, <2>1, <2>2
<1>6. QED
  BY <1>4, <1>5

\* What a queued subscription makes of the outbox.
LEMMA SubscribeIs ==
    ASSUME Types, NEW t \in Tabs, BrowserSubscribe(t)
    PROVE  LET e == EnqueueWrite(core[t], "subscribe", None, FALSE, Connected(t))
           IN  /\ Enqueues(core[t], e, None, None, Connected(t))
               /\ core' = [core EXCEPT ![t] = e.core] /\ up' = Send(t, e.frame) /\ fate' = NoteDropped(e)
               /\ tasks' = [tasks EXCEPT ![t] = tasks[t] \o StoreRow(e)]
               /\ e.frame \in RowFrame /\ e.frame.wire = None
<1> DEFINE e == EnqueueWrite(core[t], "subscribe", None, FALSE, Connected(t))
<1>1. /\ core' = [core EXCEPT ![t] = e.core] /\ up' = Send(t, e.frame) /\ Ready(t) /\ fate' = NoteDropped(e)
      /\ tasks' = [tasks EXCEPT ![t] = tasks[t] \o StoreRow(e)]
  BY DEF BrowserSubscribe
<1>2. core[t] \in Core /\ Connected(t) \in BOOLEAN /\ core[t].client # None
  BY <1>1 DEF Types, ClientTypes, Connected, Ready
<1>3. Enqueues(core[t], e, None, None, Connected(t))
  BY <1>2, SubscribeEnqueues, Zenon
<1> HIDE DEF e
<1>4. e.frame \in RowFrame /\ e.frame.wire = None
  BY <1>3 DEF Enqueues
<1>5. QED
  BY <1>1, <1>3, <1>4 DEF e

\* What a reply makes of it.
LEMMA ReplyRows ==
    ASSUME Types, NEW t \in Tabs
    PROVE  LET x == AckReply(core[t]).core
           IN  \/ x.outbox = core[t].outbox
               \/ core[t].inflight # << >> /\ x.outbox = Kept(core[t].outbox, Others(core[t]))
<1>1. core[t] \in Core
  BY DEF Types, ClientTypes
<1>2. CASE core[t].inflight = << >>
  <2>1. AckReply(core[t]).core = core[t]
    BY <1>2, AckNothing
  <2>2. QED
    BY <2>1
<1>3. CASE core[t].inflight # << >>
  BY <1>1, <1>3, AckType
<1>4. QED
  BY <1>2, <1>3

\* Every step keeps the rows in order.
LEMMA AscendStep ==
    ASSUME Types, SocketsOK, AlignInv, OrderInv, MarksOK, OwnOK, DiskOK, AscendOK, IdsLeft, [Next]_vars
    PROVE  AscendOK'
<1> DEFINE OK == AscendOK'
<1>1. (\A u \in Tabs : core'[u].outbox = core[u].outbox) => OK
  BY DEF AscendOK
<1>2. ASSUME NEW t \in Tabs, Ascends(core'[t].outbox), \A u \in Tabs : u # t => core'[u] = core[u]
      PROVE  OK
  <2> SUFFICES ASSUME NEW u \in Tabs PROVE Ascends(core'[u].outbox)
    BY DEF AscendOK
  <2>1. CASE u = t
    BY <1>2, <2>1
  <2>2. CASE u # t
    BY <1>2, <2>2 DEF AscendOK
  <2>3. QED
    BY <2>1, <2>2
<1>3. Ascends(<< >>)
  BY DEF Ascends
<1>4. \A t \in Tabs : Begins(t) \/ Crash(t) \/ Clear(t) => OK
  BY <1>2, <1>3, OutboxEmptied
<1>5. \A t \in Tabs : (\/ Settles(t) \/ ReplaceRows(t) \/ ReplayLog(t) \/ Connect(t) \/ Close(t)
                       \/ Read(t) \/ Query(t) \/ Unquery(t) \/ EmbedSubscribe(t) \/ Commit(t)) => OK
  BY <1>1, OutboxSame
<1>6. ASSUME NEW t \in Tabs, RestoreRows(t) PROVE OK
  BY <1>2, <1>6, RestoredIs, RestoredAscends
<1>7. ASSUME NEW t \in Tabs, NEW x, core' = [core EXCEPT ![t] = x], Ascends(x.outbox) PROVE OK
  <2>1. core'[t] = x /\ \A u \in Tabs : u # t => core'[u] = core[u]
    BY <1>7 DEF Types, ClientTypes
  <2>2. QED
    BY <1>2, <1>7, <2>1
<1>8. ASSUME NEW t \in Tabs, Issues(t) PROVE OK
  <2> DEFINE e == NewWrite(t)
             wire == e.frame.wire
  <2>1. /\ Enqueues(core[t], e, Len(issued) + 1, wire, Connected(t)) /\ e.frame.client = core[t].client
        /\ \A h \in InPlay : h.client = e.frame.client => h.wire < wire
    BY <1>8, NewestWrite
  <2>2. core' = [core EXCEPT ![t] = e.core]
    BY <1>8 DEF Issues, BrowserWrite, EmbedWrite, Enqueued
  <2>3. core[t] \in Core /\ Ascends(core[t].outbox)
    BY DEF Types, ClientTypes, AscendOK
  <2>4. \A i \in DOMAIN core[t].outbox :
           core[t].outbox[i].frame.wire # None => core[t].outbox[i].frame.wire < wire
    <3> SUFFICES ASSUME NEW i \in DOMAIN core[t].outbox, core[t].outbox[i].frame.wire # None
                 PROVE  core[t].outbox[i].frame.wire < wire
      OBVIOUS
    <3> DEFINE h == core[t].outbox[i].frame
    <3>1. h \in HeldIn(core[t].outbox) /\ h.wire # None
      BY DEF HeldIn
    <3> HIDE DEF h
    <3>2. h \in InPlay
      BY <3>1, InPlayHas
    <3>3. h.client = core[t].client
      <4>1. CASE Browser
        <5>1. phase[t] = "ready"
          BY <1>8 DEF Issues, BrowserWrite, EmbedWrite, Ready
        <5>2. QED
          BY <3>2, <4>1, <5>1 DEF OrderInv, EpochOK
      <4>2. CASE ~Browser
        <5>1. h \in OwnedBy(t)
          BY <3>1 DEF OwnedBy, Enveloped
        <5>2. QED
          BY <5>1 DEF OwnOK
      <4>3. QED
        BY <4>1, <4>2
    <3>4. h.wire < wire
      BY <2>1, <3>2, <3>3
    <3>5. QED
      BY <3>4 DEF h
  <2> HIDE DEF e
  <2>5. Ascends(e.core.outbox)
    BY <2>1, <2>3, <2>4, EnqueuedAscends
  <2>6. QED
    BY <1>7, <2>2, <2>5
<1>9. ASSUME NEW t \in Tabs, BrowserSubscribe(t) PROVE OK
  <2> DEFINE e == EnqueueWrite(core[t], "subscribe", None, FALSE, Connected(t))
  <2>1. Enqueues(core[t], e, None, None, Connected(t)) /\ core' = [core EXCEPT ![t] = e.core]
    BY <1>9, SubscribeIs
  <2>2. core[t] \in Core /\ Ascends(core[t].outbox)
    BY DEF Types, ClientTypes, AscendOK
  <2> HIDE DEF e
  <2>3. Ascends(e.core.outbox)
    BY <2>1, <2>2, EnqueuedAscends
  <2>4. QED
    BY <1>7, <2>1, <2>3
<1>10. ASSUME NEW t \in Tabs, Receive(t) PROVE OK
  <2> DEFINE x == AckReply(core[t]).core
  <2>1. core' = core \/ core' = [core EXCEPT ![t] = x]
    BY <1>10, ReceiveIs
  <2>2. core[t].outbox \in Seq(Row) /\ Ascends(core[t].outbox)
    BY CoreFields DEF Types, ClientTypes, AscendOK
  <2>3. x.outbox = core[t].outbox \/ x.outbox = Kept(core[t].outbox, Others(core[t]))
    BY ReplyRows
  <2> HIDE DEF x
  <2>4. Ascends(x.outbox)
    BY <2>2, <2>3, AscendsKept
  <2>5. QED
    BY <1>1, <1>7, <2>1, <2>4
<1>11. (\E n \in DOMAIN up : Serve(n) \/ Push(n) \/ Overgrow(n)) \/ Refuse \/ Tick \/ UNCHANGED vars => OK
  <2>1. (\E n \in DOMAIN up : Serve(n) \/ Push(n) \/ Overgrow(n)) \/ Refuse \/ Tick \/ UNCHANGED vars
          => UNCHANGED core
    BY DEF Serve, Push, Overgrow, Refuse, Tick, vars, client
  <2>2. QED
    BY <1>1, <2>1
<1> HIDE DEF OK
<1>12. OK
  BY <1>4, <1>5, <1>6, <1>8, <1>9, <1>10, <1>11, Steps DEF Begins, Settles, Issues
<1>13. QED
  BY <1>12 DEF OK

-----------------------------------------------------------------------------
(* The rows on disk are in the order of their wire ids *)

\* The rows on their way to the disk under their numbers.
PutPairs(s) == {<<s[i].id, s[i].frame>> : i \in {j \in DOMAIN s : s[j].kind = "put"}}
DiskPairs == {<<id, idb.rows[id]>> : id \in DOMAIN idb.rows}

\* The rows on disk, and those on their way to it.
LEMMA NumberedIs == \A t \in Tabs : Numbered(t) = DiskPairs \cup PutPairs(tasks[t])
BY DEF Numbered, DiskPairs, PutPairs

\* The transactions of two sequences.
LEMMA TasksJoined ==
    ASSUME NEW s, TasksOK(s), NEW r, TasksOK(r)
    PROVE  \A i \in DOMAIN (s \o r) : \/ \E j \in DOMAIN s : (s \o r)[i] = s[j]
                                      \/ \E j \in DOMAIN r : (s \o r)[i] = r[j]
<1> DEFINE S == ToSet(s) \cup ToSet(r)
           c == s \o r
<1>1. s \in Seq(S) /\ r \in Seq(S)
  <2>1. s \in Seq(ToSet(s)) /\ r \in Seq(ToSet(r))
    BY DEF TasksOK
  <2>2. QED
    BY <2>1
<1> HIDE DEF S
<1>2. /\ c \in Seq(S) /\ Len(c) = Len(s) + Len(r)
      /\ \A i \in 1..Len(s) : c[i] = s[i]
      /\ \A j \in 1..Len(r) : c[Len(s) + j] = r[j]
  BY ONLY <1>1, ConcatFacts
<1> HIDE DEF c
<1>3. /\ DOMAIN c = 1..(Len(s) + Len(r)) /\ DOMAIN r = 1..Len(r) /\ DOMAIN s = 1..Len(s)
      /\ Len(r) \in Nat /\ Len(s) \in Nat
  BY <1>1, <1>2
<1>4. ASSUME NEW i \in DOMAIN c
      PROVE  (\E j \in DOMAIN s : c[i] = s[j]) \/ \E j \in DOMAIN r : c[i] = r[j]
  <2>1. CASE i <= Len(s)
    BY <1>2, <1>3, <2>1
  <2>2. CASE i > Len(s)
    <3> DEFINE j == i - Len(s)
    <3>1. j \in 1..Len(r) /\ Len(s) + j = i
      BY <1>3, <2>2
    <3> HIDE DEF j
    <3>2. c[i] = r[j]
      BY <1>2, <3>1
    <3>3. QED
      BY <1>3, <3>1, <3>2
  <2>3. QED
    BY <1>3, <2>1, <2>2
<1>5. QED
  BY <1>4 DEF c

\* The numbered rows of a sequence of transactions.
LEMMA PairsFacts ==
    ASSUME NEW s, TasksOK(s)
    PROVE  /\ s # << >> => /\ PutPairs(Tail(s)) \subseteq PutPairs(s)
                           /\ Head(s).kind = "put" => <<Head(s).id, Head(s).frame>> \in PutPairs(s)
           /\ \A r : TasksOK(r) => PutPairs(s \o r) \subseteq PutPairs(s) \cup PutPairs(r)
<1>1. s \in Seq(ToSet(s)) /\ DOMAIN s = 1..Len(s) /\ Len(s) \in Nat
  BY DEF TasksOK
<1>2. ASSUME s # << >> PROVE PutPairs(Tail(s)) \subseteq PutPairs(s)
  <2>1. \A i \in DOMAIN Tail(s) : i + 1 \in DOMAIN s /\ Tail(s)[i] = s[i + 1]
    BY <1>1, <1>2
  <2>2. QED
    BY <2>1 DEF PutPairs
<1>3. ASSUME s # << >>, Head(s).kind = "put" PROVE <<Head(s).id, Head(s).frame>> \in PutPairs(s)
  <2>1. 1 \in DOMAIN s /\ Head(s) = s[1]
    BY <1>1, <1>3
  <2>2. QED
    BY <1>3, <2>1 DEF PutPairs
<1>4. ASSUME NEW r, TasksOK(r) PROVE PutPairs(s \o r) \subseteq PutPairs(s) \cup PutPairs(r)
  <2> DEFINE c == s \o r
  <2>1. \A i \in DOMAIN c : (\E j \in DOMAIN s : c[i] = s[j]) \/ (\E j \in DOMAIN r : c[i] = r[j])
    BY <1>4, TasksJoined
  <2> HIDE DEF c
  <2>2. PutPairs(c) \subseteq PutPairs(s) \cup PutPairs(r)
    BY <2>1 DEF PutPairs
  <2>3. QED
    BY <2>2 DEF c
<1>5. QED
  BY <1>2, <1>3, <1>4

\* Those of an operation.
LEMMA PairsMade ==
    /\ PutPairs(<< >>) = {} /\ PutPairs(<<ClearAll>>) = {}
    /\ \A id : PutPairs(<<DeleteRow(id)>>) = {}
    /\ \A id, w : PutPairs(<<AppendLog(id, w)>>) = {}
<1>1. PutPairs(<< >>) = {}
  BY DEF PutPairs
<1>2. ASSUME NEW a, a.kind # "put" PROVE PutPairs(<<a>>) = {}
  <2>1. DOMAIN <<a>> = {1} /\ <<a>>[1] = a
    OBVIOUS
  <2>2. QED
    BY <1>2, <2>1 DEF PutPairs
<1>3. ClearAll.kind # "put" /\ (\A id : DeleteRow(id).kind # "put")
      /\ \A id, w : AppendLog(id, w).kind # "put"
  BY DEF ClearAll, DeleteRow, AppendLog
<1>4. QED
  BY <1>1, <1>2, <1>3, Zenon

\* Those of a row that is queued.
LEMMA PairsStored ==
    ASSUME NEW c, NEW e, e.id \in Nat, e.frame \in RowFrame,
           e.dropped = << >> \/ e.dropped = <<Head(c.outbox)>>
    PROVE  TasksOK(StoreRow(e)) /\ PutPairs(StoreRow(e)) \subseteq {<<e.id, e.frame>>}
<1> DEFINE s == StoreRow(e)
<1>1. TasksOK(s) /\ \A i \in DOMAIN s : s[i].kind = "put" => s[i].frame = e.frame /\ s[i].id = e.id
  BY StoreRowType
<1> HIDE DEF s
<1>2. PutPairs(s) \subseteq {<<e.id, e.frame>>}
  BY <1>1 DEF PutPairs
<1>3. QED
  BY <1>1, <1>2 DEF s

\* Those of a transaction that is not about a row.
LEMMA PairsKept ==
    ASSUME Types, NEW t \in Tabs, NEW a, TasksOK(<<a>>), PutPairs(<<a>>) = {},
           tasks' = [tasks EXCEPT ![t] = Append(tasks[t], a)]
    PROVE  PutPairs(tasks'[t]) \subseteq PutPairs(tasks[t])
<1> DEFINE s == tasks[t]
<1>1. tasks'[t] = Append(s, a) /\ TasksOK(s)
  BY DEF Types, TaskTypes
<1> HIDE DEF s
<1>2. s \in Seq(ToSet(s) \cup {a})
  BY <1>1 DEF TasksOK
<1>3. Append(s, a) = s \o <<a>>
  BY <1>2, ConcatEnds
<1>4. PutPairs(s \o <<a>>) \subseteq PutPairs(s) \cup PutPairs(<<a>>)
  BY <1>1, PairsFacts
<1>5. PutPairs(tasks'[t]) \subseteq PutPairs(s)
  BY <1>1, <1>3, <1>4
<1>6. QED
  BY <1>5 DEF s

\* In embed there is nothing on disk.
LEMMA DiskEmbed == EpochOK /\ ~Browser => DiskOK
<1> SUFFICES ASSUME EpochOK, ~Browser PROVE DiskOK
  OBVIOUS
<1>1. \A t \in Tabs : Numbered(t) = {} /\ tasks[t] = << >>
  BY EmbedHasNoDisk DEF EpochOK
<1>2. QED
  BY <1>1 DEF DiskOK, Rising

\* No row is added, or one with the next number and a greater wire id.
LEMMA DiskGrows ==
    ASSUME Types, Types', DiskOK, NEW t \in Tabs, \A u \in Tabs : u = t, NEW P,
           Numbered(t)' \subseteq Numbered(t) \cup P,
           phase'[t] \in {"log", "ready"} =>
             phase[t] \in {"log", "ready"} /\ core'[t].seq >= core[t].seq,
           phase'[t] # "ready" => tasks'[t] = << >>,
           \A p \in P : /\ P = {p} /\ p[1] = core[t].seq /\ core'[t].seq = core[t].seq + 1
                        /\ phase[t] \in {"log", "ready"}
                        /\ p[2].wire # None =>
                             \A a \in Numbered(t) : a[2].wire # None => a[2].wire < p[2].wire
    PROVE  DiskOK'
<1> DEFINE N == Numbered(t)
           M == Numbered(t)'
           seq == core[t].seq
           next == core'[t].seq
<1>1. seq \in Nat /\ next \in Nat
  BY CoreFields DEF Types, ClientTypes
<1>2. \A a \in N : a[1] \in Nat
  <2>1. \A id \in DOMAIN idb.rows : id \in Nat
    BY DEF Types, DiskTypes
  <2>2. \A i \in DOMAIN tasks[t] : tasks[t][i].kind = "put" => tasks[t][i].id \in Nat
    BY DEF Types, TaskTypes, TasksOK, TaskOK
  <2>3. QED
    BY <2>1, <2>2 DEF Numbered
<1>3. Rising(N) /\ (phase[t] \in {"log", "ready"} => \A a \in N : a[1] < seq)
  BY DEF DiskOK
<1>4. M \subseteq N \cup P /\ (phase'[t] \in {"log", "ready"} => next >= seq)
  OBVIOUS
<1>5. \A p \in P : /\ P = {p} /\ p[1] = seq /\ next = seq + 1 /\ phase[t] \in {"log", "ready"}
                   /\ p[2].wire # None => \A a \in N : a[2].wire # None => a[2].wire < p[2].wire
  OBVIOUS
<1> HIDE DEF N, M, seq, next
<1>6. Rising(M)
  <2> SUFFICES ASSUME NEW a \in M, NEW b \in M, a[1] < b[1], a[2].wire # None, b[2].wire # None
               PROVE  a[2].wire < b[2].wire
    BY DEF Rising
  <2>1. CASE a \in N /\ b \in N
    BY <1>3, <2>1 DEF Rising
  <2>2. CASE b \in P /\ a \in N
    BY <1>5, <2>2
  <2>3. CASE a \in P
    <3>1. a[1] = seq /\ (b = a \/ (b \in N /\ b[1] < seq /\ b[1] \in Nat))
      BY <1>2, <1>3, <1>4, <1>5, <2>3
    <3>2. ~(a[1] < b[1])
      BY <1>1, <3>1
    <3>3. QED
      BY <3>2
  <2>4. QED
    BY <1>4, <2>1, <2>2, <2>3
<1>7. ASSUME phase'[t] \in {"log", "ready"}, NEW a \in M PROVE a[1] < next
  <2>1. CASE a \in N
    BY <1>1, <1>2, <1>3, <1>4, <1>7, <2>1
  <2>2. CASE a \in P
    BY <1>1, <1>5, <2>2
  <2>3. QED
    BY <1>4, <2>1, <2>2
<1>8. QED
  BY <1>6, <1>7 DEF DiskOK, M, next

\* No row is added.
LEMMA DiskQuiet ==
    ASSUME Types, Types', DiskOK, NEW t \in Tabs, \A u \in Tabs : u = t,
           DiskPairs' \subseteq DiskPairs \cup PutPairs(tasks[t]),
           PutPairs(tasks'[t]) \subseteq PutPairs(tasks[t]),
           phase'[t] \in {"log", "ready"} =>
             phase[t] \in {"log", "ready"} /\ core'[t].seq >= core[t].seq,
           phase'[t] # "ready" => tasks'[t] = << >>
    PROVE  DiskOK'
<1>1. Numbered(t) = DiskPairs \cup PutPairs(tasks[t])
  BY NumberedIs
<1>2. Numbered(t)' = DiskPairs' \cup PutPairs(tasks'[t])
  BY DEF Numbered, DiskPairs, PutPairs
<1> DEFINE P == {}
<1>3. Numbered(t)' \subseteq Numbered(t) \cup P
  BY <1>1, <1>2
<1>4. \A p \in P : /\ P = {p} /\ p[1] = core[t].seq /\ core'[t].seq = core[t].seq + 1
                   /\ phase[t] \in {"log", "ready"}
                   /\ p[2].wire # None => \A a \in Numbered(t) : a[2].wire # None => a[2].wire < p[2].wire
  OBVIOUS
<1> HIDE DEF P
<1>5. QED
  BY <1>3, <1>4, DiskGrows

\* A row is queued.
LEMMA DiskPut ==
    ASSUME Types, Types', SocketsOK, DiskOK, NEW t \in Tabs, \A u \in Tabs : u = t, Ready(t), NEW e, NEW write,
           NEW wire, Enqueues(core[t], e, write, wire, Connected(t)), core' = [core EXCEPT ![t] = e.core],
           NEW r, TasksOK(r), PutPairs(r) = {}, tasks'[t] = tasks[t] \o StoreRow(e) \o r,
           UNCHANGED <<phase, idb>>,
           wire # None => \A h \in InPlay : h.wire < wire
    PROVE  DiskOK'
<1> DEFINE s == tasks[t]
           q == StoreRow(e)
           P == {<<core[t].seq, e.frame>>}
<1>1. /\ e.id = core[t].seq /\ e.frame \in RowFrame /\ e.frame.wire = wire /\ e.core.seq = core[t].seq + 1
      /\ e.dropped = << >> \/ e.dropped = <<Head(core[t].outbox)>>
  BY DEF Enqueues
<1>2. core[t].seq \in Nat /\ core'[t] = e.core /\ TasksOK(s)
  BY CoreFields DEF Types, ClientTypes, TaskTypes
<1>3. TasksOK(q) /\ PutPairs(q) \subseteq P
  BY <1>1, <1>2, PairsStored
<1>4. TasksOK(s \o q) /\ PutPairs(s \o q) \subseteq PutPairs(s) \cup PutPairs(q)
  <2> HIDE DEF s, q
  <2>1. QED
    BY <1>2, <1>3, TasksAdded, PairsFacts
<1>5. PutPairs(tasks'[t]) \subseteq PutPairs(s) \cup P
  <2> DEFINE b == s \o q
  <2> HIDE DEF b
  <2>1. TasksOK(b)
    BY <1>4 DEF b
  <2>2. PutPairs(b \o r) \subseteq PutPairs(b) \cup PutPairs(r)
    BY <2>1, PairsFacts
  <2>3. tasks'[t] = b \o r
    BY DEF b
  <2>4. PutPairs(b) \subseteq PutPairs(s) \cup P
    BY <1>3, <1>4 DEF b
  <2>5. QED
    BY <2>2, <2>3, <2>4
<1>6. Numbered(t) = DiskPairs \cup PutPairs(s)
  BY NumberedIs
<1>7. Numbered(t)' = DiskPairs' \cup PutPairs(tasks'[t]) /\ DiskPairs' = DiskPairs
  BY DEF Numbered, DiskPairs, PutPairs
<1>8. Numbered(t)' \subseteq Numbered(t) \cup P
  BY <1>5, <1>6, <1>7
<1>9. \A a \in Numbered(t) : a[2].wire # None => a[2] \in InPlay
  <2> SUFFICES ASSUME NEW a \in Numbered(t), a[2].wire # None PROVE a[2] \in InPlay
    OBVIOUS
  <2>1. a[2] \in OnDisk \/ a[2] \in PutsIn(tasks[t])
    BY DEF Numbered, OnDisk, PutsIn
  <2>2. QED
    BY <2>1, InPlayHas
<1>10. phase[t] = "ready" /\ phase'[t] = "ready"
  BY DEF Ready
<1>11. \A p \in P : /\ P = {p} /\ p[1] = core[t].seq /\ core'[t].seq = core[t].seq + 1
                    /\ phase[t] \in {"log", "ready"}
                    /\ p[2].wire # None => \A a \in Numbered(t) : a[2].wire # None => a[2].wire < p[2].wire
  <2> SUFFICES ASSUME NEW p \in P
               PROVE  /\ P = {p} /\ p[1] = core[t].seq /\ core'[t].seq = core[t].seq + 1
                      /\ phase[t] \in {"log", "ready"}
                      /\ p[2].wire # None => \A a \in Numbered(t) : a[2].wire # None => a[2].wire < p[2].wire
    OBVIOUS
  <2>1. p = <<core[t].seq, e.frame>> /\ P = {p}
    OBVIOUS
  <2>2. p[1] = core[t].seq /\ p[2] = e.frame
    BY <2>1
  <2> HIDE DEF P
  <2>3. QED
    BY <1>1, <1>2, <1>9, <1>10, <2>1, <2>2
<1>12. core'[t].seq >= core[t].seq
  BY <1>1, <1>2
<1> HIDE DEF P
<1>13. QED
  BY <1>8, <1>10, <1>11, <1>12, DiskGrows

\* The rows on disk are those of the outbox.
LEMMA DiskReplaced ==
    ASSUME Types, Types', AlignInv, DiskOK, AscendOK, NEW t \in Tabs, \A u \in Tabs : u = t, ReplaceRows(t)
    PROVE  DiskOK'
<1> DEFINE s == core[t].outbox
           R == RowsOf(s)
<1>1. /\ phase[t] = "replace" /\ phase' = [phase EXCEPT ![t] = "log"] /\ UNCHANGED <<core, tasks>>
      /\ idb' = [idb EXCEPT !.rows = R]
  BY DEF ReplaceRows, RowsOf
<1>2. s \in Seq(Row) /\ DOMAIN s = 1..Len(s) /\ Len(s) \in Nat
  BY CoreFields DEF Types, ClientTypes
<1>3. /\ \A i, j \in DOMAIN s : i < j => s[i].id < s[j].id
      /\ \A i \in DOMAIN s : s[i].id < core[t].seq
      /\ Ascends(s)
  BY DEF AlignInv, Good, RowsOK, AscendOK
<1>4. idb'.rows = R /\ phase'[t] = "log" /\ tasks'[t] = << >>
  BY <1>1 DEF Types, DiskTypes, ClientTypes, DiskOK
<1>5. DOMAIN R = {s[i].id : i \in DOMAIN s}
  BY DEF RowsOf
<1>6. \A i \in DOMAIN s : s[i].id \in Nat
  BY <1>2, RowFacts
<1>7. \A id \in DOMAIN R : \E i \in DOMAIN s : s[i].id = id /\ R[id] = s[i].frame
  <2> SUFFICES ASSUME NEW id \in DOMAIN R PROVE \E i \in DOMAIN s : s[i].id = id /\ R[id] = s[i].frame
    OBVIOUS
  <2> DEFINE row == CHOOSE row \in ToSet(s) : row.id = id
  <2>1. \E row1 \in ToSet(s) : row1.id = id
    BY <1>5 DEF ToSet
  <2>2. row \in ToSet(s) /\ row.id = id
    BY <2>1, Zenon
  <2>3. R[id] = row.frame
    BY <1>5 DEF RowsOf
  <2> HIDE DEF row
  <2>4. PICK i \in DOMAIN s : s[i] = row
    BY <2>2 DEF ToSet
  <2>5. QED
    BY <2>2, <2>3, <2>4
<1> DEFINE M == {<<id, R[id]>> : id \in DOMAIN R}
<1>8. Numbered(t)' = M
  <2>1. Numbered(t)' = {<<id, idb'.rows[id]>> : id \in DOMAIN idb'.rows} \cup PutPairs(tasks'[t])
    BY DEF Numbered, PutPairs
  <2>2. PutPairs(tasks'[t]) = {}
    BY <1>4, PairsMade
  <2>3. QED
    BY <1>4, <2>1, <2>2
<1> HIDE DEF R, s
<1>9. \A a \in M : \E i \in DOMAIN s : a[1] = s[i].id /\ a[2] = s[i].frame
  BY <1>7
<1> HIDE DEF M
<1>10. Rising(M)
  <2> SUFFICES ASSUME NEW a \in M, NEW b \in M, a[1] < b[1], a[2].wire # None, b[2].wire # None
               PROVE  a[2].wire < b[2].wire
    BY DEF Rising
  <2>1. PICK i \in DOMAIN s : a[1] = s[i].id /\ a[2] = s[i].frame
    BY <1>9
  <2>2. PICK j \in DOMAIN s : b[1] = s[j].id /\ b[2] = s[j].frame
    BY <1>9
  <2>3. i < j
    <3>1. i # j
      BY <1>6, <2>1, <2>2
    <3>2. ~(j < i)
      BY <1>3, <1>6, <2>1, <2>2
    <3>3. QED
      BY <1>2, <3>1, <3>2
  <2>4. QED
    BY <1>3, <2>1, <2>2, <2>3 DEF Ascends
<1>11. \A a \in M : a[1] < core[t].seq
  BY <1>3, <1>9
<1>12. QED
  BY <1>1, <1>4, <1>8, <1>10, <1>11 DEF DiskOK

\* A transaction moves a row from the queue to the disk, or takes some away.
LEMMA DiskCommit ==
    ASSUME Types, Types', DiskOK, NEW t \in Tabs, \A u \in Tabs : u = t, Commit(t)
    PROVE  DiskOK'
<1> DEFINE task == Head(tasks[t])
           s == tasks[t]
<1>1. /\ s # << >> /\ tasks' = [tasks EXCEPT ![t] = Tail(s)] /\ UNCHANGED <<core, phase>> /\ TasksOK(s)
      /\ \A i \in DOMAIN idb'.rows :
           \/ i \in DOMAIN idb.rows /\ idb'.rows[i] = idb.rows[i]
           \/ task.kind = "put" /\ i = task.id /\ idb'.rows[i] = task.frame
  BY CommitRows
<1>2. tasks'[t] = Tail(s) /\ phase[t] = "ready"
  BY <1>1 DEF Types, TaskTypes, DiskOK
<1>3. /\ PutPairs(Tail(s)) \subseteq PutPairs(s)
      /\ task.kind = "put" => <<task.id, task.frame>> \in PutPairs(s)
  BY <1>1, PairsFacts
<1> HIDE DEF task, s
<1>4. DiskPairs' \subseteq DiskPairs \cup PutPairs(s)
  <2> SUFFICES ASSUME NEW i \in DOMAIN idb'.rows PROVE <<i, idb'.rows[i]>> \in DiskPairs \cup PutPairs(s)
    BY DEF DiskPairs
  <2>1. CASE i \in DOMAIN idb.rows /\ idb'.rows[i] = idb.rows[i]
    BY <2>1 DEF DiskPairs
  <2>2. CASE task.kind = "put" /\ i = task.id /\ idb'.rows[i] = task.frame
    BY <1>3, <2>2
  <2>3. QED
    BY <1>1, <2>1, <2>2
<1>5. core[t].seq \in Nat
  BY CoreFields DEF Types, ClientTypes
<1>6. core'[t].seq >= core[t].seq
  BY <1>1, <1>5
<1>7. QED
  BY <1>1, <1>2, <1>3, <1>4, <1>6, DiskQuiet DEF s

\* The steps that do not touch the queue of transactions or the rows on disk.
LEMMA DiskUntouched ==
    ASSUME Types, Types', DiskOK, NEW t \in Tabs, \A u \in Tabs : u = t, idb'.rows = idb.rows,
           tasks'[t] = tasks[t], phase'[t] \in {"closed", "identity", "epoch", "bump", "outbox", "replace"} \/
                                 (phase'[t] \in {"log", "ready"} /\ phase[t] \in {"log", "ready"}
                                    /\ core'[t].seq >= core[t].seq),
           phase[t] = "ready" => phase'[t] = "ready"
    PROVE  DiskOK'
<1>1. DiskPairs' \subseteq DiskPairs \cup PutPairs(tasks[t]) /\ PutPairs(tasks'[t]) \subseteq PutPairs(tasks[t])
  BY DEF DiskPairs
<1>2. phase'[t] # "ready" => tasks'[t] = << >>
  BY DEF DiskOK
<1>3. QED
  BY <1>1, <1>2, DiskQuiet

\* The steps of a start.
LEMMA DiskStart ==
    ASSUME Types, Types', DiskOK, NEW t \in Tabs, \A u \in Tabs : u = t, Browser,
           Begins(t) \/ Settles(t) \/ RestoreRows(t) \/ ReplayLog(t)
    PROVE  DiskOK'
<1>1. tasks' = tasks /\ idb'.rows = idb.rows
  <2>1. CASE Begins(t) \/ RestoreRows(t) \/ ReadEpoch(t)
    BY <2>1 DEF Begins, Opened, RestoreRows, ReadEpoch, browser
  <2>2. CASE AdoptIdentity(t) \/ BumpEpoch(t)
    BY <2>2 DEF AdoptIdentity, BumpEpoch, Types, DiskTypes
  <2>3. CASE ReplayLog(t)
    <3>1. tasks' = tasks /\ (idb' = idb \/ \E w : idb' = [idb EXCEPT !.wal = w])
      BY <2>3, Zenon DEF ReplayLog
    <3>2. QED
      BY <3>1 DEF Types, DiskTypes
  <2>4. QED
    BY <2>1, <2>2, <2>3 DEF Settles
<1>2. \/ phase[t] # "ready" /\ phase'[t] \in {"identity", "epoch", "bump", "outbox", "replace"}
      \/ phase[t] = "log" /\ phase'[t] = "ready" /\ core' = core
  BY DEF Begins, Settles, Opened, AdoptIdentity, ReadEpoch, BumpEpoch, RestoreRows, ReplayLog, Types, ClientTypes
<1>3. core[t].seq \in Nat /\ core[t].seq >= core[t].seq
  BY CoreFields DEF Types, ClientTypes
<1>4. QED
  BY <1>1, <1>2, <1>3, DiskUntouched

\* The steps of the network, and those of a session.
LEMMA DiskIdle ==
    ASSUME Types, Types', DiskOK, NEW t \in Tabs, \A u \in Tabs : u = t, Keeps, UNCHANGED <<phase, tasks, idb>>
    PROVE  DiskOK'
<1>1. TabKeeps(t)
  BY DEF Keeps
<1>2. phase'[t] \in Phases
  BY DEF Types, ClientTypes
<1>3. QED
  BY <1>1, <1>2, DiskUntouched DEF TabKeeps, Phases

\* A sign-out and an answer.
LEMMA DiskRetired ==
    ASSUME Types, Types', SocketsOK, AlignInv, EpochOK, DiskOK, NEW t \in Tabs, \A u \in Tabs : u = t,
           Clear(t) \/ Receive(t)
    PROVE  DiskOK'
<1>1. Keeps /\ UNCHANGED <<phase, idb>> /\ phase[t] = "ready"
  BY ClearKeeps, ReceiveKeeps DEF Clear, Receive, SocketsOK, Ready
<1>2. UNCHANGED tasks \/ \E a : /\ TasksOK(<<a>>) /\ PutPairs(<<a>>) = {}
                                /\ tasks' = [tasks EXCEPT ![t] = Append(tasks[t], a)]
  <2>1. CASE Clear(t)
    <3> DEFINE a == ClearAll
    <3>1. TasksOK(<<a>>) /\ PutPairs(<<a>>) = {} /\ tasks' = [tasks EXCEPT ![t] = Append(tasks[t], a)]
      BY <2>1, TaskMade, PairsMade DEF Clear
    <3> HIDE DEF a
    <3>2. QED
      BY <3>1
  <2>2. CASE Receive(t)
    <3> DEFINE a == DeleteRow(AckReply(core[t]).retired)
    <3>1. TasksOK(<<a>>) /\ PutPairs(<<a>>) = {}
      BY TaskMade, PairsMade, Zenon
    <3>2. tasks' = tasks \/ tasks' = [tasks EXCEPT ![t] = Append(tasks[t], a)]
      BY <2>2, ReceiveIs DEF ReceiveReply, ReceivePush, ReceiveHuge, Retired
    <3> HIDE DEF a
    <3>3. QED
      BY <3>1, <3>2, Zenon
  <2>3. QED
    BY <2>1, <2>2
<1>3. DiskPairs' \subseteq DiskPairs \cup PutPairs(tasks[t])
  BY <1>1 DEF DiskPairs
<1>4. PutPairs(tasks'[t]) \subseteq PutPairs(tasks[t])
  BY <1>2, PairsKept
<1>5. core'[t].seq >= core[t].seq /\ phase'[t] = "ready"
  BY <1>1 DEF Keeps, TabKeeps
<1>6. QED
  BY <1>1, <1>3, <1>4, <1>5, DiskQuiet

\* A write and a subscription.
LEMMA DiskQueued ==
    ASSUME Types, Types', SocketsOK, AlignInv, OrderInv, MarksOK, IdsLeft, DiskOK, NEW t \in Tabs,
           \A u \in Tabs : u = t, Browser, Issues(t) \/ BrowserSubscribe(t)
    PROVE  DiskOK'
<1>1. CASE Issues(t)
  <2> DEFINE e == NewWrite(t)
             wire == e.frame.wire
             w == Len(issued) + 1
             r == <<AppendLog(walSeq[t], w)>>
  <2>1. /\ core' = [core EXCEPT ![t] = e.core] /\ UNCHANGED <<phase, idb>> /\ Ready(t)
        /\ tasks' = [tasks EXCEPT ![t] = tasks[t] \o StoreRow(e) \o r]
    BY <1>1 DEF Issues, BrowserWrite, EmbedWrite, Enqueued
  <2>2. /\ Enqueues(core[t], e, w, wire, Connected(t)) /\ e.frame.client = core[t].client
        /\ \A h \in InPlay : h.client = e.frame.client => h.wire < wire
    BY <1>1, NewestWrite
  <2>3. \A h \in InPlay : h.client = core[t].client
    BY <2>1 DEF OrderInv, EpochOK, Ready
  <2>4. TasksOK(r) /\ PutPairs(r) = {}
    BY TaskMade, PairsMade
  <2>5. tasks'[t] = tasks[t] \o StoreRow(e) \o r
    BY <2>1 DEF Types, TaskTypes
  <2> HIDE DEF e, r
  <2>6. QED
    BY <2>1, <2>2, <2>3, <2>4, <2>5, DiskPut
<1>2. CASE BrowserSubscribe(t)
  <2> DEFINE e == EnqueueWrite(core[t], "subscribe", None, FALSE, Connected(t))
             r == << >>
  <2>1. /\ Enqueues(core[t], e, None, None, Connected(t)) /\ core' = [core EXCEPT ![t] = e.core]
        /\ tasks' = [tasks EXCEPT ![t] = tasks[t] \o StoreRow(e)]
    BY <1>2, SubscribeIs
  <2>2. UNCHANGED <<phase, idb>> /\ Ready(t)
    BY <1>2 DEF BrowserSubscribe
  <2>3. TasksOK(r) /\ PutPairs(r) = {}
    BY TaskMade, PairsMade
  <2> HIDE DEF e
  <2>4. tasks'[t] = tasks[t] \o StoreRow(e) /\ TasksOK(tasks[t])
    BY <2>1 DEF Types, TaskTypes
  <2>5. TasksOK(StoreRow(e))
    <3>1. core[t].seq \in Nat
      BY CoreFields DEF Types, ClientTypes
    <3>2. e.id \in Nat /\ e.frame \in RowFrame /\ (e.dropped = << >> \/ e.dropped = <<Head(core[t].outbox)>>)
      BY <2>1, <3>1 DEF Enqueues
    <3>3. QED
      BY <3>2, PairsStored
  <2>6. tasks'[t] = tasks[t] \o StoreRow(e) \o r
    <3> DEFINE b == tasks[t] \o StoreRow(e)
    <3>1. TasksOK(b)
      BY <2>4, <2>5, TasksAdded
    <3> HIDE DEF b
    <3>2. b \in Seq(ToSet(b))
      BY <3>1 DEF TasksOK
    <3>3. b \o << >> = b
      BY <3>2, ConcatEnds
    <3>4. QED
      BY <2>4, <3>3 DEF b
  <2> HIDE DEF r
  <2>7. QED
    BY <2>1, <2>2, <2>3, <2>6, DiskPut
<1>3. QED
  BY <1>1, <1>2

\* A tab is closed.
LEMMA DiskCrash ==
    ASSUME Types, Types', DiskOK, NEW t \in Tabs, \A u \in Tabs : u = t, Crash(t)
    PROVE  DiskOK'
<1>1. phase'[t] = "closed" /\ tasks'[t] = << >> /\ idb' = idb
  BY DEF Crash, Types, ClientTypes, TaskTypes
<1>2. DiskPairs' \subseteq DiskPairs \cup PutPairs(tasks[t]) /\ PutPairs(tasks'[t]) \subseteq PutPairs(tasks[t])
  BY <1>1, PairsMade DEF DiskPairs
<1>3. QED
  BY <1>1, <1>2, DiskQuiet

\* Every step keeps the rows on disk in order.
LEMMA DiskStep ==
    ASSUME Alone, Types, SocketsOK, AlignInv, OrderInv, MarksOK, AscendOK, DiskOK, IdsLeft, [Next]_vars
    PROVE  DiskOK'
<1>1. Types' /\ OrderInv'
  BY TypesStep, OrderStep
<1>2. scenario' = scenario
  BY Zenon, StepKinds DEF Keeps, OrderInv, Begins, Opened, Settles, AdoptIdentity, ReadEpoch, BumpEpoch, Issues,
                   BrowserWrite, EmbedWrite, bounds
<1>3. CASE ~Browser
  <2>1. (EpochOK /\ ~Browser => DiskOK)'
    BY DiskEmbed, PTL
  <2>2. QED
    BY <1>1, <1>2, <1>3, <2>1 DEF OrderInv, Browser, Setup
<1>4. CASE Browser
  <2> DEFINE OK == DiskOK'
  <2>1. \A t, u \in Tabs : u = t
    BY <1>4 DEF Alone
  <2>2. EpochOK
    BY DEF OrderInv
  <2>3. \A t \in Tabs : Begins(t) \/ Settles(t) \/ RestoreRows(t) \/ ReplayLog(t) => OK
    BY <1>1, <1>4, <2>1, DiskStart
  <2>4. \A t \in Tabs : ReplaceRows(t) => OK
    BY <1>1, <2>1, DiskReplaced
  <2>5. \A t \in Tabs : Commit(t) => OK
    BY <1>1, <2>1, DiskCommit
  <2>6. \A t \in Tabs : Crash(t) => OK
    BY <1>1, <2>1, DiskCrash
  <2>7. \A t \in Tabs : Clear(t) \/ Receive(t) => OK
    BY <1>1, <2>1, <2>2, DiskRetired
  <2>8. \A t \in Tabs : Issues(t) \/ BrowserSubscribe(t) => OK
    BY <1>1, <1>4, <2>1, DiskQueued
  <2>9. ASSUME NEW t \in Tabs, Connect(t) \/ Close(t) \/ Read(t) \/ Query(t) \/ Unquery(t) \/ EmbedSubscribe(t)
        PROVE  OK
    <3>1. Keeps
      BY <2>2, <2>9, ConnectKeeps, CloseKeeps, CommandKeeps
    <3>2. UNCHANGED <<phase, tasks, idb>>
      BY <2>9 DEF Connect, Close, Read, Query, Unquery, Command, EmbedSubscribe, browser
    <3>3. QED
      BY <1>1, <2>1, <3>1, <3>2, DiskIdle
  <2>10. ASSUME (\E n \in DOMAIN up : Serve(n) \/ Push(n) \/ Overgrow(n)) \/ Refuse \/ Tick \/ UNCHANGED vars
         PROVE  OK
    <3>1. Keeps
      BY <2>2, <2>10, ServeKeeps, QuietKeeps
    <3>2. UNCHANGED <<phase, tasks, idb>>
      BY <2>10 DEF Serve, Push, Overgrow, Refuse, Tick, vars, client, browser
    <3>3. CASE Tabs = {}
      BY <3>3 DEF DiskOK
    <3>4. QED
      BY <1>1, <2>1, <3>1, <3>2, <3>3, DiskIdle
  <2> HIDE DEF OK
  <2>11. OK
    BY <2>3, <2>4, <2>5, <2>6, <2>7, <2>8, <2>9, <2>10, Steps DEF Begins, Settles, Issues
  <2>12. QED
    BY <2>11 DEF OK
<1>5. QED
  BY <1>3, <1>4

-----------------------------------------------------------------------------
(* What is on the sockets that the tabs listen to *)

\* A frame is sent.
LEMMA WireSend ==
    ASSUME Types, SocketsOK, NEW t \in Tabs, NEW f \in Frame, up' = Send(t, f), UNCHANGED conn
    PROVE  /\ \A u \in Tabs : u # t => Wire(u)' = Wire(u)
           /\ Wire(t)' = IF Connected(t) THEN Wire(t) \cup {f} ELSE {}
           /\ \A u \in Tabs : Connected(u)' <=> Connected(u)
<1>0. PICK m : m = conn[t]
  OBVIOUS
<1>1. \A u \in Tabs : Connected(u)' <=> Connected(u)
  BY DEF Connected
<1>2. CASE ~Connected(t)
  <2>1. up' = up
    BY <1>2 DEF Send
  <2>2. QED
    BY <1>1, <1>2, <2>1 DEF Wire
<1>3. CASE Connected(t)
  <2>1. m \in DOMAIN up /\ up[m] \in Seq(Frame) /\ \A u \in Tabs : u # t => conn[u] # m
    BY <1>0, <1>3 DEF SocketsOK, Types, NetworkTypes
  <2> DEFINE s == up[m]
             x == Append(s, f)
  <2>2. x \in Seq(Frame) /\ ToSet(x) = ToSet(s) \cup {f}
    <3>1. s \in Seq(Frame)
      BY <2>1
    <3> HIDE DEF s
    <3>2. /\ x \in Seq(Frame) /\ Len(s) \in Nat /\ DOMAIN s = 1..Len(s) /\ DOMAIN x = 1..(Len(s) + 1)
          /\ x[Len(s) + 1] = f /\ \A i \in 1..Len(s) : x[i] = s[i]
      BY <3>1
    <3> HIDE DEF x
    <3>3. ToSet(s) \subseteq ToSet(x) /\ f \in ToSet(x)
      BY <3>2 DEF ToSet
    <3>4. ToSet(x) \subseteq ToSet(s) \cup {f}
      <4> SUFFICES ASSUME NEW i \in DOMAIN x PROVE x[i] \in ToSet(s) \cup {f}
        BY DEF ToSet
      <4>1. i \in 1..Len(s) \/ i = Len(s) + 1
        BY <3>2
      <4>2. QED
        BY <3>2, <4>1 DEF ToSet
    <3>5. QED
      BY <3>2, <3>3, <3>4
  <2>3. up' = [up EXCEPT ![m] = x]
    BY <1>0, <1>3 DEF Send
  <2> HIDE DEF x
  <2>4. \A n \in DOMAIN up : up'[n] = IF n = m THEN x ELSE up[n]
    BY <2>2, <2>3, UpSet DEF Types
  <2>5. ASSUME NEW u \in Tabs, u # t PROVE Wire(u)' = Wire(u)
    <3>1. Connected(u) => conn[u] \in DOMAIN up /\ conn[u] # m
      BY <2>1, <2>5 DEF SocketsOK
    <3>2. QED
      BY <1>1, <2>4, <3>1 DEF Wire
  <2>6. Wire(t)' = ToSet(x) /\ Wire(t) = ToSet(s)
    BY <1>0, <1>1, <1>3, <2>1, <2>4 DEF Wire
  <2>7. QED
    BY <1>1, <1>3, <2>2, <2>5, <2>6
<1>4. QED
  BY <1>2, <1>3

\* A tab gives up its socket.
LEMMA WireGone ==
    ASSUME Types, SocketsOK, NEW t \in Tabs, conn' = [conn EXCEPT ![t] = 0],
           \A n \in DOMAIN up : n # conn[t] => up'[n] = up[n]
    PROVE  /\ Wire(t)' = {} /\ ~Connected(t)'
           /\ \A u \in Tabs : u # t => Wire(u)' = Wire(u) /\ (Connected(u)' <=> Connected(u))
<1>1. \A u \in Tabs : conn'[u] = IF u = t THEN 0 ELSE conn[u]
  BY DEF Types, ClientTypes
<1>2. Wire(t)' = {} /\ ~Connected(t)'
  BY <1>1 DEF Wire, Connected
<1>3. ASSUME NEW u \in Tabs, u # t PROVE Wire(u)' = Wire(u) /\ (Connected(u)' <=> Connected(u))
  <2>1. conn'[u] = conn[u] /\ (Connected(u)' <=> Connected(u))
    BY <1>1, <1>3 DEF Connected
  <2>2. Connected(u) => conn[u] \in DOMAIN up /\ conn[u] # conn[t]
    BY <1>3 DEF SocketsOK
  <2>3. QED
    BY <2>1, <2>2 DEF Wire
<1>4. QED
  BY <1>2, <1>3

\* The line of a new socket: commands of the session around the outbox.
ConnectLine(c, s, n) ==
    /\ s \in Seq(Frame) /\ n \in Nat /\ n + Len(c.outbox) <= Len(s)
    /\ \A i \in DOMAIN s : i <= n \/ i > n + Len(c.outbox) => s[i].wire = None
    /\ \A j \in 1..Len(c.outbox) : s[n + j] = c.outbox[j].frame

\* So it is.
LEMMA ConnectIs ==
    ASSUME Types, NEW t \in Tabs, Connect(t)
    PROVE  \E s, n : ConnectLine(core[t], s, n) /\ up' = Append(up, s)
<1> DEFINE c == core[t]
           a == OnOpen(c).frames
           last == IF channel[t] THEN <<SessionCommand("subscribe")>> ELSE << >>
           s == a \o last
           k == Len(c.outbox)
<1>1. up' = Append(up, s)
  BY DEF Connect
<1>2. c \in Core
  BY DEF Types, ClientTypes
<1>3. PICK n \in Nat : Opens(c, a, n)
  BY <1>2, OpenFrames
<1>4. k \in Nat
  BY <1>2, CoreFields
<1>5. last \in Seq(Frame) /\ \A i \in 1..Len(last) : last[i].wire = None
  BY SessionCommandType, FrameFacts
<1> HIDE DEF a, last
<1>6. a \in Seq(Frame) /\ Len(a) = n + k /\ (\A i \in 1..n : a[i].wire = None)
      /\ \A j \in 1..k : a[n + j] = c.outbox[j].frame
  <2>1. \A i \in 1..n : a[i] \in SessionFrameSet /\ a[i] \in Frame
    BY <1>3 DEF Opens, Frame
  <2>2. QED
    BY <1>3, <2>1, FrameFacts DEF Opens
<1>7. s \in Seq(Frame) /\ Joined(a, last, s) /\ Len(last) \in Nat
  BY <1>5, <1>6, JoinedFacts, ConcatFacts
<1> HIDE DEF s, k, c
<1>8. Len(s) = n + k + Len(last) /\ DOMAIN s = 1..Len(s)
  BY <1>6, <1>7 DEF Joined
<1>9. ASSUME NEW i \in DOMAIN s, i <= n \/ i > n + k PROVE s[i].wire = None
  <2>1. CASE i <= n
    <3>1. i \in 1..n /\ i \in 1..Len(a)
      BY <1>4, <1>6, <1>8, <2>1
    <3>2. QED
      BY <1>6, <1>7, <3>1 DEF Joined
  <2>2. CASE i > n + k
    <3> DEFINE j == i - (n + k)
    <3>1. j \in 1..Len(last) /\ Len(a) + j = i
      BY <1>4, <1>6, <1>7, <1>8, <2>2
    <3> HIDE DEF j
    <3>2. s[i] = last[j]
      BY <1>7, <3>1 DEF Joined
    <3>3. QED
      BY <1>5, <3>1, <3>2
  <2>3. QED
    BY <1>9, <2>1, <2>2
<1>10. ASSUME NEW j \in 1..k PROVE s[n + j] = c.outbox[j].frame
  <2>1. n + j \in 1..Len(a)
    BY <1>4, <1>6
  <2>2. s[n + j] = a[n + j]
    BY <1>7, <2>1 DEF Joined
  <2>3. QED
    BY <1>6, <2>2
<1>11. n + k <= Len(s)
  BY <1>4, <1>7, <1>8
<1>12. ConnectLine(c, s, n)
  BY <1>7, <1>9, <1>10, <1>11 DEF ConnectLine, k
<1>13. QED
  BY <1>1, <1>12 DEF c

\* A socket opens with the writes of the outbox on it.
LEMMA WireConnect ==
    ASSUME Types, SocketsOK, NEW t \in Tabs, Connect(t)
    PROVE  /\ OnWire(t)' = Rows(t) /\ conn'[t] = Len(up) + 1
           /\ \A n \in DOMAIN up : up'[n] = up[n]
           /\ \A u \in Tabs : u # t => Wire(u)' = Wire(u) /\ conn'[u] = conn[u]
<1> DEFINE m == Len(up) + 1
           c == core[t]
           k == Len(c.outbox)
<1>1. PICK s, n : ConnectLine(c, s, n) /\ up' = Append(up, s)
  BY ConnectIs
<1>2. conn' = [conn EXCEPT ![t] = m]
  BY DEF Connect
<1>3. /\ m \in Nat \ {0} /\ DOMAIN up = 1..(m - 1) /\ up'[m] = s /\ \A i \in 1..(m - 1) : up'[i] = up[i]
  <2>1. up \in Seq(Seq(Frame)) /\ s \in Seq(Frame)
    BY <1>1 DEF Types, NetworkTypes, ConnectLine
  <2>2. QED
    BY <1>1, <2>1
<1>4. \A u \in Tabs : conn'[u] = IF u = t THEN m ELSE conn[u]
  BY <1>2 DEF Types, ClientTypes
<1>5. c.outbox \in Seq(Row) /\ k \in Nat /\ DOMAIN c.outbox = 1..k
  BY CoreFields DEF Types, ClientTypes
<1> HIDE DEF c, k
<1>6. OnWire(t)' = Enveloped(ToSet(s))
  BY <1>3, <1>4 DEF OnWire, Wire, Connected
<1>7. Enveloped(ToSet(s)) = Enveloped(HeldIn(c.outbox))
  <2>1. ASSUME NEW i \in DOMAIN s, s[i].wire # None PROVE s[i] \in HeldIn(c.outbox)
    <3> DEFINE j == i - n
    <3>1. n \in Nat /\ i \in Nat /\ ~(i <= n) /\ ~(i > n + k)
      BY <1>1, <2>1 DEF ConnectLine, k
    <3>2. j \in 1..k /\ n + j = i
      BY <1>5, <3>1
    <3> HIDE DEF j
    <3>3. s[i] = c.outbox[j].frame
      BY <1>1, <3>2 DEF ConnectLine, k
    <3>4. QED
      BY <1>5, <3>2, <3>3 DEF HeldIn
  <2>2. ASSUME NEW j \in 1..k PROVE c.outbox[j].frame \in ToSet(s)
    <3>1. n + j \in DOMAIN s
      <4>1. n \in Nat /\ n + k <= Len(s) /\ s \in Seq(Frame)
        BY <1>1 DEF ConnectLine, k
      <4>2. QED
        BY <1>5, <4>1
    <3>2. s[n + j] = c.outbox[j].frame
      BY <1>1 DEF ConnectLine, k
    <3>3. QED
      BY <3>1, <3>2 DEF ToSet
  <2>3. QED
    BY <1>5, <2>1, <2>2 DEF Enveloped, HeldIn, ToSet
<1>8. ASSUME NEW u \in Tabs, u # t PROVE Wire(u)' = Wire(u) /\ conn'[u] = conn[u]
  <2>1. conn'[u] = conn[u] /\ (Connected(u)' <=> Connected(u))
    BY <1>4, <1>8 DEF Connected
  <2>2. Connected(u) => conn[u] \in 1..(m - 1)
    BY <1>3, <1>8 DEF SocketsOK
  <2>3. QED
    BY <1>3, <2>1, <2>2 DEF Wire
<1>9. QED
  BY <1>3, <1>4, <1>6, <1>7, <1>8 DEF Rows, c

\* The server takes the first command of a socket.
LEMMA WireServe ==
    ASSUME Types, SocketsOK, NEW n \in DOMAIN up, Serve(n)
    PROVE  /\ UNCHANGED conn /\ up' = [up EXCEPT ![n] = Tail(up[n])]
           /\ Head(up[n]) \in Frame /\ Head(up[n]) \in ToSet(up[n])
           /\ \A u \in Tabs : Wire(u)' \subseteq Wire(u) /\ Wire(u) \subseteq Wire(u)' \cup {Head(up[n])}
<1> DEFINE s == up[n]
           x == Tail(s)
           f == Head(s)
<1>1. up' = [up EXCEPT ![n] = x] /\ s # << >> /\ UNCHANGED conn
  BY DEF Serve, client
<1>2. s \in Seq(Frame)
  BY DEF Types, NetworkTypes
<1>3. /\ x \in Seq(Frame) /\ f \in Frame /\ f \in ToSet(s) /\ ToSet(x) \subseteq ToSet(s)
      /\ ToSet(s) \subseteq ToSet(x) \cup {f}
  <2> HIDE DEF s
  <2>1. /\ x \in Seq(Frame) /\ Len(s) \in Nat /\ DOMAIN s = 1..Len(s) /\ DOMAIN x = 1..(Len(s) - 1)
        /\ f = s[1] /\ f \in Frame /\ 1 \in DOMAIN s /\ \A i \in DOMAIN x : x[i] = s[i + 1]
    BY <1>1, <1>2
  <2> HIDE DEF x, f
  <2>2. f \in ToSet(s)
    BY <2>1 DEF ToSet
  <2>3. \A i \in DOMAIN x : i + 1 \in DOMAIN s
    BY <2>1
  <2>4. ToSet(x) \subseteq ToSet(s)
    BY <2>1, <2>3 DEF ToSet
  <2>5. ASSUME NEW i \in DOMAIN s PROVE s[i] \in ToSet(x) \cup {f}
    <3>1. CASE i = 1
      BY <2>1, <3>1
    <3>2. CASE i # 1
      <4> DEFINE j == i - 1
      <4>1. j \in DOMAIN x /\ j + 1 = i
        BY <2>1, <3>2
      <4> HIDE DEF j
      <4>2. x[j] = s[i]
        BY <2>1, <4>1
      <4>3. QED
        BY <4>1, <4>2 DEF ToSet
    <3>3. QED
      BY <3>1, <3>2
  <2>6. ToSet(s) \subseteq ToSet(x) \cup {f}
    BY <2>5 DEF ToSet
  <2>7. QED
    BY <2>1, <2>2, <2>4, <2>6
<1> HIDE DEF x
<1>4. \A i \in DOMAIN up : up'[i] = IF i = n THEN x ELSE up[i]
  BY <1>1, <1>3, UpSet DEF Types
<1> HIDE DEF f
<1>5. ASSUME NEW u \in Tabs PROVE Wire(u)' \subseteq Wire(u) /\ Wire(u) \subseteq Wire(u)' \cup {f}
  <2>1. Connected(u)' <=> Connected(u)
    BY <1>1 DEF Connected
  <2>2. CASE ~Connected(u)
    BY <2>1, <2>2 DEF Wire
  <2>3. CASE Connected(u)
    <3>1. conn[u] \in DOMAIN up /\ Wire(u) = ToSet(up[conn[u]]) /\ Wire(u)' = ToSet(up'[conn[u]])
      BY <1>1, <2>1, <2>3 DEF Wire, SocketsOK
    <3>2. CASE conn[u] = n
      BY <1>3, <1>4, <3>1, <3>2
    <3>3. CASE conn[u] # n
      BY <1>4, <3>1, <3>3
    <3>4. QED
      BY <3>2, <3>3
  <2>4. QED
    BY <2>2, <2>3
<1>6. QED
  BY <1>1, <1>3, <1>5 DEF f, x

-----------------------------------------------------------------------------
(* Where the writes of a tab go, step by step *)

\* The steps in which a tab sends a command of its session.
Commands(t) == Read(t) \/ Query(t) \/ Unquery(t) \/ EmbedSubscribe(t)
\* Those in which it comes up, and neither its outbox nor the rows on disk change.
Prepares(t) == Begins(t) \/ Settles(t) \/ ReplayLog(t)

\* What a command of the session does.
LEMMA CommandsAre ==
    ASSUME Types, NEW t \in Tabs, Commands(t)
    PROVE  /\ UNCHANGED <<phase, conn, tasks, idb, down, mark, scenario, issued, fate, told, skewed>>
           /\ \E f \in Frame : f.wire = None /\ up' = Send(t, f)
           /\ Ready(t)
<1>1. CASE EmbedSubscribe(t)
  <2>1. /\ UNCHANGED <<phase, conn, tasks, idb, down, mark, scenario, issued, fate, told, skewed>>
        /\ up' = Send(t, SessionCommand("subscribe")) /\ Ready(t)
    BY <1>1 DEF EmbedSubscribe, browser, server
  <2>2. QED
    BY <2>1, SessionCommandType, FrameFacts
<1>2. CASE Read(t) \/ Query(t) \/ Unquery(t)
  <2>1. PICK kind \in {"query", "read"}, x \in Core : Command(t, kind, x)
    BY <1>2, CommandIs
  <2>2. /\ UNCHANGED <<phase, conn, tasks, idb, down, mark, scenario, issued, fate, told, skewed>>
        /\ up' = Send(t, SessionCommand(kind)) /\ Ready(t)
    BY <2>1 DEF Command, browser, server, history
  <2>3. SessionCommand(kind) \in Frame /\ SessionCommand(kind).wire = None
    BY SessionCommandType, FrameFacts
  <2>4. QED
    BY <2>2, <2>3
<1>3. QED
  BY <1>1, <1>2 DEF Commands

\* What a write does.
LEMMA IssueIs ==
    ASSUME Types, NEW t \in Tabs, Issues(t)
    PROVE  LET e == NewWrite(t)
           IN  /\ Enqueues(core[t], e, Len(issued) + 1, e.frame.wire, Connected(t)) /\ e.frame \in Frame
               /\ core' = [core EXCEPT ![t] = e.core] /\ up' = Send(t, e.frame)
               /\ UNCHANGED <<phase, conn, idb, down, mark, scenario, skewed>> /\ Ready(t)
               /\ fate' = Append(NoteDropped(e), {}) /\ Len(issued') = Len(issued) + 1
               /\ \E a \in {"nobody", "waits", "disconnected"} : told' = Append(told, a)
               /\ Browser => /\ waiters' = waiters
                             /\ told' = Append(told, "nobody")
                             /\ tasks' = [tasks EXCEPT ![t] = tasks[t] \o StoreRow(e)
                                                              \o <<AppendLog(walSeq[t], Len(issued) + 1)>>]
               /\ ~Browser => tasks' = tasks
<1> DEFINE e == NewWrite(t)
           n == Len(issued)
<1>1. Ready(t) /\ core[t] \in Core /\ core[t].client # None /\ Connected(t) \in BOOLEAN /\ n + 1 \in Nat
  BY DEF Issues, BrowserWrite, EmbedWrite, Types, ClientTypes, Connected, Ready, HistoryTypes
<1>2. Enqueues(core[t], e, n + 1, WireId(core[t], core[t].seq), Connected(t))
  BY <1>1, WriteEnqueues, Zenon DEF NewWrite
<1>3. /\ core' = [core EXCEPT ![t] = e.core] /\ up' = Send(t, e.frame)
      /\ UNCHANGED <<phase, conn, idb, down, mark, scenario, skewed>>
      /\ fate' = Append(NoteDropped(e), {}) /\ \E x : issued' = Append(issued, x)
      /\ \E a \in {"nobody", "waits", "disconnected"} : told' = Append(told, a)
      /\ Browser => /\ waiters' = waiters
                    /\ told' = Append(told, "nobody")
                    /\ tasks' = [tasks EXCEPT ![t] = tasks[t] \o StoreRow(e) \o <<AppendLog(walSeq[t], n + 1)>>]
      /\ ~Browser => tasks' = tasks
  <2>1. CASE BrowserWrite(t)
    BY <2>1, Zenon DEF BrowserWrite, Enqueued, bounds, server
  <2>2. CASE EmbedWrite(t)
    BY <2>2, Zenon DEF EmbedWrite, Enqueued, bounds, server, browser
  <2>3. QED
    BY <2>1, <2>2 DEF Issues
<1>4. Len(issued') = n + 1
  BY <1>3 DEF Types, HistoryTypes
<1> HIDE DEF e, n
<1>5. e.frame \in Frame /\ e.frame.wire = WireId(core[t], core[t].seq)
  BY <1>2 DEF Enqueues, Frame
<1>6. QED
  BY <1>1, <1>2, <1>3, <1>4, <1>5 DEF e, n

\* The lines of the other sockets stay.
LEMMA OtherLines ==
    ASSUME Types, SocketsOK, NEW t \in Tabs, NEW f \in Frame, up' = Send(t, f)
    PROVE  \A n \in DOMAIN up : n # conn[t] => up'[n] = up[n]
<1>1. CASE ~Connected(t)
  BY <1>1 DEF Send
<1>2. CASE Connected(t)
  <2> DEFINE m == conn[t]
             x == Append(up[m], f)
  <2>1. up' = [up EXCEPT ![m] = x]
    BY <1>2 DEF Send
  <2>2. up[m] \in Seq(Frame)
    BY <1>2 DEF SocketsOK, Types, NetworkTypes
  <2>3. x \in Seq(Frame)
    BY <2>2
  <2> HIDE DEF x
  <2>4. QED
    BY <2>1, <2>3, UpSet DEF Types
<1>3. QED
  BY <1>1, <1>2

\* A step of one tab leaves the others alone.
LEMMA TabStep ==
    ASSUME Types, SocketsOK, NEW t \in Tabs,
           \/ Prepares(t) \/ RestoreRows(t) \/ ReplaceRows(t) \/ Crash(t) \/ Connect(t) \/ Close(t)
           \/ Commands(t) \/ BrowserSubscribe(t) \/ Issues(t) \/ Clear(t) \/ Receive(t) \/ Commit(t)
    PROVE  \A u \in Tabs : u # t => Stays(u)
<1> DEFINE Cores == \A u \in Tabs : u # t => core'[u] = core[u]
           Apart == \A u \in Tabs : u # t => phase'[u] = phase[u] /\ tasks'[u] = tasks[u] /\ conn'[u] = conn[u]
           Lines == \A n \in DOMAIN up : n # conn[t] => up'[n] = up[n]
<1>1. Cores /\ Apart /\ Lines => \A u \in Tabs : u # t => Stays(u)
  BY OthersStay
<1>2. /\ \A x : core' = [core EXCEPT ![t] = x] => Cores
      /\ UNCHANGED core => Cores
  BY DEF Types, ClientTypes
<1>3. UNCHANGED up => Lines
  OBVIOUS
<1>4. /\ core \in [Tabs -> Core] /\ phase \in [Tabs -> Phases] /\ conn \in [Tabs -> Nat]
      /\ tasks = [u \in Tabs |-> tasks[u]]
  BY DEF Types, ClientTypes, TaskTypes
<1>5. CASE Prepares(t) \/ RestoreRows(t) \/ ReplaceRows(t)
  <2>1. UNCHANGED up
    BY <1>5 DEF Prepares, Begins, Opened, Settles, AdoptIdentity, ReadEpoch, BumpEpoch, ReplayLog, RestoreRows,
                ReplaceRows, network
  <2>2. UNCHANGED <<conn, tasks>> /\ \E p : phase' = [phase EXCEPT ![t] = p]
    BY <1>5, Zenon DEF Prepares, Begins, Opened, Settles, AdoptIdentity, ReadEpoch, BumpEpoch, ReplayLog,
                       RestoreRows, ReplaceRows, browser
  <2>3. Apart
    BY <1>4, <2>2
  <2>4. Cores
    <3>1. CASE RestoreRows(t)
      <4>1. \E x : core' = [core EXCEPT ![t] = x]
        BY <3>1, Zenon DEF RestoreRows
      <4>2. QED
        BY <1>2, <4>1
    <3>2. QED
      BY <1>5, <3>1, OutboxSame, OutboxEmptied DEF Prepares
  <2>5. QED
    BY <1>1, <1>3, <2>1, <2>3, <2>4
<1>6. CASE Crash(t)
  <2>1. /\ phase' = [phase EXCEPT ![t] = "closed"] /\ tasks' = [tasks EXCEPT ![t] = << >>]
        /\ conn' = [conn EXCEPT ![t] = 0] /\ UNCHANGED up
    BY <1>6 DEF Crash
  <2>2. Apart
    BY <1>4, <2>1
  <2>3. QED
    BY <1>1, <1>3, <1>6, <2>1, <2>2, OutboxEmptied
<1>7. CASE Connect(t)
  <2>1. UNCHANGED <<phase, tasks>>
    BY <1>7 DEF Connect, browser
  <2>2. Lines /\ \A u \in Tabs : u # t => conn'[u] = conn[u]
    BY <1>7, WireConnect
  <2>3. QED
    BY <1>1, <1>7, <2>1, <2>2, OutboxSame
<1>8. CASE Close(t)
  <2>1. UNCHANGED <<phase, tasks>> /\ conn' = [conn EXCEPT ![t] = 0]
    BY <1>8 DEF Close, HangUp, browser
  <2>2. PICK arrive \in 0..Len(up[conn[t]]) : up' = [up EXCEPT ![conn[t]] = SubSeq(up[conn[t]], 1, arrive)]
    BY <1>8 DEF Close
  <2>3. Apart
    BY <1>4, <2>1
  <2>4. QED
    BY <1>1, <1>8, <2>2, <2>3, OutboxSame
<1>9. CASE Commands(t)
  <2>1. PICK f \in Frame : up' = Send(t, f)
    BY <1>9, CommandsAre
  <2>2. UNCHANGED <<phase, conn, tasks>>
    BY <1>9, CommandsAre
  <2>3. Lines
    BY <2>1, OtherLines
  <2>4. QED
    BY <1>1, <1>9, <2>2, <2>3, OutboxSame DEF Commands
<1>10. CASE BrowserSubscribe(t)
  <2> DEFINE e == EnqueueWrite(core[t], "subscribe", None, FALSE, Connected(t))
             x == tasks[t] \o StoreRow(e)
             y == e.core
             f == e.frame
  <2>1. core' = [core EXCEPT ![t] = y] /\ up' = Send(t, f) /\ tasks' = [tasks EXCEPT ![t] = x] /\ f \in RowFrame
    BY <1>10, SubscribeIs
  <2>2. UNCHANGED <<phase, conn>>
    BY <1>10 DEF BrowserSubscribe
  <2> HIDE DEF x, y, f
  <2>3. Apart
    BY <1>4, <2>1, <2>2
  <2>4. Lines
    BY <2>1, OtherLines DEF Frame
  <2>5. QED
    BY <1>1, <1>2, <2>1, <2>3, <2>4
<1>11. CASE Issues(t)
  <2> DEFINE y == NewWrite(t).core
             f == NewWrite(t).frame
             x == tasks[t] \o StoreRow(NewWrite(t)) \o <<AppendLog(walSeq[t], Len(issued) + 1)>>
  <2>1. /\ core' = [core EXCEPT ![t] = y] /\ up' = Send(t, f) /\ UNCHANGED <<phase, conn>>
        /\ tasks' = tasks \/ tasks' = [tasks EXCEPT ![t] = x]
    BY <1>11, IssueIs
  <2>2. f \in Frame
    BY <1>11, IssueIs
  <2> HIDE DEF x, y, f
  <2>3. Apart
    BY <1>4, <2>1
  <2>4. Lines
    BY <2>1, <2>2, OtherLines
  <2>5. QED
    BY <1>1, <1>2, <2>1, <2>3, <2>4
<1>12. CASE Clear(t)
  <2>1. UNCHANGED <<phase, conn, up>> /\ tasks' = [tasks EXCEPT ![t] = Append(tasks[t], ClearAll)]
    BY <1>12 DEF Clear, network
  <2>2. Apart
    BY <1>4, <2>1
  <2>3. QED
    BY <1>1, <1>3, <1>12, <2>1, <2>2, OutboxEmptied
<1>13. CASE Receive(t)
  <2>1. UNCHANGED <<phase, up>> /\ (core' = core \/ core' = [core EXCEPT ![t] = AckReply(core[t]).core])
        /\ (conn' = conn \/ conn' = [conn EXCEPT ![t] = 0])
    BY <1>13, ReceiveIs
  <2>2. tasks' = tasks \/ \E x : tasks' = [tasks EXCEPT ![t] = x]
    BY <1>13, ReceiveIs, Zenon DEF ReceiveReply, ReceivePush, ReceiveHuge, Retired
  <2>3. Apart
    BY <1>4, <2>1, <2>2
  <2>4. QED
    BY <1>1, <1>2, <1>3, <2>1, <2>3
<1>14. CASE Commit(t)
  <2>1. UNCHANGED <<phase, conn, up>> /\ tasks' = [tasks EXCEPT ![t] = Tail(tasks[t])]
    BY <1>14 DEF Commit, client, network
  <2>2. Apart
    BY <1>4, <2>1
  <2>3. QED
    BY <1>1, <1>3, <1>14, <2>1, <2>2, OutboxSame
<1>15. QED
  BY <1>5, <1>6, <1>7, <1>8, <1>9, <1>10, <1>11, <1>12, <1>13, <1>14

\* The steps that leave the rows on disk alone.
LEMMA StoredSame ==
    ASSUME Types, NEW t \in Tabs,
           \/ Prepares(t) \/ RestoreRows(t) \/ Crash(t) \/ Connect(t) \/ Close(t) \/ Commands(t)
           \/ BrowserSubscribe(t) \/ Issues(t) \/ Clear(t) \/ Receive(t)
    PROVE  Stored' = Stored
<1>1. idb'.rows = idb.rows => Stored' = Stored
  BY DEF Stored, OnDisk, Enveloped
<1>2. UNCHANGED idb => Stored' = Stored
  BY <1>1
<1>3. idb = [client |-> idb.client, epoch |-> idb.epoch, rows |-> idb.rows, wal |-> idb.wal]
  BY DEF Types, DiskTypes
<1>4. CASE AdoptIdentity(t) \/ BumpEpoch(t) \/ ReplayLog(t)
  <2>1. \E a, b, c : idb' = idb \/ idb' = [idb EXCEPT !.client = a] \/ idb' = [idb EXCEPT !.epoch = b]
                     \/ idb' = [idb EXCEPT !.wal = c]
    <3>1. AdoptIdentity(t) => idb' = idb \/ idb' = [idb EXCEPT !.client = core[t].client]
      BY Zenon DEF AdoptIdentity
    <3>2. BumpEpoch(t) => idb' = [idb EXCEPT !.epoch = core[t].epoch]
      BY Zenon DEF BumpEpoch
    <3>3. ReplayLog(t) => idb' = idb \/ \E c : idb' = [idb EXCEPT !.wal = c]
      BY Zenon DEF ReplayLog
    <3>4. QED
      BY <1>4, <3>1, <3>2, <3>3, Zenon
  <2>2. idb'.rows = idb.rows
    BY <1>3, <2>1
  <2>3. QED
    BY <1>1, <2>2
<1>5. CASE Receive(t)
  BY <1>2, <1>5 DEF Receive
<1>6. CASE Connect(t) \/ Close(t)
  BY <1>2, <1>6 DEF Connect, Close, browser
<1>7. CASE Commands(t)
  BY <1>2, <1>7, CommandsAre
<1>8. CASE Issues(t)
  <2>1. UNCHANGED idb
    BY <1>8, IssueIs
  <2>2. QED
    BY <1>2, <2>1
<1>9. CASE Crash(t) \/ BrowserSubscribe(t) \/ Clear(t)
  BY <1>2, <1>9 DEF Crash, BrowserSubscribe, Clear, browser
<1>10. ASSUME NEW p, Opened(t, p) PROVE UNCHANGED idb
  BY <1>10 DEF Opened, browser
<1>11. CASE ReadEpoch(t) \/ RestoreRows(t)
  <2>1. UNCHANGED idb
    BY <1>11, Zenon DEF ReadEpoch, RestoreRows, browser
  <2>2. QED
    BY <1>2, <2>1
<1>12. QED
  BY <1>2, <1>4, <1>5, <1>6, <1>7, <1>8, <1>9, <1>10, <1>11 DEF Prepares, Begins, Settles

\* They change in two steps only.
LEMMA StoredStep ==
    ASSUME Types, [Next]_vars
    PROVE  \/ Stored' = Stored
           \/ \E t \in Tabs : ReplaceRows(t) \/ Commit(t)
<1> DEFINE OK == Stored' = Stored
<1>1. ASSUME NEW t \in Tabs,
             \/ Prepares(t) \/ RestoreRows(t) \/ Crash(t) \/ Connect(t) \/ Close(t) \/ Commands(t)
             \/ BrowserSubscribe(t) \/ Issues(t) \/ Clear(t) \/ Receive(t)
      PROVE  OK
  BY <1>1, StoredSame
<1>2. UNCHANGED idb => OK
  BY DEF Stored, OnDisk, Enveloped
<1>3. ASSUME (\E n \in DOMAIN up : Serve(n) \/ Push(n) \/ Overgrow(n)) \/ Refuse \/ Tick \/ UNCHANGED vars PROVE OK
  <2>1. UNCHANGED idb
    BY <1>3 DEF Serve, Push, Overgrow, Refuse, Tick, vars, browser
  <2>2. QED
    BY <1>2, <2>1
<1> HIDE DEF OK
<1>4. OK \/ \E t \in Tabs : ReplaceRows(t) \/ Commit(t)
  BY <1>1, <1>3, Steps DEF Prepares, Begins, Settles, Issues, Commands
<1>5. QED
  BY <1>4 DEF OK

\* And then to what the outbox holds, or was to be put there.
LEMMA StoredFrom ==
    ASSUME Types, NEW t \in Tabs
    PROVE  /\ ReplaceRows(t) => Stored' \subseteq Rows(t)
           /\ Commit(t) => Stored' \subseteq Stored \cup Puts(t)
<1>1. ASSUME ReplaceRows(t) PROVE Stored' \subseteq Rows(t)
  <2> DEFINE outbox == core[t].outbox
  <2>1. idb' = [idb EXCEPT !.rows = RowsOf(outbox)]
    BY <1>1 DEF ReplaceRows, RowsOf
  <2>2. idb'.rows = RowsOf(outbox)
    BY <2>1 DEF Types, DiskTypes
  <2>3. \A id \in DOMAIN RowsOf(outbox) : \E i \in DOMAIN outbox : RowsOf(outbox)[id] = outbox[i].frame
    BY RowsOfType, CoreFields DEF Types, ClientTypes
  <2> HIDE DEF outbox
  <2>4. OnDisk' \subseteq HeldIn(outbox)
    <3> SUFFICES ASSUME NEW id \in DOMAIN RowsOf(outbox) PROVE RowsOf(outbox)[id] \in HeldIn(outbox)
      BY <2>2 DEF OnDisk
    <3>1. QED
      BY <2>3 DEF HeldIn
  <2>5. QED
    BY <2>4 DEF Stored, Rows, Enveloped, outbox
<1>2. ASSUME Commit(t) PROVE Stored' \subseteq Stored \cup Puts(t)
  <2>1. \A i \in DOMAIN idb'.rows :
           \/ i \in DOMAIN idb.rows /\ idb'.rows[i] = idb.rows[i]
           \/ Head(tasks[t]).frame \in PutsIn(tasks[t]) /\ idb'.rows[i] = Head(tasks[t]).frame
    BY <1>2, CommitRows
  <2>2. OnDisk' \subseteq OnDisk \cup PutsIn(tasks[t])
    BY <2>1 DEF OnDisk
  <2>3. QED
    BY <2>2 DEF Stored, Puts, Enveloped
<1>3. QED
  BY <1>1, <1>2

\* The rows on their way to the disk.
LEMMA PutsMove ==
    ASSUME Types, SocketsOK, NEW t \in Tabs
    PROVE  /\ Prepares(t) \/ RestoreRows(t) \/ ReplaceRows(t) \/ Connect(t) \/ Close(t) \/ Commands(t) =>
                Puts(t)' = Puts(t)
           /\ BrowserSubscribe(t) \/ Clear(t) \/ Receive(t) \/ Commit(t) => Puts(t)' \subseteq Puts(t)
           /\ Crash(t) => Puts(t)' = {}
           /\ Issues(t) => Puts(t)' \subseteq Puts(t) \cup {NewWrite(t).frame}
<1> DEFINE s == tasks[t]
<1>1. TasksOK(s) /\ tasks = [u \in Tabs |-> tasks[u]]
  BY DEF Types, TaskTypes
<1>2. /\ UNCHANGED tasks => Puts(t)' = Puts(t)
      /\ \A x : tasks' = [tasks EXCEPT ![t] = x] => tasks'[t] = x
      /\ Puts(t)' = Enveloped(PutsIn(tasks'[t])) /\ Puts(t) = Enveloped(PutsIn(s))
  BY <1>1 DEF Puts, Enveloped
<1>3. Prepares(t) \/ RestoreRows(t) \/ ReplaceRows(t) \/ Connect(t) \/ Close(t) => UNCHANGED tasks
  BY Zenon DEF Prepares, Begins, Opened, Settles, AdoptIdentity, ReadEpoch, BumpEpoch, ReplayLog, RestoreRows,
               ReplaceRows, Connect, Close, browser
<1>4. Commands(t) => UNCHANGED tasks
  BY CommandsAre
<1>5. \A r : TasksOK(r) /\ tasks'[t] = s \o r => Puts(t)' = Puts(t) \cup Enveloped(PutsIn(r))
  <2> SUFFICES ASSUME NEW r, TasksOK(r), tasks'[t] = s \o r
               PROVE  Puts(t)' = Puts(t) \cup Enveloped(PutsIn(r))
    OBVIOUS
  <2>1. PutsIn(tasks'[t]) = PutsIn(s) \cup PutsIn(r)
    BY <1>1, PutsFacts
  <2>2. QED
    BY <1>2, <2>1 DEF Enveloped
<1>6. \A a : tasks' = [tasks EXCEPT ![t] = Append(s, a)] => tasks'[t] = s \o <<a>>
  <2> SUFFICES ASSUME NEW a, tasks' = [tasks EXCEPT ![t] = Append(s, a)] PROVE tasks'[t] = s \o <<a>>
    OBVIOUS
  <2>1. tasks'[t] = Append(s, a)
    BY <1>2
  <2>2. s \in Seq(ToSet(s) \cup {a}) /\ a \in ToSet(s) \cup {a}
    <3>1. s \in Seq(ToSet(s))
      BY <1>1 DEF TasksOK
    <3> HIDE DEF s
    <3>2. QED
      BY <3>1
  <2>3. s \o <<a>> = Append(s, a)
    BY <2>2, ConcatEnds
  <2>4. QED
    BY <2>1, <2>3
<1>7. Clear(t) => Puts(t)' \subseteq Puts(t)
  <2> SUFFICES ASSUME Clear(t) PROVE Puts(t)' \subseteq Puts(t)
    OBVIOUS
  <2>1. tasks' = [tasks EXCEPT ![t] = Append(s, ClearAll)]
    BY DEF Clear
  <2>2. QED
    BY <1>5, <1>6, <2>1, TaskMade, PutsMade DEF Enveloped
<1>8. Receive(t) => Puts(t)' \subseteq Puts(t)
  <2> SUFFICES ASSUME Receive(t) PROVE Puts(t)' \subseteq Puts(t)
    OBVIOUS
  <2>1. tasks' = tasks \/ \E id : tasks' = [tasks EXCEPT ![t] = Append(s, DeleteRow(id))]
    BY ReceiveIs, Zenon DEF ReceiveReply, ReceivePush, ReceiveHuge, Retired
  <2>2. QED
    BY <1>2, <1>5, <1>6, <2>1, TaskMade, PutsMade DEF Enveloped
<1>9. Commit(t) => Puts(t)' \subseteq Puts(t)
  <2> SUFFICES ASSUME Commit(t) PROVE Puts(t)' \subseteq Puts(t)
    OBVIOUS
  <2>1. tasks' = [tasks EXCEPT ![t] = Tail(s)] /\ PutsIn(Tail(s)) \subseteq PutsIn(s)
    BY CommitRows
  <2>2. QED
    BY <1>2, <2>1 DEF Enveloped
<1>10. Crash(t) => Puts(t)' = {}
  <2> SUFFICES ASSUME Crash(t) PROVE Puts(t)' = {}
    OBVIOUS
  <2>1. tasks' = [tasks EXCEPT ![t] = << >>]
    BY DEF Crash
  <2>2. QED
    BY <1>2, <2>1, PutsMade DEF Enveloped
<1>11. BrowserSubscribe(t) => Puts(t)' \subseteq Puts(t)
  <2> SUFFICES ASSUME BrowserSubscribe(t) PROVE Puts(t)' \subseteq Puts(t)
    OBVIOUS
  <2> DEFINE e == EnqueueWrite(core[t], "subscribe", None, FALSE, Connected(t))
             r == StoreRow(e)
  <2>1. Enqueues(core[t], e, None, None, Connected(t)) /\ tasks' = [tasks EXCEPT ![t] = s \o r] /\ e.frame.wire = None
    BY SubscribeIs
  <2> HIDE DEF e
  <2>2. e.id \in Nat /\ e.frame \in RowFrame /\ (e.dropped = << >> \/ e.dropped = <<Head(core[t].outbox)>>)
    BY <2>1, CoreFields DEF Enqueues, Types, ClientTypes
  <2>3. TasksOK(r) /\ PutsIn(r) \subseteq {e.frame}
    BY <2>2, StoreRowType, RowPuts
  <2> HIDE DEF r
  <2>4. QED
    BY <1>2, <1>5, <2>1, <2>3 DEF Enveloped
<1>12. Issues(t) => Puts(t)' \subseteq Puts(t) \cup {NewWrite(t).frame}
  <2> SUFFICES ASSUME Issues(t) PROVE Puts(t)' \subseteq Puts(t) \cup {NewWrite(t).frame}
    OBVIOUS
  <2> DEFINE e == NewWrite(t)
             r == StoreRow(e)
             a == <<AppendLog(walSeq[t], Len(issued) + 1)>>
  <2>1. /\ Enqueues(core[t], e, Len(issued) + 1, e.frame.wire, Connected(t))
        /\ Browser => tasks' = [tasks EXCEPT ![t] = s \o r \o a]
        /\ ~Browser => tasks' = tasks
    BY IssueIs
  <2> HIDE DEF e
  <2>2. e.id \in Nat /\ e.frame \in RowFrame /\ (e.dropped = << >> \/ e.dropped = <<Head(core[t].outbox)>>)
    BY <2>1, CoreFields DEF Enqueues, Types, ClientTypes
  <2>3. TasksOK(r) /\ PutsIn(r) \subseteq {e.frame} /\ TasksOK(a) /\ PutsIn(a) = {}
    BY <2>2, StoreRowType, RowPuts, TaskMade, PutsMade
  <2> HIDE DEF r, a
  <2>4. TasksOK(s \o r) /\ PutsIn(s \o r) = PutsIn(s) \cup PutsIn(r)
    BY <1>1, <2>3, TasksAdded, PutsFacts
  <2>5. PutsIn(s \o r \o a) = PutsIn(s) \cup PutsIn(r)
    BY <2>3, <2>4, PutsFacts
  <2>6. Browser => tasks'[t] = s \o r \o a
    BY <1>2, <2>1
  <2>7. Browser => PutsIn(tasks'[t]) \subseteq PutsIn(s) \cup {e.frame}
    BY <2>3, <2>5, <2>6
  <2>8. Browser => Puts(t)' \subseteq Puts(t) \cup {e.frame}
    BY <1>2, <2>7 DEF Enveloped
  <2>9. QED
    BY <1>2, <2>1, <2>8 DEF e
<1>13. QED
  BY <1>2, <1>3, <1>4, <1>7, <1>8, <1>9, <1>10, <1>11, <1>12

\* A row is queued, and one may be dropped for it.
Queues(c, e) ==
    LET full == Len(c.outbox) >= MaxPending
    IN  /\ e.core.outbox = Append(IF full THEN Tail(c.outbox) ELSE c.outbox, [id |-> c.seq, frame |-> e.frame])
        /\ e.dropped = IF full THEN <<Head(c.outbox)>> ELSE << >>

\* So do the two steps that queue one.
LEMMA WriteQueues ==
    ASSUME Types, NEW t \in Tabs
    PROVE  /\ Queues(core[t], NewWrite(t))
           /\ Queues(core[t], EnqueueWrite(core[t], "subscribe", None, FALSE, Connected(t)))
<1>1. core[t] \in Core
  BY DEF Types, ClientTypes
<1>2. Queues(core[t], NewWrite(t))
  BY <1>1 DEF Queues, NewWrite, EnqueueWrite, Core
<1>3. Queues(core[t], EnqueueWrite(core[t], "subscribe", None, FALSE, Connected(t)))
  BY <1>1 DEF Queues, EnqueueWrite, Core
<1>4. QED
  BY <1>2, <1>3

\* The rows of an outbox when one more is queued: those there were, but for one that is dropped.
LEMMA RowsQueued ==
    ASSUME NEW c \in Core, NEW e, Queues(c, e)
    PROVE  /\ HeldIn(e.core.outbox) \subseteq HeldIn(c.outbox) \cup {e.frame}
           /\ HeldIn(c.outbox) \subseteq HeldIn(e.core.outbox) \cup HeldIn(e.dropped)
           /\ e.frame \in HeldIn(e.core.outbox)
           /\ HeldIn(e.dropped) \subseteq HeldIn(c.outbox)
<1> DEFINE s == c.outbox
           full == Len(s) >= MaxPending
           kept == IF full THEN Tail(s) ELSE s
           row == [id |-> c.seq, frame |-> e.frame]
           x == e.core.outbox
<1>0. s \in Seq(Row) /\ x = Append(kept, row) /\ Len(s) \in Nat /\ MaxPending \in Nat \ {0}
  BY CoreFields, SyncClientAssumption DEF Queues
<1>1. s \in Seq(Row) /\ kept \in Seq(Row) /\ x = Append(kept, row)
  <2>1. full => s # << >>
    BY <1>0
  <2>2. QED
    BY <1>0, <2>1
<1>2. e.dropped = IF full THEN <<Head(s)>> ELSE << >>
  BY Zenon DEF Queues
<1>3. Len(s) \in Nat /\ DOMAIN s = 1..Len(s) /\ MaxPending \in Nat \ {0}
  BY <1>0
<1>4. /\ \A i \in DOMAIN kept : \E j \in DOMAIN s : kept[i] = s[j]
      /\ \A j \in DOMAIN s : (full /\ j = 1) \/ \E i \in DOMAIN kept : kept[i] = s[j]
      /\ full => Head(s) = s[1] /\ 1 \in DOMAIN s
  <2>1. CASE ~full
    BY <2>1
  <2>2. CASE full
    <3>1. s # << >> /\ Len(s) >= 1
      BY <1>1, <1>3, <2>2
    <3>2. /\ Head(s) = s[1] /\ 1 \in DOMAIN s /\ DOMAIN Tail(s) = 1..(Len(s) - 1)
          /\ \A i \in 1..(Len(s) - 1) : Tail(s)[i] = s[i + 1]
      BY <1>1, <1>3, <3>1
    <3>3. \A i \in 1..(Len(s) - 1) : i + 1 \in 1..Len(s)
      BY <1>3
    <3>4. \A j \in 1..Len(s) : j = 1 \/ (j - 1 \in 1..(Len(s) - 1) /\ (j - 1) + 1 = j)
      BY <1>3
    <3>5. \A j \in 1..Len(s) : j = 1 \/ Tail(s)[j - 1] = s[j]
      BY <3>2, <3>4
    <3>6. QED
      BY <1>3, <2>2, <3>2, <3>3, <3>4, <3>5
  <2>3. QED
    BY <2>1, <2>2
<1> HIDE DEF kept, s
<1>5. /\ Len(kept) \in Nat /\ DOMAIN kept = 1..Len(kept) /\ DOMAIN x = 1..(Len(kept) + 1)
      /\ x[Len(kept) + 1] = row /\ \A i \in 1..Len(kept) : x[i] = kept[i]
  BY <1>1
<1>6. row.frame = e.frame
  OBVIOUS
<1> HIDE DEF row, x
<1>7. HeldIn(x) = HeldIn(kept) \cup {e.frame}
  <2>1. \A i \in DOMAIN x : i \in DOMAIN kept \/ i = Len(kept) + 1
    BY <1>5
  <2>2. HeldIn(x) \subseteq HeldIn(kept) \cup {e.frame}
    <3> SUFFICES ASSUME NEW i \in DOMAIN x PROVE x[i].frame \in HeldIn(kept) \cup {e.frame}
      BY DEF HeldIn
    <3>1. QED
      BY <1>5, <1>6, <2>1 DEF HeldIn
  <2>3. e.frame \in HeldIn(x)
    <3>1. Len(kept) + 1 \in DOMAIN x
      BY <1>5
    <3>2. QED
      BY <1>5, <1>6, <3>1 DEF HeldIn
  <2>4. HeldIn(kept) \subseteq HeldIn(x)
    <3>1. \A i \in DOMAIN kept : i \in DOMAIN x /\ x[i] = kept[i]
      BY <1>5
    <3>2. QED
      BY <3>1 DEF HeldIn
  <2>5. QED
    BY <2>2, <2>3, <2>4
<1>8. HeldIn(kept) \subseteq HeldIn(s)
  <2> SUFFICES ASSUME NEW i \in DOMAIN kept PROVE kept[i].frame \in HeldIn(s)
    BY DEF HeldIn
  <2>1. PICK j \in DOMAIN s : kept[i] = s[j]
    BY <1>4
  <2>2. QED
    BY <2>1 DEF HeldIn
<1>9. full => HeldIn(e.dropped) = {s[1].frame}
  <2> SUFFICES ASSUME full PROVE HeldIn(e.dropped) = {s[1].frame}
    OBVIOUS
  <2>1. e.dropped = <<s[1]>>
    BY <1>2, <1>4 DEF s
  <2>2. QED
    BY <2>1 DEF HeldIn
<1>10. HeldIn(s) \subseteq HeldIn(kept) \cup HeldIn(e.dropped)
  <2> SUFFICES ASSUME NEW j \in DOMAIN s PROVE s[j].frame \in HeldIn(kept) \cup HeldIn(e.dropped)
    BY DEF HeldIn
  <2>1. CASE full /\ j = 1
    BY <1>9, <2>1
  <2>2. CASE \E i \in DOMAIN kept : kept[i] = s[j]
    BY <2>2, Zenon DEF HeldIn
  <2>3. QED
    BY <1>4, <2>1, <2>2
<1>11. HeldIn(e.dropped) \subseteq HeldIn(s)
  <2>1. CASE full
    BY <1>4, <1>9, <2>1 DEF HeldIn
  <2>2. CASE ~full
    <3>1. e.dropped = << >>
      BY <1>2, <2>2 DEF s
    <3>2. QED
      BY <3>1 DEF HeldIn
  <2>3. QED
    BY <2>1, <2>2
<1>12. QED
  BY <1>7, <1>8, <1>10, <1>11 DEF x, s

\* The rows of the outboxes.
LEMMA RowsMove ==
    ASSUME Types, SocketsOK, AlignInv, NEW t \in Tabs
    PROVE  /\ (\/ Settles(t) \/ ReplayLog(t) \/ ReplaceRows(t) \/ Connect(t) \/ Close(t) \/ Commands(t)
               \/ Commit(t)) => Rows(t)' = Rows(t)
           /\ Begins(t) \/ Crash(t) \/ Clear(t) => Rows(t)' = {}
           /\ RestoreRows(t) => Rows(t)' = Stored
           /\ BrowserSubscribe(t) \/ Receive(t) => Rows(t)' \subseteq Rows(t)
           /\ Issues(t) => Rows(t)' \subseteq Rows(t) \cup {NewWrite(t).frame}
<1>1. (\/ Settles(t) \/ ReplayLog(t) \/ ReplaceRows(t) \/ Connect(t) \/ Close(t) \/ Commands(t)
       \/ Commit(t)) => Rows(t)' = Rows(t)
  BY OutboxSame DEF Rows, Enveloped, Commands
<1>2. Begins(t) \/ Crash(t) \/ Clear(t) => Rows(t)' = {}
  <2>1. HeldIn(<< >>) = {}
    BY DEF HeldIn
  <2>2. QED
    BY <2>1, OutboxEmptied DEF Rows, Enveloped
<1>3. RestoreRows(t) => Rows(t)' = Stored
  <2> SUFFICES ASSUME RestoreRows(t) PROVE Rows(t)' = Stored
    OBVIOUS
  <2> DEFINE D == DOMAIN idb.rows
  <2>1. PICK s : s = core'[t].outbox
    OBVIOUS
  <2>2. /\ s \in Seq(Row) /\ Len(s) = Cardinality(D)
        /\ \A i \in 1..Len(s) : s[i].frame = idb.rows[Nth(D, i)] /\ Nth(D, i) \in D
    BY <2>1, RestoredIs
  <2>3. DOMAIN s = 1..Len(s) /\ \A n \in D : \E i \in 1..Len(s) : Nth(D, i) = n
    BY <2>2, NthOrder DEF Types, DiskTypes
  <2> HIDE DEF D
  <2>4. HeldIn(s) \subseteq OnDisk
    <3> SUFFICES ASSUME NEW i \in DOMAIN s PROVE s[i].frame \in OnDisk
      BY DEF HeldIn
    <3>1. QED
      BY <2>2, <2>3 DEF OnDisk, D
  <2>5. OnDisk \subseteq HeldIn(s)
    <3> SUFFICES ASSUME NEW n \in D PROVE idb.rows[n] \in HeldIn(s)
      BY DEF OnDisk, D
    <3>1. PICK i \in 1..Len(s) : Nth(D, i) = n
      BY <2>3
    <3>2. s[i].frame = idb.rows[n] /\ i \in DOMAIN s
      BY <2>2, <2>3, <3>1
    <3>3. QED
      BY <3>2 DEF HeldIn
  <2>6. QED
    BY <2>1, <2>4, <2>5 DEF Rows, Stored, Enveloped
<1>4. \A x : core' = [core EXCEPT ![t] = x] => Rows(t)' = Enveloped(HeldIn(x.outbox))
  <2>1. \A x : core' = [core EXCEPT ![t] = x] => core'[t] = x
    BY DEF Types, ClientTypes
  <2>2. QED
    BY <2>1 DEF Rows, Enveloped
<1>5. core[t] \in Core
  BY DEF Types, ClientTypes
<1>6. BrowserSubscribe(t) => Rows(t)' \subseteq Rows(t)
  <2> SUFFICES ASSUME BrowserSubscribe(t) PROVE Rows(t)' \subseteq Rows(t)
    OBVIOUS
  <2>1. PICK e : e = EnqueueWrite(core[t], "subscribe", None, FALSE, Connected(t))
    OBVIOUS
  <2>2. /\ Enqueues(core[t], e, None, None, Connected(t)) /\ core' = [core EXCEPT ![t] = e.core]
        /\ e.frame.wire = None
    BY <2>1, SubscribeIs
  <2>3. HeldIn(e.core.outbox) \subseteq HeldIn(core[t].outbox) \cup {e.frame}
    <3>1. Queues(core[t], e)
      BY <2>1, WriteQueues, Zenon
    <3>2. QED
      BY <1>5, <3>1, RowsQueued
  <2>4. QED
    BY <1>4, <2>2, <2>3 DEF Rows, Enveloped
<1>7. Issues(t) => Rows(t)' \subseteq Rows(t) \cup {NewWrite(t).frame}
  <2> SUFFICES ASSUME Issues(t) PROVE Rows(t)' \subseteq Rows(t) \cup {NewWrite(t).frame}
    OBVIOUS
  <2>1. PICK e : e = NewWrite(t)
    OBVIOUS
  <2>2. /\ Enqueues(core[t], e, Len(issued) + 1, e.frame.wire, Connected(t)) /\ core' = [core EXCEPT ![t] = e.core]
    BY <2>1, IssueIs
  <2>3. HeldIn(e.core.outbox) \subseteq HeldIn(core[t].outbox) \cup {e.frame}
    <3>1. Queues(core[t], e)
      BY <2>1, WriteQueues, Zenon
    <3>2. QED
      BY <1>5, <3>1, RowsQueued
  <2>4. QED
    BY <1>4, <2>1, <2>2, <2>3 DEF Rows, Enveloped
<1>8. Receive(t) => Rows(t)' \subseteq Rows(t)
  <2> SUFFICES ASSUME Receive(t) PROVE Rows(t)' \subseteq Rows(t)
    OBVIOUS
  <2> DEFINE x == AckReply(core[t]).core
  <2>1. core' = core \/ core' = [core EXCEPT ![t] = x]
    BY ReceiveIs
  <2>2. x.outbox = core[t].outbox \/ x.outbox = Kept(core[t].outbox, Others(core[t]))
    BY ReplyRows
  <2> HIDE DEF x
  <2>3. ToSet(x.outbox) \subseteq ToSet(core[t].outbox)
    BY <1>5, <2>2, ElementsOf, CoreFields
  <2>4. HeldIn(x.outbox) \subseteq HeldIn(core[t].outbox)
    BY <2>3, HeldFacts
  <2>5. QED
    BY <1>4, <2>1, <2>4 DEF Rows, Enveloped
<1>9. QED
  BY <1>1, <1>2, <1>3, <1>6, <1>7, <1>8

\* The writes on the socket a tab listens to.
LEMMA WireMoves ==
    ASSUME Types, SocketsOK, NEW t \in Tabs
    PROVE  /\ Prepares(t) \/ RestoreRows(t) \/ ReplaceRows(t) \/ Clear(t) \/ Commit(t) \/ Commands(t)
                \/ BrowserSubscribe(t) => OnWire(t)' = OnWire(t) /\ conn' = conn
           /\ Crash(t) \/ Close(t) => OnWire(t)' = {} /\ ~Connected(t)'
           /\ Connect(t) => OnWire(t)' = Rows(t) /\ Connected(t)'
           /\ Receive(t) => (OnWire(t)' = OnWire(t) /\ conn' = conn) \/ (OnWire(t)' = {} /\ ~Connected(t)')
           /\ Issues(t) => /\ OnWire(t)' \subseteq OnWire(t) \cup {NewWrite(t).frame} /\ conn' = conn
                           /\ Connected(t) => OnWire(t) \cup {NewWrite(t).frame} \subseteq OnWire(t)'
<1>1. UNCHANGED <<conn, up>> => OnWire(t)' = OnWire(t)
  BY DEF OnWire, Wire, Connected, Enveloped
<1>2. Prepares(t) \/ RestoreRows(t) \/ ReplaceRows(t) \/ Clear(t) \/ Commit(t) => UNCHANGED <<conn, up>>
  BY Zenon DEF Prepares, Begins, Opened, Settles, AdoptIdentity, ReadEpoch, BumpEpoch, ReplayLog, RestoreRows,
               ReplaceRows, Clear, Commit, client, network
<1>3. \A f \in Frame : up' = Send(t, f) /\ UNCHANGED conn =>
         OnWire(t)' = IF Connected(t) THEN OnWire(t) \cup Enveloped({f}) ELSE {}
  <2> SUFFICES ASSUME NEW f \in Frame, up' = Send(t, f), UNCHANGED conn
               PROVE  OnWire(t)' = IF Connected(t) THEN OnWire(t) \cup Enveloped({f}) ELSE {}
    OBVIOUS
  <2>1. Wire(t)' = IF Connected(t) THEN Wire(t) \cup {f} ELSE {}
    BY WireSend
  <2>2. QED
    BY <2>1 DEF OnWire, Enveloped
<1>4. ~Connected(t) => OnWire(t) = {}
  BY DEF OnWire, Wire, Enveloped
<1>5. Commands(t) => OnWire(t)' = OnWire(t) /\ conn' = conn
  <2> SUFFICES ASSUME Commands(t) PROVE OnWire(t)' = OnWire(t) /\ conn' = conn
    OBVIOUS
  <2>1. PICK f \in Frame : f.wire = None /\ up' = Send(t, f)
    BY CommandsAre
  <2>2. UNCHANGED conn
    BY CommandsAre
  <2>3. Enveloped({f}) = {}
    BY <2>1 DEF Enveloped
  <2>4. QED
    BY <1>3, <1>4, <2>1, <2>2, <2>3
<1>6. BrowserSubscribe(t) => OnWire(t)' = OnWire(t) /\ conn' = conn
  <2> SUFFICES ASSUME BrowserSubscribe(t) PROVE OnWire(t)' = OnWire(t) /\ conn' = conn
    OBVIOUS
  <2>1. PICK f \in Frame : f.wire = None /\ up' = Send(t, f)
    BY SubscribeIs DEF Frame
  <2>2. UNCHANGED conn
    BY DEF BrowserSubscribe
  <2>3. Enveloped({f}) = {}
    BY <2>1 DEF Enveloped
  <2>4. QED
    BY <1>3, <1>4, <2>1, <2>2, <2>3
<1>7. \A n \in DOMAIN up : Close(t) /\ n # conn[t] => up'[n] = up[n]
  <2> SUFFICES ASSUME NEW n \in DOMAIN up, Close(t), n # conn[t] PROVE up'[n] = up[n]
    OBVIOUS
  <2>1. PICK arrive \in 0..Len(up[conn[t]]) : up' = [up EXCEPT ![conn[t]] = SubSeq(up[conn[t]], 1, arrive)]
    BY DEF Close
  <2>2. QED
    BY <2>1
<1>8. Crash(t) \/ Close(t) => OnWire(t)' = {} /\ ~Connected(t)'
  <2>1. Crash(t) => conn' = [conn EXCEPT ![t] = 0] /\ UNCHANGED up
    BY DEF Crash
  <2>2. Close(t) => conn' = [conn EXCEPT ![t] = 0]
    BY DEF Close, HangUp
  <2>3. conn' = [conn EXCEPT ![t] = 0] => ~Connected(t)'
    BY DEF Connected, Types, ClientTypes
  <2>4. ~Connected(t)' => OnWire(t)' = {}
    BY DEF OnWire, Wire, Enveloped
  <2>5. QED
    BY <2>1, <2>2, <2>3, <2>4
<1>9. Connect(t) => OnWire(t)' = Rows(t) /\ Connected(t)'
  <2> SUFFICES ASSUME Connect(t) PROVE OnWire(t)' = Rows(t) /\ Connected(t)'
    OBVIOUS
  <2>1. OnWire(t)' = Rows(t) /\ conn'[t] = Len(up) + 1
    BY WireConnect
  <2>2. Len(up) + 1 # 0
    BY DEF Types, NetworkTypes
  <2>3. QED
    BY <2>1, <2>2 DEF Connected
<1>10. Receive(t) => (OnWire(t)' = OnWire(t) /\ conn' = conn) \/ (OnWire(t)' = {} /\ ~Connected(t)')
  <2> SUFFICES ASSUME Receive(t)
               PROVE  (OnWire(t)' = OnWire(t) /\ conn' = conn) \/ (OnWire(t)' = {} /\ ~Connected(t)')
    OBVIOUS
  <2>1. UNCHANGED up /\ (conn' = conn \/ conn' = [conn EXCEPT ![t] = 0])
    BY ReceiveIs
  <2>2. conn' = [conn EXCEPT ![t] = 0] => ~Connected(t)'
    BY DEF Connected, Types, ClientTypes
  <2>3. ~Connected(t)' => OnWire(t)' = {}
    BY DEF OnWire, Wire, Enveloped
  <2>4. QED
    BY <1>1, <2>1, <2>2, <2>3
<1>11. Issues(t) => /\ OnWire(t)' \subseteq OnWire(t) \cup {NewWrite(t).frame} /\ conn' = conn
                    /\ Connected(t) => OnWire(t) \cup Enveloped({NewWrite(t).frame}) \subseteq OnWire(t)'
  <2> SUFFICES ASSUME Issues(t)
               PROVE  /\ OnWire(t)' \subseteq OnWire(t) \cup {NewWrite(t).frame} /\ conn' = conn
                      /\ Connected(t) => OnWire(t) \cup Enveloped({NewWrite(t).frame}) \subseteq OnWire(t)'
    OBVIOUS
  <2>1. NewWrite(t).frame \in Frame /\ up' = Send(t, NewWrite(t).frame) /\ UNCHANGED conn
    BY IssueIs
  <2>2. Enveloped({NewWrite(t).frame}) \subseteq {NewWrite(t).frame}
    BY DEF Enveloped
  <2>3. QED
    BY <1>3, <2>1, <2>2
<1>12. Issues(t) => Enveloped({NewWrite(t).frame}) = {NewWrite(t).frame}
  <2> SUFFICES ASSUME Issues(t) PROVE NewWrite(t).frame.wire # None
    BY DEF Enveloped
  <2>1. NewWrite(t).frame.write # None /\ NewWrite(t).frame \in Frame
    <3>1. NewWrite(t).frame.write = Len(issued) + 1 /\ NewWrite(t).frame \in Frame
      BY IssueIs DEF Enqueues
    <3>2. Len(issued) \in Nat
      BY DEF Types, HistoryTypes
    <3>3. QED
      BY <3>1, <3>2, NoneFacts
  <2>2. QED
    BY <2>1 DEF Frame, RowFrame, SessionFrameSet, None
<1>13. QED
  BY <1>1, <1>2, <1>5, <1>6, <1>8, <1>9, <1>10, <1>11, <1>12

-----------------------------------------------------------------------------
(* The step of WireInv *)

\* A tab that has, but for a new write, no more than it had.
LEMMA OwnedMove ==
    ASSUME Types, SocketsOK, AlignInv, NEW t \in Tabs
    PROVE  /\ (\/ Prepares(t) \/ ReplaceRows(t) \/ Crash(t) \/ Connect(t) \/ Close(t) \/ Commands(t)
               \/ BrowserSubscribe(t) \/ Clear(t) \/ Receive(t) \/ Commit(t))
                => \A u \in Tabs : OwnedBy(u)' \subseteq OwnedBy(u)
           /\ RestoreRows(t) => \A u \in Tabs : OwnedBy(u)' \subseteq OwnedBy(u) \cup Stored
           /\ Issues(t) => /\ OwnedBy(t)' \subseteq OwnedBy(t) \cup {NewWrite(t).frame}
                           /\ \A u \in Tabs : u # t => OwnedBy(u)' \subseteq OwnedBy(u)
<1>1. \A u \in Tabs : OwnedBy(u) = Rows(u) \cup Puts(u) \cup OnWire(u)
  BY OwnedIs
<1>2. \A u \in Tabs : OwnedBy(u)' = Rows(u)' \cup Puts(u)' \cup OnWire(u)'
  BY DEF OwnedBy, Rows, Puts, OnWire, Enveloped
<1> DEFINE T == \/ Prepares(t) \/ ReplaceRows(t) \/ Crash(t) \/ Connect(t) \/ Close(t) \/ Commands(t)
                \/ BrowserSubscribe(t) \/ Clear(t) \/ Receive(t) \/ Commit(t)
<1>3. ASSUME T \/ RestoreRows(t) \/ Issues(t), NEW u \in Tabs, u # t PROVE OwnedBy(u)' \subseteq OwnedBy(u)
  <2>1. Stays(u)
    BY <1>3, TabStep
  <2>2. QED
    BY <1>1, <1>2, <2>1, StaysFacts
<1>4. ASSUME T PROVE OwnedBy(t)' \subseteq OwnedBy(t)
  <2>1. Rows(t)' \subseteq Rows(t)
    <3>1. CASE Begins(t) \/ Crash(t) \/ Clear(t)
      BY <3>1, RowsMove
    <3>2. CASE BrowserSubscribe(t) \/ Receive(t)
      BY <3>2, RowsMove
    <3>3. CASE \/ Settles(t) \/ ReplayLog(t) \/ ReplaceRows(t) \/ Connect(t) \/ Close(t) \/ Commands(t)
               \/ Commit(t)
      BY <3>3, RowsMove
    <3>4. QED
      BY <1>4, <3>1, <3>2, <3>3 DEF Prepares
  <2>2. Puts(t)' \subseteq Puts(t)
    BY <1>4, PutsMove
  <2>3. OnWire(t)' \subseteq OnWire(t) \cup Rows(t)
    BY <1>4, WireMoves
  <2>4. QED
    BY <1>1, <1>2, <2>1, <2>2, <2>3
<1>5. ASSUME RestoreRows(t) PROVE OwnedBy(t)' \subseteq OwnedBy(t) \cup Stored
  BY <1>1, <1>2, <1>5, RowsMove, PutsMove, WireMoves
<1>6. ASSUME Issues(t) PROVE OwnedBy(t)' \subseteq OwnedBy(t) \cup {NewWrite(t).frame}
  BY <1>1, <1>2, <1>6, RowsMove, PutsMove, WireMoves
<1> HIDE DEF T
<1>7. QED
  BY <1>3, <1>4, <1>5, <1>6 DEF T

\* In embed the writes of a client are its own.
LEMMA OwnEmbed ==
    ASSUME Types, Types', SocketsOK, SocketsOK', AlignInv, AlignInv', OrderInv, OrderInv', DiskOK', OwnOK, ~Browser,
           scenario' = scenario, [Next]_vars
    PROVE  OwnOK'
<1>0. (EpochOK /\ ~Browser => Stored = {} /\ \A t \in Tabs : Puts(t) = {} /\ Numbered(t) = {})'
  BY EmbedHasNoDisk, PTL
<1>1. Browser' = Browser /\ EpochOK
  BY DEF Browser, Setup, OrderInv
<1>2. ASSUME \A u \in Tabs : Gathers(u),
             \A u \in Tabs : phase'[u] = "closed" \/ core'[u].client = core[u].client \/ OwnedBy(u)' = {}
      PROVE  OwnOK'
  BY <1>1, <1>2, OwnStep
<1>3. ASSUME Keeps PROVE \A u \in Tabs : phase'[u] = "closed" \/ core'[u].client = core[u].client
  BY <1>3 DEF Keeps, TabKeeps
<1> DEFINE OK == OwnOK'
<1>4. ASSUME NEW t \in Tabs,
             \/ ReplayLog(t) \/ ReplaceRows(t) \/ Crash(t) \/ Connect(t) \/ Close(t) \/ Commands(t)
             \/ BrowserSubscribe(t) \/ Clear(t) \/ Receive(t) \/ Commit(t) \/ RestoreRows(t)
      PROVE  OK
  <2>1. \A u \in Tabs : Gathers(u)
    <3>1. CASE RestoreRows(t)
      BY <3>1, OwnedMove DEF Gathers
    <3>2. CASE ~RestoreRows(t)
      <4>1. \/ Prepares(t) \/ ReplaceRows(t) \/ Crash(t) \/ Connect(t) \/ Close(t) \/ Commands(t)
            \/ BrowserSubscribe(t) \/ Clear(t) \/ Receive(t) \/ Commit(t)
        BY <1>4, <3>2 DEF Prepares
      <4>2. \A u \in Tabs : OwnedBy(u)' \subseteq OwnedBy(u)
        BY <4>1, OwnedMove
      <4>3. QED
        BY <4>2 DEF Gathers
    <3>3. QED
      BY <3>1, <3>2
  <2>2. Keeps
    BY <1>1, <1>4, RestoreRowsKeeps, ReplaceRowsKeeps, ReplayLogKeeps, CrashKeeps, ConnectKeeps, CloseKeeps,
       CommandKeeps, BrowserSubscribeKeeps, ClearKeeps, ReceiveKeeps, CommitKeeps DEF Commands
  <2>3. QED
    BY <1>2, <1>3, <2>1, <2>2
<1>5. ASSUME NEW t \in Tabs, Begins(t) PROVE OK
  <2>1. \A u \in Tabs : Gathers(u)
    <3>1. Prepares(t)
      BY <1>5 DEF Prepares
    <3>2. \A u \in Tabs : OwnedBy(u)' \subseteq OwnedBy(u)
      BY <3>1, OwnedMove
    <3>3. QED
      BY <3>2 DEF Gathers
  <2>2. phase[t] = "closed" /\ ~Connected(t) /\ Rows(t)' = {} /\ OnWire(t)' = OnWire(t) /\ Puts(t)' = {}
    <3>1. phase[t] = "closed"
      BY <1>5 DEF Begins, Opened
    <3>2. ~Connected(t)
      BY <3>1 DEF SocketsOK, Ready
    <3>3. Puts(t)' = {}
      BY <1>0, <1>1 DEF OrderInv
    <3>4. QED
      BY <1>5, <3>1, <3>2, <3>3, RowsMove, WireMoves DEF Prepares
  <2>3. OwnedBy(t)' = {}
    <3>1. OwnedBy(t)' = Rows(t)' \cup Puts(t)' \cup OnWire(t)'
      BY DEF OwnedBy, Rows, Puts, OnWire, Enveloped
    <3>2. OnWire(t) = {}
      BY <2>2 DEF OnWire, Wire, Enveloped
    <3>3. QED
      BY <2>2, <3>1, <3>2
  <2>4. \A u \in Tabs : u # t => core'[u] = core[u]
    BY <1>5, OutboxEmptied
  <2>5. QED
    BY <1>2, <2>1, <2>3, <2>4
<1>6. ASSUME NEW t \in Tabs, Settles(t) PROVE OK
  <2>1. phase[t] \in {"identity", "epoch", "bump"}
    BY <1>6 DEF Settles, AdoptIdentity, ReadEpoch, BumpEpoch
  <2>2. phase[t] \in {"closed", "ready"}
    BY <1>1 DEF EpochOK
  <2>3. QED
    BY <2>1, <2>2
<1>7. ASSUME NEW t \in Tabs, Issues(t) PROVE OK
  <2>1. PICK f : f = NewWrite(t).frame
    OBVIOUS
  <2>2. Enqueues(core[t], NewWrite(t), Len(issued) + 1, NewWrite(t).frame.wire, Connected(t))
        /\ core' = [core EXCEPT ![t] = NewWrite(t).core]
    BY <1>7, IssueIs
  <2>3. f.client = core[t].client /\ NewWrite(t).core.client = core[t].client
    BY <2>1, <2>2 DEF Enqueues
  <2>4. \A u \in Tabs : core'[u].client = core[u].client
    <3> DEFINE x == NewWrite(t).core
    <3>1. \A u \in Tabs : core'[u] = IF u = t THEN x ELSE core[u]
      BY <2>2 DEF Types, ClientTypes
    <3>2. x.client = core[t].client
      BY <2>3
    <3> HIDE DEF x
    <3>3. QED
      BY <3>1, <3>2
  <2>5. ASSUME NEW u \in Tabs, NEW h \in OwnedBy(u)' PROVE h.client = core'[u].client
    <3>1. h \in OwnedBy(u) \/ (u = t /\ h = f)
      BY <1>7, <2>1, <2>5, OwnedMove
    <3>2. QED
      BY <2>3, <2>4, <3>1 DEF OwnOK
  <2>6. QED
    BY <2>5 DEF OwnOK
<1>8. ASSUME (\E n \in DOMAIN up : Serve(n) \/ Push(n) \/ Overgrow(n)) \/ Refuse \/ Tick \/ UNCHANGED vars
      PROVE  OK
  <2>1. UNCHANGED <<core, tasks, conn>>
    BY <1>8 DEF Serve, Push, Overgrow, Refuse, Tick, vars, client, browser
  <2>2. \A u \in Tabs : Wire(u)' \subseteq Wire(u)
    <3>1. CASE \E n \in DOMAIN up : Serve(n)
      BY <3>1, WireServe
    <3>2. CASE ~\E n \in DOMAIN up : Serve(n)
      <4>1. UNCHANGED up
        BY <1>8, <3>2 DEF Push, Overgrow, Refuse, Tick, vars, network
      <4>2. QED
        BY <2>1, <4>1 DEF Wire, Connected
    <3>3. QED
      BY <3>1, <3>2
  <2>3. \A u \in Tabs : OwnedBy(u)' \subseteq OwnedBy(u)
    BY <2>1, <2>2 DEF OwnedBy, Enveloped
  <2>4. QED
    BY <1>2, <2>1, <2>3 DEF Gathers
<1> HIDE DEF OK
<1>9. OK
  BY <1>4, <1>5, <1>6, <1>7, <1>8, Steps DEF Begins, Settles, Issues, Commands
<1>10. QED
  BY <1>9 DEF OK

\* No step changes the situation.
LEMMA SameScenario ==
    ASSUME Types, SocketsOK, AlignInv, EpochOK, [Next]_vars
    PROVE  scenario' = scenario
<1>1. QED
  BY Zenon, StepKinds DEF Keeps, Begins, Opened, Settles, AdoptIdentity, ReadEpoch, BumpEpoch, Issues,
                   BrowserWrite, EmbedWrite, bounds

\* Every step keeps the writes of a client its own.
LEMMA OwnOKStep ==
    ASSUME Alone, Types, SocketsOK, AlignInv, OrderInv, MarksOK, AscendOK, DiskOK, OwnOK, IdsLeft, [Next]_vars
    PROVE  OwnOK'
<1>1. Types' /\ SocketsOK' /\ AlignInv' /\ OrderInv'
  BY TypesStep, AlignStep, OrderStep
<1>2. DiskOK' /\ scenario' = scenario
  BY DiskStep, SameScenario DEF OrderInv
<1>3. CASE ~Browser
  BY <1>1, <1>2, <1>3, OwnEmbed
<1>4. CASE Browser
  <2>1. (Types /\ SocketsOK /\ AlignInv /\ EpochOK /\ DiskOK /\ Browser => OwnOK)'
    BY OwnBrowser, PTL
  <2>2. Browser'
    BY <1>2, <1>4 DEF Browser, Setup
  <2>3. QED
    BY <1>1, <1>2, <2>1, <2>2 DEF OrderInv
<1>5. QED
  BY <1>3, <1>4

\* Every step keeps WireInv.
LEMMA WireStep ==
    ASSUME Alone, Types, SocketsOK, AlignInv, OrderInv, WireInv, IdsLeft, [Next]_vars
    PROVE  WireInv'
<1>1. AuthOK /\ UniqueOK /\ AscendOK /\ MarksOK /\ OwnOK /\ DiskOK
  BY DEF WireInv
<1>2. AuthOK' /\ UniqueOK'
  BY <1>1, AuthStep, UniqueStep
<1>3. AscendOK' /\ MarksOK'
  BY <1>1, AscendStep, MarksOKStep
<1>4. OwnOK' /\ DiskOK'
  BY <1>1, OwnOKStep, DiskStep
<1>5. QED
  BY <1>2, <1>3, <1>4 DEF WireInv

\* Nothing is in play at first.
LEMMA WireInit ==
    Init => WireInv
<1> SUFFICES ASSUME Init PROVE WireInv
  OBVIOUS
<1>1. Types /\ SocketsOK /\ AlignInv /\ OrderInv
  BY TypesInit, AlignInit, OrderInit
<1>2. /\ core = [t \in Tabs |-> NewClient(None, FALSE)] /\ phase = [t \in Tabs |-> "closed"]
      /\ tasks = [t \in Tabs |-> << >>] /\ idb.rows = << >> /\ idb.epoch = 0
      /\ up = << >> /\ auth = << >> /\ subscribed = << >> /\ mark = << >> /\ conn = [t \in Tabs |-> 0]
  BY DEF Init
<1>3. AuthOK
  BY <1>2 DEF AuthOK, LineTypes
<1>4. \A t \in Tabs : core[t].outbox = << >> /\ ~Connected(t) /\ ~Begun(t)
  BY <1>2 DEF NewClient, Connected, Begun
<1>5. HeldIn(<< >>) = {} /\ PutsIn(<< >>) = {} /\ OnDisk = {}
  BY <1>2, PutsMade DEF HeldIn, OnDisk
<1>6. InPlay = {}
  <2>1. Sent = {}
    BY <1>2 DEF Sent
  <2>2. Held = {}
    BY <1>2, <1>4, <1>5, Zenon DEF Held
  <2>3. QED
    BY <1>5, <2>1, <2>2 DEF InPlay
<1>7. UniqueOK
  BY <1>6 DEF UniqueOK
<1>8. AscendOK
  BY <1>4 DEF AscendOK, Ascends
<1>9. MarksOK
  <2>1. \A c \in DOMAIN mark : FALSE
    BY <1>2
  <2>2. QED
    BY <1>4, <2>1 DEF MarksOK
<1>10. OwnOK
  BY <1>2, <1>4, <1>5 DEF OwnOK, OwnedBy, Enveloped, Wire
<1>11. DiskOK
  <2>1. \A t \in Tabs : Numbered(t) = {}
    BY <1>2 DEF Numbered
  <2>2. QED
    BY <1>2, <2>1 DEF DiskOK, Rising
<1>12. QED
  BY <1>3, <1>7, <1>8, <1>9, <1>10, <1>11 DEF WireInv

-----------------------------------------------------------------------------
(* The log of the browser *)

\* What the store holds after each command of a log.
Slot == [val : Nat \cup {NoKey}, exp : Nat]
RunBy(g, log) ==
    /\ g \in [0..Len(log) -> [Keys -> Slot]]
    /\ g[0] = Blank
    /\ \A i \in 1..Len(log) : g[i] = Execute(g[i - 1], log[i])

\* One command changes its key.
LEMMA ExecuteIs ==
    ASSUME clock \in Nat, NEW st \in [Keys -> Slot], NEW c \in LogEntry
    PROVE  /\ Execute(st, c) \in [Keys -> Slot]
           /\ \A k \in Keys : Execute(st, c)[k] = IF k = c.key THEN [val |-> c.val, exp |-> Deadline(c.ttl)]
                                                  ELSE st[k]
<1>1. c.key \in Keys /\ c.val \in Nat /\ c.ttl \in Nat
  BY DEF LogEntry
<1>2. Deadline(c.ttl) \in Nat
  BY <1>1 DEF Deadline
<1>3. [val |-> c.val, exp |-> Deadline(c.ttl)] \in Slot
  BY <1>1, <1>2 DEF Slot
<1>4. QED
  BY <1>1, <1>3 DEF Execute

\* The log ends.
LEMMA RunExists ==
    ASSUME clock \in Nat, NEW log \in Seq(LogEntry)
    PROVE  \E g : RunBy(g, log)
<1> DEFINE St == [Keys -> Slot]
           good(n, g) == /\ g \in [0..n -> St] /\ g[0] = Blank
                         /\ \A i \in 1..n : g[i] = Execute(g[i - 1], log[i])
           T == {n \in 0..Len(log) : \E g : good(n, g)}
<1>1. Len(log) \in Nat /\ Blank \in St
  BY DEF Blank, Slot
<1>2. ASSUME NEW i \in 1..Len(log), NEW st \in St PROVE Execute(st, log[i]) \in St
  <2>1. log[i] \in LogEntry
    OBVIOUS
  <2>2. QED
    BY <2>1, ExecuteIs
<1> HIDE DEF St
<1>3. 0 \in T
  <2>1. good(0, [i \in 0..0 |-> Blank])
    BY <1>1
  <2>2. \E g : good(0, g)
    BY <2>1, Zenon
  <2>3. QED
    BY <1>1, <2>2
<1>4. ASSUME NEW n \in 1..Len(log), n - 1 \in T PROVE n \in T
  <2>1. PICK g : good(n - 1, g)
    BY <1>4
  <2>2. PICK x : x = Execute(g[n - 1], log[n])
    OBVIOUS
  <2> DEFINE h == [i \in 0..n |-> IF i = n THEN x ELSE g[i]]
  <2>3. n - 1 \in 0..(n - 1) /\ n \in Nat /\ n # 0
    BY <1>1
  <2>4. x \in St
    BY <1>2, <2>1, <2>2, <2>3
  <2>5. h \in [0..n -> St]
    BY <2>1, <2>4
  <2>6. h[0] = Blank
    BY <2>1, <2>3
  <2>7. ASSUME NEW i \in 1..n PROVE h[i] = Execute(h[i - 1], log[i])
    <3>1. i \in 0..n /\ i - 1 \in 0..n /\ i - 1 # n
      BY <2>3
    <3>2. h[i - 1] = g[i - 1] /\ h[i] = IF i = n THEN x ELSE g[i]
      BY <3>1
    <3>3. CASE i = n
      BY <2>2, <3>2, <3>3
    <3>4. CASE i # n
      <4>1. i \in 1..(n - 1)
        BY <2>3, <3>4
      <4>2. g[i] = Execute(g[i - 1], log[i])
        BY <2>1, <4>1
      <4>3. QED
        BY <3>2, <3>4, <4>2
    <3>5. QED
      BY <3>3, <3>4
  <2>8. good(n, h)
    BY <2>5, <2>6, <2>7
  <2>9. \E f : good(n, f)
    BY <2>8, Zenon
  <2>10. n \in 0..Len(log)
    BY <1>1
  <2>11. QED
    BY <2>9, <2>10, Zenon
<1>5. Len(log) \in T
  <2> HIDE DEF T
  <2>1. \A i \in 0..Len(log) : i \in T
    BY <1>1, <1>3, <1>4, UpTo
  <2>2. QED
    BY <1>1, <2>1
<1>6. QED
  BY <1>5, Zenon DEF RunBy, St

\* What is in the store at its end is what Hydrate says.
LEMMA RunIsLast ==
    ASSUME NEW log \in Seq(LogEntry), NEW g, RunBy(g, log)
    PROVE  Hydrate(log) = g[Len(log)]
<1> DEFINE step(f) == [i \in 0..Len(log) |-> IF i = 0 THEN Blank ELSE Execute(f[i - 1], log[i])]
           run == CHOOSE f : f = step(f)
<1>1. Len(log) \in Nat
  OBVIOUS
<1>2. g = step(g)
  <2>1. g = [i \in 0..Len(log) |-> g[i]]
    BY DEF RunBy
  <2>2. ASSUME NEW i \in 0..Len(log) PROVE g[i] = IF i = 0 THEN Blank ELSE Execute(g[i - 1], log[i])
    <3>1. CASE i = 0
      BY <3>1 DEF RunBy
    <3>2. CASE i # 0
      <4>1. i \in 1..Len(log)
        BY <1>1, <3>2
      <4>2. QED
        BY <3>2, <4>1 DEF RunBy
    <3>3. QED
      BY <3>1, <3>2
  <2>3. QED
    BY <2>1, <2>2, Zenon
<1>3. run = step(run)
  BY <1>2
<1>4. Hydrate(log) = run[Len(log)]
  BY DEF Hydrate
<1> HIDE DEF run
<1> DEFINE T == {i \in 0..Len(log) : run[i] = g[i]}
<1>5. \A j \in 0..Len(log) : run[j] = IF j = 0 THEN Blank ELSE Execute(run[j - 1], log[j])
  BY <1>3, Zenon
<1>6. 0 \in T
  <2>1. 0 \in 0..Len(log) /\ run[0] = Blank
    BY <1>1, <1>5
  <2>2. QED
    BY <2>1 DEF RunBy
<1>7. ASSUME NEW i \in 1..Len(log), i - 1 \in T PROVE i \in T
  <2>1. i \in 0..Len(log) /\ i # 0
    BY <1>1
  <2>2. run[i] = Execute(run[i - 1], log[i])
    BY <1>5, <2>1, Zenon
  <2>3. g[i] = Execute(g[i - 1], log[i])
    BY DEF RunBy
  <2>4. QED
    BY <1>7, <2>1, <2>2, <2>3
<1> HIDE DEF T
<1>8. \A i \in 0..Len(log) : i \in T
  BY <1>1, <1>6, <1>7, UpTo
<1>9. QED
  BY <1>1, <1>4, <1>8 DEF T

\* The last command on a key, and what it leaves there.
LastOn(log, n, k, i) ==
    i \in 1..n /\ log[i].key = k /\ \A j \in 1..n : log[j].key = k => j <= i
ValueOf(c) == [val |-> c.val, exp |-> Deadline(c.ttl)]
Absent == [val |-> NoKey, exp |-> 0]

\* The last command on a key decides.
LEMMA HydrateIs ==
    ASSUME clock \in Nat, NEW log \in Seq(LogEntry), NEW k \in Keys
    PROVE  \/ (\A i \in 1..Len(log) : log[i].key # k) /\ Hydrate(log)[k] = Absent
           \/ \E i \in 1..Len(log) : LastOn(log, Len(log), k, i) /\ Hydrate(log)[k] = ValueOf(log[i])
<1>1. PICK g : RunBy(g, log)
  BY RunExists
<1>2. Len(log) \in Nat /\ Hydrate(log) = g[Len(log)]
  BY <1>1, RunIsLast
<1> DEFINE None0(n) == (\A i \in 1..n : log[i].key # k) /\ g[n][k] = Absent
           Some(n) == \E i \in 1..n : LastOn(log, n, k, i) /\ g[n][k] = ValueOf(log[i])
           T == {n \in 0..Len(log) : None0(n) \/ Some(n)}
<1>3. 0 \in T
  <2>1. g[0][k] = Absent
    BY <1>1 DEF RunBy, Blank, Absent
  <2>2. QED
    BY <1>2, <2>1
<1>4. ASSUME NEW n \in 1..Len(log), n - 1 \in T PROVE n \in T
  <2>1. n \in Nat /\ n \in 0..Len(log) /\ n - 1 \in 0..Len(log) /\ n \in 1..n /\ log[n] \in LogEntry
    BY <1>2
  <2>2. g[n - 1] \in [Keys -> Slot] /\ g[n] = Execute(g[n - 1], log[n])
    BY <1>1, <2>1 DEF RunBy
  <2>3. g[n][k] = IF k = log[n].key THEN ValueOf(log[n]) ELSE g[n - 1][k]
    BY <2>1, <2>2, ExecuteIs DEF ValueOf
  <2>4. CASE log[n].key = k
    <3>1. LastOn(log, n, k, n)
      BY <2>1, <2>4 DEF LastOn
    <3>2. Some(n)
      BY <2>1, <2>3, <2>4, <3>1, Zenon
    <3>3. QED
      BY <2>1, <3>2
  <2>5. CASE log[n].key # k
    <3>1. \A j \in 1..n : j = n \/ j \in 1..(n - 1)
      BY <2>1
    <3>2. 1..(n - 1) \subseteq 1..n
      BY <2>1
    <3>3. g[n][k] = g[n - 1][k]
      BY <2>3, <2>5
    <3>4. CASE None0(n - 1)
      <4>1. None0(n)
        BY <2>5, <3>1, <3>3, <3>4
      <4>2. QED
        BY <2>1, <4>1
    <3>5. CASE Some(n - 1)
      <4>1. PICK i \in 1..(n - 1) : LastOn(log, n - 1, k, i) /\ g[n - 1][k] = ValueOf(log[i])
        BY <3>5
      <4>2. LastOn(log, n, k, i)
        BY <2>5, <3>1, <3>2, <4>1 DEF LastOn
      <4>3. Some(n)
        BY <3>2, <3>3, <4>1, <4>2, Zenon
      <4>4. QED
        BY <2>1, <4>3
    <3>6. QED
      BY <1>4, <3>4, <3>5
  <2>6. QED
    BY <2>4, <2>5
<1> HIDE DEF T
<1>5. \A n \in 0..Len(log) : n \in T
  BY <1>2, <1>3, <1>4, UpTo
<1>6. Len(log) \in T
  BY <1>2, <1>5
<1>7. None0(Len(log)) \/ Some(Len(log))
  BY <1>6 DEF T
<1>8. QED
  BY <1>2, <1>7, Zenon

\* A log on disk, as number -> command.
LogFile(wal) ==
    wal \in [DOMAIN wal -> LogEntry] /\ DOMAIN wal \in SUBSET Nat /\ IsFiniteSet(DOMAIN wal)

\* A reload: the entry of a key with the greatest number decides.
LEMMA ReplayIs ==
    ASSUME clock \in Nat, NEW wal, LogFile(wal), NEW k \in Keys
    PROVE  LET st == Hydrate(InOrder(wal))
           IN  \/ Missing(wal, k) /\ st[k] = Absent
               \/ \E id \in DOMAIN wal : LastIn(wal, k, id) /\ st[k] = ValueOf(wal[id])
<1> DEFINE D == DOMAIN wal
           log == InOrder(wal)
           n == Cardinality(D)
<1>1. n \in Nat /\ \A i \in 1..n : Nth(D, i) \in D
  BY NthExists DEF LogFile
<1>2. /\ \A i, j \in 1..n : i < j => Nth(D, i) < Nth(D, j)
      /\ \A id \in D : \E i \in 1..n : Nth(D, i) = id
  BY NthOrder DEF LogFile
<1>3. log \in Seq(LogEntry)
  BY InOrderType DEF LogFile
<1>4. Len(log) = n /\ \A i \in 1..n : log[i] = wal[Nth(D, i)]
  BY <1>1 DEF InOrder
<1>5. \A id \in D : id \in Nat
  BY DEF LogFile
<1> HIDE DEF log, n, D
<1>6. CASE (\A i \in 1..Len(log) : log[i].key # k) /\ Hydrate(log)[k] = Absent
  <2>1. \A id \in D : wal[id].key # k
    BY <1>2, <1>4, <1>6
  <2>2. Missing(wal, k)
    BY <2>1 DEF Missing, D
  <2>3. QED
    BY <1>6, <2>2 DEF log
<1>7. CASE \E i \in 1..Len(log) : LastOn(log, Len(log), k, i) /\ Hydrate(log)[k] = ValueOf(log[i])
  <2>1. PICK i \in 1..n : LastOn(log, n, k, i) /\ Hydrate(log)[k] = ValueOf(log[i])
    BY <1>4, <1>7
  <2>2. PICK id : id = Nth(D, i)
    OBVIOUS
  <2>3. id \in D /\ wal[id].key = k /\ Hydrate(log)[k] = ValueOf(wal[id])
    BY <1>1, <1>4, <2>1, <2>2 DEF LastOn
  <2>4. ASSUME NEW other \in D, wal[other].key = k PROVE other <= id
    <3>1. PICK j \in 1..n : Nth(D, j) = other
      BY <1>2
    <3>2. j <= i
      BY <1>4, <2>1, <2>4, <3>1 DEF LastOn
    <3>3. CASE j = i
      BY <1>5, <2>2, <3>1, <3>3
    <3>4. CASE j < i
      <4>1. other < id
        BY <1>2, <2>2, <3>1, <3>4
      <4>2. QED
        BY <1>5, <2>3, <4>1
    <3>5. QED
      BY <1>1, <3>2, <3>3, <3>4
  <2>5. id \in DOMAIN wal /\ LastIn(wal, k, id)
    BY <2>3, <2>4 DEF LastIn, D
  <2>6. QED
    BY <2>3, <2>5, Zenon DEF log
<1>8. QED
  BY <1>3, <1>6, <1>7, HydrateIs

\* There is one last entry.
LEMMA OneLast ==
    ASSUME NEW wal, LogFile(wal), NEW k, NEW a, NEW b, LastIn(wal, k, a), LastIn(wal, k, b)
    PROVE  a = b
BY DEF LastIn, LogFile

\* A finite set in a sequence: every element has a place, and one only.
LEMMA SetInSeq ==
    ASSUME NEW S, IsFiniteSet(S)
    PROVE  LET n == Cardinality(S)
               f == SetToSeq(S)
           IN  /\ n \in Nat /\ f \in [1..n -> S]
               /\ \A i, j \in 1..n : f[i] = f[j] => i = j
               /\ \A x \in S : \E i \in 1..n : f[i] = x
<1> DEFINE n == Cardinality(S)
           f == SetToSeq(S)
<1>1. n \in Nat /\ ExistsBijection(1..n, S)
  BY FS_CardinalityType
<1>2. PICK b : b \in [1..n -> S] /\ IsInjective(b)
  BY <1>1 DEF ExistsBijection, Bijection, Injection
<1>3. f \in [1..n -> S] /\ IsInjective(f)
  BY <1>2, Zenon DEF SetToSeq
<1> HIDE DEF f
<1>4. f \in Injection(1..n, S)
  BY <1>3 DEF Injection
<1>5. Cardinality(1..n) = n
  BY <1>1, FS_Interval
<1>6. f \in Surjection(1..n, S)
  BY <1>4, <1>5, FS_Injection
<1>7. QED
  BY <1>1, <1>3, <1>6 DEF IsInjective, Surjection, f

\* What a compaction writes: the last entry of each key, unless it says nothing or has expired.
LEMMA SnapshotIs ==
    ASSUME clock \in Nat, NEW wal, LogFile(wal)
    PROVE  LET s == SnapshotCommands(Hydrate(InOrder(wal)))
           IN  /\ Len(s) \in Nat /\ s \in Seq(LogEntry)
               /\ \A i \in 1..Len(s) : \E id \in DOMAIN wal :
                    /\ LastIn(wal, s[i].key, id) /\ s[i].val = wal[id].val
                    /\ s[i].ttl # 0 => wal[id].ttl # 0
               /\ \A i, j \in 1..Len(s) : s[i].key = s[j].key => i = j
               /\ \A k \in Keys : (\A i \in 1..Len(s) : s[i].key # k) =>
                    \/ Missing(wal, k)
                    \/ \E id \in DOMAIN wal :
                         LastIn(wal, k, id) /\ (wal[id].val = NoKey \/ wal[id].ttl # 0)
<1> DEFINE st == Hydrate(InOrder(wal))
           live == {k \in Keys : st[k].val # NoKey /\ ~Expired(st[k])}
           f == SetToSeq(live)
           n == Cardinality(live)
           command(k) == [key |-> k, val |-> st[k].val, ttl |-> IF st[k].exp = 0 THEN 0 ELSE st[k].exp - clock]
           s == SnapshotCommands(st)
<1>1. \A k \in Keys : \/ Missing(wal, k) /\ st[k] = Absent
                      \/ \E id \in DOMAIN wal : LastIn(wal, k, id) /\ st[k] = ValueOf(wal[id])
  BY ReplayIs
<1> HIDE DEF st
<1>2. IsFiniteSet(live)
  <2> DEFINE I == {id \in DOMAIN wal : wal[id].key \in live}
             g == [id \in I |-> wal[id].key]
  <2>1. IsFiniteSet(I)
    BY FS_Subset DEF LogFile
  <2>2. ASSUME NEW k \in live PROVE \E id \in I : g[id] = k
    <3>1. k \in Keys /\ st[k] # Absent
      BY DEF Absent
    <3>2. PICK id \in DOMAIN wal : LastIn(wal, k, id)
      BY <1>1, <3>1
    <3>3. id \in I /\ g[id] = k
      BY <3>2 DEF LastIn
    <3>4. QED
      BY <3>3
  <2>3. g \in [I -> live]
    OBVIOUS
  <2>4. g \in Surjection(I, live)
    BY <2>2, <2>3 DEF Surjection
  <2>5. QED
    BY <2>1, <2>4, FS_Surjection
<1>3. /\ n \in Nat /\ f \in [1..n -> live]
      /\ \A i, j \in 1..n : f[i] = f[j] => i = j
      /\ \A x \in live : \E i \in 1..n : f[i] = x
  BY <1>2, SetInSeq
<1>4. s = [i \in 1..n |-> command(f[i])]
  BY DEF SnapshotCommands
<1>5. \A k \in live : /\ k \in Keys /\ st[k].val # NoKey /\ ~Expired(st[k])
  OBVIOUS
<1>6. \A k \in Keys : k \in live \/ st[k].val = NoKey \/ Expired(st[k])
  OBVIOUS
<1> HIDE DEF f, n, live, s
<1>7. ASSUME NEW k \in live
      PROVE  /\ command(k) \in LogEntry
             /\ \E id \in DOMAIN wal : /\ LastIn(wal, k, id) /\ command(k).val = wal[id].val
                                       /\ command(k).ttl # 0 => wal[id].ttl # 0
  <2>1. PICK id \in DOMAIN wal : LastIn(wal, k, id) /\ st[k] = ValueOf(wal[id])
    BY <1>1, <1>5 DEF Absent
  <2>2. wal[id] \in LogEntry
    BY <2>1 DEF LogFile
  <2>3. wal[id].ttl \in Nat /\ wal[id].val \in Nat
    BY <2>2 DEF LogEntry
  <2>4. st[k].val = wal[id].val /\ st[k].exp = IF wal[id].ttl = 0 THEN 0 ELSE clock + wal[id].ttl
    BY <2>1 DEF ValueOf, Deadline
  <2>5. ~(st[k].exp # 0 /\ st[k].exp <= clock)
    BY <1>5 DEF Expired
  <2>6. /\ (IF st[k].exp = 0 THEN 0 ELSE st[k].exp - clock) \in Nat
        /\ (IF st[k].exp = 0 THEN 0 ELSE st[k].exp - clock) # 0 => wal[id].ttl # 0
    BY <2>3, <2>4, <2>5
  <2>7. command(k).key = k /\ command(k).val = st[k].val
        /\ command(k).ttl = IF st[k].exp = 0 THEN 0 ELSE st[k].exp - clock
    OBVIOUS
  <2>8. command(k) \in LogEntry
    BY <1>5, <2>3, <2>4, <2>6 DEF LogEntry
  <2> HIDE DEF command
  <2>9. LastIn(wal, k, id) /\ command(k).val = wal[id].val /\ (command(k).ttl # 0 => wal[id].ttl # 0)
    BY <2>1, <2>4, <2>6, <2>7
  <2>10. QED
    BY <2>8, <2>9
<1>8. \A k \in live : command(k).key = k
  OBVIOUS
<1> HIDE DEF command
<1>9. \A i \in 1..n : f[i] \in live /\ s[i] = command(f[i]) /\ s[i].key = f[i] /\ s[i] \in LogEntry
  BY <1>3, <1>4, <1>7, <1>8
<1>10. s \in Seq(LogEntry) /\ Len(s) = n
  BY <1>3, <1>4, <1>9
<1>11. \A i \in 1..n : \E id \in DOMAIN wal :
          /\ LastIn(wal, s[i].key, id) /\ s[i].val = wal[id].val /\ (s[i].ttl # 0 => wal[id].ttl # 0)
  BY <1>7, <1>9
<1>12. \A i, j \in 1..n : s[i].key = s[j].key => i = j
  BY <1>3, <1>9
<1>13. ASSUME NEW k \in Keys, \A i \in 1..n : s[i].key # k
       PROVE  \/ Missing(wal, k)
              \/ \E id \in DOMAIN wal : LastIn(wal, k, id) /\ (wal[id].val = NoKey \/ wal[id].ttl # 0)
  <2>1. k \notin live
    BY <1>3, <1>9, <1>13
  <2>2. SUFFICES ASSUME ~Missing(wal, k)
                 PROVE  \E id \in DOMAIN wal : LastIn(wal, k, id) /\ (wal[id].val = NoKey \/ wal[id].ttl # 0)
    OBVIOUS
  <2>3. PICK id \in DOMAIN wal : LastIn(wal, k, id) /\ st[k] = ValueOf(wal[id])
    BY <1>1, <2>2
  <2>4. st[k].val = wal[id].val /\ st[k].exp = IF wal[id].ttl = 0 THEN 0 ELSE clock + wal[id].ttl
    BY <2>3 DEF ValueOf, Deadline
  <2>5. st[k].val = NoKey \/ st[k].exp # 0
    BY <1>6, <2>1 DEF Expired
  <2>6. wal[id].val = NoKey \/ wal[id].ttl # 0
    BY <2>4, <2>5
  <2>7. QED
    BY <2>3, <2>6
<1>14. QED
  BY <1>3, <1>10, <1>11, <1>12, <1>13 DEF s, st

\* What a reload finds.
LEMMA LogSaysIt == Types /\ LogInv => LogKeepsWrites
<1> SUFFICES ASSUME Types, LogInv, NEW k \in Keys
             PROVE  LET st == Hydrate(InOrder(idb.wal))
                    IN  \/ st[k].val = journal[k]
                        \/ st[k].val = NoKey /\ issued[journal[k]].ttl # 0
  BY DEF LogKeepsWrites
<1> DEFINE st == Hydrate(InOrder(idb.wal))
<1>1. LogFile(idb.wal) /\ clock \in Nat /\ Logged(k)
  BY DEF LogInv, LogTypes, LogFile, Types, HistoryTypes
<1>2. \/ Missing(idb.wal, k) /\ st[k] = Absent
      \/ \E id \in DOMAIN idb.wal : LastIn(idb.wal, k, id) /\ st[k] = ValueOf(idb.wal[id])
  BY <1>1, ReplayIs
<1> HIDE DEF st
<1>3. CASE Missing(idb.wal, k) /\ st[k] = Absent
  <2>1. st[k].val = NoKey
    BY <1>3 DEF Absent
  <2>2. \A id \in DOMAIN idb.wal : ~LastIn(idb.wal, k, id)
    BY <1>3 DEF Missing, LastIn
  <2>3. journal[k] = NoKey \/ issued[journal[k]].ttl # 0
    BY <1>1, <2>2 DEF Logged
  <2>4. QED
    BY <2>1, <2>3 DEF st
<1>4. ASSUME NEW id \in DOMAIN idb.wal, LastIn(idb.wal, k, id), st[k] = ValueOf(idb.wal[id])
      PROVE  st[k].val = journal[k]
  <2>1. ~Missing(idb.wal, k)
    BY <1>4 DEF Missing, LastIn
  <2>2. PICK a \in DOMAIN idb.wal : LastIn(idb.wal, k, a) /\ idb.wal[a].val = journal[k]
    BY <1>1, <2>1 DEF Logged
  <2>3. a = id
    BY <1>1, <1>4, <2>2, OneLast
  <2>4. QED
    BY <1>4, <2>2, <2>3 DEF ValueOf
<1>5. QED
  BY <1>2, <1>3, <1>4 DEF st

\* A step that writes to no log, and puts no entry on its way to it.
Quiet(t) == \A i \in Appends(tasks'[t]) : i \in Appends(tasks[t]) /\ tasks'[t][i] = tasks[t][i]
IssuedKept == \A w \in DOMAIN issued : w \in DOMAIN issued' /\ issued'[w] = issued[w]

\* The log and the journal stay as they are.
LEMMA LogSame ==
    ASSUME LogInv, idb'.wal = idb.wal, walSeq' \in [Tabs -> Nat], journal' = journal, IssuedKept
    PROVE  LogTypes' /\ \A k \in Keys : Logged(k)'
<1>1. LogTypes'
  <2>1. \A x \in (DOMAIN issued) \cup {NoKey} : x \in (DOMAIN issued') \cup {NoKey}
    BY DEF IssuedKept
  <2>2. journal' \in [Keys -> (DOMAIN issued') \cup {NoKey}]
    BY <2>1 DEF LogInv, LogTypes
  <2>3. QED
    BY <2>2 DEF LogInv, LogTypes, IssuedKept
<1>2. ASSUME NEW k \in Keys PROVE Logged(k)'
  <2>1. Logged(k) /\ journal[k] \in (DOMAIN issued) \cup {NoKey}
    BY DEF LogInv, LogTypes
  <2>2. QED
    BY <2>1 DEF Logged, Missing, LastIn, IssuedKept
<1>3. QED
  BY <1>1, <1>2

\* Nothing else is on its way.
LEMMA LogQuiet ==
    ASSUME LogInv, idb'.wal = idb.wal, UNCHANGED <<walSeq, journal, scenario>>, IssuedKept,
           Browser => \A t \in Tabs : /\ Quiet(t) /\ (Ready(t)' => Ready(t))
                                      /\ ~Ready(t)' => tasks'[t] = << >>,
           ~Browser => \A t \in Tabs : tasks'[t] = << >>
    PROVE  LogInv'
<1>1. Browser' <=> Browser
  BY DEF Browser, Setup
<1>2. walSeq' \in [Tabs -> Nat] /\ journal' = journal
  BY DEF LogInv, LogTypes
<1>3. LogTypes' /\ \A k \in Keys : Logged(k)'
  BY <1>2, LogSame
<1>4. ASSUME Browser, NEW t \in Tabs PROVE LogRises(t)'
  <2>1. LogRises(t) /\ Quiet(t) /\ (Ready(t)' => Ready(t)) /\ (~Ready(t)' => tasks'[t] = << >>)
    BY <1>4 DEF LogInv
  <2>2. ASSUME NEW i \in Appends(tasks'[t])
        PROVE  /\ tasks'[t][i].id \in Nat /\ tasks'[t][i].write \in DOMAIN issued'
               /\ tasks'[t][i].id < walSeq'[t]
               /\ \A id \in DOMAIN idb'.wal : id < tasks'[t][i].id
               /\ \A j \in Appends(tasks'[t]) : i < j => tasks'[t][i].id < tasks'[t][j].id
    BY <2>1 DEF LogRises, Quiet, IssuedKept
  <2>3. QED
    BY <2>1, <2>2 DEF LogRises, Appends
<1>5. CASE Browser
  BY <1>1, <1>2, <1>3, <1>4, <1>5 DEF LogInv
<1>6. CASE ~Browser
  BY <1>1, <1>2, <1>3, <1>6 DEF LogInv
<1>7. QED
  BY <1>5, <1>6

\* Transactions behind others, of which none appends to the log.
LEMMA QuietBehind ==
    ASSUME NEW s, TasksOK(s), NEW r, TasksOK(r), \A i \in DOMAIN r : r[i].kind # "append"
    PROVE  \A i \in Appends(s \o r) : i \in Appends(s) /\ (s \o r)[i] = s[i]
<1> DEFINE S == ToSet(s) \cup ToSet(r)
<1>1. s \in Seq(S) /\ r \in Seq(S)
  BY DEF TasksOK, ToSet
<1> HIDE DEF S
<1>2. /\ Len(s) \in Nat /\ Len(r) \in Nat /\ DOMAIN s = 1..Len(s) /\ DOMAIN r = 1..Len(r)
      /\ DOMAIN (s \o r) = 1..(Len(s) + Len(r))
      /\ \A i \in 1..Len(s) : (s \o r)[i] = s[i]
      /\ \A j \in 1..Len(r) : (s \o r)[Len(s) + j] = r[j]
  BY <1>1, ConcatFacts
<1>3. ASSUME NEW i \in 1..(Len(s) + Len(r)), (s \o r)[i].kind = "append" PROVE i \in 1..Len(s)
  <2>1. SUFFICES ASSUME i > Len(s) PROVE FALSE
    BY <1>2
  <2>2. PICK j : j = i - Len(s)
    OBVIOUS
  <2>3. j \in 1..Len(r) /\ Len(s) + j = i
    BY <1>2, <2>1, <2>2
  <2>4. QED
    BY <1>2, <1>3, <2>3
<1>4. QED
  BY <1>2, <1>3 DEF Appends

\* A step that leaves the transactions alone, and makes no tab of a browser ready.
LEMMA LogIdle ==
    ASSUME LogInv, idb'.wal = idb.wal, UNCHANGED <<tasks, walSeq, journal, scenario>>, IssuedKept,
           Browser => \A t \in Tabs : Ready(t)' <=> Ready(t)
    PROVE  LogInv'
<1>1. ASSUME Browser, NEW t \in Tabs PROVE Quiet(t) /\ (~Ready(t)' => tasks'[t] = << >>)
  BY <1>1 DEF Quiet, LogInv, LogRises
<1>2. ~Browser => \A t \in Tabs : tasks'[t] = << >>
  BY DEF LogInv
<1>3. QED
  BY <1>1, <1>2, LogQuiet

\* A tab starts.
LEMMA LogStart ==
    ASSUME Types, LogInv, NEW t \in Tabs, Begins(t) \/ Settles(t) \/ RestoreRows(t) \/ ReplaceRows(t)
    PROVE  LogInv'
<1>1. UNCHANGED <<tasks, walSeq, journal, scenario, issued>>
  BY Zenon DEF Begins, Settles, Opened, AdoptIdentity, ReadEpoch, BumpEpoch, RestoreRows, ReplaceRows, browser,
       bounds, history
<1>2. idb'.wal = idb.wal
  <2>1. CASE Begins(t) \/ ReadEpoch(t) \/ RestoreRows(t)
    BY <2>1, Zenon DEF Begins, Opened, ReadEpoch, RestoreRows, browser
  <2>2. CASE AdoptIdentity(t) \/ BumpEpoch(t) \/ ReplaceRows(t)
    BY <2>2 DEF AdoptIdentity, BumpEpoch, ReplaceRows, Types, DiskTypes
  <2>3. QED
    BY <2>1, <2>2 DEF Settles
<1>3. PICK p : phase' = [phase EXCEPT ![t] = p] /\ phase[t] # "ready" /\ (Browser => p # "ready")
  <2>1. CASE Opened(t, "identity") /\ Browser
    <3>1. phase' = [phase EXCEPT ![t] = "identity"] /\ phase[t] = "closed"
      BY <2>1, Zenon DEF Opened
    <3>2. "identity" # "ready" /\ phase[t] # "ready"
      BY <3>1
    <3>3. QED
      BY <3>1, <3>2, Zenon
  <2>2. CASE Opened(t, "ready") /\ ~Browser
    <3>1. phase' = [phase EXCEPT ![t] = "ready"] /\ phase[t] = "closed"
      BY <2>2, Zenon DEF Opened
    <3>2. phase[t] # "ready"
      BY <3>1
    <3>3. QED
      BY <2>2, <3>1, <3>2, Zenon
  <2>3. CASE AdoptIdentity(t) \/ ReadEpoch(t) \/ BumpEpoch(t) \/ RestoreRows(t) \/ ReplaceRows(t)
    <3>1. \E p \in {"epoch", "bump", "outbox", "replace", "log"} : phase' = [phase EXCEPT ![t] = p]
      BY <2>3, Zenon DEF AdoptIdentity, ReadEpoch, BumpEpoch, RestoreRows, ReplaceRows
    <3>2. phase[t] \in {"identity", "epoch", "bump", "outbox", "replace"}
      BY <2>3, Zenon DEF AdoptIdentity, ReadEpoch, BumpEpoch, RestoreRows, ReplaceRows
    <3>3. QED
      BY <3>1, <3>2
  <2>4. QED
    BY <2>1, <2>2, <2>3 DEF Begins, Settles
<1>4. Browser => \A u \in Tabs : Ready(u)' <=> Ready(u)
  BY <1>3 DEF Ready, Types, ClientTypes
<1>5. IssuedKept
  BY <1>1 DEF IssuedKept
<1>6. QED
  BY <1>1, <1>2, <1>4, <1>5, LogIdle

\* A step of the socket or of the session, of the server, or of time.
LEMMA LogElsewhere ==
    ASSUME LogInv,
           \/ \E t \in Tabs : Connect(t) \/ Close(t) \/ Commands(t)
           \/ \E n \in DOMAIN up : Serve(n) \/ Push(n) \/ Overgrow(n)
           \/ Refuse \/ Tick \/ UNCHANGED vars
    PROVE  LogInv'
<1>1. UNCHANGED <<phase, tasks, walSeq, idb, journal, scenario, issued>>
  <2>1. ASSUME NEW t \in Tabs, Connect(t) \/ Close(t) \/ Commands(t)
        PROVE  UNCHANGED <<phase, tasks, walSeq, idb, journal, scenario, issued>>
    BY <2>1, Zenon DEF Connect, Close, HangUp, Commands, Read, Query, Unquery, Command, EmbedSubscribe, browser,
         bounds, history
  <2>2. ASSUME NEW n \in DOMAIN up, Serve(n) \/ Push(n) \/ Overgrow(n)
        PROVE  UNCHANGED <<phase, tasks, walSeq, idb, journal, scenario, issued>>
    BY <2>2, Zenon DEF Serve, Push, Overgrow, client, browser, bounds, history
  <2>3. ASSUME Refuse \/ Tick \/ UNCHANGED vars
        PROVE  UNCHANGED <<phase, tasks, walSeq, idb, journal, scenario, issued>>
    BY <2>3, Zenon DEF Refuse, Tick, vars, client, browser, bounds, history
  <2>4. QED
    BY <2>1, <2>2, <2>3
<1>2. IssuedKept
  BY <1>1 DEF IssuedKept
<1>3. QED
  BY <1>1, <1>2, LogIdle DEF Ready

\* A new write is behind those before it.
LEMMA IssuedGrows == ASSUME Types, NEW x, issued' = Append(issued, x) PROVE IssuedKept
<1> DEFINE R == [client : Clients, key : Keys, ttl : Nat, deadline : Nat]
<1>a. issued \in Seq(R)
  BY DEF Types, HistoryTypes
<1> HIDE DEF R
<1>1. issued \in Seq(R \cup {x})
  BY <1>a
<1>2. QED
  BY <1>1 DEF IssuedKept

\* An embedded client has no log.
LEMMA LogEmbed == ASSUME Types, LogInv, NEW t \in Tabs, EmbedWrite(t) PROVE LogInv'
<1>1. UNCHANGED <<tasks, walSeq, idb, journal, scenario>> /\ ~Browser /\ \E x : issued' = Append(issued, x)
  BY Zenon DEF EmbedWrite, Enqueued, browser, bounds
<1>2. IssuedKept
  BY <1>1, IssuedGrows
<1>3. QED
  BY <1>1, <1>2, LogIdle

\* A reload: what was on its way is lost, what is on disk stays.
LEMMA LogCrash == ASSUME Types, LogInv, NEW t \in Tabs, Crash(t) PROVE LogInv'
<1>1. /\ UNCHANGED <<walSeq, idb, journal, scenario, issued>>
      /\ phase' = [phase EXCEPT ![t] = "closed"] /\ tasks' = [tasks EXCEPT ![t] = << >>]
  BY Zenon DEF Crash
<1>2. \A u \in Tabs : /\ tasks'[u] = (IF u = t THEN << >> ELSE tasks[u])
                      /\ phase'[u] = (IF u = t THEN "closed" ELSE phase[u])
  BY <1>1 DEF Types, TaskTypes, ClientTypes
<1>3. ASSUME Browser, NEW u \in Tabs PROVE Quiet(u) /\ (Ready(u)' => Ready(u)) /\ (~Ready(u)' => tasks'[u] = << >>)
  <2>1. LogRises(u)
    BY <1>3 DEF LogInv
  <2>2. CASE u = t
    BY <1>2, <2>2 DEF Quiet, Appends, Ready
  <2>3. CASE u # t
    BY <1>2, <2>1, <2>3 DEF Quiet, Appends, Ready, LogRises
  <2>4. QED
    BY <2>2, <2>3
<1>4. ~Browser => \A u \in Tabs : tasks'[u] = << >>
  BY <1>2 DEF LogInv
<1>5. IssuedKept
  BY <1>1 DEF IssuedKept
<1>6. QED
  BY <1>1, <1>3, <1>4, <1>5, LogQuiet

\* Transactions on rows are put behind the others.
LEMMA LogBehind ==
    ASSUME Types, LogInv, NEW t \in Tabs, Browser, Ready(t),
           UNCHANGED <<phase, walSeq, idb, journal, scenario, issued>>,
           NEW r, TasksOK(r), \A i \in DOMAIN r : r[i].kind # "append",
           tasks' = [tasks EXCEPT ![t] = tasks[t] \o r]
    PROVE  LogInv'
<1>1. \A u \in Tabs : tasks'[u] = IF u = t THEN tasks[t] \o r ELSE tasks[u]
  BY DEF Types, TaskTypes
<1>2. TasksOK(tasks[t])
  BY DEF Types, TaskTypes
<1>3. ASSUME NEW u \in Tabs PROVE Quiet(u) /\ (Ready(u)' => Ready(u)) /\ (~Ready(u)' => tasks'[u] = << >>)
  <2>1. LogRises(u) /\ (Ready(u)' <=> Ready(u))
    BY DEF LogInv, Ready
  <2>2. CASE u = t
    <3>1. Quiet(u)
      <4>1. \A i \in Appends(tasks[t] \o r) : i \in Appends(tasks[t]) /\ (tasks[t] \o r)[i] = tasks[t][i]
        BY <1>2, QuietBehind
      <4>2. tasks'[u] = tasks[t] \o r
        BY <1>1, <2>2
      <4>3. QED
        BY <2>2, <4>1, <4>2, Zenon DEF Quiet
    <3>2. QED
      BY <2>1, <2>2, <3>1
  <2>3. CASE u # t
    BY <1>1, <2>1, <2>3 DEF Quiet, Appends, LogRises
  <2>4. QED
    BY <2>2, <2>3
<1>4. IssuedKept
  BY DEF IssuedKept
<1>5. QED
  BY <1>3, <1>4, LogQuiet

\* A subscription, a sign-out, an answer.
LEMMA LogRows ==
    ASSUME Types, SocketsOK, LogInv, NEW t \in Tabs, BrowserSubscribe(t) \/ Clear(t) \/ Receive(t)
    PROVE  LogInv'
<1>1. UNCHANGED <<phase, walSeq, idb, journal, scenario, issued>> /\ Ready(t)
  <2>1. CASE BrowserSubscribe(t) \/ Clear(t)
    BY <2>1, Zenon DEF BrowserSubscribe, Clear, bounds
  <2>2. CASE Receive(t)
    BY <2>2, ReceiveIs DEF Receive, SocketsOK
  <2>3. QED
    BY <2>1, <2>2
<1>2. ASSUME ~(tasks' = tasks)
      PROVE  /\ Browser
             /\ \E r : /\ TasksOK(r) /\ \A i \in DOMAIN r : r[i].kind # "append"
                       /\ tasks' = [tasks EXCEPT ![t] = tasks[t] \o r]
  <2>1. CASE BrowserSubscribe(t)
    <3> DEFINE e == EnqueueWrite(core[t], "subscribe", None, FALSE, Connected(t))
    <3>1. Enqueues(core[t], e, None, None, Connected(t)) /\ tasks' = [tasks EXCEPT ![t] = tasks[t] \o StoreRow(e)]
      BY <2>1, SubscribeIs
    <3> HIDE DEF e
    <3>2. e.id \in Nat /\ e.frame \in RowFrame /\ (e.dropped = << >> \/ e.dropped = <<Head(core[t].outbox)>>)
      BY <3>1, CoreFields DEF Enqueues, Types, ClientTypes
    <3>3. TasksOK(StoreRow(e)) /\ \A i \in DOMAIN StoreRow(e) : StoreRow(e)[i].kind # "append"
      BY <3>2, StoreRowType
    <3>4. Browser
      BY <2>1 DEF BrowserSubscribe
    <3>5. QED
      BY <3>1, <3>3, <3>4, Zenon
  <2>2. ASSUME NEW a, TasksOK(<<a>>), a.kind # "append", tasks' = [tasks EXCEPT ![t] = Append(tasks[t], a)]
        PROVE  \E r : /\ TasksOK(r) /\ \A i \in DOMAIN r : r[i].kind # "append"
                      /\ tasks' = [tasks EXCEPT ![t] = tasks[t] \o r]
    <3>1. tasks[t] \in Seq(ToSet(tasks[t]) \cup {a})
      BY DEF Types, TaskTypes, TasksOK
    <3>2. Append(tasks[t], a) = tasks[t] \o <<a>>
      BY <3>1, ConcatEnds
    <3>3. \A i \in DOMAIN <<a>> : <<a>>[i].kind # "append"
      BY <2>2
    <3>4. QED
      BY <2>2, <3>2, <3>3, Zenon
  <2>3. CASE Clear(t)
    <3>1. TasksOK(<<ClearAll>>) /\ ClearAll.kind # "append"
      BY TaskMade DEF ClearAll
    <3>2. Browser /\ tasks' = [tasks EXCEPT ![t] = Append(tasks[t], ClearAll)]
      BY <2>3, Zenon DEF Clear
    <3>3. QED
      BY <2>2, <3>1, <3>2
  <2>4. CASE Receive(t)
    <3> DEFINE a == DeleteRow(AckReply(core[t]).retired)
    <3>1. TasksOK(<<a>>) /\ a.kind # "append"
      <4>1. a.kind = "delete"
        BY DEF DeleteRow
      <4>2. QED
        BY <4>1, TaskMade
    <3>2. Browser /\ tasks' = [tasks EXCEPT ![t] = Append(tasks[t], a)]
      BY <1>2, <2>4, ReceiveIs DEF ReceiveReply, ReceivePush, ReceiveHuge, Retired
    <3> HIDE DEF a
    <3>3. QED
      BY <2>2, <3>1, <3>2
  <2>5. QED
    BY <2>1, <2>3, <2>4
<1>3. CASE tasks' = tasks
  <2>1. IssuedKept
    BY <1>1 DEF IssuedKept
  <2>2. QED
    BY <1>1, <1>3, <2>1, LogIdle DEF Ready
<1>4. QED
  BY <1>1, <1>2, <1>3, LogBehind

\* A write: its entry is behind the others, and takes the next number.
LEMMA LogWrite ==
    ASSUME Types, LogInv, NEW t \in Tabs, \A u \in Tabs : u = t, BrowserWrite(t)
    PROVE  LogInv'
<1> DEFINE e == NewWrite(t)
           w == Len(issued) + 1
           s == tasks[t]
           r == StoreRow(e)
           a == AppendLog(walSeq[t], w)
           q == s \o r
<1>1. /\ Enqueues(core[t], e, w, e.frame.wire, Connected(t))
      /\ tasks' = [tasks EXCEPT ![t] = s \o r \o <<a>>]
  <2>1. Issues(t) /\ Browser
    BY DEF Issues, BrowserWrite
  <2>2. QED
    BY <2>1, IssueIs
<1>2. /\ UNCHANGED <<phase, idb, journal, scenario>> /\ walSeq' = [walSeq EXCEPT ![t] = @ + 1]
      /\ Browser /\ Ready(t) /\ \E x : issued' = Append(issued, x)
  BY Zenon DEF BrowserWrite, Enqueued, bounds
<1>3. IssuedKept
  BY <1>2, IssuedGrows
<1>4. w \in DOMAIN issued'
  <2> DEFINE R == [client : Clients, key : Keys, ttl : Nat, deadline : Nat]
  <2>1. issued \in Seq(R)
    BY DEF Types, HistoryTypes
  <2> HIDE DEF R
  <2>2. PICK x : issued' = Append(issued, x)
    BY <1>2
  <2>3. issued \in Seq(R \cup {x})
    BY <2>1
  <2>4. QED
    BY <2>2, <2>3
<1>5. walSeq \in [Tabs -> Nat] /\ walSeq' \in [Tabs -> Nat] /\ walSeq'[t] = walSeq[t] + 1
  BY <1>2 DEF LogInv, LogTypes
<1>6. LogTypes' /\ \A k \in Keys : Logged(k)'
  BY <1>2, <1>3, <1>5, LogSame
<1>7. a.kind = "append" /\ a.id = walSeq[t] /\ a.write = w /\ TasksOK(<<a>>)
  BY TaskMade DEF AppendLog
<1> HIDE DEF e, a
<1>8. /\ TasksOK(s) /\ TasksOK(r) /\ TasksOK(q)
      /\ \A i \in Appends(q) : i \in Appends(s) /\ q[i] = s[i]
  <2>1. TasksOK(s)
    BY DEF Types, TaskTypes
  <2>2. e.id \in Nat /\ e.frame \in RowFrame /\ (e.dropped = << >> \/ e.dropped = <<Head(core[t].outbox)>>)
    BY <1>1, CoreFields DEF Enqueues, Types, ClientTypes
  <2>3. TasksOK(r) /\ \A i \in DOMAIN r : r[i].kind # "append"
    BY <2>2, StoreRowType
  <2> HIDE DEF s, r
  <2>4. QED
    BY <2>1, <2>3, TasksAdded, QuietBehind
<1>9. tasks'[t] = q \o <<a>>
  BY <1>1 DEF Types, TaskTypes
<1> HIDE DEF q, r, s
<1>10. /\ Len(q) \in Nat /\ DOMAIN q = 1..Len(q) /\ DOMAIN (q \o <<a>>) = 1..(Len(q) + 1)
       /\ \A i \in 1..Len(q) : (q \o <<a>>)[i] = q[i]
       /\ (q \o <<a>>)[Len(q) + 1] = a
  <2>1. q \in Seq(ToSet(q) \cup {a}) /\ <<a>> \in Seq(ToSet(q) \cup {a}) /\ Len(<<a>>) = 1 /\ <<a>>[1] = a
    BY <1>8 DEF TasksOK
  <2>2. QED
    BY <2>1, ConcatFacts
<1>11. ASSUME NEW i \in Appends(tasks'[t])
       PROVE  \/ i \in Appends(s) /\ i <= Len(q) /\ tasks'[t][i] = s[i]
              \/ i = Len(q) + 1 /\ tasks'[t][i] = a
  <2>1. i \in 1..(Len(q) + 1) /\ (q \o <<a>>)[i].kind = "append"
    BY <1>9, <1>10 DEF Appends
  <2>2. CASE i = Len(q) + 1
    BY <1>9, <1>10, <2>2
  <2>3. CASE i # Len(q) + 1
    <3>1. i \in 1..Len(q)
      BY <1>10, <2>1, <2>3
    <3>2. i \in Appends(q)
      BY <1>10, <2>1, <3>1 DEF Appends
    <3>3. QED
      BY <1>8, <1>9, <1>10, <3>1, <3>2
  <2>4. QED
    BY <2>2, <2>3
<1>12. LogRises(t) /\ s = tasks[t]
  BY <1>2 DEF LogInv, s
<1>13. ASSUME NEW i \in Appends(s)
       PROVE  /\ s[i].id \in Nat /\ s[i].write \in DOMAIN issued /\ s[i].id < walSeq[t]
              /\ \A id \in DOMAIN idb.wal : id < s[i].id
              /\ \A j \in Appends(s) : i < j => s[i].id < s[j].id
  BY <1>12 DEF LogRises
<1>14. (\A id \in DOMAIN idb.wal : id < walSeq[t] /\ id \in Nat) /\ walSeq[t] \in Nat
  BY <1>2, <1>5, <1>12 DEF LogRises, LogInv, LogTypes
<1>15. ASSUME NEW i \in Appends(tasks'[t])
       PROVE  /\ tasks'[t][i].id \in Nat /\ tasks'[t][i].write \in DOMAIN issued'
              /\ tasks'[t][i].id < walSeq'[t]
              /\ \A id \in DOMAIN idb'.wal : id < tasks'[t][i].id
              /\ \A j \in Appends(tasks'[t]) : i < j => tasks'[t][i].id < tasks'[t][j].id
  <2>1. CASE i \in Appends(s) /\ i <= Len(q) /\ tasks'[t][i] = s[i]
    <3>1. /\ s[i].id \in Nat /\ s[i].write \in DOMAIN issued' /\ s[i].id < walSeq[t]
          /\ \A id \in DOMAIN idb.wal : id < s[i].id
      BY <1>3, <1>13, <2>1 DEF IssuedKept
    <3>2. ASSUME NEW j \in Appends(tasks'[t]), i < j PROVE s[i].id < tasks'[t][j].id
      BY <1>7, <1>11, <1>13, <2>1, <3>1, <3>2
    <3>3. s[i].id < walSeq'[t]
      BY <1>5, <1>14, <3>1
    <3>4. QED
      BY <1>2, <2>1, <3>1, <3>2, <3>3
  <2>2. CASE i = Len(q) + 1 /\ tasks'[t][i] = a
    <3>1. \A j \in Appends(tasks'[t]) : j \in 1..(Len(q) + 1)
      BY <1>9, <1>10 DEF Appends
    <3>2. \A j \in Appends(tasks'[t]) : ~(i < j)
      BY <1>10, <2>2, <3>1
    <3>3. QED
      BY <1>2, <1>4, <1>5, <1>7, <1>14, <2>2, <3>2
  <2>3. QED
    BY <1>11, <2>1, <2>2
<1>16. (\A id \in DOMAIN idb'.wal : id < walSeq'[t]) /\ Ready(t)'
  BY <1>2, <1>5, <1>14 DEF Ready
<1>17. LogRises(t)'
  BY <1>15, <1>16 DEF LogRises, Appends
<1>18. Browser'
  BY <1>2 DEF Browser, Setup
<1>19. QED
  BY <1>6, <1>17, <1>18 DEF LogInv

\* What the transaction that commits does to the log.
LEMMA CommitLog ==
    ASSUME Types, NEW t \in Tabs, Commit(t)
    PROVE  LET task == Head(tasks[t])
           IN  /\ tasks[t] # << >> /\ tasks' = [tasks EXCEPT ![t] = Tail(tasks[t])]
               /\ UNCHANGED <<phase, walSeq, scenario, issued>>
               /\ task.kind \in {"put", "delete", "append", "clear"}
               /\ task.kind \in {"put", "delete"} => idb'.wal = idb.wal /\ UNCHANGED journal
               /\ task.kind = "append" =>
                    /\ idb'.wal = With(idb.wal, task.id, Entry(task.id, task.write))
                    /\ journal' = [journal EXCEPT ![issued[task.write].key] = task.write]
               /\ task.kind = "clear" => idb'.wal = << >> /\ journal' = [k \in Keys |-> NoKey]
<1> DEFINE task == Head(tasks[t])
<1>1. /\ tasks[t] # << >> /\ tasks' = [tasks EXCEPT ![t] = Tail(tasks[t])]
      /\ UNCHANGED <<phase, walSeq, scenario, issued>>
  BY Zenon DEF Commit, client, bounds, history
<1>2. TasksOK(tasks[t])
  BY DEF Types, TaskTypes
<1>3. TaskOK(task)
  BY <1>1, <1>2 DEF TasksOK
<1>4. task.kind \in {"put", "delete", "append", "clear"}
  BY <1>3 DEF TaskOK
<1>5. idb = [client |-> idb.client, epoch |-> idb.epoch, rows |-> idb.rows, wal |-> idb.wal]
  BY DEF Types, DiskTypes
<1>6. CASE task.kind = "put"
  <2>1. idb' = [idb EXCEPT !.rows = With(@, task.id, task.frame)] /\ UNCHANGED journal
    BY <1>6 DEF Commit
  <2>2. QED
    BY <1>1, <1>4, <1>5, <1>6, <2>1
<1>7. CASE task.kind = "delete"
  <2>1. idb' = [idb EXCEPT !.rows = Without(@, task.id)] /\ UNCHANGED journal
    BY <1>7 DEF Commit
  <2>2. QED
    BY <1>1, <1>4, <1>5, <1>7, <2>1
<1>8. CASE task.kind = "append"
  <2>1. /\ idb' = [idb EXCEPT !.wal = With(@, task.id, Entry(task.id, task.write))]
        /\ journal' = [journal EXCEPT ![issued[task.write].key] = task.write]
    BY <1>8 DEF Commit
  <2>2. QED
    BY <1>1, <1>4, <1>5, <1>8, <2>1
<1>9. CASE task.kind = "clear"
  <2>1. idb' = [idb EXCEPT !.rows = << >>, !.wal = << >>] /\ journal' = [k \in Keys |-> NoKey]
    BY <1>9 DEF Commit
  <2>2. QED
    BY <1>1, <1>4, <1>5, <1>9, <2>1
<1>10. QED
  BY <1>4, <1>6, <1>7, <1>8, <1>9

\* A log with one more entry, whose number is greater than all others.
LEMMA LogFileGrows ==
    ASSUME NEW wal, LogFile(wal), NEW id \in Nat, \A x \in DOMAIN wal : x < id, NEW c \in LogEntry,
           NEW new, new = With(wal, id, c)
    PROVE  /\ LogFile(new) /\ DOMAIN new = DOMAIN wal \cup {id} /\ new[id] = c
           /\ \A x \in DOMAIN wal : new[x] = wal[x] /\ x # id
           /\ LastIn(new, c.key, id)
           /\ \A k : k # c.key => /\ Missing(wal, k) => Missing(new, k)
                                  /\ \A x : LastIn(wal, k, x) => LastIn(new, k, x)
<1>1. \A x \in DOMAIN wal : x \in Nat /\ x # id /\ x <= id
  BY DEF LogFile
<1>2. DOMAIN new = DOMAIN wal \cup {id} /\ new[id] = c
  BY DEF With
<1>3. \A x \in DOMAIN wal : new[x] = wal[x]
  BY <1>1 DEF With
<1>4. IsFiniteSet(DOMAIN wal \cup {id})
  BY FS_AddElement DEF LogFile
<1>5. new = [x \in DOMAIN new |-> new[x]]
  BY DEF With
<1>6. \A x \in DOMAIN new : new[x] \in LogEntry
  BY <1>2, <1>3 DEF LogFile
<1>7. new \in [DOMAIN new -> LogEntry]
  BY <1>5, <1>6
<1>8. LogFile(new)
  BY <1>1, <1>2, <1>4, <1>7 DEF LogFile
<1>9. LastIn(new, c.key, id)
  BY <1>1, <1>2 DEF LastIn
<1>10. ASSUME NEW k, k # c.key
       PROVE  (Missing(wal, k) => Missing(new, k)) /\ \A x : LastIn(wal, k, x) => LastIn(new, k, x)
  BY <1>2, <1>3, <1>10 DEF Missing, LastIn
<1>11. QED
  BY <1>1, <1>2, <1>3, <1>8, <1>9, <1>10

\* A transaction of the browser's only tab commits.
LEMMA LogCommit ==
    ASSUME Types, LogInv, NEW t \in Tabs, \A u \in Tabs : u = t, Commit(t)
    PROVE  LogInv'
<1> DEFINE s == tasks[t]
           task == Head(s)
<1>1. /\ s # << >> /\ tasks' = [tasks EXCEPT ![t] = Tail(s)]
      /\ UNCHANGED <<phase, walSeq, scenario, issued>>
      /\ task.kind \in {"put", "delete", "append", "clear"}
      /\ task.kind \in {"put", "delete"} => idb'.wal = idb.wal /\ UNCHANGED journal
      /\ task.kind = "append" =>
           /\ idb'.wal = With(idb.wal, task.id, Entry(task.id, task.write))
           /\ journal' = [journal EXCEPT ![issued[task.write].key] = task.write]
      /\ task.kind = "clear" => idb'.wal = << >> /\ journal' = [k \in Keys |-> NoKey]
  BY CommitLog
<1>2. Browser /\ LogRises(t) /\ LogTypes /\ LogFile(idb.wal)
  BY <1>1 DEF LogInv, LogTypes, LogFile
<1>3. Browser' /\ Ready(t) /\ Ready(t)'
  BY <1>1, <1>2 DEF Browser, Setup, Ready, LogRises
<1>4. tasks'[t] = Tail(s) /\ s \in Seq(ToSet(s))
  BY <1>1 DEF Types, TaskTypes, TasksOK
<1>5. IssuedKept /\ walSeq' \in [Tabs -> Nat] /\ walSeq' = walSeq
  BY <1>1, <1>2 DEF IssuedKept, LogTypes
<1> HIDE DEF s
<1>6. /\ Len(s) \in Nat /\ Len(s) >= 1 /\ DOMAIN s = 1..Len(s) /\ s[1] = task /\ DOMAIN Tail(s) = 1..(Len(s) - 1)
      /\ \A i \in 1..(Len(s) - 1) : Tail(s)[i] = s[i + 1]
  BY <1>1, <1>4
<1> HIDE DEF task
<1>7. ASSUME NEW i \in Appends(s)
      PROVE  /\ s[i].id \in Nat /\ s[i].write \in DOMAIN issued /\ s[i].id < walSeq[t]
             /\ \A id \in DOMAIN idb.wal : id < s[i].id
             /\ \A j \in Appends(s) : i < j => s[i].id < s[j].id
  BY <1>2 DEF LogRises, s
<1>8. ASSUME NEW i \in Appends(tasks'[t])
      PROVE  i \in Nat /\ i >= 1 /\ i + 1 \in Appends(s) /\ tasks'[t][i] = s[i + 1]
  <2>1. i \in 1..(Len(s) - 1) /\ Tail(s)[i].kind = "append"
    BY <1>4, <1>6 DEF Appends
  <2>2. i + 1 \in 1..Len(s) /\ Tail(s)[i] = s[i + 1]
    BY <1>6, <2>1
  <2>3. QED
    BY <1>4, <1>6, <2>1, <2>2 DEF Appends
<1>9. SUFFICES /\ LogTypes' /\ \A k \in Keys : Logged(k)'
               /\ \A id \in DOMAIN idb'.wal : id < walSeq[t] /\ \A i \in Appends(tasks'[t]) : id < tasks'[t][i].id
  <2>1. ASSUME NEW i \in Appends(tasks'[t])
        PROVE  /\ tasks'[t][i].id \in Nat /\ tasks'[t][i].write \in DOMAIN issued'
               /\ tasks'[t][i].id < walSeq'[t]
               /\ \A j \in Appends(tasks'[t]) : i < j => tasks'[t][i].id < tasks'[t][j].id
    <3>1. /\ s[i + 1].id \in Nat /\ s[i + 1].write \in DOMAIN issued /\ s[i + 1].id < walSeq[t]
          /\ \A j \in Appends(s) : i + 1 < j => s[i + 1].id < s[j].id
      BY <1>7, <1>8
    <3>2. ASSUME NEW j \in Appends(tasks'[t]), i < j PROVE tasks'[t][i].id < tasks'[t][j].id
      <4>1. j + 1 \in Appends(s) /\ i + 1 < j + 1 /\ tasks'[t][j] = s[j + 1] /\ tasks'[t][i] = s[i + 1]
        BY <1>8, <3>2
      <4>2. QED
        BY <3>1, <4>1
    <3>3. QED
      BY <1>1, <1>5, <1>8, <3>1, <3>2
  <2>2. LogRises(t)'
    BY <1>3, <1>5, <1>9, <2>1 DEF LogRises, Appends
  <2>3. QED
    BY <1>3, <1>9, <2>2 DEF LogInv
<1>10. \A id \in DOMAIN idb.wal : id < walSeq[t] /\ id \in Nat
  BY <1>2, <1>3 DEF LogRises, LogFile
<1>11. CASE task.kind \in {"put", "delete"}
  <2>1. idb'.wal = idb.wal /\ journal' = journal
    BY <1>1, <1>11
  <2>2. LogTypes' /\ \A k \in Keys : Logged(k)'
    BY <1>5, <2>1, LogSame
  <2>3. QED
    BY <1>7, <1>8, <1>10, <2>1, <2>2
<1>12. CASE task.kind = "clear"
  <2>1. idb'.wal = << >> /\ journal' = [k \in Keys |-> NoKey] /\ DOMAIN << >> = {}
    BY <1>1, <1>12
  <2>2. LogTypes'
    <3>1. idb'.wal \in [DOMAIN idb'.wal -> LogEntry] /\ DOMAIN idb'.wal = {}
      BY <2>1
    <3>2. IsFiniteSet(DOMAIN idb'.wal)
      BY <3>1, FS_EmptySet
    <3>3. QED
      BY <1>5, <2>1, <3>1, <3>2 DEF LogTypes
  <2>3. \A k \in Keys : Logged(k)'
    BY <2>1 DEF Logged, Missing
  <2>4. QED
    BY <2>1, <2>2, <2>3
<1>13. CASE task.kind = "append"
  <2> DEFINE w == task.write
             c == Entry(task.id, task.write)
             rec == issued[w]
  <2>1. 1 \in Appends(s)
    BY <1>6, <1>13 DEF Appends
  <2>2. /\ task.id \in Nat /\ w \in DOMAIN issued /\ task.id < walSeq[t]
        /\ \A id \in DOMAIN idb.wal : id < task.id
        /\ \A j \in Appends(s) : 1 < j => task.id < s[j].id
    BY <1>6, <1>7, <2>1
  <2>3. rec.key \in Keys /\ rec.ttl \in Nat /\ w \in Nat
    <3> DEFINE R == [client : Clients, key : Keys, ttl : Nat, deadline : Nat]
    <3>1. issued \in Seq(R)
      BY DEF Types, HistoryTypes
    <3> HIDE DEF R, w
    <3>2. rec \in R /\ w \in Nat
      BY <2>2, <3>1
    <3> HIDE DEF rec
    <3>3. QED
      BY <3>2 DEF R
  <2>4. c \in LogEntry /\ c.key = rec.key /\ c.val = w /\ c.ttl = rec.ttl
    BY <2>3 DEF Entry, LogEntry
  <2>5. idb'.wal = With(idb.wal, task.id, c) /\ journal' = [journal EXCEPT ![rec.key] = w]
    BY <1>1, <1>13
  <2> HIDE DEF c, rec, w
  <2>6. /\ LogFile(idb'.wal) /\ DOMAIN idb'.wal = DOMAIN idb.wal \cup {task.id} /\ idb'.wal[task.id] = c
        /\ \A x \in DOMAIN idb.wal : idb'.wal[x] = idb.wal[x] /\ x # task.id
        /\ LastIn(idb'.wal, c.key, task.id)
        /\ \A k : k # c.key => /\ Missing(idb.wal, k) => Missing(idb'.wal, k)
                               /\ \A x : LastIn(idb.wal, k, x) => LastIn(idb'.wal, k, x)
    <3>1. PICK wal : wal = idb.wal
      OBVIOUS
    <3>2. PICK id : id = task.id
      OBVIOUS
    <3>3. PICK cc : cc = c
      OBVIOUS
    <3>8. PICK new : new = With(wal, id, cc)
      OBVIOUS
    <3>4. LogFile(wal) /\ id \in Nat /\ (\A x \in DOMAIN wal : x < id) /\ cc \in LogEntry
      BY <1>2, <2>2, <2>4, <3>1, <3>2, <3>3
    <3>5. /\ LogFile(new) /\ DOMAIN new = DOMAIN wal \cup {id} /\ new[id] = cc
          /\ \A x \in DOMAIN wal : new[x] = wal[x] /\ x # id
          /\ LastIn(new, cc.key, id)
          /\ \A k : k # cc.key => /\ Missing(wal, k) => Missing(new, k)
                                 /\ \A x : LastIn(wal, k, x) => LastIn(new, k, x)
      BY ONLY <3>4, <3>8, LogFileGrows
    <3>6. idb'.wal = new
      BY <2>5, <3>1, <3>2, <3>3, <3>8
    <3>7. QED
      BY <3>1, <3>2, <3>3, <3>5, <3>6
  <2>7. journal \in [Keys -> (DOMAIN issued) \cup {NoKey}]
    BY <1>2 DEF LogTypes
  <2>8. journal' \in [Keys -> (DOMAIN issued') \cup {NoKey}]
    BY <1>1, <2>2, <2>5, <2>7
  <2>9. ASSUME NEW id \in DOMAIN idb'.wal
        PROVE  idb'.wal[id].val \in DOMAIN issued' /\ (idb'.wal[id].ttl # 0 => issued'[idb'.wal[id].val].ttl # 0)
    <3>1. CASE id = task.id
      BY <1>1, <2>2, <2>4, <2>6, <3>1 DEF rec
    <3>2. CASE id # task.id
      BY <1>1, <1>2, <2>6, <3>2 DEF LogTypes
    <3>3. QED
      BY <3>1, <3>2
  <2>10. LogTypes'
    BY <1>5, <2>6, <2>8, <2>9 DEF LogTypes, LogFile
  <2>11. ASSUME NEW k \in Keys PROVE Logged(k)'
    <3>1. CASE k = c.key
      <4>1. journal'[k] = w
        BY <2>3, <2>4, <2>5, <2>7, <3>1
      <4>2. task.id \in DOMAIN idb'.wal /\ LastIn(idb'.wal, k, task.id) /\ idb'.wal[task.id].val = journal'[k]
        BY <2>4, <2>6, <3>1, <4>1
      <4>3. QED
        BY <4>2, Zenon DEF Logged
    <3>2. CASE k # c.key
      <4>1. journal'[k] = journal[k] /\ Logged(k)
        BY <2>3, <2>4, <2>5, <2>7, <3>2 DEF LogInv
      <4>2. CASE Missing(idb.wal, k) /\ (journal[k] = NoKey \/ issued[journal[k]].ttl # 0)
        BY <1>1, <2>6, <3>2, <4>1, <4>2 DEF Logged
      <4>3. ASSUME NEW id \in DOMAIN idb.wal, LastIn(idb.wal, k, id), idb.wal[id].val = journal[k]
            PROVE  Logged(k)'
        <5>1. id \in DOMAIN idb'.wal /\ LastIn(idb'.wal, k, id) /\ idb'.wal[id].val = journal'[k]
          BY <2>6, <3>2, <4>1, <4>3
        <5>2. QED
          BY <5>1, Zenon DEF Logged
      <4>4. QED
        BY <4>1, <4>2, <4>3 DEF Logged
    <3>3. QED
      BY <3>1, <3>2
  <2>12. ASSUME NEW i \in Appends(tasks'[t]) PROVE task.id < tasks'[t][i].id /\ tasks'[t][i].id \in Nat
    <3>1. i + 1 \in Appends(s) /\ 1 < i + 1 /\ tasks'[t][i] = s[i + 1]
      BY <1>8
    <3>2. QED
      BY <1>7, <2>2, <3>1
  <2>13. ASSUME NEW id \in DOMAIN idb'.wal
         PROVE  id < walSeq[t] /\ \A i \in Appends(tasks'[t]) : id < tasks'[t][i].id
    <3>1. CASE id = task.id
      BY <2>2, <2>12, <3>1
    <3>2. CASE id # task.id
      <4>1. id \in DOMAIN idb.wal
        BY <2>6, <3>2
      <4>2. QED
        BY <1>7, <1>8, <1>10, <4>1
    <3>3. QED
      BY <3>1, <3>2
  <2>14. QED
    BY <2>10, <2>11, <2>13
<1>14. QED
  BY <1>1, <1>11, <1>12, <1>13

\* The log after a compaction: the last entries, numbered from 0.
Compacted(wal) ==
    LET s == SnapshotCommands(Hydrate(InOrder(wal)))
    IN  [i \in 0..(Len(s) - 1) |-> s[i + 1]]

\* Every entry of it is the last one of its key in the log before it; what is missing says
\* nothing, or may have expired.
LEMMA CompactedIs ==
    ASSUME clock \in Nat, NEW wal, LogFile(wal), NEW n, n = Len(SnapshotCommands(Hydrate(InOrder(wal)))),
           NEW new, new = Compacted(wal)
    PROVE  /\ n \in Nat /\ LogFile(new) /\ DOMAIN new = 0..(n - 1)
           /\ \A i \in DOMAIN new :
                /\ LastIn(new, new[i].key, i)
                /\ \E id \in DOMAIN wal : /\ LastIn(wal, new[i].key, id) /\ new[i].val = wal[id].val
                                          /\ new[i].ttl # 0 => wal[id].ttl # 0
           /\ \A k \in Keys : Missing(new, k) =>
                \/ Missing(wal, k)
                \/ \E id \in DOMAIN wal :
                     LastIn(wal, k, id) /\ (wal[id].val = NoKey \/ wal[id].ttl # 0)
<1>1. PICK s : s = SnapshotCommands(Hydrate(InOrder(wal)))
  OBVIOUS
<1>2. /\ Len(s) \in Nat /\ s \in Seq(LogEntry)
      /\ \A i \in 1..Len(s) : \E id \in DOMAIN wal :
           /\ LastIn(wal, s[i].key, id) /\ s[i].val = wal[id].val
           /\ s[i].ttl # 0 => wal[id].ttl # 0
      /\ \A i, j \in 1..Len(s) : s[i].key = s[j].key => i = j
      /\ \A k \in Keys : (\A i \in 1..Len(s) : s[i].key # k) =>
           \/ Missing(wal, k)
           \/ \E id \in DOMAIN wal :
                LastIn(wal, k, id) /\ (wal[id].val = NoKey \/ wal[id].ttl # 0)
  BY <1>1, SnapshotIs
<1>3. n = Len(s) /\ new = [i \in 0..(n - 1) |-> s[i + 1]]
  BY <1>1 DEF Compacted
<1>4. /\ n \in Nat /\ DOMAIN new = 0..(n - 1)
      /\ \A i \in 0..(n - 1) : i + 1 \in 1..n /\ i \in Nat /\ new[i] = s[i + 1]
  BY <1>2, <1>3
<1>5. LogFile(new)
  <2>1. new \in [0..(n - 1) -> LogEntry]
    BY <1>2, <1>3, <1>4
  <2>2. IsFiniteSet(0..(n - 1))
    BY <1>4, FS_Interval
  <2>3. QED
    BY <1>4, <2>1, <2>2 DEF LogFile
<1>6. ASSUME NEW i \in DOMAIN new PROVE LastIn(new, new[i].key, i)
  <2>1. \A j \in DOMAIN new : new[j].key = new[i].key => j = i
    <3>1. ASSUME NEW j \in DOMAIN new, new[j].key = new[i].key PROVE j = i
      <4>1. j + 1 = i + 1 /\ i \in Nat /\ j \in Nat
        BY <1>2, <1>3, <1>4, <3>1
      <4>2. QED
        BY <4>1
    <3>2. QED
      BY <3>1
  <2>2. i \in Nat
    BY <1>4
  <2>3. QED
    BY <2>1, <2>2 DEF LastIn
<1>7. ASSUME NEW i \in DOMAIN new
      PROVE  \E id \in DOMAIN wal : /\ LastIn(wal, new[i].key, id) /\ new[i].val = wal[id].val
                                    /\ new[i].ttl # 0 => wal[id].ttl # 0
  <2>1. i + 1 \in 1..Len(s) /\ new[i] = s[i + 1]
    BY <1>3, <1>4
  <2>2. QED
    BY <1>2, <2>1
<1>8. ASSUME NEW k \in Keys, Missing(new, k)
      PROVE  \/ Missing(wal, k)
             \/ \E id \in DOMAIN wal : LastIn(wal, k, id) /\ (wal[id].val = NoKey \/ wal[id].ttl # 0)
  <2>1. ASSUME NEW i \in 1..Len(s) PROVE s[i].key # k
    <3>1. i - 1 \in DOMAIN new /\ i - 1 + 1 = i
      BY <1>3, <1>4
    <3>2. new[i - 1] = s[i]
      BY <1>4, <3>1
    <3>3. QED
      BY <1>8, <3>1, <3>2 DEF Missing
  <2>2. QED
    BY <1>2, <2>1
<1>9. QED
  BY <1>4, <1>5, <1>6, <1>7, <1>8

\* The greatest number of a log.
TopOf(D) == CHOOSE x \in D : \A r \in D : r <= x

\* It is not less than any.
LEMMA TopIs ==
    ASSUME NEW wal, LogFile(wal), NEW log, log = InOrder(wal), NEW D, D = DOMAIN wal,
           NEW top, top = TopOf(D)
    PROVE  IF log = << >> THEN D = {} ELSE top \in Nat /\ \A r \in D : r <= top
<1> DEFINE n == Cardinality(D)
<1>1. n \in Nat /\ \A i \in 1..n : Nth(D, i) \in D
  BY NthExists DEF LogFile
<1>2. /\ \A i, j \in 1..n : i < j => Nth(D, i) < Nth(D, j)
      /\ \A id \in D : \E i \in 1..n : Nth(D, i) = id
  BY NthOrder DEF LogFile
<1>3. Len(log) = n /\ log \in Seq(LogEntry)
  BY <1>1, InOrderType DEF InOrder, LogFile
<1>4. \A x \in D : x \in Nat
  BY DEF LogFile
<1> HIDE DEF n
<1>5. CASE log = << >>
  <2>1. n = 0
    BY <1>3, <1>5
  <2>2. \A i \in 1..n : FALSE
    BY <2>1
  <2>3. D = {}
    BY <1>2, <2>2
  <2>4. QED
    BY <1>5, <2>3
<1>6. CASE log # << >>
  <2>1. n \in 1..n
    BY <1>1, <1>3, <1>6
  <2>2. ASSUME NEW r \in D PROVE r <= Nth(D, n)
    <3>1. PICK i \in 1..n : Nth(D, i) = r
      BY <1>2
    <3>2. CASE i = n
      BY <1>4, <3>1, <3>2
    <3>3. CASE i # n
      <4>1. i < n
        BY <1>1, <3>3
      <4>2. Nth(D, i) < Nth(D, n)
        BY <1>2, <2>1, <4>1
      <4>3. r < Nth(D, n) /\ Nth(D, n) \in Nat /\ r \in Nat
        BY <1>1, <1>4, <2>1, <3>1, <4>2
      <4>4. QED
        BY <4>3
    <3>4. QED
      BY <3>2, <3>3
  <2>3. \E x \in D : \A r \in D : r <= x
    BY <1>1, <2>1, <2>2
  <2>4. top \in D /\ \A r \in D : r <= top
    BY <2>3 DEF TopOf
  <2>5. QED
    BY <1>4, <1>6, <2>4
<1>7. QED
  BY <1>5, <1>6

\* What reading the log does to it.
LEMMA ReplayLogIs ==
    ASSUME Types, LogTypes, NEW t \in Tabs, ReplayLog(t), NEW wal, wal = idb.wal
    PROVE  /\ UNCHANGED <<tasks, journal, scenario, issued>>
           /\ phase' = [phase EXCEPT ![t] = "ready"] /\ phase[t] = "log"
           /\ \/ /\ idb'.wal = Compacted(wal)
                 /\ walSeq' = [walSeq EXCEPT ![t] = Len(SnapshotCommands(Hydrate(InOrder(wal))))]
              \/ /\ idb'.wal = wal
                 /\ walSeq' = [walSeq EXCEPT ![t] = IF InOrder(wal) = << >> THEN 0
                                                    ELSE TopOf(DOMAIN wal) + 1]
<1>1. /\ UNCHANGED <<tasks, journal, scenario, issued>>
      /\ phase' = [phase EXCEPT ![t] = "ready"] /\ phase[t] = "log"
  BY Zenon DEF ReplayLog, bounds, history
<1>2. \/ /\ idb' = [idb EXCEPT !.wal = Compacted(idb.wal)]
         /\ walSeq' = [walSeq EXCEPT ![t] = Len(SnapshotCommands(Hydrate(InOrder(idb.wal))))]
      \/ /\ idb' = idb
         /\ walSeq' = [walSeq EXCEPT ![t] = IF InOrder(idb.wal) = << >> THEN 0
                         ELSE TopOf(DOMAIN idb.wal) + 1]
  BY Zenon DEF ReplayLog, Compacted, TopOf
<1>3. ASSUME NEW new, idb' = [idb EXCEPT !.wal = new] PROVE idb'.wal = new
  BY <1>3 DEF Types, DiskTypes
<1>4. CASE idb' = idb
  BY <1>1, <1>2, <1>3, <1>4, Zenon
<1>5. QED
  BY <1>1, <1>2, <1>3, Zenon

\* The log is read: the store has what it says, and the next entry comes behind it.
LEMMA LogReplay ==
    ASSUME Types, LogInv, Alone, NEW t \in Tabs, ReplayLog(t)
    PROVE  LogInv'
<1>1. PICK wal : wal = idb.wal
  OBVIOUS
<1>2. LogTypes /\ LogFile(wal) /\ clock \in Nat /\ walSeq \in [Tabs -> Nat] /\ \A x \in DOMAIN wal : x \in Nat
  BY <1>1 DEF LogInv, LogTypes, LogFile, Types, HistoryTypes
<1>3. /\ UNCHANGED <<tasks, journal, scenario, issued>>
      /\ phase' = [phase EXCEPT ![t] = "ready"] /\ phase[t] = "log"
      /\ \/ /\ idb'.wal = Compacted(wal)
            /\ walSeq' = [walSeq EXCEPT ![t] = Len(SnapshotCommands(Hydrate(InOrder(wal))))]
         \/ /\ idb'.wal = wal
            /\ walSeq' = [walSeq EXCEPT ![t] = IF InOrder(wal) = << >> THEN 0
                                               ELSE TopOf(DOMAIN wal) + 1]
  BY <1>1, <1>2, ReplayLogIs
<1>4. (Browser' <=> Browser) /\ ~Ready(t) /\ IssuedKept
  BY <1>3 DEF Browser, Setup, Ready, IssuedKept
<1>5. ASSUME Browser PROVE (\A u \in Tabs : u = t) /\ tasks'[t] = << >>
  BY <1>3, <1>4, <1>5 DEF LogInv, LogRises, Alone
<1>6. SUFFICES ASSUME TRUE
               PROVE  /\ LogTypes' /\ \A k \in Keys : Logged(k)'
                      /\ \A id \in DOMAIN idb'.wal : id < walSeq'[t]
                      /\ ~Browser => idb'.wal = << >>
  <2>1. CASE Browser
    <3>1. LogRises(t)'
      BY <1>5, <1>6, <2>1 DEF LogRises, Appends
    <3>2. QED
      BY <1>4, <1>5, <1>6, <2>1, <3>1 DEF LogInv
  <2>2. CASE ~Browser
    BY <1>3, <1>4, <1>6, <2>2 DEF LogInv
  <2>3. QED
    BY <2>1, <2>2
<1>7. ASSUME ~Browser PROVE wal = << >>
  BY <1>1, <1>7 DEF LogInv
<1>8. CASE /\ idb'.wal = wal
           /\ walSeq' = [walSeq EXCEPT ![t] = IF InOrder(wal) = << >> THEN 0
                                              ELSE TopOf(DOMAIN wal) + 1]
  <2>1. PICK log : log = InOrder(wal)
    OBVIOUS
  <2>2. PICK D : D = DOMAIN wal
    OBVIOUS
  <2>3. PICK top : top = TopOf(D)
    OBVIOUS
  <2>4. walSeq' = [walSeq EXCEPT ![t] = IF log = << >> THEN 0 ELSE top + 1]
    BY <1>8, <2>1, <2>2, <2>3
  <2>5. IF log = << >> THEN D = {} ELSE top \in Nat /\ \A r \in D : r <= top
    BY <1>2, <2>1, <2>2, <2>3, TopIs
  <2>6. walSeq'[t] = (IF log = << >> THEN 0 ELSE top + 1) /\ walSeq' \in [Tabs -> Nat]
    BY <1>2, <2>4, <2>5
  <2>7. \A id \in DOMAIN idb'.wal : id < walSeq'[t]
    BY <1>2, <1>8, <2>2, <2>5, <2>6
  <2>8. LogTypes' /\ \A k \in Keys : Logged(k)'
    BY <1>1, <1>3, <1>4, <1>8, <2>6, LogSame
  <2>9. QED
    BY <1>7, <1>8, <2>7, <2>8
<1>9. CASE /\ idb'.wal = Compacted(wal)
           /\ walSeq' = [walSeq EXCEPT ![t] = Len(SnapshotCommands(Hydrate(InOrder(wal))))]
  <2>1. PICK n : n = Len(SnapshotCommands(Hydrate(InOrder(wal))))
    OBVIOUS
  <2>2. PICK new : new = Compacted(wal)
    OBVIOUS
  <2>3. /\ n \in Nat /\ LogFile(new) /\ DOMAIN new = 0..(n - 1)
        /\ \A i \in DOMAIN new :
             /\ LastIn(new, new[i].key, i)
             /\ \E id \in DOMAIN wal : /\ LastIn(wal, new[i].key, id) /\ new[i].val = wal[id].val
                                       /\ new[i].ttl # 0 => wal[id].ttl # 0
        /\ \A k \in Keys : Missing(new, k) =>
             \/ Missing(wal, k)
             \/ \E id \in DOMAIN wal :
                  LastIn(wal, k, id) /\ (wal[id].val = NoKey \/ wal[id].ttl # 0)
    BY <1>2, <2>1, <2>2, CompactedIs
  <2>4. idb'.wal = new /\ walSeq' = [walSeq EXCEPT ![t] = n]
    BY <1>9, <2>1, <2>2, Zenon
  <2>5. walSeq' \in [Tabs -> Nat] /\ walSeq'[t] = n
    BY <1>2, <2>3, <2>4
  <2>6. \A id \in DOMAIN idb'.wal : id < walSeq'[t]
    BY <2>3, <2>4, <2>5
  <2>7. ~Browser => idb'.wal = << >>
    <3>1. ASSUME ~Browser PROVE new = << >>
      <4>1. \A i \in DOMAIN new : FALSE
        BY <1>7, <2>3, <3>1
      <4>2. n = 0
        <5>1. n > 0 => 0 \in DOMAIN new
          BY <2>3
        <5>2. n \in Nat /\ ~(n > 0)
          BY <2>3, <4>1, <5>1
        <5>3. QED
          BY <5>2
      <4>3. new \in [1..0 -> LogEntry]
        BY <2>3, <4>2 DEF LogFile
      <4>4. QED
        BY <4>3
    <3>2. QED
      BY <2>4, <3>1
  <2>8. ASSUME NEW i \in DOMAIN new
        PROVE  new[i].val \in DOMAIN issued' /\ (new[i].ttl # 0 => issued'[new[i].val].ttl # 0)
    BY <1>1, <1>2, <1>3, <2>3 DEF LogTypes
  <2>9. LogTypes'
    BY <1>2, <1>3, <2>3, <2>4, <2>5, <2>8 DEF LogTypes, LogFile
  <2>10. ASSUME NEW k \in Keys, NEW id, LastIn(wal, k, id)
         PROVE  id \in DOMAIN wal /\ wal[id].val = journal[k] /\ (wal[id].ttl # 0 => issued[journal[k]].ttl # 0)
    <3>1. Logged(k) /\ ~Missing(wal, k) /\ id \in DOMAIN wal
      BY <2>10 DEF LogInv, LastIn, Missing
    <3>2. PICK a \in DOMAIN wal : LastIn(wal, k, a) /\ wal[a].val = journal[k]
      BY <1>1, <3>1 DEF Logged
    <3>3. a = id
      BY <1>2, <2>10, <3>2, OneLast
    <3>4. QED
      BY <1>1, <1>2, <3>1, <3>2, <3>3 DEF LogTypes
  <2>11. ASSUME NEW k \in Keys PROVE Logged(k)'
    <3>1. CASE Missing(new, k)
      <4>1. Missing(wal, k) => journal[k] = NoKey \/ issued[journal[k]].ttl # 0
        <5>1. Missing(wal, k) => \A id \in DOMAIN wal : ~LastIn(wal, k, id)
          BY DEF Missing, LastIn
        <5>2. Logged(k)
          BY DEF LogInv
        <5>3. QED
          BY <1>1, <5>1, <5>2 DEF Logged
      <4>2. journal[k] = NoKey \/ issued[journal[k]].ttl # 0
        BY <2>3, <2>10, <3>1, <4>1
      <4>3. QED
        BY <1>3, <2>4, <3>1, <4>2 DEF Logged
    <3>2. CASE ~Missing(new, k)
      <4>1. PICK i \in DOMAIN new : new[i].key = k
        BY <3>2 DEF Missing
      <4>2. LastIn(new, k, i) /\ new[i].val = journal[k]
        BY <2>3, <2>10, <4>1
      <4>3. i \in DOMAIN idb'.wal /\ LastIn(idb'.wal, k, i) /\ idb'.wal[i].val = journal'[k]
        BY <1>3, <2>4, <4>1, <4>2
      <4>4. QED
        BY <4>3, Zenon DEF Logged
    <3>3. QED
      BY <3>1, <3>2
  <2>12. QED
    BY <2>6, <2>7, <2>9, <2>11
<1>10. QED
  BY <1>3, <1>8, <1>9

\* Every step keeps LogInv.
LEMMA LogStep ==
    ASSUME Alone, Types, SocketsOK, LogInv, [Next]_vars
    PROVE  LogInv'
<1>1. ASSUME NEW t \in Tabs, Browser PROVE \A u \in Tabs : u = t
  BY <1>1 DEF Alone
<1>2. \A t \in Tabs : Begins(t) \/ Settles(t) \/ RestoreRows(t) \/ ReplaceRows(t) => LogInv'
  BY LogStart
<1>3. \A t \in Tabs : ReplayLog(t) \/ Crash(t) \/ EmbedWrite(t) => LogInv'
  BY LogReplay, LogCrash, LogEmbed
<1>4. \A t \in Tabs : BrowserSubscribe(t) \/ Clear(t) \/ Receive(t) => LogInv'
  BY LogRows
<1>5. ASSUME NEW t \in Tabs, BrowserWrite(t) PROVE LogInv'
  <2>1. Browser
    BY <1>5 DEF BrowserWrite
  <2>2. QED
    BY <1>1, <1>5, <2>1, LogWrite
<1>6. ASSUME NEW t \in Tabs, Commit(t) PROVE LogInv'
  <2>1. tasks[t] # << >>
    BY <1>6 DEF Commit
  <2>2. Browser
    BY <2>1 DEF LogInv
  <2>3. QED
    BY <1>1, <1>6, <2>2, LogCommit
<1>7. (\/ \E t \in Tabs : Connect(t) \/ Close(t) \/ Commands(t)
       \/ \E n \in DOMAIN up : Serve(n) \/ Push(n) \/ Overgrow(n)
       \/ Refuse \/ Tick \/ UNCHANGED vars) => LogInv'
  BY LogElsewhere
<1>8. \/ \E t \in Tabs : \/ (Opened(t, "identity") /\ Browser) \/ (Opened(t, "ready") /\ ~Browser)
                         \/ AdoptIdentity(t) \/ ReadEpoch(t) \/ BumpEpoch(t) \/ RestoreRows(t)
                         \/ ReplaceRows(t) \/ ReplayLog(t) \/ Crash(t) \/ Connect(t)
                         \/ Close(t) \/ BrowserWrite(t) \/ EmbedWrite(t)
                         \/ Read(t) \/ Query(t) \/ Unquery(t)
                         \/ BrowserSubscribe(t) \/ EmbedSubscribe(t) \/ Clear(t)
                         \/ Receive(t) \/ Commit(t)
      \/ \E n \in DOMAIN up : Serve(n) \/ Push(n) \/ Overgrow(n)
      \/ Refuse \/ Tick \/ UNCHANGED vars
  BY Steps
<1>9. QED
  BY <1>2, <1>3, <1>4, <1>5, <1>6, <1>7, <1>8, Zenon DEF Begins, Settles, Commands

\* The log is empty at first, and nothing is on its way to it.
LEMMA LogInit ==
    Init => LogInv
<1> SUFFICES ASSUME Init PROVE LogInv
  OBVIOUS
<1>1. /\ phase = [t \in Tabs |-> "closed"] /\ tasks = [t \in Tabs |-> << >>] /\ idb.wal = << >>
      /\ journal = [k \in Keys |-> NoKey] /\ walSeq = [t \in Tabs |-> 0]
  BY DEF Init
<1>2. idb.wal \in [DOMAIN idb.wal -> LogEntry] /\ DOMAIN idb.wal = {}
  BY <1>1
<1>3. LogTypes
  <2>1. IsFiniteSet(DOMAIN idb.wal)
    BY <1>2, FS_EmptySet
  <2>2. QED
    BY <1>1, <1>2, <2>1 DEF LogTypes
<1>4. \A k \in Keys : Logged(k)
  BY <1>1, <1>2 DEF Logged, Missing
<1>5. \A t \in Tabs : LogRises(t)
  BY <1>1, <1>2 DEF LogRises, Appends, Ready
<1>6. QED
  BY <1>1, <1>3, <1>4, <1>5 DEF LogInv

\* LogKeepsWrites: what a reload would read from the log of an origin is, for every key, the last
\* write of it whose entry reached the disk, or nothing when that write has a lifetime, which a
\* compaction may have found run out: through appends, sign-outs, crashes at any place between
\* them, and compactions (persist_cmd and enable_persistence).  One tab at a time uses an origin:
\* two tabs that start from the same log give their entries the same numbers.
THEOREM LogBringsWritesBack ==
    ASSUME OneTab
    PROVE  Spec => []LogKeepsWrites
<1>1. Init => Types /\ SocketsOK /\ LogInv
  BY TypesInit, LogInit
<1>2. Types /\ SocketsOK /\ LogInv /\ [Next]_vars => (Types /\ SocketsOK /\ LogInv)'
  BY TypesStep, LogStep, OneTabAlone
<1>3. Types /\ LogInv => LogKeepsWrites
  BY LogSaysIt
<1>4. QED
  BY <1>1, <1>2, <1>3, PTL DEF Spec
=============================================================================
