-------------------------- MODULE EdgeClientFate ----------------------------
(***************************************************************************)
(* No write is lost silently, and a caller is told the truth: NoSilentLoss *)
(* and ToldTruth.  The server takes the writes of a client in the order of *)
(* their wire ids, so that one below its mark is over; a row leaves the    *)
(* outbox or the disk only when its write is over, dropped, cleared or     *)
(* lost; and an answer is about the row its slot stands for.               *)
(***************************************************************************)
EXTENDS EdgeClientWire

-----------------------------------------------------------------------------
(* What becomes of the writes *)

Fates == Answers \cup {"heard", "dropped", "cleared", "lost"}
Tidings == Answers \cup {"waits", "nobody", "disconnected"}

\* What is known of a write stays known.
Grows ==
    /\ scenario' = scenario
    /\ \A w \in DOMAIN fate : w \in DOMAIN fate' /\ fate[w] \subseteq fate'[w]

\* So that one that is over stays over, and one that its client is done with stays so.
LEMMA OverGrows ==
    ASSUME Grows
    PROVE  \A w \in DOMAIN fate : /\ Over(w) => Over(w)'
                                  /\ Closed(w) => Closed(w)'
                                  /\ Done(w) => Done(w)'
<1>1. Ends' = Ends
  BY DEF Grows, Ends, Browser, Setup
<1>2. ASSUME NEW w \in DOMAIN fate PROVE fate[w] \subseteq fate'[w]
  BY DEF Grows
<1>3. \A w \in DOMAIN fate : Over(w) => Over(w)'
  BY <1>1, <1>2 DEF Over
<1>4. \A w \in DOMAIN fate : Closed(w) => Closed(w)'
  BY <1>2 DEF Closed, Settled, Misled
<1>5. QED
  BY <1>3, <1>4 DEF Done

\* Noting what became of some writes.
LEMMA MarkIs ==
    ASSUME FateTypes, NEW K, NEW what \in Fates
    PROVE  LET r == Mark(K, what)
           IN  /\ r \in Seq(SUBSET Fates) /\ Len(r) = Len(fate) /\ DOMAIN r = DOMAIN fate
               /\ \A w \in DOMAIN fate : /\ fate[w] \subseteq r[w]
                                         /\ w \in K => what \in r[w]
                                         /\ r[w] \subseteq fate[w] \cup {what}
<1> DEFINE n == Len(fate)
           r == Mark(K, what)
<1>1. fate \in Seq(SUBSET Fates) /\ n \in Nat /\ DOMAIN fate = 1..n
  BY DEF FateTypes, Fates
<1>2. r = [w \in 1..n |-> IF w \in K THEN fate[w] \cup {what} ELSE fate[w]]
  BY <1>1 DEF Mark
<1>3. \A w \in 1..n : fate[w] \subseteq Fates
  BY <1>1
<1> HIDE DEF r, n
<1>4. DOMAIN r = 1..n /\ \A w \in 1..n : r[w] = IF w \in K THEN fate[w] \cup {what} ELSE fate[w]
  BY <1>2
<1>5. \A w \in 1..n : r[w] \in SUBSET Fates
  BY <1>3, <1>4
<1>6. r \in Seq(SUBSET Fates) /\ Len(r) = n
  BY <1>1, <1>2, <1>4, <1>5
<1>7. QED
  BY <1>1, <1>4, <1>6 DEF r, n

\* Telling some callers something.
LEMMA TellIs ==
    ASSUME FateTypes, NEW K, NEW what \in Tidings
    PROVE  LET r == Tell(K, what)
           IN  /\ r \in Seq(Tidings) /\ Len(r) = Len(told) /\ DOMAIN r = DOMAIN told
               /\ \A w \in DOMAIN told : r[w] = IF w \in K THEN what ELSE told[w]
<1> DEFINE n == Len(told)
           r == Tell(K, what)
<1>1. told \in Seq(Tidings) /\ n \in Nat /\ DOMAIN told = 1..n
  BY DEF FateTypes, Tidings
<1>2. r = [w \in 1..n |-> IF w \in K THEN what ELSE told[w]]
  BY <1>1 DEF Tell
<1>3. \A w \in 1..n : told[w] \in Tidings
  BY <1>1
<1> HIDE DEF r, n
<1>4. DOMAIN r = 1..n /\ \A w \in 1..n : r[w] = IF w \in K THEN what ELSE told[w]
  BY <1>2
<1>5. r \in Seq(Tidings) /\ Len(r) = n
  BY <1>1, <1>2, <1>3, <1>4
<1>6. QED
  BY <1>1, <1>4, <1>5 DEF r, n

\* Nothing new is known.
LEMMA FateSame ==
    ASSUME FateTypes, UNCHANGED <<scenario, issued, fate>>, told' \in Seq(Tidings), Len(told') = Len(told)
    PROVE  FateTypes' /\ Grows
<1>1. FateTypes'
  BY DEF FateTypes, Tidings
<1>2. QED
  BY <1>1 DEF Grows

\* Something became of some writes.
LEMMA FateMarked ==
    ASSUME FateTypes, NEW K, NEW what \in Fates, fate' = Mark(K, what), UNCHANGED <<scenario, issued>>,
           told' \in Seq(Tidings), Len(told') = Len(told)
    PROVE  FateTypes' /\ Grows
<1> DEFINE r == Mark(K, what)
<1>1. /\ r \in Seq(SUBSET Fates) /\ Len(r) = Len(fate) /\ DOMAIN r = DOMAIN fate
      /\ \A w \in DOMAIN fate : fate[w] \subseteq r[w]
  BY MarkIs
<1>2. fate' = r
  OBVIOUS
<1> HIDE DEF r
<1>3. FateTypes'
  BY <1>1, <1>2 DEF FateTypes, Fates, Tidings
<1>4. QED
  BY <1>1, <1>2, <1>3 DEF Grows

\* A write is issued.
LEMMA FateIssued ==
    ASSUME Types, FateTypes, NEW t \in Tabs, Issues(t)
    PROVE  /\ FateTypes' /\ Grows
           /\ fate' = Append(NoteDropped(NewWrite(t)), {}) /\ Len(NoteDropped(NewWrite(t))) = Len(issued)
<1> DEFINE r == NoteDropped(NewWrite(t))
           n == Len(fate)
           s == Append(r, {})
<1>1. /\ fate' = s /\ Len(issued') = Len(issued) + 1 /\ scenario' = scenario
  BY IssueIs
<1>2. PICK a \in {"nobody", "waits", "disconnected"} : told' = Append(told, a)
  BY IssueIs
<1>3. /\ r \in Seq(SUBSET Fates) /\ Len(r) = n /\ DOMAIN r = DOMAIN fate
      /\ \A w \in DOMAIN fate : fate[w] \subseteq r[w]
  BY MarkIs DEF NoteDropped, Fates
<1> HIDE DEF r
<1>4. /\ s \in Seq(SUBSET Fates) /\ Len(s) = n + 1 /\ DOMAIN s = 1..(n + 1) /\ n \in Nat
      /\ DOMAIN fate = 1..n /\ \A w \in 1..n : s[w] = r[w]
  BY <1>3 DEF FateTypes
<1>5. told' \in Seq(Tidings) /\ Len(told') = Len(told) + 1
  BY <1>2 DEF FateTypes, Tidings
<1> HIDE DEF s, n
<1>6. FateTypes'
  BY <1>1, <1>4, <1>5 DEF FateTypes, Tidings, Fates, n
<1>7. Grows
  <2> SUFFICES ASSUME NEW w \in DOMAIN fate PROVE w \in DOMAIN fate' /\ fate[w] \subseteq fate'[w]
    BY <1>1 DEF Grows
  <2>1. w \in 1..n /\ w \in 1..(n + 1)
    BY <1>4
  <2>2. QED
    BY <1>1, <1>3, <1>4, <2>1
<1>8. QED
  BY <1>1, <1>3, <1>6, <1>7 DEF r, s, n, FateTypes

\* Every step says what becomes of the writes it is about, and takes nothing back.
LEMMA FateStep ==
    ASSUME Types, SocketsOK, FateTypes, [Next]_vars
    PROVE  FateTypes' /\ Grows
<1> DEFINE OK == FateTypes' /\ Grows
<1>1. told \in Seq(Tidings)
  BY DEF FateTypes, Tidings
<1>2. UNCHANGED <<scenario, issued, fate, told>> => OK
  BY <1>1, FateSame
<1>3. ASSUME NEW t \in Tabs, Issues(t) PROVE OK
  BY <1>3, FateIssued
<1>4. ASSUME NEW t \in Tabs, Begins(t) \/ Settles(t) \/ RestoreRows(t) \/ ReplaceRows(t) \/ ReplayLog(t)
      PROVE  OK
  <2>1. UNCHANGED <<scenario, issued, fate, told>>
    BY <1>4, Zenon DEF Begins, Opened, Settles, AdoptIdentity, ReadEpoch, BumpEpoch, RestoreRows, ReplaceRows,
                ReplayLog, bounds, history
  <2>2. QED
    BY <1>2, <2>1
<1>5. ASSUME NEW t \in Tabs, Crash(t) PROVE OK
  <2>1. /\ fate' = Mark(WritesOf(core[t].outbox) \ Durable, "lost")
        /\ UNCHANGED <<scenario, issued, told>>
    BY <1>5 DEF Crash
  <2>2. QED
    BY <1>1, <2>1, FateMarked DEF Fates
<1>6. ASSUME NEW t \in Tabs, Clear(t) PROVE OK
  <2>1. /\ fate' = Mark(WritesOf(core[t].outbox), "cleared")
        /\ UNCHANGED <<scenario, issued, told>>
    BY <1>6 DEF Clear
  <2>2. QED
    BY <1>1, <2>1, FateMarked DEF Fates
<1>7. ASSUME NEW t \in Tabs, BrowserSubscribe(t) PROVE OK
  <2> DEFINE e == EnqueueWrite(core[t], "subscribe", None, FALSE, Connected(t))
  <2>1. fate' = NoteDropped(e) /\ UNCHANGED <<scenario, issued, told>>
    BY <1>7, SubscribeIs DEF BrowserSubscribe
  <2> HIDE DEF e
  <2>2. QED
    BY <1>1, <2>1, FateMarked DEF Fates, NoteDropped
<1>8. ASSUME NEW t \in Tabs, HangUp(t), UNCHANGED <<scenario, issued, fate>> PROVE OK
  <2>1. told' = Tell(Awaiting(t), "disconnected")
    BY <1>8 DEF HangUp
  <2>2. told' \in Seq(Tidings) /\ Len(told') = Len(told)
    BY <2>1, TellIs DEF Tidings
  <2>3. QED
    BY <1>8, <2>2, FateSame
<1>9. ASSUME NEW t \in Tabs, Close(t) PROVE OK
  BY <1>8, <1>9 DEF Close
<1>10. ASSUME NEW t \in Tabs, Receive(t) PROVE OK
  <2> DEFINE m == Head(down[conn[t]])
  <2>1. /\ UNCHANGED <<scenario, issued>> /\ Connected(t) /\ down[conn[t]] # << >> /\ fate' = Heard(m)
        /\ ReceiveReply(t) \/ ReceivePush(t) \/ ReceiveHuge(t)
    BY <1>10, ReceiveIs
  <2>2. told' \in Seq(Tidings) /\ Len(told') = Len(told)
    <3>1. CASE ReceivePush(t)
      BY <1>1, <3>1 DEF ReceivePush
    <3>2. CASE ReceiveHuge(t)
      <4>1. told' = Tell(Awaiting(t), "disconnected")
        BY <3>2 DEF ReceiveHuge, HangUp
      <4>2. QED
        BY <4>1, TellIs DEF Tidings
    <3>3. CASE ReceiveReply(t)
      <4>1. m \in Message
        <5>1. down[conn[t]] \in Seq(Message)
          BY <2>1 DEF SocketsOK, Types, NetworkTypes
        <5>2. QED
          BY <2>1, <5>1
      <4>2. m.kind = "reply" /\ Answered(t, m.answer)
        BY <3>3, Zenon DEF ReceiveReply
      <4>3. m.answer \in Tidings
        BY <4>1, <4>2 DEF Message, Tidings
      <4>4. told' = told \/ told' = Tell({Head(waiters[t])}, m.answer)
        BY <4>2 DEF Answered
      <4> HIDE DEF m
      <4>5. QED
        BY <1>1, <4>3, <4>4, TellIs
    <3>4. QED
      BY <2>1, <3>1, <3>2, <3>3
  <2>3. fate' = fate \/ \E K : fate' = Mark(K, "heard")
    BY <2>1 DEF Heard
  <2>4. CASE fate' = fate
    BY <2>1, <2>2, <2>4, FateSame
  <2>5. CASE \E K : fate' = Mark(K, "heard")
    BY <2>1, <2>2, <2>5, FateMarked DEF Fates
  <2>6. QED
    BY <2>3, <2>4, <2>5
<1>11. ASSUME NEW t \in Tabs, Connect(t) \/ Commands(t) \/ Commit(t) PROVE OK
  <2>1. CASE Connect(t)
    BY <1>2, <2>1 DEF Connect, bounds, history
  <2>2. CASE Commands(t)
    BY <1>2, <2>2, CommandsAre
  <2>3. CASE Commit(t)
    BY <1>2, <2>3 DEF Commit, bounds, history
  <2>4. QED
    BY <1>11, <2>1, <2>2, <2>3
<1>12. ASSUME NEW n \in DOMAIN up, Serve(n) PROVE OK
  <2> DEFINE f == Head(up[n])
             answer == Answer(n, f)
  <2>1. /\ fate' = IF f.write = None THEN fate ELSE Mark({f.write}, answer)
        /\ UNCHANGED <<scenario, issued, told>>
    BY <1>12 DEF Serve, bounds
  <2>2. answer \in Fates
    BY <1>12, WireServe, AnswerFacts DEF Fates
  <2> HIDE DEF f, answer
  <2>3. QED
    BY <1>1, <1>2, <2>1, <2>2, FateMarked
<1>13. ASSUME (\E n \in DOMAIN up : Push(n) \/ Overgrow(n)) \/ Refuse \/ Tick \/ UNCHANGED vars PROVE OK
  <2>1. UNCHANGED <<scenario, issued, fate, told>>
    BY <1>13 DEF Push, Overgrow, Refuse, Tick, vars, bounds, history
  <2>2. QED
    BY <1>2, <2>1
<1> HIDE DEF OK
<1>14. OK
  BY <1>3, <1>4, <1>5, <1>6, <1>7, <1>9, <1>10, <1>11, <1>12, <1>13, Steps DEF Begins, Settles, Issues, Commands
<1>15. QED
  BY <1>14 DEF OK

-----------------------------------------------------------------------------
(* The writes that are over *)

\* What the invariants say, for the steps.
Sound == Alone /\ Types /\ SocketsOK /\ AlignInv /\ OrderInv /\ WireInv /\ FateTypes /\ IdsLeft

\* A write that a client has was issued, is enveloped, and its client has a mark.
LEMMA OwnedFacts ==
    ASSUME Sound
    PROVE  \A h \in Owned : /\ h \in InPlay /\ h.wire \in Nat /\ h.wire # None /\ h.client \in DOMAIN mark
                            /\ h.write \in DOMAIN issued /\ h.write \in DOMAIN fate /\ h.write # None
                            /\ mark[h.client] \in Int
<1>1. DOMAIN issued = DOMAIN fate
  BY DEF Sound, FateTypes, Types, HistoryTypes
<1>2. Owned \subseteq InPlay
  BY OwnedInPlay DEF Sound
<1>3. QED
  BY <1>1, <1>2, PlayFacts DEF Sound, OrderInv

\* The clients have the writes they had.
LEMMA OwnedKept ==
    ASSUME Types, SocketsOK, AlignInv, NEW t \in Tabs,
           \/ Prepares(t) \/ RestoreRows(t) \/ ReplaceRows(t) \/ Crash(t) \/ Connect(t) \/ Close(t) \/ Commands(t)
           \/ BrowserSubscribe(t) \/ Clear(t) \/ Receive(t) \/ Commit(t), [Next]_vars
    PROVE  Owned' \subseteq Owned
<1>1. Stored \subseteq Owned /\ \A u \in Tabs : OwnedBy(u) \subseteq Owned
  BY OwnedIs
<1>2. \A u \in Tabs : OwnedBy(u)' \subseteq Owned
  <2>1. CASE RestoreRows(t)
    BY <1>1, <2>1, OwnedMove
  <2>2. CASE ~RestoreRows(t)
    <3>1. \/ Prepares(t) \/ ReplaceRows(t) \/ Crash(t) \/ Connect(t) \/ Close(t) \/ Commands(t)
          \/ BrowserSubscribe(t) \/ Clear(t) \/ Receive(t) \/ Commit(t)
      BY <2>2
    <3>2. \A u \in Tabs : OwnedBy(u)' \subseteq OwnedBy(u)
      BY <3>1, OwnedMove
    <3>3. QED
      BY <1>1, <3>2
  <2>3. QED
    BY <2>1, <2>2
<1>3. Stored' \subseteq Owned
  <2>1. CASE Stored' = Stored
    BY <1>1, <2>1
  <2>2. CASE \E u \in Tabs : ReplaceRows(u) \/ Commit(u)
    <3>1. PICK u \in Tabs : ReplaceRows(u) \/ Commit(u)
      BY <2>2
    <3>2. Stored' \subseteq Stored \cup Rows(u) \cup Puts(u)
      BY <3>1, StoredFrom
    <3>3. QED
      BY <3>2, OwnedIs
  <2>3. QED
    BY <2>1, <2>2, StoredStep
<1>4. Owned' = Stored' \cup UNION {OwnedBy(u)' : u \in Tabs}
  BY DEF Owned
<1>5. \A h \in Owned' : h \in Stored' \/ \E u \in Tabs : h \in OwnedBy(u)'
  BY <1>4, Zenon
<1>6. QED
  BY <1>2, <1>3, <1>5

\* A line that goes on as it was: what is on it was there, or is not enveloped.
LineFrom(s, r) == \A i \in DOMAIN s : s[i].wire = None \/ (i \in DOMAIN r /\ \A j \in 1..i : s[j] = r[j])
LinesKept == \A n \in DOMAIN up' : n \in DOMAIN up /\ LineFrom(up'[n], up[n])

\* Nothing is added that would have to be over.
LEMMA PassedKept ==
    ASSUME Sound, PassedOver, Grows, Owned' \subseteq Owned, LinesKept, \A c \in DOMAIN mark : mark'[c] = mark[c]
    PROVE  PassedOver'
<1>1. \A w \in DOMAIN fate : Over(w) => Over(w)'
  BY OverGrows
<1>2. ASSUME NEW h \in Owned', h.wire <= mark'[h.client] PROVE Over(h.write)'
  <2>1. h \in Owned
    BY <1>2
  <2>2. h.client \in DOMAIN mark /\ h.write \in DOMAIN fate
    BY <2>1, OwnedFacts
  <2>3. Over(h.write)
    BY <1>2, <2>1, <2>2 DEF PassedOver
  <2>4. QED
    BY <1>1, <2>2, <2>3
<1>3. ASSUME NEW n \in DOMAIN up', NEW i \in DOMAIN up'[n], NEW h \in Owned',
             h.client = up'[n][i].client, h.wire < up'[n][i].wire
      PROVE  InTurn(up[n], i, h)'
  <2>1. h \in Owned
    BY <1>3
  <2>2. h.write \in DOMAIN fate /\ h.wire \in Nat
    BY <2>1, OwnedFacts
  <2>3. up'[n][i].wire # None
    BY <1>3, <2>2, NoneFacts
  <2>4. n \in DOMAIN up /\ i \in DOMAIN up[n] /\ \A j \in 1..i : up'[n][j] = up[n][j]
    BY <2>3 DEF LinesKept, LineFrom
  <2>5. i \in Nat \ {0}
    <3>1. up[n] \in Seq(Frame)
      BY <2>4 DEF Sound, Types, NetworkTypes
    <3>2. QED
      BY <2>4, <3>1
  <2>6. InTurn(up[n], i, h)
    <3>1. i \in 1..i
      BY <2>5
    <3>2. QED
      BY <1>3, <2>1, <2>4, <3>1 DEF PassedOver
  <2>7. \A j \in 1..(i - 1) : j \in 1..i
    BY <2>5
  <2>8. QED
    BY <1>1, <2>2, <2>4, <2>6, <2>7 DEF InTurn
<1>4. QED
  BY <1>2, <1>3 DEF PassedOver

\* Lines that stay, lose their end, or get a command without an envelope.
LEMMA LinesSame == UNCHANGED up => LinesKept
<1>1. QED
  BY DEF LinesKept, LineFrom

\* A command is sent: it comes last, after all that is on its line.
LEMMA LinesSent ==
    ASSUME Types, SocketsOK, NEW t \in Tabs, NEW f \in Frame, up' = Send(t, f), UNCHANGED down
    PROVE  /\ DOMAIN up' = DOMAIN up
           /\ f.wire = None => LinesKept
           /\ \A n \in DOMAIN up' : \A i \in DOMAIN up'[n] :
                \/ i \in DOMAIN up[n] /\ \A j \in 1..i : up'[n][j] = up[n][j]
                \/ /\ up'[n][i] = f /\ Connected(t) /\ n = conn[t]
                   /\ \A g \in Wire(t) : \E j \in 1..(i - 1) : up'[n][j] = g
<1>1. /\ DOMAIN up' = DOMAIN up
      /\ Connected(t) => /\ conn[t] \in DOMAIN up /\ up[conn[t]] \in Seq(Frame)
                         /\ \A i \in DOMAIN up : up'[i] = IF i = conn[t] THEN Append(up[i], f) ELSE up[i]
      /\ ~Connected(t) => up' = up
  BY SendTypes
<1>2. ASSUME NEW n \in DOMAIN up', NEW i \in DOMAIN up'[n]
      PROVE  \/ i \in DOMAIN up[n] /\ \A j \in 1..i : up'[n][j] = up[n][j]
             \/ /\ up'[n][i] = f /\ Connected(t) /\ n = conn[t]
                /\ \A g \in Wire(t) : \E j \in 1..(i - 1) : up'[n][j] = g
  <2>1. CASE up'[n] = up[n]
    BY <1>2, <2>1
  <2>2. CASE up'[n] # up[n]
    <3>1. Connected(t) /\ n = conn[t] /\ up[n] \in Seq(Frame) /\ up'[n] = Append(up[n], f) /\ n \in DOMAIN up
      BY <1>1, <1>2, <2>2
    <3>2. PICK s \in Seq(Frame) : s = up[n]
      BY <3>1
    <3>3. PICK x : x = up'[n]
      OBVIOUS
    <3>4. x = Append(s, f) /\ i \in DOMAIN x
      BY <1>2, <3>1, <3>2, <3>3
    <3>5. /\ Len(s) \in Nat /\ DOMAIN s = 1..Len(s) /\ DOMAIN x = 1..(Len(s) + 1)
          /\ x[Len(s) + 1] = f /\ \A j \in 1..Len(s) : x[j] = s[j]
      BY <3>4
    <3>6. CASE i \in 1..Len(s)
      <4>1. \A j \in 1..i : j \in 1..Len(s)
        BY <3>5, <3>6
      <4>2. QED
        BY <3>2, <3>3, <3>5, <3>6, <4>1
    <3>7. CASE i = Len(s) + 1
      <4>1. i - 1 = Len(s) /\ x[i] = f
        BY <3>5, <3>7
      <4>2. Wire(t) = ToSet(s)
        BY <3>1, <3>2 DEF Wire
      <4>3. ASSUME NEW g \in Wire(t) PROVE \E j \in 1..(i - 1) : x[j] = g
        BY <3>5, <4>1, <4>2 DEF ToSet
      <4>4. QED
        BY <3>1, <3>3, <4>1, <4>3
    <3>8. i \in 1..Len(s) \/ i = Len(s) + 1
      BY <3>4, <3>5
    <3>9. QED
      BY <3>6, <3>7, <3>8
  <2>3. QED
    BY <2>1, <2>2
<1>3. f.wire = None => LinesKept
  BY <1>1, <1>2 DEF LinesKept, LineFrom
<1>4. QED
  BY <1>1, <1>2, <1>3

\* A socket breaks.
LEMMA LinesCut ==
    ASSUME Types, SocketsOK, NEW t \in Tabs, Close(t)
    PROVE  LinesKept
<1>1. PICK m : m = conn[t]
  OBVIOUS
<1>2. PICK s : s = up[m]
  OBVIOUS
<1>3. PICK arrive \in 0..Len(up[conn[t]]) : up' = [up EXCEPT ![conn[t]] = SubSeq(up[conn[t]], 1, arrive)]
  BY DEF Close
<1>4. arrive \in 0..Len(s) /\ up' = [up EXCEPT ![m] = SubSeq(s, 1, arrive)]
  BY <1>1, <1>2, <1>3
<1>5. m \in DOMAIN up /\ s \in Seq(Frame)
  BY <1>1, <1>2 DEF Close, SocketsOK, Types, NetworkTypes
<1>6. PICK x : x = SubSeq(s, 1, arrive)
  OBVIOUS
<1>7. x \in Seq(Frame) /\ DOMAIN x = 1..arrive /\ (\A i \in 1..arrive : x[i] = s[i])
      /\ DOMAIN s = 1..Len(s) /\ Len(s) \in Nat
  BY <1>4, <1>5, <1>6
<1>8. LineFrom(x, s)
  <2> SUFFICES ASSUME NEW i \in DOMAIN x PROVE i \in DOMAIN s /\ \A j \in 1..i : x[j] = s[j]
    BY DEF LineFrom
  <2>1. i \in 1..Len(s) /\ \A j \in 1..i : j \in 1..arrive
    BY <1>4, <1>7
  <2>2. QED
    BY <1>7, <2>1
<1>9. DOMAIN up' = DOMAIN up /\ \A n \in DOMAIN up : up'[n] = IF n = m THEN x ELSE up[n]
  BY <1>4, <1>6
<1>10. \A n \in DOMAIN up : LineFrom(up[n], up[n])
  BY DEF LineFrom
<1>11. QED
  BY <1>2, <1>8, <1>9, <1>10 DEF LinesKept

\* The marks that a step leaves alone.
LEMMA MarksLeft ==
    ASSUME Types, NEW t \in Tabs,
           \/ Prepares(t) \/ RestoreRows(t) \/ ReplaceRows(t) \/ Crash(t) \/ Connect(t) \/ Close(t) \/ Commands(t)
           \/ BrowserSubscribe(t) \/ Clear(t) \/ Receive(t) \/ Commit(t) \/ Issues(t)
    PROVE  \A c \in DOMAIN mark : mark'[c] = mark[c]
<1>1. CASE Begins(t)
  <2>1. mark' = Append(mark, None) /\ mark \in Seq(Option(Nat))
    BY <1>1 DEF Begins, Opened, Types, ServerTypes
  <2>2. QED
    BY <2>1
<1>2. CASE Commands(t)
  BY <1>2, CommandsAre
<1>3. CASE Issues(t)
  BY <1>3, IssueIs
<1>4. CASE Settles(t) \/ ReplayLog(t) \/ RestoreRows(t) \/ ReplaceRows(t)
  <2>1. UNCHANGED mark
    BY <1>4, Zenon DEF Settles, AdoptIdentity, ReadEpoch, BumpEpoch, ReplayLog, RestoreRows, ReplaceRows, server
  <2>2. QED
    BY <2>1
<1>5. CASE Crash(t) \/ Connect(t) \/ Close(t) \/ BrowserSubscribe(t) \/ Clear(t) \/ Receive(t) \/ Commit(t)
  <2>1. UNCHANGED mark
    BY <1>5 DEF Crash, Connect, Close, BrowserSubscribe, Clear, Receive, Commit, server
  <2>2. QED
    BY <2>1
<1>6. QED
  BY <1>1, <1>2, <1>3, <1>4, <1>5 DEF Prepares

\* The steps of a client that sends no write.
LEMMA PassedTab ==
    ASSUME Sound, PassedOver, [Next]_vars, NEW t \in Tabs,
           \/ Prepares(t) \/ RestoreRows(t) \/ ReplaceRows(t) \/ Crash(t) \/ Close(t) \/ Commands(t)
           \/ BrowserSubscribe(t) \/ Clear(t) \/ Receive(t) \/ Commit(t)
    PROVE  PassedOver'
<1>1. Types /\ SocketsOK /\ AlignInv /\ FateTypes
  BY DEF Sound
<1>2. Grows
  BY <1>1, FateStep
<1>3. Owned' \subseteq Owned
  BY <1>1, OwnedKept
<1>4. \A c \in DOMAIN mark : mark'[c] = mark[c]
  BY <1>1, MarksLeft
<1>5. LinesKept
  <2>1. CASE Prepares(t) \/ RestoreRows(t) \/ ReplaceRows(t) \/ Crash(t) \/ Clear(t) \/ Receive(t) \/ Commit(t)
    <3>1. UNCHANGED up
      BY <2>1, Zenon DEF Prepares, Begins, Opened, Settles, AdoptIdentity, ReadEpoch, BumpEpoch, ReplayLog, RestoreRows,
                         ReplaceRows, Crash, Clear, Receive, Commit, network
    <3>2. QED
      BY <3>1, LinesSame
  <2>2. CASE Close(t)
    BY <1>1, <2>2, LinesCut
  <2>3. CASE Commands(t)
    <3>1. PICK f \in Frame : f.wire = None /\ up' = Send(t, f)
      BY <1>1, <2>3, CommandsAre
    <3>2. UNCHANGED down
      BY <1>1, <2>3, CommandsAre
    <3>3. QED
      BY <1>1, <3>1, <3>2, LinesSent
  <2>4. CASE BrowserSubscribe(t)
    <3>1. PICK f \in Frame : f.wire = None /\ up' = Send(t, f)
      BY <1>1, <2>4, SubscribeIs DEF Frame
    <3>2. UNCHANGED down
      BY <2>4 DEF BrowserSubscribe
    <3>3. QED
      BY <1>1, <3>1, <3>2, LinesSent
  <2>5. QED
    BY <2>1, <2>2, <2>3, <2>4
<1>6. QED
  BY <1>2, <1>3, <1>4, <1>5, PassedKept

\* A client that is open has all writes of its identity, except those that are on disk only.
LEMMA OwnedByOne ==
    ASSUME Sound, NEW t \in Tabs, Ready(t), NEW h \in Owned, h.client = core[t].client
    PROVE  h \in Stored \cup Rows(t) \cup Puts(t) \cup OnWire(t)
<1>1. CASE h \in Stored
  BY <1>1
<1>2. CASE h \notin Stored
  <2>1. PICK u \in Tabs : h \in OwnedBy(u)
    BY <1>2, OwnedIs
  <2>2. h.client = core[u].client
    BY <2>1 DEF Sound, WireInv, OwnOK
  <2>3. u = t
    <3>1. CASE Browser
      BY <3>1 DEF Sound, Alone
    <3>2. CASE ~Browser
      <4>1. phase[u] \in {"closed", "ready"}
        BY <3>2 DEF Sound, OrderInv, EpochOK
      <4>2. phase[u] # "closed"
        BY <2>1, ClosedHasNone DEF Sound, WireInv
      <4>3. QED
        BY <2>2, <3>2, <4>1, <4>2 DEF Sound, OrderInv, EpochOK, Ready
    <3>3. QED
      BY <3>1, <3>2
  <2>4. QED
    BY <2>1, <2>3, OwnedIs
<1>3. QED
  BY <1>1, <1>2

\* Those that are not over are in its outbox or on its line, and on its line when there is one.
LEMMA OwnedOrOver ==
    ASSUME Sound, HasAll, NEW t \in Tabs, Ready(t), NEW h \in Owned, h.client = core[t].client
    PROVE  /\ Over(h.write) \/ h \in Rows(t) \/ h \in Wire(t)
           /\ Connected(t) => Over(h.write) \/ h \in Wire(t)
<1>1. h \in Stored \/ h \in Rows(t) \/ h \in Puts(t) \/ h \in OnWire(t)
  BY OwnedByOne
<1>2. h.wire # None
  BY OwnedFacts
<1>3. h \in OnWire(t) => h \in Wire(t)
  BY DEF OnWire, Enveloped
<1>4. h \in Stored \/ h \in Puts(t) => Over(h.write) \/ h \in Rows(t)
  BY <1>2 DEF HasAll, Has, Done, Ready, Rows, Puts, Enveloped
<1>5. Connected(t) /\ h \in Rows(t) => Over(h.write) \/ h \in Wire(t)
  BY DEF HasAll, Sends, Rows
<1>6. QED
  BY <1>1, <1>3, <1>4, <1>5

\* A client that connects sends its writes in their order.
LEMMA PassedConnect ==
    ASSUME Sound, PassedOver, HasAll, [Next]_vars, NEW t \in Tabs, Connect(t)
    PROVE  PassedOver'
<1>1. Types /\ SocketsOK /\ AlignInv /\ FateTypes
  BY DEF Sound
<1>2. Grows
  BY <1>1, FateStep
<1>3. Owned' \subseteq Owned
  BY <1>1, OwnedKept
<1>4. \A c \in DOMAIN mark : mark'[c] = mark[c]
  BY <1>1, MarksLeft
<1>5. \A w \in DOMAIN fate : Over(w) => Over(w)'
  BY <1>2, OverGrows
<1>6. Ready(t) /\ ~Connected(t)
  BY DEF Connect
<1>7. PICK s, k : ConnectLine(core[t], s, k) /\ up' = Append(up, s)
  BY <1>1, ConnectIs
<1> DEFINE c == core[t]
           N == Len(up)
<1>8. N \in Nat /\ DOMAIN up = 1..N /\ DOMAIN up' = 1..(N + 1) /\ up'[N + 1] = s /\ \A n \in 1..N : up'[n] = up[n]
  BY <1>1, <1>7 DEF Types, NetworkTypes
<1>9. c.outbox \in Seq(Row) /\ Len(c.outbox) \in Nat /\ DOMAIN c.outbox = 1..Len(c.outbox)
  BY <1>1, CoreFields DEF Types, ClientTypes
<1>10. Ascends(c.outbox)
  BY DEF Sound, WireInv, AscendOK
<1>11. ASSUME NEW i \in DOMAIN s, NEW h \in Owned, h.client = s[i].client, h.wire < s[i].wire
       PROVE  InTurn(s, i, h)
  <2>1. h.wire \in Nat /\ h.wire # None
    BY OwnedFacts
  <2>2. s[i].wire # None
    BY <1>11, <2>1, NoneFacts
  <2>3. /\ s \in Seq(Frame) /\ k \in Nat /\ k + Len(c.outbox) <= Len(s) /\ ~(i <= k \/ i > k + Len(c.outbox))
        /\ \A j \in 1..Len(c.outbox) : s[k + j] = c.outbox[j].frame
    BY <1>7, <2>2 DEF ConnectLine
  <2>4. PICK j : j = i - k
    OBVIOUS
  <2>5. i \in Nat /\ j \in 1..Len(c.outbox) /\ i = k + j
    BY <1>9, <2>3, <2>4
  <2>6. s[i] = c.outbox[j].frame
    BY <2>3, <2>5
  <2>7. s[i] \in Rows(t)
    BY <1>9, <2>2, <2>5, <2>6 DEF Rows, Enveloped, HeldIn
  <2>8. s[i].client = c.client
    BY <2>7, OwnedIs DEF Sound, WireInv, OwnOK
  <2>9. Over(h.write) \/ h \in Rows(t)
    BY <1>6, <1>11, <2>8, OwnedOrOver DEF Wire
  <2>10. ASSUME h \in Rows(t) PROVE \E x \in 1..(i - 1) : s[x] = h
    <3>1. PICK x \in DOMAIN c.outbox : h = c.outbox[x].frame
      BY <2>10 DEF Rows, Enveloped, HeldIn
    <3>2. s[i].wire \in Nat
      BY <2>2, <2>3, FrameFacts
    <3>3. x < j
      <4>1. x = j => FALSE
        BY <1>11, <2>1, <2>6, <3>1, <3>2
      <4>2. ~(j < x)
        <5>1. SUFFICES ASSUME j < x PROVE FALSE
          OBVIOUS
        <5>2. j \in DOMAIN c.outbox
          BY <1>9, <2>5
        <5>3. c.outbox[j].frame.wire # None /\ c.outbox[x].frame.wire # None
          BY <2>1, <2>2, <2>6, <3>1
        <5>4. c.outbox[j].frame.wire < c.outbox[x].frame.wire
          BY <1>10, <3>1, <5>1, <5>2, <5>3, Zenon DEF Ascends
        <5>5. s[i].wire < h.wire
          BY <2>6, <3>1, <5>4
        <5>6. QED
          BY <1>11, <2>1, <3>2, <5>5
      <4>3. QED
        BY <1>9, <2>5, <3>1, <4>1, <4>2
    <3>4. s[k + x] = h /\ k + x \in 1..(i - 1)
      <4>1. x \in 1..Len(c.outbox) /\ s[k + x] = c.outbox[x].frame
        BY <1>9, <2>3, <3>1
      <4>2. k + x \in 1..(i - 1)
        BY <2>3, <2>5, <3>3, <4>1
      <4>3. QED
        BY <3>1, <4>1, <4>2
    <3>5. QED
      BY <3>4
  <2>11. QED
    BY <2>9, <2>10 DEF InTurn
<1>12. ASSUME NEW h \in Owned', h.wire <= mark'[h.client] PROVE Over(h.write)'
  <2>1. h \in Owned /\ h.client \in DOMAIN mark /\ h.write \in DOMAIN fate
    BY <1>3, <1>12, OwnedFacts
  <2>2. QED
    BY <1>4, <1>5, <1>12, <2>1 DEF PassedOver
<1>13. ASSUME NEW n \in DOMAIN up', NEW i \in DOMAIN up'[n], NEW h \in Owned',
              h.client = up'[n][i].client, h.wire < up'[n][i].wire
       PROVE  InTurn(up[n], i, h)'
  <2>1. h \in Owned /\ h.write \in DOMAIN fate
    BY <1>3, <1>13, OwnedFacts
  <2>2. InTurn(up'[n], i, h)
    <3>1. CASE n = N + 1
      BY <1>8, <1>11, <1>13, <2>1, <3>1
    <3>2. CASE n \in 1..N
      BY <1>8, <1>13, <2>1, <3>2 DEF PassedOver
    <3>3. n \in 1..N \/ n = N + 1
      BY <1>8
    <3>4. QED
      BY <3>1, <3>2, <3>3
  <2>3. QED
    BY <1>5, <2>1, <2>2 DEF InTurn
<1>14. QED
  BY <1>12, <1>13 DEF PassedOver

\* A new write comes after all that its client has.
LEMMA PassedIssue ==
    ASSUME Sound, PassedOver, HasAll, [Next]_vars, NEW t \in Tabs, Issues(t)
    PROVE  PassedOver'
<1>1. Types /\ SocketsOK /\ AlignInv /\ FateTypes
  BY DEF Sound
<1>2. Grows
  BY <1>1, FateStep
<1>3. \A w \in DOMAIN fate : Over(w) => Over(w)'
  BY <1>2, OverGrows
<1>4. PICK f : f = NewWrite(t).frame
  OBVIOUS
<1>5. /\ f.wire \in Nat /\ f.client = core[t].client /\ f.client \in DOMAIN mark /\ mark[f.client] < f.wire
      /\ \A h \in InPlay : h.client = f.client => h.wire < f.wire
  BY <1>4, NewestWrite DEF Sound, WireInv
<1>6. f \in Frame /\ up' = Send(t, f) /\ UNCHANGED <<down, mark>> /\ Ready(t)
  BY <1>1, <1>4, IssueIs
<1>7. Owned' \subseteq Owned \cup {f}
  <2>1. Stored' = Stored
    <3>1. UNCHANGED idb
      BY <1>1, IssueIs
    <3>2. QED
      BY <3>1 DEF Stored, OnDisk
  <2>2. \A u \in Tabs : OwnedBy(u)' \subseteq Owned \cup {f}
    BY <1>1, <1>4, OwnedMove, OwnedIs
  <2>3. Owned' = Stored' \cup UNION {OwnedBy(u)' : u \in Tabs}
    BY DEF Owned
  <2>4. \A h \in Owned' : h \in Stored' \/ \E u \in Tabs : h \in OwnedBy(u)'
    BY <2>3, Zenon
  <2>5. QED
    BY <2>1, <2>2, <2>4, OwnedIs
<1>8. \A n \in DOMAIN up' : \A i \in DOMAIN up'[n] :
        \/ n \in DOMAIN up /\ i \in DOMAIN up[n] /\ \A j \in 1..i : up'[n][j] = up[n][j]
        \/ /\ up'[n][i] = f /\ Connected(t) /\ n = conn[t]
           /\ \A g \in Wire(t) : \E j \in 1..(i - 1) : up'[n][j] = g
  BY <1>1, <1>6, LinesSent
<1>9. ASSUME NEW h \in Owned', h.wire <= mark'[h.client] PROVE Over(h.write)'
  <2>1. h # f
    <3>1. mark[f.client] \in Int
      BY <1>1, <1>5, NoneFacts DEF Types, ServerTypes, Option
    <3>2. QED
      BY <1>5, <1>6, <1>9, <3>1
  <2>2. h \in Owned
    BY <1>7, <1>9, <2>1
  <2>3. h.write \in DOMAIN fate
    BY <2>2, OwnedFacts
  <2>4. QED
    BY <1>3, <1>6, <1>9, <2>2, <2>3 DEF PassedOver
<1>10. ASSUME NEW n \in DOMAIN up', NEW i \in DOMAIN up'[n], NEW h \in Owned',
              h.client = up'[n][i].client, h.wire < up'[n][i].wire
       PROVE  InTurn(up[n], i, h)'
  <2>1. CASE n \in DOMAIN up /\ i \in DOMAIN up[n] /\ \A j \in 1..i : up'[n][j] = up[n][j]
    <3>1. i \in Nat \ {0} /\ up[n][i] \in Frame
      <4>1. up[n] \in Seq(Frame)
        BY <1>1, <2>1 DEF Types, NetworkTypes
      <4>2. QED
        BY <2>1, <4>1
    <3>2. i \in 1..i
      BY <3>1
    <3>3. up'[n][i] = up[n][i]
      BY <2>1, <3>2
    <3>4. h # f
      <4>1. SUFFICES ASSUME h = f PROVE FALSE
        OBVIOUS
      <4>2. up[n][i].wire # None
        BY <1>5, <1>10, <3>3, <4>1, NoneFacts
      <4>3. up[n][i] \in InPlay
        BY <2>1, <4>2, InPlayHas DEF ToSet
      <4>4. up[n][i].wire \in Nat
        BY <3>1, <4>2, FrameFacts
      <4>5. QED
        BY <1>5, <1>10, <3>3, <4>1, <4>3, <4>4
    <3>5. h \in Owned
      BY <1>7, <1>10, <3>4
    <3>6. InTurn(up[n], i, h)
      BY <1>10, <2>1, <3>3, <3>5 DEF PassedOver
    <3>7. \A j \in 1..(i - 1) : j \in 1..i
      BY <3>1
    <3>8. h.write \in DOMAIN fate
      BY <3>5, OwnedFacts
    <3>9. QED
      BY <1>3, <2>1, <3>6, <3>7, <3>8 DEF InTurn
  <2>2. CASE /\ up'[n][i] = f /\ Connected(t) /\ n = conn[t]
             /\ \A g \in Wire(t) : \E j \in 1..(i - 1) : up'[n][j] = g
    <3>1. h # f
      BY <1>5, <1>10, <2>2
    <3>2. h \in Owned
      BY <1>7, <1>10, <3>1
    <3>3. Over(h.write) \/ h \in Wire(t)
      BY <1>5, <1>6, <1>10, <2>2, <3>2, OwnedOrOver
    <3>4. h.write \in DOMAIN fate
      BY <3>2, OwnedFacts
    <3>5. QED
      BY <1>3, <2>2, <3>3, <3>4 DEF InTurn
  <2>3. QED
    BY <1>8, <2>1, <2>2
<1>11. QED
  BY <1>9, <1>10 DEF PassedOver

\* The server comes to a write that some client has: it is over then.
LEMMA ServedOver ==
    ASSUME Sound, PassedOver, [Next]_vars, NEW n \in DOMAIN up, Serve(n), NEW f \in Owned, f = Head(up[n])
    PROVE  /\ f.write \in DOMAIN fate' /\ Over(f.write)' /\ Answer(n, f) \in {"applied", "error", "dup"}
           /\ Answer(n, f) \in fate'[f.write]
<1>1. PICK a : a = Answer(n, f)
  OBVIOUS
<1>2. Types /\ SocketsOK /\ FateTypes
  BY DEF Sound
<1>3. Grows
  BY <1>2, FateStep
<1>4. f \in Owned /\ f \in Frame /\ up[n] # << >>
  BY <1>2, WireServe DEF Serve
<1>5. f.write \in DOMAIN fate /\ f.write # None /\ f.wire # None
  BY <1>4, OwnedFacts
<1>6. f.kind = "write"
  BY <1>4, <1>5 DEF Frame, RowFrame, SessionFrameSet
<1>7. auth[n]
  <2>1. Authenticates(n)
    BY DEF Sound, WireInv, AuthOK
  <2>2. QED
    BY <1>4, <1>6, <2>1 DEF Authenticates
<1>8. fate' = Mark({f.write}, a)
  BY <1>1, <1>5 DEF Serve
<1>9. a \in {"applied", "error", "dup"} /\ (a = "dup" => IsDuplicate(f))
  <2>1. CASE subscribed[n]
    BY <1>1, <1>6, <1>7, <2>1 DEF Answer
  <2>2. CASE ~subscribed[n]
    <3> HIDE DEF IsDuplicate
    <3>1. CASE refusing
      BY <1>1, <1>6, <1>7, <2>2, <3>1 DEF Answer
    <3>2. CASE ~refusing
      BY <1>1, <1>6, <1>7, <2>2, <3>2 DEF Answer
    <3>3. QED
      BY <3>1, <3>2
  <2>3. QED
    BY <2>1, <2>2
<1>10. a \in fate'[f.write] /\ f.write \in DOMAIN fate'
  <2>1. a \in Fates
    BY <1>9 DEF Fates, Answers
  <2>2. QED
    BY <1>2, <1>5, <1>8, <2>1, MarkIs
<1>11. Over(f.write)'
  <2>1. CASE a = "dup"
    <3>1. f.wire <= mark[f.client]
      BY <1>9, <2>1 DEF IsDuplicate
    <3>2. Over(f.write)
      BY <1>4, <3>1 DEF PassedOver
    <3>3. QED
      BY <1>3, <1>5, <3>2, OverGrows
  <2>2. CASE a # "dup"
    <3>1. a \in Ends'
      BY <1>9, <2>2 DEF Ends
    <3>2. QED
      BY <1>10, <3>1 DEF Over
  <2>3. QED
    BY <2>1, <2>2
<1>12. QED
  BY <1>1, <1>9, <1>10, <1>11

\* Nothing that the server or time does gives a client a write.
LEMMA OwnedServe ==
    ASSUME Types, SocketsOK, NEW n \in DOMAIN up, Serve(n)
    PROVE  /\ Owned' \subseteq Owned /\ Stored' = Stored
           /\ \A u \in Tabs : Rows(u)' = Rows(u) /\ Puts(u)' = Puts(u) /\ OnWire(u)' \subseteq OnWire(u)
<1>1. UNCHANGED <<core, tasks, idb>>
  BY DEF Serve, client, browser
<1>2. Stored' = Stored
  BY <1>1 DEF Stored, OnDisk
<1>3. ASSUME NEW u \in Tabs PROVE Rows(u)' = Rows(u) /\ Puts(u)' = Puts(u) /\ OnWire(u)' \subseteq OnWire(u)
  <2>1. Rows(u)' = Rows(u) /\ Puts(u)' = Puts(u)
    BY <1>1 DEF Rows, Puts
  <2>2. Wire(u)' \subseteq Wire(u)
    BY WireServe
  <2>3. QED
    BY <2>1, <2>2 DEF OnWire, Enveloped
<1>4. \A u \in Tabs : Rows(u)' \subseteq Owned /\ Puts(u)' \subseteq Owned /\ OnWire(u)' \subseteq Owned
  BY <1>3, OwnedIs
<1>5. Stored' \subseteq Owned
  BY <1>2, OwnedIs
<1>6. Owned' \subseteq Owned
  BY <1>4, <1>5, OwnedStep
<1>7. QED
  BY <1>2, <1>3, <1>6

\* The server takes the writes in turn.
LEMMA PassedServe ==
    ASSUME Sound, PassedOver, [Next]_vars, NEW n \in DOMAIN up, Serve(n)
    PROVE  PassedOver'
<1>1. Types /\ SocketsOK /\ FateTypes
  BY DEF Sound
<1>2. Grows
  BY <1>1, FateStep
<1>3. \A w \in DOMAIN fate : Over(w) => Over(w)'
  BY <1>2, OverGrows
<1>4. Owned' \subseteq Owned
  BY <1>1, OwnedServe
<1>5. PICK s : s = up[n]
  OBVIOUS
<1>6. PICK f : f = Head(up[n])
  OBVIOUS
<1>7. s \in Seq(Frame) /\ s # << >> /\ f = Head(s) /\ f \in Frame
  BY <1>1, <1>5, <1>6 DEF Serve, Types, NetworkTypes
<1>8. /\ f = s[1] /\ Len(s) \in Nat \ {0} /\ DOMAIN s = 1..Len(s) /\ 1 \in DOMAIN s
      /\ DOMAIN Tail(s) = 1..(Len(s) - 1) /\ \A i \in 1..(Len(s) - 1) : Tail(s)[i] = s[i + 1]
  BY <1>7
<1>9. f \in Owned => Over(f.write)'
  BY <1>6, ServedOver
<1>10. ASSUME NEW h \in Owned, NEW i \in DOMAIN s, h.client = s[i].client, h.wire < s[i].wire
       PROVE  InTurn(s, i, h)
  BY <1>5, <1>10 DEF PassedOver
<1>11. DOMAIN up' = DOMAIN up /\ \A m \in DOMAIN up : up'[m] = IF m = n THEN Tail(s) ELSE up[m]
  BY <1>1, <1>5, WireServe DEF Types, NetworkTypes
<1>12. \/ \A c \in DOMAIN mark : mark'[c] = mark[c]
       \/ f.wire # None /\ \A c \in DOMAIN mark : mark'[c] = IF c = f.client THEN f.wire ELSE mark[c]
  <2>1. mark' = IF Answer(n, f) = "applied" THEN [mark EXCEPT ![f.client] = f.wire] ELSE mark
    BY <1>6 DEF Serve
  <2>2. Answer(n, f) = "applied" => f.wire # None
    BY <1>7, AnswerFacts
  <2>3. QED
    BY <1>1, <2>1, <2>2 DEF Types, ServerTypes
<1>13. ASSUME NEW h \in Owned', h.wire <= mark'[h.client] PROVE Over(h.write)'
  <2>1. h \in Owned
    BY <1>4, <1>13
  <2>2. h.client \in DOMAIN mark /\ h.write \in DOMAIN fate /\ h.wire \in Nat /\ h \in InPlay
    BY <2>1, OwnedFacts
  <2>3. CASE mark'[h.client] = mark[h.client]
    BY <1>3, <1>13, <2>1, <2>2, <2>3 DEF PassedOver
  <2>4. CASE f.wire # None /\ h.client = f.client /\ mark'[h.client] = f.wire
    <3>1. f.wire \in Nat
      BY <1>7, <2>4, FrameFacts
    <3>2. CASE h.wire = f.wire
      <4>1. f \in InPlay
        BY <1>5, <1>8, <2>4, InPlayHas DEF ToSet
      <4>2. h = f
        BY <2>2, <2>4, <3>2, <4>1 DEF Sound, WireInv, UniqueOK
      <4>3. QED
        BY <1>9, <2>1, <4>2
    <3>3. CASE h.wire < f.wire
      <4>1. InTurn(s, 1, h)
        BY <1>8, <1>10, <2>1, <2>4, <3>3
      <4>2. Over(h.write)
        BY <4>1 DEF InTurn
      <4>3. QED
        BY <1>3, <2>2, <4>2
    <3>4. QED
      BY <1>13, <2>2, <2>4, <3>1, <3>2, <3>3
  <2>5. QED
    BY <1>12, <2>2, <2>3, <2>4
<1>14. ASSUME NEW m \in DOMAIN up', NEW i \in DOMAIN up'[m], NEW h \in Owned',
              h.client = up'[m][i].client, h.wire < up'[m][i].wire
       PROVE  InTurn(up[m], i, h)'
  <2>1. h \in Owned
    BY <1>4, <1>14
  <2>2. h.write \in DOMAIN fate
    BY <2>1, OwnedFacts
  <2>3. CASE m # n
    <3>1. up'[m] = up[m] /\ m \in DOMAIN up
      BY <1>11, <2>3
    <3>2. InTurn(up[m], i, h)
      BY <1>14, <2>1, <3>1 DEF PassedOver
    <3>3. QED
      BY <1>3, <2>2, <3>1, <3>2 DEF InTurn
  <2>4. CASE m = n
    <3>1. up'[m] = Tail(s)
      BY <1>11, <2>4
    <3>2. i \in 1..(Len(s) - 1) /\ up'[m][i] = s[i + 1] /\ i + 1 \in DOMAIN s
      BY <1>8, <1>14, <3>1
    <3>3. InTurn(s, i + 1, h)
      BY <1>10, <1>14, <2>1, <3>2
    <3>4. CASE Over(h.write)
      BY <1>3, <2>2, <3>4 DEF InTurn
    <3>5. CASE \E j \in 1..i : s[j] = h
      <4>1. PICK j \in 1..i : s[j] = h
        BY <3>5
      <4>2. CASE j = 1
        BY <1>8, <1>9, <2>1, <4>1, <4>2 DEF InTurn
      <4>3. CASE j # 1
        <5>1. j - 1 \in 1..(i - 1) /\ j - 1 \in 1..(Len(s) - 1) /\ (j - 1) + 1 = j
          BY <1>8, <3>2, <4>1, <4>3
        <5>2. Tail(s)[j - 1] = h
          BY <1>8, <4>1, <5>1
        <5>3. QED
          BY <3>1, <5>1, <5>2 DEF InTurn
      <4>4. QED
        BY <4>2, <4>3
    <3>6. (i + 1) - 1 = i
      BY <3>2
    <3>7. QED
      BY <3>3, <3>4, <3>5, <3>6 DEF InTurn
  <2>5. QED
    BY <2>3, <2>4
<1>15. QED
  BY <1>13, <1>14 DEF PassedOver

\* What a mark has passed is over, always.
LEMMA PassedStep ==
    ASSUME Sound, PassedOver, HasAll, [Next]_vars
    PROVE  PassedOver'
<1> DEFINE OK == PassedOver'
<1>1. ASSUME NEW t \in Tabs,
             \/ Prepares(t) \/ RestoreRows(t) \/ ReplaceRows(t) \/ Crash(t) \/ Close(t) \/ Commands(t)
             \/ BrowserSubscribe(t) \/ Clear(t) \/ Receive(t) \/ Commit(t)
      PROVE  OK
  BY <1>1, PassedTab
<1>2. ASSUME NEW t \in Tabs, Connect(t) PROVE OK
  BY <1>2, PassedConnect
<1>3. ASSUME NEW t \in Tabs, Issues(t) PROVE OK
  BY <1>3, PassedIssue
<1>4. ASSUME NEW n \in DOMAIN up, Serve(n) PROVE OK
  BY <1>4, PassedServe
<1>5. ASSUME (\E n \in DOMAIN up : Push(n) \/ Overgrow(n)) \/ Refuse \/ Tick \/ UNCHANGED vars PROVE OK
  <2>1. UNCHANGED <<scenario, core, conn, tasks, idb, up, mark, fate>>
    BY <1>5 DEF Push, Overgrow, Refuse, Tick, vars, client, browser, network, server, bounds, history
  <2>2. PassedOver' <=> PassedOver
    BY <2>1 DEF PassedOver, InTurn, Over, Ends, Browser, Setup, Owned, Stored, OwnedBy, OnDisk, Wire, Connected
  <2>3. QED
    BY <2>2
<1> HIDE DEF OK
<1>6. OK
  BY <1>1, <1>2, <1>3, <1>4, <1>5, Steps DEF Prepares, Begins, Settles, Issues, Commands
<1>7. QED
  BY <1>6 DEF OK

-----------------------------------------------------------------------------
(* The rows that leave an outbox *)

\* What is at one of the places is kept.
LEMMA KeptAll ==
    ASSUME NEW S, NEW s \in Seq(S), NEW K
    PROVE  \A j \in 1..Len(s) : j \in K => \E m \in 1..Len(Kept(s, K)) : Kept(s, K)[m] = s[j]
<1>1. PICK g : KeptBy(g, s, K, S)
  BY KeptExists
<1>2. Kept(s, K) = g[Len(s)] /\ Len(s) \in Nat
  BY <1>1, KeptIsLast
<1> DEFINE P(i) == \A j \in 1..i : j \in K => \E m \in 1..Len(g[i]) : g[i][m] = s[j]
           T == {i \in 0..Len(s) : P(i)}
<1>3. 0 \in T
  BY <1>2
<1>4. ASSUME NEW i \in 1..Len(s), i - 1 \in T PROVE i \in T
  <2>1. g[i - 1] \in Seq(S) /\ g[i] = IF i \in K THEN Append(g[i - 1], s[i]) ELSE g[i - 1]
    <3>1. /\ \A x \in 0..Len(s) : g[x] \in Seq(S)
          /\ \A x \in 1..Len(s) : g[x] = IF x \in K THEN Append(g[x - 1], s[x]) ELSE g[x - 1]
      BY <1>1, Zenon DEF KeptBy
    <3>2. i - 1 \in 0..Len(s)
      BY <1>2
    <3>3. QED
      BY <3>1, <3>2, Zenon
  <2>2. P(i - 1) /\ i \in 0..Len(s)
    BY <1>2, <1>4
  <2>3. ASSUME NEW j \in 1..i, j \in K PROVE \E m \in 1..Len(g[i]) : g[i][m] = s[j]
    <3>1. CASE i \in K
      <4>1. /\ Len(g[i]) = Len(g[i - 1]) + 1 /\ Len(g[i - 1]) \in Nat
            /\ \A m \in 1..Len(g[i - 1]) : g[i][m] = g[i - 1][m]
            /\ g[i][Len(g[i - 1]) + 1] = s[i]
        BY <2>1, <3>1
      <4>2. CASE j = i
        BY <4>1, <4>2
      <4>3. CASE j # i
        <5>1. j \in 1..(i - 1)
          BY <4>3
        <5>2. PICK m \in 1..Len(g[i - 1]) : g[i - 1][m] = s[j]
          BY <2>2, <2>3, <5>1
        <5>3. m \in 1..Len(g[i]) /\ g[i][m] = s[j]
          BY <4>1, <5>2
        <5>4. QED
          BY <5>3
      <4>4. QED
        BY <4>2, <4>3
    <3>2. CASE i \notin K
      <4>1. j \in 1..(i - 1) /\ g[i] = g[i - 1]
        BY <2>1, <2>3, <3>2
      <4>2. QED
        BY <2>2, <2>3, <4>1
    <3>3. QED
      BY <3>1, <3>2
  <2>4. QED
    BY <2>2, <2>3
<1> HIDE DEF T
<1>5. \A i \in 0..Len(s) : i \in T
  BY <1>2, <1>3, <1>4, UpTo
<1>6. Len(s) \in T
  BY <1>2, <1>5
<1>7. QED
  BY <1>2, <1>6 DEF T

\* The writes of some rows.
LEMMA WrittenIs ==
    ASSUME NEW rows
    PROVE  /\ \A h \in HeldIn(rows) : h.write # None => h.write \in WritesOf(rows)
           /\ \A w \in WritesOf(rows) : w # None /\ \E h \in HeldIn(rows) : h.write = w
<1>1. QED
  BY Zenon DEF HeldIn, WritesOf

\* In the browser a write that its client is done with is over.
LEMMA BrowserDone ==
    ASSUME Browser, scenario' = scenario
    PROVE  \A w : Closed(w)' => Done(w)'
<1>1. Ends' = {"applied", "error", "heard", "dropped", "cleared", "lost"}
  BY DEF Ends, Browser, Setup
<1>2. QED
  BY <1>1 DEF Done, Closed, Over, Settled, Misled

\* A row that a full outbox loses is reported, and the row of a new write is there.
LEMMA RowsDropped ==
    ASSUME Sound, NEW t \in Tabs, Issues(t) \/ BrowserSubscribe(t)
    PROVE  /\ \A h \in Rows(t) : h \in Rows(t)' \/ Closed(h.write)'
           /\ Issues(t) => NewWrite(t).frame \in Rows(t)'
<1>1. Types /\ SocketsOK /\ AlignInv /\ FateTypes
  BY DEF Sound
<1>2. core[t] \in Core
  BY <1>1 DEF Types, ClientTypes
<1>3. ASSUME NEW e, Queues(core[t], e), core' = [core EXCEPT ![t] = e.core],
             fate' = NoteDropped(e) \/ fate' = Append(NoteDropped(e), {}), NEW h \in Rows(t)
      PROVE  h \in Rows(t)' \/ Closed(h.write)'
  <2>1. h \in HeldIn(core[t].outbox) /\ h.wire # None
    BY DEF Rows, Enveloped
  <2>2. core'[t] = e.core
    BY <1>1, <1>3 DEF Types, ClientTypes
  <2>3. CASE h \in HeldIn(e.core.outbox)
    BY <2>1, <2>2, <2>3 DEF Rows, Enveloped
  <2>4. CASE h \in HeldIn(e.dropped)
    <3>1. h.write \in DOMAIN fate /\ h.write # None
      BY OwnedIs, OwnedFacts
    <3>2. h.write \in WritesOf(e.dropped)
      BY <2>4, <3>1, WrittenIs
    <3> DEFINE r == NoteDropped(e)
    <3>3. /\ r \in Seq(SUBSET Fates) /\ Len(r) = Len(fate) /\ DOMAIN r = DOMAIN fate
          /\ "dropped" \in r[h.write]
      BY <1>1, <3>1, <3>2, MarkIs DEF NoteDropped, Fates
    <3>4. fate' = r \/ fate' = Append(r, {})
      BY <1>3
    <3> HIDE DEF r
    <3>5. h.write \in 1..Len(r)
      BY <3>1, <3>3
    <3>6. fate'[h.write] = r[h.write]
      BY <3>3, <3>4, <3>5
    <3>7. QED
      BY <3>3, <3>6 DEF Closed, Settled
  <2>5. QED
    BY <1>2, <1>3, <2>1, <2>3, <2>4, RowsQueued
<1>4. CASE BrowserSubscribe(t)
  <2> DEFINE e == EnqueueWrite(core[t], "subscribe", None, FALSE, Connected(t))
  <2>1. core' = [core EXCEPT ![t] = e.core] /\ fate' = NoteDropped(e)
    BY <1>1, <1>4, SubscribeIs
  <2>2. Queues(core[t], e)
    BY <1>1, WriteQueues
  <2> HIDE DEF e
  <2>3. \A h \in Rows(t) : h \in Rows(t)' \/ Closed(h.write)'
    BY <1>3, <2>1, <2>2
  <2>4. Issues(t) => NewWrite(t).frame \in Rows(t)'
    <3>1. SUFFICES ASSUME Issues(t) PROVE FALSE
      OBVIOUS
    <3>2. UNCHANGED issued
      BY <1>4 DEF BrowserSubscribe
    <3>3. Len(issued') = Len(issued) + 1
      BY <1>1, <3>1, IssueIs
    <3>4. Len(issued) \in Nat
      BY <1>1 DEF Types, HistoryTypes
    <3>5. QED
      BY <3>2, <3>3, <3>4
  <2>5. QED
    BY <2>3, <2>4
<1>5. CASE Issues(t)
  <2>1. PICK e : e = NewWrite(t)
    OBVIOUS
  <2>2. core' = [core EXCEPT ![t] = e.core] /\ fate' = Append(NoteDropped(e), {})
    BY <1>1, <1>5, <2>1, IssueIs
  <2>3. Queues(core[t], e)
    BY <1>1, <2>1, WriteQueues
  <2>4. \A h \in Rows(t) : h \in Rows(t)' \/ Closed(h.write)'
    BY <1>3, <2>2, <2>3
  <2>5. e.frame \in HeldIn(e.core.outbox)
    BY <1>2, <2>3, RowsQueued
  <2>6. core'[t] = e.core
    BY <1>1, <2>2 DEF Types, ClientTypes
  <2>7. e.frame.wire \in Nat
    BY <1>5, <2>1, NewestWrite DEF Sound, WireInv
  <2>8. e.frame \in Rows(t)'
    BY <2>5, <2>6, <2>7, NoneFacts DEF Rows, Enveloped
  <2>9. QED
    BY <2>1, <2>4, <2>8
<1>6. QED
  BY <1>4, <1>5

\* The answer a client reads is about the row, and for the caller, that its first slot stands for.
LEMMA FirstSlot ==
    ASSUME Types, SocketsOK, AlignInv, ~skewed, NEW t \in Tabs, Connected(t), down[conn[t]] # << >>,
           Head(down[conn[t]]).kind # "push"
    PROVE  LET m == Head(down[conn[t]])
           IN  /\ m \in Message /\ m.frame \in Frame /\ core[t].inflight # << >>
               /\ \A i \in DOMAIN core[t].outbox :
                    core[t].outbox[i].id = Head(core[t].inflight) => core[t].outbox[i].frame = m.frame
               /\ ~Browser => waiters[t] # << >> /\ Head(waiters[t]) \in {None, m.frame.write}
<1>1. PICK msgs : msgs = down[conn[t]]
  OBVIOUS
<1>2. PICK cmds : cmds = up[conn[t]]
  OBVIOUS
<1>3. PICK m : m = Head(msgs)
  OBVIOUS
<1>4. msgs \in Seq(Message) /\ cmds \in Seq(Frame) /\ msgs # << >> /\ m.kind # "push"
  BY <1>1, <1>2, <1>3 DEF SocketsOK, Types, NetworkTypes
<1>5. m \in Message /\ m = msgs[1] /\ Len(msgs) \in Nat \ {0} /\ DOMAIN msgs = 1..Len(msgs)
  BY <1>3, <1>4
<1>6. PICK u : u = Unanswered(msgs, cmds)
  OBVIOUS
<1>7. u \in Seq(Frame) /\ Len(u) >= 1 /\ u[1] = m.frame
  <2> DEFINE K == Places(msgs)
             L == {i \in 1..Len(msgs) : i + 1 \in K}
             a == AnswersIn(msgs)
             q == FramesOf(a)
  <2>1. 1 \in K
    BY <1>4, <1>5 DEF Places
  <2>2. \A i \in 1..(Len(msgs) - 1) : i \in L <=> i + 1 \in K
    BY <1>5
  <2>3. a = Kept(msgs, K) /\ a \in Seq(Message) /\ q \in Seq(Frame) /\ Len(q) = Len(a)
        /\ \A i \in 1..Len(a) : q[i] = a[i].frame
    BY <1>4, AnswersFacts
  <2> HIDE DEF K, L
  <2>4. Kept(msgs, K) # << >> /\ Head(Kept(msgs, K)) = msgs[1]
    BY <1>4, <2>1, <2>2, KeptTail
  <2>5. u \in Seq(Frame) /\ Len(u) = Len(q) + Len(cmds) /\ \A i \in 1..Len(q) : u[i] = q[i]
    BY <1>4, <1>6, UnansweredIs
  <2> HIDE DEF a, q
  <2>6. Len(a) \in Nat \ {0} /\ a[1] = m
    BY <1>5, <2>3, <2>4
  <2>7. 1 \in 1..Len(a) /\ 1 \in 1..Len(q)
    BY <2>3, <2>6
  <2>8. u[1] = m.frame
    BY <2>3, <2>5, <2>6, <2>7
  <2>9. Len(cmds) \in Nat
    BY <1>4
  <2>10. QED
    BY <2>3, <2>5, <2>6, <2>8, <2>9
<1>8. Outstanding(t) = u
  BY <1>1, <1>2, <1>6 DEF Outstanding
<1>9. InStep(t)
  BY DEF AlignInv, Good
<1>10. SlotsFor(core[t].inflight, u, core[t].outbox) /\ (~Browser => WaitersFor(waiters[t], u))
  BY <1>8, <1>9 DEF InStep
<1>11. core[t].inflight \in Seq(Option(Nat)) /\ core[t].outbox \in Seq(Row) /\ waiters[t] \in Seq(Option(Nat))
  BY CoreFields DEF Types, ClientTypes
<1>12. PICK s \in Seq(Option(Nat)) : s = core[t].inflight
  BY <1>11
<1>13. Len(s) = Len(u) /\ \A i \in DOMAIN s : \A row \in ToSet(core[t].outbox) : row.id = s[i] => row.frame = u[i]
  BY <1>10, <1>12 DEF SlotsFor
<1>14. s # << >> /\ 1 \in DOMAIN s /\ Head(s) = s[1]
  BY <1>7, <1>12, <1>13
<1>15. \A i \in DOMAIN core[t].outbox : core[t].outbox[i].id = Head(s) => core[t].outbox[i].frame = m.frame
  BY <1>7, <1>13, <1>14 DEF ToSet
<1>16. ASSUME ~Browser PROVE waiters[t] # << >> /\ Head(waiters[t]) \in {None, m.frame.write}
  <2>1. PICK r \in Seq(Option(Nat)) : r = waiters[t]
    BY <1>11
  <2>2. Len(r) = Len(u) /\ \A i \in DOMAIN u : r[i] \in {None, u[i].write}
    BY <1>10, <1>16, <2>1 DEF WaitersFor
  <2>3. r # << >> /\ 1 \in DOMAIN u /\ Head(r) = r[1]
    BY <1>7, <2>1, <2>2
  <2>4. QED
    BY <1>7, <2>1, <2>2, <2>3
<1>17. m.frame \in Frame
  BY <1>4, <1>5, MessageFacts
<1>18. QED
  BY <1>1, <1>3, <1>5, <1>12, <1>14, <1>15, <1>16, <1>17

\* A row is retired by the answer about its write, which says that it was executed, or that it was
\* refused, and is heard, or that it is a duplicate.
LEMMA RowsRetired ==
    ASSUME Sound, AnswersTrue, ~skewed, [Next]_vars, NEW t \in Tabs, Receive(t)
    PROVE  \A h \in Rows(t) : h \in Rows(t)' \/ Closed(h.write)'
<1>1. Types /\ SocketsOK /\ AlignInv /\ FateTypes
  BY DEF Sound
<1>2. Connected(t) /\ down[conn[t]] # << >> /\ (ReceiveReply(t) \/ ReceivePush(t) \/ ReceiveHuge(t))
  BY <1>1, ReceiveIs
<1>3. CASE ReceivePush(t) \/ ReceiveHuge(t)
  <2>1. UNCHANGED core
    BY <1>3 DEF ReceivePush, ReceiveHuge
  <2>2. QED
    BY <2>1 DEF Rows
<1>4. CASE ReceiveReply(t)
  <2>1. PICK m : m = Head(down[conn[t]])
    OBVIOUS
  <2>2. m.kind = "reply" /\ core' = [core EXCEPT ![t] = AckReply(core[t]).core]
    BY <1>4, <2>1, Zenon DEF ReceiveReply
  <2>3. /\ m \in Message /\ m.frame \in Frame /\ core[t].inflight # << >>
        /\ \A i \in DOMAIN core[t].outbox :
             core[t].outbox[i].id = Head(core[t].inflight) => core[t].outbox[i].frame = m.frame
    BY <1>1, <1>2, <2>1, <2>2, FirstSlot
  <2>4. core[t] \in Core /\ core[t].outbox \in Seq(Row)
    BY <1>1, CoreFields DEF Types, ClientTypes
  <2>5. core'[t].outbox = Kept(core[t].outbox, Others(core[t]))
    <3>1. core'[t] = AckReply(core[t]).core
      BY <1>1, <2>2 DEF Types, ClientTypes
    <3>2. QED
      BY <2>3, <2>4, <3>1, AckType
  <2>6. SUFFICES ASSUME NEW h \in Rows(t), ~Closed(h.write)' PROVE h \in Rows(t)'
    OBVIOUS
  <2>7. h.wire # None /\ h \in HeldIn(core[t].outbox)
    BY <2>6 DEF Rows, Enveloped
  <2>8. PICK i \in DOMAIN core[t].outbox : h = core[t].outbox[i].frame
    BY <2>7 DEF HeldIn
  <2>9. core[t].outbox[i].id # Head(core[t].inflight)
    <3>1. SUFFICES ASSUME core[t].outbox[i].id = Head(core[t].inflight) PROVE FALSE
      OBVIOUS
    <3>2. h = m.frame
      BY <2>3, <2>8, <3>1
    <3>3. AnswerTrue(m)
      <4>1. conn[t] \in DOMAIN down /\ down[conn[t]] \in Seq(Message)
        BY <1>1, <1>2 DEF SocketsOK, Types, NetworkTypes
      <4>2. 1 \in DOMAIN down[conn[t]] /\ m = down[conn[t]][1]
        BY <1>2, <2>1, <4>1
      <4>3. QED
        BY <4>1, <4>2 DEF AnswersTrue
    <3>4. /\ h.write \in DOMAIN fate /\ Over(h.write)
          /\ m.answer \in {"applied", "error", "dup"} /\ m.answer \in fate[h.write]
      BY <2>2, <2>7, <3>2, <3>3 DEF AnswerTrue
    <3>5. fate' = Heard(m)
      BY <1>1, <2>1, ReceiveIs
    <3>6. fate[h.write] \subseteq fate'[h.write]
      BY <1>1, <3>4, FateStep DEF Grows
    <3>7. CASE m.answer = "applied"
      BY <2>6, <3>4, <3>6, <3>7 DEF Closed, Settled
    <3>8. CASE m.answer = "error"
      <4>1. fate' = Mark({h.write}, "heard")
        BY <2>2, <3>2, <3>5, <3>8 DEF Heard
      <4>2. "heard" \in fate'[h.write]
        BY <1>1, <3>4, <4>1, MarkIs DEF Fates
      <4>3. QED
        BY <2>6, <4>2 DEF Closed, Settled
    <3>9. CASE m.answer = "dup"
      <4>1. fate[h.write] \cap ({"applied", "error"} \cup {"heard", "dropped", "cleared", "lost"}) # {}
        BY <3>4 DEF Over, Ends
      <4>2. fate'[h.write] \cap {"applied", "heard", "dropped", "cleared", "lost"} # {}
              \/ {"error", "dup"} \subseteq fate'[h.write]
        BY <3>4, <3>6, <3>9, <4>1
      <4>3. QED
        BY <2>6, <4>2 DEF Closed, Settled, Misled
    <3>10. QED
      BY <3>4, <3>7, <3>8, <3>9
  <2>10. i \in Others(core[t])
    BY <2>8, <2>9 DEF Others
  <2>11. PICK x : x = core'[t].outbox
    OBVIOUS
  <2>12. i \in 1..Len(core[t].outbox)
    BY <2>4, <2>8
  <2>13. \E k \in 1..Len(x) : x[k] = core[t].outbox[i]
    <3>1. PICK box : box = core[t].outbox
      OBVIOUS
    <3>2. PICK rest : rest = Others(core[t])
      OBVIOUS
    <3>3. box \in Seq(Row) /\ i \in 1..Len(box) /\ i \in rest
      BY <2>4, <2>10, <2>12, <3>1, <3>2
    <3>4. \E k \in 1..Len(Kept(box, rest)) : Kept(box, rest)[k] = box[i]
      BY ONLY <3>3, KeptAll
    <3>5. x = Kept(box, rest)
      BY <2>5, <2>11, <3>1, <3>2
    <3>6. QED
      BY <3>1, <3>4, <3>5
  <2>14. x \in Seq(Row)
    BY <2>4, <2>5, <2>11, KeptElements
  <2>15. h \in HeldIn(x)
    BY <2>8, <2>13, <2>14 DEF HeldIn
  <2>16. QED
    BY <2>7, <2>11, <2>15 DEF Rows, Enveloped
<1>5. QED
  BY <1>2, <1>3, <1>4

\* Rows that leave the outbox of a client that goes on.
LEMMA RowsLeave ==
    ASSUME Sound, AnswersTrue, ~skewed, [Next]_vars, NEW t \in Tabs,
           Issues(t) \/ BrowserSubscribe(t) \/ Clear(t) \/ Receive(t)
    PROVE  \A h \in Rows(t) : h \in Rows(t)' \/ Closed(h.write)'
<1>1. CASE Issues(t) \/ BrowserSubscribe(t)
  BY <1>1, RowsDropped
<1>2. CASE Receive(t)
  BY <1>2, RowsRetired
<1>3. CASE Clear(t)
  <2>1. SUFFICES ASSUME NEW h \in Rows(t) PROVE Closed(h.write)'
    OBVIOUS
  <2>2. h.write \in DOMAIN fate /\ h.write # None
    BY OwnedIs, OwnedFacts
  <2>3. h.write \in WritesOf(core[t].outbox)
    BY <2>2, WrittenIs DEF Rows, Enveloped
  <2>4. fate' = Mark(WritesOf(core[t].outbox), "cleared")
    BY <1>3 DEF Clear
  <2>5. "cleared" \in fate'[h.write]
    BY <2>2, <2>3, <2>4, MarkIs DEF Fates, Sound
  <2>6. QED
    BY <2>5 DEF Closed, Settled
<1>4. QED
  BY <1>1, <1>2, <1>3

-----------------------------------------------------------------------------
(* What a client has and has sent *)

\* It has sent all it has that is not over, or it sends it now.
LEMMA SendsKept ==
    ASSUME Sound, HasAll, Grows, NEW u \in Tabs,
           Connected(u)' => \A h \in Rows(u)' : \/ h \in OnWire(u)'
                                                \/ Over(h.write)'
                                                \/ /\ h \in Rows(u) /\ Connected(u)
                                                   /\ h \in OnWire(u) => h \in OnWire(u)'
    PROVE  Sends(u)'
<1>1. SUFFICES ASSUME Connected(u)', NEW h \in Rows(u)' PROVE Over(h.write)' \/ h \in Wire(u)'
  BY DEF Sends, Rows
<1>2. h \in OnWire(u)' => h \in Wire(u)'
  BY DEF OnWire, Enveloped
<1>3. ASSUME h \in Rows(u), Connected(u), h \in OnWire(u) => h \in OnWire(u)' PROVE Over(h.write)' \/ h \in Wire(u)'
  <2>1. h.wire # None /\ h.write \in DOMAIN fate
    BY <1>3, OwnedIs, OwnedFacts
  <2>2. Over(h.write) \/ h \in Wire(u)
    BY <1>3 DEF HasAll, Sends, Rows
  <2>3. h \in Wire(u) => h \in OnWire(u)
    BY <2>1 DEF OnWire, Enveloped
  <2>4. Over(h.write) => Over(h.write)'
    BY <2>1, OverGrows
  <2>5. QED
    BY <1>2, <1>3, <2>2, <2>3, <2>4
<1>4. QED
  BY <1>1, <1>2, <1>3

\* The steps of a client.
LEMMA SendsTab ==
    ASSUME Sound, HasAll, [Next]_vars, NEW t \in Tabs,
           \/ Prepares(t) \/ RestoreRows(t) \/ ReplaceRows(t) \/ Crash(t) \/ Connect(t) \/ Close(t)
           \/ Commands(t) \/ BrowserSubscribe(t) \/ Issues(t) \/ Clear(t) \/ Receive(t) \/ Commit(t)
    PROVE  \A u \in Tabs : Sends(u)'
<1>1. Types /\ SocketsOK /\ AlignInv /\ FateTypes
  BY DEF Sound
<1>2. Grows
  BY <1>1, FateStep
<1>3. ASSUME NEW u \in Tabs, u # t PROVE Sends(u)'
  <2>1. Stays(u)
    BY <1>1, <1>3, TabStep
  <2>2. Rows(u)' = Rows(u) /\ OnWire(u)' = OnWire(u) /\ (Connected(u)' <=> Connected(u))
    BY <2>1, StaysFacts
  <2>3. QED
    BY <1>2, <2>2, SendsKept
<1>4. SUFFICES Sends(t)'
  BY <1>3
<1>5. conn' = conn => (Connected(t)' <=> Connected(t))
  BY DEF Connected
<1>6. ~Connected(t)' => Sends(t)'
  BY DEF Sends
<1>7. ASSUME conn' = conn, OnWire(t)' = OnWire(t), Rows(t)' \subseteq Rows(t) PROVE Sends(t)'
  BY <1>2, <1>5, <1>7, SendsKept
<1>8. CASE Prepares(t) \/ RestoreRows(t) \/ ReplaceRows(t)
  <2>1. ~Ready(t)
    BY <1>8, Zenon DEF Prepares, Begins, Opened, Settles, AdoptIdentity, ReadEpoch, BumpEpoch, ReplayLog,
                       RestoreRows, ReplaceRows, Ready
  <2>2. ~Connected(t)
    BY <1>1, <2>1 DEF SocketsOK
  <2>3. conn' = conn
    BY <1>1, <1>8, WireMoves
  <2>4. QED
    BY <1>5, <1>6, <2>2, <2>3
<1>9. CASE Crash(t) \/ Close(t)
  BY <1>1, <1>6, <1>9, WireMoves
<1>10. CASE Clear(t)
  <2>1. Rows(t)' = {} /\ OnWire(t)' = OnWire(t) /\ conn' = conn
    BY <1>1, <1>10, RowsMove, WireMoves
  <2>2. QED
    BY <1>7, <2>1
<1>11. CASE Commands(t) \/ Commit(t)
  <2>1. Rows(t)' = Rows(t) /\ OnWire(t)' = OnWire(t) /\ conn' = conn
    BY <1>1, <1>11, RowsMove, WireMoves
  <2>2. QED
    BY <1>7, <2>1
<1>12. CASE BrowserSubscribe(t)
  <2>1. Rows(t)' \subseteq Rows(t) /\ OnWire(t)' = OnWire(t) /\ conn' = conn
    BY <1>1, <1>12, RowsMove, WireMoves
  <2>2. QED
    BY <1>7, <2>1
<1>13. CASE Receive(t)
  <2>1. Rows(t)' \subseteq Rows(t)
    BY <1>1, <1>13, RowsMove
  <2>2. (OnWire(t)' = OnWire(t) /\ conn' = conn) \/ ~Connected(t)'
    BY <1>1, <1>13, WireMoves
  <2>3. QED
    BY <1>6, <1>7, <2>1, <2>2
<1>14. CASE Connect(t)
  <2>1. Rows(t)' = Rows(t) /\ OnWire(t)' = Rows(t)
    BY <1>1, <1>14, RowsMove, WireMoves
  <2>2. QED
    BY <1>2, <2>1, SendsKept
<1>15. CASE Issues(t)
  <2>1. PICK f : f = NewWrite(t).frame
    OBVIOUS
  <2>2. /\ Rows(t)' \subseteq Rows(t) \cup {f} /\ conn' = conn
        /\ Connected(t) => OnWire(t) \cup {f} \subseteq OnWire(t)'
    BY <1>1, <1>15, <2>1, RowsMove, WireMoves
  <2>3. QED
    BY <1>2, <1>5, <2>2, SendsKept
<1>16. QED
  BY <1>8, <1>9, <1>10, <1>11, <1>12, <1>13, <1>14, <1>15

\* The server answers: what was first on the line is over.
LEMMA SendsServe ==
    ASSUME Sound, PassedOver, HasAll, [Next]_vars, NEW n \in DOMAIN up, Serve(n)
    PROVE  \A u \in Tabs : Sends(u)'
<1>1. Types /\ SocketsOK /\ FateTypes
  BY DEF Sound
<1>2. Grows
  BY <1>1, FateStep
<1>3. PICK f : f = Head(up[n])
  OBVIOUS
<1>4. SUFFICES ASSUME NEW u \in Tabs PROVE Sends(u)'
  OBVIOUS
<1>5. Rows(u)' = Rows(u)
  BY <1>1, OwnedServe
<1>6. conn' = conn /\ Wire(u) \subseteq Wire(u)' \cup {f}
  BY <1>1, <1>3, WireServe
<1>7. f \in Owned => Over(f.write)'
  BY <1>3, ServedOver
<1>8. ASSUME NEW h \in Rows(u)', h \in OnWire(u) PROVE h \in OnWire(u)' \/ Over(h.write)'
  <2>1. h \in Wire(u) /\ h.wire # None
    BY <1>8 DEF OnWire, Enveloped
  <2>2. CASE h = f
    BY <1>7, <1>8, <2>2, OwnedIs
  <2>3. CASE h # f
    BY <1>6, <2>1, <2>3 DEF OnWire, Enveloped
  <2>4. QED
    BY <2>2, <2>3
<1>9. Connected(u)' => Connected(u)
  BY <1>6 DEF Connected
<1>10. QED
  BY <1>2, <1>5, <1>8, <1>9, SendsKept

\* A client keeps in its outbox what is on disk, or on the way to it, and that it is not done with.
LEMMA HasKept ==
    ASSUME Sound, HasAll, Grows, NEW u \in Tabs, phase[u] \in {"replace", "log", "ready"},
           Stored' \cup Puts(u)' \subseteq Stored \cup Puts(u) \cup Rows(u)',
           \A h \in Rows(u) : h \in Rows(u)' \/ Done(h.write)'
    PROVE  Has(u)'
<1>1. SUFFICES ASSUME NEW h \in Stored' \cup Puts(u)' PROVE Done(h.write)' \/ h \in HeldIn(core'[u].outbox)
  BY DEF Has, Puts
<1>2. h \in Rows(u)' => h \in HeldIn(core'[u].outbox)
  BY DEF Rows, Enveloped
<1>3. CASE h \in Stored \cup Puts(u)
  <2>1. h.wire # None /\ h.write \in DOMAIN fate
    BY <1>3, OwnedIs, OwnedFacts
  <2>2. Done(h.write) \/ h \in HeldIn(core[u].outbox)
    BY <1>3 DEF HasAll, Has, Puts
  <2>3. h \in HeldIn(core[u].outbox) => h \in Rows(u)
    BY <2>1 DEF Rows, Enveloped
  <2>4. Done(h.write) => Done(h.write)'
    BY <2>1, OverGrows
  <2>5. QED
    BY <1>2, <2>2, <2>3, <2>4
<1>4. QED
  BY <1>1, <1>2, <1>3

\* An embedded client has no disk.
LEMMA HasEmbed ==
    ASSUME OrderInv', ~Browser'
    PROVE  \A u \in Tabs : Has(u)'
<1>1. (EpochOK /\ ~Browser => Stored = {} /\ \A t \in Tabs : Puts(t) = {} /\ Numbered(t) = {})'
  BY EmbedHasNoDisk, PTL
<1>2. Stored' = {} /\ \A t \in Tabs : Puts(t)' = {}
  BY <1>1 DEF OrderInv
<1>3. QED
  BY <1>2 DEF Has, Puts

\* The steps of the tab of an origin.
LEMMA HasTab ==
    ASSUME Sound, HasAll, AnswersTrue, ~skewed, [Next]_vars, Browser, NEW t \in Tabs,
           \/ Prepares(t) \/ RestoreRows(t) \/ ReplaceRows(t) \/ Crash(t) \/ Connect(t) \/ Close(t)
           \/ Commands(t) \/ BrowserSubscribe(t) \/ Issues(t) \/ Clear(t) \/ Receive(t) \/ Commit(t)
    PROVE  Has(t)'
<1>1. Types /\ SocketsOK /\ AlignInv /\ FateTypes /\ OrderInv /\ DiskOK
  BY DEF Sound, WireInv
<1>2. Grows
  BY <1>1, FateStep
<1>3. phase \in [Tabs -> Phases]
  BY <1>1 DEF Types, ClientTypes
<1>4. phase'[t] \notin {"replace", "log", "ready"} => Has(t)'
  BY DEF Has
<1>5. \A w : Closed(w)' => Done(w)'
  BY <1>2, BrowserDone DEF Grows
<1>6. CASE Begins(t)
  <2>1. phase' = [phase EXCEPT ![t] = "identity"]
    BY <1>6 DEF Begins, Opened
  <2>2. QED
    BY <1>3, <1>4, <2>1
<1>7. CASE Settles(t)
  <2>1. \E p \in {"epoch", "bump", "outbox"} : phase' = [phase EXCEPT ![t] = p]
    BY <1>7, Zenon DEF Settles, AdoptIdentity, ReadEpoch, BumpEpoch
  <2>2. QED
    BY <1>3, <1>4, <2>1
<1>8. CASE Crash(t)
  <2>1. phase' = [phase EXCEPT ![t] = "closed"]
    BY <1>8 DEF Crash
  <2>2. QED
    BY <1>3, <1>4, <2>1
<1>9. CASE RestoreRows(t)
  <2>1. phase[t] = "outbox"
    BY <1>9 DEF RestoreRows
  <2>2. Puts(t) = {}
    BY <1>1, <2>1, NothingYet DEF OrderInv
  <2>3. Puts(t)' = {} /\ Stored' = Stored /\ Rows(t)' = Stored
    BY <1>1, <1>9, <2>2, PutsMove, StoredSame, RowsMove
  <2>4. QED
    BY <2>3 DEF Has, Puts, Rows, Enveloped
<1>10. CASE ReplaceRows(t)
  <2>1. phase[t] = "replace"
    BY <1>10 DEF ReplaceRows
  <2>2. Stored' \subseteq Rows(t) /\ Puts(t)' = Puts(t) /\ Rows(t)' = Rows(t)
    BY <1>1, <1>10, StoredFrom, PutsMove, RowsMove
  <2>3. QED
    BY <1>2, <2>1, <2>2, HasKept
<1>11. CASE ReplayLog(t)
  <2>1. phase[t] = "log"
    BY <1>11 DEF ReplayLog
  <2>2. Stored' = Stored /\ Puts(t)' = Puts(t) /\ Rows(t)' = Rows(t)
    BY <1>1, <1>11, StoredSame, PutsMove, RowsMove DEF Prepares
  <2>3. QED
    BY <1>2, <2>1, <2>2, HasKept
<1>12. CASE Connect(t) \/ Close(t) \/ Commands(t)
  <2>1. phase[t] = "ready"
    BY <1>1, <1>12, CommandsAre DEF Connect, Close, SocketsOK, Ready
  <2>2. Stored' = Stored /\ Puts(t)' = Puts(t) /\ Rows(t)' = Rows(t)
    BY <1>1, <1>12, StoredSame, PutsMove, RowsMove
  <2>3. QED
    BY <1>2, <2>1, <2>2, HasKept
<1>13. CASE BrowserSubscribe(t) \/ Clear(t) \/ Receive(t)
  <2>1. phase[t] = "ready"
    BY <1>1, <1>13 DEF BrowserSubscribe, Clear, Receive, SocketsOK, Ready
  <2>2. Stored' = Stored /\ Puts(t)' \subseteq Puts(t)
    BY <1>1, <1>13, StoredSame, PutsMove
  <2>3. \A h \in Rows(t) : h \in Rows(t)' \/ Done(h.write)'
    BY <1>5, <1>13, RowsLeave
  <2>4. QED
    BY <1>2, <2>1, <2>2, <2>3, HasKept
<1>14. CASE Issues(t)
  <2>1. PICK f : f = NewWrite(t).frame
    OBVIOUS
  <2>2. phase[t] = "ready"
    BY <1>1, <1>14, IssueIs DEF Ready
  <2>3. Stored' = Stored /\ Puts(t)' \subseteq Puts(t) \cup {f}
    BY <1>1, <1>14, <2>1, StoredSame, PutsMove
  <2>4. f \in Rows(t)'
    BY <1>14, <2>1, RowsDropped
  <2>5. \A h \in Rows(t) : h \in Rows(t)' \/ Done(h.write)'
    BY <1>5, <1>14, RowsLeave
  <2>6. QED
    BY <1>2, <2>2, <2>3, <2>4, <2>5, HasKept
<1>15. CASE Commit(t)
  <2>1. tasks[t] # << >>
    BY <1>15 DEF Commit
  <2>2. phase[t] = "ready"
    BY <1>1, <2>1 DEF DiskOK
  <2>3. Stored' \subseteq Stored \cup Puts(t) /\ Puts(t)' \subseteq Puts(t) /\ Rows(t)' = Rows(t)
    BY <1>1, <1>15, StoredFrom, PutsMove, RowsMove
  <2>4. QED
    BY <1>2, <2>2, <2>3, HasKept
<1>16. QED
  BY <1>6, <1>7, <1>8, <1>9, <1>10, <1>11, <1>12, <1>13, <1>14, <1>15 DEF Prepares

\* A client has what is on disk, and has sent what it has, unless it is over.
LEMMA HasStep ==
    ASSUME Sound, OrderInv', PassedOver, HasAll, AnswersTrue, ~skewed, [Next]_vars
    PROVE  HasAll'
<1>1. Types /\ SocketsOK /\ FateTypes /\ Alone
  BY DEF Sound
<1>2. Grows
  BY <1>1, FateStep
<1>3. Browser' <=> Browser
  BY <1>2 DEF Grows, Browser, Setup
<1> DEFINE OK == HasAll'
<1>4. ASSUME NEW t \in Tabs,
             \/ Prepares(t) \/ RestoreRows(t) \/ ReplaceRows(t) \/ Crash(t) \/ Connect(t) \/ Close(t)
             \/ Commands(t) \/ BrowserSubscribe(t) \/ Issues(t) \/ Clear(t) \/ Receive(t) \/ Commit(t)
      PROVE  OK
  <2>1. \A u \in Tabs : Sends(u)'
    BY <1>4, SendsTab
  <2>2. ASSUME NEW u \in Tabs PROVE Has(u)'
    <3>1. CASE Browser
      <4>1. u = t
        BY <1>1, <3>1 DEF Alone
      <4>2. QED
        BY <1>4, <3>1, <4>1, HasTab
    <3>2. CASE ~Browser
      BY <1>3, <3>2, HasEmbed
    <3>3. QED
      BY <3>1, <3>2
  <2>3. QED
    BY <2>1, <2>2 DEF HasAll
<1>5. ASSUME NEW n \in DOMAIN up, Serve(n) PROVE OK
  <2>1. \A u \in Tabs : Sends(u)'
    BY <1>5, SendsServe
  <2>2. ASSUME NEW u \in Tabs PROVE Has(u)'
    <3>1. Stored' = Stored /\ Puts(u)' = Puts(u) /\ Rows(u)' = Rows(u)
      BY <1>1, <1>5, OwnedServe
    <3>2. UNCHANGED phase
      BY <1>5 DEF Serve, client
    <3>3. phase[u] \in {"replace", "log", "ready"} => Has(u)'
      BY <1>2, <3>1, HasKept
    <3>4. phase[u] \notin {"replace", "log", "ready"} => Has(u)'
      BY <3>2 DEF Has
    <3>5. QED
      BY <3>3, <3>4
  <2>3. QED
    BY <2>1, <2>2 DEF HasAll
<1>6. ASSUME (\E n \in DOMAIN up : Push(n) \/ Overgrow(n)) \/ Refuse \/ Tick \/ UNCHANGED vars PROVE OK
  <2>1. UNCHANGED <<scenario, core, phase, conn, tasks, idb, up, fate>>
    BY <1>6 DEF Push, Overgrow, Refuse, Tick, vars, client, browser, network, bounds, history
  <2>2. HasAll' <=> HasAll
    BY <2>1 DEF HasAll, Has, Sends, Done, Closed, Settled, Misled, Over, Ends, Browser, Setup, Stored, OnDisk, Wire, Connected
  <2>3. QED
    BY <2>2
<1> HIDE DEF OK
<1>7. OK
  BY <1>4, <1>5, <1>6, Steps DEF Prepares, Begins, Settles, Issues, Commands
<1>8. QED
  BY <1>7 DEF OK

-----------------------------------------------------------------------------
(* The answers *)

\* What an answer says stays so.
LEMMA AnswerStays ==
    ASSUME Grows, NEW m, AnswerTrue(m)
    PROVE  AnswerTrue(m)'
<1>1. \A w \in DOMAIN fate : /\ w \in DOMAIN fate' /\ fate[w] \subseteq fate'[w]
                             /\ Over(w) => Over(w)'
  BY OverGrows DEF Grows
<1>2. QED
  BY <1>1 DEF AnswerTrue

\* The messages on their way are those that were, or say what is so.
LEMMA AnswersKept ==
    ASSUME Grows, AnswersTrue,
           \A n \in DOMAIN down' : \A i \in DOMAIN down'[n] :
             \/ AnswerTrue(down[n][i])'
             \/ \E k \in DOMAIN down : \E j \in DOMAIN down[k] : down'[n][i] = down[k][j]
    PROVE  AnswersTrue'
<1>1. SUFFICES ASSUME NEW n \in DOMAIN down', NEW i \in DOMAIN down'[n] PROVE AnswerTrue(down[n][i])'
  BY DEF AnswersTrue
<1>2. PICK m : m = down'[n][i]
  OBVIOUS
<1>3. CASE \E k \in DOMAIN down : \E j \in DOMAIN down[k] : m = down[k][j]
  <2>1. AnswerTrue(m)
    BY <1>3 DEF AnswersTrue
  <2>2. AnswerTrue(m)'
    BY <2>1, AnswerStays
  <2>3. QED
    BY <1>2, <2>2 DEF AnswerTrue
<1>4. QED
  BY <1>1, <1>2, <1>3

\* One line changes.
LEMMA AnswersLine ==
    ASSUME Types, Grows, AnswersTrue, NEW n \in DOMAIN down, NEW x \in Seq(Message), down' = [down EXCEPT ![n] = x],
           \A i \in 1..Len(x) : \/ \E j \in DOMAIN down[n] : x[i] = down[n][j]
                                \/ \A m : m = x[i] => AnswerTrue(m)'
    PROVE  AnswersTrue'
<1>1. DOMAIN down' = DOMAIN down /\ \A k \in DOMAIN down : down'[k] = IF k = n THEN x ELSE down[k]
  BY DEF Types, NetworkTypes
<1>2. DOMAIN x = 1..Len(x)
  OBVIOUS
<1>3. ASSUME NEW k \in DOMAIN down', NEW i \in DOMAIN down'[k]
      PROVE  \/ AnswerTrue(down[k][i])'
             \/ \E l \in DOMAIN down : \E j \in DOMAIN down[l] : down'[k][i] = down[l][j]
  <2>1. CASE k # n
    BY <1>1, <1>3, <2>1
  <2>2. CASE k = n
    <3>1. down'[k] = x /\ i \in 1..Len(x)
      BY <1>1, <1>2, <1>3, <2>2
    <3>2. CASE \E j \in DOMAIN down[n] : x[i] = down[n][j]
      BY <3>1, <3>2
    <3>3. CASE \A m : m = x[i] => AnswerTrue(m)'
      <4>1. PICK m : m = x[i]
        OBVIOUS
      <4>2. AnswerTrue(m)'
        BY <3>3, <4>1
      <4>3. QED
        BY <3>1, <4>1, <4>2 DEF AnswerTrue
    <3>4. QED
      BY <3>1, <3>2, <3>3
  <2>3. QED
    BY <2>1, <2>2
<1>4. QED
  BY <1>3, AnswersKept

\* The steps of a client: a line is emptied, or loses its first message.
LEMMA AnswersTab ==
    ASSUME Sound, AnswersTrue, [Next]_vars, NEW t \in Tabs,
           Crash(t) \/ Connect(t) \/ Close(t) \/ Receive(t)
    PROVE  AnswersTrue'
<1>1. Types /\ SocketsOK /\ FateTypes
  BY DEF Sound
<1>2. Grows
  BY <1>1, FateStep
<1>3. Connected(t) => conn[t] \in DOMAIN down /\ down[conn[t]] \in Seq(Message)
  BY <1>1 DEF SocketsOK, Types, NetworkTypes
<1>4. UNCHANGED down => AnswersTrue'
  BY <1>2, AnswersKept
<1>5. Connected(t) /\ down' = [down EXCEPT ![conn[t]] = << >>] => AnswersTrue'
  <2>1. << >> \in Seq(Message) /\ \A i \in 1..Len(<< >>) : FALSE
    OBVIOUS
  <2>2. QED
    BY <1>1, <1>2, <1>3, <2>1, AnswersLine
<1>6. CASE Crash(t)
  BY <1>4, <1>5, <1>6 DEF Crash
<1>7. CASE Close(t)
  BY <1>5, <1>7 DEF Close, HangUp
<1>8. CASE Receive(t)
  <2>1. Connected(t) /\ down[conn[t]] # << >> /\ (ReceiveReply(t) \/ ReceivePush(t) \/ ReceiveHuge(t))
    BY <1>1, <1>8, ReceiveIs
  <2>2. CASE ReceiveHuge(t)
    BY <1>5, <2>1, <2>2 DEF ReceiveHuge, HangUp
  <2>3. CASE ReceiveReply(t) \/ ReceivePush(t)
    <3>1. PICK s \in Seq(Message) : s = down[conn[t]]
      BY <1>3, <2>1
    <3>2. down' = [down EXCEPT ![conn[t]] = Tail(s)]
      <4>1. down' = [down EXCEPT ![conn[t]] = Tail(down[conn[t]])]
        BY <2>3, Zenon DEF ReceiveReply, ReceivePush
      <4>2. QED
        BY <3>1, <4>1
    <3>3. Tail(s) \in Seq(Message) /\ \A i \in 1..Len(Tail(s)) : i + 1 \in DOMAIN s /\ Tail(s)[i] = s[i + 1]
      BY <2>1, <3>1
    <3>4. \A i \in 1..Len(Tail(s)) : \E j \in DOMAIN down[conn[t]] : Tail(s)[i] = down[conn[t]][j]
      BY <3>1, <3>3
    <3>5. PICK x : x = Tail(s)
      OBVIOUS
    <3>6. QED
      BY <1>1, <1>2, <1>3, <2>1, <3>2, <3>3, <3>4, <3>5, AnswersLine
  <2>4. QED
    BY <2>1, <2>2, <2>3
<1>9. CASE Connect(t)
  <2>1. down' = Append(down, << >>) /\ down \in Seq(Seq(Message))
    BY <1>1, <1>9 DEF Connect, Types, NetworkTypes
  <2>2. \A n \in DOMAIN down' : down'[n] = << >> \/ (n \in DOMAIN down /\ down'[n] = down[n])
    BY <2>1
  <2>3. \A n \in DOMAIN down' : \A i \in DOMAIN down'[n] : n \in DOMAIN down /\ down'[n] = down[n]
    BY <2>2
  <2>4. QED
    BY <1>2, <2>3, AnswersKept
<1>10. QED
  BY <1>6, <1>7, <1>8, <1>9

\* The server's steps: the answer about a write says what became of it.
LEMMA AnswersServer ==
    ASSUME Sound, PassedOver, AnswersTrue, [Next]_vars, NEW n \in DOMAIN up, Serve(n) \/ Push(n) \/ Overgrow(n)
    PROVE  AnswersTrue'
<1>1. Types /\ SocketsOK /\ FateTypes
  BY DEF Sound
<1>2. Grows
  BY <1>1, FateStep
<1>3. PICK s \in Seq(Message) : s = down[n]
  BY <1>1 DEF Types, NetworkTypes
<1>4. n \in DOMAIN down /\ DOMAIN s = 1..Len(s)
  BY <1>1, <1>3 DEF Types, NetworkTypes
<1>5. ASSUME NEW m \in Message, AnswerTrue(m)', down' = [down EXCEPT ![n] = Append(s, m)] PROVE AnswersTrue'
  <2>1. PICK x : x = Append(s, m)
    OBVIOUS
  <2>2. x \in Seq(Message) /\ Len(x) = Len(s) + 1 /\ x[Len(s) + 1] = m /\ \A i \in 1..Len(s) : x[i] = s[i]
    BY <2>1
  <2>3. \A i \in 1..Len(x) : i \in 1..Len(s) \/ i = Len(s) + 1
    BY <2>2
  <2>4. \A i \in 1..Len(x) : \/ \E j \in DOMAIN down[n] : x[i] = down[n][j]
                             \/ \A y : y = x[i] => AnswerTrue(y)'
    BY <1>3, <1>4, <1>5, <2>2, <2>3
  <2>5. QED
    BY <1>1, <1>2, <1>4, <1>5, <2>1, <2>2, <2>4, AnswersLine
<1>6. CASE Push(n)
  <2>1. PICK m : m = [kind |-> "push"]
    OBVIOUS
  <2>2. m \in Message /\ m.kind = "push" /\ down' = [down EXCEPT ![n] = Append(s, m)]
    BY <1>3, <1>6, <2>1, MessageFacts DEF Push
  <2>3. AnswerTrue(m)'
    BY <2>2 DEF AnswerTrue
  <2>4. QED
    BY <1>5, <2>2, <2>3
<1>7. CASE Overgrow(n)
  <2>1. PICK x \in Seq(Message) :
             /\ down' = [down EXCEPT ![n] = x] /\ Len(x) = Len(down[n])
             /\ \A j \in 1..Len(x) : x[j] = down[n][j] \/ x[j].kind = "huge"
    BY <1>1, <1>7, OvergrowIs
  <2>2. \A m : m.kind = "huge" => AnswerTrue(m)'
    BY DEF AnswerTrue
  <2>3. \A i \in 1..Len(x) : \/ \E j \in DOMAIN down[n] : x[i] = down[n][j]
                             \/ \A y : y = x[i] => AnswerTrue(y)'
    BY <1>3, <1>4, <2>1, <2>2
  <2>4. QED
    BY <1>1, <1>2, <1>4, <2>1, <2>3, AnswersLine
<1>8. CASE Serve(n)
  <2>1. PICK f : f = Head(up[n])
    OBVIOUS
  <2>2. PICK m : m = [kind |-> "reply", frame |-> f, answer |-> Answer(n, f)]
    OBVIOUS
  <2>3. down' = IF Listening(n) THEN [down EXCEPT ![n] = Append(s, m)] ELSE down
    BY <1>3, <1>8, <2>1, <2>2 DEF Serve
  <2>4. f \in Frame /\ f \in ToSet(up[n])
    BY <1>1, <1>8, <2>1, WireServe
  <2>5. m \in Message /\ m.frame = f /\ m.answer = Answer(n, f)
    BY <2>2, <2>4, AnswerFacts, MessageFacts
  <2>6. CASE ~Listening(n)
    BY <1>2, <2>3, <2>6, AnswersKept
  <2>7. CASE Listening(n)
    <3>1. ASSUME f.wire # None PROVE f \in Owned
      <4>1. PICK u \in Tabs : conn[u] = n
        BY <2>7 DEF Listening
      <4>2. Connected(u)
        BY <1>1, <4>1 DEF Connected, Types, NetworkTypes
      <4>3. f \in OnWire(u)
        BY <2>4, <3>1, <4>1, <4>2 DEF OnWire, Wire, Enveloped
      <4>4. QED
        BY <4>3, OwnedIs
    <3>2. f \in Owned => /\ f.write \in DOMAIN fate' /\ Over(f.write)' /\ Answer(n, f) \in {"applied", "error", "dup"}
                         /\ Answer(n, f) \in fate'[f.write]
      BY <1>8, <2>1, ServedOver
    <3>3. AnswerTrue(m)'
      BY <2>5, <3>1, <3>2 DEF AnswerTrue
    <3>4. QED
      BY <1>5, <2>3, <2>5, <2>7, <3>3
  <2>8. QED
    BY <2>6, <2>7
<1>9. QED
  BY <1>6, <1>7, <1>8

\* Every answer on its way is true.
LEMMA AnswersStep ==
    ASSUME Sound, PassedOver, AnswersTrue, [Next]_vars
    PROVE  AnswersTrue'
<1>1. Types /\ SocketsOK /\ FateTypes
  BY DEF Sound
<1>2. Grows
  BY <1>1, FateStep
<1> DEFINE OK == AnswersTrue'
<1>3. UNCHANGED down => OK
  BY <1>2, AnswersKept
<1>4. ASSUME NEW t \in Tabs, Crash(t) \/ Connect(t) \/ Close(t) \/ Receive(t) PROVE OK
  BY <1>4, AnswersTab
<1>5. ASSUME NEW n \in DOMAIN up, Serve(n) \/ Push(n) \/ Overgrow(n) PROVE OK
  BY <1>5, AnswersServer
<1>6. ASSUME NEW t \in Tabs, Prepares(t) \/ RestoreRows(t) \/ ReplaceRows(t) PROVE OK
  <2>1. UNCHANGED down
    BY <1>6, Zenon DEF Prepares, Begins, Opened, Settles, AdoptIdentity, ReadEpoch, BumpEpoch, ReplayLog, RestoreRows,
                       ReplaceRows, network
  <2>2. QED
    BY <1>3, <2>1
<1>7. ASSUME NEW t \in Tabs, Commands(t) PROVE OK
  BY <1>1, <1>3, <1>7, CommandsAre
<1>8. ASSUME NEW t \in Tabs, Issues(t) PROVE OK
  <2>1. UNCHANGED down
    BY <1>1, <1>8, IssueIs
  <2>2. QED
    BY <1>3, <2>1
<1>9. ASSUME NEW t \in Tabs, BrowserSubscribe(t) \/ Clear(t) \/ Commit(t) PROVE OK
  BY <1>3, <1>9 DEF BrowserSubscribe, Clear, Commit, network
<1>10. Refuse \/ Tick \/ UNCHANGED vars => OK
  BY <1>3 DEF Refuse, Tick, vars, network
<1> HIDE DEF OK
<1>11. OK
  BY <1>4, <1>5, <1>6, <1>7, <1>8, <1>9, <1>10, Steps DEF Prepares, Begins, Settles, Issues, Commands
<1>12. QED
  BY <1>11 DEF OK

-----------------------------------------------------------------------------
(* No write is lost silently *)

\* Where a queued write is.
LEMMA QueuedFrom ==
    ASSUME Types, NEW w \in DOMAIN issued, Queued(w)
    PROVE  (\E h \in Stored : h.write = w) \/ \E u \in Tabs : \E h \in Rows(u) : h.write = w
<1>1. w # None
  BY NoneFacts DEF Types, HistoryTypes
<1>2. ASSUME NEW h \in RowFrame, h.write = w PROVE h.wire # None
  BY <1>1, <1>2, NoneFacts DEF RowFrame
<1>3. CASE w \in {idb.rows[id].write : id \in DOMAIN idb.rows}
  <2>1. PICK id \in DOMAIN idb.rows : idb.rows[id].write = w
    BY <1>3
  <2>2. idb.rows[id] \in RowFrame
    BY <2>1 DEF Types, DiskTypes
  <2>3. idb.rows[id] \in Stored
    BY <1>2, <2>1, <2>2 DEF Stored, OnDisk, Enveloped
  <2>4. QED
    BY <2>1, <2>3
<1>4. CASE \E u \in Tabs : w \in WritesOf(core[u].outbox)
  <2>1. PICK u \in Tabs : w \in WritesOf(core[u].outbox)
    BY <1>4
  <2>2. PICK h \in HeldIn(core[u].outbox) : h.write = w
    BY <2>1, WrittenIs
  <2>3. core[u].outbox \in Seq(Row)
    BY CoreFields DEF Types, ClientTypes
  <2>4. h \in RowFrame
    BY <2>2, <2>3, RowFacts DEF HeldIn
  <2>5. h \in Rows(u)
    BY <1>2, <2>2, <2>4 DEF Rows, Enveloped
  <2>6. QED
    BY <2>2, <2>5
<1>5. QED
  BY <1>3, <1>4 DEF Queued

\* A write that is on disk or in an outbox afterwards is queued.
LEMMA QueuedThen ==
    ASSUME NEW h, h.write # None, h \in Stored' \/ \E u \in Tabs : h \in Rows(u)'
    PROVE  Queued(h.write)'
<1>1. CASE h \in Stored'
  <2>1. \E id \in DOMAIN idb'.rows : h = idb'.rows[id]
    BY <1>1 DEF Stored, OnDisk, Enveloped
  <2>2. QED
    BY <2>1 DEF Queued
<1>2. CASE \E u \in Tabs : h \in Rows(u)'
  <2>1. PICK u \in Tabs : h \in HeldIn(core'[u].outbox)
    BY <1>2 DEF Rows, Enveloped
  <2>2. PICK rows : rows = core'[u].outbox
    OBVIOUS
  <2>3. h.write \in WritesOf(rows)
    BY <2>1, <2>2, WrittenIs
  <2>4. QED
    BY <2>2, <2>3 DEF Queued
<1>3. QED
  BY <1>1, <1>2

\* What was queued still is, or something became of it.
LEMMA LossKept ==
    ASSUME Sound, Grows, NoSilentLoss, ~skewed,
           \A w \in DOMAIN issued' : w \in DOMAIN issued \/ Queued(w)',
           \A h \in Stored : Queued(h.write)' \/ Closed(h.write)',
           \A u \in Tabs : \A h \in Rows(u) : Queued(h.write)' \/ Closed(h.write)'
    PROVE  NoSilentLoss'
<1>1. SUFFICES ASSUME NEW w \in DOMAIN issued, w \in DOMAIN issued' PROVE Queued(w)' \/ Closed(w)'
  BY DEF NoSilentLoss, Closed
<1>2. Types /\ FateTypes
  BY DEF Sound
<1>3. w \in DOMAIN fate
  BY <1>2 DEF FateTypes, Types, HistoryTypes
<1>4. CASE Closed(w)
  BY <1>3, <1>4, OverGrows
<1>5. CASE Queued(w)
  <2>1. (\E h \in Stored : h.write = w) \/ \E u \in Tabs : \E h \in Rows(u) : h.write = w
    BY <1>2, <1>5, QueuedFrom
  <2>2. QED
    BY <2>1
<1>6. QED
  BY <1>4, <1>5 DEF NoSilentLoss, Closed

\* The steps of a client.
LEMMA LossTab ==
    ASSUME Sound, HasAll, AnswersTrue, NoSilentLoss, ~skewed, [Next]_vars, NEW t \in Tabs,
           \/ Prepares(t) \/ RestoreRows(t) \/ ReplaceRows(t) \/ Crash(t) \/ Connect(t) \/ Close(t)
           \/ Commands(t) \/ BrowserSubscribe(t) \/ Issues(t) \/ Clear(t) \/ Receive(t) \/ Commit(t)
    PROVE  NoSilentLoss'
<1>1. Types /\ SocketsOK /\ AlignInv /\ FateTypes /\ OrderInv /\ DiskOK
  BY DEF Sound, WireInv
<1>2. Grows
  BY <1>1, FateStep
<1>3. \A h \in Owned : h.write # None /\ h.write \in DOMAIN fate
  BY OwnedFacts
<1>4. Stored \subseteq Owned /\ \A u \in Tabs : Rows(u) \subseteq Owned
  BY OwnedIs
<1>5. ASSUME NEW h \in Owned, h \in Stored' \/ \E u \in Tabs : h \in Rows(u)' PROVE Queued(h.write)'
  BY <1>3, <1>5, QueuedThen
<1>6. ASSUME NEW h \in Owned, Done(h.write) PROVE Closed(h.write)'
  BY <1>2, <1>3, <1>6, OverGrows DEF Done
<1>7. ASSUME NEW u \in Tabs, u # t, NEW h \in Rows(u) PROVE Queued(h.write)'
  <2>1. Rows(u)' = Rows(u)
    BY <1>1, <1>7, TabStep, StaysFacts
  <2>2. QED
    BY <1>4, <1>5, <2>1
<1> DEFINE Known == \A w \in DOMAIN issued' : w \in DOMAIN issued \/ Queued(w)'
<1>8. Known
  <2>1. CASE Issues(t)
    <3>1. PICK f : f = NewWrite(t).frame
      OBVIOUS
    <3>2. f.write = Len(issued) + 1
      BY <2>1, <3>1, NewestWrite DEF Sound, WireInv
    <3>3. f \in Rows(t)'
      BY <2>1, <3>1, RowsDropped
    <3>4. Len(issued') = Len(issued) + 1
      BY <1>1, <2>1, IssueIs
    <3>5. Len(issued) \in Nat /\ DOMAIN issued = 1..Len(issued)
      BY <1>1 DEF Types, HistoryTypes
    <3>6. (Types /\ SocketsOK)'
      BY <1>1, TypesStep
    <3>7. DOMAIN issued' = 1..Len(issued')
      BY <3>6 DEF Types, HistoryTypes
    <3>8. \A w \in DOMAIN issued' : w \in DOMAIN issued \/ w = f.write
      BY <3>2, <3>4, <3>5, <3>7
    <3>9. Queued(f.write)'
      BY <3>2, <3>3, <3>5, NoneFacts, QueuedThen
    <3>10. QED
      BY <3>8, <3>9
  <2>2. CASE ~Issues(t)
    <3>1. UNCHANGED issued
      <4>1. CASE Prepares(t) \/ RestoreRows(t) \/ ReplaceRows(t)
        BY <4>1, Zenon DEF Prepares, Begins, Opened, Settles, AdoptIdentity, ReadEpoch, BumpEpoch, ReplayLog, RestoreRows,
                           ReplaceRows, history
      <4>2. CASE Crash(t) \/ Connect(t) \/ Close(t) \/ BrowserSubscribe(t) \/ Clear(t) \/ Receive(t) \/ Commit(t)
        BY <4>2 DEF Crash, Connect, Close, BrowserSubscribe, Clear, Receive, Commit, history
      <4>3. CASE Commands(t)
        BY <1>1, <4>3, CommandsAre
      <4>4. QED
        BY <2>2, <4>1, <4>2, <4>3
    <3>2. QED
      BY <3>1
  <2>3. QED
    BY <2>1, <2>2
<1> HIDE DEF Known
<1> DEFINE OK == NoSilentLoss'
<1>9. ASSUME \A h \in Stored : Queued(h.write)' \/ Closed(h.write)', \A h \in Rows(t) : Queued(h.write)' \/ Closed(h.write)'
      PROVE  OK
  <2>1. \A u \in Tabs : \A h \in Rows(u) : Queued(h.write)' \/ Closed(h.write)'
    BY <1>7, <1>9
  <2>2. QED
    BY <1>2, <1>8, <1>9, <2>1, LossKept DEF Known
<1>10. Stored' = Stored => \A h \in Stored : Queued(h.write)'
  BY <1>4, <1>5
<1>11. Rows(t)' = Rows(t) => \A h \in Rows(t) : Queued(h.write)'
  BY <1>4, <1>5
<1>12. ASSUME phase[t] \in {"replace", "log", "ready"}, Rows(t)' = Rows(t), NEW h \in Stored
       PROVE  Queued(h.write)' \/ Closed(h.write)'
  <2>1. Done(h.write) \/ h \in HeldIn(core[t].outbox)
    BY <1>12 DEF HasAll, Has
  <2>2. h \in HeldIn(core[t].outbox) => h \in Rows(t)
    BY <1>12 DEF Rows, Stored, Enveloped
  <2>3. QED
    BY <1>4, <1>5, <1>6, <1>12, <2>1, <2>2
<1> HIDE DEF OK
<1>13. CASE Begins(t) \/ RestoreRows(t)
  <2>1. phase[t] \in {"closed", "outbox"}
    BY <1>13, Zenon DEF Begins, Opened, RestoreRows
  <2>2. Rows(t) = {}
    BY <1>1, <2>1, NothingYet DEF OrderInv, Begun
  <2>3. Stored' = Stored
    BY <1>1, <1>13, StoredSame DEF Prepares
  <2>4. OK
    BY <1>9, <1>10, <2>2, <2>3
  <2>5. QED
    BY <2>4 DEF OK
<1>14. CASE Settles(t) \/ ReplayLog(t) \/ Connect(t) \/ Close(t) \/ Commands(t)
  <2>1. Stored' = Stored /\ Rows(t)' = Rows(t)
    BY <1>1, <1>14, StoredSame, RowsMove DEF Prepares
  <2>2. OK
    BY <1>9, <1>10, <1>11, <2>1
  <2>3. QED
    BY <2>2 DEF OK
<1>15. CASE ReplaceRows(t) \/ Commit(t)
  <2>1. phase[t] \in {"replace", "log", "ready"}
    <3>1. CASE ReplaceRows(t)
      BY <3>1 DEF ReplaceRows
    <3>2. CASE Commit(t)
      <4>1. tasks[t] # << >>
        BY <3>2 DEF Commit
      <4>2. QED
        BY <1>1, <4>1 DEF DiskOK
    <3>3. QED
      BY <1>15, <3>1, <3>2
  <2>2. Rows(t)' = Rows(t)
    BY <1>1, <1>15, RowsMove
  <2>3. OK
    BY <1>9, <1>11, <1>12, <2>1, <2>2
  <2>4. QED
    BY <2>3 DEF OK
<1>16. CASE Issues(t) \/ BrowserSubscribe(t) \/ Clear(t) \/ Receive(t)
  <2>1. Stored' = Stored
    BY <1>1, <1>16, StoredSame
  <2>2. \A h \in Rows(t) : h \in Rows(t)' \/ Closed(h.write)'
    BY <1>16, RowsLeave
  <2>3. \A h \in Rows(t) : Queued(h.write)' \/ Closed(h.write)'
    BY <1>4, <1>5, <2>2
  <2>4. OK
    BY <1>9, <1>10, <2>1, <2>3
  <2>5. QED
    BY <2>4 DEF OK
<1>17. CASE Crash(t)
  <2>1. Stored' = Stored
    BY <1>1, <1>17, StoredSame
  <2>2. fate' = Mark(WritesOf(core[t].outbox) \ Durable, "lost") /\ UNCHANGED idb
    BY <1>17 DEF Crash
  <2>3. ASSUME NEW h \in Rows(t) PROVE Queued(h.write)' \/ Closed(h.write)'
    <3>1. h.write # None /\ h.write \in DOMAIN fate
      BY <1>3, <1>4
    <3>2. h.write \in WritesOf(core[t].outbox)
      BY <3>1, WrittenIs DEF Rows, Enveloped
    <3>3. CASE h.write \in Durable
      BY <2>2, <3>3 DEF Queued, Durable
    <3>4. CASE h.write \notin Durable
      <4>1. "lost" \in fate'[h.write]
        BY <1>1, <2>2, <3>1, <3>2, <3>4, MarkIs DEF Fates
      <4>2. QED
        BY <4>1 DEF Closed, Settled
    <3>5. QED
      BY <3>3, <3>4
  <2>4. OK
    BY <1>9, <1>10, <2>1, <2>3
  <2>5. QED
    BY <2>4 DEF OK
<1>18. QED
  BY <1>13, <1>14, <1>15, <1>16, <1>17 DEF Prepares

\* Every write is queued, or something became of it.
LEMMA LossStep ==
    ASSUME Sound, HasAll, AnswersTrue, NoSilentLoss, ~skewed, [Next]_vars
    PROVE  NoSilentLoss'
<1> DEFINE OK == NoSilentLoss'
<1>1. ASSUME NEW t \in Tabs,
             \/ Prepares(t) \/ RestoreRows(t) \/ ReplaceRows(t) \/ Crash(t) \/ Connect(t) \/ Close(t)
             \/ Commands(t) \/ BrowserSubscribe(t) \/ Issues(t) \/ Clear(t) \/ Receive(t) \/ Commit(t)
      PROVE  OK
  BY <1>1, LossTab
<1>2. ASSUME (\E n \in DOMAIN up : Serve(n) \/ Push(n) \/ Overgrow(n)) \/ Refuse \/ Tick \/ UNCHANGED vars PROVE OK
  <2>1. UNCHANGED <<core, idb, issued>>
    BY <1>2 DEF Serve, Push, Overgrow, Refuse, Tick, vars, client, browser, history
  <2>2. Types /\ SocketsOK /\ FateTypes
    BY DEF Sound
  <2>3. Grows
    BY <2>2, FateStep
  <2>4. ASSUME NEW w \in DOMAIN issued PROVE Queued(w)' \/ Closed(w)'
    <3>1. w \in DOMAIN fate
      BY <2>2 DEF FateTypes, Types, HistoryTypes
    <3>2. Queued(w)' <=> Queued(w)
      BY <2>1 DEF Queued
    <3>3. Closed(w) => Closed(w)'
      BY <2>3, <3>1, OverGrows
    <3>4. QED
      BY <3>2, <3>3 DEF NoSilentLoss, Closed
  <2>5. QED
    BY <2>1, <2>4 DEF NoSilentLoss, Closed
<1> HIDE DEF OK
<1>3. OK
  BY <1>1, <1>2, Steps DEF Prepares, Begins, Settles, Issues, Commands
<1>4. QED
  BY <1>3 DEF OK

\* An outbox once cleared under answers on their way stays so marked, and only a browser clears one.
LEMMA SkewStep ==
    ASSUME Types, [Next]_vars
    PROVE  (~skewed' => ~skewed) /\ (~Browser /\ ~skewed => ~skewed')
<1> DEFINE OK == (~skewed' => ~skewed) /\ (~Browser /\ ~skewed => ~skewed')
<1>1. UNCHANGED skewed => OK
  OBVIOUS
<1>2. ASSUME NEW t \in Tabs, Clear(t) PROVE OK
  BY <1>2 DEF Clear
<1>3. ASSUME NEW t \in Tabs, Prepares(t) \/ RestoreRows(t) \/ ReplaceRows(t) PROVE OK
  <2>1. UNCHANGED skewed
    BY <1>3, Zenon DEF Prepares, Begins, Opened, Settles, AdoptIdentity, ReadEpoch, BumpEpoch, ReplayLog, RestoreRows,
                       ReplaceRows, history
  <2>2. QED
    BY <1>1, <2>1
<1>4. ASSUME NEW t \in Tabs, Crash(t) \/ Connect(t) \/ Close(t) \/ BrowserSubscribe(t) \/ Receive(t) \/ Commit(t) PROVE OK
  BY <1>1, <1>4 DEF Crash, Connect, Close, BrowserSubscribe, Receive, Commit, history
<1>5. ASSUME NEW t \in Tabs, Commands(t) PROVE OK
  BY <1>1, <1>5, CommandsAre
<1>6. ASSUME NEW t \in Tabs, Issues(t) PROVE OK
  <2>1. UNCHANGED skewed
    BY <1>6, IssueIs
  <2>2. QED
    BY <1>1, <2>1
<1>7. ASSUME (\E n \in DOMAIN up : Serve(n) \/ Push(n) \/ Overgrow(n)) \/ Refuse \/ Tick \/ UNCHANGED vars PROVE OK
  BY <1>1, <1>7 DEF Serve, Push, Overgrow, Refuse, Tick, vars, history
<1> HIDE DEF OK
<1>8. OK
  BY <1>2, <1>3, <1>4, <1>5, <1>6, <1>7, Steps DEF Prepares, Begins, Settles, Issues, Commands
<1>9. QED
  BY <1>8 DEF OK

\* The invariant of the fates is kept.
LEMMA FateInvStep ==
    ASSUME Sound, OrderInv', FateInv, [Next]_vars
    PROVE  FateInv'
<1>1. SUFFICES ASSUME ~skewed' PROVE PassedOver' /\ HasAll' /\ AnswersTrue' /\ NoSilentLoss'
  BY DEF FateInv
<1>2. ~skewed
  BY <1>1, SkewStep DEF Sound
<1>3. PassedOver /\ HasAll /\ AnswersTrue /\ NoSilentLoss
  BY <1>2 DEF FateInv
<1>4. QED
  BY <1>2, <1>3, PassedStep, HasStep, AnswersStep, LossStep

-----------------------------------------------------------------------------
(* What callers are told *)

\* In the browser nobody waits.
LEMMA NobodyTold ==
    ASSUME Types, SocketsOK, FateTypes, [Next]_vars, Browser, \A u \in Tabs : waiters[u] = << >>
    PROVE  /\ \A u \in Tabs : waiters'[u] = << >>
           /\ told' = told \/ told' = Append(told, "nobody")
<1> DEFINE OK == (\A u \in Tabs : waiters'[u] = << >>) /\ (told' = told \/ told' = Append(told, "nobody"))
<1>1. waiters \in [Tabs -> Seq(Option(Nat))]
  BY DEF Types, ClientTypes
<1>2. UNCHANGED <<waiters, told>> => OK
  OBVIOUS
<1>3. ASSUME NEW t \in Tabs, waiters' = [waiters EXCEPT ![t] = << >>] PROVE \A u \in Tabs : waiters'[u] = << >>
  BY <1>1, <1>3
<1>4. ASSUME NEW t \in Tabs, HangUp(t) PROVE OK
  <2>1. Awaiting(t) = {}
    BY DEF Awaiting, ToSet
  <2>2. told' = Tell({}, "disconnected")
    BY <1>4, <2>1 DEF HangUp
  <2>3. told' = told
    BY <2>2 DEF Tell, FateTypes
  <2>4. QED
    BY <1>3, <1>4, <2>3 DEF HangUp
<1>5. ASSUME NEW t \in Tabs, Crash(t) \/ Connect(t) PROVE OK
  <2>1. waiters' = [waiters EXCEPT ![t] = << >>] /\ told' = told
    BY <1>5, Zenon DEF Crash, Connect, history
  <2>2. QED
    BY <1>3, <2>1
<1>6. ASSUME NEW t \in Tabs, Close(t) PROVE OK
  BY <1>4, <1>6 DEF Close
<1>7. ASSUME NEW t \in Tabs, Receive(t) PROVE OK
  <2>1. ReceiveReply(t) \/ ReceivePush(t) \/ ReceiveHuge(t)
    BY <1>7, ReceiveIs
  <2>2. CASE ReceivePush(t)
    BY <1>2, <2>2 DEF ReceivePush
  <2>3. CASE ReceiveHuge(t)
    BY <1>4, <2>3 DEF ReceiveHuge
  <2>4. CASE ReceiveReply(t)
    <3>1. \E a : Answered(t, a)
      BY <2>4, Zenon DEF ReceiveReply
    <3>2. waiters' = [waiters EXCEPT ![t] = << >>] /\ told' = told
      BY <3>1 DEF Answered
    <3>3. QED
      BY <1>3, <3>2
  <2>5. QED
    BY <2>1, <2>2, <2>3, <2>4
<1>8. ASSUME NEW t \in Tabs, Issues(t) PROVE OK
  <2>1. waiters' = waiters /\ told' = Append(told, "nobody")
    BY <1>8, IssueIs
  <2>2. QED
    BY <2>1
<1>9. ASSUME NEW t \in Tabs, Commands(t) PROVE OK
  <2>1. told' = told
    BY <1>9, CommandsAre
  <2>2. \E w : Awaits(t, w)
    BY <1>9, Zenon DEF Commands, Read, Query, Unquery, EmbedSubscribe, Command
  <2>3. waiters' = [waiters EXCEPT ![t] = << >>]
    BY <2>2 DEF Awaits
  <2>4. QED
    BY <1>3, <2>1, <2>3
<1>10. ASSUME NEW t \in Tabs, Prepares(t) \/ RestoreRows(t) \/ ReplaceRows(t) PROVE OK
  <2>1. UNCHANGED <<waiters, told>>
    BY <1>10, Zenon DEF Prepares, Begins, Opened, Settles, AdoptIdentity, ReadEpoch, BumpEpoch, ReplayLog, RestoreRows,
                        ReplaceRows, history
  <2>2. QED
    BY <1>2, <2>1
<1>11. ASSUME NEW t \in Tabs, BrowserSubscribe(t) \/ Clear(t) \/ Commit(t) PROVE OK
  BY <1>2, <1>11 DEF BrowserSubscribe, Clear, Commit, client, history
<1>12. ASSUME (\E n \in DOMAIN up : Serve(n) \/ Push(n) \/ Overgrow(n)) \/ Refuse \/ Tick \/ UNCHANGED vars PROVE OK
  BY <1>2, <1>12 DEF Serve, Push, Overgrow, Refuse, Tick, vars, client, history
<1> HIDE DEF OK
<1>13. OK
  BY <1>5, <1>6, <1>7, <1>8, <1>9, <1>10, <1>11, <1>12, Steps DEF Prepares, Begins, Settles, Issues, Commands
<1>14. QED
  BY <1>13 DEF OK

\* Each adapter keeps to its ways.
LEMMA ModeStep ==
    ASSUME Types, SocketsOK, FateTypes, ModeOK, [Next]_vars
    PROVE  ModeOK'
<1>1. scenario' = scenario
  BY FateStep DEF Grows
<1>2. Browser' <=> Browser
  BY <1>1 DEF Browser, Setup
<1>3. CASE ~Browser
  BY <1>2, <1>3, SkewStep DEF ModeOK
<1>4. CASE Browser
  <2>1. (\A u \in Tabs : waiters[u] = << >>) /\ \A w \in DOMAIN told : told[w] = "nobody"
    BY <1>4 DEF ModeOK
  <2>2. (\A u \in Tabs : waiters'[u] = << >>) /\ (told' = told \/ told' = Append(told, "nobody"))
    BY <1>4, <2>1, NobodyTold
  <2>3. told \in Seq(Tidings)
    BY DEF FateTypes, Tidings
  <2>4. \A w \in DOMAIN told' : told'[w] = "nobody"
    BY <2>1, <2>2, <2>3
  <2>5. QED
    BY <1>2, <1>4, <2>2, <2>4 DEF ModeOK
<1>5. QED
  BY <1>3, <1>4

\* What one caller is told is true.
Honest(w) ==
    /\ told[w] = "applied" => "applied" \in fate[w]
    /\ told[w] = "dup" => fate[w] \cap {"applied", "error"} # {}
    /\ told[w] = "error" => "error" \in fate[w]

\* Callers are told nothing new, or that there is nothing to tell, or what is so.
LEMMA ToldKept ==
    ASSUME Types, FateTypes, Grows, ToldTruth,
           \A w \in DOMAIN told' : \/ w \in DOMAIN told /\ told'[w] = told[w]
                                   \/ told'[w] \in {"nobody", "waits", "disconnected"}
                                   \/ Honest(w)'
    PROVE  ToldTruth'
<1>1. DOMAIN told = DOMAIN fate
  BY DEF FateTypes
<1>2. ASSUME NEW w \in DOMAIN told' PROVE Honest(w)'
  <2>1. CASE w \in DOMAIN told /\ told'[w] = told[w]
    <3>1. fate[w] \subseteq fate'[w]
      BY <1>1, <2>1 DEF Grows
    <3>2. Honest(w)
      BY <2>1 DEF ToldTruth, Honest
    <3>3. QED
      BY <2>1, <3>1, <3>2 DEF Honest
  <2>2. CASE told'[w] \in {"nobody", "waits", "disconnected"}
    BY <2>2 DEF Honest
  <2>3. QED
    BY <1>2, <2>1, <2>2
<1>3. QED
  BY <1>2 DEF ToldTruth, Honest

\* An embedded client tells its callers the truth.
LEMMA ToldStep ==
    ASSUME Sound, AnswersTrue, ~skewed, ~Browser, ToldTruth, [Next]_vars
    PROVE  ToldTruth'
<1>1. Types /\ SocketsOK /\ AlignInv /\ FateTypes
  BY DEF Sound
<1>2. Grows
  BY <1>1, FateStep
<1>3. told \in Seq(Tidings) /\ DOMAIN told = DOMAIN fate /\ DOMAIN told = 1..Len(told)
  BY <1>1 DEF FateTypes, Tidings
<1> DEFINE OK == ToldTruth'
<1>4. UNCHANGED told => OK
  BY <1>1, <1>2, ToldKept
<1>5. ASSUME NEW t \in Tabs, HangUp(t) PROVE OK
  <2>1. told' = Tell(Awaiting(t), "disconnected")
    BY <1>5 DEF HangUp
  <2>2. DOMAIN told' = DOMAIN told /\ \A w \in DOMAIN told : told'[w] \in {"disconnected", told[w]}
    BY <1>1, <2>1, TellIs DEF Tidings
  <2>3. QED
    BY <1>1, <1>2, <2>2, ToldKept
<1>6. ASSUME NEW t \in Tabs, Receive(t) PROVE OK
  <2>1. Connected(t) /\ down[conn[t]] # << >> /\ (ReceiveReply(t) \/ ReceivePush(t) \/ ReceiveHuge(t))
    BY <1>1, <1>6, ReceiveIs
  <2>2. CASE ReceivePush(t)
    BY <1>4, <2>2 DEF ReceivePush
  <2>3. CASE ReceiveHuge(t)
    BY <1>5, <2>3 DEF ReceiveHuge
  <2>4. CASE ReceiveReply(t)
    <3>1. PICK m : m = Head(down[conn[t]])
      OBVIOUS
    <3>2. m.kind = "reply" /\ Answered(t, m.answer)
      BY <2>4, <3>1, Zenon DEF ReceiveReply
    <3>3. m \in Message /\ m.frame \in Frame /\ waiters[t] # << >> /\ Head(waiters[t]) \in {None, m.frame.write}
      BY <1>1, <2>1, <3>1, <3>2, FirstSlot
    <3>4. PICK v : v = Head(waiters[t])
      OBVIOUS
    <3>5. told' = Tell({v}, m.answer)
      BY <3>2, <3>3, <3>4 DEF Answered
    <3>6. m.answer \in Tidings
      BY <3>2, <3>3 DEF Message, Tidings
    <3>7. DOMAIN told' = DOMAIN told /\ \A w \in DOMAIN told : told'[w] = IF w = v THEN m.answer ELSE told[w]
      BY <1>1, <3>5, <3>6, TellIs
    <3>8. ASSUME v \in DOMAIN told PROVE Honest(v)'
      <4>1. v # None
        BY <1>3, <3>8, NoneFacts
      <4>2. v = m.frame.write
        BY <3>3, <3>4, <4>1
      <4>3. m.frame.wire # None
        BY <3>3, <4>1, <4>2, NoneFacts DEF Frame, RowFrame, SessionFrameSet
      <4>4. AnswerTrue(m)
        <5>1. conn[t] \in DOMAIN down /\ down[conn[t]] \in Seq(Message)
          BY <1>1, <2>1 DEF SocketsOK, Types, NetworkTypes
        <5>2. 1 \in DOMAIN down[conn[t]] /\ m = down[conn[t]][1]
          BY <2>1, <3>1, <5>1
        <5>3. QED
          BY <5>1, <5>2 DEF AnswersTrue
      <4>5. /\ Over(v) /\ m.answer \in {"applied", "error", "dup"} /\ m.answer \in fate[v]
        BY <3>2, <4>2, <4>3, <4>4 DEF AnswerTrue
      <4>6. fate[v] \cap {"applied", "error"} # {}
        BY <4>5 DEF Over, Ends
      <4>7. fate[v] \subseteq fate'[v]
        BY <1>2, <1>3, <3>8 DEF Grows
      <4>8. QED
        BY <3>7, <3>8, <4>5, <4>6, <4>7 DEF Honest
    <3>9. QED
      BY <1>1, <1>2, <3>7, <3>8, ToldKept
  <2>5. QED
    BY <2>1, <2>2, <2>3, <2>4
<1>7. ASSUME NEW t \in Tabs, Issues(t) PROVE OK
  <2>1. PICK a \in {"nobody", "waits", "disconnected"} : told' = Append(told, a)
    BY <1>1, <1>7, IssueIs
  <2>2. \A w \in DOMAIN told' : (w \in DOMAIN told /\ told'[w] = told[w]) \/ told'[w] = a
    BY <1>3, <2>1
  <2>3. QED
    BY <1>1, <1>2, <2>2, ToldKept
<1>8. ASSUME NEW t \in Tabs, Close(t) PROVE OK
  BY <1>5, <1>8 DEF Close
<1>9. ASSUME NEW t \in Tabs, Commands(t) PROVE OK
  BY <1>1, <1>4, <1>9, CommandsAre
<1>10. ASSUME NEW t \in Tabs, Prepares(t) \/ RestoreRows(t) \/ ReplaceRows(t) PROVE OK
  <2>1. UNCHANGED told
    BY <1>10, Zenon DEF Prepares, Begins, Opened, Settles, AdoptIdentity, ReadEpoch, BumpEpoch, ReplayLog, RestoreRows,
                        ReplaceRows, history
  <2>2. QED
    BY <1>4, <2>1
<1>11. ASSUME NEW t \in Tabs, Crash(t) \/ Connect(t) \/ BrowserSubscribe(t) \/ Clear(t) \/ Commit(t) PROVE OK
  BY <1>4, <1>11 DEF Crash, Connect, BrowserSubscribe, Clear, Commit, history
<1>12. ASSUME (\E n \in DOMAIN up : Serve(n) \/ Push(n) \/ Overgrow(n)) \/ Refuse \/ Tick \/ UNCHANGED vars PROVE OK
  BY <1>4, <1>12 DEF Serve, Push, Overgrow, Refuse, Tick, vars, history
<1> HIDE DEF OK
<1>13. OK
  BY <1>6, <1>7, <1>8, <1>9, <1>10, <1>11, <1>12, Steps DEF Prepares, Begins, Settles, Issues, Commands
<1>14. QED
  BY <1>13 DEF OK

-----------------------------------------------------------------------------
(* The theorems *)

\* It all holds at first: nothing was written.
LEMMA FateInit == Init => FateTypes /\ ModeOK /\ FateInv /\ ToldTruth
<1> SUFFICES ASSUME Init PROVE FateTypes /\ ModeOK /\ FateInv /\ ToldTruth
  OBVIOUS
<1>1. Types /\ SocketsOK /\ AlignInv /\ OrderInv /\ WireInv
  BY TypesInit, AlignInit, OrderInit, WireInit
<1>2. /\ phase = [t \in Tabs |-> "closed"] /\ conn = [t \in Tabs |-> 0] /\ waiters = [t \in Tabs |-> << >>]
      /\ idb.rows = << >> /\ up = << >> /\ down = << >> /\ issued = << >> /\ fate = << >> /\ told = << >>
      /\ skewed = FALSE
  BY DEF Init
<1>3. FateTypes
  BY <1>2 DEF FateTypes
<1>4. ModeOK
  BY <1>2 DEF ModeOK
<1>5. ToldTruth
  BY <1>2 DEF ToldTruth
<1>6. Owned = {}
  <2>1. Stored = {}
    BY <1>2 DEF Stored, OnDisk, Enveloped
  <2>2. \A u \in Tabs : OwnedBy(u) = {}
    BY <1>1, <1>2, ClosedHasNone DEF WireInv
  <2>3. QED
    BY <2>1, <2>2, OwnedIs
<1>7. PassedOver
  BY <1>6 DEF PassedOver
<1>8. HasAll
  BY <1>2 DEF HasAll, Sends, Has, Connected
<1>9. AnswersTrue /\ NoSilentLoss
  BY <1>2 DEF AnswersTrue, NoSilentLoss
<1>10. QED
  BY <1>3, <1>4, <1>5, <1>7, <1>8, <1>9 DEF FateInv

\* The inductive invariant.  What depends on the order of the wire ids holds where no two tabs share an identity.
EdgeInv ==
    /\ Types /\ SocketsOK /\ AlignInv /\ FateTypes /\ ModeOK
    /\ Alone => OrderInv /\ WireInv /\ FateInv /\ ToldTruth

\* It holds at first.
LEMMA EdgeInit == Init => EdgeInv
BY TypesInit, AlignInit, OrderInit, WireInit, FateInit DEF EdgeInv

\* Every step keeps it.
LEMMA EdgeStep == EdgeInv /\ IdsLeft /\ [Next]_vars => EdgeInv'
<1> SUFFICES ASSUME EdgeInv, IdsLeft, [Next]_vars PROVE EdgeInv'
  OBVIOUS
<1>1. Types /\ SocketsOK /\ AlignInv /\ FateTypes /\ ModeOK
  BY DEF EdgeInv
<1>2. Types' /\ SocketsOK'
  BY <1>1, TypesStep
<1>3. AlignInv'
  BY <1>1, AlignStep
<1>4. FateTypes' /\ Grows
  BY <1>1, FateStep
<1>5. ModeOK'
  BY <1>1, ModeStep
<1>6. scenario' = scenario
  BY <1>4 DEF Grows
<1>7. (Browser' <=> Browser) /\ (Alone' <=> Alone)
  BY <1>6 DEF Alone, Browser, Setup
<1>8. ASSUME Alone PROVE OrderInv' /\ WireInv' /\ FateInv' /\ ToldTruth'
  <2>1. OrderInv /\ WireInv /\ FateInv /\ ToldTruth
    BY <1>8 DEF EdgeInv
  <2>2. Sound
    BY <1>1, <1>8, <2>1 DEF Sound
  <2>3. OrderInv'
    BY <1>1, <1>8, <2>1, OrderStep
  <2>4. WireInv'
    BY <1>1, <1>8, <2>1, WireStep
  <2>5. FateInv'
    BY <2>1, <2>2, <2>3, FateInvStep
  <2>6. ToldTruth'
    <3>1. CASE Browser
      BY <1>5, <1>7, <3>1 DEF ModeOK, ToldTruth
    <3>2. CASE ~Browser
      <4>1. ~skewed
        BY <1>1, <3>2 DEF ModeOK
      <4>2. AnswersTrue
        BY <2>1, <4>1 DEF FateInv
      <4>3. QED
        BY <2>1, <2>2, <3>2, <4>1, <4>2, ToldStep
    <3>3. QED
      BY <3>1, <3>2
  <2>7. QED
    BY <2>3, <2>4, <2>5, <2>6
<1>9. QED
  BY <1>2, <1>3, <1>4, <1>5, <1>7, <1>8 DEF EdgeInv

\* NoSilentLoss for every number of writes, sockets, embedded clients and faults, and every cap of
\* the outbox: a write that on_reply, the cap, clear_persistence or a crash takes out of the outbox
\* and off the disk was executed, refused, reported as dropped, cleared, or lost before it was on
\* disk.  For one tab per origin, and sessions that do not use up their wire ids.
THEOREM NothingLostSilently ==
    ASSUME OneTab
    PROVE  Spec /\ []IdsLeft => []NoSilentLoss
<1>1. EdgeInv => NoSilentLoss
  <2> SUFFICES ASSUME EdgeInv PROVE NoSilentLoss
    OBVIOUS
  <2>1. Alone
    BY OneTabAlone DEF EdgeInv
  <2>2. FateInv
    BY <2>1 DEF EdgeInv
  <2>3. CASE skewed
    BY <2>3 DEF NoSilentLoss
  <2>4. CASE ~skewed
    BY <2>2, <2>4 DEF FateInv
  <2>5. QED
    BY <2>3, <2>4
<1>2. QED
  BY <1>1, EdgeInit, EdgeStep, PTL DEF Spec

\* ToldTruth: what the task of recached-embed tells the caller of a write (executed, already
\* executed, refused) is what the server did with that write, whatever reconnects, evictions and
\* late answers lie between.  Nothing is assumed of the tabs.
THEOREM CallersToldTruth == Spec /\ []IdsLeft => []ToldTruth
<1>1. EdgeInv => ToldTruth
  <2> SUFFICES ASSUME EdgeInv PROVE ToldTruth
    OBVIOUS
  <2>1. CASE Alone
    BY <2>1 DEF EdgeInv
  <2>2. CASE ~Alone
    BY <2>2 DEF EdgeInv, ModeOK, Alone, ToldTruth
  <2>3. QED
    BY <2>1, <2>2
<1>2. QED
  BY <1>1, EdgeInit, EdgeStep, PTL DEF Spec
=============================================================================
