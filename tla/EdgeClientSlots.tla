-------------------------- MODULE EdgeClientSlots ---------------------------
(***************************************************************************)
(* The slots of a client and of its adapter stand for the commands the     *)
(* server has still to answer: Aligned, for any number of tabs.            *)
(***************************************************************************)
EXTENDS EdgeClientTypes

-----------------------------------------------------------------------------
(* The slots of one tab *)

\* The steps before the rows are restored.
Early == {"closed", "identity", "epoch", "bump", "outbox"}

\* A step of one tab, on its socket.
OnlyTab(t) ==
    /\ \A u \in Tabs : u # t => /\ core'[u] = core[u] /\ phase'[u] = phase[u]
                                /\ conn'[u] = conn[u] /\ waiters'[u] = waiters[u]
    /\ scenario' = scenario /\ (skewed => skewed')
    /\ \A n \in DOMAIN up : n # conn[t] => up'[n] = up[n] /\ down'[n] = down[n]

\* The other tabs do not notice.
LEMMA OthersGood ==
    ASSUME SocketsOK, AlignInv, NEW t \in Tabs, OnlyTab(t)
    PROVE  \A u \in Tabs : u # t => Good(u)'
<1> SUFFICES ASSUME NEW u \in Tabs, u # t PROVE Good(u)'
  OBVIOUS
<1>1. /\ core'[u] = core[u] /\ phase'[u] = phase[u] /\ conn'[u] = conn[u]
      /\ waiters'[u] = waiters[u] /\ scenario' = scenario /\ (skewed => skewed')
  BY DEF OnlyTab
<1>2. RowsOK(core[u]) /\ Starting(u) /\ InStep(u)
  BY DEF AlignInv, Good
<1>3. RowsOK(core[u])'
  BY <1>1, <1>2 DEF RowsOK
<1>4. Starting(u)'
  BY <1>1, <1>2 DEF Starting
<1>5. InStep(u)'
  <2>1. CASE conn[u] = 0
    BY <1>1, <2>1 DEF InStep, Connected
  <2>2. CASE conn[u] # 0
    <3>1. conn[u] \in DOMAIN up /\ conn[u] # conn[t]
      BY <2>2 DEF SocketsOK, Connected
    <3>2. up'[conn[u]] = up[conn[u]] /\ down'[conn[u]] = down[conn[u]]
      BY <3>1 DEF OnlyTab
    <3>3. Outstanding(u)' = Outstanding(u)
      BY <1>1, <3>2 DEF Outstanding
    <3>4. Browser' = Browser
      BY <1>1 DEF Browser, Setup
    <3>5. QED
      BY <1>1, <1>2, <3>3, <3>4 DEF InStep, Connected
  <2>3. QED
    BY <2>1, <2>2
<1>6. QED
  BY <1>3, <1>4, <1>5 DEF Good

\* A tab without a socket.
LEMMA GoodOffline ==
    ASSUME NEW t \in Tabs, conn'[t] = 0, NEW x, core'[t] = x, RowsOK(x),
           phase'[t] \in Early => x.outbox = << >> /\ x.inflight = << >> /\ x.seq = 0
    PROVE  Good(t)'
<1>1. RowsOK(core[t])'
  BY DEF RowsOK
<1>2. Starting(t)'
  BY DEF Starting, Early
<1>3. InStep(t)'
  BY DEF InStep, Connected
<1>4. QED
  BY <1>1, <1>2, <1>3 DEF Good

\* A tab with a socket.
LEMMA GoodOnline ==
    ASSUME NEW t \in Tabs, phase'[t] = "ready", NEW x, core'[t] = x, RowsOK(x),
           NEW msgs, down'[conn'[t]] = msgs, NEW cmds, up'[conn'[t]] = cmds,
           ~skewed' => /\ SlotsFor(x.inflight, Unanswered(msgs, cmds), x.outbox)
                       /\ ~Browser' => WaitersFor(waiters'[t], Unanswered(msgs, cmds))
    PROVE  Good(t)'
<1>1. RowsOK(core[t])'
  BY DEF RowsOK
<1>2. Starting(t)'
  BY DEF Starting
<1>3. Outstanding(t)' = Unanswered(msgs, cmds)
  BY DEF Outstanding
<1>4. InStep(t)'
  BY <1>3 DEF InStep, Connected
<1>5. QED
  BY <1>1, <1>2, <1>4 DEF Good

\* Nothing happens to the slots of any tab.
LEMMA AllSame ==
    ASSUME AlignInv, UNCHANGED <<core, phase, conn, waiters, up, down, scenario, skewed>>
    PROVE  AlignInv'
<1> SUFFICES ASSUME NEW u \in Tabs PROVE Good(u)'
  BY DEF AlignInv
<1>1. Good(u)
  BY DEF AlignInv
<1>2. QED
  BY <1>1 DEF Good, RowsOK, Starting, InStep, Connected, Outstanding, Browser, Setup

-----------------------------------------------------------------------------
(* The steps of a tab that starts or ends *)

\* The tab changes by itself.
LEMMA OneTabGood ==
    ASSUME SocketsOK, AlignInv, NEW t \in Tabs, OnlyTab(t), Good(t)'
    PROVE  AlignInv'
BY OthersGood DEF AlignInv

\* A tab that is not ready changes its client and its phase.
LEMMA PhaseGood ==
    ASSUME Types, SocketsOK, AlignInv, NEW t \in Tabs, ~Ready(t), NEW x, NEW p,
           core' = [core EXCEPT ![t] = x], phase' = [phase EXCEPT ![t] = p],
           UNCHANGED <<conn, waiters, up, down, scenario, skewed>>, RowsOK(x),
           p \in Early => x.outbox = << >> /\ x.inflight = << >> /\ x.seq = 0
    PROVE  AlignInv'
<1>1. /\ \A u \in Tabs : core'[u] = IF u = t THEN x ELSE core[u]
      /\ \A u \in Tabs : phase'[u] = IF u = t THEN p ELSE phase[u]
  BY DEF Types, ClientTypes
<1>2. conn[t] = 0
  BY DEF SocketsOK, Connected
<1>3. OnlyTab(t)
  BY <1>1 DEF OnlyTab
<1>4. core'[t] = x /\ conn'[t] = 0 /\ phase'[t] = p
  BY <1>1, <1>2
<1>5. Good(t)'
  BY <1>4, GoodOffline
<1>6. QED
  BY <1>3, <1>5, OneTabGood

\* A tab opens.
LEMMA OpenGood ==
    ASSUME Types, SocketsOK, AlignInv, NEW t \in Tabs, NEW p, Opened(t, p)
    PROVE  AlignInv'
<1> DEFINE x == NewClient(FreshClient, Setup.password)
<1>1. /\ core' = [core EXCEPT ![t] = x] /\ phase' = [phase EXCEPT ![t] = p] /\ ~Ready(t)
      /\ UNCHANGED <<conn, waiters, up, down, scenario, skewed>>
  BY DEF Opened, Ready, network, bounds, history
<1>2. x.outbox = << >> /\ x.inflight = << >> /\ x.seq = 0
  BY DEF NewClient
<1> HIDE DEF x
<1>3. QED
  BY <1>1, <1>2, PhaseGood, RowsEmpty

\* Before its rows are restored a tab takes an identity and an epoch.
LEMMA EarlyGood ==
    ASSUME Types, SocketsOK, AlignInv, NEW t \in Tabs, AdoptIdentity(t) \/ ReadEpoch(t) \/ BumpEpoch(t)
    PROVE  AlignInv'
<1>1. /\ core[t].outbox = << >> /\ core[t].inflight = << >> /\ core[t].seq = 0 /\ ~Ready(t)
      /\ UNCHANGED <<conn, waiters, up, down, scenario, skewed>>
  BY DEF AlignInv, Good, Starting, AdoptIdentity, ReadEpoch, BumpEpoch, Ready, browser, network, bounds,
         history
<1>2. core[t] \in Core /\ core \in [Tabs -> Core]
  BY DEF Types, ClientTypes
<1>3. \E x, p : /\ core' = [core EXCEPT ![t] = x] /\ phase' = [phase EXCEPT ![t] = p]
                /\ x.outbox = << >> /\ x.inflight = << >> /\ x.seq = 0
  <2>1. CASE AdoptIdentity(t)
    <3>1. phase' = [phase EXCEPT ![t] = "epoch"]
      BY <2>1 DEF AdoptIdentity
    <3>2. CASE idb.client # None
      <4> DEFINE x == [core[t] EXCEPT !.client = idb.client]
      <4>1. core' = [core EXCEPT ![t] = x]
        BY <1>1, <2>1, <3>2 DEF AdoptIdentity, AdoptClientId, NoWritesYet
      <4>2. x.outbox = << >> /\ x.inflight = << >> /\ x.seq = 0
        BY <1>1, <1>2 DEF Core
      <4> HIDE DEF x
      <4>3. QED
        BY <3>1, <4>1, <4>2
    <3>3. CASE idb.client = None
      <4>1. core' = core
        BY <2>1, <3>3 DEF AdoptIdentity
      <4>2. core' = [core EXCEPT ![t] = core[t]]
        BY <1>2, <4>1
      <4>3. QED
        BY <1>1, <3>1, <4>2
    <3>4. QED
      BY <3>2, <3>3
  <2>2. CASE ReadEpoch(t)
    <3> DEFINE x == [core[t] EXCEPT !.epoch = idb.epoch + 1]
    <3>1. core' = [core EXCEPT ![t] = x] /\ phase' = [phase EXCEPT ![t] = "bump"]
      BY <2>2 DEF ReadEpoch
    <3>2. x.outbox = << >> /\ x.inflight = << >> /\ x.seq = 0
      BY <1>1, <1>2 DEF Core
    <3> HIDE DEF x
    <3>3. QED
      BY <3>1, <3>2
  <2>3. CASE BumpEpoch(t)
    <3>1. core' = core /\ phase' = [phase EXCEPT ![t] = "outbox"]
      BY <2>3 DEF BumpEpoch
    <3>2. core' = [core EXCEPT ![t] = core[t]]
      BY <1>2, <3>1
    <3>3. QED
      BY <1>1, <3>1, <3>2
  <2>4. QED
    BY <2>1, <2>2, <2>3
<1>4. PICK x, p : /\ core' = [core EXCEPT ![t] = x] /\ phase' = [phase EXCEPT ![t] = p]
                  /\ x.outbox = << >> /\ x.inflight = << >> /\ x.seq = 0
  BY <1>3
<1>5. QED
  BY <1>1, <1>4, PhaseGood, RowsEmpty

\* The rows are restored.
LEMMA RestoreRowsGood ==
    ASSUME Types, SocketsOK, AlignInv, NEW t \in Tabs, RestoreRows(t)
    PROVE  AlignInv'
<1> DEFINE frames == InOrder(idb.rows)
           rows == [i \in 1..Len(frames) |-> [id |-> i, frame |-> frames[i]]]
           x == RestoreOutbox(core[t], rows)
<1>1. /\ core' = [core EXCEPT ![t] = x] /\ phase' = [phase EXCEPT ![t] = "replace"] /\ ~Ready(t)
      /\ UNCHANGED <<conn, waiters, up, down, scenario, skewed>>
  BY Zenon DEF RestoreRows, Ready, network, bounds, history
<1>2. core[t] \in Core /\ core[t].outbox = << >> /\ core[t].inflight = << >> /\ core[t].seq = 0
  BY DEF RestoreRows, AlignInv, Good, Starting, Types, ClientTypes
<1>3. frames \in Seq(RowFrame)
  BY InOrderType DEF Types, DiskTypes
<1> HIDE DEF frames
<1>4. RowsOK(x)
  BY <1>2, <1>3, RowsRestore
<1> HIDE DEF x
<1>5. "replace" \notin Early
  BY DEF Early
<1>6. QED
  BY <1>1, <1>4, <1>5, PhaseGood

\* They are written back, and the log is executed.
LEMMA LateGood ==
    ASSUME Types, SocketsOK, AlignInv, NEW t \in Tabs, ReplaceRows(t) \/ ReplayLog(t)
    PROVE  AlignInv'
<1>1. core' = core /\ ~Ready(t) /\ UNCHANGED <<conn, waiters, up, down, scenario, skewed>>
  BY DEF ReplaceRows, ReplayLog, Ready, network, bounds, history
<1>2. PICK p \in {"log", "ready"} : phase' = [phase EXCEPT ![t] = p]
  BY DEF ReplaceRows, ReplayLog
<1>3. core' = [core EXCEPT ![t] = core[t]]
  BY <1>1 DEF Types, ClientTypes
<1>4. RowsOK(core[t])
  BY DEF AlignInv, Good
<1>5. p \notin Early
  BY <1>2 DEF Early
<1>6. QED
  BY <1>1, <1>2, <1>3, <1>4, <1>5, PhaseGood

\* A tab ends.
LEMMA CrashGood ==
    ASSUME Types, SocketsOK, AlignInv, NEW t \in Tabs, Crash(t)
    PROVE  AlignInv'
<1> USE DEF Types
<1> DEFINE x == NewClient(None, FALSE)
<1>1. /\ core' = [core EXCEPT ![t] = x] /\ phase' = [phase EXCEPT ![t] = "closed"]
      /\ conn' = [conn EXCEPT ![t] = 0] /\ waiters' = [waiters EXCEPT ![t] = << >>]
      /\ down' = IF Connected(t) THEN [down EXCEPT ![conn[t]] = << >>] ELSE down
      /\ UNCHANGED <<up, scenario, skewed>>
  BY DEF Crash
<1>2. x.outbox = << >> /\ x.inflight = << >> /\ x.seq = 0
  BY DEF NewClient
<1> HIDE DEF x
<1>3. \A u \in Tabs : /\ core'[u] = IF u = t THEN x ELSE core[u]
                      /\ phase'[u] = IF u = t THEN "closed" ELSE phase[u]
                      /\ conn'[u] = IF u = t THEN 0 ELSE conn[u]
                      /\ waiters'[u] = IF u = t THEN << >> ELSE waiters[u]
  BY <1>1 DEF ClientTypes
<1>4. \A n \in DOMAIN up : n # conn[t] => down'[n] = down[n]
  <2>1. DOMAIN down = DOMAIN up
    BY DEF NetworkTypes
  <2>2. QED
    BY <1>1, <2>1
<1>5. OnlyTab(t)
  BY <1>1, <1>3, <1>4 DEF OnlyTab
<1>6. core'[t] = x /\ conn'[t] = 0
  BY <1>3
<1>7. Good(t)'
  BY <1>2, <1>6, GoodOffline, RowsEmpty
<1>8. QED
  BY <1>5, <1>7, OneTabGood

-----------------------------------------------------------------------------
(* The steps on a socket *)

\* The client hangs up.
LEMMA HangUpGood ==
    ASSUME Types, SocketsOK, AlignInv, NEW t \in Tabs, Connected(t), HangUp(t),
           UNCHANGED <<core, phase, scenario, skewed>>,
           \A n \in DOMAIN up : n # conn[t] => up'[n] = up[n]
    PROVE  AlignInv'
<1> USE DEF Types
<1>1. /\ conn' = [conn EXCEPT ![t] = 0] /\ waiters' = [waiters EXCEPT ![t] = << >>]
      /\ down' = [down EXCEPT ![conn[t]] = << >>]
  BY DEF HangUp
<1>2. \A u \in Tabs : /\ conn'[u] = IF u = t THEN 0 ELSE conn[u]
                      /\ waiters'[u] = IF u = t THEN << >> ELSE waiters[u]
  BY <1>1 DEF ClientTypes
<1>3. \A n \in DOMAIN up : n # conn[t] => down'[n] = down[n]
  <2>1. DOMAIN down = DOMAIN up
    BY DEF NetworkTypes
  <2>2. QED
    BY <1>1, <2>1
<1>4. OnlyTab(t)
  BY <1>2, <1>3 DEF OnlyTab
<1>5. core'[t] = core[t] /\ conn'[t] = 0 /\ RowsOK(core[t]) /\ phase'[t] \notin Early
  <2>1. phase[t] = "ready"
    BY DEF SocketsOK, Ready
  <2>2. QED
    BY <1>2, <2>1 DEF AlignInv, Good, Early
<1>6. Good(t)'
  BY <1>5, GoodOffline
<1>7. QED
  BY <1>4, <1>6, OneTabGood

\* The connection breaks.
LEMMA CloseGood ==
    ASSUME Types, SocketsOK, AlignInv, NEW t \in Tabs, Close(t)
    PROVE  AlignInv'
<1>1. Connected(t) /\ HangUp(t) /\ UNCHANGED <<core, phase, scenario, skewed>>
  BY DEF Close
<1>2. PICK x : up' = [up EXCEPT ![conn[t]] = x]
  BY DEF Close
<1>3. \A n \in DOMAIN up : n # conn[t] => up'[n] = up[n]
  BY <1>2 DEF Types, NetworkTypes
<1>4. QED
  BY <1>1, <1>3, HangUpGood

\* Sequences put together with short ones.
LEMMA ConcatEnds ==
    ASSUME NEW S, NEW s \in Seq(S)
    PROVE  /\ s \o << >> = s /\ << >> \o s = s
           /\ \A x \in S : s \o <<x>> = Append(s, x) /\ Append(s, x) \in Seq(S)
<1>1. s \o << >> = s
  OBVIOUS
<1>2. << >> \o s = s
  OBVIOUS
<1>3. ASSUME NEW x \in S PROVE s \o <<x>> = Append(s, x) /\ Append(s, x) \in Seq(S)
  OBVIOUS
<1>4. QED
  BY <1>1, <1>2, <1>3

\* A socket opens.
LEMMA ConnectGood ==
    ASSUME Types, SocketsOK, AlignInv, NEW t \in Tabs, Connect(t)
    PROVE  AlignInv'
<1> USE DEF Types
<1> DEFINE opened == OnOpen(core[t])
           again == channel[t]
           sub == SessionCommand("subscribe")
           last == IF again THEN <<sub>> ELSE << >>
           frames == opened.frames \o last
           x == SessionFrame(opened.core, again)
           n == Len(up) + 1
<1>1. /\ core' = [core EXCEPT ![t] = x] /\ up' = Append(up, frames)
      /\ waiters' = [waiters EXCEPT ![t] = IF Browser THEN << >> ELSE NobodyWaits(frames)]
      /\ down' = Append(down, << >>) /\ conn' = [conn EXCEPT ![t] = n]
      /\ UNCHANGED <<phase, scenario, skewed>>
      /\ Ready(t) /\ ~Connected(t)
  BY DEF Connect, bounds, history
<1>2. core[t] \in Core /\ again \in BOOLEAN /\ RowsOK(core[t])
  BY DEF ClientTypes, AlignInv, Good
<1>3. /\ opened.core \in Core /\ opened.frames \in Seq(Frame)
      /\ opened.core.outbox = core[t].outbox
  BY <1>2, OnOpenType
<1>4. RowsOK(opened.core) /\ SlotsFor(opened.core.inflight, opened.frames, core[t].outbox)
  BY <1>2, RowsOpen
<1>5. sub \in SessionFrameSet /\ sub \in Frame
  BY SessionCommandType
<1> HIDE DEF opened, again, sub
<1>6. /\ x \in Core /\ x.outbox = core[t].outbox /\ x.seq = opened.core.seq
      /\ x.inflight = IF again THEN Append(opened.core.inflight, None) ELSE opened.core.inflight
  BY <1>2, <1>3, SessionFrameType
<1>7. frames \in Seq(Frame) /\ frames = IF again THEN Append(opened.frames, sub) ELSE opened.frames
  <2> DEFINE s == opened.frames
  <2>1. s \in Seq(Frame)
    BY <1>3
  <2> HIDE DEF s
  <2>2. CASE again
    <3>1. frames = s \o <<sub>>
      BY <2>2 DEF s
    <3>2. s \o <<sub>> = Append(s, sub) /\ Append(s, sub) \in Seq(Frame)
      BY ONLY <1>5, <2>1, ConcatEnds
    <3>3. QED
      BY <2>2, <3>1, <3>2 DEF s
  <2>3. CASE ~again
    <3>1. frames = s \o << >>
      BY <2>3 DEF s
    <3>2. s \o << >> = s
      BY ONLY <2>1, ConcatEnds
    <3>3. QED
      BY <2>1, <2>3, <3>1, <3>2 DEF s
  <2>4. QED
    BY <2>2, <2>3
<1> HIDE DEF x, frames
<1>8. RowsOK(x)
  BY <1>3, <1>4, <1>6, RowsSession
<1>9. SlotsFor(x.inflight, frames, x.outbox)
  <2>1. CASE again
    <3>1. core[t].outbox \in Seq(Row) /\ opened.core.inflight \in Seq(Option(Nat))
      BY <1>2, <1>3, CoreFields
    <3>2. SlotsFor(Append(opened.core.inflight, None), Append(opened.frames, sub), core[t].outbox)
      BY <1>3, <1>4, <1>5, <3>1, SlotsSession
    <3>3. QED
      BY <1>6, <1>7, <2>1, <3>2
  <2>2. CASE ~again
    BY <1>4, <1>6, <1>7, <2>2
  <2>3. QED
    BY <2>1, <2>2
<1>10. WaitersFor(NobodyWaits(frames), frames)
  <2>1. DOMAIN frames = 1..Len(frames) /\ Len(frames) \in Nat
    BY <1>7
  <2>2. QED
    BY <2>1 DEF WaitersFor, NobodyWaits
<1>11. Unanswered(<< >>, frames) = frames
  <2>1. << >> \in Seq(Message)
    OBVIOUS
  <2>2. FramesOf(AnswersIn(<< >>)) \in Seq(Frame) /\ Len(FramesOf(AnswersIn(<< >>))) = Len(AnswersIn(<< >>))
    BY <2>1, AnswersFacts
  <2>3. Len(AnswersIn(<< >>)) = 0
    <3>1. /\ AnswersIn(<< >>) = Kept(<< >>, Places(<< >>)) /\ AnswersIn(<< >>) \in Seq(Message)
      BY <2>1, AnswersFacts
    <3>2. \A m \in 1..Len(Kept(<< >>, Places(<< >>))) : \E j \in 1..Len(<< >>) : j \in Places(<< >>)
      BY <2>1, KeptElements
    <3>3. 1..Len(<< >>) = {}
      OBVIOUS
    <3>4. Len(AnswersIn(<< >>)) \in Nat
      BY <3>1
    <3>5. 1 \notin 1..Len(AnswersIn(<< >>))
      BY <3>1, <3>2, <3>3
    <3>6. QED
      BY <3>4, <3>5
  <2>4. FramesOf(AnswersIn(<< >>)) = << >>
    BY <2>2, <2>3
  <2>5. Unanswered(<< >>, frames) = FramesOf(AnswersIn(<< >>)) \o frames
    BY <1>7, <2>1, UnansweredIs
  <2>6. << >> \o frames = frames
    <3>1. frames \in Seq(Frame)
      BY <1>7
    <3>2. QED
      BY ONLY <3>1, ConcatEnds
  <2>7. QED
    BY <2>4, <2>5, <2>6
<1>12. /\ \A u \in Tabs : core'[u] = IF u = t THEN x ELSE core[u]
       /\ \A u \in Tabs : conn'[u] = IF u = t THEN n ELSE conn[u]
       /\ \A u \in Tabs : waiters'[u] = IF u = t THEN (IF Browser THEN << >> ELSE NobodyWaits(frames))
                                                 ELSE waiters[u]
  BY <1>1 DEF ClientTypes
<1>13. /\ up'[n] = frames /\ down'[n] = << >>
       /\ \A i \in DOMAIN up : up'[i] = up[i] /\ down'[i] = down[i]
  <2>1. << >> \in Seq(Message)
    OBVIOUS
  <2>2. up'[n] = frames /\ \A i \in DOMAIN up : up'[i] = up[i]
    BY <1>1, <1>7 DEF NetworkTypes
  <2>3. down'[Len(down) + 1] = << >> /\ \A i \in DOMAIN down : down'[i] = down[i]
    BY <1>1, <2>1 DEF NetworkTypes
  <2>4. DOMAIN down = DOMAIN up /\ Len(down) = Len(up)
    BY DEF NetworkTypes
  <2>5. QED
    BY <2>2, <2>3, <2>4
<1> HIDE DEF n
<1>14. OnlyTab(t)
  <2>1. \A u \in Tabs : u # t => /\ core'[u] = core[u] /\ phase'[u] = phase[u]
                                 /\ conn'[u] = conn[u] /\ waiters'[u] = waiters[u]
    BY <1>1, <1>12
  <2>2. \A i \in DOMAIN up : i # conn[t] => up'[i] = up[i] /\ down'[i] = down[i]
    BY <1>13
  <2>3. QED
    BY <1>1, <2>1, <2>2 DEF OnlyTab
<1>15. /\ core'[t] = x /\ phase'[t] = "ready" /\ down'[conn'[t]] = << >> /\ up'[conn'[t]] = frames
       /\ (~Browser' => waiters'[t] = NobodyWaits(frames))
  <2>1. Browser' = Browser
    BY <1>1 DEF Browser, Setup
  <2>2. QED
    BY <1>1, <1>12, <1>13, <2>1 DEF Ready
<1>16. Good(t)'
  BY <1>8, <1>9, <1>10, <1>11, <1>15, GoodOnline
<1>17. QED
  BY <1>14, <1>16, OneTabGood

\* A command is sent, if there is a socket, and takes its slots.
LEMMA SendGood ==
    ASSUME Types, SocketsOK, AlignInv, NEW t \in Tabs, Ready(t), NEW x, NEW f \in Frame,
           core' = [core EXCEPT ![t] = x], up' = Send(t, f),
           UNCHANGED <<phase, conn, down, scenario, skewed>>,
           \A u \in Tabs : u # t => waiters'[u] = waiters[u],
           NEW w \in {None, f.write},
           ~Browser /\ Connected(t) => waiters'[t] = Append(waiters[t], w),
           RowsOK(x),
           Connected(t) => \A s \in Seq(Frame) : SlotsFor(core[t].inflight, s, core[t].outbox) =>
                             SlotsFor(x.inflight, Append(s, f), x.outbox)
    PROVE  AlignInv'
<1> USE DEF Types
<1>1. \A u \in Tabs : core'[u] = IF u = t THEN x ELSE core[u]
  BY DEF ClientTypes
<1>2. /\ Connected(t) => /\ conn[t] \in DOMAIN up /\ up[conn[t]] \in Seq(Frame)
                         /\ \A i \in DOMAIN up : up'[i] = IF i = conn[t] THEN Append(up[i], f)
                                                                        ELSE up[i]
      /\ ~Connected(t) => up' = up
  BY SendTypes
<1>3. OnlyTab(t)
  BY <1>1, <1>2 DEF OnlyTab
<1>4. CASE ~Connected(t)
  <2>1. conn'[t] = 0 /\ core'[t] = x /\ phase'[t] \notin Early
    BY <1>1, <1>4 DEF Connected, Ready, Early
  <2>2. Good(t)'
    BY <2>1, GoodOffline
  <2>3. QED
    BY <1>3, <2>2, OneTabGood
<1>5. CASE Connected(t)
  <2> DEFINE n == conn[t]
             msgs == down[n]
             cmds == up[n]
             q == Unanswered(msgs, cmds)
  <2>1. msgs \in Seq(Message) /\ cmds \in Seq(Frame) /\ waiters[t] \in Seq(Option(Nat))
    BY <1>2, <1>5 DEF NetworkTypes, ClientTypes
  <2>2. q \in Seq(Frame) /\ Unanswered(msgs, Append(cmds, f)) = Append(q, f)
    BY <2>1, UnansweredIs, UnansweredSend
  <2>3. /\ core'[t] = x /\ phase'[t] = "ready" /\ down'[conn'[t]] = msgs
        /\ up'[conn'[t]] = Append(cmds, f) /\ Browser' = Browser
    BY <1>1, <1>2, <1>5 DEF Ready, Browser, Setup
  <2>4. ~skewed => SlotsFor(core[t].inflight, q, core[t].outbox) /\ (~Browser => WaitersFor(waiters[t], q))
    BY <1>5 DEF AlignInv, Good, InStep, Outstanding
  <2> HIDE DEF msgs, cmds, q
  <2>5. ~skewed => SlotsFor(x.inflight, Append(q, f), x.outbox)
    BY <1>5, <2>2, <2>4
  <2>6. ~skewed /\ ~Browser => WaitersFor(waiters'[t], Append(q, f))
    <3>1. SUFFICES ASSUME ~skewed, ~Browser PROVE WaitersFor(waiters'[t], Append(q, f))
      OBVIOUS
    <3>2. WaitersFor(waiters[t], q) /\ waiters'[t] = Append(waiters[t], w)
      BY <1>5, <2>4, <3>1
    <3>3. WaitersFor(Append(waiters[t], w), Append(q, f))
      BY <2>1, <2>2, <3>2, WaitersStep
    <3>4. QED
      BY <3>2, <3>3
  <2> DEFINE c == Append(cmds, f)
  <2>a. up'[conn'[t]] = c
    BY <2>3
  <2>b. ~skewed' => /\ SlotsFor(x.inflight, Unanswered(msgs, c), x.outbox)
                    /\ ~Browser' => WaitersFor(waiters'[t], Unanswered(msgs, c))
    BY <2>2, <2>3, <2>5, <2>6
  <2> HIDE DEF c
  <2>7. Good(t)'
    BY <2>3, <2>a, <2>b, GoodOnline
  <2>8. QED
    BY <1>3, <2>7, OneTabGood
<1>6. QED
  BY <1>4, <1>5

\* Who awaits an answer.
LEMMA AwaitsIs ==
    ASSUME Types, NEW t \in Tabs, NEW w, Awaits(t, w)
    PROVE  /\ \A u \in Tabs : u # t => waiters'[u] = waiters[u]
           /\ ~Browser /\ Connected(t) => waiters'[t] = Append(waiters[t], w)
BY DEF Types, ClientTypes, Awaits

\* A row is queued, and sent.
LEMMA EnqueuesSlots ==
    ASSUME NEW c \in Core, RowsOK(c), NEW e, NEW write, NEW wire, Enqueues(c, e, write, wire, TRUE)
    PROVE  \A s \in Seq(Frame) : SlotsFor(c.inflight, s, c.outbox) =>
             SlotsFor(e.core.inflight, Append(s, e.frame), e.core.outbox)
<1> SUFFICES ASSUME NEW s \in Seq(Frame), SlotsFor(c.inflight, s, c.outbox)
             PROVE  SlotsFor(e.core.inflight, Append(s, e.frame), e.core.outbox)
  OBVIOUS
<1> DEFINE f == e.frame
           seq == c.seq
           slots == c.inflight
           outbox == c.outbox
<1>1. PICK kept \in Seq(Row) : /\ ToSet(kept) \subseteq ToSet(outbox)
                               /\ e.core.outbox = Append(kept, [id |-> seq, frame |-> f])
  BY RowsEnqueue
<1>2. f \in RowFrame /\ e.core.inflight = Append(slots, seq)
  BY DEF Enqueues
<1>3. seq \in Nat /\ slots \in Seq(Option(Nat)) /\ outbox \in Seq(Row)
  BY CoreFields
<1>4. (\A row \in ToSet(outbox) : row.id < seq) /\ (\A i \in DOMAIN slots : slots[i] < seq)
  BY DEF RowsOK, ToSet
<1>5. SlotsFor(slots, s, outbox)
  OBVIOUS
<1> HIDE DEF f, seq, slots, outbox
<1>6. SlotsFor(Append(slots, seq), Append(s, f), Append(kept, [id |-> seq, frame |-> f]))
  BY <1>1, <1>2, <1>3, <1>4, <1>5, SlotsEnqueue
<1>7. QED
  BY <1>1, <1>2, <1>6 DEF f

\* A write is issued.
LEMMA WriteGood ==
    ASSUME Types, SocketsOK, AlignInv, NEW t \in Tabs, BrowserWrite(t) \/ EmbedWrite(t)
    PROVE  AlignInv'
<1> USE DEF Types
<1> DEFINE e == NewWrite(t)
           w == Len(issued) + 1
           c == core[t]
<1>1. /\ Ready(t) /\ core' = [core EXCEPT ![t] = e.core] /\ up' = Send(t, e.frame)
      /\ UNCHANGED <<phase, conn, down, scenario, skewed>>
      /\ (Browser /\ UNCHANGED waiters) \/ (~Browser /\ Awaits(t, w))
  BY DEF BrowserWrite, EmbedWrite, Enqueued, bounds
<1>2. (\A u \in Tabs : u # t => waiters'[u] = waiters[u])
      /\ (~Browser /\ Connected(t) => waiters'[t] = Append(waiters[t], w))
  BY <1>1, AwaitsIs
<1>3. c \in Core /\ c.client # None /\ RowsOK(c) /\ Connected(t) \in BOOLEAN /\ w \in Nat
  BY <1>1 DEF ClientTypes, Ready, AlignInv, Good, Connected, HistoryTypes
<1>4. Enqueues(c, e, w, WireId(c, c.seq), Connected(t))
  <2>1. e = EnqueueWrite(c, "write", w, TRUE, Connected(t))
    BY DEF NewWrite
  <2> HIDE DEF c, w, e
  <2>2. QED
    BY <1>3, <2>1, WriteEnqueues, Zenon
<1> HIDE DEF c, w, e
<1>5. e.frame \in Frame /\ w \in {None, e.frame.write}
  BY <1>4 DEF Enqueues, Frame
<1>6. RowsOK(e.core)
  BY <1>3, <1>4, RowsEnqueue
<1>7. ASSUME Connected(t)
      PROVE  \A s \in Seq(Frame) : SlotsFor(c.inflight, s, c.outbox) =>
               SlotsFor(e.core.inflight, Append(s, e.frame), e.core.outbox)
  <2>1. Enqueues(c, e, w, WireId(c, c.seq), TRUE)
    BY <1>3, <1>4, <1>7, Zenon
  <2>2. QED
    BY <1>3, <2>1, EnqueuesSlots
<1> DEFINE x == e.core
           f == e.frame
<1>8. /\ core' = [core EXCEPT ![t] = x] /\ up' = Send(t, f) /\ f \in Frame /\ w \in {None, f.write}
      /\ RowsOK(x)
      /\ Connected(t) => \A s \in Seq(Frame) : SlotsFor(core[t].inflight, s, core[t].outbox) =>
                           SlotsFor(x.inflight, Append(s, f), x.outbox)
  BY <1>1, <1>5, <1>6, <1>7 DEF c
<1> HIDE DEF x, f
<1>9. QED
  BY <1>1, <1>2, <1>8, SendGood

\* SUBSCRIBE in the browser is a row.
LEMMA BrowserSubscribeGood ==
    ASSUME Types, SocketsOK, AlignInv, NEW t \in Tabs, BrowserSubscribe(t)
    PROVE  AlignInv'
<1> USE DEF Types
<1> DEFINE e == EnqueueWrite(core[t], "subscribe", None, FALSE, Connected(t))
           c == core[t]
<1>1. /\ Browser /\ Ready(t) /\ core' = [core EXCEPT ![t] = e.core] /\ up' = Send(t, e.frame)
      /\ UNCHANGED <<phase, conn, waiters, down, scenario, skewed>>
  BY DEF BrowserSubscribe
<1>3. c \in Core /\ c.client # None /\ RowsOK(c) /\ Connected(t) \in BOOLEAN
  BY <1>1 DEF ClientTypes, Ready, AlignInv, Good, Connected
<1>4. Enqueues(c, e, None, None, Connected(t))
  BY <1>3, SubscribeEnqueues, Zenon
<1> HIDE DEF c, e
<1>5. e.frame \in Frame
  BY <1>4 DEF Enqueues, Frame
<1>6. RowsOK(e.core)
  BY <1>3, <1>4, RowsEnqueue
<1>7. ASSUME Connected(t)
      PROVE  \A s \in Seq(Frame) : SlotsFor(c.inflight, s, c.outbox) =>
               SlotsFor(e.core.inflight, Append(s, e.frame), e.core.outbox)
  <2>1. Enqueues(c, e, None, None, TRUE)
    BY <1>3, <1>4, <1>7, Zenon
  <2>2. QED
    BY <1>3, <2>1, EnqueuesSlots
<1> DEFINE x == e.core
           f == e.frame
<1>8. /\ core' = [core EXCEPT ![t] = x] /\ up' = Send(t, f) /\ f \in Frame
      /\ RowsOK(x)
      /\ Connected(t) => \A s \in Seq(Frame) : SlotsFor(core[t].inflight, s, core[t].outbox) =>
                           SlotsFor(x.inflight, Append(s, f), x.outbox)
  BY <1>1, <1>5, <1>6, <1>7 DEF c
<1> HIDE DEF x, f
<1>9. QED
  BY <1>1, <1>8, SendGood

\* A command of the session.
LEMMA SessionGood ==
    ASSUME Types, SocketsOK, AlignInv, NEW t \in Tabs, Ready(t), NEW x \in Core, NEW f \in SessionFrameSet,
           core' = [core EXCEPT ![t] = x], up' = Send(t, f), Awaits(t, None),
           UNCHANGED <<phase, conn, down, scenario, skewed>>,
           x.inflight = IF Connected(t) THEN Append(core[t].inflight, None) ELSE core[t].inflight,
           x.outbox = core[t].outbox, x.seq = core[t].seq
    PROVE  AlignInv'
<1> DEFINE c == core[t]
<1>1. c \in Core /\ RowsOK(c) /\ f \in Frame
  BY DEF Types, ClientTypes, AlignInv, Good, Frame
<1>2. x.inflight = c.inflight \/ x.inflight = Append(c.inflight, None)
  OBVIOUS
<1>3. x.outbox = c.outbox /\ x.seq = c.seq
  OBVIOUS
<1> HIDE DEF c
<1>4. RowsOK(x)
  BY <1>1, <1>2, <1>3, RowsSession
<1>5. Connected(t) => \A s \in Seq(Frame) : SlotsFor(c.inflight, s, c.outbox) =>
                        SlotsFor(x.inflight, Append(s, f), x.outbox)
  <2>1. c.inflight \in Seq(Option(Nat)) /\ c.outbox \in Seq(Row)
    BY <1>1, CoreFields
  <2>2. \A s \in Seq(Frame) : SlotsFor(c.inflight, s, c.outbox) =>
          SlotsFor(Append(c.inflight, None), Append(s, f), c.outbox)
    BY <2>1, SlotsSession
  <2>3. QED
    BY <1>3, <2>2 DEF c
<1>6. (\A u \in Tabs : u # t => waiters'[u] = waiters[u])
      /\ (~Browser /\ Connected(t) => waiters'[t] = Append(waiters[t], None))
  BY AwaitsIs
<1>7. Connected(t) => \A s \in Seq(Frame) : SlotsFor(core[t].inflight, s, core[t].outbox) =>
                        SlotsFor(x.inflight, Append(s, f), x.outbox)
  BY <1>5 DEF c
<1>8. QED
  BY <1>1, <1>4, <1>6, <1>7, SendGood

\* Reads and live queries.
LEMMA CommandGood ==
    ASSUME Types, SocketsOK, AlignInv, NEW t \in Tabs, Read(t) \/ Query(t) \/ Unquery(t)
    PROVE  AlignInv'
<1>1. PICK kind \in {"query", "read"}, x \in Core :
             /\ Command(t, kind, x)
             /\ x.inflight = IF Connected(t) THEN Append(core[t].inflight, None)
                                             ELSE core[t].inflight
             /\ x.outbox = core[t].outbox /\ x.seq = core[t].seq
  BY CommandIs
<1>2. /\ Ready(t) /\ core' = [core EXCEPT ![t] = x] /\ up' = Send(t, SessionCommand(kind))
      /\ Awaits(t, None) /\ UNCHANGED <<phase, conn, down, scenario, skewed>>
  BY <1>1 DEF Command, history
<1>3. SessionCommand(kind) \in SessionFrameSet
  BY SessionCommandType
<1>4. QED
  BY <1>1, <1>2, <1>3, SessionGood

\* SUBSCRIBE in the embedded client.
LEMMA EmbedSubscribeGood ==
    ASSUME Types, SocketsOK, AlignInv, NEW t \in Tabs, EmbedSubscribe(t)
    PROVE  AlignInv'
<1> DEFINE x == SessionFrame(core[t], Connected(t))
<1>1. /\ Ready(t) /\ core' = [core EXCEPT ![t] = x] /\ up' = Send(t, SessionCommand("subscribe"))
      /\ Awaits(t, None) /\ UNCHANGED <<phase, conn, down, scenario, skewed>>
  BY DEF EmbedSubscribe
<1>2. core[t] \in Core /\ Connected(t) \in BOOLEAN
  BY DEF Types, ClientTypes, Connected
<1>3. /\ x \in Core /\ x.outbox = core[t].outbox /\ x.seq = core[t].seq
      /\ x.inflight = IF Connected(t) THEN Append(core[t].inflight, None) ELSE core[t].inflight
  BY <1>2, SessionFrameType
<1> HIDE DEF x
<1>4. SessionCommand("subscribe") \in SessionFrameSet
  BY SessionCommandType
<1>5. QED
  BY <1>1, <1>3, <1>4, SessionGood

\* Sign-out: the slots are gone, or there were none.
LEMMA ClearGood ==
    ASSUME Types, SocketsOK, AlignInv, NEW t \in Tabs, Clear(t)
    PROVE  AlignInv'
<1> USE DEF Types
<1> DEFINE x == ClearOutbox(core[t])
           q == Unanswered(down[conn[t]], up[conn[t]])
<1>1. /\ Ready(t) /\ core' = [core EXCEPT ![t] = x] /\ Browser
      /\ skewed' = (skewed \/ (Connected(t) /\ core[t].inflight # << >>))
      /\ UNCHANGED <<phase, conn, waiters, up, down, scenario>>
  BY DEF Clear, network
<1>2. core[t] \in Core
  BY DEF ClientTypes
<1>3. x \in Core /\ x.outbox = << >> /\ x.inflight = << >>
  BY <1>2, ClearType
<1> HIDE DEF x
<1>4. RowsOK(x)
  BY <1>3, RowsEmpty
<1>5. \A u \in Tabs : core'[u] = IF u = t THEN x ELSE core[u]
  BY <1>1 DEF ClientTypes
<1>6. OnlyTab(t)
  BY <1>1, <1>5 DEF OnlyTab
<1>7. CASE ~Connected(t)
  <2>1. conn'[t] = 0 /\ core'[t] = x /\ phase'[t] \notin Early
    BY <1>1, <1>5, <1>7 DEF Connected, Ready, Early
  <2>2. Good(t)'
    BY <1>4, <2>1, GoodOffline
  <2>3. QED
    BY <1>6, <2>2, OneTabGood
<1>8. CASE Connected(t)
  <2>1. ~skewed' => SlotsFor(x.inflight, q, x.outbox)
    <3>1. SUFFICES ASSUME ~skewed' PROVE SlotsFor(x.inflight, q, x.outbox)
      OBVIOUS
    <3>2. ~skewed /\ core[t].inflight = << >>
      BY <1>1, <1>8, <3>1
    <3>3. SlotsFor(core[t].inflight, q, core[t].outbox)
      BY <1>8, <3>2 DEF AlignInv, Good, InStep, Outstanding
    <3> HIDE DEF q
    <3>4. Len(<< >>) = Len(q) /\ DOMAIN << >> = {}
      BY <3>2, <3>3 DEF SlotsFor
    <3>5. QED
      BY <1>3, <3>4 DEF SlotsFor
  <2>2. core'[t] = x /\ phase'[t] = "ready" /\ Browser'
    BY <1>1, <1>5 DEF Ready, Browser, Setup
  <2> DEFINE msgs == down[conn[t]]
             cmds == up[conn[t]]
  <2>3. down'[conn'[t]] = msgs /\ up'[conn'[t]] = cmds
    BY <1>1
  <2>4. ~skewed' => /\ SlotsFor(x.inflight, Unanswered(msgs, cmds), x.outbox)
                    /\ ~Browser' => WaitersFor(waiters'[t], Unanswered(msgs, cmds))
    BY <2>1, <2>2
  <2> HIDE DEF msgs, cmds
  <2>5. Good(t)'
    BY <1>4, <2>2, <2>3, <2>4, GoodOnline
  <2>6. QED
    BY <1>6, <2>5, OneTabGood
<1>9. QED
  BY <1>7, <1>8

-----------------------------------------------------------------------------
(* The steps of the server and of the messages *)

\* What is said on a socket changes, but not what is unanswered.
LEMMA LineGood ==
    ASSUME AlignInv, UNCHANGED <<core, phase, conn, waiters, scenario, skewed>>,
           \A u \in Tabs : Connected(u) => Outstanding(u)' = Outstanding(u)
    PROVE  AlignInv'
<1> SUFFICES ASSUME NEW u \in Tabs PROVE Good(u)'
  BY DEF AlignInv
<1>1. RowsOK(core[u]) /\ Starting(u) /\ InStep(u)
  BY DEF AlignInv, Good
<1>2. RowsOK(core[u])' /\ Starting(u)'
  BY <1>1 DEF RowsOK, Starting
<1>3. Browser' = Browser /\ Connected(u)' = Connected(u)
  BY DEF Browser, Setup, Connected
<1>4. InStep(u)'
  BY <1>1, <1>3 DEF InStep
<1>5. QED
  BY <1>2, <1>4 DEF Good

\* One socket changes so.
LEMMA SocketGood ==
    ASSUME Types, SocketsOK, AlignInv, NEW n \in DOMAIN up,
           UNCHANGED <<core, phase, conn, waiters, scenario, skewed>>,
           \A i \in DOMAIN up : i # n => up'[i] = up[i] /\ down'[i] = down[i],
           Listening(n) => Unanswered(down'[n], up'[n]) = Unanswered(down[n], up[n])
    PROVE  AlignInv'
<1>1. ASSUME NEW u \in Tabs, Connected(u) PROVE Outstanding(u)' = Outstanding(u)
  <2>1. conn[u] \in DOMAIN up /\ conn'[u] = conn[u]
    BY <1>1 DEF SocketsOK
  <2>2. CASE conn[u] = n
    BY <2>1, <2>2 DEF Outstanding, Listening
  <2>3. CASE conn[u] # n
    BY <2>1, <2>3 DEF Outstanding
  <2>4. QED
    BY <2>2, <2>3
<1>2. QED
  BY <1>1, LineGood

\* The server answers a command.
LEMMA ServeGood ==
    ASSUME Types, SocketsOK, AlignInv, NEW n \in DOMAIN up, Serve(n)
    PROVE  AlignInv'
<1> USE DEF Types
<1> DEFINE f == Head(up[n])
           answer == Answer(n, f)
           msg == [kind |-> "reply", frame |-> f, answer |-> answer]
           r == Tail(up[n])
           d == Append(down[n], msg)
<1>1. /\ up[n] # << >> /\ up' = [up EXCEPT ![n] = r]
      /\ down' = IF Listening(n) THEN [down EXCEPT ![n] = d] ELSE down
      /\ UNCHANGED <<core, phase, conn, waiters, scenario, skewed>>
  BY DEF Serve, client, bounds
<1>2. up[n] \in Seq(Frame) /\ n \in DOMAIN down /\ DOMAIN down = DOMAIN up /\ down[n] \in Seq(Message)
  BY DEF NetworkTypes
<1>3. f \in Frame /\ r \in Seq(Frame)
  BY <1>1, <1>2
<1>4. answer \in Answers
  BY <1>3, AnswerFacts
<1>5. msg \in Message /\ msg.kind # "push" /\ msg.frame = f
  BY <1>3, <1>4, MessageFacts
<1> HIDE DEF msg, answer
<1>6. Unanswered(d, r) = Unanswered(down[n], up[n])
  <2> DEFINE ms == down[n]
             cs == up[n]
  <2>1. ms \in Seq(Message) /\ cs \in Seq(Frame) /\ cs # << >> /\ msg.frame = Head(cs)
    BY <1>1, <1>2, <1>5
  <2> HIDE DEF ms, cs
  <2>2. Unanswered(Append(ms, msg), Tail(cs)) = Unanswered(ms, cs)
    BY <1>5, <2>1, UnansweredServe
  <2>3. QED
    BY <2>2 DEF ms, cs
<1> HIDE DEF d, r
<1>7. /\ \A i \in DOMAIN up : up'[i] = IF i = n THEN r ELSE up[i]
      /\ Listening(n) => \A i \in DOMAIN up : down'[i] = IF i = n THEN d ELSE down[i]
      /\ ~Listening(n) => down' = down
  BY <1>1, <1>2 DEF NetworkTypes
<1>8. \A i \in DOMAIN up : i # n => up'[i] = up[i] /\ down'[i] = down[i]
  BY <1>7
<1>9. Listening(n) => Unanswered(down'[n], up'[n]) = Unanswered(down[n], up[n])
  BY <1>6, <1>7
<1>10. QED
  BY <1>1, <1>8, <1>9, SocketGood

\* A push.
LEMMA PushGood ==
    ASSUME Types, SocketsOK, AlignInv, NEW n \in DOMAIN up, Push(n)
    PROVE  AlignInv'
<1> USE DEF Types
<1> DEFINE msg == [kind |-> "push"]
           d == Append(down[n], msg)
<1>1. down' = [down EXCEPT ![n] = d] /\ UNCHANGED <<core, phase, conn, waiters, up, scenario, skewed>>
  BY DEF Push, client, history
<1>2. n \in DOMAIN down /\ DOMAIN down = DOMAIN up /\ down[n] \in Seq(Message) /\ msg \in Message
      /\ msg.kind = "push"
  BY MessageFacts DEF NetworkTypes
<1> HIDE DEF msg
<1>3. Unanswered(d, up[n]) = Unanswered(down[n], up[n])
  BY <1>2, UnansweredPush
<1> HIDE DEF d
<1>4. \A i \in DOMAIN up : down'[i] = IF i = n THEN d ELSE down[i]
  BY <1>1, <1>2
<1>5. (\A i \in DOMAIN up : i # n => up'[i] = up[i] /\ down'[i] = down[i])
      /\ Unanswered(down'[n], up'[n]) = Unanswered(down[n], up[n])
  BY <1>1, <1>3, <1>4
<1>6. QED
  BY <1>1, <1>5, SocketGood

\* An answer too large to parse.
LEMMA OvergrowGood ==
    ASSUME Types, SocketsOK, AlignInv, NEW n \in DOMAIN up, Overgrow(n)
    PROVE  AlignInv'
<1>1. UNCHANGED <<core, phase, conn, waiters, up, scenario, skewed>>
  BY DEF Overgrow, client, history
<1>2. PICK x \in Seq(Message) :
             /\ down' = [down EXCEPT ![n] = x] /\ Len(x) = Len(down[n])
             /\ n \in DOMAIN down /\ down[n] \in Seq(Message)
             /\ \A j \in 1..Len(x) : /\ (x[j].kind = "push") <=> (down[n][j].kind = "push")
                                     /\ down[n][j].kind # "push" => x[j].frame = down[n][j].frame
  BY OvergrowIs
<1>3. Unanswered(x, up[n]) = Unanswered(down[n], up[n])
  BY <1>2, UnansweredHuge
<1>4. DOMAIN down = DOMAIN up
  BY DEF Types, NetworkTypes
<1>5. \A i \in DOMAIN up : down'[i] = IF i = n THEN x ELSE down[i]
  BY <1>2, <1>4
<1>6. (\A i \in DOMAIN up : i # n => up'[i] = up[i] /\ down'[i] = down[i])
      /\ Unanswered(down'[n], up'[n]) = Unanswered(down[n], up[n])
  BY <1>1, <1>3, <1>5
<1>7. QED
  BY <1>1, <1>6, SocketGood

\* A client reads a frame.
LEMMA ReceiveGood ==
    ASSUME Types, SocketsOK, AlignInv, NEW t \in Tabs, Receive(t)
    PROVE  AlignInv'
<1> USE DEF Types
<1> DEFINE n == conn[t]
           m == Head(down[n])
           msgs == down[n]
           cmds == up[n]
           rest == Tail(msgs)
           ack == AckReply(core[t])
           x == ack.core
           q == Unanswered(msgs, cmds)
<1>1. Connected(t) /\ msgs # << >> /\ UNCHANGED <<phase, up, scenario, skewed>>
  BY DEF Receive, bounds
<1>2. n \in DOMAIN up /\ DOMAIN down = DOMAIN up /\ msgs \in Seq(Message) /\ Ready(t) /\ cmds \in Seq(Frame)
  BY <1>1 DEF SocketsOK, NetworkTypes
<1>3. m \in Message
  BY <1>1, <1>2
<1>4. m.kind \in {"reply", "huge", "push"}
  BY <1>3, MessageFacts
<1>5. core[t] \in Core /\ RowsOK(core[t]) /\ core[t].inflight \in Seq(Option(Nat))
      /\ waiters[t] \in Seq(Option(Nat))
  BY CoreFields DEF ClientTypes, AlignInv, Good
<1>6. /\ q \in Seq(Frame)
      /\ m.kind = "push" => Unanswered(rest, cmds) = q
      /\ m.kind # "push" => q # << >> /\ Unanswered(rest, cmds) = Tail(q)
  <2>1. msgs \in Seq(Message) /\ msgs # << >> /\ cmds \in Seq(Frame)
    BY <1>1, <1>2
  <2> HIDE DEF msgs, cmds
  <2>2. /\ Head(msgs).kind = "push" => Unanswered(Tail(msgs), cmds) = Unanswered(msgs, cmds)
        /\ Head(msgs).kind # "push" => /\ Unanswered(msgs, cmds) # << >>
                                       /\ Unanswered(Tail(msgs), cmds) = Tail(Unanswered(msgs, cmds))
    BY <2>1, UnansweredRead
  <2>3. q \in Seq(Frame)
    BY <2>1, UnansweredIs
  <2>4. QED
    BY <2>2, <2>3 DEF msgs
<1>7. ~skewed => SlotsFor(core[t].inflight, q, core[t].outbox) /\ (~Browser => WaitersFor(waiters[t], q))
  BY <1>1 DEF AlignInv, Good, InStep, Outstanding
<1>8. CASE m.kind = "reply"
  <2>1. /\ core' = [core EXCEPT ![t] = x] /\ down' = [down EXCEPT ![n] = rest] /\ UNCHANGED conn
        /\ waiters' = [waiters EXCEPT ![t] = IF waiters[t] = << >> THEN waiters[t] ELSE Tail(waiters[t])]
    BY <1>8 DEF Receive, Answered
  <2>2. RowsOK(x)
    <3>1. CASE core[t].inflight = << >>
      <4>1. x = core[t]
        BY <3>1, AckNothing
      <4> HIDE DEF x
      <4>2. QED
        BY <1>5, <4>1
    <3>2. CASE core[t].inflight # << >>
      BY <1>5, <3>2, RowsAck
    <3>3. QED
      BY <3>1, <3>2
  <2>3. ~skewed => SlotsFor(x.inflight, Tail(q), x.outbox)
    <3>1. SUFFICES ASSUME ~skewed PROVE SlotsFor(x.inflight, Tail(q), x.outbox)
      OBVIOUS
    <3> HIDE DEF q
    <3>2. q # << >> /\ SlotsFor(core[t].inflight, q, core[t].outbox)
      BY <1>6, <1>7, <1>8, <3>1
    <3>3. core[t].inflight # << >>
      <4>1. Len(core[t].inflight) = Len(q) /\ Len(q) # 0
        BY <1>6, <3>2 DEF SlotsFor
      <4>2. QED
        BY <4>1
    <3>4. x.inflight = Tail(core[t].inflight) /\ ToSet(x.outbox) \subseteq ToSet(core[t].outbox)
      BY <1>5, <3>3, AckType, RowsAck
    <3> HIDE DEF x
    <3> DEFINE slots == core[t].inflight
               outbox == core[t].outbox
               kept == x.outbox
    <3>5. /\ slots \in Seq(Option(Nat)) /\ SlotsFor(slots, q, outbox) /\ slots # << >>
          /\ ToSet(kept) \subseteq ToSet(outbox) /\ q \in Seq(Frame)
      BY <1>5, <1>6, <3>2, <3>3, <3>4
    <3> HIDE DEF slots, outbox, kept
    <3>6. SlotsFor(Tail(slots), Tail(q), kept)
      BY <3>5, SlotsAck
    <3>7. QED
      BY <3>4, <3>6 DEF slots, kept
  <2> HIDE DEF x, q, m
  <2>4. \A u \in Tabs : /\ core'[u] = IF u = t THEN x ELSE core[u]
                        /\ u # t => waiters'[u] = waiters[u]
    BY <2>1 DEF ClientTypes
  <2>5. waiters'[t] = IF waiters[t] = << >> THEN waiters[t] ELSE Tail(waiters[t])
    BY <2>1 DEF ClientTypes
  <2>6. ~skewed /\ ~Browser => WaitersFor(waiters'[t], Tail(q))
    <3>1. SUFFICES ASSUME ~skewed, ~Browser PROVE WaitersFor(waiters'[t], Tail(q))
      OBVIOUS
    <3>2. WaitersFor(waiters[t], q) /\ q # << >>
      BY <1>6, <1>7, <1>8, <3>1
    <3>3. waiters[t] # << >> /\ WaitersFor(Tail(waiters[t]), Tail(q))
      BY <1>5, <1>6, <3>2, WaitersStep
    <3>4. QED
      BY <2>5, <3>3
  <2>7. \A i \in DOMAIN up : down'[i] = IF i = n THEN rest ELSE down[i]
    BY <1>2, <2>1
  <2>8. OnlyTab(t)
    BY <1>1, <2>1, <2>4, <2>7 DEF OnlyTab
  <2>9. /\ core'[t] = x /\ phase'[t] = "ready" /\ down'[conn'[t]] = rest /\ up'[conn'[t]] = cmds
        /\ Browser' = Browser
    BY <1>1, <1>2, <2>1, <2>4, <2>7 DEF Ready, Browser, Setup
  <2>10. Unanswered(rest, cmds) = Tail(q)
    BY <1>6, <1>8
  <2> HIDE DEF rest, cmds
  <2>11. ~skewed' => /\ SlotsFor(x.inflight, Unanswered(rest, cmds), x.outbox)
                     /\ ~Browser' => WaitersFor(waiters'[t], Unanswered(rest, cmds))
    BY <1>1, <2>3, <2>6, <2>9, <2>10
  <2>12. Good(t)'
    BY <2>2, <2>9, <2>11, GoodOnline
  <2>13. QED
    BY <2>8, <2>12, OneTabGood
<1>9. CASE m.kind = "push"
  <2>1. down' = [down EXCEPT ![n] = rest] /\ UNCHANGED <<core, conn, waiters>>
    BY <1>9 DEF Receive
  <2>2. \A i \in DOMAIN up : down'[i] = IF i = n THEN rest ELSE down[i]
    BY <1>2, <2>1
  <2>3. (\A i \in DOMAIN up : i # n => up'[i] = up[i] /\ down'[i] = down[i])
        /\ Unanswered(down'[n], up'[n]) = Unanswered(down[n], up[n])
    BY <1>1, <1>2, <1>6, <1>9, <2>2
  <2>4. QED
    BY <1>1, <1>2, <2>1, <2>3, SocketGood
<1>10. CASE m.kind = "huge"
  <2>1. HangUp(t) /\ UNCHANGED core
    BY <1>10 DEF Receive, Unparsable
  <2>2. QED
    BY <1>1, <2>1, HangUpGood
<1>11. QED
  BY <1>4, <1>8, <1>9, <1>10

\* The other steps.
LEMMA QuietGood ==
    ASSUME AlignInv, (\E t \in Tabs : Commit(t)) \/ Refuse \/ Tick \/ UNCHANGED vars
    PROVE  AlignInv'
<1>1. UNCHANGED <<core, phase, conn, waiters, up, down, scenario, skewed>>
  BY DEF Commit, Refuse, Tick, vars, client, network, bounds, history
<1>2. QED
  BY <1>1, AllSame

-----------------------------------------------------------------------------
(* The slots stand for the commands *)

\* Every step keeps the slots in step.
LEMMA AlignStep == Types /\ SocketsOK /\ AlignInv /\ [Next]_vars => AlignInv'
<1> SUFFICES ASSUME Types, SocketsOK, AlignInv, [Next]_vars PROVE AlignInv'
  OBVIOUS
<1> DEFINE OK == AlignInv'
<1>1. \A t \in Tabs : (Opened(t, "identity") /\ Browser) \/ (Opened(t, "ready") /\ ~Browser) => OK
  BY OpenGood
<1>2. \A t \in Tabs : AdoptIdentity(t) \/ ReadEpoch(t) \/ BumpEpoch(t) => OK
  BY EarlyGood
<1>3. \A t \in Tabs : RestoreRows(t) \/ ReplaceRows(t) \/ ReplayLog(t) \/ Crash(t) => OK
  BY RestoreRowsGood, LateGood, CrashGood
<1>4. \A t \in Tabs : Connect(t) \/ Close(t) \/ BrowserWrite(t) \/ EmbedWrite(t) => OK
  BY ConnectGood, CloseGood, WriteGood
<1>5. \A t \in Tabs : Read(t) \/ Query(t) \/ Unquery(t) => OK
  BY CommandGood
<1>6. \A t \in Tabs : BrowserSubscribe(t) \/ EmbedSubscribe(t) \/ Clear(t) => OK
  BY BrowserSubscribeGood, EmbedSubscribeGood, ClearGood
<1>7. \A t \in Tabs : Receive(t) \/ Commit(t) => OK
  BY ReceiveGood, QuietGood
<1>8. \A n \in DOMAIN up : Serve(n) \/ Push(n) \/ Overgrow(n) => OK
  BY ServeGood, PushGood, OvergrowGood
<1>9. Refuse \/ Tick \/ UNCHANGED vars => OK
  BY QuietGood
<1> HIDE DEF OK
<1>10. OK
  BY <1>1, <1>2, <1>3, <1>4, <1>5, <1>6, <1>7, <1>8, <1>9, Steps
<1>11. QED
  BY <1>10 DEF OK

\* So they are at the start.
LEMMA AlignInit == Init => AlignInv
<1> SUFFICES ASSUME Init, NEW t \in Tabs PROVE Good(t)
  BY DEF AlignInv
<1> DEFINE c == NewClient(None, FALSE)
<1>1. core[t] = c /\ conn[t] = 0
  BY DEF Init
<1>2. c.outbox = << >> /\ c.inflight = << >> /\ c.seq = 0
  BY DEF NewClient
<1> HIDE DEF c
<1>3. RowsOK(c)
  BY <1>2, RowsEmpty
<1>4. Starting(t) /\ InStep(t)
  BY <1>1, <1>2 DEF Starting, InStep, Connected
<1>5. QED
  BY <1>1, <1>3, <1>4 DEF Good

\* The slots of a client and of its adapter stand for the commands the server has still to answer,
\* in every behaviour of any number of tabs: sync-client's ack_reply retires the row of the answered
\* write, and the oneshot of recached-embed reaches the caller of that command.
THEOREM SlotsStandForCommands == Spec => []Aligned
<1>1. Init => Types /\ SocketsOK /\ AlignInv
  BY TypesInit, AlignInit
<1>2. Types /\ SocketsOK /\ AlignInv /\ [Next]_vars => (Types /\ SocketsOK /\ AlignInv)'
  BY TypesStep, AlignStep
<1>3. AlignInv => Aligned
  BY DEF AlignInv, Good, Aligned, RowsOK, ToSet
<1>4. QED
  BY <1>1, <1>2, <1>3, PTL DEF Spec
=============================================================================
