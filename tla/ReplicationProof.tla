-------------------------- MODULE ReplicationProof --------------------------
(***************************************************************************)
(* Proofs about Replication for every number of replicas, keys, limits and *)
(* writes: type correctness of any hub, and, for a hub that is not itself a*)
(* replica, that a replica's keyspace is the one its resume offset names.  *)
(***************************************************************************)
EXTENDS Replication, TLAPS, FiniteSetTheorems, SequenceTheorems

-----------------------------------------------------------------------------
(* Sequences *)

\* The tail of a sequence from position j on.
LEMMA SuffixProperties ==
    ASSUME NEW S, NEW s \in Seq(S), NEW j \in 1..(Len(s) + 1)
    PROVE  /\ SubSeq(s, j, Len(s)) \in Seq(S)
           /\ Len(SubSeq(s, j, Len(s))) = Len(s) - j + 1
           /\ \A i \in 1..(Len(s) - j + 1) : SubSeq(s, j, Len(s))[i] = s[j + i - 1]
BY SMT

\* Trimming the backlog leaves a suffix of it, possibly the empty one.
LEMMA TrimIsSuffix ==
    ASSUME NEW s \in Seq(Frames)
    PROVE  \E j \in 1..(Len(s) + 1) : Trim(s) = SubSeq(s, j, Len(s))
<1> DEFINE tooOld == {i \in DOMAIN s : Bytes(SubSeq(s, i, Len(s))) > BacklogBytes}
<1>1. DOMAIN s = 1..Len(s) /\ Len(s) \in Nat
  OBVIOUS
<1>2. IsFiniteSet(1..Len(s)) /\ Cardinality(1..Len(s)) = Len(s)
  <2>1. IsFiniteSet(1..Len(s)) /\ Cardinality(1..Len(s)) = IF 1 > Len(s) THEN 0 ELSE Len(s) - 1 + 1
    <3>1. 1 \in Int /\ Len(s) \in Int
      BY <1>1
    <3>2. QED
      BY <3>1, FS_Interval, Zenon
  <2>2. QED
    BY <1>1, <2>1
<1>3. tooOld \subseteq 1..Len(s)
  BY <1>1
<1>4. Cardinality(tooOld) \in Nat /\ Cardinality(tooOld) <= Len(s)
  BY <1>2, <1>3, FS_Subset, FS_CardinalityType
<1>5. Trim(s) = SubSeq(s, Cardinality(tooOld) + 1, Len(s))
  BY DEF Trim
<1> HIDE DEF tooOld
<1>6. Cardinality(tooOld) + 1 \in 1..(Len(s) + 1)
  BY <1>1, <1>4
<1>7. QED
  BY <1>5, <1>6, Zenon

\* When the backlog can serve offset o, the frames after o are its last
\* offset - o frames.
LEMMA FramesAfterProperties ==
    ASSUME TypeOK, BacklogOK, NEW o \in Nat, CanResume(run, o)
    PROVE  /\ FramesAfter(o) \in Seq(Frames)
           /\ Len(FramesAfter(o)) = offset - o
           /\ \A i \in 1..(offset - o) :
                FramesAfter(o)[i].offset = o + i /\ FrameOK(FramesAfter(o)[i], hist, offset)
<1> DEFINE n == Len(backlog)
           old == {i \in DOMAIN backlog : backlog[i].offset <= o}
           j == n - (offset - o) + 1
<1>1. n \in Nat /\ DOMAIN backlog = 1..n /\ offset \in Nat /\ backlog \in Seq(Frames)
  BY DEF TypeOK
<1>2. o <= offset /\ offset - o <= n
  <2>1. CASE o = offset
    BY <1>1, <2>1
  <2>2. CASE o # offset
    BY <1>1, <2>2 DEF CanResume, BacklogOK, LastFrames
  <2>3. QED
    BY <2>1, <2>2
<1>3. old = 1..(j - 1)
  BY <1>1, <1>2 DEF BacklogOK, LastFrames
<1>4. Cardinality(1..(j - 1)) = j - 1
  <2>1. 1 \in Int /\ j - 1 \in Int /\ j - 1 >= 0
    BY <1>1, <1>2
  <2>2. Cardinality(1..(j - 1)) = IF 1 > j - 1 THEN 0 ELSE (j - 1) - 1 + 1
    BY <2>1, FS_Interval, Zenon
  <2>3. QED
    BY <2>1, <2>2
<1>5. FramesAfter(o) = SubSeq(backlog, j, n)
  <2>1. FramesAfter(o) = SubSeq(backlog, Cardinality(old) + 1, n)
    BY DEF FramesAfter
  <2> HIDE DEF old, j, n
  <2>2. Cardinality(old) = j - 1
    BY <1>3, <1>4, Zenon
  <2>3. (j - 1) + 1 = j
    BY <1>1, <1>2 DEF j
  <2>4. QED
    BY <2>1, <2>2, <2>3, Zenon
<1>6. j \in 1..(n + 1)
  BY <1>1, <1>2
<1>7. /\ FramesAfter(o) \in Seq(Frames)
      /\ Len(FramesAfter(o)) = offset - o
      /\ \A i \in 1..(offset - o) : FramesAfter(o)[i] = backlog[j + i - 1]
  <2> HIDE DEF j, n
  <2>1. /\ SubSeq(backlog, j, n) \in Seq(Frames) /\ Len(SubSeq(backlog, j, n)) = n - j + 1
        /\ \A i \in 1..(n - j + 1) : SubSeq(backlog, j, n)[i] = backlog[j + i - 1]
    BY <1>1, <1>6, SuffixProperties DEF n
  <2>2. n - j + 1 = offset - o
    BY <1>1, <1>2 DEF j
  <2>3. QED
    BY <1>5, <2>1, <2>2, Zenon
<1>8. \A i \in 1..(offset - o) : j + i - 1 \in 1..n
                                  /\ offset - n + (j + i - 1) = o + i
  BY <1>1, <1>2
<1>9. QED
  BY <1>7, <1>8 DEF BacklogOK, LastFrames

-----------------------------------------------------------------------------
(* Type correctness *)

\* A frame's command leads from a keyspace to a keyspace.
LEMMA ApplyType ==
    ASSUME NEW st \in Stores, NEW f \in Frames
    PROVE  Apply(st, f) \in Stores
<1>1. Append(st[f.key], f.id) \in Seq(Nat \ {0})
  BY DEF Stores, Frames
<1>2. QED
  BY <1>1 DEF Apply, Stores, Frames

\* The types of the variables a broken connection resets.
LinkTypeOK ==
    /\ handler \in [Replicas -> {"none", "greeted", "serving", "draining", "closed"}]
    /\ queue \in [Replicas -> Seq(Frames)]
    /\ sent \in [Replicas -> Nat]
    /\ acked \in [Replicas -> Nat]
    /\ reply \in [Replicas -> Replies]
    /\ wire \in [Replicas -> Seq(Frames)]
    /\ acks \in [Replicas -> AckStates]
    /\ phase \in [Replicas -> {"down", "await", "partial", "stream"}]
    /\ goal \in [Replicas -> Nat]
    /\ left \in [Replicas -> Nat]

\* What the way back of a connection is after the replica has written an
\* acknowledgement, the hub has dropped a read, or has taken a half.
LEMMA AckSteps ==
    ASSUME NEW a \in AckStates
    PROVE  /\ \A n \in Nat : Acknowledge(a, n) \in AckStates
           /\ DropRead(a) \in AckStates
           /\ a.sent # << >> => NextHalf(a) \in Nat /\ TakeHalf(a) \in AckStates
<1>1. a.sent \in Seq(Nat) /\ a.taken \in 0..1 /\ a.buf \in Seq(Nat) /\ a.torn \in BOOLEAN
  BY DEF AckStates
<1>2. ASSUME NEW n \in Nat PROVE Acknowledge(a, n) \in AckStates
  <2>1. Append(a.sent, n) \in Seq(Nat)
    BY <1>1
  <2>2. QED
    BY <2>1 DEF Acknowledge, AckStates
<1>3. DropRead(a) \in AckStates
  <2>1. << >> \in Seq(Nat) /\ (a.torn \/ a.buf # << >>) \in BOOLEAN
    OBVIOUS
  <2>2. QED
    BY <2>1 DEF DropRead, AckStates
<1>4. ASSUME a.sent # << >> PROVE NextHalf(a) \in Nat /\ TakeHalf(a) \in AckStates
  <2>1. Head(a.sent) \in Nat /\ Tail(a.sent) \in Seq(Nat) /\ 1 - a.taken \in 0..1
    BY <1>1, <1>4
  <2>2. Head(a.sent) % AckHalf \in Nat /\ Head(a.sent) \div AckHalf \in Nat
    <3>1. \A n \in Nat, h \in Nat \ {0} : n % h \in Nat /\ n \div h \in Nat
      OBVIOUS
    <3>2. QED
      BY <2>1, <3>1, ReplicationAssumption, Zenon
  <2>3. a.taken + 1 = 1 \/ a.taken + 1 = 2
    BY <1>1
  <2>4. NextHalf(a) \in Nat
    BY <2>2, <2>3 DEF NextHalf, Halves
  <2>5. (IF a.taken = 0 THEN a.sent ELSE Tail(a.sent)) \in Seq(Nat)
    BY <1>1, <2>1
  <2>6. TakeHalf(a) \in AckStates
    BY <2>1, <2>5 DEF TakeHalf, AckStates
  <2>7. QED
    BY <2>4, <2>6
<1>5. QED
  BY <1>2, <1>3, <1>4

\* What ReadAck does to the way back and the high-water mark of r.
LEMMA ReadAckEffect ==
    ASSUME TypeOK, NEW r \in Replicas, ReadAck(r)
    PROVE  /\ acks[r] \in AckStates /\ acks[r].sent # << >>
           /\ acks' \in [Replicas -> AckStates] /\ acked' \in [Replicas -> Nat]
           /\ \A q \in Replicas \ {r} : acks'[q] = acks[q] /\ acked'[q] = acked[q]
           /\ \/ /\ acks[r].buf = << >>
                 /\ acks'[r] = [TakeHalf(acks[r]) EXCEPT !.buf = <<NextHalf(acks[r])>>]
                 /\ acked'[r] = acked[r]
              \/ /\ acks[r].buf # << >>
                 /\ acks'[r] = [TakeHalf(acks[r]) EXCEPT !.buf = << >>]
                 /\ acked'[r] = IF Offset(Head(acks[r].buf), NextHalf(acks[r])) > acked[r]
                                THEN Offset(Head(acks[r].buf), NextHalf(acks[r])) ELSE acked[r]
<1>1. acks \in [Replicas -> AckStates] /\ acked \in [Replicas -> Nat] /\ acks[r].sent # << >>
  BY DEF TypeOK, ReadAck
<1> DEFINE n == Offset(Head(acks[r].buf), NextHalf(acks[r]))
           b1 == [TakeHalf(acks[r]) EXCEPT !.buf = <<NextHalf(acks[r])>>]
           b2 == [TakeHalf(acks[r]) EXCEPT !.buf = << >>]
<1>2. \/ acks[r].buf = << >> /\ acks' = [acks EXCEPT ![r] = b1] /\ acked' = acked
      \/ acks[r].buf # << >> /\ acks' = [acks EXCEPT ![r] = b2]
         /\ acked' = [acked EXCEPT ![r] = IF n > @ THEN n ELSE @]
  BY DEF ReadAck
<1>6. b1 \in AckStates /\ b2 \in AckStates
  <2>1. << >> \in Seq(Nat) /\ <<NextHalf(acks[r])>> \in Seq(Nat) /\ TakeHalf(acks[r]) \in AckStates
    BY <1>1, AckSteps
  <2>2. QED
    BY <2>1 DEF AckStates
<1>7. acks[r].buf # << >> => n \in Nat
  <2>1. acks[r].buf # << >> => Head(acks[r].buf) \in Nat
    BY <1>1 DEF AckStates
  <2>2. \A x, y \in Nat, h \in Nat \ {0} : x + h * y \in Nat
    OBVIOUS
  <2>3. NextHalf(acks[r]) \in Nat
    BY <1>1, AckSteps
  <2>4. QED
    BY <2>1, <2>2, <2>3, ReplicationAssumption, Zenon DEF Offset
<1> HIDE DEF n, b1, b2
<1>3. CASE acks[r].buf = << >> /\ acks' = [acks EXCEPT ![r] = b1] /\ acked' = acked
  BY <1>1, <1>3, <1>6 DEF b1
<1>4. CASE acks[r].buf # << >> /\ acks' = [acks EXCEPT ![r] = b2]
           /\ acked' = [acked EXCEPT ![r] = IF n > @ THEN n ELSE @]
  <2>1. acks'[r] = b2 /\ acked'[r] = (IF n > acked[r] THEN n ELSE acked[r])
    BY <1>1, <1>4
  <2>2. \A q \in Replicas \ {r} : acks'[q] = acks[q] /\ acked'[q] = acked[q]
    BY <1>1, <1>4
  <2>3. acks' \in [Replicas -> AckStates] /\ acked' \in [Replicas -> Nat]
    BY <1>1, <1>4, <1>6, <1>7
  <2>4. QED
    BY <1>1, <1>4, <2>1, <2>2, <2>3 DEF b2, n
<1>5. QED
  BY <1>2, <1>3, <1>4

\* Forgetting connections keeps the variables of the links well typed.
LEMMA DisconnectType ==
    ASSUME TypeOK, NEW R, Disconnect(R)
    PROVE  LinkTypeOK'
<1>1. << >> \in Seq(Frames) /\ NoAcks \in AckStates /\ NoReply \in Replies
  BY DEF Replies, NoAcks, AckStates
<1>2. QED
  BY <1>1 DEF TypeOK, LinkTypeOK, Disconnect

\* Every step of the hub, of a handler, of a replica and every fault keeps the
\* variables in their types.
LEMMA TypeStep == TypeOK /\ [Next]_vars => TypeOK'
<1> SUFFICES ASSUME TypeOK, [Next]_vars PROVE TypeOK'
  OBVIOUS
<1> USE ReplicationAssumption
<1>1. ASSUME NEW k \in Keys, Execute(k) PROVE TypeOK'
  <2>1. Append(store[k], written + 1) \in Seq(Nat \ {0})
    BY DEF TypeOK, Stores
  <2>2. store' \in Stores
    BY <1>1, <2>1 DEF TypeOK, Execute, Stores
  <2>3. QED
    BY <1>1, <2>2 DEF TypeOK, Execute, linkVars, replicaVars
<1>2. ASSUME NEW k \in Keys, FanOut(k) PROVE TypeOK'
  <2>1. PICK size \in Sizes : Enqueue(NextFrame(k, size))
    BY <1>2 DEF FanOut
  <2> DEFINE f == NextFrame(k, size)
  <2>2. f \in Frames
    BY <1>2 DEF TypeOK, FanOut, Frames, NoWrite, NextFrame
  <2>3. backlog' \in Seq(Frames)
    <3>1. Append(backlog, f) \in Seq(Frames)
      BY <2>2 DEF TypeOK
    <3>2. PICK j \in 1..(Len(Append(backlog, f)) + 1) :
             backlog' = SubSeq(Append(backlog, f), j, Len(Append(backlog, f)))
      BY <2>1, <3>1, TrimIsSuffix DEF Enqueue
    <3>3. QED
      BY <3>1, <3>2, SuffixProperties
  <2>4. hist' \in Seq(Stores) /\ Len(hist') = offset' + 1
    <3>1. hist[offset + 1] \in Stores
      BY DEF TypeOK
    <3>2. Apply(hist[offset + 1], f) \in Stores
      BY <2>2, <3>1, ApplyType
    <3>3. hist' = Append(hist, Apply(hist[offset + 1], f)) /\ offset' = offset + 1
      BY <2>1 DEF Enqueue
    <3>4. QED
      BY <3>2, <3>3 DEF TypeOK
  <2>5. queue' \in [Replicas -> Seq(Frames)]
    BY <2>1, <2>2 DEF TypeOK, Enqueue
  <2>6. sent' \in [Replicas -> Nat] /\ offset' \in Nat
    BY <2>1 DEF TypeOK, Enqueue
  <2>7. handler' \in [Replicas -> {"none", "greeted", "serving", "draining", "closed"}]
    BY <2>1 DEF TypeOK, Enqueue
  <2>8. inflight' \in [Keys -> Nat]
    BY <1>2 DEF TypeOK, FanOut, NoWrite
  <2>9. QED
    BY <1>2, <2>3, <2>4, <2>5, <2>6, <2>7, <2>8 DEF TypeOK, FanOut, replicaVars
<1>3. ASSUME NEW k \in Keys, ReplaceKeyspace(k) PROVE TypeOK'
  <2>1. <<written + 1>> \in Seq(Nat \ {0})
    BY DEF TypeOK
  <2>2. store' \in Stores
    BY <1>3, <2>1 DEF TypeOK, ReplaceKeyspace, Stores
  <2>3. QED
    BY <1>3, <2>2 DEF TypeOK, ReplaceKeyspace, linkVars, replicaVars
<1>4. ASSUME NEW r \in Replicas, Serve(r) PROVE TypeOK'
  <2>4. /\ handler' \in [Replicas -> {"none", "greeted", "serving", "draining", "closed"}]
        /\ sent' \in [Replicas -> Nat]
        /\ UNCHANGED <<run, offset, store, inflight, written, backlog, hist, queue, acks,
                       phase, resume, goal, left, rstore, faults>>
    BY <1>4 DEF TypeOK, Serve, hubVars, replicaVars
  <2>1. CASE CanResume(resume[r].run, resume[r].offset)
    <3>1. FramesAfter(resume[r].offset) \in Seq(Frames)
      <4> DEFINE old == {i \in DOMAIN backlog : backlog[i].offset <= resume[r].offset}
      <4>1. IsFiniteSet(1..Len(backlog)) /\ DOMAIN backlog = 1..Len(backlog)
        BY FS_Interval DEF TypeOK
      <4>2. Cardinality(old) \in Nat
        BY <4>1, FS_Subset, FS_CardinalityType
      <4> HIDE DEF old
      <4>3. SubSeq(backlog, Cardinality(old) + 1, Len(backlog)) \in Seq(Frames)
        <5>1. backlog \in Seq(Frames)
          BY DEF TypeOK
        <5>2. QED
          BY <4>2, <5>1
      <4>4. QED
        BY <4>3 DEF FramesAfter, old
    <3>2. Len(FramesAfter(resume[r].offset)) \in Nat
      BY <3>1
    <3>3. [mode |-> "P", boundary |-> offset, count |-> Len(FramesAfter(resume[r].offset))]
             \in Replies
      BY <3>2 DEF TypeOK, Replies
    <3>4. /\ wire' = [wire EXCEPT ![r] = FramesAfter(resume[r].offset)]
          /\ reply' = [reply EXCEPT ![r] =
                         [mode |-> "P", boundary |-> offset,
                          count |-> Len(FramesAfter(resume[r].offset))]]
          /\ acked' = [acked EXCEPT ![r] = resume[r].offset]
      BY <1>4, <2>1 DEF Serve
    <3>5. reply' \in [Replicas -> Replies] /\ wire' \in [Replicas -> Seq(Frames)]
      BY <3>1, <3>3, <3>4 DEF TypeOK
    <3>6. acked' \in [Replicas -> Nat]
      BY <3>4 DEF TypeOK
    <3>7. QED
      BY <2>4, <3>5, <3>6 DEF TypeOK
  <2>2. CASE ~ CanResume(resume[r].run, resume[r].offset)
    <3>1. [mode |-> "F", boundary |-> offset, snapshot |-> store] \in Replies
      BY DEF TypeOK, Replies
    <3>2. /\ reply' = [reply EXCEPT ![r] =
                         [mode |-> "F", boundary |-> offset, snapshot |-> store]]
          /\ acked' = [acked EXCEPT ![r] = 0]
          /\ wire' = wire
      BY <1>4, <2>2 DEF Serve
    <3>3. reply' \in [Replicas -> Replies] /\ acked' \in [Replicas -> Nat]
      BY <3>1, <3>2 DEF TypeOK
    <3>4. QED
      BY <2>4, <3>2, <3>3 DEF TypeOK
  <2>3. QED
    BY <2>1, <2>2
<1>5. ASSUME NEW r \in Replicas, Stream(r) PROVE TypeOK'
  <2>1. Head(queue[r]) \in Frames /\ Tail(queue[r]) \in Seq(Frames)
    BY <1>5 DEF TypeOK, Stream
  <2>2. Append(wire[r], Head(queue[r])) \in Seq(Frames)
    BY <2>1 DEF TypeOK
  <2>3. acks' \in [Replicas -> AckStates]
    BY <1>5, AckSteps DEF TypeOK, Stream
  <2>4. QED
    BY <1>5, <2>1, <2>2, <2>3 DEF TypeOK, Stream, hubVars, replicaVars
<1>6. ASSUME NEW r \in Replicas, ReadAck(r) PROVE TypeOK'
  <2>1. acks' \in [Replicas -> AckStates] /\ acked' \in [Replicas -> Nat]
    BY <1>6, ReadAckEffect
  <2>2. QED
    BY <1>6, <2>1 DEF TypeOK, ReadAck, hubVars, replicaVars
<1>7. ASSUME NEW r \in Replicas, EndHandler(r) PROVE TypeOK'
  BY <1>7 DEF TypeOK, EndHandler, hubVars, replicaVars
<1>8. ASSUME NEW r \in Replicas, Connect(r) PROVE TypeOK'
  BY <1>8 DEF TypeOK, Connect, hubVars
<1>9. ASSUME NEW r \in Replicas, InstallSnapshot(r) PROVE TypeOK'
  <2>1. reply[r].boundary \in Nat /\ reply[r].snapshot \in Stores
    BY <1>9 DEF TypeOK, InstallSnapshot, Replies, NoReply
  <2>2. Acknowledge(acks[r], reply[r].boundary) \in AckStates /\ NoReply \in Replies
    BY <2>1, AckSteps DEF TypeOK, Replies
  <2>3. QED
    BY <1>9, <2>1, <2>2 DEF TypeOK, InstallSnapshot, hubVars
<1>10. ASSUME NEW r \in Replicas, BeginPartial(r) PROVE TypeOK'
  <2>1. reply[r].boundary \in Nat /\ reply[r].count \in Nat
    BY <1>10 DEF TypeOK, BeginPartial, Replies, NoReply
  <2>2. NoReply \in Replies
    BY DEF Replies
  <2>3. QED
    BY <1>10, <2>1, <2>2 DEF TypeOK, BeginPartial, hubVars
<1>11. ASSUME NEW r \in Replicas, ApplyFrame(r) PROVE TypeOK'
  <2>0. wire[r] # << >> /\ wire[r] \in Seq(Frames)
    BY <1>11 DEF TypeOK, ApplyFrame
  <2>1. Head(wire[r]) \in Frames /\ Tail(wire[r]) \in Seq(Frames)
    BY <2>0
  <2>2. Head(wire[r]).offset \in Nat
    BY <2>1 DEF Frames
  <2>3. Apply(rstore[r], Head(wire[r])) \in Stores
    BY <2>1, ApplyType DEF TypeOK
  <2>4. rstore' \in [Replicas -> Stores]
    BY <1>11, <2>3 DEF TypeOK, ApplyFrame
  <2>5. resume' \in [Replicas -> [run : Nat, offset : Nat]]
    <3>1. resume' = [resume EXCEPT ![r].offset = Head(wire[r]).offset]
      BY <1>11 DEF ApplyFrame
    <3>2. resume \in [Replicas -> [run : Nat, offset : Nat]]
      BY DEF TypeOK
    <3>3. QED
      BY <2>2, <3>1, <3>2
  <2>6. acks' \in [Replicas -> AckStates] /\ left' \in [Replicas -> Nat]
    <3>1. CASE phase[r] = "stream"
      <4>1. acks' = [acks EXCEPT ![r] = Acknowledge(@, Head(wire[r]).offset)] /\ left' = left
        BY <1>11, <3>1 DEF ApplyFrame
      <4>2. Acknowledge(acks[r], Head(wire[r]).offset) \in AckStates
        BY <2>2, AckSteps DEF TypeOK
      <4>3. QED
        BY <4>1, <4>2 DEF TypeOK
    <3>2. CASE phase[r] # "stream"
      <4>1. left' = [left EXCEPT ![r] = @ - 1] /\ acks' = acks /\ left[r] > 0
        BY <1>11, <3>2 DEF ApplyFrame
      <4>2. left[r] \in Nat /\ left[r] - 1 \in Nat
        BY <4>1 DEF TypeOK
      <4>3. QED
        BY <4>1, <4>2 DEF TypeOK
    <3>3. QED
      BY <3>1, <3>2
  <2>7. QED
    BY <1>11, <2>1, <2>4, <2>5, <2>6 DEF TypeOK, ApplyFrame, hubVars
<1>12. ASSUME NEW r \in Replicas, EndPartial(r) PROVE TypeOK'
  <2>1. Acknowledge(acks[r], goal[r]) \in AckStates
    BY AckSteps DEF TypeOK
  <2>2. QED
    BY <1>12, <2>1 DEF TypeOK, EndPartial, hubVars
<1>13. ASSUME NEW r \in Replicas, Reject(r) PROVE TypeOK'
  <2>1. LinkTypeOK'
    BY <1>13, DisconnectType DEF Reject
  <2>2. resume' \in [Replicas -> [run : Nat, offset : Nat]] /\ faults' \in Nat
    BY <1>13 DEF TypeOK, Reject, NoRun
  <2>3. QED
    BY <1>13, <2>1, <2>2 DEF TypeOK, LinkTypeOK, Reject, hubVars
<1>14. ASSUME NEW r \in Replicas, Eof(r) PROVE TypeOK'
  <2>1. LinkTypeOK'
    BY <1>14, DisconnectType DEF Eof
  <2>2. resume' \in [Replicas -> [run : Nat, offset : Nat]] /\ faults' \in Nat
    BY <1>14 DEF TypeOK, Eof
  <2>3. QED
    BY <1>14, <2>1, <2>2 DEF TypeOK, LinkTypeOK, Eof, hubVars
<1>15. ASSUME NEW r \in Replicas, Break(r) PROVE TypeOK'
  <2>1. LinkTypeOK'
    BY <1>15, DisconnectType DEF Break
  <2>2. resume' \in [Replicas -> [run : Nat, offset : Nat]] /\ faults' \in Nat
    BY <1>15 DEF TypeOK, Break
  <2>3. QED
    BY <1>15, <2>1, <2>2 DEF TypeOK, LinkTypeOK, Break, hubVars
<1>16. ASSUME NEW r \in Replicas, RestartReplica(r) PROVE TypeOK'
  <2>1. LinkTypeOK'
    BY <1>16, DisconnectType DEF RestartReplica
  <2>2. resume' \in [Replicas -> [run : Nat, offset : Nat]] /\ faults' \in Nat
    BY <1>16 DEF TypeOK, RestartReplica, NoRun
  <2>3. QED
    BY <1>16, <2>1, <2>2 DEF TypeOK, LinkTypeOK, RestartReplica, hubVars
<1>17. ASSUME RestartHub PROVE TypeOK'
  <2>1. store' \in Stores
    BY <1>17 DEF TypeOK, RestartHub, Stores
  <2>2. hist' \in Seq(Stores) /\ Len(hist') = 1 /\ << >> \in Seq(Frames)
    BY <1>17, <2>1 DEF RestartHub
  <2>3. LinkTypeOK'
    BY <1>17, DisconnectType DEF RestartHub
  <2>4. QED
    BY <1>17, <2>1, <2>2, <2>3 DEF TypeOK, LinkTypeOK, RestartHub, NoWrite
<1>18. ASSUME UNCHANGED vars PROVE TypeOK'
  BY <1>18 DEF TypeOK, vars, hubVars, linkVars, replicaVars
<1>19. QED
  BY <1>1, <1>2, <1>3, <1>4, <1>5, <1>6, <1>7, <1>8, <1>9, <1>10, <1>11, <1>12, <1>13,
     <1>14, <1>15, <1>16, <1>17, <1>18
     DEF Next, HubStep, HandlerStep, ReplicaStep, FaultStep

\* Initially everything is empty and typed.
LEMMA TypeInit == Init => TypeOK
<1> SUFFICES ASSUME Init PROVE TypeOK
  OBVIOUS
<1>1. Empty \in Stores /\ << >> \in Seq(Frames) /\ NoAcks \in AckStates
  BY DEF Empty, Stores, NoAcks, AckStates
<1>2. <<Empty>> \in Seq(Stores) /\ Len(<<Empty>>) = 1
  BY <1>1
<1>3. NoReply \in Replies
  BY DEF Replies
<1>4. QED
  BY <1>1, <1>2, <1>3 DEF Init, TypeOK, NoWrite, NoRun

\* Every variable of the hub, its links and its replicas keeps its type, for a
\* hub of either role.
THEOREM TypeCorrect == Spec => []TypeOK
<1>1. QED
  BY TypeInit, TypeStep, PTL DEF Spec

-----------------------------------------------------------------------------
(* The keyspace of a replica *)

\* The link and the replica q are as before the step.
SameLink(q) ==
    /\ handler'[q] = handler[q] /\ queue'[q] = queue[q] /\ sent'[q] = sent[q]
    /\ acked'[q] = acked[q] /\ reply'[q] = reply[q] /\ wire'[q] = wire[q]
    /\ acks'[q] = acks[q] /\ phase'[q] = phase[q] /\ resume'[q] = resume[q]
    /\ goal'[q] = goal[q] /\ left'[q] = left[q] /\ rstore'[q] = rstore[q]

\* The invariant of one replica.
ReplicaOK(q) ==
    /\ resume[q].run <= run
    /\ LinkOK(q)
    /\ resume[q].run = run =>
         resume[q].offset <= offset /\ rstore[q] = hist[resume[q].offset + 1]

\* IInv says ReplicaOK of every replica.
LEMMA IInvByReplica ==
    IInv <=> TypeOK /\ StoreOK /\ BacklogOK /\ \A q \in Replicas : ReplicaOK(q)
BY DEF IInv, ReplicaOK, ReplicaMatchesHistory

\* A replica that a step does not touch keeps its invariant.
LEMMA Untouched ==
    ASSUME NEW q \in Replicas, ReplicaOK(q), SameLink(q),
           run' = run, offset' = offset, hist' = hist
    PROVE  ReplicaOK(q)'
<1>1. LinkOK(q)'
  <2>1. PathOK(q) => PathOK(q)'
    BY DEF SameLink, PathOK, FrameOK, Base
  <2>2. SyncOK(q) => SyncOK(q)'
    BY DEF SameLink, SyncOK
  <2>3. AcksOK(q) => AcksOK(q)'
    BY DEF SameLink, AcksOK
  <2>4. QED
    BY <2>1, <2>2, <2>3 DEF ReplicaOK, SameLink, LinkOK
<1>2. QED
  BY <1>1 DEF ReplicaOK, SameLink

\* A step of one replica or its handler leaves the hub and the others alone.
LEMMA OneReplica ==
    ASSUME IInv, TypeOK', NEW r \in Replicas, UNCHANGED hubVars,
           \A q \in Replicas \ {r} : SameLink(q), ReplicaOK(r)'
    PROVE  IInv'
<1>1. \A q \in Replicas : ReplicaOK(q)'
  BY Untouched, IInvByReplica DEF hubVars
<1>2. StoreOK' /\ BacklogOK'
  BY DEF IInv, StoreOK, BacklogOK, FrameOK, hubVars
<1>3. QED
  BY <1>1, <1>2 DEF IInv, ReplicaOK, ReplicaMatchesHistory

\* A replica without a connection.
LEMMA Disconnected ==
    ASSUME NEW R \in SUBSET Replicas, TypeOK, Disconnect(R)
    PROVE  /\ \A q \in R : LinkOK(q)'
           /\ \A q \in Replicas \ R : resume'[q] = resume[q] /\ rstore'[q] = rstore[q]
                                        => SameLink(q)
<1>1. \A q \in R : /\ handler'[q] = "none" /\ phase'[q] = "down" /\ queue'[q] = << >>
                   /\ wire'[q] = << >> /\ acks'[q] = NoAcks /\ reply'[q] = NoReply
  BY DEF Disconnect
<1>2. QED
  BY <1>1 DEF Disconnect, LinkOK, SameLink, TypeOK

\* The types of the link and the replica q, one by one.
LEMMA LinkTypes ==
    ASSUME TypeOK, NEW q \in Replicas
    PROVE  /\ wire[q] \in Seq(Frames) /\ Len(wire[q]) \in Nat
           /\ queue[q] \in Seq(Frames) /\ Len(queue[q]) \in Nat
           /\ acks[q] \in AckStates /\ acks[q].sent \in Seq(Nat) /\ Len(acks[q].sent) \in Nat
           /\ sent[q] \in Nat /\ acked[q] \in Nat /\ goal[q] \in Nat /\ left[q] \in Nat
           /\ resume[q].run \in Nat /\ resume[q].offset \in Nat
           /\ \A i \in 1..Len(wire[q]) : wire[q][i] \in Frames
           /\ \A i \in 1..Len(queue[q]) : queue[q][i] \in Frames
           /\ Base(q) \in Nat
           /\ reply[q].mode = "F" => reply[q].boundary \in Nat
           /\ reply[q].mode = "P" => reply[q].boundary \in Nat /\ reply[q].count \in Nat
<1>1. /\ wire[q] \in Seq(Frames) /\ queue[q] \in Seq(Frames) /\ acks[q] \in AckStates
      /\ sent[q] \in Nat /\ acked[q] \in Nat /\ goal[q] \in Nat /\ left[q] \in Nat
      /\ resume[q].run \in Nat /\ resume[q].offset \in Nat
  BY DEF TypeOK
<1>2. /\ reply[q].mode = "F" => reply[q].boundary \in Nat
      /\ reply[q].mode = "P" => reply[q].boundary \in Nat /\ reply[q].count \in Nat
  BY DEF TypeOK, Replies, NoReply
<1>3. Base(q) \in Nat
  BY <1>1, <1>2 DEF Base
<1>4. Len(wire[q]) \in Nat /\ \A i \in 1..Len(wire[q]) : wire[q][i] \in Frames
  BY <1>1
<1>5. Len(queue[q]) \in Nat /\ \A i \in 1..Len(queue[q]) : queue[q][i] \in Frames
  BY <1>1
<1>6. acks[q].sent \in Seq(Nat) /\ Len(acks[q].sent) \in Nat
  BY <1>1 DEF AckStates
<1>7. QED
  BY <1>1, <1>2, <1>3, <1>4, <1>5, <1>6

\* A frame that was right for its offset stays right when the hub fans out more.
LEMMA FrameStays ==
    ASSUME TypeOK, NEW f \in Frames, FrameOK(f, hist, offset), NEW st,
           hist' = Append(hist, st), offset' = offset + 1
    PROVE  FrameOK(f, hist', offset')
<1>1. f.offset \in 1..offset /\ offset \in Nat /\ f.offset \in Nat /\ f.offset + 1 \in 1..Len(hist)
  BY DEF TypeOK, FrameOK
<1>2. hist'[f.offset] = hist[f.offset] /\ hist'[f.offset + 1] = hist[f.offset + 1]
  BY <1>1 DEF TypeOK
<1>3. QED
  BY <1>1, <1>2 DEF FrameOK

\* A suffix of an unbroken tail of the frames is an unbroken tail of the frames.
LEMMA TailOfTail ==
    ASSUME NEW s \in Seq(Frames), NEW h, NEW o \in Nat, LastFrames(s, h, o),
           NEW j \in 1..(Len(s) + 1)
    PROVE  LastFrames(SubSeq(s, j, Len(s)), h, o)
<1> DEFINE t == SubSeq(s, j, Len(s))
<1>1. /\ Len(t) = Len(s) - j + 1 /\ Len(s) \in Nat
      /\ \A i \in 1..(Len(s) - j + 1) : t[i] = s[j + i - 1]
  BY SuffixProperties
<1> HIDE DEF t
<1>2. Len(t) <= o
  BY <1>1 DEF LastFrames
<1>3. ASSUME NEW i \in 1..Len(t)
      PROVE  t[i].offset = o - Len(t) + i /\ FrameOK(t[i], h, o)
  <2>1. i \in 1..(Len(s) - j + 1) /\ j + i - 1 \in 1..Len(s)
    BY <1>1
  <2>2. t[i] = s[j + i - 1]
    BY <1>1, <2>1
  <2>3. o - Len(s) + (j + i - 1) = o - Len(t) + i
    BY <1>1
  <2>4. QED
    BY <2>1, <2>2, <2>3 DEF LastFrames
<1>4. QED
  BY <1>2, <1>3 DEF LastFrames, t

\* What a replica was told stays true when the hub fans out more.
LEMMA SnapshotStays ==
    ASSUME TypeOK, NEW q \in Replicas, SyncOK(q), PathOK(q),
           UNCHANGED <<run, reply, wire, phase, resume, goal, left>>,
           \A o \in 1..(offset + 1) : hist'[o] = hist[o]
    PROVE  SyncOK(q)'
<1>1. reply[q].mode = "F" => reply[q].boundary \in Nat /\ reply[q].boundary + 1 \in 1..(offset + 1)
  <2>1. reply[q].mode = "F" => reply[q].boundary \in Nat
    BY DEF TypeOK, Replies, NoReply
  <2>2. Len(wire[q]) \in Nat /\ Len(queue[q]) \in Nat /\ offset \in Nat
    BY DEF TypeOK
  <2>3. CASE reply[q].mode = "F"
    <3>1. Base(q) = reply[q].boundary
      BY <2>3 DEF Base
    <3>2. sent[q] = Base(q) + Len(wire[q]) + Len(queue[q]) /\ sent[q] <= offset
      BY DEF PathOK
    <3>3. \A b, w, l, o \in Nat : b + w + l <= o => b + 1 \in 1..(o + 1)
      OBVIOUS
    <3>4. reply[q].boundary + Len(wire[q]) + Len(queue[q]) <= offset
      BY <3>1, <3>2
    <3>5. QED
      BY <2>1, <2>2, <2>3, <3>3, <3>4, Zenon
  <2>4. QED
    BY <2>3
<1>2. QED
  BY <1>1 DEF SyncOK

\* Initially nothing is connected and the history is the empty keyspace.
LEMMA InvInit == Init => IInv
<1> SUFFICES ASSUME Init PROVE IInv
  OBVIOUS
<1>1. TypeOK
  BY TypeInit
<1>2. StoreOK
  BY DEF Init, StoreOK, Empty
<1>3. BacklogOK
  BY DEF Init, BacklogOK, LastFrames
<1>4. \A q \in Replicas : ReplicaOK(q)
  BY DEF Init, ReplicaOK, LinkOK, NoRun
<1>5. QED
  BY <1>1, <1>2, <1>3, <1>4, IInvByReplica

\* The hub executes a write: only its own keyspace moves ahead of the history.
LEMMA ExecuteKeeps ==
    ASSUME IInv, TypeOK', NEW k \in Keys, Execute(k)
    PROVE  IInv'
<1>1. StoreOK'
  <2> SUFFICES ASSUME NEW j \in Keys
               PROVE  store'[j] = IF inflight'[j] = NoWrite THEN hist[offset + 1][j]
                                  ELSE Append(hist[offset + 1][j], inflight'[j])
    BY DEF StoreOK, Execute
  <2>1. CASE j = k
    BY <2>1 DEF IInv, StoreOK, TypeOK, Stores, Execute, NoWrite
  <2>2. CASE j # k
    BY <2>2 DEF IInv, StoreOK, TypeOK, Stores, Execute
  <2>3. QED
    BY <2>1, <2>2
<1>2. BacklogOK'
  BY DEF IInv, BacklogOK, FrameOK, Execute
<1>3. \A q \in Replicas : ReplicaOK(q)'
  BY IInvByReplica, Untouched DEF Execute, linkVars, replicaVars, SameLink
<1>4. QED
  BY <1>1, <1>2, <1>3 DEF IInv, ReplicaOK, ReplicaMatchesHistory

\* fan_out: the new frame is right for its offset, and it enters the backlog and
\* every channel directly behind the frame before it.
LEMMA FanOutKeeps ==
    ASSUME IInv, TypeOK', NEW k \in Keys, FanOut(k)
    PROVE  IInv'
<1>1. PICK size \in Sizes : Enqueue(NextFrame(k, size))
  BY DEF FanOut
<1>0. TypeOK
  BY DEF IInv
<1> DEFINE f == NextFrame(k, size)
           st == Apply(hist[offset + 1], f)
<1>2. f \in Frames /\ f.offset = offset + 1 /\ f.key = k /\ f.id = inflight[k]
  BY <1>0 DEF TypeOK, FanOut, Frames, NoWrite, NextFrame
<1>3. offset' = offset + 1 /\ hist' = Append(hist, st) /\ backlog' = Trim(Append(backlog, f))
  BY <1>1 DEF Enqueue
<1>4. /\ hist[offset + 1] \in Stores /\ st \in Stores /\ offset \in Nat
      /\ hist \in Seq(Stores) /\ Len(hist) = offset + 1
  BY <1>0, <1>2, ApplyType DEF TypeOK
<1>5. /\ hist'[offset + 2] = st /\ hist'[offset + 1] = hist[offset + 1]
      /\ \A o \in 1..(offset + 1) : hist'[o] = hist[o]
  <2> HIDE DEF st
  <2>1. QED
    BY <1>3, <1>4
<1>6. FrameOK(f, hist', offset')
  <2>1. f.offset + 1 = offset + 2 /\ f.offset \in 1..(offset + 1)
    BY <1>2, <1>4
  <2>2. hist'[f.offset + 1] = Apply(hist'[f.offset], f)
    BY <1>2, <1>5, <2>1
  <2>3. QED
    BY <1>3, <2>1, <2>2 DEF FrameOK
<1> HIDE DEF f, st
<1>7. ASSUME NEW g \in Frames, FrameOK(g, hist, offset) PROVE FrameOK(g, hist', offset')
  BY <1>0, <1>3, <1>7, FrameStays
<1>12. inflight \in [Keys -> Nat] /\ backlog \in Seq(Frames) /\ Len(backlog) \in Nat
  BY <1>0 DEF TypeOK
<1>8. StoreOK'
  <2> SUFFICES ASSUME NEW j \in Keys
               PROVE  store'[j] = IF inflight'[j] = NoWrite THEN hist'[offset' + 1][j]
                                  ELSE Append(hist'[offset' + 1][j], inflight'[j])
    BY DEF StoreOK
  <2>1. hist'[offset' + 1] = st /\ store' = store
        /\ inflight' = [inflight EXCEPT ![k] = NoWrite] /\ inflight[k] # NoWrite
    BY <1>3, <1>4, <1>5 DEF FanOut
  <2>2. CASE j = k
    <3>1. store[k] = Append(hist[offset + 1][k], inflight[k])
      BY <2>1 DEF IInv, StoreOK
    <3>2. st[k] = Append(hist[offset + 1][k], inflight[k])
      BY <1>2, <1>4 DEF st, Apply, Stores
    <3>3. inflight'[k] = NoWrite
      BY <1>12, <2>1
    <3>4. QED
      BY <2>1, <2>2, <3>1, <3>2, <3>3
  <2>3. CASE j # k
    <3>1. st[j] = hist[offset + 1][j] /\ inflight'[j] = inflight[j]
      BY <1>2, <1>4, <1>12, <2>1, <2>3 DEF st, Apply, Stores
    <3>2. QED
      BY <2>1, <3>1 DEF IInv, StoreOK
  <2>4. QED
    BY <2>2, <2>3
<1>9. BacklogOK'
  <2> DEFINE b == Append(backlog, f)
  <2>1. b \in Seq(Frames) /\ Len(b) = Len(backlog) + 1 /\ Len(backlog) <= offset
        /\ Len(backlog) \in Nat
    <3>1. Len(backlog) <= offset
      BY DEF IInv, BacklogOK, LastFrames
    <3>2. QED
      BY <1>2, <1>12, <3>1
  <2>2. \A i \in 1..Len(b) : b[i].offset = (offset + 1) - Len(b) + i /\ FrameOK(b[i], hist', offset')
    <3> SUFFICES ASSUME NEW i \in 1..Len(b)
                 PROVE  b[i].offset = (offset + 1) - Len(b) + i /\ FrameOK(b[i], hist', offset')
      OBVIOUS
    <3>1. CASE i = Len(b)
      <4>1. b[i] = f
        BY <1>2, <1>12, <2>1, <3>1
      <4>2. QED
        BY <1>2, <1>4, <1>6, <2>1, <3>1, <4>1
    <3>2. CASE i # Len(b)
      <4>1. i \in 1..Len(backlog) /\ b[i] = backlog[i] /\ backlog[i] \in Frames
        BY <1>2, <1>12, <2>1, <3>2
      <4>2. backlog[i].offset = offset - Len(backlog) + i /\ FrameOK(backlog[i], hist, offset)
        BY <4>1 DEF IInv, BacklogOK, LastFrames
      <4>3. QED
        BY <1>4, <1>7, <2>1, <4>1, <4>2
    <3>3. QED
      BY <3>1, <3>2
  <2> HIDE DEF b
  <2>3. LastFrames(b, hist', offset')
    <3>1. \A i \in 1..Len(b) :
             b[i].offset = offset' - Len(b) + i /\ FrameOK(b[i], hist', offset')
      BY <1>3, <2>2, Zenon
    <3>2. Len(b) <= offset'
      BY <1>3, <1>4, <2>1
    <3>3. QED
      BY <3>1, <3>2, Zenon DEF LastFrames
  <2>4. PICK j \in 1..(Len(b) + 1) : Trim(b) = SubSeq(b, j, Len(b))
    BY <2>1, TrimIsSuffix
  <2>5. LastFrames(Trim(b), hist', offset')
    <3>1. offset' \in Nat /\ b \in Seq(Frames)
      BY <1>3, <1>4, <2>1
    <3>2. LastFrames(SubSeq(b, j, Len(b)), hist', offset')
      BY <2>3, <3>1, TailOfTail, Zenon
    <3>3. QED
      BY <2>4, <3>2, Zenon
  <2>6. backlog' = Trim(b)
    BY <1>3 DEF b
  <2>7. LastFrames(backlog', hist', offset')
    BY <2>5, <2>6, Zenon
  <2>8. QED
    BY <2>7 DEF BacklogOK
<1>10. ASSUME NEW q \in Replicas PROVE ReplicaOK(q)'
  <2>1. ReplicaOK(q)
    BY IInvByReplica
  <2>2. /\ UNCHANGED <<run, acked, reply, wire, acks, phase, resume, goal, left, rstore>>
    BY DEF FanOut, replicaVars
  <2>3. resume[q].run = run =>
          resume[q].offset <= offset' /\ rstore[q] = hist'[resume[q].offset + 1]
    <3>1. resume[q].offset \in Nat
      BY <1>0, LinkTypes
    <3>2. resume[q].run = run =>
            resume[q].offset <= offset /\ rstore[q] = hist[resume[q].offset + 1]
      BY <2>1 DEF ReplicaOK
    <3>3. QED
      BY <1>3, <1>4, <1>5, <3>1, <3>2
  <2>4. LinkOK(q)'
    <3>1. CASE handler[q] = "serving" /\ Accepts(q, f.size)
      <4>1. handler'[q] = "serving" /\ queue'[q] = Append(queue[q], f) /\ sent'[q] = offset + 1
        BY <1>1, <3>1, <1>0 DEF Enqueue, f, TypeOK
      <4>2. PathOK(q) /\ SyncOK(q) /\ AcksOK(q) /\ phase[q] # "down"
        BY <2>1, <3>1 DEF ReplicaOK, LinkOK
      <4>3. PathOK(q)'
        <5>1. Base(q)' = Base(q) /\ Base(q) \in Nat
          BY <1>0, <2>2, LinkTypes DEF Base
        <5>2. \A i \in 1..Len(wire[q]) : wire[q][i] \in Frames
          BY <1>0, LinkTypes
        <5>3. \A i \in 1..Len(wire'[q]) :
                 wire'[q][i].offset = Base(q)' + i /\ FrameOK(wire'[q][i], hist', offset')
          BY <1>7, <2>2, <4>2, <5>1, <5>2 DEF PathOK
        <5>4. Len(queue[q]) \in Nat /\ Len(wire[q]) \in Nat /\ queue[q] \in Seq(Frames)
          BY <1>0, LinkTypes
        <5>5. offset = Base(q) + Len(wire[q]) + Len(queue[q])
          BY <3>1, <4>2 DEF PathOK
        <5>6. \A i \in 1..Len(queue'[q]) :
                 queue'[q][i].offset = Base(q)' + Len(wire'[q]) + i /\ FrameOK(queue'[q][i], hist', offset')
          <6> SUFFICES ASSUME NEW i \in 1..(Len(queue[q]) + 1)
                       PROVE  /\ queue'[q][i].offset = Base(q) + Len(wire[q]) + i
                              /\ FrameOK(queue'[q][i], hist', offset')
            BY <1>2, <2>2, <4>1, <5>1, <5>4
          <6>1. CASE i = Len(queue[q]) + 1
            <7>1. queue'[q][i] = f
              BY <1>2, <4>1, <5>4, <6>1
            <7>2. QED
              <8>1. f.offset = Base(q) + Len(wire[q]) + i
                <9>1. f.offset = offset + 1
                  BY <1>2
                <9>2. offset + 1 = Base(q) + Len(wire[q]) + (Len(queue[q]) + 1)
                  BY <5>1, <5>4, <5>5
                <9>3. QED
                  BY <6>1, <9>1, <9>2, Zenon
              <8>2. QED
                BY <1>6, <7>1, <8>1, Zenon
          <6>2. CASE i \in 1..Len(queue[q])
            <7>1. queue'[q][i] = queue[q][i] /\ queue[q][i] \in Frames
              BY <1>2, <4>1, <5>4, <6>2
            <7>2. queue[q][i].offset = Base(q) + Len(wire[q]) + i /\ FrameOK(queue[q][i], hist, offset)
              BY <4>2, <6>2 DEF PathOK
            <7>3. QED
              BY <1>7, <7>1, <7>2
          <6>3. QED
            BY <5>4, <6>1, <6>2
        <5>7. Len(queue'[q]) = Len(queue[q]) + 1
          BY <1>2, <4>1, <5>4
        <5>8. sent'[q] = Base(q)' + Len(wire'[q]) + Len(queue'[q])
          <6>1. offset + 1 = Base(q) + Len(wire[q]) + (Len(queue[q]) + 1)
            <7>1. \A b, w, l \in Nat : b + w + l + 1 = b + w + (l + 1)
              OBVIOUS
            <7>2. QED
              BY <5>1, <5>4, <5>5, <7>1, Zenon
          <6>2. wire'[q] = wire[q] /\ Base(q)' = Base(q) /\ sent'[q] = offset + 1
            BY <2>2, <4>1, <5>1
          <6>3. QED
            BY <5>7, <6>1, <6>2, Zenon
        <5>9. QED
          BY <1>3, <1>4, <4>1, <5>3, <5>6, <5>8 DEF PathOK
      <4>4. SyncOK(q)'
        BY <1>0, <1>5, <2>2, <4>2, SnapshotStays
      <4>5. AcksOK(q)'
        BY <2>2, <4>2 DEF AcksOK
      <4>6. QED
        BY <2>2, <4>1, <4>2, <4>3, <4>4, <4>5 DEF LinkOK
    <3>2. CASE ~ (handler[q] = "serving" /\ Accepts(q, f.size))
      <4>1. /\ handler'[q] = IF handler[q] = "serving" THEN "draining" ELSE handler[q]
            /\ queue'[q] = queue[q] /\ sent'[q] = sent[q]
        BY <1>1, <3>2, <1>0 DEF Enqueue, f, TypeOK
      <4>2. CASE handler[q] \in {"none", "greeted"}
        BY <2>1, <2>2, <4>1, <4>2 DEF ReplicaOK, LinkOK
      <4>3. CASE handler[q] \in {"serving", "draining", "closed"}
        <5>1. PathOK(q) /\ SyncOK(q) /\ AcksOK(q) /\ phase[q] # "down"
          BY <2>1, <4>3 DEF ReplicaOK, LinkOK
        <5>2. PathOK(q)'
          <6>1. Base(q)' = Base(q)
            BY <2>2 DEF Base
          <6>2. /\ \A i \in 1..Len(wire[q]) : wire[q][i] \in Frames
                /\ \A i \in 1..Len(queue[q]) : queue[q][i] \in Frames
                /\ sent[q] \in Nat
            BY <1>0, LinkTypes
          <6>3. handler'[q] # "serving"
            BY <4>1
          <6>4. QED
            BY <1>3, <1>4, <1>7, <2>2, <4>1, <5>1, <6>1, <6>2, <6>3 DEF PathOK
        <5>3. SyncOK(q)'
          BY <1>0, <1>5, <2>2, <5>1, SnapshotStays
        <5>4. AcksOK(q)'
          BY <2>2, <5>1 DEF AcksOK
        <5>5. QED
          BY <2>2, <4>1, <4>3, <5>1, <5>2, <5>3, <5>4 DEF LinkOK
      <4>4. QED
        BY <1>0, <4>2, <4>3 DEF TypeOK
    <3>3. QED
      BY <3>1, <3>2
  <2>5. QED
    BY <2>1, <2>2, <2>3, <2>4 DEF ReplicaOK
<1>11. QED
  BY <1>8, <1>9, <1>10 DEF IInv, ReplicaOK, ReplicaMatchesHistory

\* With no write in flight the hub's keyspace is that of the last frame.
LEMMA QuietStore ==
    ASSUME TypeOK, StoreOK, HubIsReplica = FALSE, BarrierFree
    PROVE  store = hist[offset + 1]
<1>1. store \in [Keys -> Seq(Nat \ {0})] /\ hist[offset + 1] \in [Keys -> Seq(Nat \ {0})]
  BY DEF TypeOK, Stores
<1>2. \A k \in Keys : store[k] = hist[offset + 1][k]
  BY DEF StoreOK, BarrierFree
<1>3. QED
  BY <1>1, <1>2

\* handle_replica registers a replica at one exact boundary: the frames or the
\* snapshot it is given end where its channel begins.
LEMMA ServeKeeps ==
    ASSUME IInv, TypeOK', HubIsReplica = FALSE, NEW r \in Replicas, Serve(r)
    PROVE  IInv'
<1>1. TypeOK /\ StoreOK /\ BacklogOK /\ ReplicaOK(r) /\ offset \in Nat
  BY IInvByReplica DEF TypeOK
<1>2. /\ queue[r] = << >> /\ wire[r] = << >> /\ acks[r] = NoAcks /\ phase[r] = "await"
      /\ resume[r].offset \in Nat
  BY <1>1, LinkTypes DEF Serve, ReplicaOK, LinkOK
<1>3. /\ UNCHANGED <<run, offset, hist, queue, acks, phase, resume, goal, left, rstore>>
      /\ handler'[r] = "serving" /\ sent'[r] = offset
  BY <1>1 DEF Serve, hubVars, replicaVars, TypeOK
<1>4. PathOK(r)' /\ SyncOK(r)' /\ AcksOK(r)'
  <2>1. CASE CanResume(resume[r].run, resume[r].offset)
    <3> DEFINE o == resume[r].offset
               w == FramesAfter(o)
    <3>1. /\ wire'[r] = w /\ acked'[r] = o
          /\ reply'[r] = [mode |-> "P", boundary |-> offset, count |-> Len(w)]
      BY <1>1, <2>1 DEF Serve, TypeOK
    <3>2. resume[r].run = run /\ o <= offset /\ o \in Nat
      BY <1>2, <2>1 DEF CanResume
    <3>3. /\ Len(w) = offset - o
          /\ \A i \in 1..(offset - o) : w[i].offset = o + i /\ FrameOK(w[i], hist, offset)
      BY <1>1, <2>1, <3>2, FramesAfterProperties
    <3> HIDE DEF o, w
    <3>4. Base(r)' = o
      BY <1>3, <3>1 DEF Base, o
    <3>5. PathOK(r)'
      <4>1. \A i \in 1..Len(wire'[r]) : wire'[r][i].offset = o + i
                                        /\ FrameOK(wire'[r][i], hist', offset')
        BY <1>3, <3>1, <3>3
      <4>2. Len(queue'[r]) = 0
        BY <1>2, <1>3
      <4>3. sent'[r] = o + Len(wire'[r]) + Len(queue'[r]) /\ sent'[r] <= offset' /\ sent'[r] = offset'
        BY <1>1, <1>3, <3>1, <3>2, <3>3, <4>2
      <4>4. QED
        BY <3>4, <4>1, <4>2, <4>3 DEF PathOK
    <3>6. SyncOK(r)'
      <4>1. offset = o + Len(w) /\ Len(w) \in Nat
        BY <1>1, <3>2, <3>3
      <4>2. QED
        BY <1>2, <1>3, <3>1, <3>2, <4>1 DEF SyncOK, o
    <3>7. AcksOK(r)'
      <4>1. acks'[r] = NoAcks /\ acked'[r] = resume'[r].offset /\ reply'[r].mode = "P"
        BY <1>2, <1>3, <3>1 DEF o
      <4>2. QED
        BY <1>2, <1>3, <4>1 DEF AcksOK, NoAcks, InStep
    <3>8. QED
      BY <3>5, <3>6, <3>7
  <2>2. CASE ~ CanResume(resume[r].run, resume[r].offset)
    <3>1. /\ reply'[r] = [mode |-> "F", boundary |-> offset, snapshot |-> store]
          /\ wire'[r] = << >> /\ acked'[r] = 0
      BY <1>1, <1>2, <2>2 DEF Serve, TypeOK
    <3>2. store = hist[offset + 1]
      BY <1>1, QuietStore DEF Serve
    <3>3. Base(r)' = offset
      BY <3>1 DEF Base
    <3>4. PathOK(r)'
      BY <1>1, <1>2, <1>3, <3>1, <3>3 DEF PathOK
    <3>5. SyncOK(r)'
      BY <1>2, <1>3, <3>1, <3>2 DEF SyncOK
    <3>6. AcksOK(r)'
      <4>1. acks'[r] = NoAcks /\ acked'[r] = 0 /\ resume'[r].offset \in Nat
        BY <1>2, <1>3, <3>1
      <4>2. QED
        BY <4>1 DEF AcksOK, NoAcks, InStep
    <3>7. QED
      BY <3>4, <3>5, <3>6
  <2>3. QED
    BY <2>1, <2>2
<1>5. ReplicaOK(r)'
  BY <1>1, <1>2, <1>3, <1>4 DEF ReplicaOK, LinkOK
<1>6. \A q \in Replicas \ {r} : SameLink(q)
  <2> SUFFICES ASSUME NEW q \in Replicas, q # r PROVE SameLink(q)
    OBVIOUS
  <2>1. reply'[q] = reply[q] /\ wire'[q] = wire[q] /\ acked'[q] = acked[q]
    <3>1. CASE CanResume(resume[r].run, resume[r].offset)
      BY <1>1, <3>1 DEF Serve, TypeOK
    <3>2. CASE ~ CanResume(resume[r].run, resume[r].offset)
      BY <1>1, <3>2 DEF Serve, TypeOK
    <3>3. QED
      BY <3>1, <3>2
  <2>2. handler'[q] = handler[q] /\ sent'[q] = sent[q]
    BY <1>1 DEF Serve, TypeOK
  <2>3. QED
    BY <1>3, <2>1, <2>2 DEF SameLink
<1>7. QED
  BY <1>5, <1>6, OneReplica DEF Serve

\* A frame moves from the channel to the end of the socket.
LEMMA StreamKeeps ==
    ASSUME IInv, TypeOK', NEW r \in Replicas, Stream(r)
    PROVE  IInv'
<1>1. TypeOK /\ ReplicaOK(r) /\ offset \in Nat
  BY IInvByReplica DEF TypeOK
<1>2. /\ PathOK(r) /\ SyncOK(r) /\ AcksOK(r)
      /\ handler[r] \in {"serving", "draining"} /\ phase[r] # "down"
  BY <1>1 DEF Stream, ReplicaOK, LinkOK
<1>3. /\ UNCHANGED <<run, offset, hist, handler, sent, acked, reply, phase, resume, goal,
                     left, rstore>>
      /\ acks'[r] = DropRead(acks[r])
      /\ wire'[r] = Append(wire[r], Head(queue[r])) /\ queue'[r] = Tail(queue[r])
      /\ queue[r] # << >>
  BY <1>1 DEF Stream, hubVars, replicaVars, TypeOK
<1>4. /\ wire[r] \in Seq(Frames) /\ queue[r] \in Seq(Frames) /\ Base(r) \in Nat
      /\ Len(wire[r]) \in Nat /\ Len(queue[r]) \in Nat
  BY <1>1, LinkTypes
<1>5. /\ Len(queue[r]) > 0 /\ Len(wire'[r]) = Len(wire[r]) + 1 /\ Len(queue'[r]) = Len(queue[r]) - 1
      /\ \A i \in 1..Len(wire[r]) : wire'[r][i] = wire[r][i]
      /\ wire'[r][Len(wire[r]) + 1] = queue[r][1]
      /\ \A i \in 1..(Len(queue[r]) - 1) : queue'[r][i] = queue[r][i + 1]
  BY <1>3, <1>4
<1>6. Base(r)' = Base(r)
  BY <1>3 DEF Base
<1>7. PathOK(r)'
  <2>1. ASSUME NEW i \in 1..(Len(wire[r]) + 1)
        PROVE  wire'[r][i].offset = Base(r) + i /\ FrameOK(wire'[r][i], hist, offset)
    <3>1. CASE i = Len(wire[r]) + 1
      <4>1. 1 \in 1..Len(queue[r])
        BY <1>4, <1>5
      <4>2. queue[r][1].offset = Base(r) + Len(wire[r]) + 1 /\ FrameOK(queue[r][1], hist, offset)
        BY <1>2, <4>1 DEF PathOK
      <4>3. Base(r) + Len(wire[r]) + 1 = Base(r) + (Len(wire[r]) + 1)
        BY <1>4
      <4>4. QED
        BY <1>5, <3>1, <4>2, <4>3, Zenon
    <3>2. CASE i \in 1..Len(wire[r])
      BY <1>2, <1>5, <3>2 DEF PathOK
    <3>3. QED
      BY <1>4, <3>1, <3>2
  <2>2. ASSUME NEW i \in 1..(Len(queue[r]) - 1)
        PROVE  /\ queue'[r][i].offset = Base(r) + (Len(wire[r]) + 1) + i
               /\ FrameOK(queue'[r][i], hist, offset)
    <3>1. i + 1 \in 1..Len(queue[r])
      BY <1>4
    <3>2. /\ queue[r][i + 1].offset = Base(r) + Len(wire[r]) + (i + 1)
          /\ FrameOK(queue[r][i + 1], hist, offset)
      BY <1>2, <3>1 DEF PathOK
    <3>3. Base(r) + Len(wire[r]) + (i + 1) = Base(r) + (Len(wire[r]) + 1) + i
      <4>1. \A b, n, j \in Int : b + n + (j + 1) = b + (n + 1) + j
        OBVIOUS
      <4>2. Base(r) \in Int /\ Len(wire[r]) \in Int /\ i \in Int
        BY <1>4
      <4>3. QED
        BY <4>1, <4>2, Zenon
    <3>4. QED
      BY <1>5, <3>2, <3>3, Zenon
  <2>3. /\ sent[r] = Base(r) + Len(wire[r]) + Len(queue[r]) /\ sent[r] <= offset
        /\ handler[r] = "serving" => sent[r] = offset
    BY <1>2 DEF PathOK
  <2>4. sent[r] = Base(r) + (Len(wire[r]) + 1) + (Len(queue[r]) - 1)
    <3>1. \A b, n, m \in Int : b + n + m = b + (n + 1) + (m - 1)
      OBVIOUS
    <3>2. Base(r) \in Int /\ Len(wire[r]) \in Int /\ Len(queue[r]) \in Int
      BY <1>4
    <3>3. QED
      BY <2>3, <3>1, <3>2, Zenon
  <2>5. /\ hist' = hist /\ offset' = offset /\ sent'[r] = sent[r]
        /\ handler'[r] = handler[r]
    BY <1>3
  <2>6. QED
    BY <1>5, <1>6, <2>1, <2>2, <2>3, <2>4, <2>5 DEF PathOK
<1>8. SyncOK(r)'
  <2>1. /\ reply'[r] = reply[r] /\ phase'[r] = phase[r] /\ resume'[r] = resume[r]
        /\ goal'[r] = goal[r] /\ left'[r] = left[r] /\ hist' = hist /\ run' = run
    BY <1>3
  <2>2. reply[r].mode = "P" => reply[r].count \in Nat
    BY <1>1, LinkTypes
  <2>3. left[r] \in Nat
    BY <1>1, LinkTypes
  <2>4. /\ reply[r].mode = "P" => reply[r].count <= Len(wire'[r])
        /\ phase[r] = "partial" => left[r] <= Len(wire'[r])
    BY <1>2, <1>4, <1>5, <2>2, <2>3 DEF SyncOK
  <2>5. QED
    BY <1>2, <2>1, <2>4 DEF SyncOK
<1>9. AcksOK(r)'
  <2>1. /\ acks'[r].sent = acks[r].sent /\ acks'[r].taken = acks[r].taken
        /\ acks'[r].buf = << >> /\ acks'[r].torn = (acks[r].torn \/ acks[r].buf # << >>)
    BY <1>1, <1>3, LinkTypes DEF AckStates, DropRead
  <2>2. acks[r] = NoAcks => acks'[r] = NoAcks
    <3>1. ASSUME acks[r] = NoAcks PROVE acks'[r] = NoAcks
      <4>1. acks'[r].sent = << >> /\ acks'[r].taken = 0 /\ acks'[r].buf = << >>
        BY <2>1, <3>1 DEF NoAcks
      <4>2. acks[r].torn = FALSE /\ acks[r].buf = << >>
        BY <3>1 DEF NoAcks
      <4>3. acks'[r].torn = FALSE
        BY <2>1, <4>2, Zenon
      <4>4. acks'[r] \in AckStates
        BY DEF TypeOK
      <4>5. QED
        BY <4>1, <4>3, <4>4 DEF AckStates, NoAcks
    <3>2. QED
      BY <3>1
  <2>3. ~ acks'[r].torn => ~ acks[r].torn /\ acks[r].buf = << >>
    BY <2>1
  <2>4. ~ acks'[r].torn => InStep(acks'[r])
    BY <1>2, <2>1, <2>3 DEF AcksOK, InStep
  <2>5. QED
    BY <1>2, <1>3, <2>1, <2>2, <2>3, <2>4 DEF AcksOK
<1>10. ReplicaOK(r)'
  BY <1>1, <1>2, <1>3, <1>7, <1>8, <1>9 DEF ReplicaOK, LinkOK
<1>11. \A q \in Replicas \ {r} : SameLink(q)
  BY <1>1, <1>3 DEF Stream, TypeOK, SameLink
<1>12. QED
  BY <1>10, <1>11, OneReplica DEF Stream

\* A number is what its two halves make.
LEMMA HalvesMake ==
    ASSUME NEW n \in Nat
    PROVE  Offset(Halves(n)[1], Halves(n)[2]) = n
<1>1. \A h \in Nat \ {0} : (n % h) + h * (n \div h) = n
  OBVIOUS
<1>2. QED
  BY <1>1, ReplicationAssumption DEF Offset, Halves

\* As long as no read was dropped, an acknowledgement that is read names an offset
\* the replica has applied.
LEMMA ReadAckKeeps ==
    ASSUME IInv, TypeOK', NEW r \in Replicas, ReadAck(r)
    PROVE  IInv'
<1>1. TypeOK /\ ReplicaOK(r)
  BY IInvByReplica
<1>2. PathOK(r) /\ SyncOK(r) /\ AcksOK(r) /\ handler[r] \in {"serving", "draining"}
  BY <1>1 DEF ReadAck, ReplicaOK, LinkOK
<1>3. /\ UNCHANGED <<run, offset, hist, handler, queue, sent, reply, wire, phase, resume, goal,
                     left, rstore>>
  BY <1>1 DEF ReadAck, hubVars, replicaVars, TypeOK
<1> DEFINE a == acks[r]
           s == a.sent
<1>4. /\ a \in AckStates /\ s \in Seq(Nat) /\ Len(s) \in Nat /\ s # << >> /\ acked[r] \in Nat
      /\ resume[r].offset \in Nat
  BY <1>1, LinkTypes, ReadAckEffect
<1>5. /\ Len(s) > 0 /\ Head(s) = s[1] /\ Head(s) \in Nat /\ Len(Tail(s)) = Len(s) - 1
      /\ \A i \in 1..(Len(s) - 1) : Tail(s)[i] = s[i + 1]
  BY <1>4
<1>6. AcksOK(r)'
  <2>1. /\ acks'[r].sent = (IF a.taken = 0 THEN s ELSE Tail(s))
        /\ acks'[r].taken = 1 - a.taken /\ acks'[r].torn = a.torn
        /\ acks'[r].buf = (IF a.buf = << >> THEN <<NextHalf(a)>> ELSE << >>)
    <3>1. /\ TakeHalf(a).sent = (IF a.taken = 0 THEN s ELSE Tail(s))
          /\ TakeHalf(a).taken = 1 - a.taken /\ TakeHalf(a).torn = a.torn
          /\ TakeHalf(a) \in AckStates
      BY <1>4, AckSteps DEF TakeHalf, AckStates
    <3>2. QED
      BY <1>1, <3>1, ReadAckEffect DEF AckStates
  <2>2. \A i \in 1..Len(s) : s[i] <= resume[r].offset
    BY <1>2 DEF AcksOK
  <2>3. \A i \in 1..Len(acks'[r].sent) : acks'[r].sent[i] <= resume'[r].offset
    <3>1. \A i \in 1..(Len(s) - 1) : i + 1 \in 1..Len(s)
      BY <1>4
    <3>2. QED
      BY <1>3, <1>5, <2>1, <2>2, <3>1
  <2>4. reply[r].mode # "F"
    BY <1>2, <1>4 DEF AcksOK, NoAcks
  <2>5. ASSUME ~ a.torn PROVE acked'[r] <= resume[r].offset /\ InStep(acks'[r])
    <3>1. acked[r] <= resume[r].offset /\ InStep(a)
      BY <1>2, <2>5 DEF AcksOK
    <3>2. CASE a.taken = 0 /\ a.buf = << >>
      <4>1. acked'[r] = acked[r]
        BY <1>1, <3>2, ReadAckEffect
      <4>2. NextHalf(a) = Halves(Head(s))[1]
        BY <3>2 DEF NextHalf
      <4>3. /\ acks'[r].sent = s /\ acks'[r].taken = 1
            /\ acks'[r].buf = <<Halves(Head(s))[1]>>
        BY <2>1, <3>2, <4>2
      <4>4. QED
        BY <1>4, <3>1, <4>1, <4>3 DEF InStep
    <3>3. CASE a.taken = 1 /\ a.buf = <<Halves(Head(s))[1]>>
      <4>1. a.buf # << >> /\ Head(a.buf) = Halves(Head(s))[1]
        BY <3>3
      <4>2. NextHalf(a) = Halves(Head(s))[2]
        BY <3>3 DEF NextHalf
      <4>3. Offset(Head(a.buf), NextHalf(a)) = Head(s)
        BY <1>5, <4>1, <4>2, HalvesMake
      <4>4. Head(s) <= resume[r].offset
        BY <1>4, <1>5, <2>2
      <4>5. acked'[r] = (IF Head(s) > acked[r] THEN Head(s) ELSE acked[r])
        BY <1>1, <4>1, <4>3, ReadAckEffect
      <4>6. acks'[r].taken = 0 /\ acks'[r].buf = << >>
        BY <2>1, <3>3, <4>1
      <4>7. QED
        BY <3>1, <4>4, <4>5, <4>6 DEF InStep
    <3>4. QED
      BY <3>1, <3>2, <3>3 DEF InStep
  <2>6. QED
    BY <1>3, <2>1, <2>3, <2>4, <2>5 DEF AcksOK
<1>7. PathOK(r)' /\ SyncOK(r)'
  BY <1>2, <1>3 DEF PathOK, SyncOK, Base
<1>8. ReplicaOK(r)'
  BY <1>1, <1>2, <1>3, <1>6, <1>7 DEF ReplicaOK, LinkOK
<1>9. \A q \in Replicas \ {r} : SameLink(q)
  BY <1>1, <1>3, ReadAckEffect DEF TypeOK, SameLink
<1>10. QED
  BY <1>8, <1>9, OneReplica DEF ReadAck

\* The handler of a drained channel ends.
LEMMA EndHandlerKeeps ==
    ASSUME IInv, TypeOK', NEW r \in Replicas, EndHandler(r)
    PROVE  IInv'
<1>1. TypeOK /\ ReplicaOK(r)
  BY IInvByReplica
<1>2. PathOK(r) /\ SyncOK(r) /\ AcksOK(r) /\ handler[r] = "draining"
  BY <1>1 DEF EndHandler, ReplicaOK, LinkOK
<1>3. /\ UNCHANGED <<run, offset, hist, queue, sent, acked, reply, wire, acks, phase, resume, goal,
                     left, rstore>>
      /\ handler'[r] = "closed"
  BY <1>1 DEF EndHandler, hubVars, replicaVars, TypeOK
<1>4. PathOK(r)' /\ SyncOK(r)' /\ AcksOK(r)'
  BY <1>2, <1>3 DEF PathOK, SyncOK, AcksOK, Base
<1>5. ReplicaOK(r)'
  BY <1>1, <1>2, <1>3, <1>4 DEF ReplicaOK, LinkOK
<1>6. \A q \in Replicas \ {r} : SameLink(q)
  BY <1>1, <1>3 DEF EndHandler, TypeOK, SameLink
<1>7. QED
  BY <1>5, <1>6, OneReplica DEF EndHandler

\* A replica connects: its link is empty until it is served.
LEMMA ConnectKeeps ==
    ASSUME IInv, TypeOK', NEW r \in Replicas, Connect(r)
    PROVE  IInv'
<1>1. TypeOK /\ ReplicaOK(r)
  BY IInvByReplica
<1>2. /\ UNCHANGED <<run, offset, hist, queue, sent, acked, reply, wire, acks, resume, goal,
                     left, rstore>>
      /\ handler[r] = "none" /\ handler'[r] = "greeted" /\ phase'[r] = "await"
  BY <1>1 DEF Connect, hubVars, TypeOK
<1>3. ReplicaOK(r)'
  BY <1>1, <1>2 DEF ReplicaOK, LinkOK
<1>4. \A q \in Replicas \ {r} : SameLink(q)
  BY <1>1, <1>2 DEF Connect, TypeOK, SameLink
<1>5. QED
  BY <1>3, <1>4, OneReplica DEF Connect

\* The connection of r ends: with its resume state kept or forgotten, r is a
\* disconnected replica whose keyspace has not moved.
LEMMA DisconnectKeeps ==
    ASSUME IInv, TypeOK', NEW r \in Replicas, Disconnect({r}), UNCHANGED <<hubVars, rstore>>,
           \/ resume' = resume
           \/ resume' = [resume EXCEPT ![r] = [run |-> NoRun, offset |-> 0]]
    PROVE  IInv'
<1>1. TypeOK /\ ReplicaOK(r) /\ run \in Nat \ {0}
  BY IInvByReplica DEF TypeOK
<1>2. LinkOK(r)'
  BY <1>1, Disconnected
<1>3. UNCHANGED <<run, offset, hist, rstore>>
  BY DEF hubVars
<1>4. resume'[r] = resume[r] \/ resume'[r] = [run |-> NoRun, offset |-> 0]
  BY <1>1 DEF TypeOK
<1>5. ReplicaOK(r)'
  BY <1>1, <1>2, <1>3, <1>4 DEF ReplicaOK, NoRun
<1>6. \A q \in Replicas \ {r} : SameLink(q)
  <2>1. \A q \in Replicas \ {r} : resume'[q] = resume[q] /\ rstore'[q] = rstore[q]
    BY <1>1, <1>3 DEF TypeOK
  <2>2. QED
    BY <1>1, <2>1, Disconnected
<1>7. QED
  BY <1>5, <1>6, OneReplica

\* The hub has answered a replica that waits for its header.
LEMMA Answered ==
    ASSUME TypeOK, NEW r \in Replicas, ReplicaOK(r),
           \/ phase[r] \in {"partial", "stream"}
           \/ phase[r] = "await" /\ reply[r].mode \in {"F", "P"}
    PROVE  /\ handler[r] \in {"serving", "draining", "closed"}
           /\ PathOK(r) /\ SyncOK(r) /\ AcksOK(r)
<1>1. handler[r] \in {"none", "greeted", "serving", "draining", "closed"}
  BY DEF TypeOK
<1>2. handler[r] # "none" /\ handler[r] # "greeted"
  BY DEF ReplicaOK, LinkOK, NoReply
<1>3. QED
  BY <1>1, <1>2 DEF ReplicaOK, LinkOK

\* Writing an acknowledgement of an offset up to o disturbs nothing that is read.
LEMMA AcknowledgeKeeps ==
    ASSUME NEW a \in AckStates, NEW n \in Nat, NEW o \in Nat, n <= o,
           \A i \in 1..Len(a.sent) : a.sent[i] <= o
    PROVE  /\ \A i \in 1..Len(Acknowledge(a, n).sent) : Acknowledge(a, n).sent[i] <= o
           /\ Acknowledge(a, n).torn = a.torn
           /\ InStep(a) => InStep(Acknowledge(a, n))
<1> DEFINE b == Acknowledge(a, n)
           s == a.sent
<1>1. s \in Seq(Nat) /\ Len(s) \in Nat
  BY DEF AckStates
<1>2. b.sent = Append(s, n) /\ b.taken = a.taken /\ b.buf = a.buf /\ b.torn = a.torn
  BY DEF Acknowledge, AckStates
<1> HIDE DEF b, s
<1>3. /\ Len(b.sent) = Len(s) + 1 /\ b.sent[Len(s) + 1] = n
      /\ \A i \in 1..Len(s) : b.sent[i] = s[i]
      /\ s # << >> => b.sent # << >> /\ Head(b.sent) = Head(s)
  <2>1. \A q \in Seq(Nat) : \A m \in Nat :
          /\ Append(q, m) \in Seq(Nat) /\ Len(Append(q, m)) = Len(q) + 1
          /\ Append(q, m)[Len(q) + 1] = m
          /\ \A i \in 1..Len(q) : Append(q, m)[i] = q[i]
    OBVIOUS
  <2>2. /\ Append(s, n) \in Seq(Nat) /\ Len(Append(s, n)) = Len(s) + 1
        /\ Append(s, n)[Len(s) + 1] = n
        /\ \A i \in 1..Len(s) : Append(s, n)[i] = s[i]
    BY <1>1, <2>1, Zenon
  <2>3. s # << >> => Append(s, n) # << >> /\ Head(Append(s, n)) = Head(s)
    BY <1>1, <2>2
  <2>4. QED
    BY <1>2, <2>2, <2>3, Zenon
<1>4. \A i \in 1..(Len(s) + 1) : i \in 1..Len(s) \/ i = Len(s) + 1
  BY <1>1
<1>5. \A i \in 1..Len(b.sent) : b.sent[i] <= o
  <2>1. \A i \in 1..Len(s) : s[i] <= o
    BY DEF s
  <2>2. QED
    BY <1>3, <1>4, <2>1
<1>6. InStep(a) => InStep(b)
  BY <1>2, <1>3 DEF InStep, s
<1>7. QED
  BY <1>2, <1>5, <1>6 DEF b

\* A snapshot is the keyspace at its boundary, and the socket continues there.
LEMMA InstallSnapshotKeeps ==
    ASSUME IInv, TypeOK', NEW r \in Replicas, InstallSnapshot(r)
    PROVE  IInv'
<1>1. TypeOK /\ ReplicaOK(r) /\ offset \in Nat /\ run \in Nat
  BY IInvByReplica DEF TypeOK
<1>2. /\ handler[r] \in {"serving", "draining", "closed"}
      /\ PathOK(r) /\ SyncOK(r) /\ AcksOK(r) /\ reply[r].mode = "F"
  BY <1>1, Answered DEF InstallSnapshot
<1>3. /\ UNCHANGED <<run, offset, hist, handler, queue, sent, acked, wire, goal, left>>
      /\ rstore'[r] = reply[r].snapshot /\ reply'[r] = NoReply /\ phase'[r] = "stream"
      /\ resume'[r] = [run |-> run, offset |-> reply[r].boundary]
      /\ acks'[r] = Acknowledge(acks[r], reply[r].boundary)
  BY <1>1 DEF InstallSnapshot, hubVars, TypeOK
<1>4. /\ reply[r].boundary \in Nat /\ Len(wire[r]) \in Nat /\ Len(queue[r]) \in Nat
      /\ Base(r) = reply[r].boundary /\ Base(r)' = reply[r].boundary
  BY <1>1, <1>2, <1>3, LinkTypes DEF Base, NoReply
<1>5. PathOK(r)'
  BY <1>2, <1>3, <1>4 DEF PathOK
<1>6. SyncOK(r)'
  BY <1>3 DEF SyncOK, NoReply
<1>7. AcksOK(r)'
  <2>1. acked[r] = 0 /\ acks[r] = NoAcks
    BY <1>2 DEF AcksOK
  <2>2. /\ acks'[r].sent = <<reply[r].boundary>> /\ acks'[r].taken = 0 /\ acks'[r].buf = << >>
        /\ acked'[r] = 0 /\ resume'[r].offset = reply[r].boundary
    BY <1>3, <2>1 DEF Acknowledge, NoAcks
  <2>3. Len(acks'[r].sent) = 1 /\ acks'[r].sent[1] = reply[r].boundary
    BY <2>2
  <2>4. \A i \in 1..1 : i = 1
    OBVIOUS
  <2>5. reply'[r].mode # "F"
    BY <1>3 DEF NoReply
  <2>6. QED
    BY <1>4, <2>2, <2>3, <2>4, <2>5 DEF AcksOK, InStep
<1>8. reply[r].boundary <= offset /\ reply[r].snapshot = hist[reply[r].boundary + 1]
  BY <1>1, <1>2, <1>4, SMTT(20) DEF PathOK, SyncOK
<1>9. ReplicaOK(r)'
  BY <1>1, <1>2, <1>3, <1>5, <1>6, <1>7, <1>8 DEF ReplicaOK, LinkOK
<1>10. \A q \in Replicas \ {r} : SameLink(q)
  BY <1>1, <1>3 DEF InstallSnapshot, TypeOK, SameLink
<1>11. QED
  BY <1>9, <1>10, OneReplica DEF InstallSnapshot

\* The replica turns to the frames of a partial synchronization.
LEMMA BeginPartialKeeps ==
    ASSUME IInv, TypeOK', NEW r \in Replicas, BeginPartial(r)
    PROVE  IInv'
<1>1. TypeOK /\ ReplicaOK(r)
  BY IInvByReplica DEF TypeOK
<1>2. /\ handler[r] \in {"serving", "draining", "closed"}
      /\ PathOK(r) /\ SyncOK(r) /\ AcksOK(r) /\ reply[r].mode = "P"
  BY <1>1, Answered DEF BeginPartial
<1>3. /\ UNCHANGED <<run, offset, hist, handler, queue, sent, acked, wire, acks, resume, rstore>>
      /\ reply'[r] = NoReply /\ phase'[r] = "partial"
      /\ goal'[r] = reply[r].boundary /\ left'[r] = reply[r].count
  BY <1>1 DEF BeginPartial, hubVars, TypeOK
<1>4. Base(r)' = Base(r)
  BY <1>2, <1>3 DEF Base, NoReply
<1>5. PathOK(r)' /\ AcksOK(r)'
  BY <1>2, <1>3, <1>4 DEF PathOK, AcksOK, NoReply
<1>6. SyncOK(r)'
  BY <1>2, <1>3 DEF SyncOK, NoReply
<1>7. ReplicaOK(r)'
  BY <1>1, <1>2, <1>3, <1>5, <1>6 DEF ReplicaOK, LinkOK
<1>8. \A q \in Replicas \ {r} : SameLink(q)
  BY <1>1, <1>3 DEF BeginPartial, TypeOK, SameLink
<1>9. QED
  BY <1>7, <1>8, OneReplica DEF BeginPartial

\* A partial synchronization that reached its boundary becomes the live stream.
LEMMA EndPartialKeeps ==
    ASSUME IInv, TypeOK', NEW r \in Replicas, EndPartial(r)
    PROVE  IInv'
<1>1. TypeOK /\ ReplicaOK(r)
  BY IInvByReplica DEF TypeOK
<1>2. /\ handler[r] \in {"serving", "draining", "closed"}
      /\ PathOK(r) /\ SyncOK(r) /\ AcksOK(r) /\ phase[r] = "partial"
      /\ resume[r].offset = goal[r]
  BY <1>1, Answered DEF EndPartial
<1>3. /\ UNCHANGED <<run, offset, hist, handler, queue, sent, acked, reply, wire, goal, left, rstore>>
      /\ phase'[r] = "stream" /\ acks'[r] = Acknowledge(acks[r], goal[r])
      /\ resume'[r] = [run |-> run, offset |-> goal[r]]
  BY <1>1 DEF EndPartial, hubVars, TypeOK
<1>4. /\ resume[r].run = run /\ reply[r].mode = "none"
      /\ resume'[r].run = resume[r].run /\ resume'[r].offset = resume[r].offset
  BY <1>2, <1>3 DEF SyncOK
<1>5. PathOK(r)' /\ SyncOK(r)'
  BY <1>2, <1>3, <1>4 DEF PathOK, SyncOK, Base
<1>6. AcksOK(r)'
  <2>1. acks[r] \in AckStates /\ goal[r] \in Nat /\ goal[r] <= resume[r].offset
    BY <1>1, <1>2, LinkTypes
  <2>2. /\ \A i \in 1..Len(acks'[r].sent) : acks'[r].sent[i] <= resume[r].offset
        /\ acks'[r].torn = acks[r].torn
        /\ InStep(acks[r]) => InStep(acks'[r])
    BY <1>1, <1>2, <1>3, <2>1, LinkTypes, AcknowledgeKeeps DEF AcksOK
  <2>3. QED
    BY <1>2, <1>3, <1>4, <2>2 DEF AcksOK
<1>7. ReplicaOK(r)'
  BY <1>1, <1>2, <1>3, <1>4, <1>5, <1>6 DEF ReplicaOK, LinkOK
<1>8. \A q \in Replicas \ {r} : SameLink(q)
  BY <1>1, <1>3 DEF EndPartial, TypeOK, SameLink
<1>9. QED
  BY <1>7, <1>8, OneReplica DEF EndPartial

\* The next frame takes the replica's keyspace to the next offset.
LEMMA ApplyFrameKeeps ==
    ASSUME IInv, TypeOK', NEW r \in Replicas, ApplyFrame(r)
    PROVE  IInv'
<1>1. TypeOK /\ ReplicaOK(r) /\ offset \in Nat /\ phase[r] \in {"partial", "stream"}
  BY IInvByReplica DEF TypeOK, ApplyFrame
<1>2. /\ handler[r] \in {"serving", "draining", "closed"}
      /\ PathOK(r) /\ SyncOK(r) /\ AcksOK(r)
  BY <1>1, Answered
<1> DEFINE f == wire[r][1]
<1>3. /\ wire[r] \in Seq(Frames) /\ wire[r] # << >> /\ Head(wire[r]) = f /\ f \in Frames
      /\ resume[r].offset \in Nat /\ Len(queue[r]) \in Nat /\ Len(wire[r]) \in Nat
      /\ left[r] \in Nat /\ goal[r] \in Nat /\ acks[r] \in AckStates /\ Len(acks[r].sent) \in Nat
      /\ acked[r] \in Nat /\ sent[r] \in Nat
  <2>1. wire[r] # << >>
    BY DEF ApplyFrame
  <2>2. QED
    BY <1>1, <2>1, LinkTypes
<1>4. /\ UNCHANGED <<run, offset, hist, handler, queue, sent, acked, reply, phase, goal>>
      /\ f.offset = resume[r].offset + 1
      /\ wire'[r] = Tail(wire[r])
  BY <1>1, <1>3 DEF ApplyFrame, hubVars, TypeOK
<1>5. resume'[r] = [resume[r] EXCEPT !.offset = f.offset] /\ rstore'[r] = Apply(rstore[r], f)
  BY <1>1, <1>3 DEF ApplyFrame, TypeOK
<1>6. resume'[r].run = resume[r].run /\ resume'[r].offset = resume[r].offset + 1
  BY <1>1, <1>4, <1>5 DEF TypeOK
<1>18. /\ resume[r].offset \in Nat /\ Len(wire[r]) \in Nat /\ Len(queue[r]) \in Nat
       /\ left[r] \in Nat /\ goal[r] \in Nat
  BY <1>3
<1>7. /\ phase[r] = "stream" => acks'[r] = Acknowledge(acks[r], f.offset) /\ left'[r] = left[r]
      /\ phase[r] # "stream" => acks'[r] = acks[r] /\ left'[r] = left[r] - 1 /\ left[r] > 0
  <2>1. acks \in [Replicas -> AckStates] /\ left \in [Replicas -> Nat]
    BY <1>1 DEF TypeOK
  <2>2. CASE phase[r] = "stream"
    <3>1. acks' = [acks EXCEPT ![r] = Acknowledge(@, Head(wire[r]).offset)] /\ left' = left
      BY <2>2 DEF ApplyFrame
    <3>2. QED
      BY <1>3, <2>1, <2>2, <3>1
  <2>3. CASE phase[r] # "stream"
    <3>1. left' = [left EXCEPT ![r] = @ - 1] /\ acks' = acks /\ left[r] > 0
      BY <2>3 DEF ApplyFrame
    <3>2. QED
      BY <2>1, <2>3, <3>1
  <2>4. QED
    BY <2>2, <2>3
<1>8. resume[r].run = run /\ reply[r].mode = "none" /\ Base(r) = resume[r].offset
  BY <1>1, <1>2 DEF SyncOK, Base
<1>9. /\ Len(wire[r]) > 0 /\ Len(wire'[r]) = Len(wire[r]) - 1
      /\ \A i \in 1..(Len(wire[r]) - 1) : wire'[r][i] = wire[r][i + 1]
  BY <1>3, <1>4
<1>10. FrameOK(f, hist, offset)
  <2>1. 1 \in 1..Len(wire[r])
    BY <1>3, <1>9
  <2>2. QED
    BY <1>2, <2>1 DEF PathOK
<1> HIDE DEF f
<1>11. resume'[r].offset <= offset /\ rstore'[r] = hist[resume'[r].offset + 1]
  <2>1. f.offset <= offset /\ hist[f.offset + 1] = Apply(hist[f.offset], f)
    BY <1>1, <1>10 DEF FrameOK
  <2>2. rstore[r] = hist[resume[r].offset + 1]
    BY <1>1, <1>8 DEF ReplicaOK
  <2>3. QED
    BY <1>4, <1>5, <1>6, <2>1, <2>2
<1>12. PathOK(r)'
  <2>1. Base(r)' = Base(r) + 1
    BY <1>4, <1>6, <1>8 DEF Base
  <2>2. ASSUME NEW i \in 1..(Len(wire[r]) - 1)
        PROVE  wire'[r][i].offset = (Base(r) + 1) + i /\ FrameOK(wire'[r][i], hist, offset)
    <3>1. i + 1 \in 1..Len(wire[r])
      BY <1>3
    <3>2. wire[r][i + 1].offset = Base(r) + (i + 1) /\ FrameOK(wire[r][i + 1], hist, offset)
      BY <1>2, <3>1 DEF PathOK
    <3>3. Base(r) + (i + 1) = (Base(r) + 1) + i
      <4>1. \A m, n \in Int : m + (n + 1) = (m + 1) + n
        OBVIOUS
      <4>2. Base(r) \in Int /\ i \in Int
        BY <1>8, <1>18
      <4>3. QED
        BY <4>1, <4>2, Zenon
    <3>4. QED
      BY <1>9, <3>2, <3>3, Zenon
  <2>7. Base(r) + Len(wire[r]) = (Base(r) + 1) + (Len(wire[r]) - 1)
    <3>1. \A m, n \in Int : m + n = (m + 1) + (n - 1)
      OBVIOUS
    <3>2. Base(r) \in Int /\ Len(wire[r]) \in Int
      BY <1>8, <1>18
    <3>3. QED
      BY <3>1, <3>2, Zenon
  <2>3. ASSUME NEW i \in 1..Len(queue[r])
        PROVE  /\ queue[r][i].offset = (Base(r) + 1) + (Len(wire[r]) - 1) + i
               /\ FrameOK(queue[r][i], hist, offset)
    <3>1. queue[r][i].offset = Base(r) + Len(wire[r]) + i /\ FrameOK(queue[r][i], hist, offset)
      BY <1>2 DEF PathOK
    <3>2. QED
      BY <2>7, <3>1, Zenon
  <2>4. sent[r] = (Base(r) + 1) + (Len(wire[r]) - 1) + Len(queue[r]) /\ sent[r] <= offset
        /\ (handler[r] = "serving" => sent[r] = offset)
    <3>1. /\ sent[r] = Base(r) + Len(wire[r]) + Len(queue[r]) /\ sent[r] <= offset
          /\ handler[r] = "serving" => sent[r] = offset
      BY <1>2 DEF PathOK
    <3>2. QED
      BY <2>7, <3>1, Zenon
  <2>5. /\ queue'[r] = queue[r] /\ hist' = hist /\ offset' = offset /\ sent'[r] = sent[r]
        /\ handler'[r] = handler[r]
    BY <1>4
  <2>6. QED
    BY <1>9, <2>1, <2>2, <2>3, <2>4, <2>5 DEF PathOK
<1>13. SyncOK(r)'
  <2>1. phase[r] = "partial" => /\ goal[r] = resume'[r].offset + left'[r]
                                /\ left'[r] <= Len(wire'[r])
    <3>1. phase[r] = "partial" => goal[r] = resume[r].offset + left[r] /\ left[r] <= Len(wire[r])
      BY <1>2 DEF SyncOK
    <3>2. phase[r] = "partial" => left'[r] = left[r] - 1
      BY <1>7
    <3>3. Len(wire'[r]) = Len(wire[r]) - 1
      BY <1>9
    <3>4. QED
      BY <1>6, <1>18, <3>1, <3>2, <3>3
  <2>2. QED
    BY <1>1, <1>4, <1>6, <1>8, <2>1 DEF SyncOK
<1>14. AcksOK(r)'
  <2>1. /\ ~ acks[r].torn => acked[r] <= resume[r].offset /\ InStep(acks[r])
        /\ \A i \in 1..Len(acks[r].sent) : acks[r].sent[i] <= resume[r].offset
    BY <1>2 DEF AcksOK
  <2>2. \A i \in 1..Len(acks[r].sent) : acks[r].sent[i] \in Nat
    <3>1. acks[r].sent \in Seq(Nat)
      BY <1>3 DEF AckStates
    <3>2. QED
      BY <3>1
  <2>3. /\ ~ acks[r].torn => acked[r] <= resume[r].offset + 1
        /\ \A i \in 1..Len(acks[r].sent) : acks[r].sent[i] <= resume[r].offset + 1
    <3>1. resume[r].offset \in Nat /\ acked[r] \in Nat
      BY <1>3
    <3>2. QED
      BY <2>1, <2>2, <3>1
  <2>4. /\ \A i \in 1..Len(acks'[r].sent) : acks'[r].sent[i] <= resume[r].offset + 1
        /\ acks'[r].torn = acks[r].torn
        /\ InStep(acks[r]) => InStep(acks'[r])
    <3>1. CASE phase[r] = "stream"
      <4>1. f.offset \in Nat /\ f.offset <= resume[r].offset + 1 /\ resume[r].offset + 1 \in Nat
        BY <1>3, <1>4
      <4>2. acks'[r] = Acknowledge(acks[r], f.offset)
        BY <1>7, <3>1
      <4>3. acks[r] \in AckStates
        BY <1>3
      <4>4. PICK o : o = resume[r].offset + 1
        OBVIOUS
      <4>5. PICK a : a = acks[r]
        OBVIOUS
      <4>6. PICK n : n = f.offset
        OBVIOUS
      <4>7. /\ a \in AckStates /\ n \in Nat /\ o \in Nat /\ n <= o
            /\ \A i \in 1..Len(a.sent) : a.sent[i] <= o
        BY <2>3, <4>1, <4>3, <4>4, <4>5, <4>6, Zenon
      <4>8. /\ \A i \in 1..Len(Acknowledge(a, n).sent) : Acknowledge(a, n).sent[i] <= o
            /\ Acknowledge(a, n).torn = a.torn
            /\ InStep(a) => InStep(Acknowledge(a, n))
        BY <4>7, AcknowledgeKeeps, Zenon
      <4>9. QED
        BY <4>2, <4>4, <4>5, <4>6, <4>8, Zenon
    <3>2. CASE phase[r] # "stream"
      BY <1>7, <2>3, <3>2
    <3>3. QED
      BY <3>1, <3>2
  <2>5. QED
    BY <1>4, <1>6, <1>8, <2>1, <2>3, <2>4 DEF AcksOK
<1>15. ReplicaOK(r)'
  BY <1>1, <1>2, <1>4, <1>6, <1>11, <1>12, <1>13, <1>14 DEF ReplicaOK, LinkOK
<1>16. \A q \in Replicas \ {r} : SameLink(q)
  <2> SUFFICES ASSUME NEW q \in Replicas, q # r PROVE SameLink(q)
    OBVIOUS
  <2>1. rstore'[q] = rstore[q] /\ resume'[q] = resume[q] /\ wire'[q] = wire[q]
    <3>1. /\ rstore \in [Replicas -> Stores] /\ wire \in [Replicas -> Seq(Frames)]
          /\ resume \in [Replicas -> [run : Nat, offset : Nat]]
      BY <1>1 DEF TypeOK
    <3>2. QED
      BY <3>1 DEF ApplyFrame
  <2>2. acks'[q] = acks[q] /\ left'[q] = left[q]
    <3>1. acks \in [Replicas -> AckStates] /\ left \in [Replicas -> Nat]
      BY <1>1 DEF TypeOK
    <3>2. \/ acks' = [acks EXCEPT ![r] = Acknowledge(@, Head(wire[r]).offset)] /\ left' = left
          \/ left' = [left EXCEPT ![r] = @ - 1] /\ acks' = acks
      BY DEF ApplyFrame
    <3>3. QED
      BY <3>1, <3>2
  <2>3. QED
    BY <1>4, <2>1, <2>2 DEF SameLink
<1>17. QED
  BY <1>15, <1>16, OneReplica DEF ApplyFrame

\* A restarted hub has a new run, which no replica can resume in.
LEMMA RestartHubKeeps ==
    ASSUME IInv, TypeOK', RestartHub
    PROVE  IInv'
<1>1. TypeOK /\ run \in Nat
  BY DEF IInv, TypeOK
<1>2. /\ offset' = 0 /\ hist' = <<store'>> /\ backlog' = << >> /\ run' = run + 1
      /\ inflight' = [k \in Keys |-> NoWrite] /\ resume' = resume
  BY DEF RestartHub
<1>3. StoreOK' /\ BacklogOK'
  BY <1>2 DEF StoreOK, BacklogOK, LastFrames
<1>4. ASSUME NEW q \in Replicas PROVE ReplicaOK(q)'
  <2>1. LinkOK(q)'
    BY <1>1, Disconnected DEF RestartHub
  <2>2. resume'[q].run < run' /\ resume'[q].run \in Nat
    BY <1>1, <1>2, LinkTypes DEF IInv
  <2>3. QED
    BY <1>1, <1>2, <2>1, <2>2 DEF ReplicaOK
<1>5. QED
  BY <1>3, <1>4 DEF IInv, ReplicaOK, ReplicaMatchesHistory

\* The inductive step, for a hub that is not itself a replica.
LEMMA InvStep == HubIsReplica = FALSE => (IInv /\ [Next]_vars => IInv')
<1> SUFFICES ASSUME HubIsReplica = FALSE, IInv, [Next]_vars PROVE IInv'
  OBVIOUS
<1>0. TypeOK'
  BY TypeStep DEF IInv
<1>1. ASSUME NEW k \in Keys, Execute(k) PROVE IInv'
  BY <1>0, <1>1, ExecuteKeeps
<1>2. ASSUME NEW k \in Keys, FanOut(k) PROVE IInv'
  BY <1>0, <1>2, FanOutKeeps
<1>3. ASSUME NEW k \in Keys, ReplaceKeyspace(k) PROVE IInv'
  BY <1>3 DEF ReplaceKeyspace
<1>4. ASSUME NEW r \in Replicas, HandlerStep(r) PROVE IInv'
  BY <1>0, <1>4, ServeKeeps, StreamKeeps, ReadAckKeeps, EndHandlerKeeps DEF HandlerStep
<1>5. ASSUME NEW r \in Replicas, ReplicaStep(r) PROVE IInv'
  <2>1. CASE Reject(r)
    BY <1>0, <2>1, DisconnectKeeps DEF Reject
  <2>2. CASE Eof(r)
    BY <1>0, <2>2, DisconnectKeeps DEF Eof
  <2>3. QED
    BY <1>0, <1>5, <2>1, <2>2, ConnectKeeps, InstallSnapshotKeeps, BeginPartialKeeps,
       ApplyFrameKeeps, EndPartialKeeps DEF ReplicaStep
<1>6. ASSUME NEW r \in Replicas, Break(r) PROVE IInv'
  BY <1>0, <1>6, DisconnectKeeps DEF Break
<1>7. ASSUME NEW r \in Replicas, RestartReplica(r) PROVE IInv'
  BY <1>0, <1>7, DisconnectKeeps DEF RestartReplica
<1>8. ASSUME RestartHub PROVE IInv'
  BY <1>0, <1>8, RestartHubKeeps
<1>9. ASSUME UNCHANGED vars PROVE IInv'
  <2>1. \A q \in Replicas : ReplicaOK(q)'
    BY <1>9, IInvByReplica, Untouched DEF vars, hubVars, linkVars, replicaVars, SameLink
  <2>2. StoreOK' /\ BacklogOK'
    BY <1>9 DEF IInv, StoreOK, BacklogOK, vars, hubVars
  <2>3. QED
    BY <1>0, <2>1, <2>2 DEF IInv, ReplicaOK, ReplicaMatchesHistory
<1>10. QED
  BY <1>1, <1>2, <1>3, <1>4, <1>5, <1>6, <1>7, <1>8, <1>9 DEF Next, HubStep, FaultStep

\* The inductive invariant holds in every reachable state.
LEMMA InvAlways == HubIsReplica = FALSE => (Spec => []IInv)
<1> SUFFICES ASSUME HubIsReplica = FALSE PROVE Spec => []IInv
  OBVIOUS
<1>1. IInv /\ [Next]_vars => IInv'
  BY InvStep
<1>2. QED
  BY InvInit, <1>1, PTL DEF Spec

-----------------------------------------------------------------------------
(* What the replicas are promised *)

\* A replica of a hub with no primary of its own holds, at every moment, exactly
\* the keyspace that the hub's frames up to its resume offset make: for every
\* number of replicas and keys, every backlog and queue limit, and any
\* interleaving of writes, overflows, broken connections and restarts.
THEOREM ReplicaIsPrefix ==
    HubIsReplica = FALSE => (Spec => []ReplicaMatchesHistory)
<1> SUFFICES ASSUME HubIsReplica = FALSE PROVE Spec => []ReplicaMatchesHistory
  OBVIOUS
<1>1. IInv => ReplicaMatchesHistory
  BY DEF IInv
<1>2. Spec => []IInv
  BY InvAlways
<1>3. QED
  BY <1>1, <1>2, PTL

\* The hub never lets a replica see a gap, so handle_replica and fan_out alone
\* keep the stream unbroken and sync_from_primary's offset checks never fire on it.
THEOREM NoGap ==
    HubIsReplica = FALSE => (Spec => []StreamHasNoGap)
<1> SUFFICES ASSUME HubIsReplica = FALSE PROVE Spec => []StreamHasNoGap
  OBVIOUS
<1>1. IInv => StreamHasNoGap
  <2> SUFFICES ASSUME IInv, NEW r \in Replicas, phase[r] \in {"partial", "stream"}
               PROVE  /\ wire[r] # << >> => Head(wire[r]).offset = resume[r].offset + 1
                      /\ phase[r] = "partial" /\ left[r] = 0 => resume[r].offset = goal[r]
    BY DEF StreamHasNoGap
  <2>1. TypeOK /\ ReplicaOK(r)
    BY IInvByReplica
  <2>2. PathOK(r) /\ SyncOK(r)
    BY <2>1, Answered
  <2>3. Base(r) = resume[r].offset /\ resume[r].offset \in Nat
    BY <2>1, <2>2, LinkTypes DEF SyncOK, Base
  <2>4. ASSUME wire[r] # << >> PROVE Head(wire[r]).offset = resume[r].offset + 1
    <3>1. wire[r] \in Seq(Frames)
      BY <2>1, LinkTypes
    <3>2. 1 \in 1..Len(wire[r]) /\ Head(wire[r]) = wire[r][1]
      BY <2>4, <3>1
    <3>3. QED
      BY <2>2, <2>3, <3>2 DEF PathOK
  <2>5. QED
    BY <2>2, <2>3, <2>4 DEF SyncOK
<1>2. Spec => []IInv
  BY InvAlways
<1>3. QED
  BY <1>1, <1>2, PTL

\* A replica whose channel and socket are drained has applied every frame the
\* hub has fanned out: no frame was lost in front of an idle replica.
THEOREM DrainedReplicaIsCurrent ==
    HubIsReplica = FALSE => (Spec => []DrainedIsCurrent)
<1> SUFFICES ASSUME HubIsReplica = FALSE PROVE Spec => []DrainedIsCurrent
  OBVIOUS
<1>1. IInv => DrainedIsCurrent
  <2> SUFFICES ASSUME IInv, NEW r \in Replicas, handler[r] = "serving", phase[r] = "stream",
                      queue[r] = << >>, wire[r] = << >>
               PROVE  resume[r] = [run |-> run, offset |-> offset]
    BY DEF DrainedIsCurrent
  <2>1. TypeOK /\ ReplicaOK(r)
    BY IInvByReplica
  <2>2. PathOK(r) /\ SyncOK(r)
    BY <2>1, Answered
  <2>3. Base(r) = resume[r].offset /\ resume[r].offset \in Nat /\ resume[r].run = run
    BY <2>1, <2>2, LinkTypes DEF SyncOK, Base
  <2>4. offset = resume[r].offset + 0 + 0
    BY <2>2, <2>3 DEF PathOK
  <2>5. resume[r] \in [run : Nat, offset : Nat]
    BY <2>1 DEF TypeOK
  <2>6. QED
    BY <2>3, <2>4, <2>5
<1>2. Spec => []IInv
  BY InvAlways
<1>3. QED
  BY <1>1, <1>2, PTL

\* Between writes a drained replica holds the hub's keyspace.
THEOREM DrainedReplicaEqualsHub ==
    HubIsReplica = FALSE => (Spec => []DrainedEqualsHub)
<1> SUFFICES ASSUME HubIsReplica = FALSE PROVE Spec => []DrainedEqualsHub
  OBVIOUS
<1>1. IInv /\ DrainedIsCurrent => DrainedEqualsHub
  <2> SUFFICES ASSUME IInv, DrainedIsCurrent, NEW r \in Replicas, handler[r] = "serving",
                      phase[r] = "stream", queue[r] = << >>, wire[r] = << >>,
                      \A k \in Keys : inflight[k] = NoWrite
               PROVE  rstore[r] = store
    BY DEF DrainedEqualsHub
  <2>1. resume[r] = [run |-> run, offset |-> offset]
    BY DEF DrainedIsCurrent
  <2>2. rstore[r] = hist[offset + 1]
    BY <2>1 DEF IInv, ReplicaMatchesHistory
  <2>3. store = hist[offset + 1]
    BY QuietStore DEF IInv, BarrierFree
  <2>4. QED
    BY <2>2, <2>3
<1>2. Spec => []IInv
  BY InvAlways
<1>3. Spec => []DrainedIsCurrent
  BY DrainedReplicaIsCurrent
<1>4. QED
  BY <1>1, <1>2, <1>3, PTL

\* On a connection whose reads of acknowledgements were never dropped half way, the
\* lag gauge never counts a frame as applied before the replica applied it.  (After
\* a dropped read it may: LagIsTrue does not hold.)
THEOREM AckedNotAhead ==
    HubIsReplica = FALSE => (Spec => []AckedIsApplied)
<1> SUFFICES ASSUME HubIsReplica = FALSE PROVE Spec => []AckedIsApplied
  OBVIOUS
<1>1. IInv => AckedIsApplied
  BY DEF IInv, AckedIsApplied, LinkOK, AcksOK
<1>2. Spec => []IInv
  BY InvAlways
<1>3. QED
  BY <1>1, <1>2, PTL
-----------------------------------------------------------------------------
(* Replication implements ReplicatedLog *)

\* A snapshot on its way to a replica that is in the hub's run is not older than the
\* replica's own place.
SnapshotAhead ==
    \A r \in Replicas :
        reply[r].mode = "F" /\ resume[r].run = run => resume[r].offset <= reply[r].boundary

\* Only a snapshot that is cut now is younger than the one before, and only a
\* replica without one applies frames.
LEMMA SnapshotAheadStep ==
    ASSUME IInv, SnapshotAhead, [Next]_vars
    PROVE  SnapshotAhead'
<1> USE DEF SnapshotAhead
<1>0. TypeOK /\ \A q \in Replicas : ReplicaOK(q)
  BY IInvByReplica
<1>1. ASSUME NEW r \in Replicas, Serve(r) PROVE SnapshotAhead'
  <2>1. UNCHANGED <<run, resume, offset>> /\ \A q \in Replicas \ {r} : reply'[q] = reply[q]
    <3>1. UNCHANGED <<run, resume, offset>>
      BY <1>1 DEF Serve, hubVars, replicaVars
    <3>2. \A q \in Replicas \ {r} : reply'[q] = reply[q]
      <4>1. PICK answer : reply' = [reply EXCEPT ![r] = answer]
        BY <1>1 DEF Serve
      <4>2. reply \in [Replicas -> Replies]
        BY <1>0 DEF TypeOK
      <4>3. QED
        BY <4>1, <4>2
    <3>3. QED
      BY <3>1, <3>2
  <2>2. reply'[r].mode = "F" => reply'[r].boundary = offset
    BY <1>0, <1>1 DEF Serve, TypeOK
  <2>3. QED
    BY <1>0, <2>1, <2>2 DEF ReplicaOK
<1>2. ASSUME NEW r \in Replicas, InstallSnapshot(r) \/ BeginPartial(r) PROVE SnapshotAhead'
  <2>1. reply'[r].mode # "F" /\ run' = run
        /\ \A q \in Replicas \ {r} : reply'[q] = reply[q] /\ resume'[q] = resume[q]
    <3>1. /\ reply \in [Replicas -> Replies] /\ reply' = [reply EXCEPT ![r] = NoReply]
          /\ resume \in [Replicas -> [run : Nat, offset : Nat]]
          /\ run' = run
          /\ resume' = resume \/ \E new : resume' = [resume EXCEPT ![r] = new]
      BY <1>0, <1>2 DEF InstallSnapshot, BeginPartial, hubVars, TypeOK
    <3>2. QED
      BY <3>1 DEF NoReply
  <2>2. QED
    BY <2>1
<1>3. ASSUME NEW r \in Replicas, ApplyFrame(r) \/ EndPartial(r) PROVE SnapshotAhead'
  <2>1. phase[r] \in {"partial", "stream"}
    BY <1>3 DEF ApplyFrame, EndPartial
  <2>2. SyncOK(r)
    BY <1>0, <2>1, Answered
  <2>3. reply[r].mode # "F"
    BY <2>1, <2>2 DEF SyncOK
  <2>4. run' = run /\ reply' = reply /\ \A q \in Replicas \ {r} : resume'[q] = resume[q]
    BY <1>0, <1>3 DEF ApplyFrame, EndPartial, hubVars, TypeOK
  <2>5. QED
    BY <2>3, <2>4
<1>4. ASSUME NEW r \in Replicas, Reject(r) \/ Eof(r) \/ Break(r) \/ RestartReplica(r)
      PROVE  SnapshotAhead'
  <2>1. reply'[r].mode # "F" /\ run' = run
        /\ \A q \in Replicas \ {r} : reply'[q] = reply[q] /\ resume'[q] = resume[q]
    <3>1. /\ reply' = [q \in Replicas |-> IF q \in {r} THEN NoReply ELSE reply[q]]
          /\ resume \in [Replicas -> [run : Nat, offset : Nat]]
          /\ run' = run
          /\ resume' = resume \/ \E new : resume' = [resume EXCEPT ![r] = new]
      BY <1>0, <1>4 DEF Reject, Eof, Break, RestartReplica, Disconnect, hubVars, TypeOK
    <3>2. QED
      BY <3>1 DEF NoReply
  <2>2. QED
    BY <2>1
<1>5. ASSUME RestartHub PROVE SnapshotAhead'
  BY <1>5 DEF RestartHub, Disconnect, NoReply
<1>6. ASSUME UNCHANGED <<run, resume, reply>> PROVE SnapshotAhead'
  BY <1>6
<1>7. QED
  BY <1>1, <1>2, <1>3, <1>4, <1>5, <1>6
     DEF Next, vars, hubVars, linkVars, replicaVars, HubStep, HandlerStep, ReplicaStep, FaultStep,
         Execute, FanOut, ReplaceKeyspace, Stream, ReadAck, EndHandler, Connect

\* Every step of the detailed specification is one of the abstract log, or none.
LEMMA LogStep ==
    ASSUME HubIsReplica = FALSE, IInv, IInv', SnapshotAhead, [Next]_vars
    PROVE  [Log!Next]_(Log!vars)
<1>0. TypeOK /\ TypeOK' /\ \A q \in Replicas : ReplicaOK(q) /\ ReplicaOK(q)'
  BY DEF IInv, ReplicaOK, ReplicaMatchesHistory
<1>1. ASSUME NEW k \in Keys, FanOut(k) PROVE Log!Grow
  <2>1. PICK st \in Stores : hist' = Append(hist, st)
    <3>1. PICK st : hist' = Append(hist, st)
      BY <1>1 DEF FanOut, Enqueue
    <3>2. QED
      BY <1>0, <3>1 DEF TypeOK
  <2>2. Len(hist') = Len(hist) + 1 /\ \A i \in 1..Len(hist) : hist'[i] = hist[i]
    <3>1. hist \in Seq(Stores)
      BY <1>0 DEF TypeOK
    <3>2. QED
      BY <2>1, <3>1
  <2>3. UNCHANGED <<run, resume, rstore>>
    BY <1>1 DEF FanOut, replicaVars
  <2>4. QED
    BY <2>2, <2>3 DEF Log!Grow
<1>2. ASSUME RestartHub PROVE Log!Restart
  BY <1>2 DEF RestartHub, Log!Restart
<1>3. ASSUME NEW r \in Replicas, InstallSnapshot(r) \/ ApplyFrame(r) \/ EndPartial(r)
      PROVE  Log!Move(r)
  <2>1. UNCHANGED <<run, offset, hist>> /\ \A q \in Replicas \ {r} :
                         resume'[q] = resume[q] /\ rstore'[q] = rstore[q]
    <3>1. UNCHANGED <<run, offset, hist>>
      BY <1>3 DEF InstallSnapshot, ApplyFrame, EndPartial, hubVars
    <3>2. \A q \in Replicas \ {r} : resume'[q] = resume[q]
      <4>1. \E new : resume' = [resume EXCEPT ![r] = new] \/ resume' = [resume EXCEPT ![r].offset = new]
        BY <1>3 DEF InstallSnapshot, ApplyFrame, EndPartial
      <4>2. DOMAIN resume = Replicas
        BY <1>0 DEF TypeOK
      <4>3. QED
        BY <4>1, <4>2
    <3>3. \A q \in Replicas \ {r} : rstore'[q] = rstore[q]
      <4>1. rstore' = rstore \/ \E new : rstore' = [rstore EXCEPT ![r] = new]
        BY <1>3 DEF InstallSnapshot, ApplyFrame, EndPartial
      <4>2. rstore \in [Replicas -> Stores]
        BY <1>0 DEF TypeOK
      <4>3. QED
        BY <4>1, <4>2
    <3>4. QED
      BY <3>1, <3>2, <3>3
  <2>2. resume'[r].run = run /\ (resume[r].run = run => resume'[r].offset >= resume[r].offset)
    <3>1. CASE InstallSnapshot(r)
      BY <1>0, <3>1 DEF InstallSnapshot, SnapshotAhead, TypeOK
    <3>2. CASE EndPartial(r)
      BY <1>0, <3>2 DEF EndPartial, TypeOK
    <3>3. CASE ApplyFrame(r)
      <4>1. phase[r] \in {"partial", "stream"}
        BY <3>3 DEF ApplyFrame
      <4>2. resume[r].run = run
        BY <1>0, <4>1, Answered DEF SyncOK
      <4>3. /\ resume' = [resume EXCEPT ![r].offset = resume[r].offset + 1]
            /\ resume \in [Replicas -> [run : Nat, offset : Nat]]
        BY <1>0, <3>3 DEF ApplyFrame, TypeOK
      <4>4. resume'[r].run = resume[r].run /\ resume'[r].offset = resume[r].offset + 1
        BY <4>3
      <4>5. resume[r].offset \in Nat
        BY <4>3
      <4>6. QED
        BY <4>2, <4>4, <4>5
    <3>4. QED
      BY <1>3, <3>1, <3>2, <3>3
  <2>3. resume'[r].offset \in Nat /\ resume'[r].offset <= offset
        /\ rstore'[r] = hist[resume'[r].offset + 1] /\ Len(hist) = offset + 1 /\ offset \in Nat
    BY <1>0, <2>1, <2>2 DEF ReplicaOK, TypeOK
  <2>4. resume'[r].offset \in 0..(Len(hist) - 1)
    BY <2>3
  <2>5. QED
    BY <2>1, <2>2, <2>3, <2>4 DEF Log!Move, Log!Follows
<1>4. ASSUME NEW r \in Replicas, Reject(r) \/ RestartReplica(r) PROVE Log!Forget(r)
  <2>1. UNCHANGED <<run, hist, rstore>> /\ resume'[r].run = NoRun
        /\ \A q \in Replicas \ {r} : resume'[q] = resume[q]
    <3>1. /\ UNCHANGED <<run, hist, rstore>>
          /\ resume \in [Replicas -> [run : Nat, offset : Nat]]
          /\ resume' = [resume EXCEPT ![r] = [run |-> NoRun, offset |-> 0]]
      BY <1>0, <1>4 DEF Reject, RestartReplica, hubVars, TypeOK
    <3>2. QED
      BY <3>1
  <2>2. QED
    BY <2>1 DEF Log!Forget, Log!NoPlace, NoRun
<1>5. ASSUME UNCHANGED <<run, hist, resume, rstore>> PROVE UNCHANGED Log!vars
  BY <1>5 DEF Log!vars
<1>6. CASE UNCHANGED <<run, hist, resume, rstore>>
  BY <1>5, <1>6
<1>7. CASE \E k \in Keys : FanOut(k)
  BY <1>1, <1>7 DEF Log!Next
<1>8. CASE RestartHub
  BY <1>2, <1>8 DEF Log!Next
<1>9. CASE \E r \in Replicas : InstallSnapshot(r) \/ ApplyFrame(r) \/ EndPartial(r)
  BY <1>3, <1>9 DEF Log!Next
<1>10. CASE \E r \in Replicas : Reject(r) \/ RestartReplica(r)
  BY <1>4, <1>10 DEF Log!Next
<1>11. QED
  BY <1>6, <1>7, <1>8, <1>9, <1>10
     DEF Next, vars, hubVars, linkVars, replicaVars, HubStep, HandlerStep, ReplicaStep, FaultStep,
         Execute, ReplaceKeyspace, Serve, Stream, ReadAck, EndHandler, Connect, BeginPartial,
         Eof, Break

\* The initial state of the detailed specification is one of the abstract log.
LEMMA LogInit == Init => Log!Init
BY DEF Init, Log!Init, Log!NoPlace, NoRun

\* For every number of replicas, every limit and any interleaving of overflows, broken
\* connections, rejected frames and restarts, handle_replica, fan_out and
\* sync_from_primary implement ReplicatedLog: a replica is always at a place of the hub's
\* log with the keyspace that is there, and never goes back in it but by forgetting it.
THEOREM ImplementsLog ==
    HubIsReplica = FALSE => (Spec => RefinesLog)
<1> SUFFICES ASSUME HubIsReplica = FALSE PROVE Spec => RefinesLog
  OBVIOUS
<1>1. Init => SnapshotAhead
  BY DEF Init, SnapshotAhead, NoReply
<1>2. IInv /\ SnapshotAhead /\ [Next]_vars => SnapshotAhead'
  BY SnapshotAheadStep
<1>3. IInv /\ IInv' /\ SnapshotAhead /\ [Next]_vars => [Log!Next]_(Log!vars)
  BY LogStep
<1>4. Spec => []IInv
  BY InvAlways
<1>5. QED
  BY <1>1, <1>2, <1>3, <1>4, LogInit, PTL DEF Spec, RefinesLog, Log!Spec
=============================================================================
