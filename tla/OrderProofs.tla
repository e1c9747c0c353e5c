---------------------------- MODULE OrderProofs ----------------------------
(***************************************************************************)
(* What the launcher sends: from the pump to the daemon, through the       *)
(* outbox's two lanes, the writer's hand and the socket, a stream stays in *)
(* order and without gaps, and its `end` behind all of it - so that to the *)
(* daemon it is a Pipe, whatever is revoked, closed or cut off meanwhile.  *)
(***************************************************************************)
EXTENDS WindowProofs, MCSession

\* The bytes of a stream that precede a place in a queue.
Before(q, i, s) == Bytes(SubSeq(q, 1, i - 1), "data", s)

\* The chunks of a stream in a queue continue it from a position, and its `end`, where there
\* is one, has the last of its bytes before it.
Follows(q, s, from, last) ==
    \A i \in 1..Len(q) : q[i].stream = s =>
        /\ q[i].type = "data" => q[i].from = from + Before(q, i, s)
        /\ q[i].type = "end" => from + Before(q, i, s) = last

\* A queue holds a document of this type about the stream.
Names(q, type, s) == \E i \in 1..Len(q) : q[i].type = type /\ q[i].stream = s

LEMMA NamesNone == \A type, s : ~Names(<<>>, type, s)
BY DEF Names

LEMMA NamesAppend ==
    ASSUME NEW S, NEW q \in Seq(S), NEW d \in S, NEW type, NEW s
    PROVE  Names(Append(q, d), type, s) <=> Names(q, type, s) \/ (d.type = type /\ d.stream = s)
<1>1. /\ Len(Append(q, d)) = Len(q) + 1 /\ Append(q, d)[Len(q) + 1] = d
      /\ \A i \in 1..Len(q) : Append(q, d)[i] = q[i]
  OBVIOUS
<1>. QED
  BY <1>1 DEF Names

LEMMA NamesTail ==
    ASSUME NEW S, NEW q \in Seq(S), q # <<>>, NEW type, NEW s
    PROVE  Names(q, type, s) <=>
             (Head(q).type = type /\ Head(q).stream = s) \/ Names(Tail(q), type, s)
<1>1. /\ Len(Tail(q)) = Len(q) - 1 /\ Len(q) \in Nat /\ Len(q) >= 1 /\ Head(q) = q[1]
      /\ \A i \in 1..(Len(q) - 1) : Tail(q)[i] = q[i + 1]
  OBVIOUS
<1>2. ASSUME NEW i \in 1..Len(q), q[i].type = type, q[i].stream = s, i # 1
      PROVE  Names(Tail(q), type, s)
  <2>1. i - 1 \in 1..(Len(q) - 1) /\ Tail(q)[i - 1] = q[i]
    BY <1>1, <1>2
  <2>. QED
    BY <1>1, <1>2, <2>1 DEF Names
<1>3. ASSUME NEW i \in 1..Len(Tail(q)), Tail(q)[i].type = type, Tail(q)[i].stream = s
      PROVE  Names(q, type, s)
  <2>1. i + 1 \in 1..Len(q) /\ Tail(q)[i] = q[i + 1]
    BY <1>1, <1>3
  <2>. QED
    BY <1>3, <2>1 DEF Names
<1>. QED
  BY <1>1, <1>2, <1>3 DEF Names

LEMMA FollowsNone == \A s, from, last : Follows(<<>>, s, from, last)
BY DEF Follows

LEMMA FollowsAppend ==
    ASSUME NEW S, S \subseteq Fitting, NEW q \in Seq(S), NEW d \in S, NEW s,
           NEW from, NEW last, Follows(q, s, from, last),
           d.stream = s => /\ d.type = "data" => d.from = from + Bytes(q, "data", s)
                           /\ d.type = "end" => from + Bytes(q, "data", s) = last
    PROVE  Follows(Append(q, d), s, from, last)
<1> DEFINE r == Append(q, d)
<1>1. /\ r \in Seq(S) /\ Len(r) = Len(q) + 1 /\ r[Len(q) + 1] = d
      /\ \A i \in 1..Len(q) : r[i] = q[i]
  OBVIOUS
<1>2. \A i \in 1..Len(q) : SubSeq(r, 1, i - 1) = SubSeq(q, 1, i - 1)
  OBVIOUS
<1>3. SubSeq(r, 1, (Len(q) + 1) - 1) = q
  OBVIOUS
<1> HIDE DEF r
<1>4. Before(r, Len(q) + 1, s) = Bytes(q, "data", s)
  BY <1>3 DEF Before
<1>5. \A i \in 1..Len(q) : Before(r, i, s) = Before(q, i, s)
  BY <1>2 DEF Before
<1>. QED
  BY <1>1, <1>4, <1>5 DEF Follows, r

LEMMA BeforeTail ==
    ASSUME NEW q \in Seq(Fitting), q # <<>>, NEW s, NEW i \in 1..Len(Tail(q))
    PROVE  /\ Before(q, i + 1, s) = Carries(Head(q), "data", s) + Before(Tail(q), i, s)
           /\ Before(Tail(q), i, s) \in Nat
<1> DEFINE p == SubSeq(q, 1, i)
<1>1. /\ p \in Seq(Fitting) /\ p # <<>> /\ Head(p) = Head(q)
      /\ Tail(p) = SubSeq(Tail(q), 1, i - 1) /\ (i + 1) - 1 = i
  OBVIOUS
<1> HIDE DEF p
<1>2. Bytes(p, "data", s) = Carries(Head(p), "data", s) + Bytes(Tail(p), "data", s)
  BY <1>1, Popping
<1>3. Bytes(Tail(p), "data", s) \in Nat
  BY <1>1, Popping
<1>. QED
  BY <1>1, <1>2, <1>3 DEF Before, p

LEMMA BeforeFirst == ASSUME NEW q \in Seq(Fitting), q # <<>>, NEW s PROVE Before(q, 1, s) = 0
<1>1. SubSeq(q, 1, 1 - 1) = <<>>
  OBVIOUS
<1>. QED
  BY <1>1, BytesOfEmpty DEF Before

LEMMA FollowsTail ==
    ASSUME NEW S, S \subseteq Fitting, NEW q \in Seq(S), q # <<>>, NEW s,
           NEW from \in Nat, NEW last, Follows(q, s, from, last)
    PROVE  /\ Follows(Tail(q), s, from + Carries(Head(q), "data", s), last)
           /\ Head(q).stream = s => /\ Head(q).type = "data" => Head(q).from = from
                                    /\ Head(q).type = "end" => from = last
<1>1. /\ q \in Seq(Fitting) /\ Head(q) \in Fitting
      /\ Len(Tail(q)) = Len(q) - 1 /\ Len(q) \in Nat /\ Len(q) >= 1 /\ Head(q) = q[1]
      /\ \A i \in 1..Len(Tail(q)) : i + 1 \in 1..Len(q) /\ Tail(q)[i] = q[i + 1]
  OBVIOUS
<1>2. Carries(Head(q), "data", s) \in Nat
  BY <1>1, LaneTypes
<1>3. ASSUME NEW i \in 1..Len(Tail(q))
      PROVE  from + Before(q, i + 1, s) = (from + Carries(Head(q), "data", s)) + Before(Tail(q), i, s)
  BY <1>1, <1>2, BeforeTail
<1>4. Follows(Tail(q), s, from + Carries(Head(q), "data", s), last)
  BY <1>1, <1>3 DEF Follows
<1>5. Before(q, 1, s) = 0 /\ 1 \in 1..Len(q)
  BY <1>1, BeforeFirst
<1>. QED
  BY <1>1, <1>4, <1>5 DEF Follows

\* One document alone.
LEMMA FollowsOne ==
    ASSUME NEW S, S \subseteq Fitting, NEW d \in S, NEW s, NEW from \in Nat, NEW last,
           d.stream = s => /\ d.type = "data" => d.from = from
                           /\ d.type = "end" => from = last
    PROVE  Follows(<<d>>, s, from, last)
<1> DEFINE none == <<>>
<1>1. none \in Seq(S) /\ Append(none, d) = <<d>>
  OBVIOUS
<1>2. Bytes(none, "data", s) = 0 /\ Follows(none, s, from, last)
  BY BytesOfEmpty, FollowsNone
<1> HIDE DEF none
<1>3. from + Bytes(none, "data", s) = from
  BY <1>2
<1>4. Follows(Append(none, d), s, from, last)
  BY <1>1, <1>2, <1>3, FollowsAppend
<1>. QED
  BY <1>1, <1>4

LEMMA NamesOne ==
    ASSUME NEW d, NEW type, NEW s
    PROVE  Names(<<d>>, type, s) <=> d.type = type /\ d.stream = s
BY DEF Names

\* Without an `end` there is no last byte to speak of.
LEMMA FollowsAny ==
    ASSUME NEW q, NEW s, NEW from, NEW last, NEW other, Follows(q, s, from, last),
           ~Names(q, "end", s)
    PROVE  Follows(q, s, from, other)
BY DEF Follows, Names

-----------------------------------------------------------------------------
(* What the launcher sends.                                                *)

Notice == {d \in Document : d.type \in {"credit", "closed", "signal"}}
Content == {d \in Document : /\ (d.type = "data" /\ d.bytes > 0) \/ d.type = "end"
                             /\ d.stream \in Out}

\* The control lane holds what may overtake, the data lane what may not.
KindsInv ==
    /\ control \in Seq(Notice) /\ data \in Seq(Content)
    /\ frame \in Seq(Notice \cup Content) /\ up \in Seq(Notice \cup Content)
    /\ Len(frame) <= 1
    /\ \A s \in Out : pump[s] = "send" => hand[s] > 0

LEMMA KindTypes ==
    /\ \A s \in Streams : About("closed", s) \in Notice /\ About("signal", s) \in Notice
    /\ \A s \in Out : About("end", s) \in Content
    /\ \A s \in Streams, n \in Nat : Credit(s, n) \in Notice
    /\ \A s \in Out, from, n \in Nat : n > 0 => Data(s, from, n) \in Content
BY StreamTypes DEF Notice, Content, About, Credit, Data, Document, Types

LEMMA KindsKept ==
    KindsInv /\ UNCHANGED <<control, data, frame, up, pump, hand>> => KindsInv'
BY DEF KindsInv

LEMMA SendKeeps == ASSUME KindsInv, NEW d \in Notice, Send(d) PROVE control' \in Seq(Notice) /\ data' = data
BY DEF KindsInv, Send

LEMMA SendDataKeeps == ASSUME KindsInv, NEW d \in Content, SendData(d) PROVE data' \in Seq(Content) /\ control' = control
BY DEF KindsInv, SendData

LEMMA KindsStep == TypeOK /\ KindsInv /\ [Next]_vars => KindsInv'
<1> SUFFICES ASSUME TypeOK, KindsInv, [Next]_vars PROVE KindsInv'
  OBVIOUS
<1> USE DEF outboxVars, writerVars, creditVars, pumpVars, inletVars, drainVars, sinkVars,
            readerVars, wireVars, daemonVars, daemonOut, daemonIn, signalVars, launcherVars
<1>1. CASE UNCHANGED vars
  BY <1>1, KindsKept DEF vars
<1>2. CASE WriterPops
  <2>1. ASSUME NEW S, NEW q \in Seq(S), q # <<>>, S \subseteq Notice \cup Content
        PROVE  /\ <<Head(q)>> \in Seq(Notice \cup Content) /\ Len(<<Head(q)>>) = 1
               /\ Tail(q) \in Seq(S)
    <3>1. Head(q) \in Notice \cup Content /\ Tail(q) \in Seq(S)
      BY <2>1
    <3>. QED
      BY <3>1
  <2>2. control \in Seq(Notice) /\ data \in Seq(Content)
    BY DEF KindsInv
  <2>3. CASE control # <<>>
    <3>1. frame' = <<Head(control)>> /\ control' = Tail(control) /\ UNCHANGED <<data, up, pump, hand>>
      BY <1>2, <2>3 DEF WriterPops
    <3>. QED
      BY <2>1, <2>2, <2>3, <3>1 DEF KindsInv
  <2>4. CASE control = <<>>
    <3>1. /\ frame' = <<Head(data)>> /\ data' = Tail(data) /\ UNCHANGED <<control, up, pump, hand>>
          /\ data # <<>>
      BY <1>2, <2>4 DEF WriterPops
    <3>. QED
      BY <2>1, <2>2, <3>1 DEF KindsInv
  <2>. QED
    BY <2>3, <2>4
<1>3. CASE WriterReturns
  BY <1>3 DEF KindsInv, WriterReturns
<1>4. CASE WriterWrites
  BY <1>4 DEF KindsInv, WriterWrites
<1>5. CASE WriterFails
  BY <1>5 DEF KindsInv, WriterFails
<1>6. ASSUME NEW s \in Out, Pump(s)
      PROVE  KindsInv'
  <2>0. s \in Streams /\ carried[s] \in Nat /\ hand[s] \in Nat
    BY DEF Streams, TypeOK, PumpsOK
  <2>1. CASE PumpAllowance(s)
    BY <2>0, <2>1 DEF KindsInv, PumpAllowance, TypeOK, PumpsOK
  <2>2. CASE PumpReads(s)
    BY <2>0, <2>2 DEF KindsInv, PumpReads, TypeOK, PumpsOK
  <2>3. CASE PumpFinishes(s)
    BY <2>0, <2>3 DEF KindsInv, PumpFinishes, TypeOK, PumpsOK
  <2>4. CASE PumpSends(s)
    <3>1. hand[s] > 0
      BY <2>4 DEF KindsInv, PumpSends
    <3>2. Data(s, carried[s], hand[s]) \in Content
      BY <2>0, <3>1, KindTypes
    <3>3. data' \in Seq(Content) /\ control' = control
      BY <2>4, <3>2, SendDataKeeps DEF PumpSends
    <3>. QED
      BY <2>0, <2>4, <3>3 DEF KindsInv, PumpSends, TypeOK, PumpsOK
  <2>5. CASE PumpEnds(s)
    <3>1. data' \in Seq(Content) /\ control' = control
      BY <2>0, <2>5, KindTypes, SendDataKeeps DEF PumpEnds
    <3>. QED
      BY <2>0, <2>5, <3>1 DEF KindsInv, PumpEnds, TypeOK, PumpsOK
  <2>. QED
    BY <1>6, <2>1, <2>2, <2>3, <2>4, <2>5 DEF Pump
<1>7. ASSUME NEW s \in In, Drain(s)
      PROVE  KindsInv'
  <2>0. s \in Streams
    BY DEF Streams
  <2>1. CASE DrainTakes(s)
    BY <2>1, KindsKept DEF DrainTakes
  <2>2. CASE DrainWrites(s)
    <3>1. control' \in Seq(Notice) /\ data' = data
      BY <2>0, <2>2, KindTypes, SendKeeps DEF DrainWrites, KindsInv
    <3>. QED
      BY <2>2, <3>1 DEF KindsInv, DrainWrites
  <2>3. CASE DrainGrants(s)
    <3>1. consumed[s] + taken[s][1].bytes \in Nat
      <4>1. taken[s] \in Seq(Document) /\ Len(taken[s]) = 1 /\ consumed[s] \in Nat
        BY <2>3 DEF DrainGrants, TypeOK, DrainsOK
      <4>2. taken[s][1] \in Document
        BY <4>1
      <4>. QED
        BY <4>1, <4>2 DEF Document
    <3>2. control' \in Seq(Notice) /\ data' = data
      BY <2>0, <2>3, <3>1, KindTypes, SendKeeps DEF DrainGrants, KindsInv
    <3>. QED
      BY <2>3, <3>2 DEF KindsInv, DrainGrants
  <2>. QED
    BY <1>7, <2>1, <2>2, <2>3 DEF Drain
<1>8. CASE Reader
  <2>1. CASE ReadOpen
    <3>1. ASSUME NEW fd, pump' = [pump EXCEPT ![fd] = "allowance"] PROVE \A s \in Out : pump'[s] = "send" => pump[s] = "send"
      BY <3>1 DEF TypeOK, PumpsOK
    <3>2. \A s \in Out : pump'[s] = "send" => pump[s] = "send"
      BY <2>1, <3>1 DEF ReadOpen, OpensFor
    <3>. QED
      BY <2>1, <3>2 DEF KindsInv, ReadOpen, Receives
  <2>. QED
    BY <1>8, <2>1, KindsKept DEF Reader, Receives, ReadData, ReadEnd, ReadCredit, ReadClosed,
         ReadSignalAck, ReadExitStatus, ReadFails, ReaderClosesCredits, ReaderClosesOutbox,
         ReaderReleases
<1>9. CASE Wait
  BY <1>9, KindsKept DEF Wait
<1>10. CASE Client
  <2>1. CASE Signal
    BY <2>1, KindTypes, SendKeeps, StreamTypes DEF Signal, KindsInv
  <2>2. CASE Disconnect
    BY <2>2 DEF Disconnect, KindsInv
  <2>. QED
    BY <1>10, <2>1, <2>2, KindsKept DEF Client, DiscardStdout, SinkBreaks
<1>11. CASE Daemon
  <2>1. CASE DaemonReads
    BY <2>1 DEF DaemonReads, KindsInv
  <2>. QED
    BY <1>11, <2>1, KindsKept DEF Daemon, DaemonSends, DaemonAcks, DaemonExits, DaemonWrites,
         DaemonEnds, DaemonGrants, DaemonCloses, DaemonOpens
<1>12. CASE Terminated
  BY <1>12, KindsKept DEF Terminated, vars
<1>. QED
  BY <1>1, <1>2, <1>3, <1>4, <1>5, <1>6, <1>7, <1>8, <1>9, <1>10, <1>11, <1>12 DEF Next, Writer

-----------------------------------------------------------------------------
(* Outbound streams.                                                       *)

\* Where the chunks of each queue begin, and where the last of them ends.
AtFrame(s) == dgot[s] + Bytes(up, "data", s)
AtData(s) == AtFrame(s) + Bytes(frame, "data", s)
AtEnd(s) == AtData(s) + Bytes(data, "data", s)

\* From the pump to the daemon, a stream is in order and without gaps.
OutLane(s) ==
    /\ Follows(up, s, dgot[s], carried[s])
    /\ Follows(frame, s, AtFrame(s), carried[s])
    /\ Follows(data, s, AtData(s), carried[s])
    /\ AtEnd(s) <= carried[s]
    /\ ~closed => AtEnd(s) = carried[s]

EndSent(s) ==
    s \in dend \/ Names(up, "end", s) \/ Names(frame, "end", s) \/ Names(data, "end", s)

PumpOrder(s) ==
    /\ pump[s] = "none" => carried[s] = 0
    /\ EndSent(s) => pump[s] = "done"
    /\ dgot[s] <= carried[s]
    /\ s \in dend => dgot[s] = carried[s]

OutOrder ==
    /\ ~connected => up = <<>>
    /\ \A s \in Out : PumpOrder(s) /\ (connected => OutLane(s))

outVars == <<up, frame, data, dgot, carried, dend, pump, closed, connected>>

LEMMA OutOrderKept == OutOrder /\ UNCHANGED outVars => OutOrder'
BY DEF OutOrder, outVars, OutLane, PumpOrder, EndSent, AtFrame, AtData, AtEnd

\* What the proofs of the steps take for granted.
Sound == WindowInv /\ KindsInv /\ OutOrder

LEMMA SoundNumbers ==
    ASSUME Sound, NEW s \in Out
    PROVE  /\ Bytes(up, "data", s) \in Nat /\ Bytes(frame, "data", s) \in Nat
           /\ Bytes(data, "data", s) \in Nat
           /\ dgot[s] \in Nat /\ carried[s] \in Nat /\ hand[s] \in Nat
           /\ AtFrame(s) \in Nat /\ AtData(s) \in Nat /\ AtEnd(s) \in Nat
<1>1. OutNaturalAt(s)
  BY Numbers DEF Sound, OutNatural
<1>2. dgot[s] \in Nat /\ carried[s] \in Nat /\ hand[s] \in Nat
  BY DEF Sound, WindowInv, TypeOK, DaemonOK, PumpsOK
<1>. QED
  BY <1>1, <1>2 DEF OutNaturalAt, AtFrame, AtData, AtEnd

LEMMA OutPops == Sound /\ WriterPops => OutOrder'
<1> SUFFICES ASSUME Sound, WriterPops PROVE OutOrder'
  OBVIOUS
<1>0. /\ frame = <<>> /\ UNCHANGED <<up, dgot, carried, dend, pump, closed, connected>>
  BY DEF WriterPops, pumpVars, daemonVars, daemonIn, wireVars
<1>1. SUFFICES ASSUME NEW s \in Out
               PROVE  PumpOrder(s)' /\ (connected => OutLane(s)')
  BY <1>0 DEF OutOrder, Sound
<1>2. PumpOrder(s) /\ (connected => OutLane(s))
  BY DEF Sound, OutOrder
<1>n. /\ Bytes(up, "data", s) \in Nat /\ Bytes(frame, "data", s) = 0
      /\ Bytes(data, "data", s) \in Nat
      /\ dgot[s] \in Nat /\ carried[s] \in Nat /\ AtFrame(s) \in Nat /\ AtData(s) = AtFrame(s)
  BY <1>0, SoundNumbers, BytesOfEmpty DEF AtData
<1>3. CASE control # <<>>
  <2>1. /\ frame' = <<Head(control)>> /\ data' = data
        /\ Head(control) \in Notice /\ Head(control) \in ControlLane
    BY <1>3 DEF WriterPops, Sound, KindsInv, WindowInv, Bounds, LanesInv
  <2>2. Bytes(frame', "data", s) = 0
    BY <2>1, Singleton, LaneTypes
  <2>3. Follows(frame', s, AtFrame(s), carried[s]) /\ ~Names(frame', "end", s)
    <3>1. Head(control).type # "data" /\ Head(control).type # "end"
      BY <2>1 DEF Notice
    <3>. QED
      BY <1>n, <2>1, <3>1, FollowsOne, NamesOne, LaneTypes
  <2>. QED
    BY <1>0, <1>2, <1>n, <2>1, <2>2, <2>3 DEF PumpOrder, OutLane, EndSent, AtFrame, AtData, AtEnd
<1>4. CASE control = <<>> /\ data # <<>>
  <2> DEFINE d == Head(data)
  <2>1. /\ frame' = <<d>> /\ data' = Tail(data) /\ data \in Seq(DataLane) /\ data # <<>>
        /\ d \in DataLane
    BY <1>4 DEF WriterPops, Sound, WindowInv, Bounds, LanesInv
  <2>2. /\ Carries(d, "data", s) \in Nat
        /\ Bytes(frame', "data", s) = Carries(d, "data", s)
        /\ Bytes(data, "data", s) = Carries(d, "data", s) + Bytes(data', "data", s)
        /\ Bytes(data', "data", s) \in Nat
    BY <2>1, Singleton, Popping, LaneTypes
  <2>3. /\ Names(data, "end", s) <=> (d.type = "end" /\ d.stream = s) \/ Names(data', "end", s)
        /\ Names(frame', "end", s) <=> (d.type = "end" /\ d.stream = s)
    BY <2>1, NamesTail, NamesOne
  <2>4. ASSUME connected
        PROVE  /\ Follows(data', s, AtFrame(s) + Carries(d, "data", s), carried[s])
               /\ Follows(frame', s, AtFrame(s), carried[s])
    <3>1. Follows(data, s, AtFrame(s), carried[s])
      BY <1>2, <1>n, <2>4 DEF OutLane
    <3>2. /\ Follows(Tail(data), s, AtFrame(s) + Carries(d, "data", s), carried[s])
          /\ d.stream = s => /\ d.type = "data" => d.from = AtFrame(s)
                             /\ d.type = "end" => AtFrame(s) = carried[s]
      BY <1>n, <2>1, <3>1, FollowsTail, LaneTypes
    <3> HIDE DEF d
    <3>3. Follows(<<d>>, s, AtFrame(s), carried[s])
      BY <1>n, <2>1, <3>2, FollowsOne, LaneTypes
    <3>. QED
      BY <2>1, <3>2, <3>3
  <2> HIDE DEF d
  <2>5. AtFrame(s)' = AtFrame(s) /\ AtData(s)' = AtFrame(s) + Carries(d, "data", s)
    BY <1>0, <2>2 DEF AtFrame, AtData
  <2>6. AtEnd(s)' = AtEnd(s)
    BY <1>n, <2>2, <2>5 DEF AtEnd
  <2>7. EndSent(s)' => EndSent(s)
    BY <1>0, <2>3 DEF EndSent
  <2>8. connected => OutLane(s)'
    BY <1>0, <1>2, <2>4, <2>5, <2>6 DEF OutLane
  <2>. QED
    BY <1>0, <1>2, <2>7, <2>8 DEF PumpOrder
<1>. QED
  BY <1>3, <1>4 DEF WriterPops

LEMMA OutWrites == Sound /\ WriterWrites => OutOrder'
<1> SUFFICES ASSUME Sound, WriterWrites PROVE OutOrder'
  OBVIOUS
<1> DEFINE d == Head(frame)
<1>0. /\ frame # <<>> /\ connected /\ up' = Append(up, d) /\ frame' = <<>>
      /\ UNCHANGED <<data, dgot, carried, dend, pump, closed, connected>>
  BY DEF WriterWrites, outboxVars, pumpVars, daemonVars, daemonIn
<1>1. SUFFICES ASSUME NEW s \in Out
               PROVE  PumpOrder(s)' /\ OutLane(s)'
  BY <1>0 DEF OutOrder
<1>2. PumpOrder(s) /\ OutLane(s)
  BY <1>0 DEF Sound, OutOrder
<1>3. up \in Seq(Fitting) /\ frame \in Seq(Fitting) /\ d \in Fitting
  BY <1>0 DEF Sound, WindowInv, Bounds, LanesInv
<1>n. /\ Bytes(up, "data", s) \in Nat /\ Bytes(frame, "data", s) \in Nat
      /\ Bytes(data, "data", s) \in Nat
      /\ dgot[s] \in Nat /\ carried[s] \in Nat /\ AtFrame(s) \in Nat /\ AtData(s) \in Nat
  BY SoundNumbers
<1>4. /\ Carries(d, "data", s) \in Nat
      /\ Bytes(frame, "data", s) = Carries(d, "data", s) + Bytes(Tail(frame), "data", s)
      /\ Bytes(Tail(frame), "data", s) \in Nat
      /\ Names(frame, "end", s) <=> (d.type = "end" /\ d.stream = s) \/ Names(Tail(frame), "end", s)
  BY <1>0, <1>3, Popping, NamesTail, LaneTypes
<1>5. Tail(frame) = <<>>
  BY <1>0, <1>3 DEF Sound, KindsInv
<1>6. /\ Bytes(frame', "data", s) = 0 /\ Bytes(frame, "data", s) = Carries(d, "data", s)
      /\ ~Names(frame', "end", s)
      /\ Names(frame, "end", s) <=> (d.type = "end" /\ d.stream = s)
  <2>1. frame' = Tail(frame)
    BY <1>0, <1>5
  <2>2. Bytes(Tail(frame), "data", s) = 0 /\ ~Names(Tail(frame), "end", s)
    BY <1>5, BytesOfEmpty, NamesNone
  <2>. QED
    BY <1>4, <2>1, <2>2
<1>7. /\ Bytes(up', "data", s) = Bytes(up, "data", s) + Carries(d, "data", s)
      /\ Names(up', "end", s) <=> Names(up, "end", s) \/ (d.type = "end" /\ d.stream = s)
  BY <1>0, <1>3, Appending, NamesAppend
<1>8. d.stream = s => /\ d.type = "data" => d.from = AtFrame(s)
                      /\ d.type = "end" => AtFrame(s) = carried[s]
  BY <1>0, <1>2, <1>3, <1>n, FollowsTail DEF OutLane
<1> HIDE DEF d
<1>9. Follows(up', s, dgot[s], carried[s])
  BY <1>0, <1>2, <1>3, <1>8, FollowsAppend DEF OutLane, AtFrame
<1>10. AtData(s)' = AtData(s) /\ AtEnd(s)' = AtEnd(s)
  <2>1. AtFrame(s)' = AtFrame(s) + Carries(d, "data", s)
    BY <1>0, <1>n, <1>4, <1>7 DEF AtFrame
  <2>2. AtData(s)' = AtData(s)
    BY <1>n, <1>4, <1>6, <2>1 DEF AtData
  <2>. QED
    BY <1>0, <2>2 DEF AtEnd
<1>11. OutLane(s)'
  BY <1>0, <1>2, <1>9, <1>10, FollowsNone DEF OutLane
<1>. QED
  BY <1>0, <1>2, <1>6, <1>7, <1>11 DEF PumpOrder, EndSent

\* The pumps.  A chunk is sent from where the last one ended, and `end` from where the last did.
LEMMA OutSends == ASSUME Sound, NEW p \in Out, PumpSends(p) PROVE OutOrder'
<1> DEFINE d == Data(p, carried[p], hand[p])
<1>0. /\ pump[p] = "send" /\ SendData(d)
      /\ carried' = [carried EXCEPT ![p] = @ + hand[p]]
      /\ pump' = [pump EXCEPT ![p] = "allowance"]
      /\ UNCHANGED <<up, frame, dgot, dend, closed, connected>>
  BY DEF PumpSends, SendData, writerVars, daemonVars, daemonIn, wireVars
<1>1. SUFFICES ASSUME NEW s \in Out
               PROVE  PumpOrder(s)' /\ (connected => OutLane(s)')
  BY <1>0 DEF OutOrder, Sound
<1>2. PumpOrder(s) /\ (connected => OutLane(s))
  BY DEF Sound, OutOrder
<1>n. /\ Bytes(up, "data", s) \in Nat /\ Bytes(frame, "data", s) \in Nat
      /\ Bytes(data, "data", s) \in Nat /\ hand[p] \in Nat /\ p \in Streams
      /\ dgot[s] \in Nat /\ carried[s] \in Nat /\ carried[p] \in Nat
      /\ AtFrame(s) \in Nat /\ AtData(s) \in Nat /\ AtEnd(s) \in Nat
  BY SoundNumbers, StreamTypes
<1>3. hand[p] <= WINDOW /\ data \in Seq(DataLane)
  BY DEF Sound, WindowInv, Bounds, PumpsInv, LanesInv
<1>4. /\ d \in DataLane /\ d.stream = p /\ d.type = "data" /\ d.from = carried[p]
      /\ Carries(d, "data", s) = IF s = p THEN hand[p] ELSE 0
  BY <1>n, <1>3, ChunkWeight DEF Data
<1> HIDE DEF d
<1>5. /\ carried'[s] = IF s = p THEN carried[s] + hand[p] ELSE carried[s]
      /\ pump'[s] = IF s = p THEN "allowance" ELSE pump[s]
  BY <1>0 DEF Sound, WindowInv, TypeOK, PumpsOK
<1>6. CASE closed
  <2>1. data' = data
    BY <1>0, <1>6 DEF SendData
  <2>2. s = p => ~EndSent(s)
    BY <1>0, <1>2 DEF PumpOrder
  <2>3. connected => OutLane(s)'
    BY <1>0, <1>2, <1>n, <1>5, <1>6, <2>1, <2>2, FollowsAny
       DEF OutLane, EndSent, AtFrame, AtData, AtEnd
  <2>. QED
    BY <1>0, <1>2, <1>n, <1>5, <2>1, <2>2, <2>3 DEF PumpOrder, EndSent
<1>7. CASE ~closed
  <2>1. data' = Append(data, d)
    BY <1>0, <1>7 DEF SendData
  <2>2. s = p => ~EndSent(s)
    BY <1>0, <1>2 DEF PumpOrder
  <2>3. /\ Bytes(data', "data", s) = Bytes(data, "data", s) + Carries(d, "data", s)
        /\ Names(data', "end", s) <=> Names(data, "end", s)
    BY <1>3, <1>4, <2>1, Appending, NamesAppend, LaneTypes
  <2>4. EndSent(s)' <=> EndSent(s)
    BY <1>0, <2>3 DEF EndSent
  <2>5. AtFrame(s)' = AtFrame(s) /\ AtData(s)' = AtData(s)
    BY <1>0 DEF AtFrame, AtData
  <2>6. AtEnd(s)' = AtEnd(s) + Carries(d, "data", s)
    BY <1>n, <1>4, <2>3, <2>5 DEF AtEnd
  <2>7. ASSUME connected PROVE OutLane(s)'
    <3>1. /\ AtEnd(s) = carried[s] /\ Follows(up, s, dgot[s], carried[s])
          /\ Follows(frame, s, AtFrame(s), carried[s]) /\ Follows(data, s, AtData(s), carried[s])
      BY <1>2, <1>7, <2>7 DEF OutLane
    <3>2. s = p => ~Names(up, "end", s) /\ ~Names(frame, "end", s) /\ ~Names(data, "end", s)
      BY <2>2 DEF EndSent
    <3>3. /\ Follows(up, s, dgot[s], carried'[s]) /\ Follows(frame, s, AtFrame(s), carried'[s])
          /\ Follows(data, s, AtData(s), carried'[s])
      BY <1>5, <3>1, <3>2, FollowsAny
    <3>4. Follows(data', s, AtData(s), carried'[s])
      BY <1>3, <1>4, <2>1, <3>1, <3>3, FollowsAppend, LaneTypes DEF AtEnd
    <3>5. AtEnd(s)' = carried'[s]
      BY <1>n, <1>4, <1>5, <2>6, <3>1
    <3>. QED
      BY <1>0, <1>n, <1>5, <2>5, <3>3, <3>4, <3>5 DEF OutLane
  <2>. QED
    BY <1>0, <1>2, <1>n, <1>5, <2>2, <2>4, <2>7 DEF PumpOrder, EndSent
<1>. QED
  BY <1>6, <1>7

LEMMA OutEnds == ASSUME Sound, NEW p \in Out, PumpEnds(p) PROVE OutOrder'
<1> DEFINE d == About("end", p)
<1>0. /\ pump[p] = "end" /\ SendData(d)
      /\ pump' = [pump EXCEPT ![p] = "done"]
      /\ UNCHANGED <<up, frame, dgot, dend, carried, closed, connected>>
  BY DEF PumpEnds, SendData, writerVars, daemonVars, daemonIn, wireVars
<1>1. SUFFICES ASSUME NEW s \in Out
               PROVE  PumpOrder(s)' /\ (connected => OutLane(s)')
  BY <1>0 DEF OutOrder, Sound
<1>2. PumpOrder(s) /\ (connected => OutLane(s))
  BY DEF Sound, OutOrder
<1>n. /\ Bytes(data, "data", s) \in Nat /\ carried[s] \in Nat /\ AtData(s) \in Nat
  BY SoundNumbers, StreamTypes
<1>3. /\ d \in DataLane /\ d.stream = p /\ d.type = "end" /\ Carries(d, "data", s) = 0
      /\ data \in Seq(DataLane)
  BY StreamTypes, Weightless DEF About, Sound, WindowInv, Bounds, LanesInv
<1> HIDE DEF d
<1>5. pump'[s] = IF s = p THEN "done" ELSE pump[s]
  BY <1>0 DEF Sound, WindowInv, TypeOK, PumpsOK
<1>6. /\ AtFrame(s)' = AtFrame(s) /\ AtData(s)' = AtData(s)
  BY <1>0 DEF AtFrame, AtData
<1>7. CASE closed
  <2>1. data' = data
    BY <1>0, <1>7 DEF SendData
  <2>. QED
    BY <1>0, <1>2, <1>5, <1>6, <2>1 DEF PumpOrder, EndSent, OutLane, AtEnd
<1>8. CASE ~closed
  <2>1. data' = Append(data, d)
    BY <1>0, <1>8 DEF SendData
  <2>2. /\ Bytes(data', "data", s) = Bytes(data, "data", s)
        /\ Names(data', "end", s) <=> Names(data, "end", s) \/ s = p
    BY <1>n, <1>3, <2>1, Appending, NamesAppend, LaneTypes
  <2>3. ASSUME connected PROVE OutLane(s)'
    <3>1. AtEnd(s) = carried[s] /\ Follows(data, s, AtData(s), carried[s]) /\ OutLane(s)
      BY <1>2, <1>8, <2>3 DEF OutLane
    <3>2. Follows(data', s, AtData(s), carried[s])
      BY <1>3, <2>1, <3>1, FollowsAppend, LaneTypes DEF AtEnd
    <3>. QED
      BY <1>0, <1>6, <2>2, <3>1, <3>2 DEF OutLane, AtEnd
  <2>. QED
    BY <1>0, <1>2, <1>5, <2>2, <2>3 DEF PumpOrder, EndSent
<1>. QED
  BY <1>7, <1>8

\* A pump that has sent its `end` does nothing more.
LEMMA OutPumps ==
    ASSUME Sound, NEW p \in Out, PumpAllowance(p) \/ PumpReads(p) \/ PumpFinishes(p)
    PROVE  OutOrder'
<1>0. /\ UNCHANGED <<up, frame, data, dgot, dend, carried, closed, connected>>
      /\ pump[p] \in {"allowance", "read", "exhausted"}
      /\ \E to \in {"read", "send", "exhausted", "end", "done"} : pump' = [pump EXCEPT ![p] = to]
  BY DEF PumpAllowance, PumpReads, PumpFinishes, outboxVars, writerVars, daemonVars, daemonIn, wireVars
<1>1. \A s \in Out : /\ pump'[s] = "none" => pump[s] = "none"
                     /\ pump[s] = "done" => pump'[s] = "done"
  BY <1>0 DEF Sound, WindowInv, TypeOK, PumpsOK
<1>. QED
  BY <1>0, <1>1 DEF Sound, OutOrder, PumpOrder, EndSent, OutLane, AtFrame, AtData, AtEnd

\* The daemon reads what comes next.
LEMMA OutArrives == Sound /\ DaemonReads => OutOrder'
<1> SUFFICES ASSUME Sound, DaemonReads PROVE OutOrder'
  OBVIOUS
<1> DEFINE d == Head(up)
<1>0. /\ connected /\ up # <<>> /\ up' = Tail(up) /\ up \in Seq(Fitting) /\ d \in Fitting
      /\ dgot' = IF d.type = "data" THEN [dgot EXCEPT ![d.stream] = @ + d.bytes] ELSE dgot
      /\ dend' = IF d.type = "end" THEN dend \cup {d.stream} ELSE dend
      /\ UNCHANGED <<frame, data, carried, pump, closed, connected>>
  <2>1. up \in Seq(Fitting)
    BY DEF Sound, WindowInv, Bounds, LanesInv
  <2>. QED
    BY <2>1 DEF DaemonReads, launcherVars, outboxVars, writerVars, pumpVars
<1>1. SUFFICES ASSUME NEW s \in Out
               PROVE  PumpOrder(s)' /\ OutLane(s)'
  BY <1>0 DEF OutOrder
<1>2. PumpOrder(s) /\ OutLane(s)
  BY <1>0 DEF Sound, OutOrder
<1>n. /\ Bytes(frame, "data", s) \in Nat /\ Bytes(data, "data", s) \in Nat
      /\ Bytes(up, "data", s) \in Nat
      /\ dgot[s] \in Nat /\ carried[s] \in Nat /\ AtFrame(s) \in Nat
  BY SoundNumbers
<1>3. /\ Carries(d, "data", s) \in Nat /\ Bytes(up', "data", s) \in Nat
      /\ Bytes(up, "data", s) = Carries(d, "data", s) + Bytes(up', "data", s)
      /\ Names(up, "end", s) <=> (d.type = "end" /\ d.stream = s) \/ Names(up', "end", s)
  BY <1>0, Popping, NamesTail
<1>4. /\ Follows(up', s, dgot[s] + Carries(d, "data", s), carried[s])
      /\ d.stream = s /\ d.type = "end" => dgot[s] = carried[s]
  BY <1>0, <1>2, <1>n, FollowsTail DEF OutLane
<1>5. dgot'[s] = dgot[s] + Carries(d, "data", s)
  BY <1>0, <1>n DEF Carries, Fitting, Document, Sound, WindowInv, TypeOK, DaemonOK
<1>6. s \in dend' <=> s \in dend \/ (d.type = "end" /\ d.stream = s)
  BY <1>0
<1> HIDE DEF d
<1>7. AtFrame(s)' = AtFrame(s) /\ AtData(s)' = AtData(s) /\ AtEnd(s)' = AtEnd(s)
  <2>1. AtFrame(s)' = AtFrame(s)
    BY <1>n, <1>3, <1>5 DEF AtFrame
  <2>. QED
    BY <1>0, <2>1 DEF AtData, AtEnd
<1>8. OutLane(s)'
  BY <1>0, <1>2, <1>4, <1>5, <1>7 DEF OutLane
<1>9. dgot'[s] <= carried[s]
  BY <1>2, <1>n, <1>3, <1>5 DEF OutLane, AtEnd, AtData, AtFrame
<1>10. s \in dend' => dgot'[s] = carried[s]
  BY <1>2, <1>n, <1>3, <1>4, <1>5, <1>6, <1>9 DEF PumpOrder
<1>. QED
  BY <1>0, <1>2, <1>3, <1>6, <1>8, <1>9, <1>10 DEF PumpOrder, EndSent

\* Losing the connection loses what is in flight; opening starts a stream nothing was sent of.
LEMMA OutLoses == Sound /\ (WriterFails \/ Disconnect \/ ReaderClosesOutbox) => OutOrder'
<1> SUFFICES ASSUME Sound, WriterFails \/ Disconnect \/ ReaderClosesOutbox PROVE OutOrder'
  OBVIOUS
<1> USE DEF outboxVars, writerVars, pumpVars, wireVars, daemonVars, daemonIn
<1>1. CASE WriterFails \/ Disconnect
  <2>1. /\ UNCHANGED <<data, dgot, dend, carried, pump>>
        /\ up' = <<>> /\ ~connected'
        /\ frame' = <<>> \/ frame' = frame
    BY <1>1 DEF WriterFails, Disconnect, Sound, OutOrder
  <2>2. \A s : EndSent(s)' => EndSent(s)
    BY <2>1, NamesNone DEF EndSent
  <2>. QED
    BY <2>1, <2>2 DEF Sound, OutOrder, PumpOrder
<1>2. CASE ReaderClosesOutbox
  BY <1>2 DEF ReaderClosesOutbox, Sound, OutOrder, PumpOrder, EndSent, OutLane, AtFrame, AtData, AtEnd
<1>. QED
  BY <1>1, <1>2

LEMMA OutOpens == Sound /\ ReadOpen => OutOrder'
<1> SUFFICES ASSUME Sound, ReadOpen PROVE OutOrder'
  OBVIOUS
<1> DEFINE fd == Head(down).stream
<1>0. /\ UNCHANGED <<up, frame, data, dgot, dend, carried, closed, connected>>
      /\ pump' = pump \/ (fd \in Readable \ opened /\ pump' = [pump EXCEPT ![fd] = "allowance"])
  BY DEF ReadOpen, Receives, OpensFor, Openable, outboxVars, writerVars, daemonVars, daemonIn
<1>1. fd \in Readable \ opened => pump[fd] = "none"
  BY DEF Sound, WindowInv, Bounds, OutInv, Unopened
<1>2. \A s \in Out : /\ pump'[s] = "none" => pump[s] = "none"
                     /\ pump[s] = "done" => pump'[s] = "done"
  BY <1>0, <1>1 DEF Sound, WindowInv, TypeOK, PumpsOK
<1> HIDE DEF fd
<1>. QED
  BY <1>0, <1>2 DEF Sound, OutOrder, PumpOrder, EndSent, OutLane, AtFrame, AtData, AtEnd

LEMMA OutStep == Sound /\ [Next]_vars => OutOrder'
<1> SUFFICES ASSUME Sound, [Next]_vars PROVE OutOrder'
  OBVIOUS
<1> USE DEF outVars, outboxVars, writerVars, creditVars, pumpVars, inletVars, drainVars, sinkVars,
            readerVars, wireVars, daemonVars, daemonOut, daemonIn, signalVars, launcherVars
<1>0. OutOrder
  BY DEF Sound
<1>1. CASE UNCHANGED vars \/ Wait \/ Terminated
  BY <1>0, <1>1, OutOrderKept DEF vars, Wait, Terminated
<1>2. CASE Writer
  BY <1>0, <1>2, OutPops, OutWrites, OutLoses, OutOrderKept DEF Writer, WriterReturns
<1>3. ASSUME NEW s \in Out, Pump(s) PROVE OutOrder'
  BY <1>3, OutPumps, OutSends, OutEnds DEF Pump
<1>4. ASSUME NEW s \in In, Drain(s) PROVE OutOrder'
  BY <1>0, <1>4, OutOrderKept DEF Drain, DrainTakes, DrainWrites, DrainGrants, Send
<1>5. CASE Reader
  BY <1>0, <1>5, OutOpens, OutLoses, OutOrderKept DEF Reader, Receives, ReadData, ReadEnd, ReadCredit,
     ReadClosed, ReadSignalAck, ReadExitStatus, ReadFails, ReaderClosesCredits, ReaderReleases
<1>6. CASE Client
  BY <1>0, <1>6, OutLoses, OutOrderKept DEF Client, Signal, Send, DiscardStdout, SinkBreaks
<1>7. CASE Daemon
  BY <1>0, <1>7, OutArrives, OutOrderKept DEF Daemon, DaemonSends, DaemonAcks, DaemonExits, DaemonWrites,
     DaemonEnds, DaemonGrants, DaemonCloses, DaemonOpens
<1>. QED
  BY <1>1, <1>2, <1>3, <1>4, <1>5, <1>6, <1>7 DEF Next

-----------------------------------------------------------------------------
(* The launcher's streams are pipes.                                       *)

\* The window once more, of what the daemon has not read rather than of what is in flight: the
\* chunks a closed outbox drops are never in flight, and their credit is not given back.
OutHeld(s) == Due(s) + (carried[s] - dgot[s]) + dbuffer[s] + OutGrants(s)

HeldInv == \A s \in Out : OutHeld(s) <= WINDOW

HeldVars == <<streams, credit, pump, allowed, hand, carried, dgot, dbuffer, down>>

LEMMA HeldKept == HeldInv /\ UNCHANGED HeldVars => HeldInv'
BY DEF HeldInv, HeldVars, OutHeld, Due, Held, OutGrants

HeldNatural ==
    \A s \in Out :
        /\ dgot[s] \in Nat /\ carried[s] \in Nat /\ hand[s] \in Nat /\ allowed[s] \in Nat
        /\ credit[s] \in Nat /\ dbuffer[s] \in Nat /\ OutGrants(s) \in Nat
        /\ Held(s) \in Nat /\ Due(s) \in Nat /\ Held(s) <= credit[s]
        /\ dgot[s] <= carried[s]

LEMMA HeldNumbers == Sound => HeldNatural
<1> SUFFICES ASSUME Sound, NEW s \in Out
    PROVE  /\ dgot[s] \in Nat /\ carried[s] \in Nat /\ hand[s] \in Nat /\ allowed[s] \in Nat
           /\ credit[s] \in Nat /\ dbuffer[s] \in Nat /\ OutGrants(s) \in Nat
           /\ Held(s) \in Nat /\ Due(s) \in Nat /\ Held(s) <= credit[s]
           /\ dgot[s] <= carried[s]
  BY DEF HeldNatural
<1>1. OutNaturalAt(s) /\ Held(s) <= credit[s]
  BY Numbers DEF Sound, OutNatural, WindowInv, Bounds, PumpsInv
<1>2. dgot[s] \in Nat /\ carried[s] \in Nat /\ dgot[s] <= carried[s]
  BY DEF Sound, OutOrder, PumpOrder, WindowInv, TypeOK, DaemonOK, PumpsOK
<1>. QED
  BY <1>1, <1>2 DEF OutNaturalAt, OutGrants

LEMMA HeldNumbersNext == Sound' => HeldNatural'
BY HeldNumbers, PTL

\* A pump's own steps never raise what is due of its stream, and a chunk sent is due no more.
LEMMA HeldPumps == ASSUME Sound, HeldInv, NEW p \in Out, Pump(p) PROVE HeldInv'
<1> SUFFICES ASSUME NEW s \in Out PROVE OutHeld(s)' <= WINDOW
  BY DEF HeldInv
<1>0. /\ UNCHANGED <<streams, dgot, dbuffer, down>>
  BY DEF Pump, PumpAllowance, PumpReads, PumpSends, PumpFinishes, PumpEnds, Spend, creditVars,
         daemonVars, daemonIn, wireVars
<1>1. OutHeld(s) <= WINDOW /\ OutGrants(s)' = OutGrants(s) /\ WINDOW \in Nat
  BY <1>0, SessionAssumption DEF HeldInv, OutGrants
<1>2. /\ pump \in [Out -> {"none", "allowance", "read", "send", "exhausted", "end", "done"}]
      /\ allowed \in [Out -> Nat] /\ hand \in [Out -> Nat] /\ carried \in [Out -> Nat]
      /\ credit \in [Out -> Nat] /\ input \in [Out -> Nat]
  BY DEF Sound, WindowInv, TypeOK, PumpsOK, CreditsOK
<1>3. CASE s # p
  <2>1. Held(s)' = Held(s) /\ credit'[s] = credit[s] /\ carried'[s] = carried[s]
    BY <1>2, <1>3 DEF Held, Pump, PumpAllowance, PumpReads, PumpSends, PumpFinishes, PumpEnds,
       Spend, creditVars
  <2>. QED
    BY <1>0, <1>1, <2>1 DEF OutHeld, Due
<1>4. CASE s = p
  <2>1. CASE PumpSends(s)
    <3>1. Held(s) = hand[s] /\ Held(s)' = 0 /\ carried'[s] = carried[s] + hand[s]
      BY <1>2, <2>1 DEF PumpSends, Held
    <3>2. s \in streams => credit'[s] = credit[s] - hand[s]
      BY <1>2, <2>1, <3>1, HeldNumbers DEF HeldNatural, PumpSends, Spend
    <3>. QED
      BY <1>0, <1>1, <3>1, <3>2, HeldNumbers DEF HeldNatural, OutHeld, Due
  <2>2. CASE PumpAllowance(s) \/ PumpReads(s) \/ PumpFinishes(s) \/ PumpEnds(s)
    <3>1. credit' = credit /\ carried' = carried
      BY <2>2 DEF PumpAllowance, PumpReads, PumpFinishes, PumpEnds, creditVars
    <3>2. s \notin streams => Held(s)' <= Held(s)
      BY <1>2, <2>2, LeastTypes DEF PumpAllowance, PumpReads, PumpFinishes, PumpEnds, Held, Active, Least
    <3>3. Held(s)' \in Nat
      <4>1. allowed'[s] \in Nat /\ hand'[s] \in Nat
        BY <1>2, <2>2, LeastTypes, SessionAssumption DEF PumpAllowance, PumpReads, PumpFinishes, PumpEnds, Least
      <4>. QED
        BY <4>1 DEF Held
    <3>. QED
      BY <1>0, <1>1, <3>1, <3>2, <3>3, HeldNumbers DEF HeldNatural, OutHeld, Due
  <2>. QED
    BY <1>4, <2>1, <2>2 DEF Pump
<1>. QED
  BY <1>3, <1>4

\* What the reader takes out of the socket: a grant becomes credit, and an `open` gives out a
\* window of a stream that nothing is owed on.
LEMMA HeldReads == ASSUME Sound, HeldInv, NEW type, Receives(type), Reader PROVE HeldInv'
<1> SUFFICES ASSUME NEW s \in Out PROVE OutHeld(s)' <= WINDOW
  BY DEF HeldInv
<1> DEFINE d == Head(down)
<1>0. /\ OutHeld(s) <= WINDOW /\ WINDOW \in Nat /\ WindowInv
      /\ d \in Fitting /\ d.type = type /\ d.bytes \in Nat
  BY SessionAssumption, Received, LaneTypes DEF HeldInv, Sound
<1>1. /\ UNCHANGED <<allowed, hand, carried, dgot, dbuffer>>
      /\ type = d.type /\ reader = "reading"
      /\ OutGrants(s) = Carries(d, "credit", s) + OutGrants(s)'
      /\ Carries(d, "credit", s) \in Nat /\ OutGrants(s)' \in Nat
  <2>1. /\ Carries(d, "credit", s) \in Nat /\ Bytes(down', "credit", s) \in Nat
        /\ Bytes(down, "credit", s) = Carries(d, "credit", s) + Bytes(down', "credit", s)
    BY <1>0, Received
  <2>. QED
    BY <1>0, <2>1 DEF OutGrants, Reader, Receives, ReadData, ReadEnd, ReadCredit, ReadClosed, ReadOpen,
       ReadSignalAck, ReadExitStatus, ReadFails, ReaderClosesCredits, ReaderClosesOutbox, Over,
       ReaderReleases, daemonVars, daemonIn, pumpVars
<1>2. CASE ReadCredit
  <2>1. /\ UNCHANGED <<streams, pump>>
        /\ credit' = IF d.stream \in streams THEN [credit EXCEPT ![d.stream] = @ + d.bytes] ELSE credit
        /\ d.type = "credit" /\ credit \in [Out -> Nat]
    BY <1>2 DEF ReadCredit, Grant, Receives, pumpVars, Sound, WindowInv, TypeOK, CreditsOK
  <2>2. s \in streams => credit'[s] = credit[s] + Carries(d, "credit", s)
    BY <1>0, <2>1 DEF Carries
  <2>3. Held(s)' = Held(s)
    BY <1>1, <2>1 DEF Held
  <2> HIDE DEF d
  <2>. QED
    BY <1>0, <1>1, <2>1, <2>2, <2>3, HeldNumbers DEF HeldNatural, OutHeld, Due
<1>3. CASE ReadOpen /\ d.stream = s /\ Openable(s) /\ s \in Readable
  <2>1. credit'[s] = WINDOW /\ s \in streams'
    BY <1>3 DEF ReadOpen, OpensFor, Sound, WindowInv, TypeOK, CreditsOK
  <2>2. pump[s] = "none" /\ OutTotal(s) = 0
    BY <1>0, <1>3 DEF Openable, WindowInv, Bounds, OutInv, Unopened
  <2>3. carried[s] = 0 /\ dgot[s] = 0
    BY <2>2, HeldNumbers DEF HeldNatural, Sound, OutOrder, PumpOrder
  <2>4. dbuffer[s] = 0 /\ OutGrants(s) = 0
    <3>1. OutNaturalAt(s)
      BY Numbers DEF Sound, OutNatural
    <3>. QED
      BY <2>2, <3>1 DEF OutTotal, OutData, OutGrants, OutNaturalAt
  <2> HIDE DEF d
  <2>. QED
    BY <1>0, <1>1, <2>1, <2>3, <2>4 DEF OutHeld, Due
<1>4. CASE ~ReadCredit /\ ~(ReadOpen /\ d.stream = s /\ Openable(s) /\ s \in Readable)
  <2>1. /\ pump'[s] = pump[s] /\ credit'[s] = credit[s] /\ (s \in streams' => s \in streams)
    BY <1>1, <1>4 DEF Reader, Receives, ReadData, ReadEnd, ReadClosed, ReadOpen, OpensFor, Openable,
       ReadSignalAck, ReadExitStatus, ReadFails, ReaderClosesCredits, ReaderClosesOutbox, Over,
       ReaderReleases, pumpVars, creditVars, Sound, WindowInv, TypeOK, PumpsOK, CreditsOK
  <2>2. Held(s)' = Held(s) /\ Due(s)' <= Due(s) /\ Due(s)' \in Nat
    BY <1>1, <2>1, HeldNumbers DEF HeldNatural, Held, Due
  <2> HIDE DEF d
  <2>. QED
    BY <1>0, <1>1, <2>2, HeldNumbers DEF HeldNatural, OutHeld
<1>. QED
  BY <1>2, <1>3, <1>4

\* What the daemon has read and not granted back, it holds or drops.
LEMMA HeldDaemon == Sound /\ HeldInv /\ Daemon => HeldInv'
<1> SUFFICES ASSUME Sound, HeldInv, Daemon, NEW s \in Out PROVE OutHeld(s)' <= WINDOW
  BY DEF HeldInv
<1> USE DEF daemonOut, daemonIn, launcherVars, creditVars, pumpVars
<1>0. /\ OutHeld(s) <= WINDOW /\ WINDOW \in Nat /\ WindowInv /\ dbuffer \in [Out -> Nat]
      /\ down \in Seq(Fitting)
  BY SessionAssumption DEF HeldInv, Sound, WindowInv, TypeOK, DaemonOK, Bounds, LanesInv
<1>1. /\ UNCHANGED <<streams, credit, pump, allowed, hand, carried>>
      /\ Due(s)' = Due(s)
  <2>1. UNCHANGED <<streams, credit, pump, allowed, hand, carried>>
    BY DEF Daemon, DaemonReads, DaemonAcks, DaemonExits, DaemonWrites, DaemonEnds, DaemonGrants,
       DaemonCloses, DaemonOpens, DaemonSends
  <2>. QED
    BY <2>1 DEF Due, Held
<1>2. CASE DaemonReads
  <2> DEFINE d == Head(up)
  <2>1. /\ UNCHANGED down /\ d \in Fitting
        /\ dgot' = IF d.type = "data" THEN [dgot EXCEPT ![d.stream] = @ + d.bytes] ELSE dgot
        /\ dbuffer' = IF d.type = "data" /\ d.stream \notin dclosed
                      THEN [dbuffer EXCEPT ![d.stream] = @ + d.bytes] ELSE dbuffer
        /\ dgot \in [Out -> Nat] /\ d.bytes \in Nat
    <3>1. d \in Fitting
      BY <1>2 DEF DaemonReads, Sound, WindowInv, Bounds, LanesInv
    <3>. QED
      BY <1>2, <3>1, LaneTypes DEF DaemonReads, Sound, WindowInv, TypeOK, DaemonOK
  <2> HIDE DEF d
  <2>2. dbuffer'[s] - dgot'[s] <= dbuffer[s] - dgot[s] /\ dbuffer'[s] \in Nat /\ dgot'[s] \in Nat
    BY <1>0, <2>1
  <2>3. OutGrants(s)' = OutGrants(s) /\ carried'[s] = carried[s]
    BY <1>1, <2>1 DEF OutGrants
  <2>4. /\ dgot[s] \in Nat /\ carried[s] \in Nat /\ dbuffer[s] \in Nat
        /\ OutGrants(s) \in Nat /\ Due(s) \in Nat
    BY <1>0, HeldNumbers DEF HeldNatural
  <2>5. OutHeld(s)' = Due(s) + (carried[s] - dgot'[s]) + dbuffer'[s] + OutGrants(s)
    BY <1>1, <2>3 DEF OutHeld
  <2>6. OutHeld(s) <= WINDOW /\ WINDOW \in Nat
    BY <1>0
  <2>. QED
    BY <2>2, <2>4, <2>5, <2>6 DEF OutHeld
<1>3. ASSUME NEW p \in Out, DaemonGrants(p) PROVE OutHeld(s)' <= WINDOW
  <2>1. PICK n \in 1..dbuffer[p] : DaemonSends(Credit(p, n)) /\ dbuffer' = [dbuffer EXCEPT ![p] = @ - n]
    BY <1>3 DEF DaemonGrants
  <2>2. p \in Streams /\ n \in Nat /\ n <= WINDOW /\ n <= dbuffer[p]
    <3>1. dbuffer[p] \in Nat /\ dbuffer[p] <= WINDOW
      <4>1. OutNaturalAt(p) /\ OutTotal(p) <= WINDOW
        BY <1>0, Numbers DEF WindowInv, Bounds, OutInv, OutNatural
      <4>. QED
        BY <1>0, <4>1 DEF OutTotal, OutData, OutNaturalAt, OutGrants
    <3>. QED
      BY <1>0, <3>1, StreamTypes
  <2>3. /\ OutGrants(s)' = OutGrants(s) + IF s = p THEN n ELSE 0
    BY <1>0, <2>1, <2>2, GrantWeight, Sent DEF OutGrants
  <2>4. dgot'[s] = dgot[s] /\ dbuffer'[s] = dbuffer[s] - IF s = p THEN n ELSE 0
    BY <1>0, <1>3, <2>1, <2>2 DEF DaemonGrants
  <2>. QED
    BY <1>0, <1>1, <2>2, <2>3, <2>4, HeldNumbers DEF HeldNatural, OutHeld
<1>4. CASE ~DaemonReads /\ \A p \in Out : ~DaemonGrants(p)
  <2>1. PICK d \in Fitting : DaemonSends(d) /\ d.type # "credit"
    <3>1. ASSUME NEW p \in In, DaemonWrites(p)
          PROVE  \E d \in Fitting : DaemonSends(d) /\ d.type # "credit"
      <4>1. PICK n \in 1..Least(dcredit[p], MAXIMUM_CHUNK) : DaemonSends(Data(p, dwritten[p], n))
        BY <3>1 DEF DaemonWrites
      <4>2. dcredit[p] \in Nat /\ MAXIMUM_CHUNK \in Nat /\ MAXIMUM_CHUNK <= WINDOW /\ dwritten[p] \in Nat
        BY SessionAssumption DEF Sound, WindowInv, TypeOK, DaemonOK
      <4>3. n \in Nat /\ n <= WINDOW /\ p \in Streams
        <5>1. /\ Least(dcredit[p], MAXIMUM_CHUNK) \in Nat
              /\ Least(dcredit[p], MAXIMUM_CHUNK) <= MAXIMUM_CHUNK
          BY <4>2, LeastTypes
        <5>. QED
          BY <1>0, <4>2, <5>1, StreamTypes
      <4>4. Data(p, dwritten[p], n) \in Fitting /\ Data(p, dwritten[p], n).type # "credit"
        BY <4>2, <4>3, ChunkWeight DEF Data
      <4>. QED
        BY <4>1, <4>4
    <3>2. \A t \in {"end", "closed", "open", "signal-ack", "exit-status"} : \A x \in Streams :
             About(t, x) \in Fitting /\ About(t, x).type # "credit"
      BY Weightless DEF About
    <3>3. \/ \E p \in In : DaemonWrites(p)
          \/ \E t \in {"end", "closed", "open", "signal-ack", "exit-status"} : \E x \in Streams :
               DaemonSends(About(t, x))
      BY <1>4, StreamTypes DEF Daemon, DaemonAcks, DaemonExits, DaemonEnds, DaemonCloses, DaemonOpens
    <3>. QED
      BY <3>1, <3>2, <3>3
  <2>2. OutGrants(s)' = OutGrants(s)
    <3>1. Carries(d, "credit", s) = 0
      BY <2>1 DEF Carries
    <3>. QED
      BY <1>0, <2>1, <3>1, Sent, QueueBytes DEF OutGrants
  <2>3. dgot'[s] = dgot[s] /\ dbuffer'[s] <= dbuffer[s] /\ dbuffer'[s] \in Nat
    BY <1>0, <1>4 DEF Daemon, DaemonAcks, DaemonExits, DaemonWrites, DaemonEnds, DaemonCloses, DaemonOpens
  <2>. QED
    BY <1>0, <1>1, <2>2, <2>3, HeldNumbers DEF HeldNatural, OutHeld
<1>. QED
  BY <1>2, <1>3, <1>4

LEMMA HeldStep == Sound /\ HeldInv /\ [Next]_vars => HeldInv'
<1> SUFFICES ASSUME Sound, HeldInv, [Next]_vars PROVE HeldInv'
  OBVIOUS
<1> USE DEF HeldVars, outboxVars, writerVars, creditVars, pumpVars, inletVars, drainVars, sinkVars,
            readerVars, wireVars, daemonVars, daemonOut, daemonIn, signalVars, launcherVars
<1>1. CASE UNCHANGED vars \/ Wait \/ Terminated \/ Writer \/ Client
  BY <1>1, HeldKept DEF vars, Wait, Terminated, Writer, WriterPops, WriterReturns, WriterWrites,
     WriterFails, Client, Signal, DiscardStdout, SinkBreaks, Disconnect
<1>2. ASSUME NEW s \in In, Drain(s) PROVE HeldInv'
  BY <1>2, HeldKept DEF Drain, DrainTakes, DrainWrites, DrainGrants
<1>3. CASE Reader
  <2>1. CASE \E type : Receives(type)
    BY <1>3, <2>1, HeldReads
  <2>2. CASE ReadFails \/ ReaderClosesCredits \/ ReaderClosesOutbox \/ ReaderReleases
    BY <2>2, HeldKept DEF ReadFails, ReaderClosesCredits, ReaderClosesOutbox, ReaderReleases
  <2>. QED
    BY <1>3, <2>1, <2>2 DEF Reader, ReadData, ReadEnd, ReadCredit, ReadClosed, ReadOpen, ReadSignalAck,
       ReadExitStatus
<1>. QED
  BY <1>1, <1>2, <1>3, HeldPumps, HeldDaemon DEF Next

LEMMA OutInit == Init => OutOrder /\ KindsInv /\ HeldInv
<1> SUFFICES ASSUME Init PROVE OutOrder /\ KindsInv /\ HeldInv
  OBVIOUS
<1>1. /\ control = <<>> /\ frame = <<>> /\ up = <<>> /\ down = <<>> /\ ~closed
      /\ data = <<>> \/ (data = <<About("end", Stdin)>> /\ pump[Stdin] = "done")
      /\ \A s \in Out : /\ carried[s] = 0 /\ dgot[s] = 0 /\ dbuffer[s] = 0
                        /\ pump[s] # "send" /\ Due(s) <= WINDOW /\ Due(s) \in Nat
      /\ dend = {}
  <2>1. /\ control = <<>> /\ frame = <<>> /\ up = <<>> /\ down = <<>> /\ ~closed /\ dend = {}
        /\ data = <<>> \/ (data = <<About("end", Stdin)>> /\ pump[Stdin] = "done")
    BY StreamTypes DEF Init
  <2>2. ASSUME NEW s \in Out
        PROVE  /\ carried[s] = 0 /\ dgot[s] = 0 /\ dbuffer[s] = 0
               /\ pump[s] \notin {"send", "read"} /\ credit[s] = WINDOW
    BY DEF Init
  <2>3. WINDOW \in Nat
    BY SessionAssumption
  <2>. QED
    BY <2>1, <2>2, <2>3 DEF Due, Held
<1>2. About("end", Stdin) \in Content /\ About("end", Stdin) \in Fitting
  BY KindTypes, Weightless, StreamTypes
<1>3. KindsInv
  <2>1. /\ <<>> \in Seq(Notice) /\ <<>> \in Seq(Content) /\ <<>> \in Seq(Notice \cup Content)
        /\ <<About("end", Stdin)>> \in Seq(Content) /\ Len(<<>>) = 0
    BY <1>2
  <2>2. control \in Seq(Notice) /\ data \in Seq(Content)
    BY <1>1, <2>1
  <2>3. frame \in Seq(Notice \cup Content) /\ up \in Seq(Notice \cup Content) /\ Len(frame) <= 1
    BY <1>1, <2>1
  <2>4. \A s \in Out : pump[s] # "send"
    BY <1>1
  <2>. QED
    BY <2>2, <2>3, <2>4 DEF KindsInv
<1>4. \A type, s : Bytes(<<>>, type, s) = 0 /\ Bytes(<<About("end", Stdin)>>, "data", s) = 0
  BY <1>2, BytesOfEmpty, Singleton, Weightless, StreamTypes
<1>5. HeldInv
  BY <1>1, <1>4, SessionAssumption DEF HeldInv, OutHeld, OutGrants
<1>6. ASSUME NEW s \in Out PROVE PumpOrder(s) /\ OutLane(s)
  <2>1. AtFrame(s) = 0 /\ AtData(s) = 0 /\ AtEnd(s) = 0
    <3>1. Bytes(up, "data", s) = 0 /\ Bytes(frame, "data", s) = 0 /\ Bytes(data, "data", s) = 0
      BY <1>1, <1>4
    <3>. QED
      BY <1>1, <3>1 DEF AtFrame, AtData, AtEnd
  <2>2. Follows(data, s, 0, 0) /\ (Names(data, "end", s) => pump[s] = "done")
    <3>1. CASE data = <<>>
      BY <3>1, FollowsNone, NamesNone
    <3>2. CASE data = <<About("end", Stdin)>> /\ pump[Stdin] = "done"
      BY <1>2, <3>2, FollowsOne, NamesOne DEF About
    <3>. QED
      BY <1>1, <3>1, <3>2
  <2>. QED
    BY <1>1, <2>1, <2>2, FollowsNone, NamesNone DEF PumpOrder, OutLane, EndSent
<1>. QED
  BY <1>3, <1>5, <1>6, <1>1 DEF OutOrder, Init

OutInvariant == Sound /\ HeldInv

LEMMA OutInvariantHolds == Spec => []OutInvariant
<1>1. Init => OutInvariant
  BY WindowInit, OutInit DEF OutInvariant, Sound
<1>2. OutInvariant /\ [Next]_vars => OutInvariant'
  BY WindowStep, KindsStep, OutStep, HeldStep DEF OutInvariant, Sound, WindowInv
<1>. QED
  BY <1>1, <1>2, PTL DEF Spec

\* Only a pump carries, and only the daemon's reads get.
LEMMA Untouched ==
    ASSUME Sound, [Next]_vars, NEW s \in Out, ~PumpSends(s), ~DaemonReads
    PROVE  UNCHANGED <<carried[s], dgot[s], s \in dend>>
<1> USE DEF outboxVars, writerVars, creditVars, pumpVars, inletVars, drainVars, sinkVars,
            readerVars, wireVars, daemonVars, daemonOut, daemonIn, signalVars, launcherVars
<1>1. CASE UNCHANGED vars \/ Wait \/ Terminated \/ Writer \/ Client
  BY <1>1 DEF vars, Wait, Terminated, Writer, WriterPops, WriterReturns, WriterWrites,
     WriterFails, Client, Signal, DiscardStdout, SinkBreaks, Disconnect
<1>2. ASSUME NEW t \in In, Drain(t) PROVE UNCHANGED <<carried[s], dgot[s], s \in dend>>
  BY <1>2 DEF Drain, DrainTakes, DrainWrites, DrainGrants
<1>3. ASSUME NEW p \in Out, Pump(p) PROVE UNCHANGED <<carried[s], dgot[s], s \in dend>>
  BY <1>3 DEF Pump, PumpAllowance, PumpReads, PumpSends, PumpFinishes, PumpEnds, Sound, WindowInv,
     TypeOK, PumpsOK
<1>4. CASE Reader
  BY <1>4 DEF Reader, Receives, ReadData, ReadEnd, ReadCredit, ReadClosed, ReadOpen, ReadSignalAck,
     ReadExitStatus, ReadFails, ReaderClosesCredits, ReaderClosesOutbox, ReaderReleases
<1>5. CASE Daemon
  BY <1>5 DEF Daemon, DaemonSends, DaemonAcks, DaemonExits, DaemonWrites, DaemonEnds, DaemonGrants,
     DaemonCloses, DaemonOpens
<1>. QED
  BY <1>1, <1>2, <1>3, <1>4, <1>5 DEF Next

LEMMA OutboundStep ==
    ASSUME OutInvariant, OutInvariant', [Next]_vars, NEW s \in Out
    PROVE  [Outbound(s)!Next]_(Outbound(s)!vars)
<1> USE DEF Outbound!Next, Outbound!vars
<1>0. Sound /\ PumpOrder(s) /\ PumpOrder(s)' /\ OutHeld(s)' <= WINDOW
  BY DEF OutInvariant, Sound, OutOrder, HeldInv
<1>1. CASE PumpSends(s)
  <2>1. /\ pump[s] = "send" /\ carried'[s] = carried[s] + hand[s]
        /\ dgot' = dgot /\ dend' = dend
    BY <1>1 DEF PumpSends, daemonVars, daemonIn, Sound, OutInvariant, WindowInv, TypeOK, PumpsOK
  <2>2. hand[s] \in 1..WINDOW /\ s \notin dend
    BY <1>0, <2>1, HeldNumbers, SessionAssumption DEF HeldNatural, Sound, KindsInv, PumpOrder, EndSent, WindowInv,
       Bounds, PumpsInv
  <2>3. carried'[s] - dgot'[s] <= WINDOW
    <3>1. /\ Due(s)' \in Nat /\ dbuffer'[s] \in Nat /\ OutGrants(s)' \in Nat
          /\ carried'[s] \in Nat /\ dgot'[s] \in Nat
      <4>1. Sound'
        BY DEF OutInvariant
      <4>. QED
        BY <4>1, HeldNumbersNext DEF HeldNatural
    <3>. QED
      BY <1>0, <3>1, SessionAssumption DEF OutHeld
  <2>4. Outbound(s)!Write
    BY <2>1, <2>2, <2>3 DEF Outbound!Write
  <2>. QED
    BY <2>4
<1>2. CASE DaemonReads
  <2> DEFINE d == Head(up)
  <2>1. /\ connected /\ up # <<>> /\ up \in Seq(Notice \cup Content) /\ up \in Seq(Fitting)
        /\ UNCHANGED carried /\ OutLane(s)
        /\ dgot' = IF d.type = "data" THEN [dgot EXCEPT ![d.stream] = @ + d.bytes] ELSE dgot
        /\ dend' = IF d.type = "end" THEN dend \cup {d.stream} ELSE dend
    BY <1>0, <1>2 DEF DaemonReads, launcherVars, pumpVars, Sound, KindsInv, WindowInv, Bounds, LanesInv,
       OutOrder
  <2>2. /\ Follows(Tail(up), s, dgot[s] + Carries(d, "data", s), carried[s])
        /\ d.stream = s /\ d.type = "end" => dgot[s] = carried[s]
    BY <1>0, <2>1, HeldNumbers, FollowsTail DEF OutLane, HeldNatural
  <2>3. CASE d.type = "data" /\ d.stream = s
    <3>1. d.bytes \in Nat /\ d.bytes > 0
      BY <2>1, <2>3 DEF Notice, Content, Document
    <3>2. dgot'[s] = dgot[s] + d.bytes /\ dend' = dend
      BY <2>1, <2>3, <3>1 DEF Sound, OutInvariant, WindowInv, TypeOK, DaemonOK
    <3>3. dgot'[s] <= carried[s] /\ carried[s] \in Nat /\ dgot[s] \in Nat
      BY <1>0, <2>1, HeldNumbers DEF PumpOrder, HeldNatural
    <3>4. s \notin dend
      BY <1>0, <3>1, <3>2, <3>3 DEF PumpOrder
    <3>5. Outbound(s)!Deliver
      BY <2>1, <3>1, <3>2, <3>3, <3>4 DEF Outbound!Deliver
    <3>. QED
      BY <3>5
  <2>4. CASE d.type = "end" /\ d.stream = s /\ s \notin dend
    <3>1. Outbound(s)!End
      BY <2>1, <2>2, <2>4 DEF Outbound!End
    <3>. QED
      BY <3>1
  <2>5. CASE ~(d.type = "data" /\ d.stream = s) /\ ~(d.type = "end" /\ d.stream = s /\ s \notin dend)
    <3>1. UNCHANGED <<carried[s], dgot[s], s \in dend>>
      BY <2>1, <2>5 DEF Sound, OutInvariant, WindowInv, TypeOK, DaemonOK
    <3>. QED
      BY <3>1
  <2>. QED
    BY <2>3, <2>4, <2>5
<1>3. CASE ~PumpSends(s) /\ ~DaemonReads
  <2>1. UNCHANGED <<carried[s], dgot[s], s \in dend>>
    BY <1>0, <1>3, Untouched
  <2>. QED
    BY <2>1
<1>. QED
  BY <1>1, <1>2, <1>3

\* Each stream of the launcher's implements Pipe (`pump`, Outbox and `writer` of session.rs): a
\* step of a session is for every one of them a Write, a Deliver, an End or nothing.
THEOREM OutboundIsPipe == Spec => OutboundPipes
<1>1. Init => \A s \in Out : Outbound(s)!Init
  BY DEF Init, Outbound!Init
<1>2. OutInvariant /\ OutInvariant' /\ [Next]_vars =>
        \A s \in Out : [Outbound(s)!Next]_(Outbound(s)!vars)
  BY OutboundStep
<1>. QED
  BY <1>1, <1>2, OutInvariantHolds, PTL DEF Spec, OutboundPipes
============================================================================
