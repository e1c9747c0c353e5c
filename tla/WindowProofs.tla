---------------------------- MODULE WindowProofs ----------------------------
(***************************************************************************)
(* The window: in neither direction does a stream ever have more than      *)
(* WINDOW bytes outstanding, whatever is granted, revoked, discarded,      *)
(* opened or cut off.  The total of a stream - what may still be sent of   *)
(* it, what is in flight, what the receiver holds and what is being        *)
(* granted back - is shown never to grow, except by an `open`, which finds *)
(* nothing outstanding.                                                    *)
(***************************************************************************)
EXTENDS SessionProofs

OutTotal(s) == Due(s) + OutData(s) + OutGrants(s)
InTotal(s) == dcredit[s] + InData(s) + InGrants(s)

\* What each lane and queue may hold.
ControlLane == {d \in Fitting : d.type # "data"}
DataLane == {d \in Fitting : d.type # "credit"}
Chunks(s) == {d \in Fitting : d.type = "data" /\ d.stream = s}

LanesInv ==
    /\ control \in Seq(ControlLane) /\ data \in Seq(DataLane)
    /\ frame \in Seq(Fitting) /\ up \in Seq(Fitting) /\ down \in Seq(Fitting)
QueuesInv == \A s \in In : queue[s] \in Seq(Chunks(s)) /\ taken[s] \in Seq(Chunks(s))

\* A pump never holds more than its stream's credit, which nothing else spends.
PumpsInv == \A s \in Out : allowed[s] <= WINDOW /\ hand[s] <= WINDOW /\ Held(s) <= credit[s]

\* Nothing is outstanding of a descriptor that has not been opened.
Unopened == \A s \in Readable \ opened : s \notin streams /\ pump[s] = "none" /\ OutTotal(s) = 0
OutInv == Unopened /\ \A s \in Out : OutTotal(s) <= WINDOW
InInv == \A s \in In : InTotal(s) <= WINDOW

Bounds == LanesInv /\ QueuesInv /\ PumpsInv /\ OutInv /\ InInv

\* The inductive invariant.
WindowInv == TypeOK /\ Bounds

LEMMA WindowInvImplies == WindowInv => WithinWindow
BY DEF WindowInv, Bounds, OutInv, InInv, OutTotal, InTotal, WithinWindow

-----------------------------------------------------------------------------
(* Queues and what they carry.                                             *)

LEMMA LaneTypes ==
    /\ Fitting \subseteq Document /\ ControlLane \subseteq Fitting /\ DataLane \subseteq Fitting
    /\ \A s : Chunks(s) \subseteq Fitting
    /\ \A d \in Fitting : \A type, s : Carries(d, type, s) \in Nat
    /\ \A d \in ControlLane : \A s : Carries(d, "data", s) = 0
    /\ \A d \in DataLane : \A s : Carries(d, "credit", s) = 0
    /\ \A d \in Fitting : d.stream \in Streams /\ d.bytes \in Nat /\ d.bytes <= WINDOW
BY DEF Fitting, Document, ControlLane, DataLane, Chunks, Carries

\* A document that has no bytes.
LEMMA Weightless ==
    ASSUME NEW s \in Streams,
           NEW type \in {"end", "closed", "open", "signal", "signal-ack", "exit-status"}
    PROVE  /\ About(type, s) \in ControlLane /\ About(type, s) \in DataLane
           /\ About(type, s) \in Fitting
           /\ \A t, x : Carries(About(type, s), t, x) = 0
BY SessionAssumption DEF About, Fitting, Document, Types, ControlLane, DataLane, Carries

LEMMA ChunkWeight ==
    ASSUME NEW s \in Streams, NEW from \in Nat, NEW n \in Nat, n <= WINDOW
    PROVE  /\ Data(s, from, n) \in DataLane /\ Data(s, from, n) \in Fitting
           /\ \A x : Carries(Data(s, from, n), "data", x) = IF x = s THEN n ELSE 0
           /\ \A x : Carries(Data(s, from, n), "credit", x) = 0
BY DEF Data, Fitting, Document, Types, DataLane, Carries

LEMMA GrantWeight ==
    ASSUME NEW s \in Streams, NEW n \in Nat, n <= WINDOW
    PROVE  /\ Credit(s, n) \in ControlLane /\ Credit(s, n) \in Fitting
           /\ \A x : Carries(Credit(s, n), "credit", x) = IF x = s THEN n ELSE 0
           /\ \A x : Carries(Credit(s, n), "data", x) = 0
BY DEF Credit, Fitting, Document, Types, ControlLane, Carries

LEMMA Appending ==
    ASSUME NEW S, S \subseteq Fitting, NEW q \in Seq(S), NEW d \in S
    PROVE  /\ Append(q, d) \in Seq(S)
           /\ \A type, s : /\ Bytes(q, type, s) \in Nat /\ Carries(d, type, s) \in Nat
                           /\ Bytes(Append(q, d), type, s) = Bytes(q, type, s) + Carries(d, type, s)
<1>1. q \in Seq(Document) /\ d \in Fitting
  BY LaneTypes
<1>2. Append(q, d) \in Seq(S)
  OBVIOUS
<1>. QED
  BY <1>1, <1>2, BytesOfAppend, PositionsFinite, LaneTypes

LEMMA Popping ==
    ASSUME NEW S, S \subseteq Fitting, NEW q \in Seq(S), q # <<>>
    PROVE  /\ Tail(q) \in Seq(S) /\ Head(q) \in S /\ Head(q) \in Fitting
           /\ \A type, s :
                /\ Carries(Head(q), type, s) \in Nat /\ Bytes(Tail(q), type, s) \in Nat
                /\ Bytes(q, type, s) = Carries(Head(q), type, s) + Bytes(Tail(q), type, s)
<1>1. Tail(q) \in Seq(S) /\ Head(q) \in S
  OBVIOUS
<1>2. q \in Seq(Fitting) /\ Tail(q) \in Seq(Document)
  BY <1>1, LaneTypes
<1>. QED
  BY <1>1, <1>2, BytesOfTail, PositionsFinite, LaneTypes

LEMMA Singleton ==
    ASSUME NEW S, S \subseteq Fitting, NEW d \in S
    PROVE  /\ <<d>> \in Seq(S)
           /\ \A type, s : Bytes(<<d>>, type, s) = Carries(d, type, s)
<1> DEFINE none == <<>>
<1>1. none \in Seq(S) /\ Append(none, d) = <<d>> /\ <<d>> \in Seq(S)
  OBVIOUS
<1>2. \A type, s : /\ Carries(d, type, s) \in Nat
                   /\ Bytes(Append(none, d), type, s) = Bytes(none, type, s) + Carries(d, type, s)
  <2>1. none \in Seq(Document) /\ d \in Fitting
    OBVIOUS
  <2> HIDE DEF none
  <2>. QED
    BY <2>1, BytesOfAppend, LaneTypes
<1>3. \A type, s : Bytes(none, type, s) = 0
  BY BytesOfEmpty
<1> HIDE DEF none
<1>. QED
  BY <1>1, <1>2, <1>3

LEMMA QueueBytes ==
    ASSUME NEW S, S \subseteq Fitting, NEW q \in Seq(S), NEW type, NEW s
    PROVE  Bytes(q, type, s) \in Nat
<1>1. q \in Seq(Document)
  BY LaneTypes
<1>. QED
  BY <1>1, PositionsFinite

\* Every part of a total is a number.
OutNaturalAt(s) ==
    /\ credit[s] \in Nat /\ allowed[s] \in Nat /\ hand[s] \in Nat /\ dbuffer[s] \in Nat
    /\ Held(s) \in Nat /\ Due(s) \in Nat /\ OutTotal(s) \in Nat
    /\ Bytes(data, "data", s) \in Nat /\ Bytes(frame, "data", s) \in Nat
    /\ Bytes(up, "data", s) \in Nat /\ Bytes(down, "credit", s) \in Nat

InNaturalAt(s) ==
    /\ dcredit[s] \in Nat /\ consumed[s] \in Nat /\ InTotal(s) \in Nat
    /\ Bytes(down, "data", s) \in Nat /\ Bytes(queue[s], "data", s) \in Nat
    /\ Bytes(taken[s], "data", s) \in Nat /\ Bytes(control, "credit", s) \in Nat
    /\ Bytes(frame, "credit", s) \in Nat /\ Bytes(up, "credit", s) \in Nat

OutNatural == \A s \in Out : OutNaturalAt(s)
InNatural == \A s \in In : InNaturalAt(s)

LEMMA OutNumbers == TypeOK /\ LanesInv => OutNatural
<1> SUFFICES ASSUME TypeOK, LanesInv PROVE OutNatural
  OBVIOUS
<1> SUFFICES ASSUME NEW s \in Out
             PROVE  OutNaturalAt(s)
  BY DEF OutNatural
<1>1. credit[s] \in Nat /\ allowed[s] \in Nat /\ hand[s] \in Nat /\ dbuffer[s] \in Nat
  BY DEF TypeOK, CreditsOK, PumpsOK, DaemonOK
<1>2. Held(s) \in Nat /\ Due(s) \in Nat
  BY <1>1 DEF Held, Due
<1>3. /\ Bytes(data, "data", s) \in Nat /\ Bytes(frame, "data", s) \in Nat
      /\ Bytes(up, "data", s) \in Nat /\ Bytes(down, "credit", s) \in Nat
  BY QueueBytes, LaneTypes DEF LanesInv
<1>. QED
  BY <1>1, <1>2, <1>3 DEF OutNaturalAt, OutTotal, OutData, OutGrants

LEMMA InNumbers == TypeOK /\ LanesInv /\ QueuesInv => InNatural
<1> SUFFICES ASSUME TypeOK, LanesInv, QueuesInv PROVE InNatural
  OBVIOUS
<1> SUFFICES ASSUME NEW s \in In
             PROVE  InNaturalAt(s)
  BY DEF InNatural
<1>1. dcredit[s] \in Nat /\ consumed[s] \in Nat
  BY DEF TypeOK, DrainsOK, DaemonOK
<1>2. queue[s] \in Seq(Chunks(s)) /\ taken[s] \in Seq(Chunks(s))
  BY DEF QueuesInv
<1>3. /\ Bytes(down, "data", s) \in Nat /\ Bytes(queue[s], "data", s) \in Nat
      /\ Bytes(taken[s], "data", s) \in Nat /\ Bytes(control, "credit", s) \in Nat
      /\ Bytes(frame, "credit", s) \in Nat /\ Bytes(up, "credit", s) \in Nat
  BY <1>2, QueueBytes, LaneTypes DEF LanesInv
<1>. QED
  BY <1>1, <1>3 DEF InNaturalAt, InTotal, InData, InGrants

LEMMA OutNumbersNext == TypeOK' /\ LanesInv' => OutNatural'
BY OutNumbers, PTL

LEMMA InNumbersNext == TypeOK' /\ LanesInv' /\ QueuesInv' => InNatural'
BY InNumbers, PTL

-----------------------------------------------------------------------------
(* The initial states, and what a step that leaves a part alone keeps.     *)

LEMMA WindowInit == Init => WindowInv
<1> SUFFICES ASSUME Init PROVE WindowInv
  OBVIOUS
<1> USE SessionAssumption
<1>1. TypeOK
  BY TypeInit
<1>2. LanesInv
  <2>1. <<>> \in Seq(ControlLane) /\ <<>> \in Seq(DataLane) /\ <<>> \in Seq(Fitting)
    OBVIOUS
  <2>2. <<About("end", Stdin)>> \in Seq(DataLane)
    BY Weightless, Singleton, LaneTypes, StreamTypes
  <2>. QED
    BY <2>1, <2>2 DEF Init, LanesInv
<1>3. QueuesInv
  <2>1. \A s \in In : queue[s] = <<>> /\ taken[s] = <<>>
    BY DEF Init
  <2>2. \A s : <<>> \in Seq(Chunks(s))
    OBVIOUS
  <2>. QED
    BY <2>1, <2>2 DEF QueuesInv
<1>4. PumpsInv
  BY DEF Init, PumpsInv, Held
<1>5. \A s \in Out : /\ Bytes(data, "data", s) = 0 /\ Bytes(frame, "data", s) = 0
                     /\ Bytes(up, "data", s) = 0 /\ Bytes(down, "credit", s) = 0
  <2>1. \A s : Bytes(<<About("end", Stdin)>>, "data", s) = 0
    BY Weightless, Singleton, LaneTypes, StreamTypes
  <2>. QED
    BY <2>1, BytesOfEmpty DEF Init
<1>6. OutInv
  <2>1. \A s \in Out : Due(s) = IF s = Stdin THEN WINDOW ELSE 0
    BY DEF Init, Due, Held
  <2>2. \A s \in Out : OutTotal(s) = IF s = Stdin THEN WINDOW ELSE 0
    BY <1>5, <2>1 DEF Init, OutTotal, OutData, OutGrants
  <2>3. \A s \in Readable : s \in Out /\ s # Stdin
    BY StreamTypes
  <2>4. Unopened
    BY <2>2, <2>3 DEF Init, Unopened
  <2>. QED
    BY <2>2, <2>4 DEF OutInv
<1>7. InInv
  <2>1. \A s \in In : /\ control = <<>> /\ frame = <<>> /\ up = <<>> /\ down = <<>>
                      /\ queue[s] = <<>> /\ taken[s] = <<>> /\ consumed[s] = 0 /\ dcredit[s] = WINDOW
    BY DEF Init
  <2>. QED
    BY <2>1, BytesOfEmpty DEF InInv, InTotal, InData, InGrants
<1>. QED
  BY <1>1, <1>2, <1>3, <1>4, <1>6, <1>7 DEF WindowInv, Bounds

LEMMA Undisturbed ==
    /\ LanesInv /\ UNCHANGED <<control, data, frame, up, down>> => LanesInv'
    /\ QueuesInv /\ UNCHANGED <<queue, taken>> => QueuesInv'
    /\ PumpsInv /\ UNCHANGED <<pump, allowed, hand, credit>> => PumpsInv'
    /\ OutInv /\ UNCHANGED <<streams, credit, pump, allowed, hand, data, frame, up, down, dbuffer, opened>>
         => OutInv'
    /\ InInv /\ UNCHANGED <<control, frame, up, down, queue, taken, consumed, dcredit>> => InInv'
BY DEF LanesInv, QueuesInv, PumpsInv, OutInv, Unopened, OutTotal, OutData, OutGrants, Due, Held,
       InInv, InTotal, InData, InGrants

\* When no total grows, and no stream is opened, the window holds.
LEMMA OutShrinks ==
    ASSUME WindowInv, TypeOK', LanesInv', UNCHANGED opened, streams' \subseteq streams,
           \A s \in Readable \ opened : pump'[s] = pump[s],
           \A s \in Out : OutTotal(s)' <= OutTotal(s)
    PROVE  OutInv'
<1>1. \A s \in Out : OutTotal(s) \in Nat /\ OutTotal(s)' \in Nat
  <2>1. \A s \in Out : OutTotal(s) \in Nat
    BY OutNumbers DEF WindowInv, Bounds, OutNatural, OutNaturalAt
  <2>2. \A s \in Out : OutTotal(s)' \in Nat
    BY OutNumbersNext DEF OutNatural, OutNaturalAt
  <2>. QED
    BY <2>1, <2>2
<1>2. \A s \in Out : OutTotal(s)' <= WINDOW
  BY <1>1, SessionAssumption DEF WindowInv, Bounds, OutInv
<1>3. \A s \in Readable \ opened : OutTotal(s)' = 0
  BY <1>1, StreamTypes DEF WindowInv, Bounds, OutInv, Unopened
<1>. QED
  BY <1>2, <1>3 DEF WindowInv, Bounds, OutInv, Unopened

LEMMA InShrinks ==
    ASSUME WindowInv, TypeOK', LanesInv', QueuesInv', \A s \in In : InTotal(s)' <= InTotal(s)
    PROVE  InInv'
<1>1. \A s \in In : InTotal(s) \in Nat /\ InTotal(s)' \in Nat
  <2>1. \A s \in In : InTotal(s) \in Nat
    BY InNumbers DEF WindowInv, Bounds, InNatural, InNaturalAt
  <2>2. \A s \in In : InTotal(s)' \in Nat
    BY InNumbersNext DEF InNatural, InNaturalAt
  <2>. QED
    BY <2>1, <2>2
<1>. QED
  BY <1>1, SessionAssumption DEF WindowInv, Bounds, InInv

-----------------------------------------------------------------------------
(* What each end of a queue does to the bytes in it.                       *)

LEMMA Received ==
    ASSUME WindowInv, NEW type, Receives(type)
    PROVE  /\ Head(down) \in Fitting /\ Head(down).type = type /\ down' \in Seq(Fitting)
           /\ UNCHANGED <<frame, up, dcredit, dbuffer>>
           /\ \A t, s : /\ Carries(Head(down), t, s) \in Nat /\ Bytes(down', t, s) \in Nat
                        /\ Bytes(down, t, s) = Carries(Head(down), t, s) + Bytes(down', t, s)
<1>1. /\ down \in Seq(Fitting) /\ down # <<>> /\ down' = Tail(down) /\ Head(down).type = type
      /\ UNCHANGED <<frame, up, dcredit, dbuffer>>
  BY DEF WindowInv, Bounds, LanesInv, Receives, writerVars, daemonVars, daemonIn, daemonOut
<1>2. /\ Tail(down) \in Seq(Fitting) /\ Head(down) \in Fitting
      /\ \A t, s : /\ Carries(Head(down), t, s) \in Nat /\ Bytes(Tail(down), t, s) \in Nat
                   /\ Bytes(down, t, s) = Carries(Head(down), t, s) + Bytes(Tail(down), t, s)
  BY <1>1, Popping
<1>. QED
  BY <1>1, <1>2

LEMMA Sent ==
    ASSUME WindowInv, NEW d \in Fitting, DaemonSends(d)
    PROVE  /\ down' \in Seq(Fitting)
           /\ UNCHANGED <<control, data, frame, up, queue, taken, consumed,
                          streams, credit, pump, allowed, hand, opened>>
           /\ \A t, s : /\ Carries(d, t, s) \in Nat /\ Bytes(down, t, s) \in Nat
                        /\ Bytes(down', t, s) = Bytes(down, t, s) + Carries(d, t, s)
<1>1. /\ down \in Seq(Fitting) /\ down' = Append(down, d)
      /\ UNCHANGED <<control, data, frame, up, queue, taken, consumed,
                     streams, credit, pump, allowed, hand, opened>>
  BY DEF WindowInv, Bounds, LanesInv, DaemonSends, launcherVars, outboxVars, writerVars, creditVars,
         pumpVars, inletVars, drainVars, readerVars
<1>2. /\ Append(down, d) \in Seq(Fitting)
      /\ \A t, s : /\ Bytes(down, t, s) \in Nat /\ Carries(d, t, s) \in Nat
                   /\ Bytes(Append(down, d), t, s) = Bytes(down, t, s) + Carries(d, t, s)
  BY <1>1, Appending
<1>. QED
  BY <1>1, <1>2

LEMMA Queued ==
    ASSUME WindowInv, NEW d \in ControlLane, Send(d)
    PROVE  /\ control' \in Seq(ControlLane) /\ UNCHANGED data
           /\ \A t, s : /\ Carries(d, t, s) \in Nat /\ Bytes(control, t, s) \in Nat
                        /\ Bytes(control', t, s) \in Nat
                        /\ Bytes(control', t, s) <= Bytes(control, t, s) + Carries(d, t, s)
<1>1. /\ control \in Seq(ControlLane) /\ UNCHANGED data
      /\ control' = control \/ control' = Append(control, d)
  BY DEF WindowInv, Bounds, LanesInv, Send
<1>2. /\ Append(control, d) \in Seq(ControlLane)
      /\ \A t, s : /\ Bytes(control, t, s) \in Nat /\ Carries(d, t, s) \in Nat
                   /\ Bytes(Append(control, d), t, s) = Bytes(control, t, s) + Carries(d, t, s)
  BY <1>1, Appending, LaneTypes
<1>3. CASE control' = control
  BY <1>1, <1>2, <1>3
<1>4. CASE control' = Append(control, d)
  <2> SUFFICES ASSUME NEW t, NEW s
               PROVE  /\ control' \in Seq(ControlLane) /\ UNCHANGED data
                      /\ Bytes(control', t, s) \in Nat
                      /\ Bytes(control', t, s) <= Bytes(control, t, s) + Carries(d, t, s)
    BY <1>1, <1>2
  <2>1. /\ Bytes(control, t, s) \in Nat /\ Carries(d, t, s) \in Nat
        /\ Bytes(control', t, s) = Bytes(control, t, s) + Carries(d, t, s)
    BY <1>2, <1>4
  <2>. QED
    BY <1>1, <1>2, <1>4, <2>1
<1>. QED
  BY <1>1, <1>3, <1>4

LEMMA QueuedData ==
    ASSUME WindowInv, NEW d \in DataLane, SendData(d)
    PROVE  /\ data' \in Seq(DataLane) /\ UNCHANGED control
           /\ \A t, s : /\ Carries(d, t, s) \in Nat /\ Bytes(data, t, s) \in Nat
                        /\ Bytes(data', t, s) \in Nat
                        /\ Bytes(data', t, s) <= Bytes(data, t, s) + Carries(d, t, s)
<1>1. /\ data \in Seq(DataLane) /\ UNCHANGED control
      /\ data' = data \/ data' = Append(data, d)
  BY DEF WindowInv, Bounds, LanesInv, SendData
<1>2. /\ Append(data, d) \in Seq(DataLane)
      /\ \A t, s : /\ Bytes(data, t, s) \in Nat /\ Carries(d, t, s) \in Nat
                   /\ Bytes(Append(data, d), t, s) = Bytes(data, t, s) + Carries(d, t, s)
  BY <1>1, Appending, LaneTypes
<1>3. CASE data' = data
  BY <1>1, <1>2, <1>3
<1>4. CASE data' = Append(data, d)
  <2> SUFFICES ASSUME NEW t, NEW s
               PROVE  /\ data' \in Seq(DataLane) /\ UNCHANGED control
                      /\ Bytes(data', t, s) \in Nat
                      /\ Bytes(data', t, s) <= Bytes(data, t, s) + Carries(d, t, s)
    BY <1>1, <1>2
  <2>1. /\ Bytes(data, t, s) \in Nat /\ Carries(d, t, s) \in Nat
        /\ Bytes(data', t, s) = Bytes(data, t, s) + Carries(d, t, s)
    BY <1>2, <1>4
  <2>. QED
    BY <1>1, <1>2, <1>4, <2>1
<1>. QED
  BY <1>1, <1>3, <1>4

LEMMA FrameEmptied ==
    /\ <<>> \in Seq(Fitting)
    /\ \A t, s : Bytes(<<>>, t, s) = 0
BY BytesOfEmpty

LEMMA Numbers == WindowInv => OutNatural /\ InNatural
BY OutNumbers, InNumbers DEF WindowInv, Bounds

-----------------------------------------------------------------------------
(* Each action.                                                            *)

LEMMA WriterPopsStep == WindowInv /\ TypeOK' /\ WriterPops => Bounds'
<1> SUFFICES ASSUME WindowInv, TypeOK', WriterPops PROVE Bounds'
  OBVIOUS
<1>0. /\ frame = <<>> /\ OutNatural /\ InNatural /\ LanesInv
      /\ UNCHANGED <<up, down, streams, credit, pump, allowed, hand, dbuffer, opened, queue, taken,
                     consumed, dcredit>>
  BY Numbers DEF WindowInv, Bounds, WriterPops, creditVars, pumpVars, inletVars, drainVars,
     readerVars,
                 wireVars, daemonVars, daemonIn, daemonOut
<1>1. CASE control # <<>> /\ frame' = <<Head(control)>> /\ control' = Tail(control) /\ UNCHANGED data
  <2> DEFINE d == Head(control)
  <2>1. /\ d \in ControlLane /\ control' \in Seq(ControlLane) /\ frame' \in Seq(Fitting)
        /\ \A t, x : /\ Carries(d, t, x) \in Nat /\ Bytes(control', t, x) \in Nat
                     /\ Bytes(control, t, x) = Carries(d, t, x) + Bytes(control', t, x)
                     /\ Bytes(frame', t, x) = Carries(d, t, x) /\ Bytes(frame, t, x) = 0
        /\ \A x : Carries(d, "data", x) = 0
    <3>1. control \in Seq(ControlLane) /\ ControlLane \subseteq Fitting
      BY <1>0, LaneTypes DEF LanesInv
    <3>2. /\ d \in ControlLane /\ d \in Fitting /\ Tail(control) \in Seq(ControlLane)
          /\ \A t, x : /\ Carries(d, t, x) \in Nat /\ Bytes(Tail(control), t, x) \in Nat
                       /\ Bytes(control, t, x) = Carries(d, t, x) + Bytes(Tail(control), t, x)
      BY <1>1, <3>1, Popping
    <3> HIDE DEF d
    <3>3. <<d>> \in Seq(Fitting) /\ \A t, x : Bytes(<<d>>, t, x) = Carries(d, t, x)
      BY <3>2, Singleton
    <3>. QED
      BY <1>0, <1>1, <3>2, <3>3, LaneTypes, FrameEmptied DEF d
  <2> HIDE DEF d
  <2>2. LanesInv'
    BY <1>0, <1>1, <2>1 DEF LanesInv
  <2>3. OutInv'
    <3>1. ASSUME NEW x \in Out PROVE OutTotal(x)' <= OutTotal(x)
      <4>1. Due(x)' <= Due(x) /\ Due(x)' \in Nat /\ OutNaturalAt(x)
        <5>1. OutNaturalAt(x) /\ Due(x) \in Nat
          BY <1>0 DEF OutNatural, OutNaturalAt
        <5>. QED
          BY <5>1, <1>0 DEF Due, Held
      <4>2. /\ UNCHANGED data /\ Bytes(frame', "data", x) = 0 /\ Bytes(frame, "data", x) = 0
        BY <1>1, <2>1
      <4>. QED
        BY <1>0, <4>1, <4>2 DEF OutNaturalAt, OutTotal, OutData, OutGrants
    <3>. QED
      BY <1>0, <2>2, <3>1, OutShrinks
  <2>4. QueuesInv' /\ PumpsInv'
    BY <1>0, Undisturbed DEF WindowInv, Bounds
  <2>5. InInv'
    <3>1. ASSUME NEW x \in In PROVE InTotal(x)' <= InTotal(x)
      <4>1. InNaturalAt(x) /\ UNCHANGED <<dcredit[x], consumed[x], queue[x], taken[x]>>
        BY <1>0 DEF InNatural
      <4>2. /\ Carries(d, "credit", x) \in Nat /\ Bytes(control', "credit", x) \in Nat
            /\ Bytes(control, "credit", x) = Carries(d, "credit", x) + Bytes(control', "credit", x)
            /\ Bytes(frame', "credit", x) = Carries(d, "credit", x) /\ Bytes(frame, "credit", x) = 0
        BY <2>1
      <4>. QED
        BY <1>0, <4>1, <4>2 DEF InNaturalAt, InTotal, InData, InGrants
    <3>. QED
      BY <2>2, <2>4, <3>1, InShrinks
  <2>. QED
    BY <2>2, <2>3, <2>4, <2>5 DEF Bounds
<1>2. CASE data # <<>> /\ frame' = <<Head(data)>> /\ data' = Tail(data) /\ UNCHANGED control
  <2> DEFINE d == Head(data)
  <2>1. /\ d \in DataLane /\ data' \in Seq(DataLane) /\ frame' \in Seq(Fitting)
        /\ \A t, x : /\ Carries(d, t, x) \in Nat /\ Bytes(data', t, x) \in Nat
                     /\ Bytes(data, t, x) = Carries(d, t, x) + Bytes(data', t, x)
                     /\ Bytes(frame', t, x) = Carries(d, t, x) /\ Bytes(frame, t, x) = 0
        /\ \A x : Carries(d, "credit", x) = 0
    <3>1. data \in Seq(DataLane) /\ DataLane \subseteq Fitting
      BY <1>0, LaneTypes DEF LanesInv
    <3>2. /\ d \in DataLane /\ d \in Fitting /\ Tail(data) \in Seq(DataLane)
          /\ \A t, x : /\ Carries(d, t, x) \in Nat /\ Bytes(Tail(data), t, x) \in Nat
                       /\ Bytes(data, t, x) = Carries(d, t, x) + Bytes(Tail(data), t, x)
      BY <1>2, <3>1, Popping
    <3> HIDE DEF d
    <3>3. <<d>> \in Seq(Fitting) /\ \A t, x : Bytes(<<d>>, t, x) = Carries(d, t, x)
      BY <3>2, Singleton
    <3>. QED
      BY <1>0, <1>2, <3>2, <3>3, LaneTypes, FrameEmptied DEF d
  <2> HIDE DEF d
  <2>2. LanesInv'
    BY <1>0, <1>2, <2>1 DEF LanesInv
  <2>3. OutInv'
    <3>1. ASSUME NEW x \in Out PROVE OutTotal(x)' <= OutTotal(x)
      <4>1. Due(x)' <= Due(x) /\ Due(x)' \in Nat /\ OutNaturalAt(x)
        <5>1. OutNaturalAt(x) /\ Due(x) \in Nat
          BY <1>0 DEF OutNatural, OutNaturalAt
        <5>. QED
          BY <5>1, <1>0 DEF Due, Held
      <4>2. /\ Carries(d, "data", x) \in Nat /\ Bytes(data', "data", x) \in Nat
            /\ Bytes(data, "data", x) = Carries(d, "data", x) + Bytes(data', "data", x)
            /\ Bytes(frame', "data", x) = Carries(d, "data", x) /\ Bytes(frame, "data", x) = 0
        BY <2>1
      <4>. QED
        BY <1>0, <4>1, <4>2 DEF OutNaturalAt, OutTotal, OutData, OutGrants
    <3>. QED
      BY <1>0, <2>2, <3>1, OutShrinks
  <2>4. QueuesInv' /\ PumpsInv'
    BY <1>0, Undisturbed DEF WindowInv, Bounds
  <2>5. InInv'
    <3>1. ASSUME NEW x \in In PROVE InTotal(x)' <= InTotal(x)
      <4>1. InNaturalAt(x) /\ UNCHANGED <<dcredit[x], consumed[x], queue[x], taken[x]>>
        BY <1>0 DEF InNatural
      <4>2. /\ UNCHANGED control /\ Bytes(frame', "credit", x) = 0 /\ Bytes(frame, "credit", x) = 0
        BY <1>2, <2>1
      <4>. QED
        BY <1>0, <4>1, <4>2 DEF InNaturalAt, InTotal, InData, InGrants
    <3>. QED
      BY <2>2, <2>4, <3>1, InShrinks
  <2>. QED
    BY <2>2, <2>3, <2>4, <2>5 DEF Bounds
<1>. QED
  BY <1>1, <1>2 DEF WriterPops

LEMMA WriterWritesStep == WindowInv /\ TypeOK' /\ WriterWrites => Bounds'
<1> SUFFICES ASSUME WindowInv, TypeOK', WriterWrites PROVE Bounds'
  OBVIOUS
<1>0. /\ OutNatural /\ InNatural /\ LanesInv
      /\ UNCHANGED <<control, data, down, streams, credit, pump, allowed, hand, dbuffer, opened,
                     queue, taken, consumed, dcredit>>
  BY Numbers DEF WindowInv, Bounds, WriterWrites, outboxVars, creditVars, pumpVars, inletVars,
     drainVars,
                 readerVars, daemonVars, daemonIn, daemonOut
<1> DEFINE d == Head(frame)
<1>9. frame # <<>> /\ up' = Append(up, d) /\ frame' = <<>>
  BY DEF WriterWrites
<1>1. /\ d \in Fitting
      /\ \A t, x : /\ Carries(d, t, x) \in Nat /\ Bytes(Tail(frame), t, x) \in Nat
                   /\ Bytes(frame, t, x) = Carries(d, t, x) + Bytes(Tail(frame), t, x)
  BY <1>0, <1>9, Popping DEF LanesInv
<1> HIDE DEF d
<1>2. /\ up' \in Seq(Fitting) /\ frame' \in Seq(Fitting)
      /\ \A t, x : Bytes(up', t, x) = Bytes(up, t, x) + Carries(d, t, x) /\ Bytes(frame', t, x) = 0
  <2>1. up \in Seq(Fitting) /\ up' = Append(up, d)
    BY <1>0, <1>9 DEF LanesInv
  <2>2. /\ Append(up, d) \in Seq(Fitting)
        /\ \A t, x : Bytes(Append(up, d), t, x) = Bytes(up, t, x) + Carries(d, t, x)
    BY <1>1, <2>1, Appending
  <2>. QED
    BY <1>9, <2>1, <2>2, FrameEmptied
<1>3. LanesInv'
  BY <1>0, <1>2 DEF LanesInv
<1>4. OutInv'
  <2>1. ASSUME NEW x \in Out PROVE OutTotal(x)' <= OutTotal(x)
    <3>1. Due(x)' <= Due(x) /\ Due(x)' \in Nat /\ OutNaturalAt(x)
      <4>1. OutNaturalAt(x) /\ Due(x) \in Nat
        BY <1>0 DEF OutNatural, OutNaturalAt
      <4>. QED
        BY <4>1, <1>0 DEF Due, Held
    <3>2. /\ Carries(d, "data", x) \in Nat /\ Bytes(Tail(frame), "data", x) \in Nat
         /\ Bytes(frame, "data", x) = Carries(d, "data", x) + Bytes(Tail(frame), "data", x)
         /\ Bytes(up', "data", x) = Bytes(up, "data", x) + Carries(d, "data", x)
         /\ Bytes(frame', "data", x) = 0
      BY <1>1, <1>2
    <3>. QED
      BY <1>0, <3>1, <3>2 DEF OutNaturalAt, OutTotal, OutData, OutGrants
  <2>. QED
    BY <1>0, <1>3, <2>1, OutShrinks
<1>5. QueuesInv' /\ PumpsInv'
  BY <1>0, Undisturbed DEF WindowInv, Bounds
<1>6. InInv'
  <2>1. ASSUME NEW x \in In PROVE InTotal(x)' <= InTotal(x)
    <3>1. InNaturalAt(x) /\ UNCHANGED <<dcredit[x], consumed[x], queue[x], taken[x]>>
      BY <1>0 DEF InNatural
    <3>2. /\ Carries(d, "credit", x) \in Nat /\ Bytes(Tail(frame), "credit", x) \in Nat
         /\ Bytes(frame, "credit", x) = Carries(d, "credit", x) + Bytes(Tail(frame), "credit", x)
         /\ Bytes(up', "credit", x) = Bytes(up, "credit", x) + Carries(d, "credit", x)
         /\ Bytes(frame', "credit", x) = 0
      BY <1>1, <1>2
    <3>. QED
      BY <1>0, <3>1, <3>2 DEF InNaturalAt, InTotal, InData, InGrants
  <2>. QED
    BY <1>3, <1>5, <2>1, InShrinks
<1>. QED
  BY <1>3, <1>4, <1>5, <1>6 DEF Bounds

\* What is in the frame when a write fails, and in the socket when it is cut, is lost.
LEMMA WriterFailsStep == WindowInv /\ TypeOK' /\ WriterFails => Bounds'
<1> SUFFICES ASSUME WindowInv, TypeOK', WriterFails PROVE Bounds'
  OBVIOUS
<1>0. /\ OutNatural /\ InNatural /\ LanesInv
      /\ UNCHANGED <<control, data, up, down, streams, credit, pump, allowed, hand, dbuffer, opened,
                     queue, taken, consumed, dcredit>>
  BY Numbers DEF WindowInv, Bounds, WriterFails, outboxVars, writerVars, creditVars, pumpVars,
                 inletVars, drainVars, readerVars, wireVars, daemonVars, daemonIn, daemonOut
<1>1. frame' \in Seq(Fitting) /\ \A t, x : Bytes(frame', t, x) = 0
  BY FrameEmptied DEF WriterFails
<1>2. LanesInv'
  BY <1>0, <1>1 DEF LanesInv
<1>3. OutInv'
  <2>1. ASSUME NEW x \in Out PROVE OutTotal(x)' <= OutTotal(x)
    <3>1. Due(x)' <= Due(x) /\ Due(x)' \in Nat /\ OutNaturalAt(x)
      <4>1. OutNaturalAt(x) /\ Due(x) \in Nat
        BY <1>0 DEF OutNatural, OutNaturalAt
      <4>. QED
        BY <4>1, <1>0 DEF Due, Held
    <3>2. Bytes(frame', "data", x) = 0
      BY <1>1
    <3>. QED
      BY <1>0, <3>1, <3>2 DEF OutNaturalAt, OutTotal, OutData, OutGrants
  <2>. QED
    BY <1>0, <1>2, <2>1, OutShrinks
<1>4. QueuesInv' /\ PumpsInv'
  BY <1>0, Undisturbed DEF WindowInv, Bounds
<1>5. InInv'
  <2>1. ASSUME NEW x \in In PROVE InTotal(x)' <= InTotal(x)
    <3>1. InNaturalAt(x) /\ UNCHANGED <<dcredit[x], consumed[x], queue[x], taken[x]>>
      BY <1>0 DEF InNatural
    <3>2. Bytes(frame', "credit", x) = 0
      BY <1>1
    <3>. QED
      BY <1>0, <3>1, <3>2 DEF InNaturalAt, InTotal, InData, InGrants
  <2>. QED
    BY <1>2, <1>4, <2>1, InShrinks
<1>. QED
  BY <1>2, <1>3, <1>4, <1>5 DEF Bounds

LEMMA DisconnectStep == WindowInv /\ TypeOK' /\ Disconnect => Bounds'
<1> SUFFICES ASSUME WindowInv, TypeOK', Disconnect PROVE Bounds'
  OBVIOUS
<1>0. /\ OutNatural /\ InNatural /\ LanesInv
      /\ UNCHANGED <<control, data, frame, down, streams, credit, pump, allowed, hand, dbuffer,
                     opened, queue, taken, consumed, dcredit>>
  BY Numbers DEF WindowInv, Bounds, Disconnect, outboxVars, writerVars, creditVars, pumpVars,
                 inletVars, drainVars, readerVars, wireVars, daemonVars, daemonIn, daemonOut
<1>1. up' \in Seq(Fitting) /\ \A t, x : Bytes(up', t, x) = 0
  BY FrameEmptied DEF Disconnect
<1>2. LanesInv'
  BY <1>0, <1>1 DEF LanesInv
<1>3. OutInv'
  <2>1. ASSUME NEW x \in Out PROVE OutTotal(x)' <= OutTotal(x)
    <3>1. Due(x)' <= Due(x) /\ Due(x)' \in Nat /\ OutNaturalAt(x)
      <4>1. OutNaturalAt(x) /\ Due(x) \in Nat
        BY <1>0 DEF OutNatural, OutNaturalAt
      <4>. QED
        BY <4>1, <1>0 DEF Due, Held
    <3>2. Bytes(up', "data", x) = 0
      BY <1>1
    <3>. QED
      BY <1>0, <3>1, <3>2 DEF OutNaturalAt, OutTotal, OutData, OutGrants
  <2>. QED
    BY <1>0, <1>2, <2>1, OutShrinks
<1>4. QueuesInv' /\ PumpsInv'
  BY <1>0, Undisturbed DEF WindowInv, Bounds
<1>5. InInv'
  <2>1. ASSUME NEW x \in In PROVE InTotal(x)' <= InTotal(x)
    <3>1. InNaturalAt(x) /\ UNCHANGED <<dcredit[x], consumed[x], queue[x], taken[x]>>
      BY <1>0 DEF InNatural
    <3>2. Bytes(up', "credit", x) = 0
      BY <1>1
    <3>. QED
      BY <1>0, <3>1, <3>2 DEF InNaturalAt, InTotal, InData, InGrants
  <2>. QED
    BY <1>2, <1>4, <2>1, InShrinks
<1>. QED
  BY <1>2, <1>3, <1>4, <1>5 DEF Bounds

-----------------------------------------------------------------------------
LEMMA PumpKeeps ==
    ASSUME WindowInv, TypeOK', NEW s \in Out,
           PumpAllowance(s) \/ PumpReads(s) \/ PumpFinishes(s)
    PROVE  Bounds'
<1>0. /\ OutNatural /\ InNatural /\ LanesInv
      /\ UNCHANGED <<control, data, frame, up, down, streams, credit, dbuffer, opened,
                     queue, taken, consumed, dcredit>>
  BY Numbers DEF WindowInv, Bounds, PumpAllowance, PumpReads, PumpFinishes, outboxVars, writerVars,
                 creditVars, inletVars, drainVars, readerVars, wireVars, daemonVars, daemonIn, daemonOut
<1>1. LanesInv' /\ QueuesInv' /\ InInv'
  BY <1>0, Undisturbed DEF WindowInv, Bounds
<1>2. /\ \A x \in Out \ {s} : UNCHANGED <<pump[x], allowed[x], hand[x]>>
      /\ pump[s] # "none"
      /\ pump'[s] \notin {"read", "send"} \/ s \in streams \/ Held(s)' <= Held(s)
      /\ Held(s)' <= credit[s] /\ allowed'[s] <= WINDOW /\ hand'[s] <= WINDOW
  <2>0. /\ credit[s] \in Nat /\ allowed[s] \in Nat /\ hand[s] \in Nat /\ input[s] \in Nat
        /\ allowed[s] <= WINDOW /\ hand[s] <= WINDOW /\ Held(s) <= credit[s]
        /\ WINDOW \in Nat /\ MAXIMUM_CHUNK \in Nat /\ MAXIMUM_CHUNK <= WINDOW
    BY SessionAssumption DEF WindowInv, Bounds, PumpsInv, TypeOK, CreditsOK, PumpsOK
  <2>1. /\ pump \in [Out -> {"none", "allowance", "read", "send", "exhausted", "end", "done"}]
        /\ allowed \in [Out -> Nat] /\ hand \in [Out -> Nat]
    BY DEF WindowInv, TypeOK, PumpsOK
  <2>2. CASE PumpAllowance(s)
    <3>1. CASE Active(s) /\ allowed' = [allowed EXCEPT ![s] = Least(credit[s], MAXIMUM_CHUNK)]
               /\ pump' = [pump EXCEPT ![s] = "read"]
      BY <2>0, <2>1, <2>2, <3>1, LeastTypes DEF PumpAllowance, Active, Held
    <3>2. CASE pump' = [pump EXCEPT ![s] = "exhausted"] /\ UNCHANGED allowed
      BY <2>0, <2>1, <2>2, <3>2 DEF PumpAllowance, Held
    <3>. QED
      BY <2>2, <3>1, <3>2 DEF PumpAllowance
  <2>3. CASE PumpReads(s)
    <3>1. \/ \E n \in 1..Least(allowed[s], input[s]) :
                  hand' = [hand EXCEPT ![s] = n] /\ pump' = [pump EXCEPT ![s] = "send"]
          \/ pump' = [pump EXCEPT ![s] = "exhausted"] /\ UNCHANGED hand
      BY <2>3 DEF PumpReads
    <3>2. \A n \in 1..Least(allowed[s], input[s]) : n \in Nat /\ n <= allowed[s]
      BY <2>0 DEF Least
    <3>3. pump[s] = "read" /\ UNCHANGED allowed /\ Held(s) = allowed[s]
      BY <2>3 DEF PumpReads, Held
    <3>. QED
      BY <2>0, <2>1, <3>1, <3>2, <3>3 DEF Held
  <2>4. CASE PumpFinishes(s)
    BY <2>0, <2>1, <2>4 DEF PumpFinishes, Held
  <2>. QED
    BY <2>2, <2>3, <2>4
<1>3. PumpsInv'
  BY <1>0, <1>2 DEF WindowInv, Bounds, PumpsInv, Held
<1>4. OutInv'
  <2>1. ASSUME NEW x \in Out PROVE OutTotal(x)' <= OutTotal(x)
    <3>1. OutNaturalAt(x) /\ Due(x)' <= Due(x) /\ Due(x)' \in Nat
      <4>1. OutNaturalAt(x) /\ OutNaturalAt(x)'
        BY <1>0, <1>1, OutNumbersNext DEF OutNatural
      <4>2. CASE x = s
        BY <1>0, <1>2, <4>1, <4>2 DEF Due, Held, OutNaturalAt
      <4>3. CASE x # s
        BY <1>0, <1>2, <4>1, <4>3 DEF Due, Held, OutNaturalAt
      <4>. QED
        BY <4>2, <4>3, <4>1
    <3>. QED
      BY <1>0, <3>1 DEF OutNaturalAt, OutTotal, OutData, OutGrants
  <2>2. \A x \in Readable \ opened : pump'[x] = pump[x]
    BY <1>2, StreamTypes DEF WindowInv, Bounds, OutInv, Unopened
  <2>. QED
    BY <1>0, <1>1, <2>1, <2>2, OutShrinks
<1>. QED
  BY <1>1, <1>3, <1>4 DEF Bounds

LEMMA PumpSendsStep ==
    ASSUME WindowInv, TypeOK', NEW s \in Out, PumpSends(s)
    PROVE  Bounds'
<1>0. /\ OutNatural /\ InNatural /\ LanesInv
      /\ UNCHANGED <<frame, up, down, streams, allowed, dbuffer, opened,
                     queue, taken, consumed, dcredit>>
  BY Numbers DEF WindowInv, Bounds, PumpSends, Spend, writerVars, inletVars, drainVars, readerVars,
                 wireVars, daemonVars, daemonIn, daemonOut
<1> DEFINE n == hand[s]
           d == Data(s, carried[s], n)
<1>1. n \in Nat /\ n <= WINDOW /\ n <= credit[s] /\ Held(s) = n /\ pump[s] = "send"
  BY SessionAssumption DEF WindowInv, Bounds, PumpsInv, PumpSends, Held, TypeOK, PumpsOK
<1>2. d \in DataLane /\ \A x : Carries(d, "data", x) = IF x = s THEN n ELSE 0
  BY <1>1, ChunkWeight, StreamTypes DEF WindowInv, TypeOK, PumpsOK
<1>3. SendData(d)
  BY DEF PumpSends
<1> HIDE DEF d
<1>4. /\ data' \in Seq(DataLane) /\ UNCHANGED control
      /\ \A x : /\ Bytes(data, "data", x) \in Nat /\ Bytes(data', "data", x) \in Nat
                /\ Bytes(data', "data", x) <= Bytes(data, "data", x) + (IF x = s THEN n ELSE 0)
  BY <1>2, <1>3, QueuedData
<1>5. /\ \A x \in Out \ {s} : UNCHANGED <<pump[x], hand[x], credit[x]>>
      /\ pump'[s] = "allowance" /\ hand'[s] = 0
      /\ credit'[s] = IF s \in streams THEN credit[s] - n ELSE credit[s]
  <2>1. /\ pump \in [Out -> {"none", "allowance", "read", "send", "exhausted", "end", "done"}]
        /\ hand \in [Out -> Nat] /\ credit \in [Out -> Nat]
    BY DEF WindowInv, TypeOK, PumpsOK, CreditsOK
  <2>2. /\ pump' = [pump EXCEPT ![s] = "allowance"] /\ hand' = [hand EXCEPT ![s] = 0]
        /\ credit' = IF s \in streams THEN [credit EXCEPT ![s] = IF @ < n THEN 0 ELSE @ - n]
                                      ELSE credit
    BY DEF PumpSends, Spend
  <2>. QED
    BY <1>1, <2>1, <2>2
<1>6. LanesInv'
  BY <1>0, <1>4 DEF LanesInv
<1>7. PumpsInv'
  <2>1. \A x \in Out : credit'[x] \in Nat
    BY DEF TypeOK, CreditsOK
  <2>. QED
    BY <1>0, <1>5, <2>1, SessionAssumption DEF WindowInv, Bounds, PumpsInv, Held
<1>8. OutInv'
  <2>1. ASSUME NEW x \in Out PROVE OutTotal(x)' <= OutTotal(x)
    <3>1. OutNaturalAt(x) /\ OutNaturalAt(x)'
      BY <1>0, <1>6, OutNumbersNext DEF OutNatural
    <3>2. Due(x)' + (IF x = s THEN n ELSE 0) <= Due(x)
      <4>1. CASE x = s
        BY <1>0, <1>1, <1>5, <3>1, <4>1 DEF Due, Held, OutNaturalAt
      <4>2. CASE x # s
        BY <1>0, <1>5, <3>1, <4>2 DEF Due, Held, OutNaturalAt
      <4>. QED
        BY <4>1, <4>2
    <3>3. (IF x = s THEN n ELSE 0) \in Nat
      BY <1>1
    <3>4. Bytes(data', "data", x) <= Bytes(data, "data", x) + (IF x = s THEN n ELSE 0)
      BY <1>4
    <3> DEFINE m == IF x = s THEN n ELSE 0
    <3> HIDE DEF m
    <3>. QED
      BY <1>0, <3>1, <3>2, <3>3, <3>4 DEF OutNaturalAt, OutTotal, OutData, OutGrants, m
  <2>2. \A x \in Readable \ opened : pump'[x] = pump[x]
    BY <1>1, <1>5, StreamTypes DEF WindowInv, Bounds, OutInv, Unopened
  <2>. QED
    BY <1>0, <1>6, <2>1, <2>2, OutShrinks
<1>9. QueuesInv' /\ InInv'
  BY <1>0, <1>4, Undisturbed DEF WindowInv, Bounds
<1>. QED
  BY <1>6, <1>7, <1>8, <1>9 DEF Bounds

LEMMA PumpEndsStep ==
    ASSUME WindowInv, TypeOK', NEW s \in Out, PumpEnds(s)
    PROVE  Bounds'
<1>0. /\ OutNatural /\ InNatural /\ LanesInv
      /\ UNCHANGED <<frame, up, down, streams, credit, allowed, hand, dbuffer, opened,
                     queue, taken, consumed, dcredit>>
  BY Numbers DEF WindowInv, Bounds, PumpEnds, writerVars, creditVars, inletVars, drainVars,
                 readerVars, wireVars, daemonVars, daemonIn, daemonOut
<1>1. /\ data' \in Seq(DataLane) /\ UNCHANGED control
      /\ \A x : /\ Bytes(data, "data", x) \in Nat /\ Bytes(data', "data", x) \in Nat
                /\ Bytes(data', "data", x) <= Bytes(data, "data", x)
  <2> DEFINE d == About("end", s)
  <2>1. d \in DataLane /\ SendData(d) /\ \A x : Carries(d, "data", x) = 0
    BY Weightless, StreamTypes DEF PumpEnds
  <2> HIDE DEF d
  <2>2. \A x : /\ Bytes(data, "data", x) \in Nat /\ Bytes(data', "data", x) \in Nat
               /\ Bytes(data', "data", x) <= Bytes(data, "data", x) + Carries(d, "data", x)
    BY <2>1, QueuedData
  <2>3. \A x : Bytes(data', "data", x) <= Bytes(data, "data", x)
    BY <2>1, <2>2
  <2>. QED
    BY <2>1, <2>2, <2>3, QueuedData
<1>2. LanesInv'
  BY <1>0, <1>1 DEF LanesInv
<1>3. \A x \in Out : Held(x)' = Held(x) /\ (pump[x] = "none" => pump'[x] = "none")
  BY <1>0 DEF WindowInv, TypeOK, PumpsOK, PumpEnds, Held
<1>4. PumpsInv'
  BY <1>0, <1>3 DEF WindowInv, Bounds, PumpsInv
<1>5. OutInv'
  <2>1. ASSUME NEW x \in Out PROVE OutTotal(x)' <= OutTotal(x)
    <3>1. OutNaturalAt(x) /\ Due(x)' = Due(x)
      BY <1>0, <1>3 DEF OutNatural, Due
    <3>2. Bytes(data', "data", x) <= Bytes(data, "data", x) /\ Bytes(data', "data", x) \in Nat
      BY <1>1
    <3>. QED
      BY <1>0, <3>1, <3>2 DEF OutNaturalAt, OutTotal, OutData, OutGrants
  <2>2. \A x \in Readable \ opened : pump'[x] = pump[x]
    BY <1>3, StreamTypes DEF WindowInv, Bounds, OutInv, Unopened
  <2>. QED
    BY <1>0, <1>2, <2>1, <2>2, OutShrinks
<1>6. QueuesInv' /\ InInv'
  BY <1>0, <1>1, Undisturbed DEF WindowInv, Bounds
<1>. QED
  BY <1>2, <1>4, <1>5, <1>6 DEF Bounds

-----------------------------------------------------------------------------
LEMMA DrainTakesStep ==
    ASSUME WindowInv, TypeOK', NEW s \in In, DrainTakes(s)
    PROVE  Bounds'
<1>0. /\ OutNatural /\ InNatural /\ LanesInv
      /\ UNCHANGED <<control, data, frame, up, down, streams, credit, pump, allowed, hand, dbuffer,
                     opened, consumed, dcredit>>
  BY Numbers DEF WindowInv, Bounds, DrainTakes, outboxVars, writerVars, creditVars, pumpVars,
                 readerVars, wireVars, daemonVars, daemonIn, daemonOut
<1>1. LanesInv' /\ PumpsInv' /\ OutInv'
  BY <1>0, Undisturbed DEF WindowInv, Bounds
<1>2. CASE UNCHANGED <<taken, queue>>
  BY <1>0, <1>1, <1>2, Undisturbed DEF WindowInv, Bounds
<1>3. CASE /\ queue[s] # <<>>
           /\ taken' = [taken EXCEPT ![s] = <<Head(queue[s])>>]
           /\ queue' = [queue EXCEPT ![s] = Tail(@)]
  <2> DEFINE d == Head(queue[s])
             rest == Tail(queue[s])
             one == <<d>>
  <2>1. /\ rest \in Seq(Chunks(s)) /\ d \in Chunks(s)
        /\ Bytes(rest, "data", s) \in Nat /\ Carries(d, "data", s) \in Nat
        /\ Bytes(queue[s], "data", s) = Carries(d, "data", s) + Bytes(rest, "data", s)
    <3>1. queue[s] \in Seq(Chunks(s)) /\ Chunks(s) \subseteq Fitting
      BY LaneTypes DEF WindowInv, Bounds, QueuesInv
    <3>. QED
      BY <1>3, <3>1, Popping
  <2>2. one \in Seq(Chunks(s)) /\ Bytes(one, "data", s) = Carries(d, "data", s)
    <3>1. Chunks(s) \subseteq Fitting
      BY LaneTypes
    <3> HIDE DEF d
    <3>. QED
      BY <2>1, <3>1, Singleton
  <2> HIDE DEF d, rest, one
  <2>3. /\ \A x \in In \ {s} : UNCHANGED <<queue[x], taken[x]>>
        /\ queue'[s] = rest /\ taken'[s] = one
    BY <1>3 DEF WindowInv, TypeOK, InletsOK, DrainsOK, rest, one, d
  <2>4. QueuesInv'
    BY <2>1, <2>2, <2>3 DEF WindowInv, Bounds, QueuesInv
  <2>5. ASSUME NEW x \in In PROVE InTotal(x)' <= InTotal(x)
    <3>1. InNaturalAt(x) /\ UNCHANGED <<dcredit[x], consumed[x]>>
      BY <1>0 DEF InNatural
    <3>2. CASE x = s
      <4>1. /\ Bytes(queue'[x], "data", x) + Bytes(taken'[x], "data", x) = Bytes(queue[x], "data", x)
            /\ Bytes(queue'[x], "data", x) \in Nat /\ Bytes(taken'[x], "data", x) \in Nat
        BY <2>1, <2>2, <2>3, <3>2
      <4>. QED
        BY <1>0, <3>1, <4>1 DEF InNaturalAt, InTotal, InData, InGrants
    <3>3. CASE x # s
      <4>1. queue'[x] = queue[x] /\ taken'[x] = taken[x]
        BY <2>3, <3>3
      <4>. QED
        BY <1>0, <3>1, <4>1 DEF InNaturalAt, InTotal, InData, InGrants
    <3>. QED
      BY <3>2, <3>3
  <2>6. InInv'
    BY <1>1, <2>4, <2>5, InShrinks
  <2>. QED
    BY <1>1, <2>4, <2>6 DEF Bounds
<1>. QED
  BY <1>2, <1>3 DEF DrainTakes

\* What every document that carries nothing does to the control lane.
LEMMA QueuedWeightless ==
    ASSUME WindowInv, TypeOK', NEW s \in Streams,
           NEW type \in {"closed", "signal"}, Send(About(type, s)),
           UNCHANGED <<frame, up, down, streams, credit, pump, allowed, hand, dbuffer, opened,
                       queue, taken, consumed, dcredit>>
    PROVE  Bounds'
<1>0. OutNatural /\ InNatural /\ LanesInv
  BY Numbers DEF WindowInv, Bounds
<1>1. /\ control' \in Seq(ControlLane) /\ UNCHANGED data
      /\ \A x : /\ Bytes(control, "credit", x) \in Nat /\ Bytes(control', "credit", x) \in Nat
                /\ Bytes(control', "credit", x) <= Bytes(control, "credit", x)
  <2> DEFINE d == About(type, s)
  <2>1. d \in ControlLane /\ Send(d) /\ \A x : Carries(d, "credit", x) = 0
    BY Weightless
  <2> HIDE DEF d
  <2>2. \A x : /\ Bytes(control, "credit", x) \in Nat /\ Bytes(control', "credit", x) \in Nat
               /\ Bytes(control', "credit", x) <= Bytes(control, "credit", x) + Carries(d, "credit", x)
    BY <2>1, Queued
  <2>3. \A x : Bytes(control', "credit", x) <= Bytes(control, "credit", x)
    BY <2>1, <2>2
  <2>. QED
    BY <2>1, <2>2, <2>3, Queued
<1>2. LanesInv'
  BY <1>0, <1>1 DEF LanesInv
<1>3. QueuesInv' /\ PumpsInv' /\ OutInv'
  BY <1>1, Undisturbed DEF WindowInv, Bounds
<1>4. InInv'
  <2>1. ASSUME NEW x \in In PROVE InTotal(x)' <= InTotal(x)
    <3>1. InNaturalAt(x)
      BY <1>0 DEF InNatural
    <3>2. Bytes(control', "credit", x) <= Bytes(control, "credit", x) /\ Bytes(control', "credit", x) \in Nat
      BY <1>1
    <3>. QED
      BY <3>1, <3>2 DEF InNaturalAt, InTotal, InData, InGrants
  <2>. QED
    BY <1>2, <1>3, <2>1, InShrinks
<1>. QED
  BY <1>2, <1>3, <1>4 DEF Bounds

LEMMA DrainWritesStep ==
    ASSUME WindowInv, TypeOK', NEW s \in In, DrainWrites(s)
    PROVE  Bounds'
<1>0. UNCHANGED <<frame, up, down, streams, credit, pump, allowed, hand, dbuffer, opened,
                  queue, taken, consumed, dcredit>>
  BY DEF DrainWrites, writerVars, creditVars, pumpVars, readerVars, wireVars, daemonVars,
         daemonIn, daemonOut
<1>1. CASE UNCHANGED outboxVars
  BY <1>0, <1>1, Undisturbed DEF WindowInv, Bounds, outboxVars
<1>2. CASE Send(About("closed", s))
  BY <1>0, <1>2, QueuedWeightless, StreamTypes
<1>. QED
  BY <1>1, <1>2 DEF DrainWrites

LEMMA FirstOfOne ==
    ASSUME NEW S, NEW q \in Seq(S), Len(q) = 1
    PROVE  q # <<>> /\ q[1] = Head(q)
OBVIOUS

LEMMA DrainGrantsStep ==
    ASSUME WindowInv, TypeOK', NEW s \in In, DrainGrants(s)
    PROVE  Bounds'
<1>0. /\ OutNatural /\ InNatural /\ LanesInv
      /\ UNCHANGED <<frame, up, down, streams, credit, pump, allowed, hand, dbuffer, opened,
                     queue, dcredit>>
  BY Numbers DEF WindowInv, Bounds, DrainGrants, writerVars, creditVars, pumpVars, inletVars,
                 readerVars, wireVars, daemonVars, daemonIn, daemonOut
<1> DEFINE n == taken[s][1].bytes
           total == consumed[s] + n
           d == Credit(s, total)
<1>1. n \in Nat /\ n <= Bytes(taken[s], "data", s)
  <2>1. taken[s] \in Seq(Chunks(s)) /\ Chunks(s) \subseteq Fitting
    BY LaneTypes DEF WindowInv, Bounds, QueuesInv
  <2>2. taken[s] # <<>> /\ taken[s][1] = Head(taken[s])
    <3>1. Len(taken[s]) = 1
      BY DEF WindowInv, TypeOK, DrainsOK, DrainGrants
    <3>. QED
      BY <2>1, <3>1, FirstOfOne
  <2>3. /\ taken[s][1] \in Chunks(s) /\ Bytes(Tail(taken[s]), "data", s) \in Nat
        /\ Bytes(taken[s], "data", s) = Carries(taken[s][1], "data", s) + Bytes(Tail(taken[s]), "data", s)
    BY <2>1, <2>2, Popping
  <2>4. Carries(taken[s][1], "data", s) = n /\ n \in Nat
    BY <2>1, <2>3, LaneTypes DEF Carries, Chunks
  <2>. QED
    BY <2>3, <2>4
<1>2. total \in Nat /\ total <= WINDOW /\ InNaturalAt(s)
  <2>1. InNaturalAt(s) /\ InTotal(s) <= WINDOW /\ WINDOW \in Nat
    BY <1>0, SessionAssumption DEF InNatural, WindowInv, Bounds, InInv
  <2> HIDE DEF n
  <2>. QED
    BY <1>1, <2>1 DEF InNaturalAt, InTotal, InData, InGrants
<1>3. d \in ControlLane /\ \A x : Carries(d, "credit", x) = IF x = s THEN total ELSE 0
  <2> HIDE DEF total
  <2>. QED
    BY <1>2, GrantWeight, StreamTypes
<1>4. \/ Send(d) /\ consumed' = [consumed EXCEPT ![s] = 0]
      \/ UNCHANGED <<control, data>> /\ consumed' = [consumed EXCEPT ![s] = total]
  BY DEF DrainGrants, outboxVars
<1>5. taken' = [taken EXCEPT ![s] = <<>>]
  BY DEF DrainGrants
<1> HIDE DEF d
<1>6. /\ control' \in Seq(ControlLane) /\ UNCHANGED data
      /\ \A x \in In :
           /\ Bytes(control', "credit", x) \in Nat
           /\ consumed'[x] + Bytes(control', "credit", x)
                <= (IF x = s THEN total ELSE consumed[x]) + Bytes(control, "credit", x)
  <2>1. consumed \in [In -> Nat]
    BY DEF WindowInv, TypeOK, DrainsOK
  <2>2. CASE Send(d) /\ consumed' = [consumed EXCEPT ![s] = 0]
    <3>1. /\ control' \in Seq(ControlLane) /\ UNCHANGED data
          /\ \A x : /\ Bytes(control, "credit", x) \in Nat /\ Bytes(control', "credit", x) \in Nat
                    /\ Bytes(control', "credit", x) <= Bytes(control, "credit", x) + Carries(d, "credit", x)
      BY <1>3, <2>2, Queued
    <3> HIDE DEF total
    <3>2. ASSUME NEW x \in In
          PROVE  /\ Bytes(control', "credit", x) \in Nat
                 /\ consumed'[x] + Bytes(control', "credit", x)
                      <= (IF x = s THEN total ELSE consumed[x]) + Bytes(control, "credit", x)
      <4>1. /\ Bytes(control, "credit", x) \in Nat /\ Bytes(control', "credit", x) \in Nat
            /\ Bytes(control', "credit", x) <= Bytes(control, "credit", x) + (IF x = s THEN total ELSE 0)
        BY <1>3, <3>1
      <4>2. consumed'[x] = IF x = s THEN 0 ELSE consumed[x]
        BY <2>1, <2>2
      <4>. QED
        BY <1>2, <2>1, <4>1, <4>2
    <3>. QED
      BY <3>1, <3>2
  <2>3. CASE UNCHANGED <<control, data>> /\ consumed' = [consumed EXCEPT ![s] = total]
    <3>1. control \in Seq(ControlLane) /\ \A x \in In : Bytes(control, "credit", x) \in Nat
      BY <1>0 DEF LanesInv, InNatural, InNaturalAt
    <3> HIDE DEF total
    <3>2. \A x \in In : consumed'[x] = IF x = s THEN total ELSE consumed[x]
      BY <2>1, <2>3
    <3>. QED
      BY <1>2, <2>1, <2>3, <3>1, <3>2
  <2>. QED
    BY <1>4, <2>2, <2>3
<1>7. LanesInv'
  BY <1>0, <1>6 DEF LanesInv
<1>8. \A x \in In : /\ taken'[x] = IF x = s THEN <<>> ELSE taken[x]
                    /\ taken'[x] \in Seq(Chunks(x))
  BY <1>5 DEF WindowInv, Bounds, QueuesInv, TypeOK, DrainsOK
<1>9. QueuesInv'
  BY <1>0, <1>8 DEF WindowInv, Bounds, QueuesInv
<1>10. InInv'
  <2>1. ASSUME NEW x \in In PROVE InTotal(x)' <= InTotal(x)
    <3>1. InNaturalAt(x) /\ InNaturalAt(x)'
      BY <1>0, <1>7, <1>9, InNumbersNext DEF InNatural
    <3>2. consumed'[x] + Bytes(control', "credit", x)
             <= (IF x = s THEN total ELSE consumed[x]) + Bytes(control, "credit", x)
      BY <1>6
    <3>3. CASE x = s
      <4>1. Bytes(taken'[s], "data", s) = 0
        BY <1>8, BytesOfEmpty
      <4> HIDE DEF n
      <4>. QED
        BY <1>0, <1>1, <3>1, <3>2, <3>3, <4>1 DEF InNaturalAt, InTotal, InData, InGrants
    <3>4. CASE x # s
      <4>1. /\ taken'[x] = taken[x]
            /\ consumed'[x] + Bytes(control', "credit", x) <= consumed[x] + Bytes(control, "credit", x)
        BY <1>8, <3>2, <3>4
      <4>. QED
        BY <1>0, <3>1, <4>1 DEF InNaturalAt, InTotal, InData, InGrants
    <3>. QED
      BY <3>3, <3>4
  <2>. QED
    BY <1>7, <1>9, <2>1, InShrinks
<1>11. PumpsInv' /\ OutInv'
  BY <1>0, <1>6, Undisturbed DEF WindowInv, Bounds
<1>. QED
  BY <1>7, <1>9, <1>10, <1>11 DEF Bounds

-----------------------------------------------------------------------------
(* The reader.  What leaves the socket leaves both totals, unless it is    *)
(* put where they also count it.                                           *)

LEMMA ReadNothing ==
    ASSUME WindowInv, TypeOK', NEW type \in Types \ {"credit"}, Receives(type),
           UNCHANGED <<control, data, credit, pump, allowed, hand, opened, queue, taken, consumed>>,
           streams' \subseteq streams
    PROVE  Bounds'
<1>0. OutNatural /\ InNatural /\ LanesInv /\ PumpsInv
  BY Numbers DEF WindowInv, Bounds
<1> DEFINE d == Head(down)
<1>1. /\ d \in Fitting /\ down' \in Seq(Fitting) /\ UNCHANGED <<frame, up, dcredit, dbuffer>>
      /\ \A t, x : /\ Carries(d, t, x) \in Nat /\ Bytes(down', t, x) \in Nat
                   /\ Bytes(down, t, x) = Carries(d, t, x) + Bytes(down', t, x)
  BY Received
<1> HIDE DEF d
<1>2. LanesInv'
  BY <1>0, <1>1 DEF LanesInv
<1>3. OutInv'
  <2>1. ASSUME NEW x \in Out PROVE OutTotal(x)' <= OutTotal(x)
    <3>1. OutNaturalAt(x) /\ Due(x)' <= Due(x) /\ Due(x)' \in Nat
      <4>1. OutNaturalAt(x) /\ OutNaturalAt(x)'
        BY <1>0, <1>2, OutNumbersNext DEF OutNatural
      <4>2. Held(x)' = Held(x) /\ Held(x) <= credit[x] /\ credit'[x] = credit[x]
        BY <1>0 DEF Held, PumpsInv
      <4>. QED
        BY <4>1, <4>2 DEF Due, OutNaturalAt
    <3>2. /\ Carries(d, "credit", x) \in Nat /\ Bytes(down', "credit", x) \in Nat
          /\ Bytes(down, "credit", x) = Carries(d, "credit", x) + Bytes(down', "credit", x)
          /\ UNCHANGED <<frame, up, dbuffer>>
      BY <1>1
    <3>. QED
      BY <3>1, <3>2 DEF OutNaturalAt, OutTotal, OutData, OutGrants
  <2>. QED
    BY <1>2, <2>1, OutShrinks
<1>4. QueuesInv' /\ PumpsInv'
  BY Undisturbed DEF WindowInv, Bounds
<1>5. InInv'
  <2>1. ASSUME NEW x \in In PROVE InTotal(x)' <= InTotal(x)
    <3>1. InNaturalAt(x)
      BY <1>0 DEF InNatural
    <3>2. /\ Carries(d, "data", x) \in Nat /\ Bytes(down', "data", x) \in Nat
          /\ Bytes(down, "data", x) = Carries(d, "data", x) + Bytes(down', "data", x)
          /\ UNCHANGED <<frame, up, dcredit>>
      BY <1>1
    <3>. QED
      BY <3>1, <3>2 DEF InNaturalAt, InTotal, InData, InGrants
  <2>. QED
    BY <1>2, <1>4, <2>1, InShrinks
<1>. QED
  BY <1>2, <1>3, <1>4, <1>5 DEF Bounds

LEMMA ReadPlainStep ==
    WindowInv /\ TypeOK' /\ (ReadEnd \/ ReadClosed \/ ReadSignalAck \/ ReadExitStatus) => Bounds'
<1> SUFFICES ASSUME WindowInv, TypeOK'
             PROVE  (ReadEnd \/ ReadClosed \/ ReadSignalAck \/ ReadExitStatus) => Bounds'
  OBVIOUS
<1>0. {"end", "closed", "signal-ack", "exit-status"} \subseteq Types \ {"credit"}
  BY DEF Types
<1>1. CASE ReadEnd
  BY <1>0, <1>1, ReadNothing DEF ReadEnd, outboxVars, creditVars, pumpVars, drainVars
<1>2. CASE ReadClosed
  BY <1>0, <1>2, ReadNothing DEF ReadClosed, outboxVars, pumpVars, inletVars, drainVars
<1>3. CASE ReadSignalAck
  BY <1>0, <1>3, ReadNothing DEF ReadSignalAck, outboxVars, creditVars, pumpVars, inletVars,
     drainVars
<1>4. CASE ReadExitStatus
  BY <1>0, <1>4, ReadNothing DEF ReadExitStatus, outboxVars, creditVars, pumpVars, inletVars,
     drainVars
<1>. QED
  BY <1>1, <1>2, <1>3, <1>4

LEMMA ReadDataStep == WindowInv /\ TypeOK' /\ ReadData => Bounds'
<1> SUFFICES ASSUME WindowInv, TypeOK', ReadData PROVE Bounds'
  OBVIOUS
<1> DEFINE d == Head(down)
           s == d.stream
<1>0. /\ OutNatural /\ InNatural /\ LanesInv /\ Receives("data")
      /\ UNCHANGED <<control, data, streams, credit, pump, allowed, hand, opened, taken, consumed>>
      /\ \/ UNCHANGED queue
         \/ s \in inlets /\ queue' = [queue EXCEPT ![s] = Append(@, d)]
  BY Numbers DEF WindowInv, Bounds, ReadData, outboxVars, creditVars, pumpVars, drainVars
<1>1. CASE UNCHANGED queue
  <2>1. "data" \in Types \ {"credit"}
    BY DEF Types
  <2>. QED
    BY <1>0, <1>1, <2>1, ReadNothing
<1>2. CASE s \in inlets /\ queue' = [queue EXCEPT ![s] = Append(@, d)]
  <2>1. /\ d \in Fitting /\ d.type = "data" /\ down' \in Seq(Fitting)
        /\ UNCHANGED <<frame, up, dcredit, dbuffer>>
        /\ \A t, x : /\ Carries(d, t, x) \in Nat /\ Bytes(down', t, x) \in Nat
                     /\ Bytes(down, t, x) = Carries(d, t, x) + Bytes(down', t, x)
    BY <1>0, Received
  <2>2. s \in In /\ d \in Chunks(s) /\ queue[s] \in Seq(Chunks(s))
    BY <1>2, <2>1 DEF WindowInv, Bounds, QueuesInv, TypeOK, InletsOK, Chunks
  <2> DEFINE more == Append(queue[s], d)
  <2> HIDE DEF d
  <2>3. /\ more \in Seq(Chunks(s))
        /\ Bytes(more, "data", s) = Bytes(queue[s], "data", s) + Carries(d, "data", s)
    BY <2>2, Appending, LaneTypes
  <2>4. \A x \in In : queue'[x] = IF x = s THEN more ELSE queue[x]
    BY <1>2, <2>2 DEF WindowInv, TypeOK, InletsOK
  <2> HIDE DEF more
  <2>5. LanesInv'
    BY <1>0, <2>1 DEF LanesInv
  <2>6. QueuesInv'
    BY <1>0, <2>3, <2>4 DEF WindowInv, Bounds, QueuesInv
  <2>7. PumpsInv'
    BY <1>0, Undisturbed DEF WindowInv, Bounds
  <2>8. OutInv'
    <3>1. ASSUME NEW x \in Out PROVE OutTotal(x)' <= OutTotal(x)
      <4>1. OutNaturalAt(x) /\ Due(x)' = Due(x)
        BY <1>0 DEF OutNatural, Due, Held
      <4>2. /\ Carries(d, "credit", x) \in Nat /\ Bytes(down', "credit", x) \in Nat
            /\ Bytes(down, "credit", x) = Carries(d, "credit", x) + Bytes(down', "credit", x)
            /\ UNCHANGED <<frame, up, dbuffer>>
        BY <2>1
      <4>. QED
        BY <1>0, <4>1, <4>2 DEF OutNaturalAt, OutTotal, OutData, OutGrants
    <3>. QED
      BY <1>0, <2>5, <3>1, OutShrinks
  <2>9. InInv'
    <3>1. ASSUME NEW x \in In PROVE InTotal(x)' <= InTotal(x)
      <4>1. InNaturalAt(x)
        BY <1>0 DEF InNatural
      <4>2. /\ Carries(d, "data", x) \in Nat /\ Bytes(down', "data", x) \in Nat
            /\ Bytes(down, "data", x) = Carries(d, "data", x) + Bytes(down', "data", x)
            /\ UNCHANGED <<frame, up, dcredit>>
        BY <2>1
      <4>3. Bytes(queue'[x], "data", x) <= Bytes(queue[x], "data", x) + Carries(d, "data", x)
        <5>1. CASE x = s
          BY <2>2, <2>3, <2>4, <4>1, <4>2, <5>1 DEF InNaturalAt
        <5>2. CASE x # s
          BY <2>4, <4>1, <4>2, <5>2 DEF InNaturalAt
        <5>. QED
          BY <5>1, <5>2
      <4>4. Bytes(queue'[x], "data", x) \in Nat
        BY <2>5, <2>6, InNumbersNext DEF InNatural, InNaturalAt
      <4>5. UNCHANGED <<control, consumed, taken>>
        BY <1>0
      <4>. QED
        BY <4>1, <4>2, <4>3, <4>4, <4>5 DEF InNaturalAt, InTotal, InData, InGrants
    <3>. QED
      BY <2>5, <2>6, <3>1, InShrinks
  <2>. QED
    BY <2>5, <2>6, <2>7, <2>8, <2>9 DEF Bounds
<1>. QED
  BY <1>0, <1>1, <1>2

LEMMA ReadCreditStep == WindowInv /\ TypeOK' /\ ReadCredit => Bounds'
<1> SUFFICES ASSUME WindowInv, TypeOK', ReadCredit PROVE Bounds'
  OBVIOUS
<1> DEFINE d == Head(down)
           s == d.stream
<1>0. /\ OutNatural /\ InNatural /\ LanesInv /\ PumpsInv /\ Receives("credit")
      /\ UNCHANGED <<control, data, streams, pump, allowed, hand, opened, queue, taken, consumed>>
      /\ credit' = IF s \in streams THEN [credit EXCEPT ![s] = @ + d.bytes] ELSE credit
  BY Numbers DEF WindowInv, Bounds, ReadCredit, Grant, outboxVars, pumpVars, inletVars, drainVars
<1>1. /\ d \in Fitting /\ d.type = "credit" /\ down' \in Seq(Fitting)
      /\ UNCHANGED <<frame, up, dcredit, dbuffer>>
      /\ \A t, x : /\ Carries(d, t, x) \in Nat /\ Bytes(down', t, x) \in Nat
                   /\ Bytes(down, t, x) = Carries(d, t, x) + Bytes(down', t, x)
  BY <1>0, Received
<1>2. d.bytes \in Nat
  BY <1>1, LaneTypes
<1>3. \A x \in Out : /\ credit[x] <= credit'[x]
                     /\ credit'[x] <= credit[x] + Carries(d, "credit", x)
  <2>1. credit \in [Out -> Nat] /\ streams \subseteq Out
    BY DEF WindowInv, TypeOK, CreditsOK
  <2>2. \A x : Carries(d, "credit", x) = IF s = x THEN d.bytes ELSE 0
    BY <1>1 DEF Carries
  <2> HIDE DEF d
  <2>3. ASSUME NEW x \in Out
        PROVE  credit[x] <= credit'[x] /\ credit'[x] <= credit[x] + Carries(d, "credit", x)
    BY <1>0, <1>2, <2>1, <2>2
  <2>. QED
    BY <2>3
<1> HIDE DEF d
<1>4. LanesInv'
  BY <1>0, <1>1 DEF LanesInv
<1>5. PumpsInv'
  <2>1. \A x \in Out : Held(x)' = Held(x) /\ Held(x) \in Nat /\ credit[x] \in Nat /\ credit'[x] \in Nat
    BY <1>0, <1>4, OutNumbersNext DEF OutNatural, OutNaturalAt, Held
  <2>. QED
    BY <1>0, <1>3, <2>1 DEF PumpsInv
<1>6. OutInv'
  <2>1. ASSUME NEW x \in Out PROVE OutTotal(x)' <= OutTotal(x)
    <3>1. OutNaturalAt(x) /\ OutNaturalAt(x)'
      BY <1>0, <1>4, OutNumbersNext DEF OutNatural
    <3>2. /\ Carries(d, "credit", x) \in Nat /\ Bytes(down', "credit", x) \in Nat
          /\ Bytes(down, "credit", x) = Carries(d, "credit", x) + Bytes(down', "credit", x)
          /\ UNCHANGED <<frame, up, dbuffer>>
      BY <1>1
    <3>3. Due(x)' <= Due(x) + Carries(d, "credit", x)
      BY <1>0, <1>3, <3>1, <3>2 DEF Due, Held, OutNaturalAt
    <3>. QED
      BY <1>0, <3>1, <3>2, <3>3 DEF OutNaturalAt, OutTotal, OutData, OutGrants
  <2>. QED
    BY <1>0, <1>4, <2>1, OutShrinks
<1>7. QueuesInv'
  BY <1>0, Undisturbed DEF WindowInv, Bounds
<1>8. InInv'
  <2>1. ASSUME NEW x \in In PROVE InTotal(x)' <= InTotal(x)
    <3>1. InNaturalAt(x)
      BY <1>0 DEF InNatural
    <3>2. /\ Carries(d, "data", x) \in Nat /\ Bytes(down', "data", x) \in Nat
          /\ Bytes(down, "data", x) = Carries(d, "data", x) + Bytes(down', "data", x)
          /\ UNCHANGED <<frame, up, dcredit>>
      BY <1>1
    <3>. QED
      BY <1>0, <3>1, <3>2 DEF InNaturalAt, InTotal, InData, InGrants
  <2>. QED
    BY <1>4, <1>7, <2>1, InShrinks
<1>. QED
  BY <1>4, <1>5, <1>6, <1>7, <1>8 DEF Bounds

\* An `open` is the one step that gives out credit: a whole window, to a stream nothing is
\* outstanding of, because a descriptor is opened once.
LEMMA ReadOpenStep == WindowInv /\ TypeOK' /\ ReadOpen => Bounds'
<1> SUFFICES ASSUME WindowInv, TypeOK', ReadOpen PROVE Bounds'
  OBVIOUS
<1> DEFINE d == Head(down)
           fd == d.stream
<1>0. /\ OutNatural /\ InNatural /\ LanesInv /\ QueuesInv /\ PumpsInv /\ OutInv /\ Receives("open")
      /\ UNCHANGED <<control, data, allowed, hand, taken, consumed>>
      /\ \/ Openable(fd) /\ OpensFor(fd)
         \/ UNCHANGED <<opened, streams, credit, pump, inletVars, drain>>
  BY Numbers DEF WindowInv, Bounds, ReadOpen, outboxVars
<1>1. CASE UNCHANGED <<opened, streams, credit, pump, inletVars, drain>>
  <2>1. "open" \in Types \ {"credit"}
    BY DEF Types
  <2>. QED
    BY <1>0, <1>1, <2>1, ReadNothing DEF inletVars
<1>2. CASE Openable(fd) /\ OpensFor(fd)
  <2>1. /\ d \in Fitting /\ down' \in Seq(Fitting) /\ UNCHANGED <<frame, up, dcredit, dbuffer>>
        /\ \A t, x : /\ Carries(d, t, x) \in Nat /\ Bytes(down', t, x) \in Nat
                     /\ Bytes(down, t, x) = Carries(d, t, x) + Bytes(down', t, x)
    BY <1>0, Received
  <2> HIDE DEF d
  <2>2. PICK f : f = fd
    OBVIOUS
  <2>13. f \in Descriptors /\ f \notin opened /\ opened' = opened \cup {f} /\ OpensFor(f)
    BY <1>2, <2>2 DEF Openable, OpensFor
  <2>3. /\ \A x \in Out : x # f \/ x \notin Readable =>
              /\ pump'[x] = pump[x] /\ credit'[x] = credit[x] /\ (x \in streams' <=> x \in streams)
        /\ f \in Readable => pump'[f] = "allowance" /\ credit'[f] = WINDOW /\ f \in streams'
    BY <2>13, StreamTypes DEF OpensFor, WindowInv, TypeOK, PumpsOK, CreditsOK
  <2>4. \A x \in In : queue'[x] = queue[x] \/ queue'[x] = <<>>
    BY <2>13 DEF OpensFor, WindowInv, TypeOK, InletsOK, inletVars
  <2>5. LanesInv'
    BY <1>0, <2>1 DEF LanesInv
  <2>6. QueuesInv'
    <3>1. \A x : <<>> \in Seq(Chunks(x))
      OBVIOUS
    <3>. QED
      BY <1>0, <2>4, <3>1 DEF QueuesInv
  <2>7. PumpsInv'
    <3> SUFFICES ASSUME NEW x \in Out
                 PROVE  allowed'[x] <= WINDOW /\ hand'[x] <= WINDOW /\ Held(x)' <= credit'[x]
      BY DEF PumpsInv
    <3>1. CASE x # f \/ x \notin Readable
      BY <1>0, <2>3, <3>1 DEF PumpsInv, Held
    <3>2. CASE x = f /\ x \in Readable
      BY <1>0, <2>3, <3>2, SessionAssumption DEF PumpsInv, Held
    <3>. QED
      BY <3>1, <3>2
  <2>8. OutNatural /\ OutNatural'
    BY <1>0, <2>5, OutNumbersNext
  <2>9. ASSUME NEW x \in Out, x # f \/ x \notin Readable PROVE OutTotal(x)' <= OutTotal(x)
    <3>1. OutNaturalAt(x) /\ OutNaturalAt(x)'
      BY <2>8 DEF OutNatural
    <3>2. Due(x)' = Due(x)
      BY <1>0, <2>3, <2>9 DEF Due, Held
    <3>3. /\ Carries(d, "credit", x) \in Nat
          /\ Bytes(down, "credit", x) = Carries(d, "credit", x) + Bytes(down', "credit", x)
          /\ UNCHANGED <<frame, up, dbuffer>>
      BY <2>1
    <3>. QED
      BY <1>0, <3>1, <3>2, <3>3 DEF OutNaturalAt, OutTotal, OutData, OutGrants
  <2>10. ASSUME f \in Readable PROVE OutTotal(f)' <= WINDOW
    <3>0. f \in Out
      BY <2>10, StreamTypes
    <3>1. OutNaturalAt(f) /\ OutNaturalAt(f)' /\ OutTotal(f) = 0
      BY <1>0, <2>13, <2>8, <2>10, <3>0 DEF OutNatural, OutInv, Unopened
    <3>2. Due(f)' = WINDOW
      BY <2>3, <2>10 DEF Due
    <3>3. /\ Carries(d, "credit", f) \in Nat
          /\ Bytes(down, "credit", f) = Carries(d, "credit", f) + Bytes(down', "credit", f)
          /\ UNCHANGED <<frame, up, dbuffer>>
      BY <2>1
    <3>. QED
      BY <1>0, <3>1, <3>2, <3>3, SessionAssumption
         DEF OutNaturalAt, OutTotal, OutData, OutGrants
  <2>11. OutInv'
    <3>1. \A x \in Out : OutTotal(x)' <= WINDOW
      <4>1. ASSUME NEW x \in Out PROVE OutTotal(x)' <= WINDOW
        <5>1. OutTotal(x) <= WINDOW /\ OutTotal(x) \in Nat /\ OutTotal(x)' \in Nat /\ WINDOW \in Nat
          BY <1>0, <2>8, SessionAssumption DEF OutInv, OutNatural, OutNaturalAt
        <5>. QED
          BY <2>9, <2>10, <5>1
      <4>. QED
        BY <4>1
    <3>2. ASSUME NEW x \in Readable \ opened'
          PROVE  x \notin streams' /\ pump'[x] = "none" /\ OutTotal(x)' = 0
      <4>1. /\ x \in Out /\ x # f /\ x \in Readable \ opened
            /\ x \notin streams /\ pump[x] = "none" /\ OutTotal(x) = 0
        BY <1>0, <2>13, <3>2, StreamTypes DEF OutInv, Unopened
      <4>2. OutTotal(x)' <= OutTotal(x) /\ OutTotal(x)' \in Nat
        BY <2>8, <2>9, <4>1 DEF OutNatural, OutNaturalAt
      <4>. QED
        BY <2>3, <4>1, <4>2
    <3>. QED
      BY <3>1, <3>2 DEF OutInv, Unopened
  <2>12. InInv'
    <3>1. ASSUME NEW x \in In PROVE InTotal(x)' <= InTotal(x)
      <4>1. InNaturalAt(x)
        BY <1>0 DEF InNatural
      <4>2. /\ Carries(d, "data", x) \in Nat /\ Bytes(down', "data", x) \in Nat
            /\ Bytes(down, "data", x) = Carries(d, "data", x) + Bytes(down', "data", x)
            /\ UNCHANGED <<frame, up, dcredit>>
        BY <2>1
      <4>3. Bytes(queue'[x], "data", x) \in Nat /\ Bytes(queue'[x], "data", x) <= Bytes(queue[x], "data", x)
        BY <2>4, <4>1, BytesOfEmpty DEF InNaturalAt
      <4>. QED
        BY <1>0, <4>1, <4>2, <4>3 DEF InNaturalAt, InTotal, InData, InGrants
    <3>. QED
      BY <2>5, <2>6, <3>1, InShrinks
  <2>. QED
    BY <2>5, <2>6, <2>7, <2>11, <2>12 DEF Bounds
<1>. QED
  BY <1>0, <1>1, <1>2

-----------------------------------------------------------------------------
(* The daemon.                                                             *)

\* What a document adds to the socket, the daemon gives up.
LEMMA DaemonGives ==
    ASSUME WindowInv, TypeOK', NEW d \in Fitting, DaemonSends(d),
           \A x \in Out : dbuffer'[x] + Carries(d, "credit", x) <= dbuffer[x],
           \A x \in In : dcredit'[x] + Carries(d, "data", x) <= dcredit[x]
    PROVE  Bounds'
<1>0. OutNatural /\ InNatural /\ LanesInv
  BY Numbers DEF WindowInv, Bounds
<1>1. /\ down' \in Seq(Fitting)
      /\ UNCHANGED <<control, data, frame, up, queue, taken, consumed,
                     streams, credit, pump, allowed, hand, opened>>
      /\ \A t, s : /\ Carries(d, t, s) \in Nat /\ Bytes(down, t, s) \in Nat
                   /\ Bytes(down', t, s) = Bytes(down, t, s) + Carries(d, t, s)
  BY Sent
<1>2. LanesInv'
  BY <1>0, <1>1 DEF LanesInv
<1>3. QueuesInv' /\ PumpsInv'
  BY <1>1, Undisturbed DEF WindowInv, Bounds
<1>4. OutInv'
  <2>1. ASSUME NEW x \in Out PROVE OutTotal(x)' <= OutTotal(x)
    <3>1. OutNaturalAt(x) /\ OutNaturalAt(x)' /\ Due(x)' = Due(x)
      BY <1>0, <1>1, <1>2, OutNumbersNext DEF OutNatural, Due, Held
    <3>2. /\ Bytes(down', "credit", x) = Bytes(down, "credit", x) + Carries(d, "credit", x)
          /\ Carries(d, "credit", x) \in Nat /\ dbuffer'[x] + Carries(d, "credit", x) <= dbuffer[x]
      BY <1>1
    <3>3. UNCHANGED <<data, frame, up>>
      BY <1>1
    <3>. QED
      BY <3>1, <3>2, <3>3 DEF OutNaturalAt, OutTotal, OutData, OutGrants
  <2>. QED
    BY <1>1, <1>2, <2>1, OutShrinks
<1>5. InInv'
  <2>1. ASSUME NEW x \in In PROVE InTotal(x)' <= InTotal(x)
    <3>1. InNaturalAt(x) /\ InNaturalAt(x)'
      BY <1>0, <1>2, <1>3, InNumbersNext DEF InNatural
    <3>2. /\ Bytes(down', "data", x) = Bytes(down, "data", x) + Carries(d, "data", x)
          /\ Carries(d, "data", x) \in Nat /\ dcredit'[x] + Carries(d, "data", x) <= dcredit[x]
      BY <1>1
    <3>3. UNCHANGED <<control, frame, up, queue, taken, consumed>>
      BY <1>1
    <3>. QED
      BY <3>1, <3>2, <3>3 DEF InNaturalAt, InTotal, InData, InGrants
  <2>. QED
    BY <1>2, <1>3, <2>1, InShrinks
<1>. QED
  BY <1>2, <1>3, <1>4, <1>5 DEF Bounds

LEMMA DaemonWritesStep ==
    ASSUME WindowInv, TypeOK', NEW s \in In, DaemonWrites(s)
    PROVE  Bounds'
<1>1. PICK n \in 1..Least(dcredit[s], MAXIMUM_CHUNK) :
         /\ DaemonSends(Data(s, dwritten[s], n))
         /\ dcredit' = [dcredit EXCEPT ![s] = @ - n]
  BY DEF DaemonWrites
<1>2. /\ dcredit \in [In -> Nat] /\ dwritten[s] \in Nat /\ MAXIMUM_CHUNK \in Nat
      /\ MAXIMUM_CHUNK <= WINDOW /\ WINDOW \in Nat
  BY SessionAssumption DEF WindowInv, TypeOK, DaemonOK
<1>3. n \in Nat /\ n <= WINDOW /\ n <= dcredit[s]
  BY <1>1, <1>2 DEF Least
<1> DEFINE d == Data(s, dwritten[s], n)
<1>4. /\ d \in Fitting /\ \A x : Carries(d, "data", x) = IF x = s THEN n ELSE 0
      /\ \A x : Carries(d, "credit", x) = 0
  BY <1>2, <1>3, ChunkWeight, StreamTypes
<1>5. DaemonSends(d)
  BY <1>1
<1> HIDE DEF d
<1>6. \A x \in In : dcredit'[x] + Carries(d, "data", x) <= dcredit[x]
  <2> SUFFICES ASSUME NEW x \in In PROVE dcredit'[x] + Carries(d, "data", x) <= dcredit[x]
    OBVIOUS
  <2>1. CASE x = s
    BY <1>1, <1>2, <1>3, <1>4, <2>1
  <2>2. CASE x # s
    BY <1>1, <1>2, <1>4, <2>2
  <2>. QED
    BY <2>1, <2>2
<1>7. \A x \in Out : dbuffer'[x] + Carries(d, "credit", x) <= dbuffer[x]
  BY <1>4 DEF WindowInv, TypeOK, DaemonOK, DaemonWrites, daemonIn
<1>. QED
  BY <1>4, <1>5, <1>6, <1>7, DaemonGives

LEMMA DaemonGrantsStep ==
    ASSUME WindowInv, TypeOK', NEW s \in Out, DaemonGrants(s)
    PROVE  Bounds'
<1>1. PICK n \in 1..dbuffer[s] :
         /\ DaemonSends(Credit(s, n))
         /\ dbuffer' = [dbuffer EXCEPT ![s] = @ - n]
  BY DEF DaemonGrants
<1>2. dbuffer \in [Out -> Nat] /\ dcredit \in [In -> Nat]
  BY DEF WindowInv, TypeOK, DaemonOK
<1>3. dbuffer[s] <= WINDOW
  <2>1. OutNaturalAt(s) /\ OutTotal(s) <= WINDOW /\ WINDOW \in Nat
    BY Numbers, SessionAssumption DEF OutNatural, WindowInv, Bounds, OutInv
  <2>. QED
    BY <2>1 DEF OutNaturalAt, OutTotal, OutData, OutGrants
<1>4. n \in Nat /\ n <= WINDOW /\ n <= dbuffer[s]
  BY <1>1, <1>2, <1>3, SessionAssumption
<1> DEFINE d == Credit(s, n)
<1>5. /\ d \in Fitting /\ \A x : Carries(d, "credit", x) = IF x = s THEN n ELSE 0
      /\ \A x : Carries(d, "data", x) = 0
  BY <1>4, GrantWeight, StreamTypes
<1>6. DaemonSends(d)
  BY <1>1
<1> HIDE DEF d
<1>7. \A x \in Out : dbuffer'[x] + Carries(d, "credit", x) <= dbuffer[x]
  <2> SUFFICES ASSUME NEW x \in Out PROVE dbuffer'[x] + Carries(d, "credit", x) <= dbuffer[x]
    OBVIOUS
  <2>1. CASE x = s
    BY <1>1, <1>2, <1>4, <1>5, <2>1
  <2>2. CASE x # s
    BY <1>1, <1>2, <1>5, <2>2
  <2>. QED
    BY <2>1, <2>2
<1>8. \A x \in In : dcredit'[x] + Carries(d, "data", x) <= dcredit[x]
  BY <1>2, <1>5 DEF DaemonGrants, daemonOut
<1>. QED
  BY <1>5, <1>6, <1>7, <1>8, DaemonGives

LEMMA DaemonPlainStep ==
    ASSUME WindowInv, TypeOK', NEW s \in Streams,
           NEW type \in {"end", "closed", "open", "signal-ack", "exit-status"},
           DaemonSends(About(type, s)), UNCHANGED dcredit,
           \A x \in Out : dbuffer'[x] <= dbuffer[x]
    PROVE  Bounds'
<1> DEFINE d == About(type, s)
<1>1. d \in Fitting /\ DaemonSends(d) /\ \A t, x : Carries(d, t, x) = 0
  BY Weightless
<1> HIDE DEF d
<1>2. /\ \A x \in Out : dbuffer[x] \in Nat /\ dbuffer'[x] \in Nat
      /\ \A x \in In : dcredit[x] \in Nat
  BY DEF WindowInv, TypeOK, DaemonOK
<1>. QED
  BY <1>1, <1>2, DaemonGives

LEMMA DaemonReadsStep == WindowInv /\ TypeOK' /\ DaemonReads => Bounds'
<1> SUFFICES ASSUME WindowInv, TypeOK', DaemonReads PROVE Bounds'
  OBVIOUS
<1>0. /\ OutNatural /\ InNatural /\ LanesInv
      /\ UNCHANGED <<control, data, frame, down, streams, credit, pump, allowed, hand, opened,
                     queue, taken, consumed>>
  BY Numbers DEF WindowInv, Bounds, DaemonReads, launcherVars, outboxVars, writerVars, creditVars,
                 pumpVars, inletVars, drainVars, readerVars
<1> DEFINE d == Head(up)
<1>1. /\ d \in Fitting /\ up' \in Seq(Fitting)
      /\ \A t, x : /\ Carries(d, t, x) \in Nat /\ Bytes(up', t, x) \in Nat
                   /\ Bytes(up, t, x) = Carries(d, t, x) + Bytes(up', t, x)
  BY <1>0, Popping DEF DaemonReads, LanesInv
<1>2. /\ \/ UNCHANGED dbuffer
         \/ d.type = "data" /\ dbuffer' = [dbuffer EXCEPT ![d.stream] = @ + d.bytes]
      /\ \/ UNCHANGED dcredit
         \/ d.type = "credit" /\ dcredit' = [dcredit EXCEPT ![d.stream] = @ + d.bytes]
  BY DEF DaemonReads
<1> HIDE DEF d
<1>3. d.bytes \in Nat /\ dbuffer \in [Out -> Nat] /\ dcredit \in [In -> Nat]
  BY <1>1, LaneTypes DEF WindowInv, TypeOK, DaemonOK
<1>4. \A x \in Out : dbuffer'[x] <= dbuffer[x] + Carries(d, "data", x)
  BY <1>1, <1>2, <1>3 DEF Carries
<1>5. \A x \in In : dcredit'[x] <= dcredit[x] + Carries(d, "credit", x)
  BY <1>1, <1>2, <1>3 DEF Carries
<1>6. LanesInv'
  BY <1>0, <1>1 DEF LanesInv
<1>7. QueuesInv' /\ PumpsInv'
  BY <1>0, Undisturbed DEF WindowInv, Bounds
<1>8. OutInv'
  <2>1. ASSUME NEW x \in Out PROVE OutTotal(x)' <= OutTotal(x)
    <3>1. OutNaturalAt(x) /\ OutNaturalAt(x)' /\ Due(x)' = Due(x)
      BY <1>0, <1>6, OutNumbersNext DEF OutNatural, Due, Held
    <3>2. /\ Bytes(up, "data", x) = Carries(d, "data", x) + Bytes(up', "data", x)
          /\ Carries(d, "data", x) \in Nat /\ dbuffer'[x] <= dbuffer[x] + Carries(d, "data", x)
      BY <1>1, <1>4
    <3>3. UNCHANGED <<data, frame, down>>
      BY <1>0
    <3>. QED
      BY <3>1, <3>2, <3>3 DEF OutNaturalAt, OutTotal, OutData, OutGrants
  <2>. QED
    BY <1>0, <1>6, <2>1, OutShrinks
<1>9. InInv'
  <2>1. ASSUME NEW x \in In PROVE InTotal(x)' <= InTotal(x)
    <3>1. InNaturalAt(x) /\ InNaturalAt(x)'
      BY <1>0, <1>6, <1>7, InNumbersNext DEF InNatural
    <3>2. /\ Bytes(up, "credit", x) = Carries(d, "credit", x) + Bytes(up', "credit", x)
          /\ Carries(d, "credit", x) \in Nat /\ dcredit'[x] <= dcredit[x] + Carries(d, "credit", x)
      BY <1>1, <1>5
    <3>3. UNCHANGED <<control, frame, down, queue, taken, consumed>>
      BY <1>0
    <3>. QED
      BY <3>1, <3>2, <3>3 DEF InNaturalAt, InTotal, InData, InGrants
  <2>. QED
    BY <1>6, <1>7, <2>1, InShrinks
<1>. QED
  BY <1>6, <1>7, <1>8, <1>9 DEF Bounds

-----------------------------------------------------------------------------
LEMMA WindowStep == WindowInv /\ [Next]_vars => WindowInv'
<1> SUFFICES ASSUME WindowInv, [Next]_vars PROVE WindowInv'
  OBVIOUS
<1>0. TypeOK'
  BY TypeStep DEF WindowInv
<1> SUFFICES Bounds'
  BY <1>0 DEF WindowInv
<1>1. CASE Writer
  <2>1. CASE WriterReturns
    BY <2>1, Undisturbed DEF WindowInv, Bounds, WriterReturns, outboxVars, creditVars, pumpVars,
       inletVars, drainVars, readerVars, wireVars, daemonVars, daemonIn, daemonOut
  <2>. QED
    BY <1>0, <1>1, <2>1, WriterPopsStep, WriterWritesStep, WriterFailsStep DEF Writer
<1>2. ASSUME NEW s \in Out, Pump(s) PROVE Bounds'
  BY <1>0, <1>2, PumpKeeps, PumpSendsStep, PumpEndsStep DEF Pump
<1>3. ASSUME NEW s \in In, Drain(s) PROVE Bounds'
  BY <1>0, <1>3, DrainTakesStep, DrainWritesStep, DrainGrantsStep DEF Drain
<1>4. CASE Reader
  <2>1. CASE ReadFails \/ ReaderClosesCredits \/ ReaderClosesOutbox \/ ReaderReleases
    BY <2>1, Undisturbed DEF WindowInv, Bounds, ReadFails, ReaderClosesCredits, ReaderClosesOutbox,
       ReaderReleases, outboxVars, writerVars, creditVars, pumpVars, inletVars, drainVars, readerVars,
       wireVars, daemonVars, daemonIn, daemonOut
  <2>. QED
    BY <1>0, <1>4, <2>1, ReadDataStep, ReadPlainStep, ReadCreditStep, ReadOpenStep DEF Reader
<1>5. CASE Wait
  BY <1>5, Undisturbed DEF WindowInv, Bounds, Wait, outboxVars, writerVars, creditVars, pumpVars,
     inletVars, drainVars, wireVars, daemonVars, daemonIn, daemonOut
<1>6. CASE Client
  <2>1. CASE Signal
    BY <1>0, <2>1, QueuedWeightless, StreamTypes DEF Signal, writerVars, creditVars, pumpVars,
       inletVars, drainVars, readerVars, wireVars, daemonVars, daemonIn, daemonOut
  <2>2. CASE \E s \in In : DiscardStdout(s) \/ SinkBreaks(s)
    BY <2>2, Undisturbed DEF WindowInv, Bounds, DiscardStdout, SinkBreaks, outboxVars, writerVars,
       creditVars, pumpVars, inletVars, drainVars, readerVars, wireVars, daemonVars, daemonIn, daemonOut
  <2>. QED
    BY <1>0, <1>6, <2>1, <2>2, DisconnectStep DEF Client
<1>7. CASE Daemon
  <2>1. CASE DaemonAcks \/ DaemonExits
    BY <1>0, <2>1, DaemonPlainStep, StreamTypes DEF DaemonAcks, DaemonExits, daemonOut, daemonIn,
       WindowInv, TypeOK, DaemonOK
  <2>2. ASSUME NEW s \in In, DaemonEnds(s) PROVE Bounds'
    BY <1>0, <2>2, DaemonPlainStep, StreamTypes DEF DaemonEnds, daemonIn, WindowInv, TypeOK,
       DaemonOK
  <2>3. ASSUME NEW s \in Out, DaemonCloses(s) PROVE Bounds'
    BY <1>0, <2>3, DaemonPlainStep, StreamTypes DEF DaemonCloses, daemonOut, WindowInv, TypeOK,
       DaemonOK
  <2>4. ASSUME NEW fd \in Descriptors, DaemonOpens(fd) PROVE Bounds'
    BY <1>0, <2>4, DaemonPlainStep, StreamTypes DEF DaemonOpens, daemonOut, daemonIn, WindowInv,
       TypeOK, DaemonOK
  <2>. QED
    BY <1>0, <1>7, <2>1, <2>2, <2>3, <2>4, DaemonReadsStep, DaemonWritesStep, DaemonGrantsStep
       DEF Daemon
<1>8. CASE UNCHANGED vars
  BY <1>8, Undisturbed DEF WindowInv, Bounds, vars, outboxVars, writerVars, creditVars, pumpVars,
     inletVars, drainVars, readerVars, wireVars, daemonVars, daemonIn, daemonOut
<1>. QED
  BY <1>1, <1>2, <1>3, <1>4, <1>5, <1>6, <1>7, <1>8 DEF Next, Terminated

\* Flow control: for every window, chunk size, set of streams and socket buffer, and whatever
\* is opened, closed, discarded or cut off, no receiver ever holds more than a window.
THEOREM NeverBeyondWindow == Spec => []WithinWindow
BY WindowInit, WindowStep, WindowInvImplies, PTL DEF Spec
=============================================================================
