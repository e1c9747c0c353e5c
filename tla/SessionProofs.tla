--------------------------- MODULE SessionProofs ---------------------------
(***************************************************************************)
(* Counting what a queue of documents carries, and the type correctness of *)
(* Session.                                                                *)
(***************************************************************************)
EXTENDS Session, FiniteSetTheorems, FunctionTheorems, SequenceTheorems, TLAPS

-----------------------------------------------------------------------------
(* Counting the bytes in a queue.                                          *)

\* The bytes a document carries of a type and stream.
Carries(d, type, s) == IF d.type = type /\ d.stream = s THEN d.bytes ELSE 0

Positions(q, type, s) ==
    {p \in (DOMAIN q) \X (1..WINDOW) :
        /\ q[p[1]].type = type /\ q[p[1]].stream = s
        /\ p[2] <= q[p[1]].bytes}

\* A document that fits a window.
Fitting == {d \in Document : d.bytes <= WINDOW}

LEMMA DisjointUnion ==
    ASSUME NEW A, NEW B, IsFiniteSet(A), IsFiniteSet(B), A \cap B = {}
    PROVE  Cardinality(A \cup B) = Cardinality(A) + Cardinality(B)
<1>1. Cardinality(A \cup B) = Cardinality(A) + Cardinality(B) - Cardinality(A \cap B)
  BY FS_Union
<1>2. Cardinality(A \cap B) = 0
  BY FS_EmptySet
<1>3. Cardinality(A) \in Nat /\ Cardinality(B) \in Nat
  BY FS_CardinalityType
<1>. QED
  BY <1>1, <1>2, <1>3

LEMMA PositionsFinite ==
    ASSUME NEW q \in Seq(Document), NEW type, NEW s
    PROVE  IsFiniteSet(Positions(q, type, s)) /\ Bytes(q, type, s) \in Nat
<1>1. IsFiniteSet(1..Len(q)) /\ IsFiniteSet(1..WINDOW) /\ DOMAIN q = 1..Len(q)
  BY FS_Interval, SessionAssumption
<1>2. IsFiniteSet((DOMAIN q) \X (1..WINDOW))
  BY <1>1, FS_Product, Zenon
<1>3. Positions(q, type, s) \in SUBSET ((DOMAIN q) \X (1..WINDOW))
  BY DEF Positions
<1>4. IsFiniteSet(Positions(q, type, s))
  BY <1>2, <1>3, FS_Subset
<1>. QED
  BY <1>4, FS_CardinalityType DEF Bytes, Positions

LEMMA BytesOfEmpty ==
    ASSUME NEW type, NEW s
    PROVE  Bytes(<<>>, type, s) = 0
<1>1. {p \in (DOMAIN <<>>) \X (1..WINDOW) :
        /\ <<>>[p[1]].type = type /\ <<>>[p[1]].stream = s
        /\ p[2] <= <<>>[p[1]].bytes} = {}
  OBVIOUS
<1>. QED
  BY <1>1, FS_EmptySet DEF Bytes

\* One document's positions, at any place in the queue, number the bytes it carries.
LEMMA OneDocument ==
    ASSUME NEW d \in Fitting, NEW type, NEW s, NEW i \in Nat
    PROVE  LET S == {p \in {i} \X (1..WINDOW) : d.type = type /\ d.stream = s /\ p[2] <= d.bytes}
           IN  IsFiniteSet(S) /\ Cardinality(S) = Carries(d, type, s)
<1> DEFINE S == {p \in {i} \X (1..WINDOW) : d.type = type /\ d.stream = s /\ p[2] <= d.bytes}
           n == Carries(d, type, s)
           f == [k \in 1..n |-> <<i, k>>]
<1>1. d.bytes \in Nat /\ d.bytes <= WINDOW /\ WINDOW \in Nat
  BY SessionAssumption DEF Fitting, Document
<1>2. n \in Nat /\ n <= WINDOW
  BY <1>1 DEF Carries
<1>3. IsFiniteSet(1..n) /\ Cardinality(1..n) = n
  BY <1>2, FS_Interval
<1>4. S = {<<i, k>> : k \in 1..n}
  BY <1>1, <1>2 DEF Carries
<1>5. f \in Bijection(1..n, S)
  BY <1>4, Fun_IsBij, Zenon
<1>. QED
  BY <1>3, <1>5, FS_Bijection DEF ExistsBijection

LEMMA BytesOfAppend ==
    ASSUME NEW q \in Seq(Document), NEW d \in Fitting, NEW type, NEW s
    PROVE  Bytes(Append(q, d), type, s) = Bytes(q, type, s) + Carries(d, type, s)
<1> DEFINE n == Len(q) + 1
           S == {p \in {n} \X (1..WINDOW) : d.type = type /\ d.stream = s /\ p[2] <= d.bytes}
<1>1. IsFiniteSet(S) /\ Cardinality(S) = Carries(d, type, s)
  <2>1. n \in Nat
    OBVIOUS
  <2> HIDE DEF n
  <2>. QED
    BY <2>1, OneDocument
<1>2. IsFiniteSet(Positions(q, type, s)) /\ Bytes(q, type, s) \in Nat
  BY PositionsFinite
<1>3. Positions(Append(q, d), type, s) = Positions(q, type, s) \cup S
  <2>1. /\ DOMAIN q = 1..Len(q) /\ DOMAIN Append(q, d) = 1..n
        /\ Append(q, d)[n] = d /\ \A i \in 1..Len(q) : Append(q, d)[i] = q[i]
    BY DEF Fitting
  <2>. QED
    BY <2>1 DEF Positions
<1>4. Positions(q, type, s) \cap S = {}
  BY DEF Positions
<1>5. Cardinality(Positions(Append(q, d), type, s)) = Cardinality(Positions(q, type, s)) + Cardinality(S)
  <2> HIDE DEF S
  <2>. QED
    BY <1>1, <1>2, <1>3, <1>4, DisjointUnion
<1>. QED
  BY <1>1, <1>5 DEF Bytes, Positions

LEMMA BytesOfTail ==
    ASSUME NEW q \in Seq(Fitting), q # <<>>, NEW type, NEW s
    PROVE  Bytes(q, type, s) = Carries(Head(q), type, s) + Bytes(Tail(q), type, s)
<1> DEFINE d == Head(q)
           S == {p \in {1} \X (1..WINDOW) : d.type = type /\ d.stream = s /\ p[2] <= d.bytes}
           T == Positions(q, type, s) \ S
           f == [p \in Positions(Tail(q), type, s) |-> <<p[1] + 1, p[2]>>]
<1>0. d \in Fitting /\ Tail(q) \in Seq(Document) /\ q \in Seq(Document)
  BY DEF Fitting
<1>1. IsFiniteSet(S) /\ Cardinality(S) = Carries(d, type, s)
  BY <1>0, OneDocument
<1>2. /\ IsFiniteSet(Positions(q, type, s))
      /\ IsFiniteSet(Positions(Tail(q), type, s)) /\ Bytes(Tail(q), type, s) \in Nat
  BY <1>0, PositionsFinite
<1>3. /\ DOMAIN q = 1..Len(q) /\ q[1] = d /\ Len(q) \in Nat /\ Len(q) >= 1
      /\ DOMAIN Tail(q) = 1..(Len(q) - 1)
      /\ \A i \in 1..(Len(q) - 1) : Tail(q)[i] = q[i + 1]
  OBVIOUS
<1>4. S \subseteq Positions(q, type, s)
  BY <1>3 DEF Positions
<1>5. f \in Bijection(Positions(Tail(q), type, s), T)
  <2>1. f \in [Positions(Tail(q), type, s) -> T]
    BY <1>3 DEF Positions
  <2>2. \A a, b \in Positions(Tail(q), type, s) : f[a] = f[b] => a = b
    <3>1. \A a \in Positions(Tail(q), type, s) : a = <<a[1], a[2]>> /\ a[1] \in Nat
      BY <1>3 DEF Positions
    <3>. QED
      BY <3>1
  <2>3. \A t \in T : \E p \in Positions(Tail(q), type, s) : f[p] = t
    <3> SUFFICES ASSUME NEW t \in T
                 PROVE  \E p \in Positions(Tail(q), type, s) : f[p] = t
      OBVIOUS
    <3>1. t[1] \in 2..Len(q) /\ t[2] \in 1..WINDOW /\ t = <<t[1], t[2]>>
      BY <1>3 DEF Positions
    <3>2. <<t[1] - 1, t[2]>> \in Positions(Tail(q), type, s)
      BY <1>3, <3>1 DEF Positions
    <3>. QED
      BY <3>1, <3>2
  <2>. QED
    BY <2>1, <2>2, <2>3, Fun_IsBij, Zenon
<1>6. Cardinality(T) = Cardinality(Positions(Tail(q), type, s))
  BY <1>2, <1>5, FS_Bijection DEF ExistsBijection
<1>7. Cardinality(Positions(q, type, s)) = Cardinality(T) + Cardinality(S)
  <2> HIDE DEF S
  <2>1. T \in SUBSET Positions(q, type, s) /\ T \cap S = {} /\ T \cup S = Positions(q, type, s)
    BY <1>4
  <2>2. IsFiniteSet(T)
    BY <1>2, <2>1, FS_Subset
  <2> HIDE DEF T
  <2>. QED
    BY <1>1, <2>1, <2>2, DisjointUnion
<1>8. /\ Bytes(q, type, s) = Cardinality(Positions(q, type, s))
      /\ Bytes(Tail(q), type, s) = Cardinality(Positions(Tail(q), type, s))
  BY DEF Bytes, Positions
<1> HIDE DEF S, T, f
<1>9. Carries(d, type, s) \in Nat
  BY <1>0 DEF Carries, Fitting, Document
<1>. QED
  BY <1>1, <1>2, <1>6, <1>7, <1>8, <1>9

-----------------------------------------------------------------------------
(* Type correctness.                                                       *)

LEMMA StreamTypes ==
    /\ Stdin \in Out /\ Out \subseteq Streams /\ In \subseteq Streams /\ Descriptors \subseteq Streams
    /\ Readable \subseteq Out /\ Writable \subseteq In /\ Outputs \subseteq In
BY DEF Out, In, Streams, Descriptors

LEMMA DocumentTypes ==
    ASSUME NEW s \in Streams
    PROVE  /\ \A from, n \in Nat : Data(s, from, n) \in Document
           /\ \A n \in Nat : Credit(s, n) \in Document
           /\ About("end", s) \in Document /\ About("closed", s) \in Document
           /\ About("open", s) \in Document /\ About("signal", s) \in Document
           /\ About("signal-ack", s) \in Document /\ About("exit-status", s) \in Document
BY DEF Data, Credit, About, Document, Types

\* What a queue of documents keeps.
LEMMA QueueTypes ==
    ASSUME NEW q \in Seq(Document)
    PROVE  /\ \A d \in Document : Append(q, d) \in Seq(Document) /\ <<d>> \in Seq(Document)
           /\ q # <<>> => /\ Head(q) \in Document /\ Tail(q) \in Seq(Document)
                          /\ Head(q).stream \in Streams /\ Head(q).bytes \in Nat
           /\ q # <<>> => <<Head(q)>> \in Seq(Document) /\ Len(<<Head(q)>>) = 1
           /\ <<>> \in Seq(Document)
           /\ Len(q) = 1 => q[1] \in Document /\ q[1].stream \in Streams /\ q[1].bytes \in Nat
<1>1. \A d \in Document : d.stream \in Streams /\ d.bytes \in Nat
  BY DEF Document
<1>2. \A d \in Document : Append(q, d) \in Seq(Document) /\ <<d>> \in Seq(Document)
  OBVIOUS
<1>3. q # <<>> => Head(q) \in Document /\ Tail(q) \in Seq(Document)
  OBVIOUS
<1>4. Len(q) = 1 => q[1] \in Document
  OBVIOUS
<1>. QED
  BY <1>1, <1>2, <1>3, <1>4

LEMMA LeastTypes ==
    ASSUME NEW a \in Nat, NEW b \in Nat
    PROVE  /\ Least(a, b) \in Nat /\ Least(a, b) <= a /\ Least(a, b) <= b
           /\ \A n \in 1..Least(a, b) : n \in Nat /\ a - n \in Nat /\ b - n \in Nat
BY DEF Least

LEMMA Stable ==
    /\ OutboxOK /\ UNCHANGED outboxVars => OutboxOK'
    /\ WriterOK /\ UNCHANGED writerVars => WriterOK'
    /\ CreditsOK /\ UNCHANGED creditVars => CreditsOK'
    /\ PumpsOK /\ UNCHANGED pumpVars => PumpsOK'
    /\ InletsOK /\ UNCHANGED inletVars => InletsOK'
    /\ DrainsOK /\ UNCHANGED drainVars => DrainsOK'
    /\ SinksOK /\ UNCHANGED sinkVars => SinksOK'
    /\ ReaderOK /\ UNCHANGED readerVars => ReaderOK'
    /\ WireOK /\ UNCHANGED wireVars => WireOK'
    /\ DaemonOK /\ UNCHANGED daemonVars => DaemonOK'
    /\ SignalsOK /\ UNCHANGED signalVars => SignalsOK'
BY DEF outboxVars, writerVars, creditVars, pumpVars, inletVars, drainVars, sinkVars, readerVars,
   wireVars, daemonVars, signalVars, OutboxOK, WriterOK, CreditsOK, PumpsOK, InletsOK, DrainsOK,
   SinksOK, ReaderOK, WireOK, DaemonOK, SignalsOK, daemonIn, daemonOut

LEMMA TypeInit == Init => TypeOK
<1> SUFFICES ASSUME Init PROVE TypeOK
  OBVIOUS
<1> USE SessionAssumption
<1>1. <<>> \in Seq(Document) /\ <<About("end", Stdin)>> \in Seq(Document)
  BY StreamTypes, DocumentTypes, QueueTypes
<1>2. OutboxOK
  BY <1>1, StreamTypes DEF Init, OutboxOK
<1>3. WriterOK
  BY <1>1, StreamTypes DEF Init, WriterOK
<1>4. CreditsOK
  BY <1>1, StreamTypes DEF Init, CreditsOK
<1>5. PumpsOK
  BY <1>1, StreamTypes DEF Init, PumpsOK
<1>6. InletsOK
  BY <1>1, StreamTypes DEF Init, InletsOK
<1>7. DrainsOK
  BY <1>1, StreamTypes DEF Init, DrainsOK
<1>8. SinksOK
  BY <1>1, StreamTypes DEF Init, SinksOK
<1>9. ReaderOK
  BY <1>1, StreamTypes DEF Init, ReaderOK
<1>10. WireOK
  BY <1>1, StreamTypes DEF Init, WireOK
<1>11. DaemonOK
  BY <1>1, StreamTypes DEF Init, DaemonOK
<1>12. SignalsOK
  BY <1>1, StreamTypes DEF Init, SignalsOK
<1>. QED
  BY <1>2, <1>3, <1>4, <1>5, <1>6, <1>7, <1>8, <1>9, <1>10, <1>11, <1>12 DEF TypeOK

LEMMA TypeStep == TypeOK /\ [Next]_vars => TypeOK'
<1> SUFFICES ASSUME TypeOK, [Next]_vars
             PROVE  TypeOK'
  OBVIOUS
<1> USE SessionAssumption
<1>1. CASE WriterPops
  <2>1. OutboxOK'
    BY <1>1, DocumentTypes, QueueTypes, StreamTypes DEF TypeOK, WriterPops, OutboxOK, outboxVars
  <2>2. WriterOK'
    BY <1>1, DocumentTypes, QueueTypes, StreamTypes DEF TypeOK, WriterPops, WriterOK,
       writerVars, OutboxOK, outboxVars
  <2>. QED
    BY <2>1, <2>2, <1>1, Stable DEF TypeOK, WriterPops, launcherVars, daemonVars
<1>2. CASE WriterReturns
  <2>1. WriterOK'
    BY <1>2, DocumentTypes, QueueTypes, StreamTypes DEF TypeOK, WriterReturns, WriterOK, writerVars
  <2>. QED
    BY <2>1, <1>2, Stable DEF TypeOK, WriterReturns, launcherVars, daemonVars
<1>3. CASE WriterWrites
  <2>1. WriterOK'
    BY <1>3, DocumentTypes, QueueTypes, StreamTypes DEF TypeOK, WriterWrites, WriterOK, writerVars
  <2>2. WireOK'
    BY <1>3, DocumentTypes, QueueTypes, StreamTypes DEF TypeOK, WriterWrites, WireOK, wireVars,
       WriterOK
  <2>. QED
    BY <2>1, <2>2, <1>3, Stable DEF TypeOK, WriterWrites, launcherVars, daemonVars
<1>4. CASE WriterFails
  <2>1. OutboxOK'
    BY <1>4, DocumentTypes, QueueTypes, StreamTypes DEF TypeOK, WriterFails, OutboxOK, outboxVars
  <2>2. WriterOK'
    BY <1>4, DocumentTypes, QueueTypes, StreamTypes DEF TypeOK, WriterFails, WriterOK, writerVars
  <2>. QED
    BY <2>1, <2>2, <1>4, Stable DEF TypeOK, WriterFails, launcherVars, daemonVars
<1>5. ASSUME NEW s \in Out, PumpAllowance(s) PROVE TypeOK'
  <2>1. PumpsOK'
    <3>1. credit[s] \in Nat /\ Least(credit[s], MAXIMUM_CHUNK) \in Nat
      BY LeastTypes DEF TypeOK, CreditsOK
    <3>. QED
      BY <1>5, <3>1 DEF TypeOK, PumpAllowance, PumpsOK
  <2>. QED
    BY <2>1, <1>5, Stable DEF TypeOK, PumpAllowance, launcherVars, daemonVars
<1>6. ASSUME NEW s \in Out, PumpReads(s) PROVE TypeOK'
  <2>1. PumpsOK'
    <3>1. CASE input[s] = 0 /\ pump' = [pump EXCEPT ![s] = "exhausted"] /\ UNCHANGED <<hand, input>>
      BY <1>6, <3>1 DEF TypeOK, PumpReads, PumpsOK
    <3>2. ASSUME NEW n \in 1..Least(allowed[s], input[s]),
                 hand' = [hand EXCEPT ![s] = n],
                 input' = [input EXCEPT ![s] = @ - n],
                 pump' = [pump EXCEPT ![s] = "send"]
          PROVE  PumpsOK'
      <4>1. n \in Nat /\ input[s] - n \in Nat
        BY <3>2, LeastTypes DEF TypeOK, PumpsOK
      <4>. QED
        BY <1>6, <3>2, <4>1 DEF TypeOK, PumpReads, PumpsOK
    <3>. QED
      BY <1>6, <3>1, <3>2 DEF PumpReads
  <2>. QED
    BY <2>1, <1>6, Stable DEF TypeOK, PumpReads, launcherVars, daemonVars
<1>7. ASSUME NEW s \in Out, PumpSends(s) PROVE TypeOK'
  <2>1. OutboxOK'
    BY <1>7, DocumentTypes, QueueTypes, StreamTypes DEF TypeOK, PumpSends, Spend, SendData,
       OutboxOK, outboxVars, PumpsOK
  <2>2. CreditsOK'
    BY <1>7, DocumentTypes, QueueTypes, StreamTypes DEF TypeOK, PumpSends, Spend, SendData,
       CreditsOK, creditVars, Least, PumpsOK
  <2>3. PumpsOK'
    BY <1>7, DocumentTypes, QueueTypes, StreamTypes DEF TypeOK, PumpSends, Spend, SendData,
       PumpsOK, pumpVars, Least
  <2>. QED
    BY <2>1, <2>2, <2>3, <1>7, Stable DEF TypeOK, PumpSends, Spend, SendData, launcherVars,
       daemonVars
<1>8. ASSUME NEW s \in Out, PumpFinishes(s) PROVE TypeOK'
  <2>1. PumpsOK'
    BY <1>8, DocumentTypes, QueueTypes, StreamTypes DEF TypeOK, PumpFinishes, PumpsOK, pumpVars,
       Least
  <2>. QED
    BY <2>1, <1>8, Stable DEF TypeOK, PumpFinishes, launcherVars, daemonVars
<1>9. ASSUME NEW s \in Out, PumpEnds(s) PROVE TypeOK'
  <2>1. OutboxOK'
    BY <1>9, DocumentTypes, QueueTypes, StreamTypes DEF TypeOK, PumpEnds, SendData, OutboxOK,
       outboxVars
  <2>2. PumpsOK'
    BY <1>9, DocumentTypes, QueueTypes, StreamTypes DEF TypeOK, PumpEnds, SendData, PumpsOK,
       pumpVars, Least
  <2>. QED
    BY <2>1, <2>2, <1>9, Stable DEF TypeOK, PumpEnds, SendData, launcherVars, daemonVars
<1>10. ASSUME NEW s \in In, DrainTakes(s) PROVE TypeOK'
  <2>1. InletsOK'
    <3>1. queue[s] \in Seq(Document)
      BY DEF TypeOK, InletsOK
    <3>2. queue[s] # <<>> => Tail(queue[s]) \in Seq(Document) /\ <<Head(queue[s])>> \in Seq(Document)
      BY <3>1, QueueTypes
    <3>. QED
      BY <1>10, <3>1, <3>2 DEF TypeOK, DrainTakes, InletsOK
  <2>2. DrainsOK'
    <3>1. queue[s] \in Seq(Document)
      BY DEF TypeOK, InletsOK
    <3>2. CASE drain' = [drain EXCEPT ![s] = "done"] /\ UNCHANGED <<taken, dropping>>
      BY <1>10, <3>2 DEF TypeOK, DrainTakes, DrainsOK
    <3>3. CASE /\ queue[s] # <<>>
               /\ taken' = [taken EXCEPT ![s] = <<Head(queue[s])>>]
               /\ dropping' = [dropping EXCEPT ![s] = discard[s]]
               /\ drain' = [drain EXCEPT ![s] = "write"]
      <4> DEFINE one == <<Head(queue[s])>>
      <4>1. one \in Seq(Document) /\ Len(one) = 1
        BY <3>1, <3>3, QueueTypes
      <4>2. taken' = [taken EXCEPT ![s] = one]
        BY <3>3
      <4> HIDE DEF one
      <4>3. /\ taken' \in [In -> Seq(Document)] /\ drain' \in [In -> {"none", "wait", "write", "grant", "done"}]
            /\ \A t \in In : drain'[t] \in {"write", "grant"} => Len(taken'[t]) = 1
        BY <3>3, <4>1, <4>2 DEF TypeOK, DrainsOK
      <4>4. dropping' \in [In -> BOOLEAN]
        BY <3>3 DEF TypeOK, DrainsOK, InletsOK
      <4>. QED
        BY <1>10, <4>3, <4>4 DEF TypeOK, DrainTakes, DrainsOK
    <3>. QED
      BY <1>10, <3>2, <3>3 DEF DrainTakes
  <2>. QED
    BY <2>1, <2>2, <1>10, Stable DEF TypeOK, DrainTakes, launcherVars, daemonVars
<1>11. ASSUME NEW s \in In, DrainWrites(s) PROVE TypeOK'
  <2>1. OutboxOK'
    <3>1. About("closed", s) \in Document
      BY StreamTypes, DocumentTypes
    <3>. QED
      BY <1>11, <3>1, QueueTypes DEF TypeOK, DrainWrites, Send, OutboxOK, outboxVars
  <2>2. InletsOK'
    BY <1>11, DocumentTypes, QueueTypes, StreamTypes DEF TypeOK, DrainWrites, Send, InletsOK,
       inletVars, DrainsOK
  <2>3. DrainsOK'
    BY <1>11, DocumentTypes, QueueTypes, StreamTypes DEF TypeOK, DrainWrites, Send, DrainsOK,
       drainVars
  <2>4. SinksOK'
    <3>1. taken[s] \in Seq(Document) /\ Len(taken[s]) = 1
      BY <1>11 DEF TypeOK, DrainsOK, DrainWrites
    <3>2. taken[s][1].bytes \in Nat
      BY <3>1, QueueTypes
    <3>. QED
      BY <1>11, <3>2 DEF TypeOK, DrainWrites, SinksOK
  <2>. QED
    BY <2>1, <2>2, <2>3, <2>4, <1>11, Stable DEF TypeOK, DrainWrites, Send, launcherVars, daemonVars
<1>12. ASSUME NEW s \in In, DrainGrants(s) PROVE TypeOK'
  <2>1. OutboxOK'
    <3>1. taken[s] \in Seq(Document) /\ Len(taken[s]) = 1
      BY <1>12 DEF TypeOK, DrainsOK, DrainGrants
    <3>2. taken[s][1].bytes \in Nat
      BY <3>1, QueueTypes
    <3>3. Credit(s, consumed[s] + taken[s][1].bytes) \in Document
      BY <3>2, StreamTypes, DocumentTypes DEF TypeOK, DrainsOK
    <3>. QED
      BY <1>12, <3>3, QueueTypes DEF TypeOK, DrainGrants, Send, OutboxOK, outboxVars
  <2>2. DrainsOK'
    <3>1. taken[s] \in Seq(Document) /\ Len(taken[s]) = 1
      BY <1>12 DEF TypeOK, DrainsOK, DrainGrants
    <3>2. taken[s][1].bytes \in Nat
      BY <3>1, QueueTypes
    <3>3. consumed[s] + taken[s][1].bytes \in Nat
      BY <3>2 DEF TypeOK, DrainsOK
    <3>4. consumed' \in [In -> Nat]
      BY <1>12, <3>3 DEF TypeOK, DrainGrants, DrainsOK
    <3>5. taken' \in [In -> Seq(Document)] /\ drain' = [drain EXCEPT ![s] = "wait"]
      BY <1>12 DEF TypeOK, DrainGrants, DrainsOK
    <3>. QED
      BY <1>12, <3>4, <3>5 DEF TypeOK, DrainGrants, DrainsOK
  <2>. QED
    BY <2>1, <2>2, <1>12, Stable DEF TypeOK, DrainGrants, Send, launcherVars, daemonVars
<1>13. CASE ReadData
  <2>1. InletsOK'
    BY <1>13, DocumentTypes, QueueTypes, StreamTypes DEF TypeOK, ReadData, Receives, InletsOK,
       inletVars, WireOK
  <2>2. ReaderOK'
    BY <1>13, DocumentTypes, QueueTypes, StreamTypes DEF TypeOK, ReadData, Receives, ReaderOK,
       readerVars, wireVars, Over
  <2>3. WireOK'
    BY <1>13, DocumentTypes, QueueTypes, StreamTypes DEF TypeOK, ReadData, Receives, WireOK,
       wireVars
  <2>. QED
    BY <2>1, <2>2, <2>3, <1>13, Stable DEF TypeOK, ReadData, Receives, launcherVars, daemonVars
<1>14. CASE ReadEnd
  <2>1. InletsOK'
    BY <1>14, DocumentTypes, QueueTypes, StreamTypes DEF TypeOK, ReadEnd, Receives, InletsOK,
       inletVars
  <2>2. ReaderOK'
    BY <1>14, DocumentTypes, QueueTypes, StreamTypes DEF TypeOK, ReadEnd, Receives, ReaderOK,
       readerVars, wireVars, Over
  <2>3. WireOK'
    BY <1>14, DocumentTypes, QueueTypes, StreamTypes DEF TypeOK, ReadEnd, Receives, WireOK, wireVars
  <2>. QED
    BY <2>1, <2>2, <2>3, <1>14, Stable DEF TypeOK, ReadEnd, Receives, launcherVars, daemonVars
<1>15. CASE ReadCredit
  <2>1. CreditsOK'
    BY <1>15, DocumentTypes, QueueTypes, StreamTypes DEF TypeOK, ReadCredit, Grant, Receives,
       CreditsOK, creditVars, Least, WireOK
  <2>2. ReaderOK'
    BY <1>15, DocumentTypes, QueueTypes, StreamTypes DEF TypeOK, ReadCredit, Grant, Receives,
       ReaderOK, readerVars, wireVars, Over
  <2>3. WireOK'
    BY <1>15, DocumentTypes, QueueTypes, StreamTypes DEF TypeOK, ReadCredit, Grant, Receives,
       WireOK, wireVars
  <2>. QED
    BY <2>1, <2>2, <2>3, <1>15, Stable DEF TypeOK, ReadCredit, Grant, Receives, launcherVars,
       daemonVars
<1>16. CASE ReadClosed
  <2>1. CreditsOK'
    BY <1>16, DocumentTypes, QueueTypes, StreamTypes DEF TypeOK, ReadClosed, Receives,
       CreditsOK, creditVars, Least
  <2>2. ReaderOK'
    BY <1>16, DocumentTypes, QueueTypes, StreamTypes DEF TypeOK, ReadClosed, Receives, ReaderOK,
       readerVars, wireVars, Over
  <2>3. WireOK'
    BY <1>16, DocumentTypes, QueueTypes, StreamTypes DEF TypeOK, ReadClosed, Receives, WireOK,
       wireVars
  <2>. QED
    BY <2>1, <2>2, <2>3, <1>16, Stable DEF TypeOK, ReadClosed, Receives, launcherVars, daemonVars
<1>17. CASE ReadOpen
  <2>1. CreditsOK'
    BY <1>17, DocumentTypes, QueueTypes, StreamTypes DEF TypeOK, ReadOpen, OpensFor, Openable,
       Receives, CreditsOK, creditVars, Least, Descriptors
  <2>2. PumpsOK'
    BY <1>17, DocumentTypes, QueueTypes, StreamTypes DEF TypeOK, ReadOpen, OpensFor, Openable,
       Receives, PumpsOK, pumpVars, Least, Descriptors
  <2>3. InletsOK'
    <3> DEFINE fd == Head(down).stream
    <3>1. CASE Openable(fd)
      <4>1. fd \in Descriptors
        BY <3>1 DEF Openable
      <4>2. OpensFor(fd)
        BY <1>17, <3>1 DEF ReadOpen
      <4> HIDE DEF fd
      <4>. QED
        BY <1>17, <4>1, <4>2, StreamTypes, QueueTypes DEF TypeOK, ReadOpen, OpensFor, inletVars,
           InletsOK
    <3>2. CASE ~Openable(fd)
      BY <1>17, <3>2, Stable DEF TypeOK, ReadOpen, inletVars, drainVars
    <3>. QED
      BY <3>1, <3>2
  <2>4. DrainsOK'
    <3> DEFINE fd == Head(down).stream
    <3>1. CASE Openable(fd)
      <4>1. fd \in Descriptors
        BY <3>1 DEF Openable
      <4>2. OpensFor(fd)
        BY <1>17, <3>1 DEF ReadOpen
      <4> HIDE DEF fd
      <4>. QED
        BY <1>17, <4>1, <4>2, StreamTypes, QueueTypes DEF TypeOK, ReadOpen, OpensFor, inletVars,
           DrainsOK
    <3>2. CASE ~Openable(fd)
      BY <1>17, <3>2, Stable DEF TypeOK, ReadOpen, inletVars, drainVars
    <3>. QED
      BY <3>1, <3>2
  <2>5. ReaderOK'
    BY <1>17, DocumentTypes, QueueTypes, StreamTypes DEF TypeOK, ReadOpen, OpensFor, Openable,
       Receives, ReaderOK, readerVars, Descriptors, wireVars, Over
  <2>6. WireOK'
    BY <1>17, DocumentTypes, QueueTypes, StreamTypes DEF TypeOK, ReadOpen, OpensFor, Openable,
       Receives, WireOK, wireVars
  <2>. QED
    BY <2>1, <2>2, <2>3, <2>4, <2>5, <2>6, <1>17, Stable DEF TypeOK, ReadOpen, OpensFor,
       Openable, Receives, launcherVars, daemonVars
<1>18. CASE ReadSignalAck
  <2>1. ReaderOK'
    BY <1>18, DocumentTypes, QueueTypes, StreamTypes DEF TypeOK, ReadSignalAck, Receives,
       ReaderOK, readerVars, wireVars, Over
  <2>2. WireOK'
    BY <1>18, DocumentTypes, QueueTypes, StreamTypes DEF TypeOK, ReadSignalAck, Receives,
       WireOK, wireVars
  <2>3. SignalsOK'
    BY <1>18, DocumentTypes, QueueTypes, StreamTypes DEF TypeOK, ReadSignalAck, Receives,
       SignalsOK, signalVars
  <2>. QED
    BY <2>1, <2>2, <2>3, <1>18, Stable DEF TypeOK, ReadSignalAck, Receives, launcherVars, daemonVars
<1>19. CASE ReadExitStatus
  <2>1. ReaderOK'
    BY <1>19, DocumentTypes, QueueTypes, StreamTypes DEF TypeOK, ReadExitStatus, Receives,
       ReaderOK, readerVars, wireVars, Over
  <2>2. WireOK'
    BY <1>19, DocumentTypes, QueueTypes, StreamTypes DEF TypeOK, ReadExitStatus, Receives,
       WireOK, wireVars
  <2>. QED
    BY <2>1, <2>2, <1>19, Stable DEF TypeOK, ReadExitStatus, Receives, launcherVars, daemonVars
<1>20. CASE ReadFails
  <2>1. ReaderOK'
    BY <1>20, DocumentTypes, QueueTypes, StreamTypes DEF TypeOK, ReadFails, ReaderOK,
       readerVars, wireVars, Over
  <2>. QED
    BY <2>1, <1>20, Stable DEF TypeOK, ReadFails, launcherVars, daemonVars
<1>21. CASE ReaderClosesCredits
  <2>1. CreditsOK'
    BY <1>21, DocumentTypes, QueueTypes, StreamTypes DEF TypeOK, ReaderClosesCredits, CreditsOK,
       creditVars, Least
  <2>. QED
    BY <2>1, <1>21, Stable DEF TypeOK, ReaderClosesCredits, launcherVars, daemonVars
<1>22. CASE ReaderClosesOutbox
  <2>1. OutboxOK'
    BY <1>22, DocumentTypes, QueueTypes, StreamTypes DEF TypeOK, ReaderClosesOutbox, OutboxOK,
       outboxVars
  <2>. QED
    BY <2>1, <1>22, Stable DEF TypeOK, ReaderClosesOutbox, launcherVars, daemonVars
<1>23. CASE ReaderReleases
  <2>1. InletsOK'
    BY <1>23, DocumentTypes, QueueTypes, StreamTypes DEF TypeOK, ReaderReleases, InletsOK, inletVars
  <2>2. ReaderOK'
    BY <1>23, DocumentTypes, QueueTypes, StreamTypes DEF TypeOK, ReaderReleases, ReaderOK,
       readerVars, wireVars, Over
  <2>. QED
    BY <2>1, <2>2, <1>23, Stable DEF TypeOK, ReaderReleases, launcherVars, daemonVars
<1>24. CASE Wait
  <2>1. ReaderOK'
    BY <1>24, DocumentTypes, QueueTypes, StreamTypes DEF TypeOK, Wait, ReaderOK, readerVars,
       wireVars, Over
  <2>. QED
    BY <2>1, <1>24, Stable DEF TypeOK, Wait, launcherVars, daemonVars
<1>25. CASE Signal
  <2>1. OutboxOK'
    BY <1>25, DocumentTypes, QueueTypes, StreamTypes DEF TypeOK, Signal, Send, OutboxOK, outboxVars
  <2>2. SignalsOK'
    BY <1>25, DocumentTypes, QueueTypes, StreamTypes DEF TypeOK, Signal, Send, SignalsOK, signalVars
  <2>. QED
    BY <2>1, <2>2, <1>25, Stable DEF TypeOK, Signal, Send, launcherVars, daemonVars
<1>26. CASE Disconnect
  <2>1. WireOK'
    BY <1>26, DocumentTypes, QueueTypes, StreamTypes DEF TypeOK, Disconnect, WireOK, wireVars
  <2>. QED
    BY <2>1, <1>26, Stable DEF TypeOK, Disconnect, launcherVars, daemonVars
<1>27. ASSUME NEW s \in In, DiscardStdout(s) PROVE TypeOK'
  <2>1. InletsOK'
    BY <1>27, DocumentTypes, QueueTypes, StreamTypes DEF TypeOK, DiscardStdout, InletsOK, inletVars
  <2>. QED
    BY <2>1, <1>27, Stable DEF TypeOK, DiscardStdout, launcherVars, daemonVars
<1>28. ASSUME NEW s \in In, SinkBreaks(s) PROVE TypeOK'
  <2>1. SinksOK'
    BY <1>28, DocumentTypes, QueueTypes, StreamTypes DEF TypeOK, SinkBreaks, SinksOK, sinkVars
  <2>. QED
    BY <2>1, <1>28, Stable DEF TypeOK, SinkBreaks, launcherVars, daemonVars
<1>29. CASE DaemonReads
  <2>1. WireOK'
    BY <1>29, DocumentTypes, QueueTypes, StreamTypes DEF TypeOK, DaemonReads, WireOK, wireVars,
       daemonIn, daemonOut
  <2>2. DaemonOK'
    <3> DEFINE d == Head(up)
    <3>1. d \in Document
      BY <1>29, QueueTypes DEF TypeOK, WireOK, DaemonReads
    <3>2. d.bytes \in Nat /\ d.stream \in Streams
      BY <3>1 DEF Document
    <3> HIDE DEF d
    <3>3. dbuffer' \in [Out -> Nat]
      <4>1. dbuffer' = dbuffer \/ dbuffer' = [dbuffer EXCEPT ![d.stream] = @ + d.bytes]
        BY <1>29 DEF DaemonReads, d
      <4>. QED
        BY <3>2, <4>1 DEF TypeOK, DaemonOK
    <3>4. dgot' \in [Out -> Nat]
      <4>1. dgot' = dgot \/ dgot' = [dgot EXCEPT ![d.stream] = @ + d.bytes]
        BY <1>29 DEF DaemonReads, d
      <4>. QED
        BY <3>2, <4>1 DEF TypeOK, DaemonOK
    <3>5. dcredit' \in [In -> Nat]
      <4>1. dcredit' = dcredit \/ dcredit' = [dcredit EXCEPT ![d.stream] = @ + d.bytes]
        BY <1>29 DEF DaemonReads, d
      <4>. QED
        BY <3>2, <4>1 DEF TypeOK, DaemonOK
    <3>6. told' \in [In -> Nat]
      <4>1. told' = told \/ told' = [told EXCEPT ![d.stream] = @ + 1]
        BY <1>29 DEF DaemonReads, d
      <4>. QED
        BY <4>1 DEF TypeOK, DaemonOK
    <3>7. dend' \subseteq Streams
      BY <1>29, <3>2 DEF TypeOK, DaemonOK, DaemonReads, d
    <3>. QED
      BY <1>29, <3>3, <3>4, <3>5, <3>6, <3>7 DEF TypeOK, DaemonOK, DaemonReads
  <2>3. SignalsOK'
    BY <1>29, DocumentTypes, QueueTypes, StreamTypes DEF TypeOK, DaemonReads, SignalsOK,
       signalVars, WireOK, daemonIn, daemonOut
  <2>. QED
    BY <2>1, <2>2, <2>3, <1>29, Stable DEF TypeOK, DaemonReads, launcherVars, daemonVars
<1>30. ASSUME NEW s \in In, DaemonWrites(s) PROVE TypeOK'
  <2>1. WireOK'
    <3>1. PICK n \in 1..Least(dcredit[s], MAXIMUM_CHUNK) :
             /\ DaemonSends(Data(s, dwritten[s], n))
             /\ dcredit' = [dcredit EXCEPT ![s] = @ - n]
             /\ dwritten' = [dwritten EXCEPT ![s] = @ + n]
      BY <1>30 DEF DaemonWrites
    <3>2. n \in Nat /\ dcredit[s] - n \in Nat /\ dwritten[s] \in Nat
      <4>1. dcredit[s] \in Nat /\ dwritten[s] \in Nat /\ MAXIMUM_CHUNK \in Nat
        BY DEF TypeOK, DaemonOK
      <4>. QED
        BY <3>1, <4>1, LeastTypes
    <3>3. Data(s, dwritten[s], n) \in Document
      BY <3>2, StreamTypes, DocumentTypes
    <3>. QED
      BY <3>1, <3>3, QueueTypes DEF TypeOK, DaemonSends, WireOK
  <2>2. DaemonOK'
    <3>1. PICK n \in 1..Least(dcredit[s], MAXIMUM_CHUNK) :
             /\ DaemonSends(Data(s, dwritten[s], n))
             /\ dcredit' = [dcredit EXCEPT ![s] = @ - n]
             /\ dwritten' = [dwritten EXCEPT ![s] = @ + n]
      BY <1>30 DEF DaemonWrites
    <3>2. n \in Nat /\ dcredit[s] - n \in Nat /\ dwritten[s] \in Nat
      <4>1. dcredit[s] \in Nat /\ dwritten[s] \in Nat /\ MAXIMUM_CHUNK \in Nat
        BY DEF TypeOK, DaemonOK
      <4>. QED
        BY <3>1, <4>1, LeastTypes
    <3>. QED
      BY <1>30, <3>1, <3>2 DEF TypeOK, DaemonWrites, DaemonOK, daemonIn
  <2>. QED
    BY <2>1, <2>2, <1>30, Stable DEF TypeOK, DaemonWrites, DaemonSends, launcherVars, daemonVars
<1>31. ASSUME NEW s \in In, DaemonEnds(s) PROVE TypeOK'
  <2>1. WireOK'
    BY <1>31, DocumentTypes, QueueTypes, StreamTypes DEF TypeOK, DaemonEnds, DaemonSends,
       WireOK, wireVars
  <2>2. DaemonOK'
    BY <1>31, DocumentTypes, QueueTypes, StreamTypes DEF TypeOK, DaemonEnds, DaemonSends,
       DaemonOK, daemonVars, daemonIn, daemonOut
  <2>. QED
    BY <2>1, <2>2, <1>31, Stable DEF TypeOK, DaemonEnds, DaemonSends, launcherVars, daemonVars
<1>32. ASSUME NEW s \in Out, DaemonGrants(s) PROVE TypeOK'
  <2>1. WireOK'
    BY <1>32, DocumentTypes, QueueTypes, StreamTypes DEF TypeOK, DaemonGrants, DaemonSends,
       WireOK, wireVars
  <2>2. DaemonOK'
    BY <1>32, DocumentTypes, QueueTypes, StreamTypes DEF TypeOK, DaemonGrants, DaemonSends,
       DaemonOK, daemonVars, daemonIn, daemonOut
  <2>. QED
    BY <2>1, <2>2, <1>32, Stable DEF TypeOK, DaemonGrants, DaemonSends, launcherVars, daemonVars
<1>33. ASSUME NEW s \in Out, DaemonCloses(s) PROVE TypeOK'
  <2>1. WireOK'
    BY <1>33, DocumentTypes, QueueTypes, StreamTypes DEF TypeOK, DaemonCloses, DaemonSends,
       WireOK, wireVars
  <2>2. DaemonOK'
    BY <1>33, DocumentTypes, QueueTypes, StreamTypes DEF TypeOK, DaemonCloses, DaemonSends,
       DaemonOK, daemonVars, daemonIn, daemonOut
  <2>. QED
    BY <2>1, <2>2, <1>33, Stable DEF TypeOK, DaemonCloses, DaemonSends, launcherVars, daemonVars
<1>34. ASSUME NEW fd \in Descriptors, DaemonOpens(fd) PROVE TypeOK'
  <2>1. WireOK'
    BY <1>34, DocumentTypes, QueueTypes, StreamTypes DEF TypeOK, DaemonOpens, DaemonSends,
       WireOK, wireVars
  <2>2. DaemonOK'
    BY <1>34, DocumentTypes, QueueTypes, StreamTypes DEF TypeOK, DaemonOpens, DaemonSends,
       DaemonOK, daemonVars, Descriptors, daemonIn, daemonOut
  <2>. QED
    BY <2>1, <2>2, <1>34, Stable DEF TypeOK, DaemonOpens, DaemonSends, launcherVars, daemonVars
<1>35. CASE DaemonAcks
  <2>1. WireOK'
    BY <1>35, DocumentTypes, QueueTypes, StreamTypes DEF TypeOK, DaemonAcks, DaemonSends,
       WireOK, wireVars
  <2>2. DaemonOK'
    BY <1>35, DocumentTypes, QueueTypes, StreamTypes DEF TypeOK, DaemonAcks, DaemonSends,
       DaemonOK, daemonVars, daemonIn, daemonOut
  <2>3. SignalsOK'
    BY <1>35, DocumentTypes, QueueTypes, StreamTypes DEF TypeOK, DaemonAcks, DaemonSends,
       SignalsOK, signalVars
  <2>. QED
    BY <2>1, <2>2, <2>3, <1>35, Stable DEF TypeOK, DaemonAcks, DaemonSends, launcherVars, daemonVars
<1>36. CASE DaemonExits
  <2>1. WireOK'
    BY <1>36, DocumentTypes, QueueTypes, StreamTypes DEF TypeOK, DaemonExits, DaemonSends,
       WireOK, wireVars
  <2>2. DaemonOK'
    BY <1>36, DocumentTypes, QueueTypes, StreamTypes DEF TypeOK, DaemonExits, DaemonSends,
       DaemonOK, daemonVars, daemonIn, daemonOut
  <2>. QED
    BY <2>1, <2>2, <1>36, Stable DEF TypeOK, DaemonExits, DaemonSends, launcherVars, daemonVars
<1>37. CASE UNCHANGED vars
  BY <1>37, Stable DEF vars, TypeOK
<1>. QED
  BY <1>1, <1>2, <1>3, <1>4, <1>5, <1>6, <1>7, <1>8, <1>9, <1>10, <1>11, <1>12, <1>13, <1>14,
     <1>15, <1>16, <1>17, <1>18, <1>19, <1>20, <1>21, <1>22, <1>23, <1>24, <1>25, <1>26, <1>27,
     <1>28, <1>29, <1>30, <1>31, <1>32, <1>33, <1>34, <1>35, <1>36, <1>37
     DEF Next, Writer, Pump, Drain, Reader, Client, Daemon, Terminated

\* Every document, queue and counter of a session is what the code takes it for.
THEOREM TypeCorrect == Spec => []TypeOK
BY TypeInit, TypeStep, PTL DEF Spec
=============================================================================
