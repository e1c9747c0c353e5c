--------------------------- MODULE InboundProofs ---------------------------
(***************************************************************************)
(* What the launcher receives: from the daemon to the client's descriptor, *)
(* through the socket, an inlet's queue and a drain's hand, and the credit *)
(* that goes back for it.  Then what the two directions together allow:    *)
(* that every signal is accounted for, and that no thread waits for        *)
(* another in a circle.                                                    *)
(***************************************************************************)
EXTENDS OrderProofs

-----------------------------------------------------------------------------
(* The socket towards the launcher.                                        *)

\* A chunk is never empty.
Full == {d \in Fitting : d.type = "data" => d.bytes > 0}

FullInv == down \in Seq(Full) /\ \A s \in In : queue[s] \in Seq(Full) /\ taken[s] \in Seq(Full)

\* Whatever a descriptor's data or end is behind, its open is ahead of it.
OpenFirst(q, fd) ==
    \A i \in 1..Len(q) : q[i].stream = fd /\ q[i].type \in {"data", "end"} =>
        \E j \in 1..(i - 1) : q[j].stream = fd /\ q[j].type = "open"

ExitLast(q) == \A i \in 1..Len(q) : q[i].type = "exit-status" => i = Len(q)

LEMMA OpenFirstAppend ==
    ASSUME NEW S, NEW q \in Seq(S), NEW d \in S, NEW fd, OpenFirst(q, fd),
           d.stream = fd /\ d.type \in {"data", "end"} => Names(q, "open", fd)
    PROVE  OpenFirst(Append(q, d), fd)
<1>1. /\ Len(Append(q, d)) = Len(q) + 1 /\ Append(q, d)[Len(q) + 1] = d /\ Len(q) \in Nat
      /\ \A i \in 1..Len(q) : Append(q, d)[i] = q[i]
  OBVIOUS
<1>2. \A i \in 1..Len(q) : \A j \in 1..(i - 1) : j \in 1..Len(q)
  BY <1>1
<1>. QED
  BY <1>1, <1>2 DEF OpenFirst, Names

LEMMA OpenFirstTail ==
    ASSUME NEW S, NEW q \in Seq(S), q # <<>>, NEW fd, OpenFirst(q, fd)
    PROVE  /\ Head(q).stream = fd => Head(q).type \notin {"data", "end"}
           /\ ~(Head(q).stream = fd /\ Head(q).type = "open") => OpenFirst(Tail(q), fd)
<1>1. /\ Len(Tail(q)) = Len(q) - 1 /\ Len(q) \in Nat /\ Len(q) >= 1 /\ Head(q) = q[1]
      /\ \A i \in 1..Len(Tail(q)) : i + 1 \in 1..Len(q) /\ Tail(q)[i] = q[i + 1]
  OBVIOUS
<1>2. Head(q).stream = fd => Head(q).type \notin {"data", "end"}
  BY <1>1 DEF OpenFirst
<1>3. ASSUME ~(Head(q).stream = fd /\ Head(q).type = "open"), NEW i \in 1..Len(Tail(q)),
             Tail(q)[i].stream = fd, Tail(q)[i].type \in {"data", "end"}
      PROVE  \E j \in 1..(i - 1) : Tail(q)[j].stream = fd /\ Tail(q)[j].type = "open"
  <2>1. PICK j \in 1..((i + 1) - 1) : q[j].stream = fd /\ q[j].type = "open"
    BY <1>1, <1>3 DEF OpenFirst
  <2>2. j # 1
    BY <1>1, <1>3, <2>1
  <2>3. j - 1 \in 1..(i - 1) /\ j - 1 \in 1..Len(Tail(q)) /\ (j - 1) + 1 = j
    BY <1>1, <2>1, <2>2
  <2>4. Tail(q)[j - 1] = q[j]
    BY <1>1, <2>3
  <2>. QED
    BY <2>1, <2>3, <2>4
<1>. QED
  BY <1>2, <1>3 DEF OpenFirst

LEMMA ExitLastAppend ==
    ASSUME NEW S, NEW q \in Seq(S), NEW d \in S, \A s : ~Names(q, "exit-status", s)
    PROVE  ExitLast(Append(q, d))
<1>1. /\ Len(Append(q, d)) = Len(q) + 1 /\ Append(q, d)[Len(q) + 1] = d /\ Len(q) \in Nat
      /\ \A i \in 1..Len(q) : Append(q, d)[i] = q[i]
  OBVIOUS
<1>2. ASSUME NEW i \in 1..Len(q) PROVE q[i].type # "exit-status"
  <2>1. ~Names(q, "exit-status", q[i].stream)
    OBVIOUS
  <2>. QED
    BY <2>1 DEF Names
<1>3. ASSUME NEW i \in 1..(Len(q) + 1), i # Len(q) + 1 PROVE i \in 1..Len(q)
  BY <1>1, <1>3
<1>. QED
  BY <1>1, <1>2, <1>3 DEF ExitLast

LEMMA ExitLastTail ==
    ASSUME NEW S, NEW q \in Seq(S), q # <<>>, ExitLast(q)
    PROVE  ExitLast(Tail(q)) /\ (Head(q).type = "exit-status" => Tail(q) = <<>>)
<1> DEFINE n == Len(q)
           t == Tail(q)
           m == Len(t)
<1>1. /\ m = n - 1 /\ n \in Nat /\ n >= 1 /\ Head(q) = q[1]
      /\ \A i \in 1..m : i + 1 \in 1..n /\ t[i] = q[i + 1]
      /\ n = 1 => t = <<>>
  OBVIOUS
<1>2. \A i \in 1..n : q[i].type = "exit-status" => i = n
  BY DEF ExitLast
<1> HIDE DEF n, m, t
<1>3. Head(q).type = "exit-status" => t = <<>>
  BY <1>1, <1>2
<1>4. \A i \in 1..m : t[i].type = "exit-status" => i = m
  BY <1>1, <1>2
<1>. QED
  BY <1>3, <1>4 DEF ExitLast, t, m

\* The reader stops at `exit-status`, which is the last there is, or when nothing more can come.
ReaderInv ==
    /\ reader # "reading" => down = <<>> /\ (dexit \/ ~connected)
    /\ ExitLast(down) /\ \A s : Names(down, "exit-status", s) => dexit
    /\ \A fd \in Writable \ opened :
         OpenFirst(down, fd) /\ (dopens[fd] > 0 => reader # "reading" \/ Names(down, "open", fd))
    /\ \A s \in In : Names(down, "end", s) => s \in dended
    /\ outcome # "none" => reader # "reading"

ReaderKeeps == <<reader, down, dexit, connected, opened, dopens, dended, outcome>>

LEMMA ReaderKept == ReaderInv /\ UNCHANGED ReaderKeeps => ReaderInv'
BY DEF ReaderInv, ReaderKeeps

\* What the daemon sends, what it must have done before, and what it has done with it.
Authored(d) ==
    /\ d.type = "exit-status" => dexit'
    /\ dexit => dexit'
    /\ \A s \in In : /\ s \in dended => s \in dended'
                     /\ d.type = "end" /\ d.stream = s => s \in dended'
                     /\ s \in Descriptors /\ d.stream = s /\ d.type \in {"data", "end"} => dopens[s] > 0
                     /\ d.type = "data" /\ d.stream = s => d.from = dwritten[s] /\ s \notin dended
                     /\ dwritten'[s] = dwritten[s] + Carries(d, "data", s)
                     /\ dcredit'[s] = dcredit[s] - Carries(d, "data", s)
                     /\ Carries(d, "data", s) <= dcredit[s]
    /\ \A fd \in Descriptors : dopens'[fd] > 0 =>
         dopens[fd] > 0 \/ (d.type = "open" /\ d.stream = fd)

LEMMA DaemonAuthors ==
    ASSUME WindowInv, Daemon, ~DaemonReads
    PROVE  \E d \in Full : DaemonSends(d) /\ Authored(d)
<1> USE DEF daemonOut, daemonIn
<1>0. /\ dcredit \in [In -> Nat] /\ dwritten \in [In -> Nat] /\ dopens \in [Descriptors -> Nat]
      /\ dbuffer \in [Out -> Nat] /\ WINDOW \in Nat /\ MAXIMUM_CHUNK \in Nat /\ MAXIMUM_CHUNK <= WINDOW
      /\ \A s \in Streams : Stdin \in Streams /\ (s \in In \/ s \in Out)
  BY SessionAssumption, StreamTypes DEF WindowInv, TypeOK, DaemonOK, Streams
<1>1. ASSUME NEW p \in In, DaemonWrites(p) PROVE \E d \in Full : DaemonSends(d) /\ Authored(d)
  <2>1. PICK n \in 1..Least(dcredit[p], MAXIMUM_CHUNK) :
           /\ DaemonSends(Data(p, dwritten[p], n))
           /\ dcredit' = [dcredit EXCEPT ![p] = @ - n]
           /\ dwritten' = [dwritten EXCEPT ![p] = @ + n]
    BY <1>1 DEF DaemonWrites
  <2>2. /\ n \in Nat /\ n > 0 /\ n <= dcredit[p] /\ n <= WINDOW /\ p \in Streams
    BY <1>0, StreamTypes DEF Least
  <2> DEFINE d == Data(p, dwritten[p], n)
  <2>3. /\ d \in Full /\ d.type = "data" /\ d.stream = p /\ d.from = dwritten[p]
        /\ \A x : Carries(d, "data", x) = IF x = p THEN n ELSE 0
    BY <1>0, <2>2, ChunkWeight DEF Full, Data
  <2>4. Asked(p) /\ p \notin dended /\ UNCHANGED <<dended, dopens, dexit>>
    BY <1>1 DEF DaemonWrites
  <2> HIDE DEF d
  <2>5. Authored(d)
    BY <1>0, <2>1, <2>2, <2>3, <2>4 DEF Authored, Asked
  <2>. QED
    BY <2>1, <2>3, <2>5 DEF d
<1>2. ASSUME NEW d \in Full, d.type # "data", UNCHANGED <<dcredit, dwritten>>
      PROVE  \A s \in In : /\ dwritten'[s] = dwritten[s] + Carries(d, "data", s)
                           /\ dcredit'[s] = dcredit[s] - Carries(d, "data", s)
                           /\ Carries(d, "data", s) <= dcredit[s]
  BY <1>0, <1>2 DEF Carries
<1>3. \A type \in {"end", "closed", "open", "signal-ack", "exit-status"}, s \in Streams :
        About(type, s) \in Full /\ About(type, s).type = type /\ About(type, s).stream = s
  BY Weightless DEF Full, About
<1>4. ASSUME NEW p \in In, DaemonEnds(p) PROVE \E d \in Full : DaemonSends(d) /\ Authored(d)
  <2> DEFINE d == About("end", p)
  <2>1. d \in Full /\ d.type = "end" /\ d.stream = p
    BY <1>3, StreamTypes
  <2>2. /\ DaemonSends(d) /\ dended' = dended \cup {p} /\ Asked(p)
        /\ UNCHANGED <<dcredit, dwritten, dopens, dexit>>
    BY <1>4 DEF DaemonEnds
  <2> HIDE DEF d
  <2>. QED
    BY <1>0, <1>2, <2>1, <2>2 DEF Authored, Asked
<1>5. ASSUME NEW p \in Out, DaemonGrants(p) PROVE \E d \in Full : DaemonSends(d) /\ Authored(d)
  <2>1. PICK n \in 1..dbuffer[p] : DaemonSends(Credit(p, n))
    BY <1>5 DEF DaemonGrants
  <2> DEFINE d == Credit(p, n)
  <2>2. d \in Full /\ d.type = "credit"
    <3>1. OutNaturalAt(p) /\ OutTotal(p) <= WINDOW
      BY Numbers DEF WindowInv, Bounds, OutInv, OutNatural
    <3>2. dbuffer[p] <= WINDOW
      BY <1>0, <3>1 DEF OutTotal, OutData, OutNaturalAt, OutGrants
    <3>. QED
      BY <1>0, <3>2, GrantWeight, StreamTypes DEF Full, Credit
  <2>3. UNCHANGED <<dcredit, dwritten, dended, dopens, dexit>>
    BY <1>5 DEF DaemonGrants
  <2> HIDE DEF d
  <2>4. Authored(d)
    BY <1>0, <1>2, <2>2, <2>3 DEF Authored
  <2>. QED
    BY <2>1, <2>2, <2>4 DEF d
<1>6. ASSUME NEW p \in Out, DaemonCloses(p) PROVE \E d \in Full : DaemonSends(d) /\ Authored(d)
  <2> DEFINE d == About("closed", p)
  <2>1. d \in Full /\ d.type = "closed"
    BY <1>3, StreamTypes
  <2>2. DaemonSends(d) /\ UNCHANGED <<dcredit, dwritten, dended, dopens, dexit>>
    BY <1>6 DEF DaemonCloses
  <2> HIDE DEF d
  <2>. QED
    BY <1>0, <1>2, <2>1, <2>2 DEF Authored
<1>7. ASSUME NEW fd \in Descriptors, DaemonOpens(fd) PROVE \E d \in Full : DaemonSends(d) /\ Authored(d)
  <2> DEFINE d == About("open", fd)
  <2>1. d \in Full /\ d.type = "open" /\ d.stream = fd
    BY <1>3, StreamTypes
  <2>2. /\ DaemonSends(d) /\ UNCHANGED <<dcredit, dwritten, dended, dexit>>
        /\ dopens' = [dopens EXCEPT ![fd] = @ + 1]
    BY <1>7 DEF DaemonOpens
  <2> HIDE DEF d
  <2>. QED
    BY <1>0, <1>2, <2>1, <2>2 DEF Authored
<1>8. CASE DaemonAcks
  <2> DEFINE d == About("signal-ack", Stdin)
  <2>1. d \in Full /\ d.type = "signal-ack"
    BY <1>3, StreamTypes
  <2>2. DaemonSends(d) /\ UNCHANGED <<dcredit, dwritten, dended, dopens, dexit>>
    BY <1>8 DEF DaemonAcks
  <2> HIDE DEF d
  <2>. QED
    BY <1>0, <1>2, <2>1, <2>2 DEF Authored
<1>9. CASE DaemonExits
  <2> DEFINE d == About("exit-status", Stdin)
  <2>1. d \in Full /\ d.type = "exit-status"
    BY <1>3, StreamTypes
  <2>2. DaemonSends(d) /\ dexit' /\ UNCHANGED <<dcredit, dwritten, dended, dopens>>
    BY <1>9 DEF DaemonExits
  <2> HIDE DEF d
  <2>. QED
    BY <1>0, <1>2, <2>1, <2>2 DEF Authored
<1>. QED
  BY <1>1, <1>4, <1>5, <1>6, <1>7, <1>8, <1>9 DEF Daemon

LEMMA ReaderTakes ==
    ASSUME WindowInv, FullInv, ReaderInv, NEW type, Receives(type),
           UNCHANGED outcome, opened \subseteq opened', opened' \subseteq Descriptors,
           type = "exit-status" => reader' = "exited" /\ UNCHANGED opened,
           type # "exit-status" => UNCHANGED reader,
           type = "open" /\ Head(down).stream \in Descriptors => Head(down).stream \in opened'
    PROVE  ReaderInv'
<1> DEFINE d == Head(down)
<1>1. /\ reader = "reading" /\ down \in Seq(Full) /\ down # <<>> /\ down' = Tail(down) /\ d.type = type
      /\ UNCHANGED <<connected, dexit, dopens, dended>>
  BY DEF Receives, FullInv, daemonVars, daemonOut
<1>2. \A t, s : Names(down, t, s) <=> (d.type = t /\ d.stream = s) \/ Names(down', t, s)
  BY <1>1, NamesTail
<1>3. ExitLast(down') /\ (type = "exit-status" => down' = <<>>)
  BY <1>1, ExitLastTail DEF ReaderInv
<1>4. type = "exit-status" => dexit
  BY <1>1, <1>2 DEF ReaderInv
<1>5. ASSUME NEW fd \in Writable \ opened'
      PROVE  /\ OpenFirst(down', fd)
             /\ dopens[fd] > 0 => reader' # "reading" \/ Names(down', "open", fd)
  <2>1. ~(d.type = "open" /\ d.stream = fd)
    BY <1>1 DEF Descriptors
  <2>2. fd \in Writable \ opened
    OBVIOUS
  <2>3. OpenFirst(down', fd)
    BY <1>1, <2>1, <2>2, OpenFirstTail DEF ReaderInv
  <2>. QED
    BY <1>1, <1>2, <2>1, <2>2, <2>3 DEF ReaderInv
<1> HIDE DEF d
<1>. QED
  BY <1>1, <1>2, <1>3, <1>4, <1>5 DEF ReaderInv

LEMMA ReaderHears ==
    ASSUME WindowInv, FullInv, ReaderInv, NEW d \in Full, DaemonSends(d), Authored(d)
    PROVE  ReaderInv'
<1>1. /\ connected /\ ~dexit /\ down \in Seq(Full) /\ down' = Append(down, d)
      /\ UNCHANGED <<connected, opened, reader, outcome>>
  BY DEF DaemonSends, FullInv, launcherVars, readerVars
<1>2. \A t, s : Names(down', t, s) <=> Names(down, t, s) \/ (d.type = t /\ d.stream = s)
  BY <1>1, NamesAppend
<1>3. reader = "reading"
  BY <1>1 DEF ReaderInv
<1>4. ExitLast(down')
  BY <1>1, ExitLastAppend DEF ReaderInv
<1>5. ASSUME NEW fd \in Writable \ opened
      PROVE  /\ OpenFirst(down', fd)
             /\ dopens'[fd] > 0 => Names(down', "open", fd)
  <2>1. fd \in Descriptors /\ fd \in In
    BY StreamTypes DEF Descriptors
  <2>2. OpenFirst(down, fd) /\ (dopens[fd] > 0 => Names(down, "open", fd))
    BY <1>3 DEF ReaderInv
  <2>3. d.stream = fd /\ d.type \in {"data", "end"} => dopens[fd] > 0
    BY <2>1 DEF Authored
  <2>4. OpenFirst(down', fd)
    BY <1>1, <2>2, <2>3, OpenFirstAppend
  <2>. QED
    BY <1>2, <2>1, <2>2, <2>4 DEF Authored
<1>. QED
  BY <1>1, <1>2, <1>3, <1>4, <1>5 DEF ReaderInv, Authored

LEMMA ReaderStep == WindowInv /\ FullInv /\ ReaderInv /\ [Next]_vars => ReaderInv'
<1> SUFFICES ASSUME WindowInv, FullInv, ReaderInv, [Next]_vars PROVE ReaderInv'
  OBVIOUS
<1> USE DEF ReaderKeeps, outboxVars, writerVars, creditVars, pumpVars, inletVars, drainVars, sinkVars,
            readerVars, wireVars, daemonVars, daemonOut, daemonIn, signalVars
<1>1. CASE UNCHANGED vars \/ Wait \/ Terminated \/ Writer
  BY <1>1, ReaderKept DEF vars, Wait, Terminated, Writer, WriterPops, WriterReturns, WriterWrites,
     WriterFails
<1>2. ASSUME NEW s \in Out, Pump(s) PROVE ReaderInv'
  BY <1>2, ReaderKept DEF Pump, PumpAllowance, PumpReads, PumpSends, PumpFinishes, PumpEnds
<1>3. ASSUME NEW s \in In, Drain(s) PROVE ReaderInv'
  BY <1>3, ReaderKept DEF Drain, DrainTakes, DrainWrites, DrainGrants
<1>4. CASE Reader
  <2>0. opened \subseteq Descriptors
    BY DEF WindowInv, TypeOK, ReaderOK
  <2>1. CASE ReadOpen
    <3>1. /\ Receives("open") /\ UNCHANGED <<outcome, reader>>
          /\ opened' = IF Openable(Head(down).stream) THEN opened \cup {Head(down).stream} ELSE opened
      BY <2>1 DEF ReadOpen, OpensFor
    <3>. QED
      BY <2>0, <3>1, ReaderTakes DEF Openable
  <2>2. CASE ReadExitStatus
    BY <2>0, <2>2, ReaderTakes DEF ReadExitStatus
  <2>3. CASE ReadData \/ ReadEnd \/ ReadCredit \/ ReadClosed \/ ReadSignalAck
    <3>1. PICK type : Receives(type) /\ type \notin {"exit-status", "open"} /\ UNCHANGED <<opened, outcome, reader>>
      BY <2>3 DEF ReadData, ReadEnd, ReadCredit, ReadClosed, ReadSignalAck
    <3>. QED
      BY <2>0, <3>1, ReaderTakes
  <2>4. CASE ReadFails
    BY <2>4 DEF ReadFails, ReaderInv
  <2>5. CASE ReaderReleases
    BY <2>5 DEF ReaderReleases, ReaderInv, Over
  <2>6. CASE ReaderClosesCredits \/ ReaderClosesOutbox
    BY <2>6, ReaderKept DEF ReaderClosesCredits, ReaderClosesOutbox
  <2>. QED
    BY <1>4, <2>1, <2>2, <2>3, <2>4, <2>5, <2>6 DEF Reader
<1>5. CASE Client
  <2>1. CASE Disconnect
    BY <2>1 DEF Disconnect, ReaderInv
  <2>. QED
    BY <1>5, <2>1, ReaderKept DEF Client, Signal, DiscardStdout, SinkBreaks
<1>6. CASE Daemon
  <2>1. CASE DaemonReads
    BY <2>1, ReaderKept DEF DaemonReads, launcherVars
  <2>2. CASE ~DaemonReads
    BY <1>6, <2>2, DaemonAuthors, ReaderHears
  <2>. QED
    BY <2>1, <2>2
<1>. QED
  BY <1>1, <1>2, <1>3, <1>4, <1>5, <1>6 DEF Next

LEMMA FullTail ==
    ASSUME NEW q \in Seq(Full), q # <<>>
    PROVE  /\ Head(q) \in Full /\ Tail(q) \in Seq(Full) /\ <<Head(q)>> \in Seq(Full)
OBVIOUS

LEMMA FullStep == TypeOK /\ WindowInv /\ FullInv /\ [Next]_vars => FullInv'
<1> SUFFICES ASSUME TypeOK, WindowInv, FullInv, [Next]_vars PROVE FullInv'
  OBVIOUS
<1> USE DEF outboxVars, writerVars, creditVars, pumpVars, inletVars, drainVars, sinkVars,
            readerVars, wireVars, daemonVars, daemonOut, daemonIn, signalVars
<1>0. /\ down \in Seq(Full) /\ \A s \in In : queue[s] \in Seq(Full) /\ taken[s] \in Seq(Full)
      /\ queue \in [In -> Seq(Document)] /\ taken \in [In -> Seq(Document)] /\ inlets \subseteq In
      /\ <<>> \in Seq(Full)
  BY DEF FullInv, TypeOK, InletsOK, DrainsOK
<1>1. CASE UNCHANGED vars \/ Wait \/ Terminated \/ Writer \/ Client
  <2>1. UNCHANGED <<down, queue, taken>>
    BY <1>1 DEF vars, Wait, Terminated, Writer, WriterPops, WriterReturns, WriterWrites,
       WriterFails, Client, Signal, DiscardStdout, SinkBreaks, Disconnect
  <2>. QED
    BY <2>1 DEF FullInv
<1>2. ASSUME NEW s \in Out, Pump(s) PROVE FullInv'
  <2>1. UNCHANGED <<down, queue, taken>>
    BY <1>2 DEF Pump, PumpAllowance, PumpReads, PumpSends, PumpFinishes, PumpEnds
  <2>. QED
    BY <2>1 DEF FullInv
<1>3. ASSUME NEW s \in In, Drain(s) PROVE FullInv'
  <2>1. CASE /\ queue[s] # <<>> /\ UNCHANGED down
             /\ taken' = [taken EXCEPT ![s] = <<Head(queue[s])>>]
             /\ queue' = [queue EXCEPT ![s] = Tail(@)]
    BY <1>0, <2>1, FullTail DEF FullInv
  <2>2. CASE taken' = [taken EXCEPT ![s] = <<>>] /\ UNCHANGED <<down, queue>>
    BY <1>0, <2>2 DEF FullInv
  <2>3. CASE UNCHANGED <<down, queue, taken>>
    BY <2>3 DEF FullInv
  <2>. QED
    BY <1>3, <2>1, <2>2, <2>3 DEF Drain, DrainTakes, DrainWrites, DrainGrants
<1>4. CASE Reader
  <2>1. ASSUME NEW type, Receives(type), queue' = queue \/ \E s : queue' = [queue EXCEPT ![s] = <<>>],
               UNCHANGED taken
        PROVE  FullInv'
    BY <1>0, <2>1, FullTail DEF Receives, FullInv
  <2>2. CASE ReadData
    <3> DEFINE d == Head(down)
    <3>1. /\ d \in Full /\ down' \in Seq(Full) /\ UNCHANGED taken
          /\ \/ UNCHANGED queue
             \/ d.stream \in In /\ queue' = [queue EXCEPT ![d.stream] = Append(@, d)]
      BY <1>0, <2>2, FullTail DEF ReadData, Receives
    <3> DEFINE more == Append(queue[d.stream], d)
    <3>2. d.stream \in In => more \in Seq(Full)
      BY <1>0, <3>1
    <3>3. queue' = queue \/ (d.stream \in In /\ queue' = [queue EXCEPT ![d.stream] = more])
      BY <3>1
    <3> HIDE DEF d, more
    <3>. QED
      BY <1>0, <3>1, <3>2, <3>3 DEF FullInv
  <2>3. CASE ReadOpen
    BY <2>1, <2>3 DEF ReadOpen, OpensFor
  <2>4. CASE ReadFails \/ ReaderClosesCredits \/ ReaderClosesOutbox \/ ReaderReleases
    <3>1. UNCHANGED <<down, queue, taken>>
      BY <2>4 DEF ReadFails, ReaderClosesCredits, ReaderClosesOutbox, ReaderReleases
    <3>. QED
      BY <3>1 DEF FullInv
  <2>. QED
    BY <1>4, <2>1, <2>2, <2>3, <2>4 DEF Reader, ReadEnd, ReadCredit, ReadClosed, ReadSignalAck, ReadExitStatus
<1>5. CASE Daemon
  <2>1. CASE DaemonReads
    BY <2>1 DEF DaemonReads, launcherVars, FullInv
  <2>2. CASE ~DaemonReads
    <3>1. PICK d \in Full : DaemonSends(d)
      BY <1>5, <2>2, DaemonAuthors
    <3>. QED
      BY <1>0, <3>1 DEF DaemonSends, launcherVars, FullInv
  <2>. QED
    BY <2>1, <2>2
<1>. QED
  BY <1>1, <1>2, <1>3, <1>4, <1>5 DEF Next

-----------------------------------------------------------------------------
(* The inlets and their drains.                                            *)

\* An inlet is in the map from its stream's opening to its end; its drain lives from the first
\* to past the second, and has emptied the queue by then.
Inlet(s) ==
    /\ drain[s] = "done" => queue[s] = <<>> /\ ended[s]
    /\ s \in inlets <=> s \in Outputs \cup opened /\ ~ended[s]
    /\ s \in Outputs \cup opened <=> drain[s] # "none"
    /\ s \notin Outputs \cup opened => ~discard[s] /\ queue[s] = <<>> /\ output[s] = 0 /\ ~ended[s]
    /\ ended[s] => s \in dended \/ reader # "reading"

InletInv == \A s \in In : Inlet(s)

WaitInv == waited => outcome # "none" /\ \A s \in In : drain[s] \in {"none", "done"}

InletKeeps == <<drain, queue, ended, inlets, opened, discard, output, dended, reader>>

LEMMA InletKept == InletInv /\ UNCHANGED InletKeeps => InletInv'
BY DEF InletInv, Inlet, InletKeeps

LEMMA InletStep ==
    TypeOK /\ WindowInv /\ ReaderInv /\ InletInv /\ [Next]_vars => InletInv'
<1> SUFFICES ASSUME TypeOK, WindowInv, ReaderInv, InletInv, [Next]_vars PROVE InletInv'
  OBVIOUS
<1> USE DEF InletKeeps, outboxVars, writerVars, creditVars, pumpVars, inletVars, drainVars, sinkVars,
            readerVars, wireVars, daemonVars, daemonOut, daemonIn, signalVars
<1>0. /\ queue \in [In -> Seq(Document)] /\ ended \in [In -> BOOLEAN] /\ discard \in [In -> BOOLEAN]
      /\ drain \in [In -> {"none", "wait", "write", "grant", "done"}] /\ output \in [In -> Nat]
      /\ inlets \subseteq In /\ opened \subseteq Descriptors
      /\ Outputs \cap Writable = {} /\ In = Outputs \cup Writable
      /\ \A s \in In : Inlet(s)
  BY SessionAssumption DEF InletInv, TypeOK, InletsOK, DrainsOK, ReaderOK, SinksOK, In
<1>1. CASE UNCHANGED vars \/ Wait \/ Terminated \/ Writer
  BY <1>1, InletKept DEF vars, Wait, Terminated, Writer, WriterPops, WriterReturns, WriterWrites,
     WriterFails
<1>2. ASSUME NEW s \in Out, Pump(s) PROVE InletInv'
  BY <1>2, InletKept DEF Pump, PumpAllowance, PumpReads, PumpSends, PumpFinishes, PumpEnds
<1>3. ASSUME NEW s \in In, Drain(s) PROVE InletInv'
  <2>0. drain[s] \notin {"none", "done"} /\ UNCHANGED <<ended, inlets, opened, dended, reader>>
    BY <1>3 DEF Drain, DrainTakes, DrainWrites, DrainGrants
  <2>1. ASSUME NEW x \in In, x # s PROVE Inlet(x)'
    <3>1. UNCHANGED <<drain[x], queue[x], discard[x], output[x]>>
      BY <1>0, <1>3, <2>1 DEF Drain, DrainTakes, DrainWrites, DrainGrants
    <3>. QED
      BY <1>0, <2>0, <3>1 DEF Inlet
  <2>2. /\ drain'[s] # "none"
        /\ drain'[s] = "done" => queue'[s] = <<>> /\ ended[s]
    BY <1>0, <1>3 DEF Drain, DrainTakes, DrainWrites, DrainGrants
  <2>3. Inlet(s)'
    BY <1>0, <2>0, <2>2 DEF Inlet
  <2>. QED
    BY <2>1, <2>3 DEF InletInv
<1>4. CASE Reader
  <2>1. CASE ReadData
    <3> DEFINE d == Head(down)
    <3>1. /\ UNCHANGED <<drain, ended, inlets, opened, discard, output, dended, reader>>
          /\ \/ UNCHANGED queue
             \/ d.stream \in inlets /\ queue' = [queue EXCEPT ![d.stream] = Append(@, d)]
      BY <2>1 DEF ReadData, Receives
    <3> HIDE DEF d
    <3>. QED
      BY <1>0, <3>1 DEF InletInv, Inlet
  <2>2. CASE ReadEnd
    <3> DEFINE s == Head(down).stream
    <3>1. /\ UNCHANGED <<drain, queue, opened, discard, output, dended, reader>>
          /\ \/ UNCHANGED <<inlets, ended>>
             \/ s \in inlets /\ inlets' = inlets \ {s} /\ ended' = [ended EXCEPT ![s] = TRUE]
      BY <2>2 DEF ReadEnd, Receives
    <3>2. s \in In => s \in dended
      <4>1. down \in Seq(Fitting) /\ down # <<>> /\ Head(down).type = "end"
        BY <2>2 DEF ReadEnd, Receives, WindowInv, Bounds, LanesInv
      <4>2. Names(down, "end", s)
        BY <4>1, NamesTail
      <4>. QED
        BY <4>2 DEF ReaderInv
    <3> HIDE DEF s
    <3>. QED
      BY <1>0, <3>1, <3>2 DEF InletInv, Inlet
  <2>3. CASE ReadOpen
    <3> DEFINE fd == Head(down).stream
    <3>1. CASE Openable(fd) /\ OpensFor(fd)
      <4>1. UNCHANGED <<output, dended, reader>> /\ fd \in Descriptors \ opened
        BY <2>3, <3>1 DEF ReadOpen, Receives, Openable
      <4> HIDE DEF fd
      <4>2. CASE fd \in Writable
        BY <1>0, <3>1, <4>1, <4>2 DEF InletInv, Inlet, OpensFor
      <4>3. CASE fd \notin Writable
        BY <1>0, <3>1, <4>1, <4>3 DEF InletInv, Inlet, OpensFor
      <4>. QED
        BY <4>2, <4>3
    <3>2. CASE UNCHANGED <<opened, inletVars, drain>>
      BY <2>3, <3>2, InletKept DEF ReadOpen, Receives
    <3>. QED
      BY <2>3, <3>1, <3>2 DEF ReadOpen
  <2>4. CASE ReadExitStatus \/ ReadFails
    <3>1. reader' # "reading" /\ UNCHANGED <<drain, queue, ended, inlets, opened, discard, output, dended>>
      BY <2>4 DEF ReadExitStatus, ReadFails, Receives
    <3>. QED
      BY <3>1 DEF InletInv, Inlet
  <2>5. CASE ReaderReleases
    <3>1. reader # "reading" /\ reader' = reader
      BY <2>5 DEF ReaderReleases, Over
    <3>. QED
      BY <1>0, <2>5, <3>1 DEF ReaderReleases, InletInv, Inlet
  <2>. QED
    BY <1>4, <2>1, <2>2, <2>3, <2>4, <2>5, InletKept DEF Reader, Receives, ReadCredit, ReadClosed,
       ReadSignalAck, ReaderClosesCredits, ReaderClosesOutbox
<1>5. CASE Client
  <2>1. ASSUME NEW s \in In, DiscardStdout(s) PROVE InletInv'
    BY <1>0, <2>1 DEF DiscardStdout, InletInv, Inlet
  <2>. QED
    BY <1>5, <2>1, InletKept DEF Client, Signal, Disconnect, SinkBreaks
<1>6. CASE Daemon
  <2>1. dended \subseteq dended' /\ UNCHANGED <<drain, queue, ended, inlets, opened, discard, output, reader>>
    BY <1>6 DEF Daemon, DaemonReads, DaemonAcks, DaemonExits, DaemonWrites, DaemonEnds, DaemonGrants,
       DaemonCloses, DaemonOpens, DaemonSends, launcherVars
  <2>. QED
    BY <2>1 DEF InletInv, Inlet
<1>. QED
  BY <1>1, <1>2, <1>3, <1>4, <1>5, <1>6 DEF Next

LEMMA WaitStep == TypeOK /\ ReaderInv /\ WaitInv /\ [Next]_vars => WaitInv'
<1> SUFFICES ASSUME TypeOK, ReaderInv, WaitInv, [Next]_vars PROVE WaitInv'
  OBVIOUS
<1> USE DEF outboxVars, writerVars, creditVars, pumpVars, inletVars, drainVars, sinkVars,
            readerVars, wireVars, daemonVars, daemonOut, daemonIn, signalVars
<1>1. CASE UNCHANGED vars \/ Terminated \/ Writer \/ Client
  BY <1>1 DEF WaitInv, vars, Terminated, Writer, WriterPops, WriterReturns, WriterWrites, WriterFails,
     Client, Signal, Disconnect, DiscardStdout, SinkBreaks
<1>2. ASSUME NEW s \in Out, Pump(s) PROVE WaitInv'
  BY <1>2 DEF WaitInv, Pump, PumpAllowance, PumpReads, PumpSends, PumpFinishes, PumpEnds
<1>3. ASSUME NEW s \in In, Drain(s) PROVE WaitInv'
  <2>1. drain[s] \notin {"none", "done"} /\ UNCHANGED <<waited, outcome>>
    BY <1>3 DEF Drain, DrainTakes, DrainWrites, DrainGrants
  <2>. QED
    BY <2>1 DEF WaitInv
<1>4. CASE Reader
  <2>1. CASE \E type : Receives(type)
    <3>1. waited' = waited /\ reader = "reading"
      BY <2>1 DEF Receives
    <3>. QED
      BY <3>1 DEF WaitInv, ReaderInv
  <2>2. CASE ReadFails \/ ReaderClosesCredits \/ ReaderClosesOutbox \/ ReaderReleases
    BY <2>2 DEF WaitInv, ReadFails, ReaderClosesCredits, ReaderClosesOutbox, ReaderReleases, Over
  <2>. QED
    BY <1>4, <2>1, <2>2 DEF Reader, ReadData, ReadEnd, ReadCredit, ReadClosed, ReadOpen, ReadSignalAck,
       ReadExitStatus
<1>5. CASE Wait
  BY <1>5 DEF WaitInv, Wait
<1>6. CASE Daemon
  BY <1>6 DEF WaitInv, Daemon, DaemonReads, DaemonAcks, DaemonExits, DaemonWrites, DaemonEnds, DaemonGrants,
       DaemonCloses, DaemonOpens, DaemonSends, launcherVars
<1>. QED
  BY <1>1, <1>2, <1>3, <1>4, <1>5, <1>6 DEF Next

-----------------------------------------------------------------------------
(* From the daemon's writes to the sink, a stream is in order and without  *)
(* gaps until it is discarded.                                             *)

\* What a drain has taken and not yet written, and where what is in the socket begins.
Pending(s) == IF drain[s] = "write" THEN taken[s][1].bytes ELSE 0
Arrived(s) == output[s] + Pending(s) + Bytes(queue[s], "data", s)

\* A drain writes at the place its sink has reached, and only what the daemon wrote.
Writing(s) ==
    drain[s] = "write" /\ ~dropping[s] =>
        taken[s][1].from = output[s] /\ output[s] + taken[s][1].bytes <= dwritten[s]

InLane(s) ==
    /\ drain[s] = "write" => ~dropping[s]
    /\ Follows(queue[s], s, output[s] + Pending(s), 0)
    /\ Follows(down, s, Arrived(s), dwritten[s])
    /\ Arrived(s) + Bytes(down, "data", s) = dwritten[s]
    /\ ended[s] => Arrived(s) = dwritten[s]

Lane(s) == Writing(s) /\ (~discard[s] => InLane(s))

LaneInv == \A s \in In : Lane(s)

LEMMA LaneKept ==
    ASSUME NEW s \in In, Lane(s),
           UNCHANGED <<drain[s], dropping[s], taken[s], output[s], dwritten[s], discard[s], queue[s],
                       down, ended[s]>>
    PROVE  Lane(s)'
BY DEF Lane, Writing, InLane, Pending, Arrived

LEMMA AtMostOne ==
    ASSUME NEW S, NEW q \in Seq(S), q # <<>>, Len(q) <= 1
    PROVE  Len(q) = 1
<1>1. Len(q) \in Nat
  OBVIOUS
<1>2. Len(q) # 0
  <2> SUFFICES ASSUME Len(q) = 0 PROVE q = <<>>
    OBVIOUS
  <2>. QED
    OBVIOUS
<1>. QED
  BY <1>1, <1>2

LEMMA OneAlone ==
    ASSUME NEW S, NEW q \in Seq(S), Len(q) = 1
    PROVE  q # <<>> /\ q[1] = Head(q) /\ Tail(q) = <<>> /\ q[1] \in S
<1>1. q # <<>> /\ q[1] = Head(q) /\ q[1] \in S
  OBVIOUS
<1>2. Tail(q) \in Seq(S) /\ Len(Tail(q)) = 0
  BY <1>1
<1> DEFINE t == Tail(q)
<1>3. t \in Seq(S) /\ Len(t) = 0
  BY <1>2
<1> HIDE DEF t
<1>4. t = <<>>
  BY <1>3
<1>. QED
  BY <1>1, <1>4 DEF t

\* The chunk a drain holds.
LEMMA TakenChunk ==
    ASSUME WindowInv, FullInv, NEW s \in In, drain[s] \in {"write", "grant"}
    PROVE  /\ taken[s][1] \in Chunks(s) /\ taken[s][1].bytes \in Nat /\ taken[s][1].bytes > 0
           /\ taken[s][1].bytes <= Bytes(taken[s], "data", s)
           /\ Bytes(taken[s], "data", s) = taken[s][1].bytes
<1>1. /\ taken[s] \in Seq(Chunks(s)) /\ taken[s] \in Seq(Full) /\ Chunks(s) \subseteq Fitting
      /\ Len(taken[s]) = 1
  BY LaneTypes DEF WindowInv, Bounds, QueuesInv, FullInv, TypeOK, DrainsOK
<1>2. /\ taken[s] # <<>> /\ taken[s][1] = Head(taken[s]) /\ Tail(taken[s]) = <<>>
      /\ taken[s][1] \in Full
  BY <1>1, OneAlone
<1>3. Bytes(Tail(taken[s]), "data", s) = 0
  BY <1>2, BytesOfEmpty
<1>4. /\ taken[s][1] \in Chunks(s) /\ Carries(taken[s][1], "data", s) \in Nat
      /\ Bytes(taken[s], "data", s) = Carries(taken[s][1], "data", s) + Bytes(Tail(taken[s]), "data", s)
  BY <1>1, <1>2, Popping
<1>5. Carries(taken[s][1], "data", s) = taken[s][1].bytes /\ taken[s][1].bytes > 0
  BY <1>2, <1>4 DEF Carries, Chunks, Full
<1>. QED
  BY <1>3, <1>4, <1>5

LaneNatural ==
    \A s \in In :
        /\ output[s] \in Nat /\ dwritten[s] \in Nat /\ Pending(s) \in Nat /\ Arrived(s) \in Nat
        /\ Bytes(queue[s], "data", s) \in Nat /\ Bytes(down, "data", s) \in Nat
        /\ Pending(s) <= Bytes(taken[s], "data", s) /\ Bytes(taken[s], "data", s) \in Nat

LEMMA LaneNumbers == WindowInv /\ FullInv => LaneNatural
<1> SUFFICES ASSUME WindowInv, FullInv, NEW s \in In
             PROVE  /\ output[s] \in Nat /\ dwritten[s] \in Nat /\ Pending(s) \in Nat /\ Arrived(s) \in Nat
                    /\ Bytes(queue[s], "data", s) \in Nat /\ Bytes(down, "data", s) \in Nat
                    /\ Pending(s) <= Bytes(taken[s], "data", s) /\ Bytes(taken[s], "data", s) \in Nat
  BY DEF LaneNatural
<1>1. InNaturalAt(s) /\ output[s] \in Nat /\ dwritten[s] \in Nat
  BY Numbers DEF InNatural, WindowInv, TypeOK, SinksOK, DaemonOK
<1>2. Pending(s) \in Nat /\ Pending(s) <= Bytes(taken[s], "data", s)
  BY <1>1, TakenChunk DEF Pending, InNaturalAt
<1>. QED
  BY <1>1, <1>2 DEF InNaturalAt, Arrived

\* All that the steps of a lane take for granted.
Settled == WindowInv /\ FullInv /\ ReaderInv /\ InletInv /\ WaitInv /\ LaneInv

LEMMA LaneNumbersNext == WindowInv' /\ FullInv' => LaneNatural'
BY LaneNumbers, PTL

LEMMA LaneDrains ==
    ASSUME Settled, NEW p \in In, Drain(p)
    PROVE  LaneInv'
<1> USE DEF outboxVars, writerVars, creditVars, pumpVars, inletVars, drainVars, sinkVars,
            readerVars, wireVars, daemonVars, daemonOut, daemonIn, signalVars
<1>0. /\ queue \in [In -> Seq(Document)] /\ discard \in [In -> BOOLEAN] /\ dropping \in [In -> BOOLEAN]
      /\ drain \in [In -> {"none", "wait", "write", "grant", "done"}] /\ output \in [In -> Nat]
      /\ taken \in [In -> Seq(Document)]
      /\ UNCHANGED <<down, dwritten, ended>> /\ \A s \in In : Lane(s)
  BY DEF Settled, LaneInv, WindowInv, TypeOK, InletsOK, DrainsOK, SinksOK, Drain, DrainTakes, DrainWrites,
     DrainGrants
<1>1. ASSUME NEW s \in In, s # p PROVE Lane(s)'
  <2>1. UNCHANGED <<drain[s], dropping[s], taken[s], output[s], discard[s], queue[s]>>
    BY <1>0, <1>1 DEF Drain, DrainTakes, DrainWrites, DrainGrants
  <2>. QED
    BY <1>0, <2>1, LaneKept
<1>2. LaneNatural
  BY LaneNumbers DEF Settled
<1>3. CASE DrainTakes(p) /\ queue[p] # <<>>
  <2> DEFINE d == Head(queue[p])
             t == Tail(queue[p])
  <2>1. /\ drain[p] = "wait" /\ Pending(p) = 0 /\ UNCHANGED <<output, discard>>
        /\ drain'[p] = "write" /\ dropping'[p] = discard[p] /\ queue'[p] = t /\ taken'[p] = <<d>>
    BY <1>0, <1>3 DEF DrainTakes, Pending
  <2>2. queue[p] \in Seq(Chunks(p)) /\ queue[p] # <<>> /\ Chunks(p) \subseteq Fitting
    BY <1>3, LaneTypes DEF Settled, WindowInv, Bounds, QueuesInv
  <2>3. /\ d \in Chunks(p) /\ Carries(d, "data", p) \in Nat /\ Bytes(t, "data", p) \in Nat
        /\ Bytes(queue[p], "data", p) = Carries(d, "data", p) + Bytes(t, "data", p)
    BY <2>2, Popping
  <2>4. d.type = "data" /\ d.stream = p /\ Carries(d, "data", p) = d.bytes
    BY <2>3 DEF Chunks, Carries
  <2>5. ASSUME ~discard[p]
        PROVE  /\ Follows(t, p, output[p] + d.bytes, 0) /\ d.from = output[p]
               /\ Arrived(p) + Bytes(down, "data", p) = dwritten[p]
    <3>1. InLane(p) /\ output[p] + Pending(p) = output[p] /\ output[p] \in Nat
      BY <1>0, <1>2, <2>1, <2>5 DEF Lane, LaneNatural
    <3>2. Follows(queue[p], p, output[p], 0) /\ Arrived(p) + Bytes(down, "data", p) = dwritten[p]
      BY <3>1 DEF InLane
    <3>. QED
      BY <2>2, <2>4, <3>1, <3>2, FollowsTail
  <2>6. taken'[p][1] = d
    BY <2>1
  <2> HIDE DEF d, t
  <2>7. Pending(p)' = d.bytes /\ d.bytes \in Nat
    BY <2>1, <2>3, <2>4, <2>6 DEF Pending
  <2>8. Arrived(p)' = Arrived(p)
    BY <1>2, <2>1, <2>3, <2>4, <2>7 DEF Arrived, LaneNatural
  <2>9. Writing(p)'
    <3>1. CASE ~discard[p]
      <4>1. output[p] + d.bytes <= dwritten[p]
        BY <1>2, <2>1, <2>3, <2>4, <2>5, <2>7, <3>1 DEF Arrived, LaneNatural
      <4>. QED
        BY <1>0, <2>1, <2>5, <2>6, <3>1, <4>1 DEF Writing
    <3>. QED
      BY <2>1, <3>1 DEF Writing
  <2>10. ~discard'[p] => InLane(p)'
    BY <1>0, <2>1, <2>5, <2>7, <2>8 DEF InLane, Lane
  <2>. QED
    BY <1>1, <2>9, <2>10 DEF LaneInv, Lane
<1>4. CASE DrainTakes(p) /\ queue[p] = <<>>
  <2>1. /\ drain[p] = "wait" /\ drain'[p] = "done" /\ UNCHANGED <<output, discard, queue, taken, dropping>>
    BY <1>0, <1>4 DEF DrainTakes
  <2>2. Pending(p)' = Pending(p) /\ Arrived(p)' = Arrived(p)
    BY <2>1 DEF Pending, Arrived
  <2>. QED
    BY <1>0, <1>1, <2>1, <2>2 DEF LaneInv, Lane, Writing, InLane
<1>5. CASE DrainWrites(p)
  <2>1. /\ drain[p] = "write" /\ drain'[p] = "grant" /\ UNCHANGED <<queue, taken, dropping>>
        /\ Pending(p)' = 0 /\ Pending(p) = taken[p][1].bytes
    BY <1>0, <1>5 DEF DrainWrites, Pending
  <2>2. ASSUME ~discard'[p]
        PROVE  InLane(p) /\ output'[p] = output[p] + Pending(p)
    <3>1. discard' = discard /\ ~dropping[p]
      BY <1>0, <1>5, <2>1, <2>2 DEF DrainWrites, Lane, InLane
    <3>. QED
      BY <1>0, <1>5, <2>1, <2>2, <3>1 DEF DrainWrites, Lane
  <2>3. ASSUME ~discard'[p] PROVE InLane(p)'
    <3>1. output'[p] + Pending(p)' = output[p] + Pending(p) /\ Arrived(p)' = Arrived(p)
      BY <1>2, <2>1, <2>2, <2>3 DEF LaneNatural, Arrived
    <3>. QED
      BY <1>0, <2>1, <2>2, <2>3, <3>1 DEF InLane
  <2>. QED
    BY <1>1, <2>1, <2>3 DEF LaneInv, Lane, Writing
<1>6. CASE DrainGrants(p)
  <2>1. /\ drain[p] = "grant" /\ drain'[p] = "wait" /\ UNCHANGED <<output, discard, queue, dropping>>
    BY <1>0, <1>6 DEF DrainGrants
  <2>2. Pending(p)' = Pending(p) /\ Arrived(p)' = Arrived(p)
    BY <2>1 DEF Pending, Arrived
  <2>. QED
    BY <1>0, <1>1, <2>1, <2>2 DEF LaneInv, Lane, Writing, InLane
<1>. QED
  BY <1>3, <1>4, <1>5, <1>6 DEF Drain

\* What leaves the socket is what comes next of its stream.
LEMMA LaneHead ==
    ASSUME Settled, NEW type, Receives(type), NEW s \in In, ~discard[s]
    PROVE  /\ InLane(s) /\ Head(down) \in Full /\ Head(down).type = type
           /\ Carries(Head(down), "data", s) \in Nat
           /\ Follows(down', s, Arrived(s) + Carries(Head(down), "data", s), dwritten[s])
           /\ Arrived(s) + Carries(Head(down), "data", s) + Bytes(down', "data", s) = dwritten[s]
           /\ Bytes(down', "data", s) \in Nat
           /\ Head(down).stream = s => /\ type = "data" => Head(down).from = Arrived(s)
                                       /\ type = "end" => Arrived(s) = dwritten[s]
<1>1. /\ down \in Seq(Full) /\ down # <<>> /\ down' = Tail(down) /\ Head(down).type = type
      /\ Full \subseteq Fitting
  BY DEF Receives, Settled, FullInv, Full
<1>2. InLane(s) /\ Arrived(s) \in Nat /\ dwritten[s] \in Nat
  BY LaneNumbers DEF Settled, LaneInv, Lane, LaneNatural
<1>3. /\ Head(down) \in Full /\ Carries(Head(down), "data", s) \in Nat /\ Bytes(down', "data", s) \in Nat
      /\ Bytes(down, "data", s) = Carries(Head(down), "data", s) + Bytes(down', "data", s)
  BY <1>1, Popping
<1>4. /\ Follows(down', s, Arrived(s) + Carries(Head(down), "data", s), dwritten[s])
      /\ Head(down).stream = s => /\ type = "data" => Head(down).from = Arrived(s)
                                  /\ type = "end" => Arrived(s) = dwritten[s]
  BY <1>1, <1>2, FollowsTail DEF InLane
<1>5. Arrived(s) + Bytes(down, "data", s) = dwritten[s]
  BY <1>2 DEF InLane
<1>. QED
  BY <1>1, <1>2, <1>3, <1>4, <1>5

\* A stream that the document is not about.
LEMMA LaneAside ==
    ASSUME Settled, NEW type, Receives(type), NEW s \in In,
           type \notin {"data", "end"} \/ Head(down).stream # s,
           UNCHANGED <<drain[s], dropping[s], taken[s], discard[s], queue[s], ended[s]>>
    PROVE  Lane(s)'
<1>1. UNCHANGED <<output, dwritten>> /\ Lane(s)
  BY DEF Receives, sinkVars, daemonVars, daemonOut, Settled, LaneInv
<1>2. Pending(s)' = Pending(s) /\ Arrived(s)' = Arrived(s) /\ Writing(s)'
  BY <1>1 DEF Pending, Arrived, Lane, Writing
<1>3. ASSUME ~discard[s] PROVE InLane(s)'
  <2>1. Carries(Head(down), "data", s) = 0
    BY <1>3, LaneHead DEF Carries
  <2>2. /\ Follows(down', s, Arrived(s), dwritten[s])
        /\ Arrived(s) + Bytes(down', "data", s) = dwritten[s]
    <3>1. Arrived(s) \in Nat
      BY LaneNumbers DEF Settled, LaneNatural
    <3>. QED
      BY <1>3, <2>1, <3>1, LaneHead
  <2>. QED
    BY <1>1, <1>2, <1>3, <2>2, LaneHead DEF InLane
<1>. QED
  BY <1>1, <1>2, <1>3 DEF Lane

LEMMA LaneReads ==
    ASSUME Settled, ReadData
    PROVE  LaneInv'
<1> DEFINE d == Head(down)
<1> PICK p : p = d.stream
  OBVIOUS
<1> DEFINE more == Append(queue[p], d)
<1>0. /\ Receives("data")
      /\ UNCHANGED <<drain, dropping, taken, discard, ended, output, dwritten>>
      /\ queue' = IF p \in inlets /\ ~ended[p] THEN [queue EXCEPT ![p] = Append(@, d)] ELSE queue
      /\ queue \in [In -> Seq(Document)] /\ inlets \subseteq In
  BY DEF ReadData, Receives, drainVars, sinkVars, daemonVars, daemonOut, Settled, WindowInv, TypeOK, InletsOK
<1>1. ASSUME NEW s \in In, s # p PROVE Lane(s)'
  BY <1>0, <1>1, LaneAside
<1>2. ASSUME p \in In PROVE Lane(p)'
  <2>1. Writing(p)'
    BY <1>0, <1>2 DEF Settled, LaneInv, Lane, Writing
  <2>2. ASSUME ~discard[p] PROVE InLane(p)'
    <3>0. /\ InLane(p) /\ d \in Full /\ d.type = "data" /\ d.from = Arrived(p)
          /\ Carries(d, "data", p) = d.bytes /\ d.bytes \in Nat /\ d.bytes > 0
          /\ Follows(down', p, Arrived(p) + d.bytes, dwritten[p])
          /\ Arrived(p) + d.bytes + Bytes(down', "data", p) = dwritten[p]
          /\ Bytes(down', "data", p) \in Nat
      BY <1>0, <1>2, <2>2, LaneHead DEF Carries, Full
    <3>1. /\ output[p] \in Nat /\ Pending(p) \in Nat /\ Bytes(queue[p], "data", p) \in Nat
          /\ Arrived(p) \in Nat
      BY <1>2, LaneNumbers DEF Settled, LaneNatural
    <3>2. p \in inlets /\ ~ended[p]
      <4>1. ~ended[p]
        BY <3>0, <3>1 DEF InLane
      <4>2. p \in Outputs \cup opened
        <5>1. ASSUME p \notin Outputs \cup opened PROVE FALSE
          <6>1. p \in Writable \ opened
            BY <1>2, <5>1 DEF In
          <6>2. OpenFirst(down, p) /\ down \in Seq(Full) /\ down # <<>>
            BY <1>0, <6>1 DEF Settled, ReaderInv, FullInv, Receives
          <6>. QED
            BY <3>0, <6>2, OpenFirstTail
        <5>. QED
          BY <5>1
      <4>. QED
        BY <1>2, <4>1, <4>2 DEF Settled, InletInv, Inlet
    <3>3. queue'[p] = more /\ queue[p] \in Seq(Chunks(p)) /\ d \in Chunks(p) /\ Chunks(p) \subseteq Fitting
      BY <1>0, <1>2, <3>0, <3>2, LaneTypes DEF Settled, WindowInv, Bounds, QueuesInv, Full, Chunks
    <3> DEFINE at == output[p] + Pending(p)
    <3>4. at \in Nat /\ Arrived(p) = at + Bytes(queue[p], "data", p) /\ (output[p] + Pending(p))' = at
      BY <1>0, <3>1 DEF Arrived, Pending
    <3>5. Bytes(more, "data", p) = Bytes(queue[p], "data", p) + d.bytes
      BY <3>0, <3>3, Appending
    <3>6. Arrived(p)' = Arrived(p) + d.bytes
      BY <1>0, <3>1, <3>0, <3>3, <3>4, <3>5 DEF Arrived
    <3>7. Follows(more, p, at, 0)
      <4>1. Follows(queue[p], p, at, 0)
        BY <3>0 DEF InLane
      <4>2. d.from = at + Bytes(queue[p], "data", p)
        BY <3>0, <3>4
      <4> HIDE DEF d, at
      <4>. QED
        BY <3>0, <3>3, <4>1, <4>2, FollowsAppend
    <3> HIDE DEF d, at, more
    <3>. QED
      BY <1>0, <3>0, <3>2, <3>3, <3>4, <3>6, <3>7 DEF InLane
  <2>. QED
    BY <1>0, <2>1, <2>2 DEF Lane
<1>. QED
  BY <1>1, <1>2 DEF LaneInv

LEMMA LaneEnds ==
    ASSUME Settled, ReadEnd
    PROVE  LaneInv'
<1> DEFINE d == Head(down)
<1> PICK p : p = d.stream
  OBVIOUS
<1>0. /\ Receives("end")
      /\ UNCHANGED <<drain, dropping, taken, discard, queue, output, dwritten>>
      /\ ended' = ended \/ ended' = [ended EXCEPT ![p] = TRUE]
      /\ ended \in [In -> BOOLEAN]
  BY DEF ReadEnd, Receives, drainVars, sinkVars, daemonVars, daemonOut, Settled, WindowInv, TypeOK, InletsOK
<1>1. ASSUME NEW s \in In, s # p PROVE Lane(s)'
  BY <1>0, <1>1, LaneAside
<1>2. ASSUME p \in In PROVE Lane(p)'
  <2>1. Writing(p)' /\ Pending(p)' = Pending(p) /\ Arrived(p)' = Arrived(p)
    BY <1>0, <1>2 DEF Settled, LaneInv, Lane, Writing, Pending, Arrived
  <2>2. ASSUME ~discard[p] PROVE InLane(p)'
    <3>0. /\ InLane(p) /\ d.type = "end" /\ Arrived(p) = dwritten[p]
          /\ Follows(down', p, Arrived(p) + Carries(d, "data", p), dwritten[p])
          /\ Arrived(p) + Carries(d, "data", p) + Bytes(down', "data", p) = dwritten[p]
      BY <1>0, <1>2, <2>2, LaneHead
    <3>1. Carries(d, "data", p) = 0 /\ Arrived(p) \in Nat
      BY <1>2, <3>0, LaneNumbers DEF Carries, Settled, LaneNatural
    <3> HIDE DEF d
    <3>. QED
      BY <1>0, <2>1, <3>0, <3>1 DEF InLane
  <2>. QED
    BY <1>0, <2>1, <2>2 DEF Lane
<1>. QED
  BY <1>1, <1>2 DEF LaneInv

LEMMA LaneOpens ==
    ASSUME Settled, ReadOpen
    PROVE  LaneInv'
<1> PICK fd : fd = Head(down).stream
  OBVIOUS
<1>0. /\ Receives("open") /\ UNCHANGED <<taken, dropping, output, dwritten>>
      /\ queue \in [In -> Seq(Document)] /\ ended \in [In -> BOOLEAN] /\ discard \in [In -> BOOLEAN]
      /\ drain \in [In -> {"none", "wait", "write", "grant", "done"}]
      /\ \A s \in In : Inlet(s)
  BY DEF ReadOpen, Receives, sinkVars, daemonVars, daemonOut, Settled, InletInv, WindowInv, TypeOK,
     InletsOK, DrainsOK
<1>1. CASE UNCHANGED <<queue, ended, discard, drain>>
  BY <1>0, <1>1, LaneAside DEF LaneInv
<1>2. CASE fd \in Writable \ opened /\ OpensFor(fd)
  <2>1. ASSUME NEW s \in In, s # fd PROVE Lane(s)'
    BY <1>0, <1>2, <2>1, LaneAside DEF OpensFor
  <2>2. fd \in In /\ fd \notin Outputs
    BY <1>2, SessionAssumption DEF In
  <2>3. drain[fd] = "none" /\ ~discard[fd] /\ queue[fd] = <<>> /\ ~ended[fd]
    BY <1>0, <1>2, <2>2 DEF Inlet
  <2>4. drain'[fd] = "wait" /\ UNCHANGED <<discard[fd], queue[fd], ended[fd]>>
    BY <1>0, <1>2, <2>2, <2>3 DEF OpensFor
  <2>5. Pending(fd)' = 0 /\ Pending(fd) = 0 /\ Arrived(fd)' = Arrived(fd) /\ Writing(fd)'
    BY <1>0, <2>3, <2>4 DEF Pending, Arrived, Writing
  <2>6. InLane(fd)'
    <3>1. /\ InLane(fd) /\ Head(down).type = "open"
          /\ Follows(down', fd, Arrived(fd) + Carries(Head(down), "data", fd), dwritten[fd])
          /\ Arrived(fd) + Carries(Head(down), "data", fd) + Bytes(down', "data", fd) = dwritten[fd]
      BY <1>0, <2>2, <2>3, LaneHead
    <3>2. Carries(Head(down), "data", fd) = 0 /\ Arrived(fd) \in Nat
      BY <2>2, <3>1, LaneNumbers DEF Carries, Settled, LaneNatural
    <3>. QED
      BY <1>0, <2>3, <2>4, <2>5, <3>1, <3>2 DEF InLane
  <2>. QED
    BY <2>1, <2>5, <2>6 DEF LaneInv, Lane
<1>. QED
  BY <1>1, <1>2 DEF ReadOpen, OpensFor, Openable, inletVars, Descriptors

LEMMA LaneReleases ==
    ASSUME Settled, ReaderReleases
    PROVE  LaneInv'
<1>0. /\ UNCHANGED <<drain, dropping, taken, output, dwritten, discard, queue, down>>
      /\ down = <<>> /\ \A s \in In : Lane(s)
  BY DEF ReaderReleases, Over, drainVars, sinkVars, wireVars, daemonVars, daemonOut, Settled, ReaderInv,
     LaneInv
<1>1. ASSUME NEW s \in In, InLane(s) PROVE InLane(s)'
  <2>1. Bytes(down, "data", s) = 0 /\ Arrived(s) \in Nat
    BY <1>0, BytesOfEmpty, LaneNumbers DEF Settled, LaneNatural
  <2>2. Arrived(s) = dwritten[s]
    BY <1>1, <2>1 DEF InLane
  <2>3. Pending(s)' = Pending(s) /\ Arrived(s)' = Arrived(s)
    BY <1>0 DEF Pending, Arrived
  <2>. QED
    BY <1>0, <1>1, <2>2, <2>3 DEF InLane
<1>. QED
  BY <1>0, <1>1 DEF LaneInv, Lane, Writing

LEMMA LaneHears ==
    ASSUME Settled, NEW d \in Full, DaemonSends(d), Authored(d)
    PROVE  LaneInv'
<1>0. /\ UNCHANGED <<drain, dropping, taken, output, discard, queue, ended, reader>>
      /\ connected /\ ~dexit /\ down \in Seq(Full) /\ down' = Append(down, d) /\ Full \subseteq Fitting
  BY DEF DaemonSends, launcherVars, drainVars, sinkVars, inletVars, readerVars, Settled, FullInv, Full
<1>1. reader = "reading"
  BY <1>0 DEF Settled, ReaderInv
<1>2. ASSUME NEW s \in In PROVE Lane(s)'
  <2>0. /\ Lane(s) /\ Inlet(s) /\ (Names(down, "end", s) => s \in dended)
        /\ dwritten[s] \in Nat /\ Arrived(s) \in Nat /\ output[s] \in Nat
        /\ Bytes(down, "data", s) \in Nat /\ Pending(s) \in Nat
    BY LaneNumbers DEF Settled, LaneInv, InletInv, ReaderInv, LaneNatural
  <2>1. /\ dwritten'[s] = dwritten[s] + Carries(d, "data", s) /\ Carries(d, "data", s) \in Nat
        /\ Bytes(down', "data", s) = Bytes(down, "data", s) + Carries(d, "data", s)
    BY <1>0, Appending DEF Authored
  <2>2. Pending(s)' = Pending(s) /\ Arrived(s)' = Arrived(s)
    BY <1>0 DEF Pending, Arrived
  <2>3. Writing(s)'
    <3>1. ASSUME Writing(s), drain[s] = "write", ~dropping[s]
          PROVE  taken[s][1].from = output[s] /\ output[s] + taken[s][1].bytes <= dwritten'[s]
      <4>1. taken[s][1].bytes = Pending(s)
        BY <3>1 DEF Pending
      <4>. QED
        BY <2>0, <2>1, <3>1, <4>1 DEF Writing
    <3>. QED
      BY <1>0, <2>0, <3>1 DEF Writing, Lane
  <2>4. ASSUME ~discard[s] PROVE InLane(s)'
    <3>1. InLane(s)
      BY <2>0, <2>4 DEF Lane
    <3>2. ended[s] => s \in dended
      BY <1>1, <2>0 DEF Inlet
    <3>3. Carries(d, "data", s) # 0 => d.type = "data" /\ d.stream = s /\ s \notin dended
      BY DEF Carries, Authored
    <3>4. ended[s] => Arrived(s) = dwritten'[s]
      BY <2>0, <2>1, <3>1, <3>2, <3>3 DEF InLane
    <3>5. Arrived(s) + Bytes(down', "data", s) = dwritten'[s]
      BY <2>0, <2>1, <3>1 DEF InLane
    <3>6. Follows(down, s, Arrived(s), dwritten'[s])
      <4>1. CASE Carries(d, "data", s) = 0
        BY <2>0, <2>1, <3>1, <4>1 DEF InLane
      <4>2. CASE Carries(d, "data", s) # 0
        BY <2>0, <3>1, <3>3, <4>2, FollowsAny DEF InLane
      <4>. QED
        BY <4>1, <4>2
    <3>7. d.stream = s => /\ d.type = "data" => d.from = Arrived(s) + Bytes(down, "data", s)
                          /\ d.type = "end" => Arrived(s) + Bytes(down, "data", s) = dwritten'[s]
      <4>1. Arrived(s) + Bytes(down, "data", s) = dwritten[s]
        BY <3>1 DEF InLane
      <4>2. d.type = "end" => Carries(d, "data", s) = 0
        BY DEF Carries
      <4>3. d.type = "data" /\ d.stream = s => d.from = dwritten[s]
        BY DEF Authored
      <4>. QED
        BY <2>0, <2>1, <4>1, <4>2, <4>3
    <3>8. Follows(down', s, Arrived(s), dwritten'[s])
      BY <1>0, <3>6, <3>7, FollowsAppend
    <3>. QED
      BY <1>0, <2>2, <3>1, <3>4, <3>5, <3>8 DEF InLane
  <2>. QED
    BY <1>0, <2>3, <2>4 DEF Lane
<1>. QED
  BY <1>2 DEF LaneInv

LEMMA LaneStep == Settled /\ [Next]_vars => LaneInv'
<1> SUFFICES ASSUME Settled, [Next]_vars PROVE LaneInv'
  OBVIOUS
<1> USE DEF outboxVars, writerVars, creditVars, pumpVars, inletVars, drainVars, sinkVars,
            readerVars, wireVars, daemonVars, daemonOut, daemonIn, signalVars
<1>0. ASSUME UNCHANGED <<drain, dropping, taken, output, dwritten, discard, queue, down, ended>>
      PROVE  LaneInv'
  BY <1>0 DEF Settled, LaneInv, Lane, Writing, InLane, Pending, Arrived
<1>1. CASE UNCHANGED vars \/ Wait \/ Terminated \/ Writer
  BY <1>0, <1>1 DEF vars, Wait, Terminated, Writer, WriterPops, WriterReturns, WriterWrites, WriterFails
<1>2. ASSUME NEW s \in Out, Pump(s) PROVE LaneInv'
  BY <1>0, <1>2 DEF Pump, PumpAllowance, PumpReads, PumpSends, PumpFinishes, PumpEnds
<1>3. ASSUME NEW s \in In, Drain(s) PROVE LaneInv'
  BY <1>3, LaneDrains
<1>4. CASE Reader
  <2>1. CASE ReadCredit \/ ReadClosed \/ ReadSignalAck \/ ReadExitStatus
    <3>1. PICK type : /\ Receives(type) /\ type \notin {"data", "end"}
                      /\ UNCHANGED <<drain, dropping, taken, discard, queue, ended>>
      BY <2>1 DEF ReadCredit, ReadClosed, ReadSignalAck, ReadExitStatus
    <3>. QED
      BY <3>1, LaneAside DEF LaneInv
  <2>2. CASE ReadFails \/ ReaderClosesCredits \/ ReaderClosesOutbox
    BY <1>0, <2>2 DEF ReadFails, ReaderClosesCredits, ReaderClosesOutbox
  <2>. QED
    BY <1>4, <2>1, <2>2, LaneReads, LaneEnds, LaneOpens, LaneReleases DEF Reader
<1>5. CASE Client
  <2>1. ASSUME NEW p \in In, DiscardStdout(p) PROVE LaneInv'
    <3>1. /\ UNCHANGED <<drain, dropping, taken, output, dwritten, queue, down, ended>>
          /\ \A s \in In : ~discard'[s] => ~discard[s]
      BY <2>1 DEF DiscardStdout, Settled, WindowInv, TypeOK, InletsOK
    <3>. QED
      BY <3>1 DEF Settled, LaneInv, Lane, Writing, InLane, Pending, Arrived
  <2>2. CASE Signal \/ Disconnect \/ \E s \in In : SinkBreaks(s)
    BY <1>0, <2>2 DEF Signal, Disconnect, SinkBreaks
  <2>. QED
    BY <1>5, <2>1, <2>2 DEF Client
<1>6. CASE Daemon
  <2>1. CASE DaemonReads
    BY <1>0, <2>1 DEF DaemonReads, launcherVars
  <2>2. CASE ~DaemonReads
    BY <1>6, <2>2, DaemonAuthors, LaneHears DEF Settled
  <2>. QED
    BY <2>1, <2>2
<1>. QED
  BY <1>1, <1>2, <1>3, <1>4, <1>5, <1>6 DEF Next

LEMMA SettledInit == Init => Settled
<1> SUFFICES ASSUME Init PROVE Settled
  OBVIOUS
<1>1. WindowInv
  BY WindowInit
<1>2. /\ down = <<>> /\ <<>> \in Seq(Full) /\ reader = "reading" /\ outcome = "none" /\ ~waited
      /\ opened = {} /\ inlets = Outputs /\ \A fd \in Descriptors : dopens[fd] = 0
  BY DEF Init
<1>3. ASSUME NEW s \in In
      PROVE  /\ queue[s] = <<>> /\ taken[s] = <<>> /\ output[s] = 0 /\ dwritten[s] = 0
             /\ ~ended[s] /\ ~discard[s]
             /\ drain[s] = IF s \in Outputs THEN "wait" ELSE "none"
  BY DEF Init
<1>4. FullInv
  BY <1>2, <1>3 DEF FullInv
<1>5. ReaderInv
  <2>1. ExitLast(down) /\ \A fd : OpenFirst(down, fd)
    BY <1>2 DEF ExitLast, OpenFirst
  <2>2. \A type, s : ~Names(down, type, s)
    BY <1>2, NamesNone
  <2>. QED
    BY <1>2, <2>1, <2>2 DEF ReaderInv, Descriptors
<1>6. InletInv /\ WaitInv
  BY <1>2, <1>3 DEF InletInv, Inlet, WaitInv, In
<1>7. ASSUME NEW s \in In PROVE Lane(s)
  <2>1. Bytes(queue[s], "data", s) = 0 /\ Bytes(down, "data", s) = 0
    BY <1>2, <1>3, BytesOfEmpty
  <2>2. Pending(s) = 0 /\ Arrived(s) = 0
    BY <1>3, <2>1 DEF Pending, Arrived
  <2>. QED
    BY <1>2, <1>3, <2>1, <2>2, FollowsNone DEF Lane, Writing, InLane
<1>. QED
  BY <1>1, <1>4, <1>5, <1>6, <1>7 DEF Settled, LaneInv

LEMMA SettledHolds == Spec => []Settled
<1>1. Init => Settled
  BY SettledInit
<1>2. Settled /\ [Next]_vars => Settled'
  <2>. SUFFICES ASSUME Settled, [Next]_vars PROVE Settled'
    OBVIOUS
  <2>1. TypeOK
    BY DEF Settled, WindowInv
  <2>. QED
    BY <2>1, WindowStep, FullStep, ReaderStep, InletStep, WaitStep, LaneStep DEF Settled
<1>. QED
  BY <1>1, <1>2, PTL DEF Spec

\* Chunks arrive in order, in both directions, and `end` behind every one of them (Outbox, `pump`,
\* `writer`, `reader` and `drain` of session.rs): whatever the lanes, the credit, the threads'
\* interleaving and a lost connection do to them.
THEOREM ChunksInOrder == Spec => []InOrder
<1>1. OutInvariant /\ Settled => InOrder
  <2> SUFFICES ASSUME OutInvariant, Settled PROVE InOrder
    OBVIOUS
  <2>1. ASSUME NEW s \in In, drain[s] = "write", ~dropping[s] PROVE taken[s][1].from = output[s]
    BY <2>1 DEF Settled, LaneInv, Lane, Writing
  <2>2. ASSUME up # <<>>
        PROVE  LET d == Head(up) IN
                 /\ d.type = "data" => d.from = dgot[d.stream] /\ d.stream \notin dend
                 /\ d.type = "end" => dgot[d.stream] = carried[d.stream]
    <3> DEFINE d == Head(up)
               s == d.stream
    <3>1. /\ up \in Seq(Notice \cup Content) /\ up \in Seq(Fitting) /\ d \in Notice \cup Content
          /\ d \in Fitting /\ connected
      BY <2>2 DEF OutInvariant, Sound, KindsInv, WindowInv, Bounds, LanesInv, OutOrder
    <3>2. CASE s \in Out
      <4>1. /\ PumpOrder(s) /\ Follows(up, s, dgot[s], carried[s]) /\ AtEnd(s) <= carried[s]
            /\ dgot[s] \in Nat /\ carried[s] \in Nat
        BY <3>1, <3>2, SoundNumbers DEF OutInvariant, Sound, OutOrder, OutLane
      <4>2. /\ d.type = "data" => d.from = dgot[s]
            /\ d.type = "end" => dgot[s] = carried[s]
        BY <2>2, <3>1, <4>1, FollowsTail
      <4>3. ASSUME d.type = "data" PROVE s \notin dend
        <5>1. /\ Carries(d, "data", s) \in Nat /\ Bytes(Tail(up), "data", s) \in Nat
              /\ Bytes(up, "data", s) = Carries(d, "data", s) + Bytes(Tail(up), "data", s)
          BY <2>2, <3>1, Popping
        <5>2. Carries(d, "data", s) > 0
          BY <3>1, <4>3 DEF Carries, Notice, Content
        <5>3. dgot[s] + Bytes(up, "data", s) <= carried[s]
          <6>1. /\ Bytes(up, "data", s) \in Nat /\ Bytes(frame, "data", s) \in Nat
                /\ Bytes(data, "data", s) \in Nat
            BY <3>2, SoundNumbers DEF OutInvariant
          <6>. QED
            BY <4>1, <6>1 DEF AtEnd, AtData, AtFrame
        <5>. QED
          BY <4>1, <5>1, <5>2, <5>3 DEF PumpOrder
      <4>. QED
        BY <4>2, <4>3
    <3>3. CASE s \notin Out
      <4>1. d.type # "data" /\ d.type # "end"
        BY <3>1, <3>3 DEF Notice, Content
      <4>. QED
        BY <4>1
    <3>. QED
      BY <3>2, <3>3
  <2>. QED
    BY <2>1, <2>2 DEF InOrder
<1>. QED
  BY <1>1, OutInvariantHolds, SettledHolds, PTL

\* A drain that is done has written all there was, unless its stream is discarded.
LEMMA DrainedWhole ==
    ASSUME Settled, NEW s \in In, queue[s] = <<>>, ended[s], drain[s] # "write", ~discard[s]
    PROVE  output[s] = dwritten[s]
<1>1. InLane(s) /\ output[s] \in Nat
  BY LaneNumbers DEF Settled, LaneInv, Lane, LaneNatural
<1>2. Bytes(queue[s], "data", s) = 0
  BY BytesOfEmpty
<1>3. Arrived(s) = output[s] /\ Arrived(s) = dwritten[s]
  BY <1>1, <1>2 DEF InLane, Arrived, Pending
<1>. QED
  BY <1>3

\* `wait` returns when the drains are joined (Session::wait), and by then each has written all
\* that the daemon wrote of its stream, unless it was discarded.
THEOREM OutputIsComplete == Spec => []OutputComplete
<1>1. Settled => OutputComplete
  <2> SUFFICES ASSUME Settled, waited, NEW s \in In, drain[s] # "none", ~discard[s]
               PROVE  output[s] = dwritten[s]
    BY DEF OutputComplete
  <2>1. drain[s] = "done" /\ Inlet(s)
    BY DEF Settled, WaitInv, InletInv
  <2>. QED
    BY <2>1, DrainedWhole DEF Inlet
<1>. QED
  BY <1>1, SettledHolds, PTL

-----------------------------------------------------------------------------
(* The daemon's streams are pipes.                                         *)

\* What else happens in a session leaves a stream of the daemon's as it is.
LEMMA InUntouched ==
    ASSUME Settled, [Next]_vars, NEW s \in In, ~DaemonWrites(s), ~Drain(s), ~DiscardStdout(s)
    PROVE  UNCHANGED <<dwritten[s], output[s], drain[s] = "done", discard[s]>>
<1> USE DEF outboxVars, writerVars, creditVars, pumpVars, inletVars, drainVars, sinkVars,
            readerVars, wireVars, daemonVars, daemonOut, daemonIn, signalVars, launcherVars
<1>0. /\ drain \in [In -> {"none", "wait", "write", "grant", "done"}] /\ output \in [In -> Nat]
      /\ discard \in [In -> BOOLEAN] /\ dwritten \in [In -> Nat] /\ Inlet(s)
  BY DEF Settled, WindowInv, TypeOK, DrainsOK, InletsOK, SinksOK, DaemonOK, InletInv
<1>1. CASE UNCHANGED vars \/ Wait \/ Terminated \/ Writer
  BY <1>1 DEF vars, Wait, Terminated, Writer, WriterPops, WriterReturns, WriterWrites, WriterFails
<1>2. CASE Client
  BY <1>0, <1>2 DEF Client, Signal, DiscardStdout, SinkBreaks, Disconnect
<1>3. ASSUME NEW p \in In, Drain(p)
      PROVE  UNCHANGED <<dwritten[s], output[s], drain[s] = "done", discard[s]>>
  BY <1>0, <1>3 DEF Drain, DrainTakes, DrainWrites, DrainGrants
<1>4. ASSUME NEW p \in Out, Pump(p)
      PROVE  UNCHANGED <<dwritten[s], output[s], drain[s] = "done", discard[s]>>
  BY <1>4 DEF Pump, PumpAllowance, PumpReads, PumpSends, PumpFinishes, PumpEnds
<1>5. CASE Reader
  <2>1. CASE ReadOpen
    <3>1. PICK fd : fd = Head(down).stream
      OBVIOUS
    <3>2. CASE fd \in Writable \ opened /\ OpensFor(fd)
      <4>1. s = fd => drain[s] = "none" /\ ~discard[s]
        BY <1>0, <3>2, SessionAssumption DEF Inlet
      <4>2. drain' = [drain EXCEPT ![fd] = "wait"] /\ discard' = [discard EXCEPT ![fd] = FALSE]
        BY <3>2 DEF OpensFor
      <4>. QED
        BY <1>0, <2>1, <4>1, <4>2 DEF ReadOpen, Receives
    <3>3. CASE UNCHANGED <<drain, discard>>
      BY <2>1, <3>3 DEF ReadOpen, Receives
    <3>. QED
      BY <2>1, <3>1, <3>2, <3>3 DEF ReadOpen, OpensFor, Openable
  <2>. QED
    BY <1>5, <2>1 DEF Reader, Receives, ReadData, ReadEnd, ReadCredit, ReadClosed, ReadSignalAck,
       ReadExitStatus, ReadFails, ReaderClosesCredits, ReaderClosesOutbox, ReaderReleases
<1>6. CASE Daemon
  BY <1>0, <1>6 DEF Daemon, DaemonSends, DaemonReads, DaemonAcks, DaemonExits, DaemonWrites, DaemonEnds,
     DaemonGrants, DaemonCloses, DaemonOpens
<1>. QED
  BY <1>1, <1>2, <1>3, <1>4, <1>5, <1>6 DEF Next

LEMMA InboundWrites ==
    ASSUME Settled, Settled', NEW s \in In, DaemonWrites(s)
    PROVE  Inbound(s)!Write
<1>1. PICK n \in 1..Least(dcredit[s], MAXIMUM_CHUNK) : dwritten' = [dwritten EXCEPT ![s] = @ + n]
  BY DEF DaemonWrites
<1>2. /\ connected /\ ~dexit /\ s \notin dended
      /\ UNCHANGED <<output, drain, discard>>
  BY DEF DaemonWrites, DaemonSends, launcherVars, sinkVars, drainVars, inletVars
<1>3. dwritten'[s] = dwritten[s] + n /\ n \in 1..WINDOW
  <2>1. dcredit[s] \in Nat /\ MAXIMUM_CHUNK \in Nat /\ MAXIMUM_CHUNK <= WINDOW /\ WINDOW \in Nat
    BY SessionAssumption DEF Settled, WindowInv, TypeOK, DaemonOK
  <2>2. n \in 1..MAXIMUM_CHUNK
    BY <2>1 DEF Least
  <2>. QED
    BY <1>1, <2>1, <2>2 DEF Settled, WindowInv, TypeOK, DaemonOK
<1>4. drain[s] # "done"
  <2>1. reader = "reading" /\ Inlet(s)
    BY <1>2 DEF Settled, ReaderInv, InletInv
  <2>. QED
    BY <1>2, <2>1 DEF Inlet
<1>5. ~discard[s] => dwritten'[s] - output[s] <= WINDOW
  <2> SUFFICES ASSUME ~discard[s] PROVE dwritten'[s] - output[s] <= WINDOW
    OBVIOUS
  <2>1. (Arrived(s) + Bytes(down, "data", s) = dwritten[s])'
    BY <1>2 DEF Settled, LaneInv, Lane, InLane
  <2>2. LaneNatural' /\ InNatural'
    <3>1. WindowInv' /\ FullInv'
      BY DEF Settled
    <3>. QED
      BY <3>1, LaneNumbersNext, InNumbersNext DEF WindowInv, Bounds
  <2>3. InTotal(s)' <= WINDOW
    BY DEF Settled, WindowInv, Bounds, InInv
  <2>4. /\ output[s] \in Nat /\ Pending(s)' \in Nat /\ Pending(s)' <= Bytes(taken'[s], "data", s)
        /\ Bytes(queue'[s], "data", s) \in Nat /\ Bytes(down', "data", s) \in Nat
        /\ dwritten'[s] \in Nat
    BY <1>2, <2>2 DEF LaneNatural
  <2>5. dwritten'[s] = output[s] + Pending(s)' + Bytes(queue'[s], "data", s) + Bytes(down', "data", s)
    BY <1>2, <2>1 DEF Arrived
  <2>6. Bytes(down', "data", s) + Bytes(queue'[s], "data", s) + Bytes(taken'[s], "data", s) <= WINDOW
    <3>1. InNaturalAt(s)'
      BY <2>2 DEF InNatural
    <3>. QED
      BY <2>3, <3>1, SessionAssumption DEF InTotal, InData, InGrants, InNaturalAt
  <2>. QED
    BY <2>4, <2>5, <2>6, SessionAssumption, <2>2 DEF InNatural, InNaturalAt
<1>. QED
  BY <1>2, <1>3, <1>4, <1>5 DEF Inbound!Write

LEMMA InboundStep ==
    ASSUME Settled, Settled', [Next]_vars, NEW s \in In
    PROVE  [Inbound(s)!Next]_(Inbound(s)!vars)
<1> USE DEF Inbound!Next, Inbound!vars
<1>0. /\ drain \in [In -> {"none", "wait", "write", "grant", "done"}] /\ output \in [In -> Nat]
      /\ discard \in [In -> BOOLEAN] /\ dwritten \in [In -> Nat] /\ Lane(s)
  BY DEF Settled, WindowInv, TypeOK, DrainsOK, InletsOK, SinksOK, DaemonOK, LaneInv
<1>1. CASE DaemonWrites(s)
  BY <1>1, InboundWrites
<1>2. CASE DrainTakes(s)
  <2>1. UNCHANGED <<output, dwritten, discard>> /\ drain[s] = "wait"
    BY <1>2 DEF DrainTakes, sinkVars, daemonVars, daemonOut
  <2>2. CASE queue[s] = <<>> /\ ended[s] /\ drain' = [drain EXCEPT ![s] = "done"]
    <3>1. output[s] = dwritten[s] \/ discard[s]
      BY <2>1, <2>2, DrainedWhole
    <3>2. Inbound(s)!End
      BY <1>0, <2>1, <2>2, <3>1 DEF Inbound!End
    <3>. QED
      BY <3>2
  <2>3. CASE drain' = [drain EXCEPT ![s] = "write"]
    BY <1>0, <2>1, <2>3
  <2>. QED
    BY <1>2, <2>2, <2>3 DEF DrainTakes
<1>3. CASE DrainWrites(s)
  <2>1. UNCHANGED dwritten /\ drain[s] = "write" /\ drain'[s] = "grant"
    BY <1>0, <1>3 DEF DrainWrites, daemonVars, daemonOut
  <2>2. CASE UNCHANGED <<discard, output>>
    BY <2>1, <2>2
  <2>3. CASE discard' = [discard EXCEPT ![s] = TRUE] /\ UNCHANGED output
    <3>1. Inbound(s)!Abandon
      BY <1>0, <2>1, <2>3 DEF Inbound!Abandon
    <3>. QED
      BY <3>1
  <2>4. CASE /\ ~dropping[s] /\ output' = [output EXCEPT ![s] = @ + taken[s][1].bytes]
             /\ UNCHANGED discard
    <3>1. taken[s][1].bytes \in Nat /\ taken[s][1].bytes > 0
      BY <2>1, TakenChunk DEF Settled
    <3>2. output[s] + taken[s][1].bytes <= dwritten[s]
      BY <1>0, <2>1, <2>4 DEF Lane, Writing
    <3>3. Inbound(s)!Deliver
      <4>1. output'[s] = output[s] + taken[s][1].bytes /\ output[s] \in Nat /\ dwritten[s] \in Nat
        BY <1>0, <2>4
      <4>2. output'[s] \in output[s] + 1 .. dwritten[s]
        BY <3>1, <3>2, <4>1
      <4>. QED
        BY <2>1, <2>4, <4>2 DEF Inbound!Deliver
    <3>. QED
      BY <3>3
  <2>. QED
    BY <1>3, <2>2, <2>3, <2>4 DEF DrainWrites
<1>4. CASE DrainGrants(s)
  BY <1>0, <1>4 DEF DrainGrants, inletVars, sinkVars, daemonVars, daemonOut
<1>5. CASE DiscardStdout(s)
  <2>1. Inbound(s)!Abandon
    BY <1>0, <1>5 DEF DiscardStdout, Inbound!Abandon, drainVars, sinkVars, daemonVars, daemonOut
  <2>. QED
    BY <2>1
<1>6. CASE ~DaemonWrites(s) /\ ~Drain(s) /\ ~DiscardStdout(s)
  BY <1>6, InUntouched
<1>. QED
  BY <1>1, <1>2, <1>3, <1>4, <1>5, <1>6 DEF Drain

\* Each stream of the daemon's implements Pipe (`reader`, Inlet and `drain` of session.rs): never more
\* than a window ahead of what the sink was given, the end only behind the last byte, and
\* abandoned only by a sink that broke or a discard.
THEOREM InboundIsPipe == Spec => InboundPipes
<1>1. Init => \A s \in In : Inbound(s)!Init
  BY DEF Init, Inbound!Init
<1>2. Settled /\ Settled' /\ [Next]_vars =>
        \A s \in In : [Inbound(s)!Next]_(Inbound(s)!vars)
  BY InboundStep
<1>. QED
  BY <1>1, <1>2, SettledHolds, PTL DEF Spec, InboundPipes

-----------------------------------------------------------------------------
(* `closed` is sent once.                                                  *)

\* A queue holds no two of a stream.
OneClosing(q, s) ==
    \A i, j \in 1..Len(q) :
        /\ q[i].type = "closed" /\ q[i].stream = s
        /\ q[j].type = "closed" /\ q[j].stream = s
        => i = j

LEMMA ClosingAppend ==
    ASSUME NEW S, NEW q \in Seq(S), NEW d \in S, NEW s, OneClosing(q, s),
           d.type = "closed" /\ d.stream = s => ~Names(q, "closed", s)
    PROVE  OneClosing(Append(q, d), s)
<1>1. /\ Len(Append(q, d)) = Len(q) + 1 /\ Append(q, d)[Len(q) + 1] = d /\ Len(q) \in Nat
      /\ \A i \in 1..Len(q) : Append(q, d)[i] = q[i]
  OBVIOUS
<1> DEFINE r == Append(q, d)
           n == Len(q)
<1>2. /\ Len(r) = n + 1 /\ r[n + 1] = d /\ n \in Nat
      /\ \A i \in 1..n : r[i] = q[i]
      /\ d.type = "closed" /\ d.stream = s => \A i \in 1..n : ~(q[i].type = "closed" /\ q[i].stream = s)
      /\ \A i, j \in 1..n : /\ q[i].type = "closed" /\ q[i].stream = s
                            /\ q[j].type = "closed" /\ q[j].stream = s
                            => i = j
  BY <1>1 DEF OneClosing, Names
<1> HIDE DEF r, n
<1>3. \A i \in 1..(n + 1) : i = n + 1 \/ i \in 1..n
  BY <1>2
<1>4. OneClosing(r, s)
  BY <1>2, <1>3 DEF OneClosing
<1>. QED
  BY <1>4 DEF r

LEMMA ClosingTail ==
    ASSUME NEW S, NEW q \in Seq(S), q # <<>>, NEW s, OneClosing(q, s)
    PROVE  /\ OneClosing(Tail(q), s)
           /\ Head(q).type = "closed" /\ Head(q).stream = s => ~Names(Tail(q), "closed", s)
<1> DEFINE t == Tail(q)
           n == Len(q)
           m == Len(t)
<1>1. /\ m = n - 1 /\ n \in Nat /\ n >= 1 /\ Head(q) = q[1]
      /\ \A i \in 1..m : i + 1 \in 1..n /\ t[i] = q[i + 1]
      /\ \A i, j \in 1..n : /\ q[i].type = "closed" /\ q[i].stream = s
                            /\ q[j].type = "closed" /\ q[j].stream = s
                            => i = j
  BY DEF OneClosing
<1> HIDE DEF n, m, t
<1>2. \A i, j \in 1..m : /\ t[i].type = "closed" /\ t[i].stream = s
                         /\ t[j].type = "closed" /\ t[j].stream = s
                         => i = j
  BY <1>1
<1>3. ASSUME q[1].type = "closed", q[1].stream = s, NEW i \in 1..m
      PROVE  ~(t[i].type = "closed" /\ t[i].stream = s)
  <2>1. i + 1 \in 1..n /\ 1 \in 1..n /\ i + 1 # 1
    BY <1>1
  <2>. QED
    BY <1>1, <1>3, <2>1
<1>. QED
  BY <1>1, <1>2, <1>3 DEF OneClosing, Names, t, m

LEMMA ClosingNone == \A s : OneClosing(<<>>, s)
BY DEF OneClosing

LEMMA ClosingOne == \A d, s : OneClosing(<<d>>, s)
BY DEF OneClosing

\* A stream's `closed` is in one place at a time, from the drain that could not write to the
\* daemon, and that drain never again tries to.
Announced(s) ==
    \/ told[s] = 1
    \/ Names(control, "closed", s) \/ Names(frame, "closed", s) \/ Names(up, "closed", s)

Told(s) ==
    /\ told[s] <= 1
    /\ OneClosing(control, s) /\ OneClosing(frame, s) /\ OneClosing(up, s)
    /\ Names(control, "closed", s) =>
         ~Names(frame, "closed", s) /\ ~Names(up, "closed", s) /\ told[s] = 0
    /\ Names(frame, "closed", s) => ~Names(up, "closed", s) /\ told[s] = 0
    /\ Names(up, "closed", s) => told[s] = 0
    /\ Announced(s) => discard[s] /\ s \in broken /\ (drain[s] = "write" => dropping[s])

ToldInv == \A s \in In : Told(s)

\* A step that moves no `closed`.
LEMMA ToldKept ==
    ASSUME ToldInv,
           \A s \in In : /\ Names(control', "closed", s) <=> Names(control, "closed", s)
                         /\ Names(frame', "closed", s) => Names(frame, "closed", s)
                         /\ Names(up', "closed", s) => Names(up, "closed", s)
                         /\ OneClosing(control', s) /\ OneClosing(frame', s) /\ OneClosing(up', s)
                         /\ told'[s] = told[s]
                         /\ Announced(s) => /\ discard'[s] /\ s \in broken'
                                            /\ drain'[s] = "write" => dropping'[s]
    PROVE  ToldInv'
BY DEF ToldInv, Told, Announced

LEMMA ToldSends ==
    ASSUME KindsInv, ToldInv, NEW d \in Notice, Send(d), d.type # "closed", NEW s \in In
    PROVE  /\ Names(control', "closed", s) <=> Names(control, "closed", s)
           /\ OneClosing(control', s)
<1>1. control \in Seq(Notice) /\ OneClosing(control, s) /\ (control' = control \/ control' = Append(control, d))
  BY DEF KindsInv, ToldInv, Told, Send
<1>2. /\ Names(Append(control, d), "closed", s) <=> Names(control, "closed", s)
      /\ OneClosing(Append(control, d), s)
  BY <1>1, NamesAppend, ClosingAppend
<1>. QED
  BY <1>1, <1>2

LEMMA ToldWriter == KindsInv /\ ToldInv /\ Writer => ToldInv'
<1> SUFFICES ASSUME KindsInv, ToldInv, Writer PROVE ToldInv'
  OBVIOUS
<1> USE DEF outboxVars, drainVars, inletVars, sinkVars, wireVars, daemonVars, daemonIn
<1>0. UNCHANGED <<told, discard, broken, drain, dropping>>
  BY DEF Writer, WriterPops, WriterReturns, WriterWrites, WriterFails
<1>1. CASE WriterPops /\ control # <<>>
  <2> DEFINE d == Head(control)
  <2>1. /\ frame = <<>> /\ frame' = <<d>> /\ control' = Tail(control) /\ up' = up
        /\ control \in Seq(Notice)
    BY <1>1 DEF WriterPops, KindsInv
  <2>2. ASSUME NEW s \in In
        PROVE  /\ Names(control, "closed", s) <=>
                    (d.type = "closed" /\ d.stream = s) \/ Names(control', "closed", s)
               /\ Names(frame', "closed", s) <=> d.type = "closed" /\ d.stream = s
               /\ OneClosing(control', s) /\ OneClosing(frame', s)
               /\ d.type = "closed" /\ d.stream = s => ~Names(control', "closed", s)
               /\ ~Names(frame, "closed", s) /\ Told(s)
    <3>1. Told(s)
      BY DEF ToldInv
    <3>. QED
      BY <1>1, <2>1, <3>1, NamesTail, NamesOne, NamesNone, ClosingTail, ClosingOne DEF Told
  <2> HIDE DEF d
  <2>. QED
    BY <1>0, <2>1, <2>2 DEF ToldInv, Told, Announced
<1>2. CASE WriterPops /\ control = <<>>
  <2>1. /\ data # <<>> /\ frame = <<>> /\ frame' = <<Head(data)>> /\ UNCHANGED <<control, up>>
        /\ Head(data) \in Content
    BY <1>2 DEF WriterPops, KindsInv
  <2>2. \A s : ~Names(frame', "closed", s) /\ OneClosing(frame', s)
    BY <2>1, NamesOne, ClosingOne DEF Content
  <2>. QED
    BY <1>0, <2>1, <2>2, ToldKept DEF ToldInv, Told
<1>3. CASE WriterWrites
  <2> DEFINE d == Head(frame)
  <2>1. /\ frame # <<>> /\ frame' = <<>> /\ up' = Append(up, d) /\ UNCHANGED control
        /\ frame \in Seq(Notice \cup Content) /\ up \in Seq(Notice \cup Content) /\ d \in Notice \cup Content
        /\ Tail(frame) = <<>>
    <3>1. /\ frame # <<>> /\ frame' = <<>> /\ up' = Append(up, d) /\ UNCHANGED control
      BY <1>3 DEF WriterWrites
    <3>2. /\ frame \in Seq(Notice \cup Content) /\ up \in Seq(Notice \cup Content) /\ Len(frame) <= 1
      BY DEF KindsInv
    <3>3. Len(frame) = 1
      BY <3>1, <3>2, AtMostOne
    <3>4. d \in Notice \cup Content /\ Tail(frame) = <<>>
      BY <3>2, <3>3, OneAlone
    <3>. QED
      BY <3>1, <3>2, <3>4
  <2>2. ASSUME NEW s \in In
        PROVE  /\ Names(frame, "closed", s) <=> d.type = "closed" /\ d.stream = s
               /\ Names(up', "closed", s) <=> Names(up, "closed", s) \/ (d.type = "closed" /\ d.stream = s)
               /\ ~Names(frame', "closed", s) /\ OneClosing(frame', s) /\ Told(s)
    <3>1. Names(frame, "closed", s) <=> (d.type = "closed" /\ d.stream = s) \/ Names(Tail(frame), "closed", s)
      BY <2>1, NamesTail
    <3>2. ~Names(Tail(frame), "closed", s)
      BY <2>1, NamesNone
    <3>. QED
      BY <2>1, <3>1, <3>2, NamesAppend, NamesNone, ClosingNone DEF ToldInv
  <2> HIDE DEF d
  <2>3. \A s \in In : OneClosing(up', s)
    BY <2>1, <2>2, ClosingAppend DEF Told
  <2>. QED
    BY <1>0, <2>1, <2>2, <2>3 DEF ToldInv, Told, Announced
<1>4. CASE WriterFails \/ WriterReturns
  <2>1. (frame' = frame \/ frame' = <<>>) /\ UNCHANGED <<control, up>>
    BY <1>4 DEF WriterFails, WriterReturns
  <2>. QED
    BY <1>0, <2>1, NamesNone, ClosingNone, ToldKept DEF ToldInv, Told
<1>. QED
  BY <1>1, <1>2, <1>3, <1>4 DEF Writer

LEMMA ToldDrains ==
    ASSUME TypeOK, KindsInv, ToldInv, NEW p \in In, Drain(p)
    PROVE  ToldInv'
<1> USE DEF outboxVars, writerVars, drainVars, inletVars, sinkVars, wireVars, daemonVars, daemonIn
<1>0. /\ UNCHANGED <<frame, up, told, broken>> /\ \A s \in In : Told(s)
      /\ drain \in [In -> {"none", "wait", "write", "grant", "done"}] /\ dropping \in [In -> BOOLEAN]
      /\ discard \in [In -> BOOLEAN]
  BY DEF Drain, DrainTakes, DrainWrites, DrainGrants, ToldInv, TypeOK, DrainsOK, InletsOK
<1>1. CASE DrainTakes(p)
  <2>1. UNCHANGED <<control, discard>>
    BY <1>1 DEF DrainTakes
  <2>2. \A s \in In : discard[s] => (drain'[s] = "write" => dropping'[s]) \/ (drain[s] = "write" /\ ~dropping[s])
    BY <1>0, <1>1 DEF DrainTakes
  <2>. QED
    BY <1>0, <2>1, <2>2, ToldKept DEF Told
<1>2. CASE DrainGrants(p)
  <2>1. UNCHANGED <<discard, dropping>> /\ \A s \in In : drain'[s] = "write" => drain[s] = "write"
    BY <1>0, <1>2 DEF DrainGrants
  <2>2. control' = control \/ \E n \in Nat : Send(Credit(p, n))
    <3>1. taken[p] \in Seq(Document) /\ Len(taken[p]) = 1 /\ consumed[p] \in Nat
      BY <1>2 DEF TypeOK, DrainsOK, DrainGrants
    <3>2. consumed[p] + taken[p][1].bytes \in Nat
      BY <3>1, QueueTypes
    <3>. QED
      BY <1>2, <3>2 DEF DrainGrants
  <2>3. ASSUME NEW n \in Nat, Send(Credit(p, n)), NEW s \in In
        PROVE  (Names(control', "closed", s) <=> Names(control, "closed", s)) /\ OneClosing(control', s)
    <3>1. Credit(p, n) \in Notice /\ Credit(p, n).type # "closed"
      BY KindTypes, StreamTypes DEF Credit
    <3>. QED
      BY <2>3, <3>1, ToldSends
  <2>. QED
    BY <1>0, <2>1, <2>2, <2>3, ToldKept DEF Told
<1>3. CASE DrainWrites(p)
  <2>1. /\ UNCHANGED dropping /\ drain[p] = "write" /\ drain' = [drain EXCEPT ![p] = "grant"]
        /\ \A s \in In : drain'[s] = "write" => drain[s] = "write"
    BY <1>0, <1>3 DEF DrainWrites
  <2>2. CASE UNCHANGED <<control, discard>>
    BY <1>0, <2>1, <2>2, ToldKept DEF Told
  <2>3. CASE /\ ~dropping[p] /\ p \in broken
             /\ discard' = [discard EXCEPT ![p] = TRUE] /\ Send(About("closed", p))
    <3> DEFINE d == About("closed", p)
    <3>1. /\ control \in Seq(Notice) /\ d \in Notice /\ d.type = "closed" /\ d.stream = p
          /\ control' = control \/ control' = Append(control, d)
      BY <2>3, KindTypes, StreamTypes DEF KindsInv, Send, About
    <3>2. ~Announced(p)
      BY <1>0, <2>1, <2>3 DEF Told
    <3> HIDE DEF d
    <3>3. CASE control' = control
      <4>1. \A s \in In : discard[s] => discard'[s]
        BY <1>0, <2>3
      <4>. QED
        BY <1>0, <2>1, <3>3, <4>1, ToldKept DEF Told
    <3>4. CASE control' = Append(control, d)
      <4>1. ASSUME NEW s \in In
            PROVE  /\ Names(control', "closed", s) <=> Names(control, "closed", s) \/ s = p
                   /\ OneClosing(control', s) /\ (discard[s] => discard'[s]) /\ discard'[p] /\ Told(s)
        BY <1>0, <2>3, <3>1, <3>2, <3>4, NamesAppend, ClosingAppend DEF Told, Announced
      <4>2. drain'[p] = "grant" /\ told[p] \in Nat
        BY <1>0, <2>1 DEF TypeOK, DaemonOK
      <4>. QED
        BY <1>0, <2>1, <2>3, <3>2, <4>1, <4>2 DEF ToldInv, Told, Announced
    <3>. QED
      BY <3>1, <3>3, <3>4
  <2>. QED
    BY <1>3, <2>2, <2>3 DEF DrainWrites
<1>. QED
  BY <1>1, <1>2, <1>3 DEF Drain

LEMMA ToldHears == TypeOK /\ WindowInv /\ KindsInv /\ ToldInv /\ DaemonReads => ToldInv'
<1> SUFFICES ASSUME TypeOK, WindowInv, KindsInv, ToldInv, DaemonReads PROVE ToldInv'
  OBVIOUS
<1> DEFINE d == Head(up)
<1>0. /\ up # <<>> /\ up \in Seq(Notice \cup Content) /\ up' = Tail(up)
      /\ told' = IF d.type = "closed" THEN [told EXCEPT ![d.stream] = @ + 1] ELSE told
      /\ told \in [In -> Nat] /\ UNCHANGED <<control, frame, discard, broken, drain, dropping>>
  BY DEF DaemonReads, KindsInv, TypeOK, DaemonOK, launcherVars, outboxVars, writerVars, inletVars,
     drainVars, sinkVars
<1>1. ASSUME NEW s \in In
      PROVE  /\ Names(up, "closed", s) <=> (d.type = "closed" /\ d.stream = s) \/ Names(up', "closed", s)
             /\ OneClosing(up', s)
             /\ d.type = "closed" /\ d.stream = s => ~Names(up', "closed", s)
             /\ Told(s)
  <2>1. Told(s)
    BY DEF ToldInv
  <2>. QED
    BY <1>0, <2>1, NamesTail, ClosingTail DEF Told
<1> HIDE DEF d
<1>2. ASSUME NEW s \in In
      PROVE  told'[s] = IF d.type = "closed" /\ d.stream = s THEN told[s] + 1 ELSE told[s]
  BY <1>0
<1>. QED
  BY <1>0, <1>1, <1>2 DEF ToldInv, Told, Announced

LEMMA ToldStep == Sound /\ Settled /\ ToldInv /\ [Next]_vars => ToldInv'
<1> SUFFICES ASSUME Sound, Settled, ToldInv, [Next]_vars PROVE ToldInv'
  OBVIOUS
<1> USE DEF outboxVars, writerVars, creditVars, pumpVars, inletVars, drainVars, sinkVars,
            readerVars, wireVars, daemonVars, daemonOut, daemonIn, signalVars, launcherVars
<1>0. KindsInv /\ WindowInv /\ TypeOK /\ \A s \in In : Told(s)
  BY DEF Sound, WindowInv, ToldInv
<1>s. ASSUME UNCHANGED <<control, frame, up, told, discard, broken, drain, dropping>> PROVE ToldInv'
  BY <1>s DEF ToldInv, Told, Announced
<1>1. CASE UNCHANGED vars \/ Wait \/ Terminated
  BY <1>1, <1>s DEF vars, Wait, Terminated
<1>2. ASSUME NEW s \in Out, Pump(s) PROVE ToldInv'
  BY <1>2, <1>s DEF Pump, PumpAllowance, PumpReads, PumpSends, PumpFinishes, PumpEnds, SendData
<1>3. CASE Reader
  <2>1. CASE ReadOpen
    <3>1. PICK fd : fd = Head(down).stream
      OBVIOUS
    <3>2. CASE fd \in Writable \ opened /\ OpensFor(fd)
      <4>0. /\ drain \in [In -> {"none", "wait", "write", "grant", "done"}]
            /\ discard \in [In -> BOOLEAN] /\ InletInv
        BY <1>0 DEF TypeOK, DrainsOK, InletsOK, Settled
      <4>1. fd \in In /\ ~discard[fd] /\ ~Announced(fd)
        BY <1>0, <3>2, <4>0, SessionAssumption DEF InletInv, Inlet, In, Told
      <4>2. /\ UNCHANGED <<control, frame, up, told, broken, dropping>>
            /\ discard' = [discard EXCEPT ![fd] = FALSE] /\ drain' = [drain EXCEPT ![fd] = "wait"]
        BY <2>1, <3>2 DEF ReadOpen, Receives, OpensFor
      <4>. QED
        BY <1>0, <4>0, <4>1, <4>2, ToldKept DEF Told
    <3>3. CASE UNCHANGED <<drain, discard>>
      BY <2>1, <3>3, <1>s DEF ReadOpen, Receives
    <3>. QED
      BY <2>1, <3>1, <3>2, <3>3 DEF ReadOpen, OpensFor, Openable
  <2>. QED
    BY <1>3, <2>1, <1>s DEF Reader, Receives, ReadData, ReadEnd, ReadCredit, ReadClosed, ReadSignalAck,
       ReadExitStatus, ReadFails, ReaderClosesCredits, ReaderClosesOutbox, ReaderReleases
<1>4. CASE Client
  <2>1. CASE Signal
    <3>1. Send(About("signal", Stdin)) /\ UNCHANGED <<frame, up, told, discard, broken, drain, dropping>>
      BY <2>1 DEF Signal
    <3>2. About("signal", Stdin) \in Notice /\ About("signal", Stdin).type # "closed"
      BY KindTypes, StreamTypes DEF About
    <3>. QED
      BY <1>0, <3>1, <3>2, ToldSends, ToldKept DEF Told
  <2>2. CASE Disconnect
    <3>1. up' = <<>> /\ UNCHANGED <<control, frame, told, discard, broken, drain, dropping>>
      BY <2>2 DEF Disconnect
    <3>. QED
      BY <1>0, <3>1, NamesNone, ClosingNone, ToldKept DEF Told
  <2>3. ASSUME NEW p \in In, DiscardStdout(p) \/ SinkBreaks(p) PROVE ToldInv'
    <3>1. /\ UNCHANGED <<control, frame, up, told, drain, dropping>>
          /\ \A s \in In : (discard[s] => discard'[s]) /\ (s \in broken => s \in broken')
      BY <1>0, <2>3 DEF DiscardStdout, SinkBreaks, TypeOK, InletsOK
    <3>. QED
      BY <1>0, <3>1, ToldKept DEF Told
  <2>. QED
    BY <1>4, <2>1, <2>2, <2>3 DEF Client
<1>5. CASE Daemon /\ ~DaemonReads
  BY <1>5, <1>s DEF Daemon, DaemonSends, DaemonAcks, DaemonExits, DaemonWrites, DaemonEnds,
     DaemonGrants, DaemonCloses, DaemonOpens
<1>. QED
  BY <1>0, <1>1, <1>2, <1>3, <1>4, <1>5, ToldWriter, ToldDrains, ToldHears DEF Next, Daemon

\* A stream whose sink cannot be written is announced to the daemon once, and only such a stream is
\* (`drain` of session.rs sets `discard` and sends `closed` on the failed write alone).
THEOREM ClosedIsSentOnce == Spec => []ClosedOnce
<1>1. Init => ToldInv
  <2>1. ASSUME Init, NEW s \in In PROVE Told(s)
    <3>1. control = <<>> /\ frame = <<>> /\ up = <<>> /\ told[s] = 0
      BY <2>1 DEF Init
    <3>. QED
      BY <3>1, NamesNone, ClosingNone DEF Told, Announced
  <2>. QED
    BY <2>1 DEF ToldInv
<1>2. OutInvariant /\ Settled /\ ToldInv /\ [Next]_vars => ToldInv'
  BY ToldStep DEF OutInvariant
<1>3. ToldInv => ClosedOnce
  BY DEF ToldInv, Told, Announced, ClosedOnce
<1>. QED
  BY <1>1, <1>2, <1>3, OutInvariantHolds, SettledHolds, PTL DEF Spec

-----------------------------------------------------------------------------
(* The credit of a live stream: while the connection lasts and the outbox  *)
(* is open, no step loses a byte of its window, so that a receiver that    *)
(* keeps consuming always unblocks its sender.                             *)

Whole(s) == credit[s] + OutData(s) + OutGrants(s)

OutWhole == \A s \in streams \ dclosed : Whole(s) = WINDOW
\* A stream keeps its window from before it is opened until it has ended.
InWhole == \A s \in In : ~ended[s] => InTotal(s) = WINDOW

Conserved == connected /\ ~closed => OutWhole /\ InWhole

\* A drain keeps back less than half a window of what it has consumed.
WithheldInv == \A s \in In : consumed[s] = 0 \/ 2 * consumed[s] < WINDOW

LEMMA WholeImplies == TypeOK /\ InletInv /\ Conserved /\ WithheldInv => CreditConserved
<1> SUFFICES ASSUME TypeOK, InletInv, Conserved, WithheldInv, connected, ~closed
             PROVE  CreditConserved
  BY DEF CreditConserved
<1>1. \A s \in inlets : s \in In /\ ~ended[s]
  BY DEF TypeOK, InletsOK, InletInv, Inlet
<1>2. OutWhole /\ InWhole
  BY DEF Conserved
<1>3. /\ \A s \in streams \ dclosed : credit[s] + OutData(s) + OutGrants(s) = WINDOW
      /\ \A s \in inlets : dcredit[s] + InData(s) + InGrants(s) = WINDOW
  BY <1>1, <1>2 DEF OutWhole, InWhole, Whole, InTotal
<1>4. \A s \in inlets : consumed[s] = 0 \/ 2 * consumed[s] < WINDOW
  BY <1>1 DEF WithheldInv
<1>. QED
  BY <1>3, <1>4 DEF CreditConserved

LEMMA OutSame ==
    OutWhole /\ UNCHANGED <<streams, credit, data, frame, up, down, dbuffer, dclosed>> => OutWhole'
BY DEF OutWhole, Whole, OutData, OutGrants

LEMMA InSame ==
    InWhole /\ UNCHANGED <<ended, dcredit, control, frame, up, down, queue, taken, consumed>> => InWhole'
BY DEF InWhole, InTotal, InData, InGrants

\* Neither a connection nor an outbox is opened again.
LEMMA StillOpen == TypeOK /\ [Next]_vars /\ connected' /\ ~closed' => connected /\ ~closed
<1> SUFFICES ASSUME TypeOK, [Next]_vars, connected', ~closed' PROVE connected /\ ~closed
  OBVIOUS
<1> DEFINE Shuts == connected' \in {connected, FALSE} /\ closed' \in {closed, TRUE}
<1> USE DEF outboxVars, wireVars
<1>1. ASSUME NEW s \in Out, Pump(s) PROVE Shuts
  BY <1>1 DEF Pump, PumpAllowance, PumpReads, PumpSends, PumpFinishes, PumpEnds, SendData
<1>2. ASSUME NEW s \in In, Drain(s) PROVE Shuts
  BY <1>2 DEF Drain, DrainTakes, DrainWrites, DrainGrants, Send
<1>3. ASSUME Reader PROVE Shuts
  BY <1>3 DEF Reader, Receives, ReadData, ReadEnd, ReadCredit, ReadClosed, ReadOpen, ReadSignalAck,
     ReadExitStatus, ReadFails, ReaderClosesCredits, ReaderClosesOutbox, ReaderReleases
<1>4. ASSUME Writer PROVE Shuts
  BY <1>4 DEF Writer, WriterPops, WriterReturns, WriterWrites, WriterFails
<1>5. ASSUME Client PROVE Shuts
  BY <1>5 DEF Client, Signal, Disconnect, DiscardStdout, SinkBreaks, Send
<1>6. ASSUME Daemon PROVE Shuts
  BY <1>6 DEF Daemon, DaemonReads, DaemonAcks, DaemonExits, DaemonWrites, DaemonEnds, DaemonGrants,
     DaemonCloses, DaemonOpens, DaemonSends, launcherVars
<1>7. ASSUME UNCHANGED vars \/ Wait \/ Terminated PROVE Shuts
  BY <1>7 DEF vars, Wait, Terminated
<1>8. Shuts
  <2> HIDE DEF Shuts
  <2>. QED
    BY <1>1, <1>2, <1>3, <1>4, <1>5, <1>6, <1>7 DEF Next
<1>9. connected \in BOOLEAN /\ closed \in BOOLEAN
  BY DEF TypeOK, OutboxOK, WireOK
<1>10. connected' # FALSE /\ closed' # TRUE
  OBVIOUS
<1>11. connected' = connected /\ closed' = closed
  BY <1>8, <1>10
<1>. QED
  BY <1>9, <1>11

-----------------------------------------------------------------------------
(* The writer moves what it carries from a lane to its frame, and on.      *)

LEMMA WholePops ==
    ASSUME WindowInv, OutWhole, InWhole, WriterPops
    PROVE  OutWhole' /\ InWhole'
<1>0. /\ frame = <<>> /\ OutNatural /\ InNatural /\ LanesInv /\ streams \subseteq Out
      /\ UNCHANGED <<up, down, streams, credit, dbuffer, dclosed, queue, taken, consumed, dcredit, ended>>
  BY Numbers DEF WindowInv, Bounds, WriterPops, TypeOK, CreditsOK, creditVars, inletVars, drainVars,
     wireVars, daemonVars, daemonIn, daemonOut
<1>1. \A t, x : Bytes(frame, t, x) = 0
  BY <1>0, FrameEmptied
<1>2. CASE control # <<>> /\ frame' = <<Head(control)>> /\ control' = Tail(control) /\ UNCHANGED data
  <2> DEFINE d == Head(control)
  <2>1. /\ d \in ControlLane /\ d \in Fitting
        /\ \A t, x : /\ Carries(d, t, x) \in Nat /\ Bytes(control', t, x) \in Nat
                     /\ Bytes(control, t, x) = Carries(d, t, x) + Bytes(control', t, x)
    <3>1. control \in Seq(ControlLane) /\ ControlLane \subseteq Fitting
      BY <1>0, LaneTypes DEF LanesInv
    <3>. QED
      BY <1>2, <3>1, Popping
  <2>2. frame' = <<d>>
    BY <1>2
  <2> HIDE DEF d
  <2>3. /\ \A t, x : Bytes(frame', t, x) = Carries(d, t, x)
        /\ \A x : Carries(d, "data", x) = 0
    BY <2>1, <2>2, Singleton, LaneTypes
  <2>4. ASSUME NEW x \in Out PROVE Whole(x)' = Whole(x)
    <3>1. Bytes(frame', "data", x) = 0 /\ Bytes(frame, "data", x) = 0
      BY <1>1, <2>3
    <3>. QED
      BY <1>0, <1>2, <3>1 DEF Whole, OutData, OutGrants
  <2>5. ASSUME NEW x \in In PROVE InTotal(x)' = InTotal(x)
    <3>1. /\ Carries(d, "credit", x) \in Nat /\ Bytes(control', "credit", x) \in Nat
          /\ Bytes(control, "credit", x) = Carries(d, "credit", x) + Bytes(control', "credit", x)
          /\ Bytes(frame', "credit", x) = Carries(d, "credit", x) /\ Bytes(frame, "credit", x) = 0
          /\ InNaturalAt(x)
      BY <1>0, <1>1, <2>1, <2>3 DEF InNatural
    <3>. QED
      BY <1>0, <3>1 DEF InNaturalAt, InTotal, InData, InGrants
  <2>. QED
    BY <1>0, <2>4, <2>5 DEF OutWhole, InWhole
<1>3. CASE data # <<>> /\ frame' = <<Head(data)>> /\ data' = Tail(data) /\ UNCHANGED control
  <2> DEFINE d == Head(data)
  <2>1. /\ d \in DataLane /\ d \in Fitting
        /\ \A t, x : /\ Carries(d, t, x) \in Nat /\ Bytes(data', t, x) \in Nat
                     /\ Bytes(data, t, x) = Carries(d, t, x) + Bytes(data', t, x)
    <3>1. data \in Seq(DataLane) /\ DataLane \subseteq Fitting
      BY <1>0, LaneTypes DEF LanesInv
    <3>. QED
      BY <1>3, <3>1, Popping
  <2>2. frame' = <<d>>
    BY <1>3
  <2> HIDE DEF d
  <2>3. /\ \A t, x : Bytes(frame', t, x) = Carries(d, t, x)
        /\ \A x : Carries(d, "credit", x) = 0
    BY <2>1, <2>2, Singleton, LaneTypes
  <2>4. ASSUME NEW x \in Out PROVE Whole(x)' = Whole(x)
    <3>1. /\ Carries(d, "data", x) \in Nat /\ Bytes(data', "data", x) \in Nat
          /\ Bytes(data, "data", x) = Carries(d, "data", x) + Bytes(data', "data", x)
          /\ Bytes(frame', "data", x) = Carries(d, "data", x) /\ Bytes(frame, "data", x) = 0
          /\ OutNaturalAt(x)
      BY <1>0, <1>1, <2>1, <2>3 DEF OutNatural
    <3>. QED
      BY <1>0, <3>1 DEF OutNaturalAt, Whole, OutData, OutGrants
  <2>5. ASSUME NEW x \in In PROVE InTotal(x)' = InTotal(x)
    <3>1. Bytes(frame', "credit", x) = 0 /\ Bytes(frame, "credit", x) = 0
      BY <1>1, <2>3
    <3>. QED
      BY <1>0, <1>3, <3>1 DEF InTotal, InData, InGrants
  <2>. QED
    BY <1>0, <2>4, <2>5 DEF OutWhole, InWhole
<1>. QED
  BY <1>2, <1>3 DEF WriterPops

LEMMA WholeWrites ==
    ASSUME WindowInv, KindsInv, OutWhole, InWhole, WriterWrites
    PROVE  OutWhole' /\ InWhole'
<1>0. /\ OutNatural /\ InNatural /\ LanesInv /\ streams \subseteq Out
      /\ UNCHANGED <<control, data, down, streams, credit, dbuffer, dclosed, queue, taken, consumed,
                     dcredit, ended>>
  BY Numbers DEF WindowInv, Bounds, TypeOK, CreditsOK, WriterWrites, outboxVars, creditVars, inletVars,
     drainVars, daemonVars, daemonIn, daemonOut
<1> DEFINE d == Head(frame)
<1>1. frame # <<>> /\ up' = Append(up, d) /\ frame' = <<>>
  BY DEF WriterWrites
<1>2. /\ d \in Fitting /\ \A t, x : Carries(d, t, x) \in Nat /\ Bytes(frame, t, x) = Carries(d, t, x)
  <2>1. frame \in Seq(Fitting) /\ Len(frame) <= 1
    BY <1>0 DEF LanesInv, KindsInv
  <2>2. Tail(frame) = <<>>
    BY <1>1, <2>1, AtMostOne, OneAlone
  <2>3. \A t, x : Bytes(Tail(frame), t, x) = 0
    BY <2>2, FrameEmptied
  <2>4. /\ d \in Fitting
        /\ \A t, x : /\ Carries(d, t, x) \in Nat
                     /\ Bytes(frame, t, x) = Carries(d, t, x) + Bytes(Tail(frame), t, x)
    BY <1>1, <2>1, Popping
  <2> HIDE DEF d
  <2>5. ASSUME NEW t, NEW x PROVE Carries(d, t, x) \in Nat /\ Bytes(frame, t, x) = Carries(d, t, x)
    <3>1. /\ Carries(d, t, x) \in Nat /\ Bytes(Tail(frame), t, x) = 0
          /\ Bytes(frame, t, x) = Carries(d, t, x) + Bytes(Tail(frame), t, x)
      BY <2>3, <2>4
    <3>. QED
      BY <3>1
  <2>. QED
    BY <2>4, <2>5
<1> HIDE DEF d
<1>3. \A t, x : Bytes(up', t, x) = Bytes(up, t, x) + Carries(d, t, x) /\ Bytes(frame', t, x) = 0
  BY <1>0, <1>1, <1>2, Appending, FrameEmptied DEF LanesInv
<1>4. ASSUME NEW x \in Out PROVE Whole(x)' = Whole(x)
  <2>1. /\ Carries(d, "data", x) \in Nat /\ Bytes(frame, "data", x) = Carries(d, "data", x)
        /\ Bytes(up', "data", x) = Bytes(up, "data", x) + Carries(d, "data", x)
        /\ Bytes(frame', "data", x) = 0 /\ OutNaturalAt(x)
    BY <1>0, <1>2, <1>3 DEF OutNatural
  <2>. QED
    BY <1>0, <2>1 DEF OutNaturalAt, Whole, OutData, OutGrants
<1>5. ASSUME NEW x \in In PROVE InTotal(x)' = InTotal(x)
  <2>1. /\ Carries(d, "credit", x) \in Nat /\ Bytes(frame, "credit", x) = Carries(d, "credit", x)
        /\ Bytes(up', "credit", x) = Bytes(up, "credit", x) + Carries(d, "credit", x)
        /\ Bytes(frame', "credit", x) = 0 /\ InNaturalAt(x)
    BY <1>0, <1>2, <1>3 DEF InNatural
  <2>. QED
    BY <1>0, <2>1 DEF InNaturalAt, InTotal, InData, InGrants
<1>. QED
  BY <1>0, <1>4, <1>5 DEF OutWhole, InWhole

-----------------------------------------------------------------------------
(* An open outbox takes what it is given.                                  *)

LEMMA OpenControl ==
    ASSUME WindowInv, ~closed, NEW d \in ControlLane, Send(d)
    PROVE  /\ UNCHANGED data
           /\ \A t, x : /\ Carries(d, t, x) \in Nat
                        /\ Bytes(control', t, x) = Bytes(control, t, x) + Carries(d, t, x)
<1>1. control \in Seq(ControlLane) /\ UNCHANGED data /\ control' = Append(control, d)
  BY DEF WindowInv, Bounds, LanesInv, Send
<1>. QED
  BY <1>1, Appending, LaneTypes

LEMMA OpenData ==
    ASSUME WindowInv, ~closed, NEW d \in DataLane, SendData(d)
    PROVE  /\ UNCHANGED control
           /\ \A t, x : /\ Carries(d, t, x) \in Nat
                        /\ Bytes(data', t, x) = Bytes(data, t, x) + Carries(d, t, x)
<1>1. data \in Seq(DataLane) /\ UNCHANGED control /\ data' = Append(data, d)
  BY DEF WindowInv, Bounds, LanesInv, SendData
<1>. QED
  BY <1>1, Appending, LaneTypes

\* A pump spends what it sends: it never holds more than its stream's credit, so the saturating
\* subtraction of Credits::spend never saturates.
LEMMA WholeSends ==
    ASSUME WindowInv, ~closed, OutWhole, InWhole, NEW s \in Out, PumpSends(s)
    PROVE  OutWhole' /\ InWhole'
<1>0. /\ OutNatural /\ streams \subseteq Out
      /\ UNCHANGED <<frame, up, down, streams, dbuffer, dclosed, queue, taken, consumed, dcredit, ended>>
  BY Numbers DEF WindowInv, TypeOK, CreditsOK, PumpSends, Spend, writerVars, inletVars, drainVars,
     wireVars, daemonVars, daemonIn, daemonOut
<1> DEFINE n == hand[s]
           d == Data(s, carried[s], n)
<1>1. n \in Nat /\ n <= WINDOW /\ n <= credit[s]
  BY SessionAssumption DEF WindowInv, Bounds, PumpsInv, PumpSends, Held, TypeOK, PumpsOK
<1>2. d \in DataLane /\ \A x : Carries(d, "data", x) = IF x = s THEN n ELSE 0
  BY <1>1, ChunkWeight, StreamTypes DEF WindowInv, TypeOK, PumpsOK
<1>3. SendData(d)
  BY DEF PumpSends
<1>4. credit' = IF s \in streams THEN [credit EXCEPT ![s] = IF @ < n THEN 0 ELSE @ - n] ELSE credit
  BY DEF PumpSends, Spend
<1> HIDE DEF d, n
<1>5. UNCHANGED control /\ \A x : Bytes(data', "data", x) = Bytes(data, "data", x) + Carries(d, "data", x)
  BY <1>2, <1>3, OpenData
<1>6. ASSUME NEW x \in streams PROVE Whole(x)' = Whole(x)
  <2>1. /\ credit'[x] = IF x = s THEN credit[s] - n ELSE credit[x]
        /\ OutNaturalAt(x)
    BY <1>0, <1>1, <1>4 DEF WindowInv, TypeOK, CreditsOK, OutNatural
  <2>2. Bytes(data', "data", x) = Bytes(data, "data", x) + (IF x = s THEN n ELSE 0)
    BY <1>2, <1>5
  <2>. QED
    BY <1>0, <1>1, <2>1, <2>2 DEF OutNaturalAt, Whole, OutData, OutGrants
<1>. QED
  BY <1>0, <1>5, <1>6, InSame DEF OutWhole

LEMMA WholePumps ==
    ASSUME WindowInv, ~closed, OutWhole, InWhole, NEW s \in Out, Pump(s)
    PROVE  OutWhole' /\ InWhole'
<1> USE DEF outboxVars, writerVars, creditVars, inletVars, drainVars, wireVars, daemonVars, daemonIn, daemonOut
<1>1. CASE PumpEnds(s)
  <2> DEFINE d == About("end", s)
  <2>0. /\ OutNatural /\ streams \subseteq Out
        /\ UNCHANGED <<frame, up, down, streams, credit, dbuffer, dclosed, queue, taken, consumed, dcredit, ended>>
    BY <1>1, Numbers DEF PumpEnds, WindowInv, TypeOK, CreditsOK
  <2>1. d \in DataLane /\ SendData(d) /\ \A x : Carries(d, "data", x) = 0
    BY <1>1, Weightless, StreamTypes DEF PumpEnds
  <2> HIDE DEF d
  <2>2. UNCHANGED control /\ \A x : Bytes(data', "data", x) = Bytes(data, "data", x) + Carries(d, "data", x)
    BY <2>1, OpenData
  <2>3. ASSUME NEW x \in streams PROVE Whole(x)' = Whole(x)
    <3>1. Bytes(data', "data", x) = Bytes(data, "data", x) + 0 /\ OutNaturalAt(x)
      BY <2>0, <2>1, <2>2 DEF OutNatural
    <3>. QED
      BY <2>0, <3>1 DEF OutNaturalAt, Whole, OutData, OutGrants
  <2>. QED
    BY <2>0, <2>2, <2>3, InSame DEF OutWhole
<1>2. CASE PumpAllowance(s) \/ PumpReads(s) \/ PumpFinishes(s)
  BY <1>2, OutSame, InSame DEF PumpAllowance, PumpReads, PumpFinishes
<1>. QED
  BY <1>1, <1>2, WholeSends DEF Pump

-----------------------------------------------------------------------------
(* A drain moves a chunk from the queue to its hand, and from there to     *)
(* what it has consumed and what it grants.                                *)

\* A document that carries no credit, sent.
LEMMA WholeSays ==
    ASSUME WindowInv, ~closed, OutWhole, InWhole, NEW s \in Streams,
           NEW type \in {"closed", "signal"}, Send(About(type, s)),
           UNCHANGED <<frame, up, down, streams, credit, dbuffer, dclosed, queue, taken, consumed,
                       dcredit, ended>>
    PROVE  OutWhole' /\ InWhole'
<1> DEFINE d == About(type, s)
<1>1. d \in ControlLane /\ Send(d) /\ \A x : Carries(d, "credit", x) = 0
  BY Weightless
<1> HIDE DEF d
<1>2. UNCHANGED data /\ \A x : Bytes(control', "credit", x) = Bytes(control, "credit", x) + Carries(d, "credit", x)
  BY <1>1, OpenControl
<1>3. ASSUME NEW x \in In PROVE InTotal(x)' = InTotal(x)
  <2>1. Bytes(control', "credit", x) = Bytes(control, "credit", x) + 0 /\ InNaturalAt(x)
    BY <1>1, <1>2, Numbers DEF InNatural
  <2>. QED
    BY <2>1 DEF InNaturalAt, InTotal, InData, InGrants
<1>. QED
  BY <1>2, <1>3, OutSame DEF InWhole

\* A drain that neither writes nor accounts has nothing in its hand.
HandsInv == \A s \in In : drain[s] \notin {"write", "grant"} => taken[s] = <<>>

LEMMA HandsStep == TypeOK /\ InletInv /\ HandsInv /\ [Next]_vars => HandsInv'
<1> SUFFICES ASSUME TypeOK, InletInv, HandsInv, [Next]_vars PROVE HandsInv'
  OBVIOUS
<1> USE DEF drainVars
<1>0. /\ drain \in [In -> {"none", "wait", "write", "grant", "done"}] /\ taken \in [In -> Seq(Document)]
  BY DEF TypeOK, DrainsOK
<1>1. ASSUME NEW s \in Out, Pump(s) PROVE UNCHANGED <<drain, taken>>
  BY <1>1 DEF Pump, PumpAllowance, PumpReads, PumpSends, PumpFinishes, PumpEnds
<1>2. ASSUME NEW s \in In, Drain(s) PROVE HandsInv'
  BY <1>0, <1>2 DEF HandsInv, Drain, DrainTakes, DrainWrites, DrainGrants
<1>3. CASE Reader
  <2>1. CASE ReadOpen
    <3>1. PICK fd : fd = Head(down).stream
      OBVIOUS
    <3>2. CASE fd \in Writable \ opened /\ drain' = [drain EXCEPT ![fd] = "wait"]
      <4>1. fd \in In /\ drain[fd] = "none" /\ taken' = taken
        BY <2>1, <3>2, SessionAssumption DEF InletInv, Inlet, In, ReadOpen
      <4>. QED
        BY <1>0, <3>2, <4>1 DEF HandsInv
    <3>3. CASE UNCHANGED drain
      BY <2>1, <3>3 DEF ReadOpen, HandsInv
    <3>. QED
      BY <2>1, <3>1, <3>2, <3>3 DEF ReadOpen, OpensFor, Openable
  <2>. QED
    BY <1>3, <2>1 DEF Reader, Receives, ReadData, ReadEnd, ReadCredit, ReadClosed, ReadSignalAck,
       ReadExitStatus, ReadFails, ReaderClosesCredits, ReaderClosesOutbox, ReaderReleases, HandsInv
<1>4. ASSUME Writer PROVE UNCHANGED <<drain, taken>>
  BY <1>4 DEF Writer, WriterPops, WriterReturns, WriterWrites, WriterFails
<1>5. ASSUME Client PROVE UNCHANGED <<drain, taken>>
  BY <1>5 DEF Client, Signal, Disconnect, DiscardStdout, SinkBreaks
<1>6. ASSUME Daemon PROVE UNCHANGED <<drain, taken>>
  BY <1>6 DEF Daemon, DaemonReads, DaemonAcks, DaemonExits, DaemonWrites, DaemonEnds, DaemonGrants,
     DaemonCloses, DaemonOpens, DaemonSends, launcherVars
<1>7. ASSUME UNCHANGED vars \/ Wait \/ Terminated PROVE UNCHANGED <<drain, taken>>
  BY <1>7 DEF vars, Wait, Terminated
<1>. QED
  BY <1>1, <1>2, <1>3, <1>4, <1>5, <1>6, <1>7 DEF Next, HandsInv

LEMMA WholeTakes ==
    ASSUME WindowInv, HandsInv, OutWhole, InWhole, NEW s \in In, DrainTakes(s)
    PROVE  OutWhole' /\ InWhole'
<1>0. /\ InNatural
      /\ UNCHANGED <<control, data, frame, up, down, streams, credit, dbuffer, dclosed, consumed, dcredit, ended>>
  BY Numbers DEF DrainTakes, outboxVars, writerVars, creditVars, wireVars, daemonVars, daemonIn, daemonOut
<1>1. CASE UNCHANGED <<taken, queue>>
  BY <1>0, <1>1, OutSame, InSame
<1>2. CASE /\ queue[s] # <<>>
           /\ taken' = [taken EXCEPT ![s] = <<Head(queue[s])>>]
           /\ queue' = [queue EXCEPT ![s] = Tail(@)]
           /\ drain[s] = "wait"
  <2> DEFINE d == Head(queue[s])
             rest == Tail(queue[s])
             one == <<d>>
  <2>1. /\ d \in Chunks(s) /\ Bytes(rest, "data", s) \in Nat /\ Carries(d, "data", s) \in Nat
        /\ Bytes(queue[s], "data", s) = Carries(d, "data", s) + Bytes(rest, "data", s)
    <3>1. queue[s] \in Seq(Chunks(s)) /\ Chunks(s) \subseteq Fitting
      BY LaneTypes DEF WindowInv, Bounds, QueuesInv
    <3>. QED
      BY <1>2, <3>1, Popping
  <2>2. Bytes(one, "data", s) = Carries(d, "data", s)
    <3>1. Chunks(s) \subseteq Fitting
      BY LaneTypes
    <3> HIDE DEF d
    <3>. QED
      BY <2>1, <3>1, Singleton
  <2> HIDE DEF d, rest, one
  <2>3. /\ \A x \in In \ {s} : UNCHANGED <<queue[x], taken[x]>>
        /\ queue'[s] = rest /\ taken'[s] = one
    BY <1>2 DEF WindowInv, TypeOK, InletsOK, DrainsOK, rest, one, d
  <2>4. ASSUME NEW x \in In PROVE InTotal(x)' = InTotal(x)
    <3>1. InNaturalAt(x)
      BY <1>0 DEF InNatural
    <3>2. Bytes(taken[s], "data", s) = 0
      BY <1>2, FrameEmptied DEF HandsInv
    <3>3. Bytes(queue'[x], "data", x) + Bytes(taken'[x], "data", x)
             = Bytes(queue[x], "data", x) + Bytes(taken[x], "data", x)
      BY <2>1, <2>2, <2>3, <3>1, <3>2 DEF InNaturalAt
    <3>4. Bytes(queue'[x], "data", x) \in Nat /\ Bytes(taken'[x], "data", x) \in Nat
      BY <2>1, <2>2, <2>3, <3>1 DEF InNaturalAt
    <3>. QED
      BY <1>0, <3>1, <3>3, <3>4 DEF InNaturalAt, InTotal, InData, InGrants
  <2>. QED
    BY <1>0, <2>4, OutSame DEF InWhole
<1>. QED
  BY <1>1, <1>2 DEF DrainTakes

\* What a drain has written or thrown away is granted back, now or with what comes next.
LEMMA WholeAccounts ==
    ASSUME WindowInv, FullInv, ~closed, OutWhole, InWhole, NEW s \in In, DrainGrants(s)
    PROVE  OutWhole' /\ InWhole'
<1>0. /\ InNatural
      /\ UNCHANGED <<frame, up, down, streams, credit, dbuffer, dclosed, queue, dcredit, ended>>
  BY Numbers DEF DrainGrants, writerVars, creditVars, inletVars, wireVars, daemonVars, daemonIn, daemonOut
<1> DEFINE n == taken[s][1].bytes
           total == consumed[s] + n
           d == Credit(s, total)
<1>1. n \in Nat /\ Bytes(taken[s], "data", s) = n
  BY TakenChunk DEF DrainGrants
<1>2. total \in Nat /\ total <= WINDOW /\ InNaturalAt(s)
  <2>1. InNaturalAt(s) /\ InTotal(s) <= WINDOW /\ WINDOW \in Nat
    BY <1>0, SessionAssumption DEF InNatural, WindowInv, Bounds, InInv
  <2> HIDE DEF n
  <2>. QED
    BY <1>1, <2>1 DEF InNaturalAt, InTotal, InData, InGrants
<1>3. d \in ControlLane /\ \A x : Carries(d, "credit", x) = IF x = s THEN total ELSE 0
  <2> HIDE DEF total
  <2>. QED
    BY <1>2, GrantWeight, StreamTypes
<1>4. /\ \/ Send(d) /\ consumed' = [consumed EXCEPT ![s] = 0]
         \/ UNCHANGED outboxVars /\ consumed' = [consumed EXCEPT ![s] = total]
      /\ taken' = [taken EXCEPT ![s] = <<>>]
  BY DEF DrainGrants
<1> HIDE DEF d, total, n
<1>5. \A x \in In : taken'[x] = IF x = s THEN <<>> ELSE taken[x]
  BY <1>4 DEF WindowInv, TypeOK, DrainsOK
<1>6. \A x \in In : Bytes(taken'[x], "data", x) = IF x = s THEN 0 ELSE Bytes(taken[x], "data", x)
  BY <1>5, FrameEmptied
<1>7. CASE Send(d) /\ consumed' = [consumed EXCEPT ![s] = 0]
  <2>1. UNCHANGED data /\ \A x : Bytes(control', "credit", x) = Bytes(control, "credit", x) + Carries(d, "credit", x)
    BY <1>3, <1>7, OpenControl
  <2>2. ASSUME NEW x \in In PROVE InTotal(x)' = InTotal(x)
    <3>1. /\ consumed'[x] = IF x = s THEN 0 ELSE consumed[x]
          /\ Bytes(control', "credit", x) = Bytes(control, "credit", x) + (IF x = s THEN total ELSE 0)
          /\ InNaturalAt(x)
      BY <1>0, <1>3, <1>7, <2>1 DEF WindowInv, TypeOK, DrainsOK, InNatural
    <3>. QED
      BY <1>0, <1>1, <1>2, <1>6, <3>1 DEF InNaturalAt, InTotal, InData, InGrants, total
  <2>. QED
    BY <1>0, <2>1, <2>2, OutSame DEF InWhole
<1>8. CASE UNCHANGED outboxVars /\ consumed' = [consumed EXCEPT ![s] = total]
  <2>1. ASSUME NEW x \in In PROVE InTotal(x)' = InTotal(x)
    <3>1. /\ consumed'[x] = IF x = s THEN total ELSE consumed[x]
          /\ UNCHANGED control /\ InNaturalAt(x)
      BY <1>0, <1>8 DEF WindowInv, TypeOK, DrainsOK, InNatural, outboxVars
    <3>. QED
      BY <1>0, <1>1, <1>2, <1>6, <3>1 DEF InNaturalAt, InTotal, InData, InGrants, total
  <2>. QED
    BY <1>0, <1>8, <2>1, OutSame DEF InWhole, outboxVars
<1>. QED
  BY <1>4, <1>7, <1>8

LEMMA WholeDrains ==
    ASSUME WindowInv, FullInv, HandsInv, ~closed, OutWhole, InWhole, NEW s \in In, Drain(s)
    PROVE  OutWhole' /\ InWhole'
<1>1. CASE DrainWrites(s)
  <2>0. UNCHANGED <<frame, up, down, streams, credit, dbuffer, dclosed, queue, taken, consumed,
                    dcredit, ended>>
    BY <1>1 DEF DrainWrites, writerVars, creditVars, wireVars, daemonVars, daemonIn, daemonOut
  <2>1. CASE UNCHANGED outboxVars
    BY <2>0, <2>1, OutSame, InSame DEF outboxVars
  <2>2. CASE Send(About("closed", s))
    BY <2>0, <2>2, WholeSays, StreamTypes
  <2>. QED
    BY <1>1, <2>1, <2>2 DEF DrainWrites
<1>. QED
  BY <1>1, WholeTakes, WholeAccounts DEF Drain

-----------------------------------------------------------------------------
(* The reader puts what it takes from the socket where it is counted too.  *)

\* All but a chunk, a grant and an opening carry nothing that a live stream counts.
LEMMA WholeReadsOther ==
    ASSUME WindowInv, OutWhole, InWhole, NEW type \in Types \ {"data", "credit"}, Receives(type),
           UNCHANGED <<control, data, credit, queue, taken, consumed>>, streams' \subseteq streams,
           \A s \in In : ended[s] => ended'[s]
    PROVE  OutWhole' /\ InWhole'
<1> DEFINE d == Head(down)
<1>0. /\ OutNatural /\ InNatural /\ streams \subseteq Out /\ UNCHANGED <<dbuffer, dcredit, dclosed, frame, up>>
      /\ d \in Fitting /\ d.type = type
      /\ \A t, x : /\ Carries(d, t, x) \in Nat /\ Bytes(down', t, x) \in Nat
                   /\ Bytes(down, t, x) = Carries(d, t, x) + Bytes(down', t, x)
  BY Numbers, Received DEF WindowInv, TypeOK, CreditsOK, Receives, daemonVars, daemonIn
<1> HIDE DEF d
<1>1. \A x : Carries(d, "data", x) = 0 /\ Carries(d, "credit", x) = 0
  BY <1>0 DEF Carries
<1>2. ASSUME NEW t \in {"data", "credit"}, NEW x PROVE Bytes(down', t, x) = Bytes(down, t, x)
  <2>1. /\ Bytes(down, t, x) = Carries(d, t, x) + Bytes(down', t, x) /\ Carries(d, t, x) = 0
        /\ Bytes(down', t, x) \in Nat
    BY <1>0, <1>1
  <2>. QED
    BY <2>1
<1>3. \A x \in Out : Whole(x)' = Whole(x)
  BY <1>0, <1>2 DEF Whole, OutData, OutGrants
<1>4. \A x \in In : InTotal(x)' = InTotal(x)
  BY <1>0, <1>2 DEF InTotal, InData, InGrants
<1>. QED
  BY <1>0, <1>3, <1>4 DEF OutWhole, InWhole

\* A chunk of a stream that has not ended finds its inlet: its `open` was read before it.
LEMMA WholeReadsData ==
    ASSUME WindowInv, FullInv, ReaderInv, InletInv, OutWhole, InWhole, ReadData
    PROVE  OutWhole' /\ InWhole'
<1> DEFINE d == Head(down)
<1> PICK p : p = d.stream
  OBVIOUS
<1>0. /\ OutNatural /\ InNatural /\ streams \subseteq Out
      /\ UNCHANGED <<dbuffer, dcredit, dclosed, frame, up, control, data, credit, streams, taken, consumed, ended>>
      /\ d \in Fitting /\ d.type = "data"
      /\ \A t, x : /\ Carries(d, t, x) \in Nat /\ Bytes(down', t, x) \in Nat
                   /\ Bytes(down, t, x) = Carries(d, t, x) + Bytes(down', t, x)
  BY Numbers, Received DEF ReadData, WindowInv, TypeOK, CreditsOK, Receives, daemonVars, daemonIn, outboxVars,
     creditVars, drainVars
<1>1. queue' = IF p \in inlets /\ ~ended[p] THEN [queue EXCEPT ![p] = Append(@, d)] ELSE queue
  BY DEF ReadData
<1>2. p \in In /\ ~ended[p] => p \in inlets
  <2> SUFFICES ASSUME p \in In, ~ended[p], p \notin Outputs \cup opened PROVE FALSE
    BY DEF InletInv, Inlet
  <2>1. p \in Writable \ opened /\ down \in Seq(Full) /\ down # <<>>
    BY DEF In, FullInv, ReadData, Receives
  <2>2. OpenFirst(down, p)
    BY <2>1 DEF ReaderInv
  <2>. QED
    BY <1>0, <2>1, <2>2, OpenFirstTail
<1>3. p \in In => /\ d \in Chunks(p) /\ queue[p] \in Seq(Chunks(p))
                  /\ Bytes(Append(queue[p], d), "data", p) = Bytes(queue[p], "data", p) + Carries(d, "data", p)
  <2> SUFFICES ASSUME p \in In
               PROVE  /\ d \in Chunks(p) /\ queue[p] \in Seq(Chunks(p))
                      /\ Bytes(Append(queue[p], d), "data", p) = Bytes(queue[p], "data", p) + Carries(d, "data", p)
    OBVIOUS
  <2>1. d \in Chunks(p) /\ queue[p] \in Seq(Chunks(p)) /\ Chunks(p) \subseteq Fitting
    BY <1>0, LaneTypes DEF Chunks, WindowInv, Bounds, QueuesInv
  <2> HIDE DEF d
  <2>. QED
    BY <2>1, Appending
<1> DEFINE more == Append(queue[p], d)
<1>4. \A x \in In : ~ended[x] => queue'[x] = IF x = p THEN more ELSE queue[x]
  BY <1>1, <1>2 DEF WindowInv, TypeOK, InletsOK
<1>5. p = d.stream
  OBVIOUS
<1> HIDE DEF more, d
<1>6. /\ \A x : Carries(d, "credit", x) = 0
      /\ \A x : x # p => Carries(d, "data", x) = 0
  BY <1>0, <1>5 DEF Carries
<1>7. ASSUME NEW x \in Out PROVE Whole(x)' = Whole(x)
  <2>1. Bytes(down', "credit", x) = Bytes(down, "credit", x)
    <3>1. /\ Bytes(down, "credit", x) = 0 + Bytes(down', "credit", x) /\ Bytes(down', "credit", x) \in Nat
      BY <1>0, <1>6
    <3>. QED
      BY <3>1
  <2>. QED
    BY <1>0, <2>1 DEF Whole, OutData, OutGrants
<1>8. ASSUME NEW x \in In, ~ended[x] PROVE InTotal(x)' = InTotal(x)
  <2>1. InNaturalAt(x)
    BY <1>0 DEF InNatural
  <2>2. /\ Bytes(down, "data", x) = Carries(d, "data", x) + Bytes(down', "data", x)
        /\ Carries(d, "data", x) \in Nat /\ Bytes(down', "data", x) \in Nat
    BY <1>0
  <2>3. Bytes(queue'[x], "data", x) = Bytes(queue[x], "data", x) + Carries(d, "data", x)
    <3>1. CASE x = p
      BY <1>3, <1>4, <1>8, <3>1 DEF more
    <3>2. CASE x # p
      BY <1>4, <1>6, <1>8, <2>1, <3>2 DEF InNaturalAt
    <3>. QED
      BY <3>1, <3>2
  <2>. QED
    BY <1>0, <2>1, <2>2, <2>3 DEF InNaturalAt, InTotal, InData, InGrants
<1>. QED
  BY <1>0, <1>7, <1>8 DEF OutWhole, InWhole

LEMMA WholeReadsCredit ==
    ASSUME WindowInv, OutWhole, InWhole, ReadCredit
    PROVE  OutWhole' /\ InWhole'
<1> DEFINE d == Head(down)
<1>0. /\ OutNatural /\ InNatural /\ streams \subseteq Out /\ credit \in [Out -> Nat]
      /\ UNCHANGED <<dbuffer, dcredit, dclosed, frame, up, control, data, streams, queue, taken, consumed, ended>>
      /\ d \in Fitting /\ d.type = "credit"
      /\ \A t, x : /\ Carries(d, t, x) \in Nat /\ Bytes(down', t, x) \in Nat
                   /\ Bytes(down, t, x) = Carries(d, t, x) + Bytes(down', t, x)
  BY Numbers, Received DEF ReadCredit, WindowInv, TypeOK, CreditsOK, Receives, daemonVars, daemonIn, outboxVars,
     inletVars, drainVars
<1>1. credit' = IF d.stream \in streams THEN [credit EXCEPT ![d.stream] = @ + d.bytes] ELSE credit
  BY DEF ReadCredit, Grant
<1> HIDE DEF d
<1>2. d.bytes \in Nat /\ \A x : /\ Carries(d, "data", x) = 0
                                /\ Carries(d, "credit", x) = IF x = d.stream THEN d.bytes ELSE 0
  BY <1>0, LaneTypes DEF Carries
<1>3. ASSUME NEW x \in streams PROVE Whole(x)' = Whole(x)
  <2>1. credit'[x] = credit[x] + Carries(d, "credit", x)
    BY <1>0, <1>1, <1>2
  <2>2. /\ Bytes(down, "credit", x) = Carries(d, "credit", x) + Bytes(down', "credit", x)
        /\ Carries(d, "credit", x) \in Nat /\ Bytes(down', "credit", x) \in Nat /\ OutNaturalAt(x)
    BY <1>0 DEF OutNatural
  <2>. QED
    BY <1>0, <2>1, <2>2 DEF OutNaturalAt, Whole, OutData, OutGrants
<1>4. ASSUME NEW x \in In PROVE InTotal(x)' = InTotal(x)
  <2>1. Bytes(down, "data", x) = 0 + Bytes(down', "data", x) /\ Bytes(down', "data", x) \in Nat
    BY <1>0, <1>2
  <2>2. Bytes(down', "data", x) = Bytes(down, "data", x)
    BY <2>1
  <2>. QED
    BY <1>0, <2>2 DEF InTotal, InData, InGrants
<1>. QED
  BY <1>0, <1>3, <1>4 DEF OutWhole, InWhole

\* A stream that is opened starts with a whole window, nothing of it being outstanding.
LEMMA WholeOpens ==
    ASSUME WindowInv, InletInv, OutWhole, InWhole, ReadOpen
    PROVE  OutWhole' /\ InWhole'
<1> DEFINE d == Head(down)
<1> PICK fd : fd = d.stream
  OBVIOUS
<1>0. /\ OutNatural /\ InNatural /\ streams \subseteq Out /\ Receives("open")
      /\ UNCHANGED <<dbuffer, dcredit, dclosed, frame, up, control, data, taken, consumed>>
      /\ d \in Fitting /\ d.type = "open"
      /\ \A t, x : /\ Carries(d, t, x) \in Nat /\ Bytes(down', t, x) \in Nat
                   /\ Bytes(down, t, x) = Carries(d, t, x) + Bytes(down', t, x)
  BY Numbers, Received DEF ReadOpen, WindowInv, TypeOK, CreditsOK, Receives, daemonVars, daemonIn, outboxVars
<1>1. CASE UNCHANGED <<streams, credit, inletVars>>
  <2>1. "open" \in Types \ {"data", "credit"}
    BY DEF Types
  <2>. QED
    BY <1>0, <1>1, <2>1, WholeReadsOther DEF inletVars
<1>2. CASE fd \in Descriptors \ opened /\ OpensFor(fd)
  <2> HIDE DEF d
  <2>1. ASSUME NEW t \in {"data", "credit"}, NEW x PROVE Bytes(down', t, x) = Bytes(down, t, x)
    <3>1. Bytes(down, t, x) = 0 + Bytes(down', t, x) /\ Bytes(down', t, x) \in Nat
      BY <1>0 DEF Carries
    <3>. QED
      BY <3>1
  <2>2. \A x \in In : UNCHANGED <<ended[x], queue[x]>>
    <3>1. fd \in Writable => fd \in In /\ queue[fd] = <<>> /\ ~ended[fd]
      BY <1>2, SessionAssumption DEF In, InletInv, Inlet
    <3>. QED
      BY <1>2, <3>1 DEF OpensFor, inletVars, WindowInv, TypeOK, InletsOK
  <2>3. \A x \in In : InTotal(x)' = InTotal(x)
    BY <1>0, <2>1, <2>2 DEF InTotal, InData, InGrants
  <2>4. ASSUME NEW x \in streams' \ dclosed', x # fd \/ fd \notin Readable
        PROVE  x \in streams \ dclosed /\ Whole(x)' = Whole(x)
    <3>1. x \in streams \ dclosed /\ credit'[x] = credit[x]
      BY <1>0, <1>2, <2>4 DEF OpensFor, WindowInv, TypeOK, CreditsOK
    <3>. QED
      BY <1>0, <2>1, <3>1 DEF Whole, OutData, OutGrants
  <2>5. ASSUME fd \in Readable PROVE Whole(fd)' = WINDOW
    <3>1. fd \in Out /\ OutNaturalAt(fd) /\ OutTotal(fd) = 0 /\ WINDOW \in Nat
      BY <1>0, <1>2, <2>5, StreamTypes, SessionAssumption DEF OutNatural, WindowInv, Bounds, OutInv, Unopened
    <3>2. OutData(fd) = 0 /\ OutGrants(fd) = 0
      <4>1. Due(fd) \in Nat /\ OutData(fd) \in Nat /\ OutGrants(fd) \in Nat
        BY <3>1 DEF OutNaturalAt, OutData, OutGrants
      <4>2. Due(fd) + OutData(fd) + OutGrants(fd) = 0
        BY <3>1 DEF OutTotal
      <4>. QED
        BY <4>1, <4>2
    <3>3. credit'[fd] = WINDOW
      BY <1>2, <2>5, <3>1 DEF OpensFor, WindowInv, TypeOK, CreditsOK
    <3>4. OutData(fd)' = OutData(fd) /\ OutGrants(fd)' = OutGrants(fd)
      BY <1>0, <2>1 DEF OutData, OutGrants
    <3>. QED
      BY <3>1, <3>2, <3>3, <3>4 DEF Whole
  <2>. QED
    BY <2>2, <2>3, <2>4, <2>5 DEF OutWhole, InWhole
<1>. QED
  BY <1>1, <1>2 DEF ReadOpen, Openable, OpensFor, inletVars

LEMMA WholeReads ==
    ASSUME WindowInv, FullInv, ReaderInv, InletInv, OutWhole, InWhole, Reader, ~closed'
    PROVE  OutWhole' /\ InWhole'
<1> USE DEF outboxVars, writerVars, creditVars, pumpVars, inletVars, drainVars, wireVars, daemonVars, daemonIn, daemonOut
<1>0. {"end", "closed", "signal-ack", "exit-status"} \subseteq Types \ {"data", "credit"}
  BY DEF Types
<1>1. CASE ReadEnd
  BY <1>0, <1>1, WholeReadsOther DEF ReadEnd, WindowInv, TypeOK, InletsOK
<1>2. CASE ReadClosed
  BY <1>0, <1>2, WholeReadsOther DEF ReadClosed
<1>3. CASE ReadSignalAck
  BY <1>0, <1>3, WholeReadsOther DEF ReadSignalAck
<1>4. CASE ReadExitStatus
  BY <1>0, <1>4, WholeReadsOther DEF ReadExitStatus
<1>5. CASE ReadFails \/ ReaderClosesCredits
  BY <1>5, OutSame, InSame DEF ReadFails, ReaderClosesCredits
<1>6. CASE ReaderClosesOutbox \/ ReaderReleases
  BY <1>6 DEF ReaderClosesOutbox, ReaderReleases
<1>. QED
  BY <1>1, <1>2, <1>3, <1>4, <1>5, <1>6, WholeReadsData, WholeReadsCredit, WholeOpens DEF Reader

-----------------------------------------------------------------------------
(* The daemon spends the credit of what it writes, and grants what it gave *)
(* to the application.                                                     *)

LEMMA WholeHears ==
    ASSUME WindowInv, OutWhole, InWhole, NEW d \in Fitting, DaemonSends(d), dclosed \subseteq dclosed',
           \A x \in Out \ dclosed' : dbuffer'[x] + Carries(d, "credit", x) = dbuffer[x],
           \A x \in In : dcredit'[x] + Carries(d, "data", x) = dcredit[x],
           TypeOK'
    PROVE  OutWhole' /\ InWhole'
<1>0. /\ OutNatural /\ InNatural /\ streams \subseteq Out
      /\ UNCHANGED <<control, data, frame, up, queue, taken, consumed, streams, credit, ended>>
      /\ \A t, x : /\ Carries(d, t, x) \in Nat /\ Bytes(down, t, x) \in Nat
                   /\ Bytes(down', t, x) = Bytes(down, t, x) + Carries(d, t, x)
      /\ dbuffer' \in [Out -> Nat] /\ dcredit' \in [In -> Nat]
  BY Numbers, Sent DEF WindowInv, TypeOK, CreditsOK, DaemonOK, DaemonSends, launcherVars, outboxVars, inletVars,
     drainVars, creditVars
<1>1. ASSUME NEW x \in streams' \ dclosed' PROVE x \in streams \ dclosed /\ Whole(x)' = Whole(x)
  <2>1. x \in streams \ dclosed /\ OutNaturalAt(x) /\ dbuffer'[x] \in Nat
    BY <1>0, <1>1 DEF OutNatural
  <2>2. /\ Bytes(down', "credit", x) = Bytes(down, "credit", x) + Carries(d, "credit", x)
        /\ dbuffer'[x] + Carries(d, "credit", x) = dbuffer[x] /\ Carries(d, "credit", x) \in Nat
    BY <1>0, <1>1
  <2>3. UNCHANGED <<data, frame, up, credit>>
    BY <1>0
  <2>4. Whole(x)' = Whole(x)
    BY <2>1, <2>2, <2>3 DEF OutNaturalAt, Whole, OutData, OutGrants
  <2>. QED
    BY <2>1, <2>4
<1>2. ASSUME NEW x \in In PROVE InTotal(x)' = InTotal(x)
  <2>1. /\ Bytes(down', "data", x) = Bytes(down, "data", x) + Carries(d, "data", x)
        /\ dcredit'[x] + Carries(d, "data", x) = dcredit[x] /\ Carries(d, "data", x) \in Nat
        /\ InNaturalAt(x) /\ dcredit'[x] \in Nat
    BY <1>0 DEF InNatural
  <2>. QED
    BY <1>0, <2>1 DEF InNaturalAt, InTotal, InData, InGrants
<1>. QED
  BY <1>0, <1>1, <1>2 DEF OutWhole, InWhole

LEMMA WholeDaemon ==
    ASSUME WindowInv, TypeOK', OutWhole, InWhole, Daemon, ~DaemonReads
    PROVE  OutWhole' /\ InWhole'
<1> USE DEF daemonOut, daemonIn
<1>0. /\ dcredit \in [In -> Nat] /\ dbuffer \in [Out -> Nat] /\ dwritten \in [In -> Nat]
      /\ WINDOW \in Nat /\ MAXIMUM_CHUNK \in Nat /\ MAXIMUM_CHUNK <= WINDOW
  BY SessionAssumption DEF WindowInv, TypeOK, DaemonOK
<1>1. ASSUME NEW s \in In, DaemonWrites(s) PROVE OutWhole' /\ InWhole'
  <2>1. PICK n \in 1..Least(dcredit[s], MAXIMUM_CHUNK) :
           DaemonSends(Data(s, dwritten[s], n)) /\ dcredit' = [dcredit EXCEPT ![s] = @ - n]
    BY <1>1 DEF DaemonWrites
  <2> DEFINE d == Data(s, dwritten[s], n)
  <2>2. n \in Nat /\ n <= WINDOW
    BY <1>0, <2>1 DEF Least
  <2>3. /\ d \in Fitting /\ DaemonSends(d)
        /\ \A x : Carries(d, "data", x) = IF x = s THEN n ELSE 0
        /\ \A x : Carries(d, "credit", x) = 0
    BY <1>0, <2>1, <2>2, ChunkWeight, StreamTypes
  <2> HIDE DEF d
  <2>4. UNCHANGED <<dbuffer, dclosed>>
    BY <1>1 DEF DaemonWrites
  <2>5. \A x \in In : dcredit'[x] + Carries(d, "data", x) = dcredit[x]
    <3> SUFFICES ASSUME NEW x \in In PROVE dcredit'[x] + (IF x = s THEN n ELSE 0) = dcredit[x]
      BY <2>3
    <3>. QED
      BY <1>0, <2>1, <2>2
  <2>6. \A x \in Out : dbuffer'[x] + Carries(d, "credit", x) = dbuffer[x]
    BY <1>0, <2>3, <2>4
  <2>. QED
    BY <2>3, <2>4, <2>5, <2>6, WholeHears
<1>2. ASSUME NEW s \in Out, DaemonGrants(s) PROVE OutWhole' /\ InWhole'
  <2>1. PICK n \in 1..dbuffer[s] :
           DaemonSends(Credit(s, n)) /\ dbuffer' = [dbuffer EXCEPT ![s] = @ - n]
    BY <1>2 DEF DaemonGrants
  <2> DEFINE d == Credit(s, n)
  <2>2. n \in Nat /\ n <= WINDOW
    <3>1. OutNaturalAt(s) /\ OutTotal(s) <= WINDOW
      BY Numbers DEF OutNatural, WindowInv, Bounds, OutInv
    <3>2. dbuffer[s] <= WINDOW
      BY <1>0, <3>1 DEF OutNaturalAt, OutTotal, OutData, OutGrants
    <3>. QED
      BY <1>0, <2>1, <3>2
  <2>3. /\ d \in Fitting /\ DaemonSends(d)
        /\ \A x : Carries(d, "credit", x) = IF x = s THEN n ELSE 0
        /\ \A x : Carries(d, "data", x) = 0
    BY <2>1, <2>2, GrantWeight, StreamTypes
  <2> HIDE DEF d
  <2>4. UNCHANGED <<dcredit, dclosed>>
    BY <1>2 DEF DaemonGrants
  <2>5. \A x \in Out : dbuffer'[x] + Carries(d, "credit", x) = dbuffer[x]
    <3> SUFFICES ASSUME NEW x \in Out PROVE dbuffer'[x] + (IF x = s THEN n ELSE 0) = dbuffer[x]
      BY <2>3
    <3>. QED
      BY <1>0, <2>1, <2>2
  <2>6. \A x \in In : dcredit'[x] + Carries(d, "data", x) = dcredit[x]
    BY <1>0, <2>3, <2>4
  <2>. QED
    BY <2>3, <2>4, <2>5, <2>6, WholeHears
\* What carries nothing changes no buffer, but that of a stream it closes.
<1>3. ASSUME NEW s \in Streams, NEW type \in {"end", "closed", "open", "signal-ack", "exit-status"},
             DaemonSends(About(type, s)), UNCHANGED dcredit, dclosed \subseteq dclosed',
             \A x \in Out \ dclosed' : dbuffer'[x] = dbuffer[x]
      PROVE  OutWhole' /\ InWhole'
  <2> DEFINE d == About(type, s)
  <2>1. d \in Fitting /\ DaemonSends(d) /\ \A t, x : Carries(d, t, x) = 0
    BY <1>3, Weightless
  <2> HIDE DEF d
  <2>2. /\ \A x \in Out \ dclosed' : dbuffer'[x] + Carries(d, "credit", x) = dbuffer[x]
        /\ \A x \in In : dcredit'[x] + Carries(d, "data", x) = dcredit[x]
    BY <1>0, <1>3, <2>1
  <2>. QED
    BY <1>3, <2>1, <2>2, WholeHears
<1>4. ASSUME NEW s \in Out, DaemonCloses(s) PROVE OutWhole' /\ InWhole'
  <2>1. /\ DaemonSends(About("closed", s)) /\ UNCHANGED dcredit /\ dclosed' = dclosed \cup {s}
        /\ dbuffer' = [dbuffer EXCEPT ![s] = 0]
    BY <1>4 DEF DaemonCloses
  <2>2. \A x \in Out \ dclosed' : dbuffer'[x] = dbuffer[x]
    BY <1>0, <2>1
  <2>. QED
    BY <1>3, <2>1, <2>2, StreamTypes
<1>5. ASSUME NEW s \in In, DaemonEnds(s) PROVE OutWhole' /\ InWhole'
  BY <1>3, <1>5, StreamTypes DEF DaemonEnds
<1>6. ASSUME NEW fd \in Descriptors, DaemonOpens(fd) PROVE OutWhole' /\ InWhole'
  BY <1>3, <1>6, StreamTypes DEF DaemonOpens
<1>7. CASE DaemonAcks \/ DaemonExits
  BY <1>3, <1>7, StreamTypes DEF DaemonAcks, DaemonExits
<1>. QED
  BY <1>1, <1>2, <1>4, <1>5, <1>6, <1>7 DEF Daemon

LEMMA WholeTaken ==
    ASSUME WindowInv, TypeOK', OutWhole, InWhole, DaemonReads
    PROVE  OutWhole' /\ InWhole'
<1>0. /\ OutNatural /\ InNatural /\ LanesInv /\ streams \subseteq Out
      /\ UNCHANGED <<control, data, frame, down, streams, credit, queue, taken, consumed, ended, dclosed>>
      /\ dbuffer \in [Out -> Nat] /\ dcredit \in [In -> Nat]
  BY Numbers DEF WindowInv, Bounds, TypeOK, CreditsOK, DaemonOK, DaemonReads, launcherVars, outboxVars,
     writerVars, creditVars, inletVars, drainVars
<1> DEFINE d == Head(up)
<1>1. /\ d \in Fitting
      /\ \A t, x : /\ Carries(d, t, x) \in Nat /\ Bytes(up', t, x) \in Nat
                   /\ Bytes(up, t, x) = Carries(d, t, x) + Bytes(up', t, x)
  BY <1>0, Popping DEF DaemonReads, LanesInv
<1>2. /\ dbuffer' = IF d.type = "data" /\ d.stream \notin dclosed
                    THEN [dbuffer EXCEPT ![d.stream] = @ + d.bytes] ELSE dbuffer
      /\ dcredit' = IF d.type = "credit" THEN [dcredit EXCEPT ![d.stream] = @ + d.bytes] ELSE dcredit
  BY DEF DaemonReads
<1> HIDE DEF d
<1>3. d.bytes \in Nat
  BY <1>1, LaneTypes
<1>4. \A x \in Out \ dclosed : dbuffer'[x] = dbuffer[x] + Carries(d, "data", x)
  BY <1>0, <1>2, <1>3 DEF Carries
<1>5. \A x \in In : dcredit'[x] = dcredit[x] + Carries(d, "credit", x)
  BY <1>0, <1>2, <1>3 DEF Carries
<1>6. ASSUME NEW x \in streams \ dclosed PROVE Whole(x)' = Whole(x)
  <2>1. /\ OutNaturalAt(x) /\ dbuffer'[x] = dbuffer[x] + Carries(d, "data", x)
        /\ Bytes(up, "data", x) = Carries(d, "data", x) + Bytes(up', "data", x)
        /\ Carries(d, "data", x) \in Nat /\ Bytes(up', "data", x) \in Nat
    BY <1>0, <1>1, <1>4 DEF OutNatural
  <2>. QED
    BY <1>0, <2>1 DEF OutNaturalAt, Whole, OutData, OutGrants
<1>7. ASSUME NEW x \in In PROVE InTotal(x)' = InTotal(x)
  <2>1. /\ InNaturalAt(x) /\ dcredit'[x] = dcredit[x] + Carries(d, "credit", x)
        /\ Bytes(up, "credit", x) = Carries(d, "credit", x) + Bytes(up', "credit", x)
        /\ Carries(d, "credit", x) \in Nat /\ Bytes(up', "credit", x) \in Nat
    BY <1>0, <1>1, <1>5 DEF InNatural
  <2>. QED
    BY <1>0, <2>1 DEF InNaturalAt, InTotal, InData, InGrants
<1>. QED
  BY <1>0, <1>6, <1>7 DEF OutWhole, InWhole

-----------------------------------------------------------------------------
LEMMA ConservedInit == Init => HandsInv /\ Conserved
<1> SUFFICES ASSUME Init PROVE HandsInv /\ OutWhole /\ InWhole
  BY DEF Conserved
<1>1. HandsInv
  BY DEF Init, HandsInv
<1>2. /\ streams = {Stdin} /\ credit[Stdin] = WINDOW /\ dbuffer[Stdin] = 0
      /\ Bytes(data, "data", Stdin) = 0 /\ Bytes(frame, "data", Stdin) = 0
      /\ Bytes(up, "data", Stdin) = 0 /\ Bytes(down, "credit", Stdin) = 0
  <2>1. Bytes(<<About("end", Stdin)>>, "data", Stdin) = 0
    BY Weightless, Singleton, LaneTypes, StreamTypes
  <2>. QED
    BY <2>1, FrameEmptied, StreamTypes DEF Init
<1>3. OutWhole
  BY <1>2, SessionAssumption DEF OutWhole, Whole, OutData, OutGrants
<1>4. \A s \in In : /\ control = <<>> /\ frame = <<>> /\ up = <<>> /\ down = <<>>
                    /\ queue[s] = <<>> /\ taken[s] = <<>> /\ consumed[s] = 0 /\ dcredit[s] = WINDOW
  BY DEF Init
<1>5. InWhole
  BY <1>4, FrameEmptied, SessionAssumption DEF InWhole, InTotal, InData, InGrants
<1>. QED
  BY <1>1, <1>3, <1>5

LEMMA ConservedStep ==
    Settled /\ Settled' /\ KindsInv /\ HandsInv /\ Conserved /\ [Next]_vars => Conserved'
<1> SUFFICES ASSUME Settled, Settled', KindsInv, HandsInv, Conserved, [Next]_vars, connected', ~closed'
             PROVE  OutWhole' /\ InWhole'
  BY DEF Conserved
<1>0. /\ WindowInv /\ FullInv /\ ReaderInv /\ InletInv /\ TypeOK' /\ TypeOK
      /\ ~closed /\ OutWhole /\ InWhole
  BY StillOpen DEF Settled, WindowInv, Conserved
<1> USE DEF outboxVars, writerVars, creditVars, inletVars, drainVars, wireVars, daemonVars, daemonIn, daemonOut
<1>1. ASSUME NEW s \in Out, Pump(s) PROVE OutWhole' /\ InWhole'
  BY <1>0, <1>1, WholePumps
<1>2. ASSUME NEW s \in In, Drain(s) PROVE OutWhole' /\ InWhole'
  BY <1>0, <1>2, WholeDrains
<1>3. CASE Reader
  BY <1>0, <1>3, WholeReads
<1>4. CASE Writer
  <2>1. CASE WriterFails
    BY <2>1 DEF WriterFails
  <2>2. CASE WriterReturns
    BY <1>0, <2>2, OutSame, InSame DEF WriterReturns
  <2>. QED
    BY <1>0, <1>4, <2>1, <2>2, WholePops, WholeWrites DEF Writer
<1>5. CASE Client
  <2>1. CASE Signal
    BY <1>0, <2>1, WholeSays, StreamTypes DEF Signal
  <2>2. CASE Disconnect
    BY <2>2 DEF Disconnect
  <2>3. CASE \E s \in In : DiscardStdout(s) \/ SinkBreaks(s)
    BY <1>0, <2>3, OutSame, InSame DEF DiscardStdout, SinkBreaks
  <2>. QED
    BY <1>5, <2>1, <2>2, <2>3 DEF Client
<1>6. CASE Daemon
  BY <1>0, <1>6, WholeDaemon, WholeTaken
<1>7. CASE UNCHANGED vars \/ Wait \/ Terminated
  BY <1>0, <1>7, OutSame, InSame DEF vars, Wait, Terminated
<1>. QED
  BY <1>1, <1>2, <1>3, <1>4, <1>5, <1>6, <1>7 DEF Next

LEMMA WithheldStep == TypeOK /\ WithheldInv /\ [Next]_vars => WithheldInv'
<1> SUFFICES ASSUME TypeOK, WithheldInv, [Next]_vars PROVE WithheldInv'
  OBVIOUS
<1> USE DEF drainVars
<1>0. ASSUME UNCHANGED consumed PROVE WithheldInv'
  BY <1>0 DEF WithheldInv
<1>1. ASSUME NEW s \in Out, Pump(s) PROVE UNCHANGED consumed
  BY <1>1 DEF Pump, PumpAllowance, PumpReads, PumpSends, PumpFinishes, PumpEnds
<1>2. ASSUME NEW s \in In, DrainTakes(s) \/ DrainWrites(s) PROVE UNCHANGED consumed
  BY <1>2 DEF DrainTakes, DrainWrites
<1>3. ASSUME NEW s \in In, DrainGrants(s) PROVE WithheldInv'
  <2> DEFINE total == consumed[s] + taken[s][1].bytes
  <2>1. \/ consumed' = [consumed EXCEPT ![s] = 0]
        \/ consumed' = [consumed EXCEPT ![s] = total] /\ ~(total >= HALF)
    BY <1>3 DEF DrainGrants
  <2>2. total \in Nat
    <3>1. Len(taken[s]) = 1 /\ taken[s] \in Seq(Document) /\ consumed[s] \in Nat
      BY <1>3 DEF TypeOK, DrainsOK, DrainGrants
    <3>. QED
      BY <3>1, QueueTypes
  <2> HIDE DEF total
  <2>3. ~(total >= HALF) => 2 * total < WINDOW
    BY <2>2, SessionAssumption DEF HALF
  <2>4. consumed \in [In -> Nat]
    BY DEF TypeOK, DrainsOK
  <2>5. CASE consumed' = [consumed EXCEPT ![s] = 0]
    BY <2>4, <2>5 DEF WithheldInv
  <2>6. CASE consumed' = [consumed EXCEPT ![s] = total] /\ ~(total >= HALF)
    BY <2>3, <2>4, <2>6 DEF WithheldInv
  <2>. QED
    BY <2>1, <2>5, <2>6
<1>4. ASSUME Reader PROVE UNCHANGED consumed
  BY <1>4 DEF Reader, Receives, ReadData, ReadEnd, ReadCredit, ReadClosed, ReadOpen, ReadSignalAck,
     ReadExitStatus, ReadFails, ReaderClosesCredits, ReaderClosesOutbox, ReaderReleases
<1>5. ASSUME Writer PROVE UNCHANGED consumed
  BY <1>5 DEF Writer, WriterPops, WriterReturns, WriterWrites, WriterFails
<1>6. ASSUME Client PROVE UNCHANGED consumed
  BY <1>6 DEF Client, Signal, Disconnect, DiscardStdout, SinkBreaks
<1>7. ASSUME Daemon PROVE UNCHANGED consumed
  BY <1>7 DEF Daemon, DaemonReads, DaemonAcks, DaemonExits, DaemonWrites, DaemonEnds, DaemonGrants,
     DaemonCloses, DaemonOpens, DaemonSends, launcherVars
<1>8. ASSUME UNCHANGED vars \/ Wait \/ Terminated PROVE UNCHANGED consumed
  BY <1>8 DEF vars, Wait, Terminated
<1>. QED
  BY <1>0, <1>1, <1>2, <1>3, <1>4, <1>5, <1>6, <1>7, <1>8 DEF Next, Drain

\* No credit leaks (Credits and `pump`, `drain` of session.rs): every byte of a live stream's window
\* is in credit, in flight, held by the receiver or on its way back, whatever is written, read,
\* discarded, granted and opened, and a drain keeps back less than half of it.
THEOREM CreditIsConserved == Spec => []CreditConserved
<1>1. TypeOK /\ Settled /\ HandsInv /\ [Next]_vars => HandsInv'
  BY HandsStep DEF Settled
<1>2. TypeOK /\ Settled /\ Conserved /\ WithheldInv => CreditConserved
  BY WholeImplies DEF Settled
<1>3. Settled => TypeOK
  BY DEF Settled, WindowInv
<1>4. OutInvariant => KindsInv
  BY DEF OutInvariant, Sound
<1>5. Init => WithheldInv
  BY DEF Init, WithheldInv
<1>. QED
  BY <1>1, <1>2, <1>3, <1>4, <1>5, ConservedInit, ConservedStep, WithheldStep, SettledHolds,
     OutInvariantHolds, PTL DEF Spec

-----------------------------------------------------------------------------
(* Signals and their answers, counted.                                     *)

Number(q, type) == Cardinality({i \in DOMAIN q : q[i].type = type})
One(d, type) == IF d.type = type THEN 1 ELSE 0

LEMMA NumberNone == \A type : Number(<<>>, type) = 0
<1>1. \A type : {i \in DOMAIN <<>> : <<>>[i].type = type} = {}
  OBVIOUS
<1>. QED
  BY <1>1, FS_EmptySet DEF Number

LEMMA NumberAppend ==
    ASSUME NEW q \in Seq(Document), NEW d \in Document, NEW type
    PROVE  /\ Number(q, type) \in Nat
           /\ Number(Append(q, d), type) = Number(q, type) + One(d, type)
<1> DEFINE n == Len(q) + 1
           S == {i \in DOMAIN q : q[i].type = type}
           T == {i \in {n} : d.type = type}
<1>1. IsFiniteSet(S)
  <2>1. IsFiniteSet(1..Len(q)) /\ S \in SUBSET (1..Len(q))
    BY FS_Interval
  <2>. QED
    BY <2>1, FS_Subset
<1>2. IsFiniteSet(T) /\ Cardinality(T) = One(d, type)
  <2>1. CASE d.type = type
    <3>1. T = {n} /\ One(d, type) = 1
      BY <2>1 DEF One
    <3>. QED
      BY <3>1, FS_Singleton
  <2>2. CASE d.type # type
    <3>1. T = {} /\ One(d, type) = 0
      BY <2>2 DEF One
    <3>. QED
      BY <3>1, FS_EmptySet
  <2>. QED
    BY <2>1, <2>2
<1>3. {i \in DOMAIN Append(q, d) : Append(q, d)[i].type = type} = S \cup T
  <2>1. /\ DOMAIN q = 1..Len(q) /\ DOMAIN Append(q, d) = 1..n
        /\ Append(q, d)[n] = d /\ \A i \in 1..Len(q) : Append(q, d)[i] = q[i]
    OBVIOUS
  <2>. QED
    BY <2>1
<1>4. S \cap T = {}
  OBVIOUS
<1>5. Number(q, type) = Cardinality(S) /\ Number(Append(q, d), type) = Cardinality(S \cup T)
  BY <1>3 DEF Number
<1> HIDE DEF S, T
<1>. QED
  BY <1>1, <1>2, <1>4, <1>5, DisjointUnion, FS_CardinalityType

LEMMA NumberTail ==
    ASSUME NEW q \in Seq(Document), q # <<>>, NEW type
    PROVE  /\ Number(Tail(q), type) \in Nat
           /\ Number(q, type) = One(Head(q), type) + Number(Tail(q), type)
<1> DEFINE d == Head(q)
           S == {i \in {1} : d.type = type}
           R == {i \in DOMAIN Tail(q) : Tail(q)[i].type = type}
           T == {i \in 2..Len(q) : q[i].type = type}
           f == [i \in R |-> i + 1]
<1>1. /\ DOMAIN q = 1..Len(q) /\ q[1] = d /\ Len(q) \in Nat /\ Len(q) >= 1
      /\ DOMAIN Tail(q) = 1..(Len(q) - 1)
      /\ \A i \in 1..(Len(q) - 1) : Tail(q)[i] = q[i + 1]
  OBVIOUS
<1>2. IsFiniteSet(S) /\ Cardinality(S) = One(d, type)
  <2>1. CASE d.type = type
    <3>1. S = {1} /\ One(d, type) = 1
      BY <2>1 DEF One
    <3>. QED
      BY <3>1, FS_Singleton
  <2>2. CASE d.type # type
    <3>1. S = {} /\ One(d, type) = 0
      BY <2>2 DEF One
    <3>. QED
      BY <3>1, FS_EmptySet
  <2>. QED
    BY <2>1, <2>2
<1>3. IsFiniteSet(R)
  <2>1. IsFiniteSet(1..(Len(q) - 1)) /\ R \in SUBSET (1..(Len(q) - 1))
    BY <1>1, FS_Interval
  <2>. QED
    BY <2>1, FS_Subset
<1>4. f \in Bijection(R, T)
  <2>1. f \in [R -> T]
    BY <1>1
  <2>2. \A a, b \in R : f[a] = f[b] => a = b
    BY <1>1
  <2>3. \A t \in T : \E i \in R : f[i] = t
    <3> SUFFICES ASSUME NEW t \in T PROVE \E i \in R : f[i] = t
      OBVIOUS
    <3>1. t - 1 \in R /\ (t - 1) + 1 = t
      BY <1>1
    <3>2. f[t - 1] = (t - 1) + 1
      BY <3>1
    <3>. QED
      BY <3>1, <3>2
  <2>. QED
    BY <2>1, <2>2, <2>3, Fun_IsBij, Zenon
<1>5. IsFiniteSet(T) /\ Cardinality(T) = Cardinality(R)
  BY <1>3, <1>4, FS_Bijection DEF ExistsBijection
<1>6. {i \in DOMAIN q : q[i].type = type} = S \cup T /\ S \cap T = {}
  BY <1>1
<1>7. Number(q, type) = Cardinality(S \cup T) /\ Number(Tail(q), type) = Cardinality(R)
  BY <1>6 DEF Number
<1> HIDE DEF S, T, R, f
<1>. QED
  BY <1>2, <1>3, <1>5, <1>6, <1>7, DisjointUnion, FS_CardinalityType

LEMMA NumberOne ==
    ASSUME NEW d \in Document, NEW type PROVE Number(<<d>>, type) = One(d, type)
<1> DEFINE none == <<>>
<1>1. none \in Seq(Document) /\ Append(none, d) = <<d>>
  OBVIOUS
<1>2. Number(Append(none, d), type) = Number(none, type) + One(d, type)
  <2>1. none \in Seq(Document)
    OBVIOUS
  <2> HIDE DEF none
  <2>. QED
    BY <2>1, NumberAppend
<1>. QED
  BY <1>1, <1>2, NumberNone DEF One

LEMMA NumberNat ==
    ASSUME NEW q \in Seq(Document), NEW type
    PROVE  Number(q, type) \in Nat /\ (Number(q, type) > 0 => q # <<>>)
<1>1. About("end", Stdin) \in Document
  BY DocumentTypes, StreamTypes
<1>. QED
  BY <1>1, NumberAppend, NumberNone

-----------------------------------------------------------------------------
\* Every signal forwarded is somewhere on its way to the daemon, with it, on its way back as an
\* answer, or answered.
Forwarded ==
    Number(control, "signal") + Number(frame, "signal") + Number(up, "signal") + dsignals
        + Number(down, "signal-ack") + acks

SignalsAccounted == Forwarded <= signals /\ (connected => Forwarded = signals)

ForwardedNatural ==
    /\ Number(control, "signal") \in Nat /\ Number(frame, "signal") \in Nat
    /\ Number(up, "signal") \in Nat /\ dsignals \in Nat
    /\ Number(down, "signal-ack") \in Nat /\ acks \in Nat /\ signals \in Nat

LEMMA ForwardedNumbers == TypeOK => ForwardedNatural
BY NumberNat DEF TypeOK, OutboxOK, WriterOK, WireOK, SignalsOK, ForwardedNatural

forwardVars == <<control, frame, up, down, signalVars>>

LEMMA AccountedKept ==
    ASSUME SignalsAccounted, UNCHANGED forwardVars, connected' => connected
    PROVE  SignalsAccounted'
<1>1. Forwarded' = Forwarded /\ signals' = signals
  BY DEF Forwarded, forwardVars, signalVars
<1>. QED
  BY <1>1 DEF SignalsAccounted

\* What is put in the control lane other than a signal is not counted.
LEMMA AccountedSends ==
    ASSUME TypeOK, SignalsAccounted, NEW d \in Document, d.type # "signal", Send(d),
           UNCHANGED <<frame, up, down, connected, signalVars>>
    PROVE  SignalsAccounted'
<1>1. Number(control', "signal") = Number(control, "signal")
  <2>1. Number(Append(control, d), "signal") = Number(control, "signal")
    BY NumberAppend DEF TypeOK, OutboxOK, One
  <2>. QED
    BY <2>1 DEF Send
<1>. QED
  BY <1>1 DEF SignalsAccounted, Forwarded, signalVars

LEMMA AccountedWriter ==
    ASSUME TypeOK, KindsInv, SignalsAccounted, Writer
    PROVE  SignalsAccounted'
<1> USE DEF signalVars, wireVars, outboxVars
<1>0. /\ control \in Seq(Document) /\ frame \in Seq(Document) /\ up \in Seq(Document)
      /\ data \in Seq(Content) /\ data \in Seq(Document) /\ ForwardedNatural
  BY ForwardedNumbers DEF TypeOK, OutboxOK, WriterOK, WireOK, KindsInv
<1>1. CASE WriterPops
  <2>0. frame = <<>> /\ UNCHANGED <<up, down, connected, signalVars>>
    BY <1>1 DEF WriterPops
  <2>1. CASE control # <<>> /\ frame' = <<Head(control)>> /\ control' = Tail(control)
    <3> DEFINE d == Head(control)
    <3>1. d \in Document
      BY <1>0, <2>1
    <3>2. Number(control, "signal") = One(d, "signal") + Number(control', "signal")
      BY <1>0, <2>1, NumberTail
    <3>3. Number(frame', "signal") = One(d, "signal") /\ Number(frame, "signal") = 0
      <4> HIDE DEF d
      <4>1. frame' = <<d>>
        BY <2>1 DEF d
      <4>. QED
        BY <2>0, <3>1, <4>1, NumberOne, NumberNone
    <3>4. Number(control', "signal") \in Nat /\ One(d, "signal") \in Nat
      BY <1>0, <2>1, NumberTail DEF One
    <3> HIDE DEF d
    <3>. QED
      BY <1>0, <2>0, <3>2, <3>3, <3>4 DEF SignalsAccounted, Forwarded, ForwardedNatural
  <2>2. CASE data # <<>> /\ frame' = <<Head(data)>> /\ UNCHANGED control
    <3> DEFINE d == Head(data)
    <3>1. d \in Document /\ d.type # "signal"
      BY <1>0, <2>2 DEF Content
    <3>2. Number(frame', "signal") = 0 /\ Number(frame, "signal") = 0
      <4> HIDE DEF d
      <4>1. frame' = <<d>>
        BY <2>2 DEF d
      <4>. QED
        BY <2>0, <3>1, <4>1, NumberOne, NumberNone DEF One
    <3>. QED
      BY <1>0, <2>0, <2>2, <3>2 DEF SignalsAccounted, Forwarded, ForwardedNatural
  <2>. QED
    BY <1>1, <2>1, <2>2 DEF WriterPops
<1>2. CASE WriterWrites
  <2> DEFINE d == Head(frame)
  <2>0. UNCHANGED <<control, down, connected, signalVars>> /\ frame # <<>>
        /\ frame' = <<>> /\ up' = Append(up, d) /\ Len(frame) <= 1
    BY <1>2 DEF WriterWrites, KindsInv
  <2>1. d \in Document /\ Tail(frame) = <<>>
    BY <1>0, <2>0
  <2>2. Number(frame, "signal") = One(d, "signal")
    <3>1. Number(frame, "signal") = One(d, "signal") + Number(Tail(frame), "signal")
      BY <1>0, <2>0, NumberTail
    <3>2. Number(Tail(frame), "signal") = 0 /\ One(d, "signal") \in Nat
      BY <2>1, NumberNone DEF One
    <3> HIDE DEF d
    <3>. QED
      BY <3>1, <3>2
  <2>3. Number(up', "signal") = Number(up, "signal") + One(d, "signal")
    BY <1>0, <2>0, <2>1, NumberAppend
  <2>4. Number(frame', "signal") = 0 /\ One(d, "signal") \in Nat
    BY <2>0, NumberNone DEF One
  <2> HIDE DEF d
  <2>. QED
    BY <1>0, <2>0, <2>2, <2>3, <2>4 DEF SignalsAccounted, Forwarded, ForwardedNatural
<1>3. CASE WriterFails
  <2>1. UNCHANGED <<control, up, down, connected, signalVars>> /\ ~connected /\ frame' = <<>>
    BY <1>3 DEF WriterFails
  <2>2. Number(frame', "signal") = 0
    BY <2>1, NumberNone
  <2>. QED
    BY <1>0, <2>1, <2>2 DEF SignalsAccounted, Forwarded, ForwardedNatural
<1>4. CASE WriterReturns
  BY <1>4, AccountedKept DEF WriterReturns, forwardVars
<1>. QED
  BY <1>1, <1>2, <1>3, <1>4 DEF Writer

LEMMA AccountedReader ==
    ASSUME TypeOK, SignalsAccounted, Reader
    PROVE  SignalsAccounted'
<1> USE DEF signalVars, wireVars, outboxVars, writerVars
<1>0. down \in Seq(Document) /\ ForwardedNatural
  BY ForwardedNumbers DEF TypeOK, WireOK
<1>1. ASSUME NEW type, Receives(type)
      PROVE  /\ Number(down, "signal-ack") = (IF type = "signal-ack" THEN 1 ELSE 0) + Number(down', "signal-ack")
             /\ Number(down', "signal-ack") \in Nat
  BY <1>0, <1>1, NumberTail DEF Receives, One
<1>2. CASE ReadSignalAck
  <2>1. UNCHANGED <<control, frame, up, connected, signals, dsignals>> /\ acks' = acks + 1
    BY <1>2 DEF ReadSignalAck, Receives
  <2>2. Number(down, "signal-ack") = 1 + Number(down', "signal-ack") /\ Number(down', "signal-ack") \in Nat
    BY <1>1, <1>2 DEF ReadSignalAck
  <2>. QED
    BY <1>0, <2>1, <2>2 DEF SignalsAccounted, Forwarded, ForwardedNatural
<1>3. ASSUME NEW type \in {"data", "end", "credit", "closed", "open", "exit-status"}, Receives(type),
             UNCHANGED <<control, signalVars>>
      PROVE  SignalsAccounted'
  <2>1. Number(down', "signal-ack") = Number(down, "signal-ack") /\ UNCHANGED <<frame, up, connected>>
    BY <1>0, <1>1, <1>3 DEF Receives, ForwardedNatural
  <2>. QED
    BY <1>3, <2>1 DEF SignalsAccounted, Forwarded
<1>4. CASE ReadFails \/ ReaderClosesCredits \/ ReaderClosesOutbox \/ ReaderReleases
  BY <1>4, AccountedKept DEF ReadFails, ReaderClosesCredits, ReaderClosesOutbox, ReaderReleases, forwardVars
<1>. QED
  BY <1>2, <1>3, <1>4 DEF Reader, ReadData, ReadEnd, ReadCredit, ReadClosed, ReadOpen, ReadExitStatus

LEMMA AccountedDaemon ==
    ASSUME TypeOK, SignalsAccounted, Daemon
    PROVE  SignalsAccounted'
<1> USE DEF signalVars, launcherVars, outboxVars, writerVars
<1>0. down \in Seq(Document) /\ up \in Seq(Document) /\ ForwardedNatural
  BY ForwardedNumbers DEF TypeOK, WireOK
<1>1. ASSUME NEW d \in Document, DaemonSends(d)
      PROVE  /\ Number(down', "signal-ack") = Number(down, "signal-ack") + One(d, "signal-ack")
             /\ UNCHANGED <<control, frame, up, connected>> /\ connected
  BY <1>0, <1>1, NumberAppend DEF DaemonSends
<1>2. ASSUME NEW d \in Document, d.type # "signal-ack", DaemonSends(d), UNCHANGED signalVars
      PROVE  SignalsAccounted'
  <2>1. Number(down', "signal-ack") = Number(down, "signal-ack") /\ UNCHANGED <<control, frame, up, connected>>
    BY <1>0, <1>1, <1>2 DEF One, ForwardedNatural
  <2>. QED
    BY <1>2, <2>1 DEF SignalsAccounted, Forwarded
<1>3. \A s \in Streams : /\ \A t \in {"end", "closed", "open", "exit-status"} :
                              About(t, s) \in Document /\ About(t, s).type # "signal-ack"
                         /\ \A n \in Nat : /\ Credit(s, n) \in Document /\ Credit(s, n).type # "signal-ack"
                                           /\ \A from \in Nat : /\ Data(s, from, n) \in Document
                                                                /\ Data(s, from, n).type # "signal-ack"
                         /\ About("signal-ack", s) \in Document /\ About("signal-ack", s).type = "signal-ack"
  BY DEF About, Credit, Data, Document, Types
<1>4. CASE DaemonReads
  <2>1. /\ up # <<>> /\ up' = Tail(up) /\ UNCHANGED <<control, frame, down, connected, signals, acks>>
        /\ dsignals' = IF Head(up).type = "signal" THEN dsignals + 1 ELSE dsignals
    BY <1>4 DEF DaemonReads
  <2>2. /\ Number(up, "signal") = One(Head(up), "signal") + Number(up', "signal")
        /\ Number(up', "signal") \in Nat
    BY <1>0, <2>1, NumberTail
  <2>3. dsignals' = dsignals + One(Head(up), "signal") /\ One(Head(up), "signal") \in Nat
    BY <1>0, <2>1 DEF One, ForwardedNatural
  <2>4. Forwarded' = Number(control, "signal") + Number(frame, "signal") + Number(up', "signal")
                       + (dsignals + One(Head(up), "signal")) + Number(down, "signal-ack") + acks
    BY <2>1, <2>3 DEF Forwarded
  <2>5. Forwarded' = Forwarded
    BY <1>0, <2>2, <2>3, <2>4 DEF Forwarded, ForwardedNatural
  <2>. QED
    BY <2>1, <2>5 DEF SignalsAccounted
<1>5. CASE DaemonAcks
  <2>1. DaemonSends(About("signal-ack", Stdin)) /\ UNCHANGED <<signals, acks>> /\ dsignals' = dsignals - 1 /\ dsignals > 0
    BY <1>5 DEF DaemonAcks
  <2>2. Number(down', "signal-ack") = Number(down, "signal-ack") + 1 /\ UNCHANGED <<control, frame, up, connected>>
    BY <1>1, <1>3, <2>1, StreamTypes DEF One
  <2>3. Forwarded' = Number(control, "signal") + Number(frame, "signal") + Number(up, "signal")
                       + (dsignals - 1) + (Number(down, "signal-ack") + 1) + acks
    <3>1. UNCHANGED <<control, frame, up, acks>> /\ dsignals' = dsignals - 1
      BY <2>1, <2>2
    <3>. QED
      BY <2>2, <3>1 DEF Forwarded
  <2>4. Forwarded = Number(control, "signal") + Number(frame, "signal") + Number(up, "signal")
                       + dsignals + Number(down, "signal-ack") + acks
    BY DEF Forwarded
  <2>5. Forwarded' = Forwarded
    BY <1>0, <2>3, <2>4 DEF ForwardedNatural
  <2>. QED
    BY <2>1, <2>2, <2>5 DEF SignalsAccounted
<1>6. CASE DaemonExits
  BY <1>2, <1>3, <1>6, StreamTypes DEF DaemonExits
<1>7. ASSUME NEW s \in In, DaemonWrites(s) \/ DaemonEnds(s) PROVE SignalsAccounted'
  <2>1. dwritten[s] \in Nat /\ dcredit[s] \in Nat /\ MAXIMUM_CHUNK \in Nat
    BY SessionAssumption DEF TypeOK, DaemonOK
  <2>2. \A n \in 1..Least(dcredit[s], MAXIMUM_CHUNK) : n \in Nat
    BY <2>1, LeastTypes
  <2>. QED
    BY <1>2, <1>3, <1>7, <2>1, <2>2, StreamTypes DEF DaemonWrites, DaemonEnds
<1>8. ASSUME NEW s \in Out, DaemonGrants(s) \/ DaemonCloses(s) PROVE SignalsAccounted'
  <2>1. \A n \in 1..dbuffer[s] : n \in Nat
    BY DEF TypeOK, DaemonOK
  <2>. QED
    BY <1>2, <1>3, <1>8, <2>1, StreamTypes DEF DaemonGrants, DaemonCloses
<1>9. ASSUME NEW fd \in Descriptors, DaemonOpens(fd) PROVE SignalsAccounted'
  BY <1>2, <1>3, <1>9, StreamTypes DEF DaemonOpens
<1>. QED
  BY <1>4, <1>5, <1>6, <1>7, <1>8, <1>9 DEF Daemon

LEMMA AccountedStep == TypeOK /\ KindsInv /\ SignalsAccounted /\ [Next]_vars => SignalsAccounted'
<1> SUFFICES ASSUME TypeOK, KindsInv, SignalsAccounted, [Next]_vars PROVE SignalsAccounted'
  OBVIOUS
<1> USE DEF signalVars, wireVars, outboxVars, writerVars
<1>0. ForwardedNatural /\ control \in Seq(Document)
  BY ForwardedNumbers DEF TypeOK, OutboxOK
<1>1. ASSUME NEW s \in Out, Pump(s) PROVE SignalsAccounted'
  BY <1>1, AccountedKept DEF Pump, PumpAllowance, PumpReads, PumpSends, PumpFinishes, PumpEnds, SendData, forwardVars
<1>2. ASSUME NEW s \in In, Drain(s) PROVE SignalsAccounted'
  <2>1. UNCHANGED <<frame, up, down, connected, signalVars>>
    BY <1>2 DEF Drain, DrainTakes, DrainWrites, DrainGrants
  <2>2. CASE UNCHANGED control
    BY <2>1, <2>2, AccountedKept DEF forwardVars
  <2>3. ASSUME NEW n \in Nat, Send(Credit(s, n)) PROVE SignalsAccounted'
    <3>1. Credit(s, n) \in Document /\ Credit(s, n).type # "signal"
      BY StreamTypes DEF Credit, Document, Types
    <3>. QED
      BY <2>1, <2>3, <3>1, AccountedSends
  <2>4. CASE Send(About("closed", s))
    <3>1. About("closed", s) \in Document /\ About("closed", s).type # "signal"
      BY StreamTypes DEF About, Document, Types
    <3>. QED
      BY <2>1, <2>4, <3>1, AccountedSends
  <2>5. DrainGrants(s) => consumed[s] + taken[s][1].bytes \in Nat
    <3>1. DrainGrants(s) => Len(taken[s]) = 1 /\ taken[s] \in Seq(Document) /\ consumed[s] \in Nat
      BY DEF TypeOK, DrainsOK, DrainGrants
    <3>. QED
      BY <3>1, QueueTypes
  <2>. QED
    BY <1>2, <2>2, <2>3, <2>4, <2>5 DEF Drain, DrainTakes, DrainWrites, DrainGrants
<1>3. CASE Client
  <2>1. CASE Signal
    <3> DEFINE d == About("signal", Stdin)
    <3>1. d \in Document /\ One(d, "signal") = 1
      BY StreamTypes DEF About, Document, Types, One
    <3>2. Send(d) /\ ~closed /\ UNCHANGED <<frame, up, down, connected, dsignals, acks>> /\ signals' = signals + 1
      BY <2>1 DEF Signal
    <3> HIDE DEF d
    <3>3. Number(control', "signal") = Number(control, "signal") + 1
      BY <1>0, <3>1, <3>2, NumberAppend DEF Send
    <3>4. Forwarded' = (Number(control, "signal") + 1) + Number(frame, "signal") + Number(up, "signal")
                         + dsignals + Number(down, "signal-ack") + acks
      BY <3>2, <3>3 DEF Forwarded
    <3>5. Forwarded' = Forwarded + 1 /\ Forwarded \in Nat /\ signals \in Nat
      BY <1>0, <3>4 DEF Forwarded, ForwardedNatural
    <3>. QED
      BY <3>2, <3>5 DEF SignalsAccounted
  <2>2. CASE Disconnect
    <3>1. up' = <<>> /\ ~connected' /\ UNCHANGED <<control, frame, down, signalVars>>
      BY <2>2 DEF Disconnect
    <3>2. Number(up', "signal") = 0
      BY <3>1, NumberNone
    <3>. QED
      BY <1>0, <3>1, <3>2 DEF SignalsAccounted, Forwarded, ForwardedNatural
  <2>3. CASE \E s \in In : DiscardStdout(s) \/ SinkBreaks(s)
    BY <2>3, AccountedKept DEF DiscardStdout, SinkBreaks, forwardVars
  <2>. QED
    BY <1>3, <2>1, <2>2, <2>3 DEF Client
<1>4. CASE UNCHANGED vars \/ Wait \/ Terminated
  BY <1>4, AccountedKept DEF vars, Wait, Terminated, forwardVars
<1>. QED
  BY <1>1, <1>2, <1>3, <1>4, AccountedWriter, AccountedReader, AccountedDaemon DEF Next

\* No signal is lost or answered twice (Signaler.signal, Outbox, `writer` and `reader` of session.rs):
\* while the connection lasts, each one forwarded is in the control lane, in the writer's hand, on the
\* socket, with the daemon, on its way back as an answer, or answered, whatever the other streams do.
THEOREM SignalsAreAccounted == Spec => []SignalsAccounted
<1>1. Init => SignalsAccounted
  <2> SUFFICES ASSUME Init PROVE SignalsAccounted
    OBVIOUS
  <2>1. control = <<>> /\ frame = <<>> /\ up = <<>> /\ down = <<>> /\ signals = 0 /\ dsignals = 0 /\ acks = 0
    BY DEF Init
  <2>. QED
    BY <2>1, NumberNone DEF SignalsAccounted, Forwarded
<1>2. OutInvariant => TypeOK /\ KindsInv
  BY DEF OutInvariant, Sound, WindowInv
<1>. QED
  BY <1>1, <1>2, AccountedStep, OutInvariantHolds, PTL DEF Spec

-----------------------------------------------------------------------------
(* No deadlock: whoever waits, someone it waits for has a step to take.    *)

\* The writer leaves nothing behind that could still be written, and is never without its lanes.
WriterInv ==
    /\ writer = "returned" => frame = <<>> /\ closed
    /\ writer = "returned" /\ connected => control = <<>> /\ data = <<>>

LEMMA WriterStep == TypeOK /\ KindsInv /\ WriterInv /\ [Next]_vars => WriterInv'
<1> SUFFICES ASSUME TypeOK, KindsInv, WriterInv, [Next]_vars PROVE WriterInv'
  OBVIOUS
<1> USE DEF outboxVars, writerVars, wireVars
<1>0. /\ writer \in {"running", "returned"} /\ frame \in Seq(Document) /\ Len(frame) <= 1
      /\ closed \in BOOLEAN /\ connected \in BOOLEAN
  BY DEF TypeOK, OutboxOK, WriterOK, WireOK, KindsInv
\* What others put in the lanes they put there while the outbox is open.
<1> DEFINE Sends == /\ UNCHANGED <<writer, frame>> /\ (closed => closed')
                    /\ connected' => connected
                    /\ closed => UNCHANGED <<control, data>>
<1>a. ASSUME Sends PROVE WriterInv'
  BY <1>a DEF WriterInv
<1>1. ASSUME NEW s \in Out, Pump(s) PROVE Sends
  BY <1>1 DEF Pump, PumpAllowance, PumpReads, PumpSends, PumpFinishes, PumpEnds, SendData
<1>2. ASSUME NEW s \in In, Drain(s) PROVE Sends
  BY <1>2 DEF Drain, DrainTakes, DrainWrites, DrainGrants, Send
<1>3. ASSUME Reader PROVE Sends
  BY <1>3 DEF Reader, Receives, ReadData, ReadEnd, ReadCredit, ReadClosed, ReadOpen, ReadSignalAck,
     ReadExitStatus, ReadFails, ReaderClosesCredits, ReaderClosesOutbox, ReaderReleases
<1>4. ASSUME Client PROVE Sends
  BY <1>4 DEF Client, Signal, Disconnect, DiscardStdout, SinkBreaks, Send
<1>5. ASSUME Daemon PROVE Sends
  BY <1>5 DEF Daemon, DaemonReads, DaemonAcks, DaemonExits, DaemonWrites, DaemonEnds, DaemonGrants,
     DaemonCloses, DaemonOpens, DaemonSends, launcherVars
<1>6. ASSUME UNCHANGED vars \/ Wait \/ Terminated PROVE Sends
  BY <1>6 DEF vars, Wait, Terminated
<1>7. CASE WriterPops
  BY <1>7 DEF WriterPops, WriterInv
<1>8. CASE WriterReturns
  BY <1>8 DEF WriterReturns, WriterInv
<1>9. CASE WriterWrites
  BY <1>9 DEF WriterWrites, WriterInv
<1>10. CASE WriterFails
  BY <1>10 DEF WriterFails, WriterInv
<1> HIDE DEF Sends
<1>. QED
  BY <1>a, <1>1, <1>2, <1>3, <1>4, <1>5, <1>6, <1>7, <1>8, <1>9, <1>10 DEF Next, Writer

\* `exit-status`, once written, is still to be read or has been.
ExitInv == dexit /\ reader = "reading" => Names(down, "exit-status", Stdin)

LEMMA ExitStep == TypeOK /\ WindowInv /\ ExitInv /\ [Next]_vars => ExitInv'
<1> SUFFICES ASSUME TypeOK, WindowInv, ExitInv, [Next]_vars PROVE ExitInv'
  OBVIOUS
<1> USE DEF wireVars, readerVars, daemonVars
<1>0. down \in Seq(Fitting)
  BY DEF WindowInv, Bounds, LanesInv
<1>1. ASSUME UNCHANGED <<dexit, reader, down>> PROVE ExitInv'
  BY <1>1 DEF ExitInv
<1>2. ASSUME NEW s \in Out, Pump(s) PROVE UNCHANGED <<dexit, reader, down>>
  BY <1>2 DEF Pump, PumpAllowance, PumpReads, PumpSends, PumpFinishes, PumpEnds
<1>3. ASSUME NEW s \in In, Drain(s) PROVE UNCHANGED <<dexit, reader, down>>
  BY <1>3 DEF Drain, DrainTakes, DrainWrites, DrainGrants
<1>4. ASSUME Writer PROVE UNCHANGED <<dexit, reader, down>>
  BY <1>4 DEF Writer, WriterPops, WriterReturns, WriterWrites, WriterFails
<1>5. ASSUME Client PROVE UNCHANGED <<dexit, reader, down>>
  BY <1>5 DEF Client, Signal, Disconnect, DiscardStdout, SinkBreaks
<1>6. ASSUME UNCHANGED vars \/ Wait \/ Terminated PROVE UNCHANGED <<dexit, reader, down>>
  BY <1>6 DEF vars, Wait, Terminated
<1>7. CASE Reader
  <2>1. ASSUME NEW type, type # "exit-status", Receives(type), UNCHANGED reader PROVE ExitInv'
    <3>1. down # <<>> /\ down' = Tail(down) /\ Head(down).type # "exit-status" /\ dexit' = dexit
      BY <2>1 DEF Receives
    <3>. QED
      BY <1>0, <2>1, <3>1, NamesTail DEF ExitInv
  <2>2. CASE ReadExitStatus \/ ReadFails
    BY <2>2 DEF ReadExitStatus, ReadFails, ExitInv
  <2>3. CASE ReaderClosesCredits \/ ReaderClosesOutbox \/ ReaderReleases
    BY <1>1, <2>3 DEF ReaderClosesCredits, ReaderClosesOutbox, ReaderReleases
  <2>. QED
    BY <1>7, <2>1, <2>2, <2>3 DEF Reader, ReadData, ReadEnd, ReadCredit, ReadClosed, ReadOpen, ReadSignalAck
<1>8. CASE Daemon
  <2>1. CASE DaemonReads
    BY <1>1, <2>1 DEF DaemonReads, launcherVars
  <2>2. CASE DaemonExits
    <3> DEFINE d == About("exit-status", Stdin)
    <3>1. down' = Append(down, d) /\ d \in Fitting /\ d.type = "exit-status" /\ d.stream = Stdin
      <4>1. d \in Fitting
        BY Weightless, StreamTypes
      <4>. QED
        BY <2>2, <4>1 DEF DaemonExits, DaemonSends, About
    <3> HIDE DEF d
    <3>. QED
      BY <1>0, <3>1, NamesAppend DEF ExitInv
  <2>3. ASSUME ~DaemonReads, ~DaemonExits PROVE dexit' = dexit /\ ~dexit
    BY <1>8, <2>3 DEF Daemon, DaemonAcks, DaemonWrites, DaemonEnds, DaemonGrants, DaemonCloses, DaemonOpens,
       DaemonSends
  <2>. QED
    BY <2>1, <2>2, <2>3 DEF ExitInv
<1>. QED
  BY <1>1, <1>2, <1>3, <1>4, <1>5, <1>6, <1>7, <1>8 DEF Next

\* Who the reader releases is released before its outcome can be seen.
OverInv ==
    /\ outcome # "none" => creditsClosed /\ closed /\ inlets = {}
    /\ creditsClosed => reader # "reading"
    /\ closed => reader # "reading" \/ ~connected

LEMMA OverStep == TypeOK /\ ReaderInv /\ OverInv /\ [Next]_vars => OverInv'
<1> SUFFICES ASSUME TypeOK, ReaderInv, OverInv, [Next]_vars PROVE OverInv'
  OBVIOUS
<1> USE DEF outboxVars, creditVars, inletVars, readerVars, wireVars
<1> DEFINE Keeps == UNCHANGED <<outcome, creditsClosed, closed, inlets, reader, connected>>
<1>0. ASSUME Keeps PROVE OverInv'
  BY <1>0 DEF OverInv
<1>1. ASSUME NEW s \in Out, Pump(s) PROVE Keeps
  BY <1>1 DEF Pump, PumpAllowance, PumpReads, PumpSends, PumpFinishes, PumpEnds, SendData, Spend
<1>2. ASSUME NEW s \in In, Drain(s) PROVE Keeps
  BY <1>2 DEF Drain, DrainTakes, DrainWrites, DrainGrants, Send
<1>3. CASE Reader
  <2>0. reader = "reading" => outcome = "none"
    BY DEF ReaderInv
  <2>1. CASE ReadData \/ ReadCredit \/ ReadClosed \/ ReadSignalAck
    BY <1>0, <2>1 DEF ReadData, ReadCredit, ReadClosed, ReadSignalAck, Receives
  <2>2. CASE ReadEnd \/ ReadOpen \/ ReadExitStatus \/ ReadFails
    <3>1. outcome' = outcome /\ UNCHANGED <<creditsClosed, closed, connected>> /\ reader = "reading"
      BY <2>2 DEF ReadEnd, ReadOpen, ReadExitStatus, ReadFails, Receives
    <3>. QED
      BY <2>0, <3>1 DEF OverInv
  <2>3. CASE ReaderClosesCredits \/ ReaderClosesOutbox \/ ReaderReleases
    BY <2>3 DEF ReaderClosesCredits, ReaderClosesOutbox, ReaderReleases, Over, OverInv
  <2>. QED
    BY <1>3, <2>1, <2>2, <2>3 DEF Reader
<1>4. CASE Writer
  <2>1. CASE WriterFails
    BY <2>1 DEF WriterFails, OverInv
  <2>2. CASE ~WriterFails
    BY <1>0, <1>4, <2>2 DEF Writer, WriterPops, WriterReturns, WriterWrites
  <2>. QED
    BY <2>1, <2>2
<1>5. CASE Client
  <2>1. CASE Disconnect
    BY <2>1 DEF Disconnect, OverInv
  <2>2. CASE ~Disconnect
    BY <1>0, <1>5, <2>2 DEF Client, Signal, DiscardStdout, SinkBreaks, Send
  <2>. QED
    BY <2>1, <2>2
<1>6. ASSUME Daemon PROVE Keeps
  BY <1>6 DEF Daemon, DaemonReads, DaemonAcks, DaemonExits, DaemonWrites, DaemonEnds, DaemonGrants,
     DaemonCloses, DaemonOpens, DaemonSends, launcherVars
<1>7. ASSUME UNCHANGED vars \/ Wait \/ Terminated PROVE Keeps
  BY <1>7 DEF vars, Wait, Terminated
<1> HIDE DEF Keeps
<1>. QED
  BY <1>0, <1>1, <1>2, <1>3, <1>4, <1>5, <1>6, <1>7 DEF Next

-----------------------------------------------------------------------------
(* Who has a step to take.  A pump, a drain and the daemon's application   *)
(* may take theirs as late as what they read or write lets them.           *)

WriterGoes ==
    \/ /\ writer = "running" /\ frame = <<>>
       /\ control # <<>> \/ data # <<>> \/ closed
    \/ frame # <<>> /\ (~connected \/ Len(up) < SOCKET)
ReaderGoes ==
    \/ reader = "reading" /\ (down # <<>> \/ ~connected)
    \/ Over /\ outcome = "none"
PumpGoes(s) ==
    \/ pump[s] \in {"read", "send", "exhausted", "end"}
    \/ pump[s] = "allowance" /\ (~Active(s) \/ credit[s] > 0)
DrainGoes(s) ==
    \/ drain[s] \in {"write", "grant"}
    \/ drain[s] = "wait" /\ (queue[s] # <<>> \/ ended[s])
WaitGoes == outcome # "none" /\ ~waited /\ \A s \in In : drain[s] \in {"none", "done"}
DaemonHears == connected /\ up # <<>>
DaemonMaySend == connected /\ ~dexit /\ Len(down) < SOCKET

WireGoes == WriterGoes \/ ReaderGoes \/ DaemonHears

\* launcher.md, Flow control: a signal not answered, a pump without credit and a producer of the
\* daemon's that is down to half its window wait for a step that is there to be taken, and not for
\* one another; and once the daemon has exited or is gone, so do `wait`, every drain and every pump.
NoDeadlock ==
    /\ connected /\ ~dexit =>
        /\ acks < signals => WireGoes \/ (dsignals > 0 /\ DaemonMaySend)
        /\ \A s \in Out \ dclosed : pump[s] \notin {"none", "done"} =>
              PumpGoes(s) \/ WireGoes \/ (dbuffer[s] > 0 /\ DaemonMaySend)
        /\ \A s \in inlets : 2 * dcredit[s] <= WINDOW => DrainGoes(s) \/ WireGoes
    /\ dexit \/ ~connected => waited \/ ReaderGoes \/ WaitGoes \/ \E s \in In : DrainGoes(s)
    /\ outcome # "none" =>
        /\ \A s \in In : drain[s] \in {"none", "done"} \/ DrainGoes(s)
        /\ \A s \in Out : pump[s] \in {"none", "done"} \/ PumpGoes(s)

\* What is in a lane, in the writer's hand or on the socket has someone to move it.
LEMMA WireMoves ==
    ASSUME TypeOK, ReaderInv, WriterInv, connected,
           \/ control # <<>> \/ data # <<>> \/ frame # <<>> \/ up # <<>> \/ down # <<>>
           \/ ~(Len(down) < SOCKET)
    PROVE  WireGoes
<1>0. /\ up \in Seq(Document) /\ down \in Seq(Document) /\ writer \in {"running", "returned"}
      /\ SOCKET \in Nat \ {0}
  BY SessionAssumption DEF TypeOK, WireOK, WriterOK
<1>1. CASE down # <<>>
  BY <1>1 DEF ReaderInv, WireGoes, ReaderGoes
<1>2. CASE ~(Len(down) < SOCKET)
  <2>1. down # <<>>
    BY <1>0, <1>2
  <2>. QED
    BY <1>1, <2>1
<1>3. CASE up # <<>>
  BY <1>3 DEF WireGoes, DaemonHears
<1>4. CASE frame # <<>>
  <2>1. up = <<>> => Len(up) < SOCKET
    BY <1>0
  <2>. QED
    BY <1>3, <1>4, <2>1 DEF WireGoes, WriterGoes
<1>5. CASE frame = <<>> /\ (control # <<>> \/ data # <<>>)
  BY <1>0, <1>5 DEF WriterInv, WireGoes, WriterGoes
<1>. QED
  BY <1>1, <1>2, <1>3, <1>4, <1>5

Ends == SignalsAccounted /\ WithheldInv /\ WriterInv /\ ExitInv /\ OverInv

\* A signal waits for the writer, the daemon's reader, the daemon or the reader.
LEMMA SignalMoves ==
    ASSUME TypeOK, ReaderInv, Ends, connected, ~dexit, acks < signals
    PROVE  WireGoes \/ (dsignals > 0 /\ DaemonMaySend)
<1>0. ForwardedNatural /\ Forwarded = signals
  BY ForwardedNumbers DEF Ends, SignalsAccounted
<1>1. \/ Number(control, "signal") > 0 \/ Number(frame, "signal") > 0 \/ Number(up, "signal") > 0
      \/ Number(down, "signal-ack") > 0 \/ dsignals > 0
  BY <1>0 DEF ForwardedNatural, Forwarded
<1>2. CASE dsignals > 0
  BY <1>2, WireMoves DEF Ends, DaemonMaySend
<1>3. CASE control # <<>> \/ frame # <<>> \/ up # <<>> \/ down # <<>>
  BY <1>3, WireMoves DEF Ends
<1>. QED
  BY <1>1, <1>2, <1>3, NumberNat DEF TypeOK, OutboxOK, WriterOK, WireOK

\* A pump without credit waits for what is in flight, buffered or granted of its stream.
LEMMA PumpMoves ==
    ASSUME WindowInv, ReaderInv, Conserved, Ends, connected, ~dexit,
           NEW s \in Out \ dclosed, pump[s] \notin {"none", "done"}
    PROVE  PumpGoes(s) \/ WireGoes \/ (dbuffer[s] > 0 /\ DaemonMaySend)
<1>0. TypeOK /\ pump[s] \in {"none", "allowance", "read", "send", "exhausted", "end", "done"}
      /\ credit[s] \in Nat /\ dbuffer[s] \in Nat /\ WINDOW \in Nat \ {0}
  BY SessionAssumption DEF WindowInv, TypeOK, PumpsOK, CreditsOK, DaemonOK
<1>1. SUFFICES ASSUME Active(s), ~(credit[s] > 0)
               PROVE  WireGoes \/ (dbuffer[s] > 0 /\ DaemonMaySend)
  BY <1>0 DEF PumpGoes
<1>2. CASE closed
  BY <1>0, <1>1, <1>2 DEF Ends, OverInv, Active, WireGoes, ReaderGoes, Over, TypeOK, ReaderOK
<1>3. CASE ~closed
  <2>1. Whole(s) = WINDOW
    BY <1>1, <1>3 DEF Conserved, OutWhole, Active
  <2>2. /\ Bytes(data, "data", s) \in Nat /\ Bytes(frame, "data", s) \in Nat /\ Bytes(up, "data", s) \in Nat
        /\ Bytes(down, "credit", s) \in Nat
    BY PositionsFinite, <1>0 DEF TypeOK, OutboxOK, WriterOK, WireOK
  <2>3. \/ Bytes(data, "data", s) # 0 \/ Bytes(frame, "data", s) # 0 \/ Bytes(up, "data", s) # 0
        \/ Bytes(down, "credit", s) # 0 \/ dbuffer[s] > 0
    BY <1>0, <1>1, <2>1, <2>2 DEF Whole, OutData, OutGrants
  <2>4. CASE data # <<>> \/ frame # <<>> \/ up # <<>> \/ down # <<>>
    BY <1>0, <2>4, WireMoves DEF Ends
  <2>5. CASE dbuffer[s] > 0
    BY <1>0, <2>5, WireMoves DEF Ends, DaemonMaySend
  <2>. QED
    BY <2>3, <2>4, <2>5, BytesOfEmpty
<1>. QED
  BY <1>2, <1>3

\* A producer down to half its window waits for what is in flight, queued or granted of its stream.
LEMMA ProducerMoves ==
    ASSUME WindowInv, ReaderInv, InletInv, HandsInv, Conserved, Ends, connected, ~dexit,
           NEW s \in inlets, 2 * dcredit[s] <= WINDOW
    PROVE  DrainGoes(s) \/ WireGoes
<1>0. /\ TypeOK /\ s \in In /\ drain[s] \in {"none", "wait", "write", "grant", "done"}
      /\ dcredit[s] \in Nat /\ consumed[s] \in Nat /\ WINDOW \in Nat \ {0}
  BY SessionAssumption DEF WindowInv, TypeOK, InletsOK, DrainsOK, DaemonOK
<1>1. drain[s] \notin {"none", "done"} /\ ~ended[s]
  BY <1>0 DEF InletInv, Inlet
<1>2. CASE closed
  BY <1>0, <1>2 DEF Ends, OverInv, WireGoes, ReaderGoes, Over, TypeOK, ReaderOK
<1>3. CASE ~closed
  <2>1. InTotal(s) = WINDOW /\ (consumed[s] = 0 \/ 2 * consumed[s] < WINDOW)
    BY <1>0, <1>1, <1>3 DEF Conserved, InWhole, Ends, WithheldInv
  <2>2. InNaturalAt(s)
    BY <1>0, Numbers DEF InNatural
  <2>3. \/ Bytes(down, "data", s) # 0 \/ Bytes(queue[s], "data", s) # 0 \/ Bytes(taken[s], "data", s) # 0
        \/ Bytes(control, "credit", s) # 0 \/ Bytes(frame, "credit", s) # 0 \/ Bytes(up, "credit", s) # 0
    BY <1>0, <2>1, <2>2 DEF InNaturalAt, InTotal, InData, InGrants
  <2>4. CASE control # <<>> \/ frame # <<>> \/ up # <<>> \/ down # <<>>
    BY <1>0, <2>4, WireMoves DEF Ends
  <2>5. CASE queue[s] # <<>> \/ taken[s] # <<>>
    BY <1>0, <1>1, <2>5 DEF HandsInv, DrainGoes
  <2>. QED
    BY <2>3, <2>4, <2>5, BytesOfEmpty
<1>. QED
  BY <1>2, <1>3

\* `wait` waits for the reader and then for the drains, which nothing holds up any more.
LEMMA EndMoves ==
    ASSUME TypeOK, InletInv, Ends
    PROVE  /\ dexit \/ ~connected => waited \/ ReaderGoes \/ WaitGoes \/ \E s \in In : DrainGoes(s)
           /\ outcome # "none" =>
                /\ \A s \in In : drain[s] \in {"none", "done"} \/ DrainGoes(s)
                /\ \A s \in Out : pump[s] \in {"none", "done"} \/ PumpGoes(s)
<1>0. /\ drain \in [In -> {"none", "wait", "write", "grant", "done"}]
      /\ pump \in [Out -> {"none", "allowance", "read", "send", "exhausted", "end", "done"}]
      /\ reader \in {"reading", "exited", "dropped", "refused"}
  BY DEF TypeOK, DrainsOK, PumpsOK, ReaderOK
<1>1. ASSUME outcome # "none", NEW s \in In PROVE drain[s] \in {"none", "done"} \/ DrainGoes(s)
  BY <1>0, <1>1 DEF Ends, OverInv, InletInv, Inlet, DrainGoes
<1>2. ASSUME outcome # "none", NEW s \in Out PROVE pump[s] \in {"none", "done"} \/ PumpGoes(s)
  BY <1>0, <1>2 DEF Ends, OverInv, PumpGoes, Active
<1>3. ASSUME dexit \/ ~connected, outcome = "none" PROVE ReaderGoes
  <2>1. CASE reader = "reading" /\ connected
    <3>1. Names(down, "exit-status", Stdin)
      BY <1>3, <2>1 DEF Ends, ExitInv
    <3>2. down # <<>>
      BY <3>1, NamesNone
    <3>. QED
      BY <2>1, <3>2 DEF ReaderGoes
  <2>. QED
    BY <1>0, <1>3, <2>1 DEF ReaderGoes, Over
<1>4. ASSUME outcome # "none", ~waited PROVE WaitGoes \/ \E s \in In : DrainGoes(s)
  BY <1>1, <1>4 DEF WaitGoes
<1>. QED
  BY <1>1, <1>2, <1>3, <1>4

LEMMA EndsStep == TypeOK /\ Settled /\ KindsInv /\ Ends /\ [Next]_vars => Ends'
BY AccountedStep, WithheldStep, WriterStep, ExitStep, OverStep DEF Ends, Settled

LEMMA EndsInit == Init => Ends
<1> SUFFICES ASSUME Init PROVE Ends
  OBVIOUS
<1>1. /\ control = <<>> /\ frame = <<>> /\ up = <<>> /\ down = <<>> /\ signals = 0 /\ dsignals = 0 /\ acks = 0
      /\ consumed = [s \in In |-> 0] /\ writer = "running" /\ ~dexit /\ outcome = "none"
      /\ ~creditsClosed /\ ~closed
  BY DEF Init
<1>2. SignalsAccounted
  BY <1>1, NumberNone DEF SignalsAccounted, Forwarded
<1>. QED
  BY <1>1, <1>2 DEF Ends, WithheldInv, WriterInv, ExitInv, OverInv

LEMMA EndsHold == Spec => [](Ends /\ HandsInv /\ Conserved)
<1>1. OutInvariant => KindsInv
  BY DEF OutInvariant, Sound
<1>2. Settled => TypeOK /\ InletInv
  BY DEF Settled, WindowInv
<1>. QED
  BY <1>1, <1>2, EndsInit, EndsStep, ConservedInit, ConservedStep, HandsStep, SettledHolds, OutInvariantHolds,
     PTL DEF Spec

\* No thread of a session waits for one that waits for it: see NoDeadlock.
THEOREM NeverDeadlocked == Spec => []NoDeadlock
<1>1. Settled /\ Ends /\ HandsInv /\ Conserved => NoDeadlock
  BY SignalMoves, PumpMoves, ProducerMoves, EndMoves DEF Settled, WindowInv, NoDeadlock
<1>. QED
  BY <1>1, EndsHold, SettledHolds, PTL
=============================================================================
