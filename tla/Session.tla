------------------------------ MODULE Session ------------------------------
(***************************************************************************)
(* One invocation of the launcher as src/client/src/session.rs runs it:    *)
(* every stream of the invocation multiplexed on one socket, under         *)
(* per-stream credit.  Each thread of the launcher is a set of actions -   *)
(* the writer, the reader, one pump per stream the launcher sends, one     *)
(* drain per stream it receives, and the main thread in `wait` - and an    *)
(* action is what a thread does between two lock operations.  The peer,    *)
(* the daemon (the Daemon... actions), is not in this repository: it is    *)
(* modelled from what the launcher and spec/launcher.md require of it.     *)
(*                                                                         *)
(* A byte is known by its position in its stream, so a chunk is the        *)
(* position it starts at and its length.  `run`, `mode` and the terminal's *)
(* pump are in module Terminal.                                            *)
(***************************************************************************)
EXTENDS Integers, Sequences, FiniteSets

CONSTANTS
    Stdin,          \* the name of the launcher's own outbound stream
    Outputs,        \* the invocation's output streams: stdout, stderr
    Readable,       \* advertised descriptors whose direction has an 'r'
    Writable,       \* advertised descriptors whose direction has a 'w'
    WINDOW,         \* credit a stream opens with
    MAXIMUM_CHUNK,  \* longest chunk of a data document
    SOCKET,         \* documents a socket buffer holds before a write blocks
    Input,          \* bound: bytes an outbound stream's source may hold
    Output,         \* bound: bytes the daemon writes on an inbound stream
    Opens,          \* bound: `open` documents the daemon sends
    Signals,        \* bound: signals the launcher forwards
    StdinKinds,     \* which of "reader" and "ended" stdin may be in a run
    Faults          \* which of "end", "disconnect", "break", "discard", "close" may happen

Descriptors == Readable \cup Writable
Out == {Stdin} \cup Readable
In == Outputs \cup Writable
Streams == Out \cup In

ASSUME SessionAssumption ==
    /\ WINDOW \in Nat \ {0} /\ MAXIMUM_CHUNK \in 1..WINDOW /\ SOCKET \in Nat \ {0}
    /\ Input \in Nat /\ Output \in Nat /\ Opens \in Nat /\ Signals \in Nat
    /\ Stdin \notin Readable /\ Outputs \cap Writable = {}
    /\ IsFiniteSet(Streams)

VARIABLES
    control, data, closed,              \* Outbox
    frame, writer,                      \* what the writer thread holds, and where it is
    streams, credit, creditsClosed,     \* Credits
    pump, allowed, hand, input, carried,\* the pumps and the sources they read
    inlets, queue, ended, discard,      \* the map of inlets, and each inlet
    drain, taken, dropping, consumed,   \* the drains
    broken, output,                     \* the sinks: no longer writable, bytes written
    opened, reader, received, outcome, waited,
    up, down, connected,                \* the socket, a buffer per direction
    dcredit, dwritten, dended,          \* the daemon's producers
    dbuffer, dgot, dend, dclosed, told, \* the daemon's consumers
    dopens, dexit,                      \* descriptors it asked for; exit-status written
    signals, dsignals, acks             \* forwarded, to be answered, answered

outboxVars == <<control, data, closed>>
writerVars == <<frame, writer>>
creditVars == <<streams, credit, creditsClosed>>
pumpVars   == <<pump, allowed, hand, input, carried>>
inletVars  == <<inlets, queue, ended, discard>>
drainVars  == <<drain, taken, dropping, consumed>>
sinkVars   == <<broken, output>>
readerVars == <<opened, reader, received, outcome, waited>>
wireVars   == <<up, down, connected>>
daemonOut  == <<dcredit, dwritten, dended>>
daemonIn   == <<dbuffer, dgot, dend, dclosed, told>>
daemonVars == <<daemonOut, daemonIn, dopens, dexit>>
signalVars == <<signals, dsignals, acks>>
vars == <<outboxVars, writerVars, creditVars, pumpVars, inletVars, drainVars,
          sinkVars, readerVars, wireVars, daemonVars, signalVars>>

-----------------------------------------------------------------------------
(* Documents.  A document that has no stream names Stdin, and one that has *)
(* no bytes has zero of them from position zero.                           *)

Types == {"data", "end", "credit", "closed", "open", "signal", "signal-ack", "exit-status"}
Document == [type : Types, stream : Streams, from : Nat, bytes : Nat]

Data(s, from, n) == [type |-> "data", stream |-> s, from |-> from, bytes |-> n]
Credit(s, n) == [type |-> "credit", stream |-> s, from |-> 0, bytes |-> n]
About(type, s) == [type |-> type, stream |-> s, from |-> 0, bytes |-> 0]

(* The bytes that documents of one type and stream carry in a queue: its   *)
(* data in flight, or its grants in flight.                                *)
Bytes(q, type, s) ==
    Cardinality({p \in (DOMAIN q) \X (1..WINDOW) :
                    /\ q[p[1]].type = type /\ q[p[1]].stream = s
                    /\ p[2] <= q[p[1]].bytes})

Least(a, b) == IF a < b THEN a ELSE b
HALF == WINDOW \div 2

-----------------------------------------------------------------------------
Init ==
    /\ control = <<>> /\ closed = FALSE /\ frame = <<>> /\ writer = "running"
    /\ streams = {Stdin} /\ credit = [s \in Out |-> WINDOW] /\ creditsClosed = FALSE
    /\ allowed = [s \in Out |-> 0] /\ hand = [s \in Out |-> 0]
    /\ input \in [Out -> 0..Input] /\ carried = [s \in Out |-> 0]
    \* Stdin::Reader has a pump; Stdin::Ended has its `end` queued and none.
    /\ \/ /\ "reader" \in StdinKinds
          /\ pump = [s \in Out |-> IF s = Stdin THEN "allowance" ELSE "none"]
          /\ data = <<>>
       \/ /\ "ended" \in StdinKinds /\ input[Stdin] = 0
          /\ pump = [s \in Out |-> IF s = Stdin THEN "done" ELSE "none"]
          /\ data = <<About("end", Stdin)>>
    /\ inlets = Outputs /\ queue = [s \in In |-> <<>>]
    /\ ended = [s \in In |-> FALSE] /\ discard = [s \in In |-> FALSE]
    /\ drain = [s \in In |-> IF s \in Outputs THEN "wait" ELSE "none"]
    /\ taken = [s \in In |-> <<>>] /\ dropping = [s \in In |-> FALSE]
    /\ consumed = [s \in In |-> 0]
    /\ broken = {} /\ output = [s \in In |-> 0]
    /\ opened = {} /\ reader = "reading" /\ received = FALSE
    /\ outcome = "none" /\ waited = FALSE
    /\ up = <<>> /\ down = <<>> /\ connected = TRUE
    /\ dcredit = [s \in In |-> WINDOW] /\ dwritten = [s \in In |-> 0] /\ dended = {}
    /\ dbuffer = [s \in Out |-> 0] /\ dgot = [s \in Out |-> 0] /\ dend = {}
    /\ dclosed = {} /\ told = [s \in In |-> 0] /\ dopens = [fd \in Descriptors |-> 0] /\ dexit = FALSE
    /\ signals = 0 /\ dsignals = 0 /\ acks = 0

-----------------------------------------------------------------------------
(* The outbox: two lanes, neither of which takes a document once closed.   *)

Send(d) ==
    /\ control' = IF closed THEN control ELSE Append(control, d)
    /\ UNCHANGED <<data, closed>>

SendData(d) ==
    /\ data' = IF closed THEN data ELSE Append(data, d)
    /\ UNCHANGED <<control, closed>>

(* Mutants: each is the definition after it with one plausible mistake,   *)
(* and no part of the specification.                                       *)

\* Mutant: a drain writes its sink under the outbox's lock.
WriterPopsUnlessWriting ==
    /\ writer = "running" /\ frame = <<>>
    /\ \A s \in In : drain[s] # "write"
    /\ control # <<>>
    /\ frame' = <<Head(control)>> /\ control' = Tail(control)
    /\ UNCHANGED <<data, closed, writer, creditVars, pumpVars, inletVars, drainVars,
                   sinkVars, readerVars, wireVars, daemonVars, signalVars>>

WriterPops ==
    /\ writer = "running" /\ frame = <<>>
    /\ \/ /\ control # <<>>
          /\ frame' = <<Head(control)>> /\ control' = Tail(control)
          /\ UNCHANGED data
       \/ /\ control = <<>> /\ data # <<>>
          /\ frame' = <<Head(data)>> /\ data' = Tail(data)
          /\ UNCHANGED control
    /\ UNCHANGED <<closed, writer, creditVars, pumpVars, inletVars, drainVars,
                   sinkVars, readerVars, wireVars, daemonVars, signalVars>>

WriterReturns ==
    /\ writer = "running" /\ frame = <<>>
    /\ control = <<>> /\ data = <<>> /\ closed
    /\ writer' = "returned"
    /\ UNCHANGED <<outboxVars, frame, creditVars, pumpVars, inletVars, drainVars,
                   sinkVars, readerVars, wireVars, daemonVars, signalVars>>

\* write_all blocks while the socket's buffer is full, whatever lane the frame is from.
WriterWrites ==
    /\ frame # <<>> /\ connected /\ Len(up) < SOCKET
    /\ up' = Append(up, Head(frame)) /\ frame' = <<>>
    /\ UNCHANGED <<outboxVars, writer, creditVars, pumpVars, inletVars, drainVars,
                   sinkVars, readerVars, down, connected, daemonVars, signalVars>>

WriterFails ==
    /\ frame # <<>> /\ ~connected
    /\ frame' = <<>> /\ writer' = "returned" /\ closed' = TRUE
    /\ UNCHANGED <<control, data, creditVars, pumpVars, inletVars, drainVars,
                   sinkVars, readerVars, wireVars, daemonVars, signalVars>>

-----------------------------------------------------------------------------
(* A pump: allowance, then read, then spend and send, and `end` last.      *)

Active(s) == ~creditsClosed /\ s \in streams

PumpAllowance(s) ==
    /\ pump[s] = "allowance"
    /\ \/ /\ ~Active(s)
          /\ pump' = [pump EXCEPT ![s] = "exhausted"]
          /\ UNCHANGED allowed
       \/ /\ Active(s) /\ credit[s] > 0
          /\ allowed' = [allowed EXCEPT ![s] = Least(credit[s], MAXIMUM_CHUNK)]
          /\ pump' = [pump EXCEPT ![s] = "read"]
    /\ UNCHANGED <<outboxVars, writerVars, creditVars, hand, input, carried, inletVars,
                   drainVars, sinkVars, readerVars, wireVars, daemonVars, signalVars>>

\* A read delivers some of what it is allowed; end-of-file and an error both end the loop.
PumpReads(s) ==
    /\ pump[s] = "read"
    /\ \/ \E n \in 1..Least(allowed[s], input[s]) :
            /\ hand' = [hand EXCEPT ![s] = n]
            /\ input' = [input EXCEPT ![s] = @ - n]
            /\ pump' = [pump EXCEPT ![s] = "send"]
       \/ /\ input[s] = 0
          /\ pump' = [pump EXCEPT ![s] = "exhausted"]
          /\ UNCHANGED <<hand, input>>
    /\ UNCHANGED <<outboxVars, writerVars, creditVars, allowed, carried, inletVars,
                   drainVars, sinkVars, readerVars, wireVars, daemonVars, signalVars>>

\* Mutant: the whole chunk allowed is charged, and the subtraction does not saturate.
SpendAllowance(s, n) ==
    /\ credit' = IF s \in streams THEN [credit EXCEPT ![s] = @ - MAXIMUM_CHUNK] ELSE credit
    /\ UNCHANGED <<streams, creditsClosed>>

\* Mutant: nothing is charged.
SpendNothing(s, n) == UNCHANGED creditVars

Spend(s, n) ==
    /\ credit' = IF s \in streams THEN [credit EXCEPT ![s] = IF @ < n THEN 0 ELSE @ - n]
                                  ELSE credit
    /\ UNCHANGED <<streams, creditsClosed>>

\* Only this pump reads its stream's credit, so nothing can tell `spend` from `send_data`
\* after it, and the two are one step.
PumpSends(s) ==
    /\ pump[s] = "send"
    /\ Spend(s, hand[s])
    /\ SendData(Data(s, carried[s], hand[s]))
    /\ carried' = [carried EXCEPT ![s] = @ + hand[s]]
    /\ hand' = [hand EXCEPT ![s] = 0]
    /\ pump' = [pump EXCEPT ![s] = "allowance"]
    /\ UNCHANGED <<writerVars, allowed, input, inletVars, drainVars, sinkVars, readerVars,
                   wireVars, daemonVars, signalVars>>

PumpFinishes(s) ==
    /\ pump[s] = "exhausted"
    /\ pump' = [pump EXCEPT ![s] = IF Active(s) THEN "end" ELSE "done"]
    /\ UNCHANGED <<outboxVars, writerVars, creditVars, allowed, hand, input, carried,
                   inletVars, drainVars, sinkVars, readerVars, wireVars, daemonVars, signalVars>>

\* Mutant: `end` in the control lane.
PumpEndsFirst(s) ==
    /\ pump[s] = "end"
    /\ Send(About("end", s))
    /\ pump' = [pump EXCEPT ![s] = "done"]
    /\ UNCHANGED <<writerVars, creditVars, allowed, hand, input, carried, inletVars,
                   drainVars, sinkVars, readerVars, wireVars, daemonVars, signalVars>>

PumpEnds(s) ==
    /\ pump[s] = "end"
    /\ SendData(About("end", s))
    /\ pump' = [pump EXCEPT ![s] = "done"]
    /\ UNCHANGED <<writerVars, creditVars, allowed, hand, input, carried, inletVars,
                   drainVars, sinkVars, readerVars, wireVars, daemonVars, signalVars>>

-----------------------------------------------------------------------------
(* A drain: take a chunk, write it, account for it.                        *)

\* Mutant: the end is looked at before the queue.
DrainTakesEndFirst(s) ==
    /\ drain[s] = "wait" /\ ended[s]
    /\ drain' = [drain EXCEPT ![s] = "done"]
    /\ UNCHANGED <<outboxVars, writerVars, creditVars, pumpVars, inletVars, taken, dropping,
                   consumed, sinkVars, readerVars, wireVars, daemonVars, signalVars>>

\* Mutant: the drains share one lock, held while one of them writes.
DrainTakesAlone(s) ==
    /\ drain[s] = "wait" /\ queue[s] # <<>>
    /\ \A t \in In : drain[t] # "write"
    /\ taken' = [taken EXCEPT ![s] = <<Head(queue[s])>>]
    /\ queue' = [queue EXCEPT ![s] = Tail(@)]
    /\ dropping' = [dropping EXCEPT ![s] = discard[s]]
    /\ drain' = [drain EXCEPT ![s] = "write"]
    /\ UNCHANGED <<outboxVars, writerVars, creditVars, pumpVars, inlets, ended, discard,
                   consumed, sinkVars, readerVars, wireVars, daemonVars, signalVars>>

DrainTakes(s) ==
    /\ drain[s] = "wait"
    /\ \/ /\ queue[s] # <<>>
          /\ taken' = [taken EXCEPT ![s] = <<Head(queue[s])>>]
          /\ queue' = [queue EXCEPT ![s] = Tail(@)]
          /\ dropping' = [dropping EXCEPT ![s] = discard[s]]
          /\ drain' = [drain EXCEPT ![s] = "write"]
       \/ /\ queue[s] = <<>> /\ ended[s]
          /\ drain' = [drain EXCEPT ![s] = "done"]
          /\ UNCHANGED <<taken, queue, dropping>>
    /\ UNCHANGED <<outboxVars, writerVars, creditVars, pumpVars, inlets, ended, discard,
                   consumed, sinkVars, readerVars, wireVars, daemonVars, signalVars>>

\* Mutant: a failed write does not turn the stream to discarding.
DrainWritesOn(s) ==
    /\ drain[s] = "write" /\ ~dropping[s] /\ s \in broken
    /\ drain' = [drain EXCEPT ![s] = "grant"]
    /\ Send(About("closed", s))
    /\ UNCHANGED <<writerVars, creditVars, pumpVars, inletVars, taken, dropping,
                   consumed, sinkVars, readerVars, wireVars, daemonVars, signalVars>>

DrainWrites(s) ==
    /\ drain[s] = "write"
    /\ drain' = [drain EXCEPT ![s] = "grant"]
    /\ \/ /\ dropping[s]
          /\ UNCHANGED <<outboxVars, discard, output>>
       \/ /\ ~dropping[s] /\ s \notin broken
          /\ output' = [output EXCEPT ![s] = @ + taken[s][1].bytes]
          /\ UNCHANGED <<outboxVars, discard>>
       \/ /\ ~dropping[s] /\ s \in broken
          /\ discard' = [discard EXCEPT ![s] = TRUE]
          /\ Send(About("closed", s))
          /\ UNCHANGED output
    /\ UNCHANGED <<writerVars, creditVars, pumpVars, inlets, queue, ended, taken, dropping,
                   consumed, broken, readerVars, wireVars, daemonVars, signalVars>>

\* Mutant: what is short of half a window is forgotten.
DrainGrantsForgetting(s) ==
    /\ drain[s] = "grant"
    /\ IF taken[s][1].bytes >= HALF
       THEN Send(Credit(s, taken[s][1].bytes)) ELSE UNCHANGED outboxVars
    /\ taken' = [taken EXCEPT ![s] = <<>>]
    /\ drain' = [drain EXCEPT ![s] = "wait"]
    /\ UNCHANGED <<writerVars, creditVars, pumpVars, inletVars, dropping, consumed, sinkVars,
                   readerVars, wireVars, daemonVars, signalVars>>

DrainGrants(s) ==
    /\ drain[s] = "grant"
    /\ LET total == consumed[s] + taken[s][1].bytes IN
         IF total >= HALF
         THEN /\ Send(Credit(s, total))
              /\ consumed' = [consumed EXCEPT ![s] = 0]
         ELSE /\ consumed' = [consumed EXCEPT ![s] = total]
              /\ UNCHANGED outboxVars
    /\ taken' = [taken EXCEPT ![s] = <<>>]
    /\ drain' = [drain EXCEPT ![s] = "wait"]
    /\ UNCHANGED <<writerVars, creditVars, pumpVars, inletVars, dropping, sinkVars,
                   readerVars, wireVars, daemonVars, signalVars>>

-----------------------------------------------------------------------------
(* The reader: each document deposited where it belongs, never waiting on  *)
(* anything but the socket.                                                *)

Receives(type) ==
    /\ reader = "reading" /\ down # <<>> /\ Head(down).type = type
    /\ down' = Tail(down) /\ received' = TRUE
    /\ UNCHANGED <<up, connected, waited, writerVars, sinkVars, daemonVars>>

ReadData ==
    /\ Receives("data")
    /\ LET s == Head(down).stream IN
         queue' = IF s \in inlets /\ ~ended[s]
                  THEN [queue EXCEPT ![s] = Append(@, Head(down))] ELSE queue
    /\ UNCHANGED <<outboxVars, creditVars, pumpVars, inlets, ended, discard, drainVars,
                   opened, reader, outcome, signalVars>>

ReadEnd ==
    /\ Receives("end")
    /\ LET s == Head(down).stream IN
         IF s \in inlets
         THEN inlets' = inlets \ {s} /\ ended' = [ended EXCEPT ![s] = TRUE]
         ELSE UNCHANGED <<inlets, ended>>
    /\ UNCHANGED <<outboxVars, creditVars, pumpVars, queue, discard, drainVars,
                   opened, reader, outcome, signalVars>>

\* Mutant: a stream whose credit has run out is taken for one that has ended.
GrantIfCredited(s, n) ==
    credit' = IF s \in streams /\ credit[s] > 0 THEN [credit EXCEPT ![s] = @ + n] ELSE credit

Grant(s, n) ==
    credit' = IF s \in streams THEN [credit EXCEPT ![s] = @ + n] ELSE credit

ReadCredit ==
    /\ Receives("credit")
    /\ Grant(Head(down).stream, Head(down).bytes)
    /\ UNCHANGED <<outboxVars, streams, creditsClosed, pumpVars, inletVars, drainVars,
                   opened, reader, outcome, signalVars>>

ReadClosed ==
    /\ Receives("closed")
    /\ streams' = streams \ {Head(down).stream}
    /\ UNCHANGED <<outboxVars, credit, creditsClosed, pumpVars, inletVars, drainVars,
                   opened, reader, outcome, signalVars>>

\* Mutant: a descriptor already open is opened again.
OpenableAgain(fd) == fd \in Descriptors

Openable(fd) == fd \in Descriptors \ opened

OpensFor(fd) ==
    /\ opened' = opened \cup {fd}
    /\ IF fd \in Readable
       THEN /\ streams' = streams \cup {fd}
            /\ credit' = [credit EXCEPT ![fd] = WINDOW]
            /\ pump' = [pump EXCEPT ![fd] = "allowance"]
       ELSE UNCHANGED <<streams, credit, pump>>
    /\ IF fd \in Writable
       THEN /\ inlets' = inlets \cup {fd}
            /\ queue' = [queue EXCEPT ![fd] = <<>>]
            /\ ended' = [ended EXCEPT ![fd] = FALSE]
            /\ discard' = [discard EXCEPT ![fd] = FALSE]
            /\ drain' = [drain EXCEPT ![fd] = "wait"]
       ELSE UNCHANGED <<inletVars, drain>>

\* open_descriptor: only an advertised descriptor, and only once.
ReadOpen ==
    /\ Receives("open")
    /\ LET fd == Head(down).stream IN
         IF Openable(fd)
         THEN OpensFor(fd)
         ELSE UNCHANGED <<opened, streams, credit, pump, inletVars, drain>>
    /\ UNCHANGED <<outboxVars, creditsClosed, allowed, hand, input, carried, taken, dropping,
                   consumed, reader, outcome, signalVars>>

ReadSignalAck ==
    /\ Receives("signal-ack")
    /\ acks' = acks + 1
    /\ UNCHANGED <<outboxVars, creditVars, pumpVars, inletVars, drainVars,
                   opened, reader, outcome, signals, dsignals>>

\* The outcome is fixed when the loop is left, and published by ReaderReleases.
ReadExitStatus ==
    /\ Receives("exit-status")
    /\ reader' = "exited"
    /\ UNCHANGED <<outboxVars, creditVars, pumpVars, inletVars, drainVars,
                   opened, outcome, signalVars>>

\* What the socket still buffers is read before its end is seen.
ReadFails ==
    /\ reader = "reading" /\ down = <<>> /\ ~connected
    /\ reader' = IF received THEN "dropped" ELSE "refused"
    /\ UNCHANGED <<outboxVars, writerVars, creditVars, pumpVars, inletVars, drainVars,
                   sinkVars, opened, received, outcome, waited, wireVars, daemonVars, signalVars>>

Over == reader \in {"exited", "dropped", "refused"}

ReaderClosesCredits ==
    /\ Over /\ ~creditsClosed
    /\ creditsClosed' = TRUE
    /\ UNCHANGED <<outboxVars, writerVars, streams, credit, pumpVars, inletVars, drainVars,
                   sinkVars, readerVars, wireVars, daemonVars, signalVars>>

ReaderClosesOutbox ==
    /\ Over /\ creditsClosed /\ ~closed
    /\ closed' = TRUE
    /\ UNCHANGED <<control, data, writerVars, creditVars, pumpVars, inletVars, drainVars,
                   sinkVars, readerVars, wireVars, daemonVars, signalVars>>

\* Mutant: only the outcome is published.
ReaderReleasesNone ==
    /\ Over /\ creditsClosed /\ closed /\ outcome = "none"
    /\ outcome' = reader
    /\ UNCHANGED <<outboxVars, writerVars, creditVars, pumpVars, inletVars, drainVars,
                   sinkVars, opened, reader, received, waited, wireVars, daemonVars, signalVars>>

\* Every inlet still in the map is ended, under the map's lock; then `wait` is woken.
ReaderReleases ==
    /\ Over /\ creditsClosed /\ closed /\ outcome = "none"
    /\ ended' = [s \in In |-> ended[s] \/ s \in inlets]
    /\ inlets' = {}
    /\ outcome' = reader
    /\ UNCHANGED <<outboxVars, writerVars, creditVars, pumpVars, queue, discard, drainVars,
                   sinkVars, opened, reader, received, waited, wireVars, daemonVars, signalVars>>

\* Mutant: the drains are not joined.
WaitForOutcome ==
    /\ outcome # "none" /\ ~waited
    /\ waited' = TRUE
    /\ UNCHANGED <<outboxVars, writerVars, creditVars, pumpVars, inletVars, drainVars, sinkVars,
                   opened, reader, received, outcome, wireVars, daemonVars, signalVars>>

\* wait: the outcome, then every drain there is joined.
Wait ==
    /\ outcome # "none" /\ ~waited
    /\ \A s \in In : drain[s] \in {"none", "done"}
    /\ waited' = TRUE
    /\ UNCHANGED <<outboxVars, writerVars, creditVars, pumpVars, inletVars, drainVars, sinkVars,
                   opened, reader, received, outcome, wireVars, daemonVars, signalVars>>

-----------------------------------------------------------------------------
(* What other threads of the launcher do to the session, and its client.   *)

\* A signal handler's courier: Signaler.signal, its wait and answer in module Signals.
Signal ==
    /\ signals < Signals /\ ~closed
    /\ signals' = signals + 1
    /\ Send(About("signal", Stdin))
    /\ UNCHANGED <<writerVars, creditVars, pumpVars, inletVars, drainVars, sinkVars,
                   readerVars, wireVars, daemonVars, dsignals, acks>>

\* discard_stdout, after an accepted termination.
DiscardStdout(s) ==
    /\ "discard" \in Faults /\ s \in Outputs \cap inlets /\ ~discard[s]
    /\ discard' = [discard EXCEPT ![s] = TRUE]
    /\ UNCHANGED <<outboxVars, writerVars, creditVars, pumpVars, inlets, queue, ended, drainVars,
                   sinkVars, readerVars, wireVars, daemonVars, signalVars>>

\* The daemon dies, or Session.close: writes fail at once, reads after what is buffered.
Disconnect ==
    /\ "disconnect" \in Faults /\ connected
    /\ connected' = FALSE /\ up' = <<>>
    /\ UNCHANGED <<outboxVars, writerVars, creditVars, pumpVars, inletVars, drainVars,
                   sinkVars, readerVars, down, daemonVars, signalVars>>

\* Whatever read the client's stdout has gone.
SinkBreaks(s) ==
    /\ "break" \in Faults /\ s \in In \ broken
    /\ broken' = broken \cup {s}
    /\ UNCHANGED <<outboxVars, writerVars, creditVars, pumpVars, inletVars, drainVars, output,
                   readerVars, wireVars, daemonVars, signalVars>>

-----------------------------------------------------------------------------
(* The daemon: a reader that never blocks, producers that wait for credit, *)
(* and exit-status the last document it writes.                            *)

launcherVars == <<outboxVars, writerVars, creditVars, pumpVars, inletVars, drainVars,
                  sinkVars, readerVars>>

DaemonSends(d) ==
    /\ connected /\ ~dexit /\ Len(down) < SOCKET
    /\ down' = Append(down, d)
    /\ UNCHANGED <<launcherVars, up, connected>>

DaemonReads ==
    /\ connected /\ up # <<>>
    /\ up' = Tail(up)
    /\ LET d == Head(up) IN
         /\ dbuffer' = IF d.type = "data" /\ d.stream \notin dclosed
                       THEN [dbuffer EXCEPT ![d.stream] = @ + d.bytes] ELSE dbuffer
         /\ dgot' = IF d.type = "data" THEN [dgot EXCEPT ![d.stream] = @ + d.bytes] ELSE dgot
         /\ dend' = IF d.type = "end" THEN dend \cup {d.stream} ELSE dend
         /\ dcredit' = IF d.type = "credit"
                       THEN [dcredit EXCEPT ![d.stream] = @ + d.bytes] ELSE dcredit
         /\ told' = IF d.type = "closed" THEN [told EXCEPT ![d.stream] = @ + 1] ELSE told
         /\ dsignals' = IF d.type = "signal" THEN dsignals + 1 ELSE dsignals
    /\ UNCHANGED <<launcherVars, down, connected, dwritten, dended, dclosed, dopens, dexit,
                   signals, acks>>

Asked(s) == s \in Descriptors => dopens[s] > 0

DaemonWrites(s) ==
    /\ s \in In \ dended /\ Asked(s)
    /\ \E n \in 1..Least(dcredit[s], MAXIMUM_CHUNK) :
         /\ dwritten[s] + n <= Output
         /\ DaemonSends(Data(s, dwritten[s], n))
         /\ dcredit' = [dcredit EXCEPT ![s] = @ - n]
         /\ dwritten' = [dwritten EXCEPT ![s] = @ + n]
    /\ UNCHANGED <<dended, daemonIn, dopens, dexit, signalVars>>

DaemonEnds(s) ==
    /\ "end" \in Faults /\ s \in In \ dended /\ Asked(s)
    /\ DaemonSends(About("end", s))
    /\ dended' = dended \cup {s}
    /\ UNCHANGED <<dcredit, dwritten, daemonIn, dopens, dexit, signalVars>>

\* The application takes some of what the daemon buffers, and as much is granted.
DaemonGrants(s) ==
    /\ \E n \in 1..dbuffer[s] :
         /\ DaemonSends(Credit(s, n))
         /\ dbuffer' = [dbuffer EXCEPT ![s] = @ - n]
    /\ UNCHANGED <<daemonOut, dgot, dend, dclosed, told, dopens, dexit, signalVars>>

\* The application closes a stream before its end; what arrives of it is dropped.
DaemonCloses(s) ==
    /\ "close" \in Faults /\ s \notin dclosed /\ Asked(s)
    /\ DaemonSends(About("closed", s))
    /\ dclosed' = dclosed \cup {s}
    /\ dbuffer' = [dbuffer EXCEPT ![s] = 0]
    /\ UNCHANGED <<daemonOut, dgot, dend, told, dopens, dexit, signalVars>>

DaemonOpens(fd) ==
    /\ dopens[fd] < Opens
    /\ DaemonSends(About("open", fd))
    /\ dopens' = [dopens EXCEPT ![fd] = @ + 1]
    /\ UNCHANGED <<daemonOut, daemonIn, dexit, signalVars>>

DaemonAcks ==
    /\ dsignals > 0
    /\ DaemonSends(About("signal-ack", Stdin))
    /\ dsignals' = dsignals - 1
    /\ UNCHANGED <<daemonOut, daemonIn, dopens, dexit, signals, acks>>

DaemonExits ==
    /\ DaemonSends(About("exit-status", Stdin))
    /\ dexit' = TRUE
    /\ UNCHANGED <<daemonOut, daemonIn, dopens, signalVars>>

-----------------------------------------------------------------------------
Terminated ==
    /\ waited /\ writer = "returned" /\ \A s \in Out : pump[s] \in {"none", "done"}
    /\ UNCHANGED vars

Writer == WriterPops \/ WriterReturns \/ WriterWrites \/ WriterFails
Pump(s) == \/ PumpAllowance(s) \/ PumpReads(s) \/ PumpSends(s)
           \/ PumpFinishes(s) \/ PumpEnds(s)
Drain(s) == DrainTakes(s) \/ DrainWrites(s) \/ DrainGrants(s)
Reader == \/ ReadData \/ ReadEnd \/ ReadCredit \/ ReadClosed \/ ReadOpen
          \/ ReadSignalAck \/ ReadExitStatus \/ ReadFails
          \/ ReaderClosesCredits \/ ReaderClosesOutbox \/ ReaderReleases
Client == \/ Signal \/ Disconnect
          \/ \E s \in In : DiscardStdout(s) \/ SinkBreaks(s)
Daemon == \/ DaemonReads \/ DaemonAcks \/ DaemonExits
          \/ \E s \in In : DaemonWrites(s) \/ DaemonEnds(s)
          \/ \E s \in Out : DaemonGrants(s) \/ DaemonCloses(s)
          \/ \E fd \in Descriptors : DaemonOpens(fd)

Next == \/ Writer \/ Reader \/ Wait \/ Client \/ Daemon \/ Terminated
        \/ \E s \in Out : Pump(s)
        \/ \E s \in In : Drain(s)

Spec == Init /\ [][Next]_vars

\* A thread that can take a step takes one.  A sink may stall for ever (`mytool | less`), a
\* source may stay silent for ever, the application may never read its stdin or exit: none
\* of DrainWrites, PumpReads, DaemonGrants and DaemonExits is fair.
Fairness ==
    /\ WF_vars(Writer) /\ WF_vars(Reader) /\ WF_vars(Wait)
    /\ \A s \in Out : WF_vars(PumpAllowance(s) \/ PumpSends(s) \/ PumpFinishes(s) \/ PumpEnds(s))
    /\ \A s \in In : WF_vars(DrainTakes(s) \/ DrainGrants(s))
    /\ WF_vars(DaemonReads) /\ WF_vars(DaemonAcks)

FairSpec == Spec /\ Fairness

-----------------------------------------------------------------------------
OutboxOK == control \in Seq(Document) /\ data \in Seq(Document) /\ closed \in BOOLEAN
WriterOK == frame \in Seq(Document) /\ writer \in {"running", "returned"}
CreditsOK == streams \subseteq Out /\ credit \in [Out -> Nat] /\ creditsClosed \in BOOLEAN
PumpsOK ==
    /\ pump \in [Out -> {"none", "allowance", "read", "send", "exhausted", "end", "done"}]
    /\ allowed \in [Out -> Nat] /\ hand \in [Out -> Nat]
    /\ input \in [Out -> Nat] /\ carried \in [Out -> Nat]
InletsOK ==
    /\ inlets \subseteq In /\ queue \in [In -> Seq(Document)]
    /\ ended \in [In -> BOOLEAN] /\ discard \in [In -> BOOLEAN]
\* A drain holds a chunk while it writes and accounts for it.
DrainsOK ==
    /\ drain \in [In -> {"none", "wait", "write", "grant", "done"}]
    /\ taken \in [In -> Seq(Document)] /\ dropping \in [In -> BOOLEAN]
    /\ consumed \in [In -> Nat]
    /\ \A s \in In : drain[s] \in {"write", "grant"} => Len(taken[s]) = 1
SinksOK == broken \subseteq In /\ output \in [In -> Nat]
ReaderOK ==
    /\ opened \subseteq Descriptors /\ received \in BOOLEAN /\ waited \in BOOLEAN
    /\ reader \in {"reading", "exited", "dropped", "refused"}
    /\ outcome \in {"none", "exited", "dropped", "refused"}
WireOK == up \in Seq(Document) /\ down \in Seq(Document) /\ connected \in BOOLEAN
DaemonOK ==
    /\ dcredit \in [In -> Nat] /\ dwritten \in [In -> Nat] /\ dended \subseteq In
    /\ dbuffer \in [Out -> Nat] /\ dgot \in [Out -> Nat] /\ dend \subseteq Streams
    /\ dclosed \subseteq Out /\ told \in [In -> Nat]
    /\ dopens \in [Descriptors -> Nat] /\ dexit \in BOOLEAN
SignalsOK == signals \in Nat /\ dsignals \in Nat /\ acks \in Nat

TypeOK ==
    /\ OutboxOK /\ WriterOK /\ CreditsOK /\ PumpsOK /\ InletsOK /\ DrainsOK /\ SinksOK
    /\ ReaderOK /\ WireOK /\ DaemonOK /\ SignalsOK

(* The credit of a stream, wherever it is: in hand, in flight as data,     *)
(* buffered by the receiver, or on its way back as a grant.                *)
OutData(s) == Bytes(data, "data", s) + Bytes(frame, "data", s) + Bytes(up, "data", s) + dbuffer[s]
OutGrants(s) == Bytes(down, "credit", s)
InData(s) == Bytes(down, "data", s) + Bytes(queue[s], "data", s) + Bytes(taken[s], "data", s)
               + consumed[s]
InGrants(s) == Bytes(control, "credit", s) + Bytes(frame, "credit", s) + Bytes(up, "credit", s)

\* What a pump has leave to read, or has read and not yet sent.
Held(s) == CASE pump[s] = "read" -> allowed[s]
             [] pump[s] = "send" -> hand[s]
             [] OTHER -> 0

\* What the launcher may still put on a stream: its credit, or once the stream is revoked
\* only what its pump holds.
Due(s) == IF s \in streams THEN credit[s] ELSE Held(s)

\* launcher.md, Flow control: "A sender never has more bytes of a stream outstanding - sent,
\* and not yet granted back - than its credit, so a receiver can always take what arrives":
\* in neither direction does the receiver ever hold more than a window, closing, revoking
\* and discarding included.
WithinWindow ==
    /\ \A s \in Out : Due(s) + OutData(s) + OutGrants(s) <= WINDOW
    /\ \A s \in In : dcredit[s] + InData(s) + InGrants(s) <= WINDOW

\* No credit leaks: while a stream lives, its window is all accounted for, and a drain keeps
\* back less than half of it, so a receiver that keeps consuming always unblocks its sender.
CreditConserved ==
    connected /\ ~closed =>
        /\ \A s \in streams \ dclosed : credit[s] + OutData(s) + OutGrants(s) = WINDOW
        /\ \A s \in inlets :
              /\ dcredit[s] + InData(s) + InGrants(s) = WINDOW
              /\ consumed[s] = 0 \/ 2 * consumed[s] < WINDOW

\* Chunks arrive in order and `end` follows every one of them: what the daemon reads next
\* continues what it has, and at `end` it has all that the pump carried; what a drain is
\* about to write continues what the client's descriptor has been given.
InOrder ==
    /\ up # <<>> =>
         LET d == Head(up) IN
           /\ d.type = "data" => d.from = dgot[d.stream] /\ d.stream \notin dend
           /\ d.type = "end" => dgot[d.stream] = carried[d.stream]
    /\ \A s \in In : drain[s] = "write" /\ ~dropping[s] => taken[s][1].from = output[s]

\* launcher.md, Exit status and Losing the other side: the launcher "writes out what it holds
\* of stdout and stderr" before it exits - of every stream, all the daemon wrote, unless
\* its descriptor could no longer be written or an accepted termination discards it.
OutputComplete ==
    waited => \A s \in In : \/ output[s] = dwritten[s] \/ discard[s]
                            \/ drain[s] = "none"

\* launcher.md, End of output: `closed` is sent once, and of a stream that cannot be written.
ClosedOnce == \A s \in In : told[s] <= 1 /\ (told[s] = 1 => discard[s] /\ s \in broken)

\* launcher.md, Flow control: "an invocation whose stdout nobody is reading must still
\* receive a signal" - whatever sinks, sources and the application's own reads do.
SignalsAnswered ==
    \A k \in 1..Signals : signals >= k ~> acks >= k \/ dexit \/ ~connected

\* "a stalled stream stalls only its own producer": what the daemon writes on a stream whose
\* sink takes it is written out, whatever the other sinks do.
OutputFlows ==
    \A s \in In : WF_vars(DrainWrites(s)) =>
        \A n \in 1..Output : dwritten[s] >= n ~> output[s] >= n \/ discard[s] \/ s \in broken

\* All of a source reaches the daemon while the application reads it, whatever the sinks do,
\* though every chunk past the first window needs a grant carried by the reader.
InputFlows ==
    \A s \in Out :
        WF_vars(PumpReads(s)) /\ WF_vars(DaemonGrants(s)) =>
            (pump[s] = "read" ~> \/ dgot[s] = carried[s] /\ input[s] = 0
                                 \/ dexit \/ ~connected \/ s \in dclosed)

\* Once the daemon has exited or is gone, `wait` returns if no sink stalls.
Returns ==
    (\A s \in In : WF_vars(DrainWrites(s))) => (dexit \/ ~connected ~> waited)
=============================================================================
