------------------------------ MODULE Terminal ------------------------------
(***************************************************************************)
(* A session whose stdin is a terminal the launcher owns: the terminal's   *)
(* pump, which must keep out of the way while a command the daemon asked   *)
(* for runs on that terminal, the threads that run those commands, the     *)
(* drains they hold meanwhile, `mode` documents, and the main thread, that *)
(* restores the terminal when the session is over (session.rs, main.rs).   *)
(*                                                                         *)
(* What module Session shows of the wire and of the outbox is assumed here *)
(* and left out: a document queued is a document the daemon has.  Output   *)
(* is counted in chunks, and a keystroke is known by its position in what  *)
(* the user types.                                                         *)
(***************************************************************************)
EXTENDS Integers, Sequences, FiniteSets

CONSTANTS
    Outputs,        \* the invocation's output streams: stdout, stderr
    WINDOW,         \* credit stdin opens with
    MAXIMUM_CHUNK,  \* longest chunk of a data document
    SOCKET,         \* documents the socket holds towards the launcher
    Foregrounds,    \* what in_foreground may answer once a command has ended
    Keys,           \* bound: keystrokes the user types
    Leftovers,      \* bound: how many of them the handshake may have taken
    Output,         \* bound: chunks the daemon writes on an output stream
    Modes,          \* bound: `mode` documents the daemon sends
    Runs,           \* bound: `run` documents the daemon sends
    Faults          \* which of "disconnect", "hangup", "close" and "end" may happen

ASSUME TerminalAssumption ==
    /\ WINDOW \in Nat \ {0} /\ MAXIMUM_CHUNK \in 1..WINDOW /\ SOCKET \in Nat \ {0}
    /\ Foregrounds \subseteq BOOLEAN /\ Foregrounds # {}
    /\ Keys \in Nat /\ Leftovers \subseteq 0..Keys
    /\ Output \in Nat /\ Modes \in Nat /\ Runs \in Nat
    /\ IsFiniteSet(Outputs) /\ Outputs # {}

VARIABLES
    requested, parked,              \* Gate
    mode, typed, front, hungup,     \* the terminal: what is typed, and taken from it
    pump, allowed, pending, sent,   \* pump_terminal; what it has carried
    open, credit,                   \* Credits, of stdin
    runner, child, todo, eaten,     \* run_command's threads; what their commands read
    answers,                        \* `exited` documents sent
    inlets, queue, ended, held,     \* the map of inlets, and each inlet
    drain, output,                  \* the drains, and what they have written
    reader, main,                   \* the reader; main, from `wait` to its exit
    down, connected,                \* the socket
    dbuffer, dwritten, dended, dmodes, druns, dexit     \* the daemon

gateVars     == <<requested, parked>>
terminalVars == <<mode, typed, front, hungup>>
pumpVars     == <<pump, allowed, pending, sent>>
creditVars   == <<open, credit>>
runVars      == <<runner, child, todo, eaten, answers>>
inletVars    == <<inlets, queue, ended, held>>
drainVars    == <<drain, output>>
wireVars     == <<down, connected>>
daemonVars   == <<dbuffer, dwritten, dended, dmodes, druns, dexit>>
vars == <<gateVars, terminalVars, pumpVars, creditVars, runVars, inletVars, drainVars,
          reader, main, wireVars, daemonVars>>

Runners == 1..Runs
Least(a, b) == IF a < b THEN a ELSE b

Types == {"data", "end", "credit", "closed", "cooked", "raw", "run", "exit-status"}
NoStream == "none"
Doc(type, s, n) == [type |-> type, stream |-> s, bytes |-> n]

-----------------------------------------------------------------------------
(* `saved` is the terminal as the launcher found it; a canonical `mode` is *)
(* "cooked", any other "raw", echo being part of neither.                  *)
Init ==
    /\ requested = FALSE /\ parked = FALSE
    /\ mode = "raw" /\ hungup = FALSE
    /\ pending \in Leftovers /\ typed = pending /\ front = pending
    /\ pump = "allowance" /\ allowed = 0 /\ sent = <<>>
    /\ open = TRUE /\ credit = WINDOW
    /\ runner = [r \in Runners |-> "none"] /\ child = 0 /\ todo = {} /\ eaten = {}
    /\ answers = 0
    /\ inlets = Outputs /\ queue = [s \in Outputs |-> 0]
    /\ ended = [s \in Outputs |-> FALSE] /\ held = [s \in Outputs |-> FALSE]
    /\ drain = [s \in Outputs |-> "wait"] /\ output = [s \in Outputs |-> 0]
    /\ reader = "reading" /\ main = "waiting"
    /\ down = <<>> /\ connected = TRUE
    /\ dbuffer = 0 /\ dwritten = [s \in Outputs |-> 0] /\ dended = {}
    /\ dmodes = 0 /\ druns = 0 /\ dexit = FALSE

-----------------------------------------------------------------------------
(* The reader, once its loop is left, closes the credits, then the outbox, *)
(* then ends every inlet still in the map, and then reports.               *)
CreditsClosed == reader \in {"outbox", "release", "reported"}
OutboxClosed == reader \in {"release", "reported"}
Active == open /\ ~CreditsClosed

Alive == main # "gone"

(* The terminal's pump: nothing is read without allowance, and nothing is  *)
(* waited for inside `read`.                                               *)

(* Mutants: each is the definition after it with one plausible mistake,   *)
(* and no part of the specification.                                       *)

\* Mutant: what was typed during the handshake waits until the terminal is silent.
PumpAllowanceTerminalFirst ==
    /\ Alive /\ pump = "allowance"
    /\ \/ ~Active /\ pump' = "vacate" /\ UNCHANGED allowed
       \/ /\ Active /\ credit > 0
          /\ allowed' = Least(credit, MAXIMUM_CHUNK)
          /\ pump' = IF pending > 0 /\ front = typed THEN "leftover" ELSE "park"
    /\ UNCHANGED <<gateVars, terminalVars, pending, sent, creditVars, runVars, inletVars,
                   drainVars, reader, main, wireVars, daemonVars>>

PumpAllowance ==
    /\ Alive /\ pump = "allowance"
    /\ \/ ~Active /\ pump' = "vacate" /\ UNCHANGED allowed
       \/ /\ Active /\ credit > 0
          /\ allowed' = Least(credit, MAXIMUM_CHUNK)
          /\ pump' = IF pending > 0 THEN "leftover" ELSE "park"
    /\ UNCHANGED <<gateVars, terminalVars, pending, sent, creditVars, runVars, inletVars,
                   drainVars, reader, main, wireVars, daemonVars>>

\* Mutant: nothing is charged.
CarryFree(from, n) ==
    /\ IF OutboxClosed
       THEN UNCHANGED <<sent, dbuffer>>
       ELSE sent' = sent \o [i \in 1..n |-> from + i] /\ dbuffer' = dbuffer + n
    /\ UNCHANGED <<creditVars, dwritten, dended, dmodes, druns, dexit>>

\* `n` keystrokes after the `from` first are charged and queued for the daemon.
Carry(from, n) ==
    /\ credit' = IF credit < n THEN 0 ELSE credit - n
    /\ IF OutboxClosed
       THEN UNCHANGED <<sent, dbuffer>>
       ELSE sent' = sent \o [i \in 1..n |-> from + i] /\ dbuffer' = dbuffer + n
    /\ UNCHANGED <<open, dwritten, dended, dmodes, druns, dexit>>

\* What was typed during the handshake is sent first, without a look at the gate.
PumpLeftover ==
    /\ Alive /\ pump = "leftover"
    /\ LET take == Least(allowed, pending) IN
         /\ Carry(front - pending, take)
         /\ pending' = pending - take
    /\ pump' = "allowance"
    /\ UNCHANGED <<gateVars, terminalVars, allowed, runVars, inletVars, drainVars,
                   reader, main, wireVars>>

PumpParks ==
    /\ Alive /\ pump = "park"
    /\ IF requested THEN parked' = TRUE /\ pump' = "parked"
                    ELSE pump' = "poll" /\ UNCHANGED parked
    /\ UNCHANGED <<requested, terminalVars, allowed, pending, sent, creditVars, runVars,
                   inletVars, drainVars, reader, main, wireVars, daemonVars>>

\* Mutant: the pump leaves the gate still counted as parked.
PumpUnparksStale ==
    /\ Alive /\ pump = "parked" /\ ~requested
    /\ pump' = "poll"
    /\ UNCHANGED <<gateVars, terminalVars, allowed, pending, sent, creditVars, runVars,
                   inletVars, drainVars, reader, main, wireVars, daemonVars>>

PumpUnparks ==
    /\ Alive /\ pump = "parked" /\ ~requested
    /\ parked' = FALSE /\ pump' = "poll"
    /\ UNCHANGED <<requested, terminalVars, allowed, pending, sent, creditVars, runVars,
                   inletVars, drainVars, reader, main, wireVars, daemonVars>>

\* wait_input: a poll that finds nothing goes back to the gate.
PumpPolls ==
    /\ Alive /\ pump = "poll"
    /\ pump' = IF front < typed \/ hungup THEN "read" ELSE "park"
    /\ UNCHANGED <<gateVars, terminalVars, allowed, pending, sent, creditVars, runVars,
                   inletVars, drainVars, reader, main, wireVars, daemonVars>>

\* A read finds input, or the terminal gone; else it would wait for either.
PumpReads ==
    /\ Alive /\ pump = "read"
    /\ \/ \E n \in 1..Least(allowed, typed - front) :
            /\ Carry(front, n)
            /\ front' = front + n
            /\ pump' = "allowance"
       \/ /\ front = typed /\ hungup
          /\ pump' = "vacate"
          /\ UNCHANGED <<front, sent, creditVars, daemonVars>>
    /\ UNCHANGED <<gateVars, mode, typed, hungup, allowed, pending, runVars, inletVars,
                   drainVars, reader, main, wireVars>>

\* Mutant: the pump goes without a word to the gate.
PumpVacatesUnseen ==
    /\ Alive /\ pump = "vacate"
    /\ pump' = "done"
    /\ UNCHANGED <<gateVars, terminalVars, allowed, pending, sent, creditVars, runVars,
                   inletVars, drainVars, reader, main, wireVars, daemonVars>>

\* No pump is left for a pause to wait for; the `end` it may send is not counted here.
PumpVacates ==
    /\ Alive /\ pump = "vacate"
    /\ parked' = TRUE /\ pump' = "done"
    /\ UNCHANGED <<requested, terminalVars, allowed, pending, sent, creditVars, runVars,
                   inletVars, drainVars, reader, main, wireVars, daemonVars>>

-----------------------------------------------------------------------------
(* run_command, on a thread of its own for each `run`.                     *)

RunnerGoes(r, from, to) ==
    /\ Alive /\ runner[r] = from
    /\ runner' = [runner EXCEPT ![r] = to]

RunnerLocks(r) ==
    /\ RunnerGoes(r, "start", "pause") /\ child = 0
    /\ child' = r
    /\ UNCHANGED <<gateVars, terminalVars, pumpVars, creditVars, todo, eaten, answers,
                   inletVars, drainVars, reader, main, wireVars, daemonVars>>

RunnerPauses(r) ==
    /\ RunnerGoes(r, "pause", "pausing")
    /\ requested' = TRUE
    /\ UNCHANGED <<parked, terminalVars, pumpVars, creditVars, child, todo, eaten, answers,
                   inletVars, drainVars, reader, main, wireVars, daemonVars>>

RunnerPaused(r) ==
    /\ RunnerGoes(r, "pausing", "hold") /\ parked
    /\ todo' = Outputs
    /\ UNCHANGED <<gateVars, terminalVars, pumpVars, creditVars, child, eaten, answers,
                   inletVars, drainVars, reader, main, wireVars, daemonVars>>

\* The outputs are held one by one, each under the map's lock; only those in the map are.
HoldsAll(r, from, hold, to) ==
    /\ Alive /\ runner[r] = from
    /\ \E s \in todo :
         /\ held' = IF s \in inlets THEN [held EXCEPT ![s] = hold] ELSE held
         /\ todo' = todo \ {s}
    /\ runner' = IF todo' = {} THEN [runner EXCEPT ![r] = to] ELSE runner
    /\ UNCHANGED <<gateVars, terminalVars, pumpVars, creditVars, child, eaten, answers,
                   inlets, queue, ended, drainVars, reader, main, wireVars, daemonVars>>

RunnerHolds(r) == HoldsAll(r, "hold", TRUE, "restore")

RunnerRestores(r) ==
    /\ RunnerGoes(r, "restore", "spawn")
    /\ mode' = "saved"
    /\ UNCHANGED <<gateVars, typed, front, hungup, pumpVars, creditVars, child, todo, eaten,
                   answers, inletVars, drainVars, reader, main, wireVars, daemonVars>>

\* A command that cannot be spawned is answered 127, as if it had run.
RunnerSpawns(r) ==
    /\ RunnerGoes(r, "spawn", "running") \/ RunnerGoes(r, "spawn", "raw")
    /\ UNCHANGED <<gateVars, terminalVars, pumpVars, creditVars, child, todo, eaten,
                   answers, inletVars, drainVars, reader, main, wireVars, daemonVars>>

\* The command reads the terminal.
CommandReads(r) ==
    /\ runner[r] = "running" /\ Alive /\ front < typed
    /\ front' = front + 1 /\ eaten' = eaten \cup {front + 1}
    /\ UNCHANGED <<gateVars, mode, typed, hungup, pumpVars, creditVars, runner, child, todo,
                   answers, inletVars, drainVars, reader, main, wireVars, daemonVars>>

CommandEnds(r) ==
    /\ RunnerGoes(r, "running", "raw")
    /\ UNCHANGED <<gateVars, terminalVars, pumpVars, creditVars, child, todo, eaten,
                   answers, inletVars, drainVars, reader, main, wireVars, daemonVars>>

RunnerSetsRaw(r) ==
    /\ RunnerGoes(r, "raw", "release")
    /\ \E foreground \in Foregrounds : mode' = IF foreground THEN "raw" ELSE mode
    /\ todo' = Outputs
    /\ UNCHANGED <<gateVars, typed, front, hungup, pumpVars, creditVars, child, eaten,
                   answers, inletVars, drainVars, reader, main, wireVars, daemonVars>>

RunnerReleases(r) == HoldsAll(r, "release", FALSE, "resume")

\* Mutant: the pause is left requested.
RunnerResumesNot(r) ==
    /\ RunnerGoes(r, "resume", "answer")
    /\ UNCHANGED <<gateVars, terminalVars, pumpVars, creditVars, child, todo, eaten, answers,
                   inletVars, drainVars, reader, main, wireVars, daemonVars>>

RunnerResumes(r) ==
    /\ RunnerGoes(r, "resume", "answer")
    /\ requested' = FALSE
    /\ UNCHANGED <<parked, terminalVars, pumpVars, creditVars, child, todo, eaten, answers,
                   inletVars, drainVars, reader, main, wireVars, daemonVars>>

\* `exited` is queued before the mutex is released.
RunnerAnswers(r) ==
    /\ RunnerGoes(r, "answer", "done")
    /\ answers' = IF OutboxClosed THEN answers ELSE answers + 1
    /\ child' = 0
    /\ UNCHANGED <<gateVars, terminalVars, pumpVars, creditVars, todo, eaten,
                   inletVars, drainVars, reader, main, wireVars, daemonVars>>

-----------------------------------------------------------------------------
(* A drain looks at its queue, and at its end, only while it is not held.  *)

\* Mutant: a chunk is taken up without a look at the hold.
DrainTakesHeld(s) ==
    /\ Alive /\ drain[s] = "wait"
    /\ \/ /\ queue[s] > 0
          /\ queue' = [queue EXCEPT ![s] = @ - 1]
          /\ drain' = [drain EXCEPT ![s] = "write"]
       \/ /\ queue[s] = 0 /\ ended[s]
          /\ drain' = [drain EXCEPT ![s] = "done"]
          /\ UNCHANGED queue
    /\ UNCHANGED <<gateVars, terminalVars, pumpVars, creditVars, runVars, inlets, ended, held,
                   output, reader, main, wireVars, daemonVars>>

DrainTakes(s) ==
    /\ Alive /\ drain[s] = "wait" /\ ~held[s]
    /\ \/ /\ queue[s] > 0
          /\ queue' = [queue EXCEPT ![s] = @ - 1]
          /\ drain' = [drain EXCEPT ![s] = "write"]
       \/ /\ queue[s] = 0 /\ ended[s]
          /\ drain' = [drain EXCEPT ![s] = "done"]
          /\ UNCHANGED queue
    /\ UNCHANGED <<gateVars, terminalVars, pumpVars, creditVars, runVars, inlets, ended, held,
                   output, reader, main, wireVars, daemonVars>>

DrainWrites(s) ==
    /\ Alive /\ drain[s] = "write"
    /\ drain' = [drain EXCEPT ![s] = "wait"]
    /\ output' = [output EXCEPT ![s] = @ + 1]
    /\ UNCHANGED <<gateVars, terminalVars, pumpVars, creditVars, runVars, inletVars,
                   reader, main, wireVars, daemonVars>>

-----------------------------------------------------------------------------
(* The reader.                                                             *)

Receives(type) ==
    /\ Alive /\ reader = "reading" /\ down # <<>> /\ Head(down).type = type
    /\ down' = Tail(down)
    /\ UNCHANGED <<gateVars, typed, front, hungup, pumpVars, child, todo, eaten, answers,
                   held, drainVars, main, connected, daemonVars>>

ReadData ==
    /\ Receives("data")
    /\ LET s == Head(down).stream IN
         queue' = IF s \in inlets /\ ~ended[s] THEN [queue EXCEPT ![s] = @ + 1] ELSE queue
    /\ UNCHANGED <<mode, creditVars, runner, inlets, ended, reader>>

ReadEnd ==
    /\ Receives("end")
    /\ LET s == Head(down).stream IN
         /\ inlets' = inlets \ {s}
         /\ ended' = IF s \in inlets THEN [ended EXCEPT ![s] = TRUE] ELSE ended
    /\ UNCHANGED <<mode, creditVars, runner, queue, reader>>

ReadCredit ==
    /\ Receives("credit")
    /\ credit' = IF open THEN credit + Head(down).bytes ELSE credit
    /\ UNCHANGED <<mode, open, runner, inlets, queue, ended, reader>>

ReadClosed ==
    /\ Receives("closed")
    /\ open' = FALSE
    /\ UNCHANGED <<mode, credit, runner, inlets, queue, ended, reader>>

\* Applied at once, whether or not a command has the terminal.
ReadMode ==
    /\ \/ Receives("cooked") /\ mode' = "cooked"
       \/ Receives("raw") /\ mode' = "raw"
    /\ UNCHANGED <<creditVars, runner, inlets, queue, ended, reader>>

ReadRun ==
    /\ Receives("run")
    /\ \E r \in Runners :
         /\ runner[r] = "none" /\ \A earlier \in 1..(r - 1) : runner[earlier] # "none"
         /\ runner' = [runner EXCEPT ![r] = "start"]
    /\ UNCHANGED <<mode, creditVars, inlets, queue, ended, reader>>

ReadExitStatus ==
    /\ Receives("exit-status")
    /\ reader' = "credits"
    /\ UNCHANGED <<mode, creditVars, runner, inlets, queue, ended>>

ReaderGoes(from, to) ==
    /\ Alive /\ reader = from /\ reader' = to
    /\ UNCHANGED <<gateVars, terminalVars, pumpVars, creditVars, runVars, queue, held,
                   drainVars, main, wireVars, daemonVars>>

ReadFails ==
    /\ down = <<>> /\ ~connected
    /\ ReaderGoes("reading", "credits")
    /\ UNCHANGED <<inlets, ended>>

ReaderCloses ==
    /\ ReaderGoes("credits", "outbox") \/ ReaderGoes("outbox", "release")
    /\ UNCHANGED <<inlets, ended>>

ReaderReleases ==
    /\ ReaderGoes("release", "reported")
    /\ ended' = [s \in Outputs |-> ended[s] \/ s \in inlets]
    /\ inlets' = {}

-----------------------------------------------------------------------------
(* main: `wait` joins the drains; the terminal is restored; the process,   *)
(* with all its threads, is gone.                                          *)

MainGoes(from, to) ==
    /\ main = from /\ main' = to
    /\ UNCHANGED <<gateVars, typed, front, hungup, pumpVars, creditVars, runVars, inletVars,
                   drainVars, reader, wireVars, daemonVars>>

MainWaits ==
    /\ reader = "reported" /\ \A s \in Outputs : drain[s] = "done"
    /\ MainGoes("waiting", "restoring") /\ UNCHANGED mode

MainRestores == MainGoes("restoring", "exiting") /\ mode' = "saved"

MainExits == MainGoes("exiting", "gone") /\ UNCHANGED mode

-----------------------------------------------------------------------------
(* The user and the daemon.                                                *)

launcherVars == <<gateVars, mode, front, pumpVars, creditVars, runVars, inletVars, drainVars,
                  reader, main>>

UserTypes ==
    /\ typed < Keys /\ ~hungup
    /\ typed' = typed + 1
    /\ UNCHANGED <<launcherVars, hungup, wireVars, daemonVars>>

\* The terminal is gone; or, in canonical mode, the user ends the input.
UserHangsUp ==
    /\ "hangup" \in Faults /\ ~hungup
    /\ hungup' = TRUE
    /\ UNCHANGED <<launcherVars, typed, wireVars, daemonVars>>

DaemonSends(d) ==
    /\ Alive /\ connected /\ ~dexit /\ Len(down) < SOCKET
    /\ down' = Append(down, d)
    /\ UNCHANGED <<launcherVars, typed, hungup, connected>>

DaemonWrites(s) ==
    /\ dwritten[s] < Output /\ s \notin dended
    /\ DaemonSends(Doc("data", s, 1))
    /\ dwritten' = [dwritten EXCEPT ![s] = @ + 1]
    /\ UNCHANGED <<dbuffer, dended, dmodes, druns, dexit>>

DaemonEnds(s) ==
    /\ "end" \in Faults /\ s \notin dended
    /\ DaemonSends(Doc("end", s, 0))
    /\ dended' = dended \cup {s}
    /\ UNCHANGED <<dbuffer, dwritten, dmodes, druns, dexit>>

DaemonGrants ==
    /\ \E n \in 1..dbuffer :
         DaemonSends(Doc("credit", NoStream, n)) /\ dbuffer' = dbuffer - n
    /\ UNCHANGED <<dwritten, dended, dmodes, druns, dexit>>

DaemonCloses ==
    /\ "close" \in Faults
    /\ DaemonSends(Doc("closed", NoStream, 0))
    /\ UNCHANGED daemonVars

DaemonModes ==
    /\ dmodes < Modes
    /\ \E type \in {"cooked", "raw"} : DaemonSends(Doc(type, NoStream, 0))
    /\ dmodes' = dmodes + 1
    /\ UNCHANGED <<dbuffer, dwritten, dended, druns, dexit>>

DaemonRuns ==
    /\ druns < Runs
    /\ DaemonSends(Doc("run", NoStream, 0))
    /\ druns' = druns + 1
    /\ UNCHANGED <<dbuffer, dwritten, dended, dmodes, dexit>>

DaemonExits ==
    /\ DaemonSends(Doc("exit-status", NoStream, 0))
    /\ dexit' = TRUE
    /\ UNCHANGED <<dbuffer, dwritten, dended, dmodes, druns>>

Disconnect ==
    /\ "disconnect" \in Faults /\ connected
    /\ connected' = FALSE
    /\ UNCHANGED <<launcherVars, typed, hungup, down, daemonVars>>

-----------------------------------------------------------------------------
Terminated == main = "gone" /\ UNCHANGED vars

Pump == \/ PumpAllowance \/ PumpLeftover \/ PumpParks \/ PumpUnparks \/ PumpPolls
        \/ PumpReads \/ PumpVacates
Runner(r) == \/ RunnerLocks(r) \/ RunnerPauses(r) \/ RunnerPaused(r) \/ RunnerHolds(r)
             \/ RunnerRestores(r) \/ RunnerSpawns(r) \/ RunnerSetsRaw(r)
             \/ RunnerReleases(r) \/ RunnerResumes(r) \/ RunnerAnswers(r)
Command(r) == CommandReads(r) \/ CommandEnds(r)
Drain(s) == DrainTakes(s) \/ DrainWrites(s)
Reader == \/ ReadData \/ ReadEnd \/ ReadCredit \/ ReadClosed \/ ReadMode \/ ReadRun
          \/ ReadExitStatus \/ ReadFails \/ ReaderCloses \/ ReaderReleases
Main == MainWaits \/ MainRestores \/ MainExits
User == UserTypes \/ UserHangsUp
Daemon == \/ DaemonGrants \/ DaemonCloses \/ DaemonModes \/ DaemonRuns \/ DaemonExits
          \/ Disconnect
          \/ \E s \in Outputs : DaemonWrites(s) \/ DaemonEnds(s)

Next == \/ Pump \/ Reader \/ Main \/ User \/ Daemon \/ Terminated
        \/ \E r \in Runners : Runner(r) \/ Command(r)
        \/ \E s \in Outputs : Drain(s)

Spec == Init /\ [][Next]_vars

\* Every thread of the launcher goes on while it can, and its sinks take what is written; a
\* command ends; but the user may stop typing, and the application need not read its stdin,
\* write, or exit.
Fairness ==
    /\ WF_vars(Pump) /\ WF_vars(Reader) /\ WF_vars(Main)
    /\ \A r \in Runners : WF_vars(Runner(r)) /\ WF_vars(CommandEnds(r))
    /\ \A s \in Outputs : WF_vars(Drain(s))

FairSpec == Spec /\ Fairness

-----------------------------------------------------------------------------
TypeOK ==
    /\ requested \in BOOLEAN /\ parked \in BOOLEAN
    /\ mode \in {"saved", "raw", "cooked"} /\ typed \in 0..Keys /\ front \in 0..typed
    /\ hungup \in BOOLEAN
    /\ pump \in {"allowance", "leftover", "park", "parked", "poll", "read", "vacate", "done"}
    /\ allowed \in 0..MAXIMUM_CHUNK /\ pending \in 0..front /\ sent \in Seq(1..Keys)
    /\ open \in BOOLEAN /\ credit \in 0..WINDOW
    /\ runner \in [Runners -> {"none", "start", "pause", "pausing", "hold", "restore", "spawn",
                               "running", "raw", "release", "resume", "answer", "done"}]
    /\ child \in 0..Runs /\ todo \subseteq Outputs /\ eaten \subseteq 1..Keys
    /\ answers \in 0..Runs
    /\ inlets \subseteq Outputs /\ queue \in [Outputs -> 0..Output]
    /\ ended \in [Outputs -> BOOLEAN] /\ held \in [Outputs -> BOOLEAN]
    /\ drain \in [Outputs -> {"wait", "write", "done"}] /\ output \in [Outputs -> 0..Output]
    /\ reader \in {"reading", "credits", "outbox", "release", "reported"}
    /\ main \in {"waiting", "restoring", "exiting", "gone"}
    /\ \A i \in 1..Len(down) : down[i].type \in Types
    /\ connected \in BOOLEAN /\ dbuffer \in 0..WINDOW
    /\ dwritten \in [Outputs -> 0..Output] /\ dended \subseteq Outputs
    /\ dmodes \in 0..Modes /\ druns \in 0..Runs /\ dexit \in BOOLEAN

\* The command has the terminal, or is about to.
Owns(r) == runner[r] \in {"hold", "restore", "spawn", "running", "raw", "release", "resume"}

\* session.rs:277-281: "a command the daemon asks to run on the terminal must read it instead,
\* uncontested" - from the moment `pause` returns to `resume`, across any number of commands
\* and however the pump ends, the pump is parked or gone, and one command at most has the
\* terminal.
Uncontested ==
    /\ \A r \in Runners : Owns(r) => pump \in {"parked", "done"}
    /\ \A r, t \in Runners : Owns(r) /\ Owns(t) => r = t

\* launcher.md, The terminal: what the user typed during the handshake is "pushed back ahead of
\* stdin, not lost".  Every keystroke goes to one reader, and the daemon gets its own in the
\* order they were typed, whatever commands come and go - until the session is over.
KeysInOrder ==
    /\ \A i \in 1..Len(sent) : sent[i] \notin eaten /\ (i > 1 => sent[i - 1] < sent[i])
    /\ ~OutboxClosed => Len(sent) + Cardinality(eaten) + pending = front

\* launcher.md, Running a command: from before the command starts until it has ended, a drain
\* of a stream still open takes no chunk up - its inlet is held, whatever arrives and whatever
\* other streams end - so no more of one is written meanwhile than the chunk in hand; and
\* between commands none is left held, so its drain goes on.
TakesNothingUp ==
    [][\A s \in inlets :
        /\ (\E r \in Runners : runner[r] \in {"restore", "spawn", "running", "raw"}) =>
             queue'[s] >= queue[s] /\ (drain[s] = "wait" => drain'[s] = "wait")
        /\ held[s] => \E r \in Runners : Owns(r)]_vars

\* launcher.md, Running a command: the launcher "holds the invocation's stdout and stderr, so
\* nothing of the invocation's output interleaves with the command's".
NothingInterleaves ==
    [][(\E r \in Runners : runner[r] = "running") => output' = output]_vars

\* "the refusal is clean rather than a hang": every `run` read is answered, once, or the
\* session is over - if the application takes what the pump has sent.
RunAnswered ==
    WF_vars(DaemonGrants) =>
        \A r \in Runners : runner[r] = "start" ~> runner[r] = "done" \/ ~Alive

\* Stdin comes back: after any number of commands, what the user types is carried, or taken
\* by a command, while the application reads it.
KeysCarried ==
    WF_vars(DaemonGrants) =>
        \A k \in 1..Keys : typed >= k ~> front >= k \/ ~Active \/ ~Alive

\* launcher.md, Losing the other side: "If the connection closes before `exit-status` - the
\* daemon died, or was told to - the launcher writes out what it holds of stdout and stderr",
\* and exits: every command ends here, and no sink stalls.
Gone == ~connected ~> ~Alive
=============================================================================
