------------------------------ MODULE Signals ------------------------------
(***************************************************************************)
(* The launcher's signals on Unix: a handler writes its signal to a pipe   *)
(* and waits for one byte on another; a courier thread turns each request  *)
(* into a `signal` document and each `signal-ack` into that byte; an       *)
(* accepted TERM is flagged for main and for the thread that bounds the    *)
(* session's end; TSTP and CONT give the terminal up and take it back      *)
(* (signals.rs, Signaler in session.rs, main.rs).                          *)
(*                                                                         *)
(* What module Session shows of the wire is assumed: a document sent is    *)
(* one the other side reads, in order.  Time is not modelled: a wait may   *)
(* be given up at any moment.  A command of module Terminal runs here      *)
(* never: then INT and QUIT would be left to it.                           *)
(***************************************************************************)
EXTENDS Integers, Sequences, FiniteSets

CONSTANTS
    Handlers,       \* the threads a signal may be delivered to, "main" and "reader" known here
    Kinds,          \* the signals there are, of "TERM", "INT", "WINCH", "TSTP" and "CONT"
    Foregrounds,    \* what in_foreground may answer after a continue
    Signals         \* bound: signals delivered

\* INT stands for QUIT and HUP too, and WINCH for USR1 and USR2, which are treated alike.
ASSUME SignalsAssumption ==
    /\ Kinds \subseteq {"TERM", "INT", "WINCH", "TSTP", "CONT"}
    /\ Foregrounds \subseteq BOOLEAN /\ Foregrounds # {}
    /\ Signals \in Nat /\ IsFiniteSet(Handlers)

VARIABLES
    kind,                       \* the signals so far, in the order they were delivered
    handler, on, got,           \* each thread's handler, its signal, and the answer it took
    requests, answers,          \* the two pipes
    courier, carrying, result,  \* the courier, the request it has, what it was answered
    answer,                     \* Signaler's slot: empty, or an answer
    up, down, decision,         \* the wire, and what the daemon decided of each signal
    over, connected, dexit,     \* the session
    drained,                    \* its drains have ended, and `wait` has joined them
    termination, monitor,       \* the flag of an accepted TERM, and the thread it wakes
    main, fate,                 \* main; "alive", "exit" or the signal the process died of
    mode, stopped, resuming,    \* the terminal's mode; job control
    late,                       \* history: somebody has given up waiting
    crossed,                    \* history: a handler began while another thread's was running
    away                        \* history: the signals whose handler ran on another than main

handlerVars == <<kind, handler, on, got, crossed, away>>
pipeVars    == <<requests, answers>>
courierVars == <<courier, carrying, result>>
wireVars    == <<up, down, decision>>
sessionVars == <<over, connected, dexit, drained>>
endVars     == <<termination, monitor, main, fate>>
jobVars     == <<mode, stopped, resuming>>
vars == <<handlerVars, pipeVars, courierVars, answer, wireVars, sessionVars, endVars,
          jobVars, late>>

Ids == 1..Signals
Answers == {"accept", "reject"}

Init ==
    /\ kind = <<>> /\ handler = [t \in Handlers |-> "idle"] /\ on = [t \in Handlers |-> 0]
    /\ got = [i \in Ids |-> "none"]
    /\ requests = <<>> /\ answers = <<>>
    /\ courier = "read" /\ carrying = 0 /\ result = "none" /\ answer = "none"
    /\ up = <<>> /\ down = <<>> /\ decision = [i \in Ids |-> "none"]
    /\ over = FALSE /\ connected = TRUE /\ dexit = FALSE
    /\ drained = FALSE
    /\ termination = FALSE /\ monitor = "watching" /\ main = "waiting" /\ fate = "alive"
    /\ mode = "raw" /\ stopped = FALSE /\ resuming = FALSE
    /\ late = FALSE /\ crossed = FALSE /\ away = {}

Running == fate = "alive" /\ ~stopped
\* A thread goes on with its own work only while no handler runs on it.
Free(t) == Running /\ (t \in Handlers => handler[t] = "idle")

-----------------------------------------------------------------------------
(* The handlers.  Each masks every forwarded signal, on its own thread     *)
(* only: two threads' handlers may be at work at once.                     *)

Enters(t, k, at) ==
    /\ Free(t) /\ Len(kind) < Signals
    /\ kind' = Append(kind, k)
    /\ on' = [on EXCEPT ![t] = Len(kind) + 1]
    /\ handler' = [handler EXCEPT ![t] = at]
    /\ crossed' = (crossed \/ \E other \in Handlers : handler[other] # "idle")
    /\ away' = IF t = "main" THEN away ELSE away \cup {Len(kind) + 1}
    /\ UNCHANGED <<got, pipeVars, courierVars, answer, wireVars, sessionVars, endVars, late>>

Deliver(t) ==
    /\ \E k \in Kinds \ {"CONT"} : Enters(t, k, "drain")
    /\ UNCHANGED jobVars

\* resume: raw mode is taken back before the daemon is told.
DeliverCont(t) ==
    /\ Enters(t, "CONT", "drain")
    /\ resuming \/ "CONT" \in Kinds
    /\ \E foreground \in Foregrounds : mode' = IF foreground THEN "raw" ELSE mode
    /\ resuming' = FALSE
    /\ UNCHANGED stopped

HandlerGoes(t, from, to) ==
    /\ Running /\ handler[t] = from
    /\ handler' = [handler EXCEPT ![t] = to]
    /\ UNCHANGED <<kind, on, crossed, away, courierVars, answer, wireVars, sessionVars>>

HandlerDrains(t) ==
    /\ HandlerGoes(t, "drain", "write")
    /\ answers' = <<>>
    /\ UNCHANGED <<got, requests, endVars, jobVars, late>>

HandlerWrites(t) ==
    /\ HandlerGoes(t, "write", "poll")
    /\ requests' = Append(requests, on[t])
    /\ UNCHANGED <<got, answers, endVars, jobVars, late>>

\* The byte read is whatever byte is in the pipe.
HandlerReads(t) ==
    /\ HandlerGoes(t, "poll", "act") /\ answers # <<>>
    /\ got' = [got EXCEPT ![on[t]] = Head(answers)]
    /\ answers' = Tail(answers)
    /\ UNCHANGED <<requests, endVars, jobVars, late>>

HandlerGivesUp(t) ==
    /\ HandlerGoes(t, "poll", "act") /\ answers = <<>>
    /\ got' = [got EXCEPT ![on[t]] = "timeout"]
    /\ late' = TRUE
    /\ UNCHANGED <<pipeVars, endVars, jobVars>>


\* The default action raised by `fallback` is taken as the handler returns.
HandlerActs(t) ==
    /\ \/ /\ HandlerGoes(t, "act", "idle")
          /\ kind[on[t]] \in {"TERM", "INT"} /\ got[on[t]] # "accept"
          /\ fate' = kind[on[t]]
          /\ UNCHANGED mode
       \/ /\ HandlerGoes(t, "act", "idle")
          /\ kind[on[t]] \in {"TERM", "INT"} => got[on[t]] = "accept"
          /\ kind[on[t]] # "TSTP"
          /\ UNCHANGED <<fate, mode>>
       \/ /\ HandlerGoes(t, "act", "stop")
          /\ kind[on[t]] = "TSTP"
          /\ mode' = "saved"
          /\ UNCHANGED fate
    /\ UNCHANGED <<got, pipeVars, termination, monitor, main, stopped, resuming, late>>

\* Execution resumes past the raise, and the handler returns.
HandlerStops(t) ==
    /\ HandlerGoes(t, "stop", "idle")
    /\ stopped' = TRUE
    /\ UNCHANGED <<got, pipeVars, endVars, mode, resuming, late>>

\* The shell: `fg`, and the signal that says so, for whatever thread can take it.
Continue ==
    /\ fate = "alive" /\ stopped
    /\ stopped' = FALSE /\ resuming' = TRUE
    /\ UNCHANGED <<handlerVars, pipeVars, courierVars, answer, wireVars, sessionVars, endVars,
                   mode, late>>

-----------------------------------------------------------------------------
(* The courier, and the Signaler it calls: one request at a time.          *)

CourierGoes(from, to) ==
    /\ Running /\ courier = from /\ courier' = to
    /\ UNCHANGED <<handlerVars, down, decision, sessionVars, monitor, main, fate, jobVars>>

CourierReads ==
    /\ CourierGoes("read", "send") /\ requests # <<>>
    /\ carrying' = Head(requests) /\ requests' = Tail(requests)
    /\ UNCHANGED <<answers, result, answer, up, termination, late>>

\* Mutant: the slot still holds what the signal before was answered.
CourierSendsOver ==
    /\ \/ /\ over /\ CourierGoes("send", "flag")
          /\ result' = "reject"
          /\ UNCHANGED up
       \/ /\ ~over /\ CourierGoes("send", "wait")
          /\ up' = Append(up, carrying)
          /\ UNCHANGED result
    /\ UNCHANGED <<pipeVars, carrying, answer, termination, late>>

\* A closed outbox is a timeout at once.
CourierSends ==
    /\ \/ /\ over /\ CourierGoes("send", "flag")
          /\ result' = "reject"
          /\ UNCHANGED <<answer, up>>
       \/ /\ ~over /\ CourierGoes("send", "wait")
          /\ answer' = "none" /\ up' = Append(up, carrying)
          /\ UNCHANGED result
    /\ UNCHANGED <<pipeVars, carrying, termination, late>>

CourierTakes ==
    /\ CourierGoes("wait", "flag") /\ answer # "none"
    /\ result' = answer
    /\ UNCHANGED <<pipeVars, carrying, answer, up, termination, late>>

\* Mutant: a wait given up answers with the slot as it is.
CourierGivesUpEmpty ==
    /\ CourierGoes("wait", "flag") /\ answer = "none"
    /\ result' = answer /\ late' = TRUE
    /\ UNCHANGED <<pipeVars, carrying, answer, up, termination>>

CourierGivesUp ==
    /\ CourierGoes("wait", "flag") /\ answer = "none"
    /\ result' = "reject" /\ late' = TRUE
    /\ UNCHANGED <<pipeVars, carrying, answer, up, termination>>

\* Mutant: a termination accepted is flagged only while the session is open.
CourierFlagsOpen ==
    /\ CourierGoes("flag", "answer")
    /\ termination' = (termination \/ (kind[carrying] = "TERM" /\ result = "accept" /\ ~over))
    /\ UNCHANGED <<pipeVars, carrying, result, answer, up, late>>

CourierFlags ==
    /\ CourierGoes("flag", "answer")
    /\ termination' = (termination \/ (kind[carrying] = "TERM" /\ result = "accept"))
    /\ UNCHANGED <<pipeVars, carrying, result, answer, up, late>>

CourierAnswers ==
    /\ CourierGoes("answer", "read")
    /\ answers' = Append(answers, result)
    /\ UNCHANGED <<requests, carrying, result, answer, up, termination, late>>

Courier == \/ CourierReads \/ CourierSends \/ CourierTakes \/ CourierGivesUp
           \/ CourierFlags \/ CourierAnswers

-----------------------------------------------------------------------------
(* The reader, the daemon, and the launcher's end.                         *)

ReadAck ==
    /\ Free("reader") /\ ~over /\ down # <<>> /\ Head(down) # "exit"
    /\ answer' = Head(down) /\ down' = Tail(down)
    /\ UNCHANGED <<handlerVars, pipeVars, courierVars, up, decision, sessionVars, endVars,
                   jobVars, late>>

\* exit-status, or the end of the connection behind what it still holds.
ReadOver ==
    /\ Free("reader") /\ ~over
    /\ \/ down # <<>> /\ Head(down) = "exit"
       \/ down = <<>> /\ ~connected
    /\ over' = TRUE
    /\ UNCHANGED <<handlerVars, pipeVars, courierVars, answer, wireVars, connected, dexit,
                   drained, endVars, jobVars, late>>

\* The drains are module Session's.  Once the inlets have ended each ends when its sink has
\* taken what is left, and one that is held, or whose sink stalls, may never.
DrainsEnd ==
    /\ Running /\ over /\ ~drained
    /\ drained' = TRUE
    /\ UNCHANGED <<handlerVars, pipeVars, courierVars, answer, wireVars, over, connected, dexit,
                   endVars, jobVars, late>>

DaemonActs ==
    /\ fate = "alive" /\ connected /\ ~dexit
    /\ UNCHANGED <<handlerVars, pipeVars, courierVars, answer, over, connected, drained,
                   endVars, jobVars, late>>

DaemonAnswers ==
    /\ DaemonActs /\ up # <<>>
    /\ \E a \in Answers :
         /\ decision' = [decision EXCEPT ![Head(up)] = a]
         /\ down' = Append(down, a)
    /\ up' = Tail(up)
    /\ UNCHANGED dexit

DaemonExits ==
    /\ DaemonActs
    /\ dexit' = TRUE /\ down' = Append(down, "exit")
    /\ UNCHANGED <<up, decision>>

\* The thread that bounds the session once a termination is flagged: it discards stdout,
\* waits for the grace period, and closes the socket.
MonitorWakes ==
    /\ Running /\ monitor = "watching" /\ termination
    /\ monitor' = "grace"
    /\ UNCHANGED <<handlerVars, pipeVars, courierVars, answer, wireVars, sessionVars,
                   termination, main, fate, jobVars, late>>


MonitorCloses ==
    /\ Running /\ monitor = "grace"
    /\ monitor' = "done" /\ connected' = FALSE
    /\ UNCHANGED <<handlerVars, pipeVars, courierVars, answer, wireVars, over, dexit, drained,
                   termination, main, fate, jobVars, late>>

MainGoes(from, to) ==
    /\ Free("main") /\ main = from /\ main' = to
    /\ UNCHANGED <<handlerVars, pipeVars, courierVars, answer, wireVars, sessionVars,
                   termination, monitor, stopped, resuming, late>>

\* `wait` returns once the outcome is there and every drain is joined.
MainWaits == over /\ drained /\ MainGoes("waiting", "restoring") /\ UNCHANGED <<mode, fate>>

MainRestores == MainGoes("restoring", "ending") /\ mode' = "saved" /\ UNCHANGED fate

\* The flag is loaded once, after the wait.
MainEnds ==
    /\ \/ MainGoes("ending", "dying") /\ termination
       \/ MainGoes("ending", "exiting") /\ ~termination
    /\ UNCHANGED <<mode, fate>>

MainDies == MainGoes("dying", "gone") /\ fate' = "TERM" /\ UNCHANGED mode

MainExits == MainGoes("exiting", "gone") /\ fate' = "exit" /\ UNCHANGED mode

-----------------------------------------------------------------------------
Terminated == fate # "alive" /\ UNCHANGED vars

Handler(t) == \/ HandlerDrains(t) \/ HandlerWrites(t) \/ HandlerReads(t) \/ HandlerGivesUp(t)
              \/ HandlerActs(t) \/ HandlerStops(t)
Reader == ReadAck \/ ReadOver
Monitor == MonitorWakes \/ MonitorCloses
Main == MainWaits \/ MainRestores \/ MainEnds \/ MainDies \/ MainExits

Next == \/ Courier \/ Reader \/ Monitor \/ Main \/ Continue \/ Terminated
        \/ DaemonAnswers \/ DaemonExits \/ DrainsEnd
        \/ \E t \in Handlers : Deliver(t) \/ DeliverCont(t) \/ Handler(t)

Spec == Init /\ [][Next]_vars

\* Threads go on while they can, a wait given up is given up in time, and the shell
\* continues what it stopped; the daemon need not answer nor ever exit, nor the drains end.
Fairness ==
    /\ WF_vars(Courier) /\ WF_vars(Reader) /\ WF_vars(Monitor) /\ WF_vars(Main)
    /\ WF_vars(Continue)
    /\ \A t \in Handlers : WF_vars(Handler(t))

FairSpec == Spec /\ Fairness

-----------------------------------------------------------------------------
TypeOK ==
    /\ kind \in Seq({"TERM", "INT", "WINCH", "TSTP", "CONT"}) /\ Len(kind) <= Signals
    /\ handler \in [Handlers -> {"idle", "drain", "write", "poll", "act", "stop"}]
    /\ on \in [Handlers -> 0..Signals]
    /\ got \in [Ids -> Answers \cup {"none", "timeout"}]
    /\ requests \in Seq(Ids) /\ answers \in Seq(Answers)
    /\ courier \in {"read", "send", "wait", "flag", "answer"} /\ carrying \in 0..Signals
    /\ result \in Answers \cup {"none"} /\ answer \in Answers \cup {"none"}
    /\ up \in Seq(Ids) /\ down \in Seq(Answers \cup {"exit"})
    /\ decision \in [Ids -> Answers \cup {"none"}]
    /\ over \in BOOLEAN /\ connected \in BOOLEAN /\ dexit \in BOOLEAN
    /\ drained \in BOOLEAN
    /\ termination \in BOOLEAN /\ monitor \in {"watching", "grace", "done"}
    /\ main \in {"waiting", "restoring", "ending", "dying", "exiting", "gone"}
    /\ fate \in {"alive", "exit", "TERM", "INT"}
    /\ mode \in {"raw", "saved"} /\ stopped \in BOOLEAN /\ resuming \in BOOLEAN
    /\ late \in BOOLEAN /\ crossed \in BOOLEAN /\ away \subseteq Ids

\* launcher.md, Signals, the table: what a handler does follows what the daemon decided of
\* its own signal.
OwnAnswer ==
    \A i \in Ids : got[i] = "accept" => decision[i] = "accept"

\* OwnAnswer as far as it holds: while every answer has come in time, and no handler has begun
\* while another thread's was running - as one may, though signals.rs:187-188 says that signals
\* are masked "so one request and its answer are never interleaved with another's": the mask is
\* the handler's thread's own.  The two pipes and the slot between them carry no name of the
\* signal they are about, and either is enough for one signal to take another's answer.
OwnAnswerInTime == ~late /\ ~crossed => OwnAnswer

\* launcher.md, Exit status: a launcher "that was terminated by a signal dies of that signal,
\* as above, whatever status the daemon then reports" - as far as it holds: of a TERM whose
\* handler ran on main, while every answer has come in time and no two handlers were at work at
\* once.  Main loads the flag once, and a handler on another thread does not keep it from
\* passing there first.
TermDiesInTime ==
    ~late /\ ~crossed /\ fate = "exit"
      => \A i \in 1..Len(kind) \ away : ~(kind[i] = "TERM" /\ decision[i] = "accept")


=============================================================================
