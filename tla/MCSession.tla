----------------------------- MODULE MCSession -----------------------------
(***************************************************************************)
(* Session for TLC: each of its streams is a Pipe, and the session is one  *)
(* of three scenes, chosen at first, that differ in what may happen; or,   *)
(* with bounds of its own, a whole session under fairness.                 *)
(***************************************************************************)
EXTENDS Session

CONSTANT
    Little          \* bound: bytes read of a descriptor that is written too

VARIABLE scene

sceneVars == <<scene, vars>>

Inbound(s) == INSTANCE Pipe WITH
    CAPACITY <- WINDOW, sent <- dwritten[s], delivered <- output[s],
    eof <- drain[s] = "done", abandoned <- discard[s]

Outbound(s) == INSTANCE Pipe WITH
    CAPACITY <- WINDOW, sent <- carried[s], delivered <- dgot[s],
    eof <- s \in dend, abandoned <- FALSE

\* Each stream of the daemon's is a bounded pipe to the client's descriptor, abandoned only
\* when the descriptor cannot be written or the launcher discards it (launcher.md, Flow
\* control, End of output and Exit status).
InboundPipes ==
    /\ \A s \in In : Inbound(s)!Init
    /\ [][\A s \in In : [Inbound(s)!Next]_(Inbound(s)!vars)]_vars

\* Each stream of the launcher's is a bounded pipe to the daemon: `end` is seen only once all
\* that was carried has been (launcher.md, End of input).
OutboundPipes ==
    /\ \A s \in Out : Outbound(s)!Init
    /\ [][\A s \in Out : [Outbound(s)!Next]_(Outbound(s)!vars)]_vars

-----------------------------------------------------------------------------
\* The invocation's outputs, with all that may befall them; no descriptor is asked for, and
\* stdin is at its end.
OutputsOnly ==
    /\ scene' = "outputs"
    /\ broken' \subseteq Outputs /\ dclosed' = {} /\ \A fd \in Descriptors : dopens'[fd] = 0

\* A descriptor, asked for, ended and closed at any moment; the outputs stay silent.
DescriptorsOnly ==
    /\ connected' /\ broken' = {} /\ dended' \subseteq Writable
    /\ \A s \in Outputs : dwritten'[s] = 0 /\ ~discard'[s]

\* It is read beyond its window.
Reading == scene' = "reading" /\ DescriptorsOnly /\ \A fd \in Writable : dwritten'[fd] = 0

\* It is read, little of it, and a byte is written.
Exchange ==
    /\ scene' = "exchange" /\ DescriptorsOnly
    /\ \A fd \in Writable : dwritten'[fd] <= 1

ScenesInit ==
    /\ Init
    /\ \/ /\ scene = "outputs" /\ pump[Stdin] = "allowance"
          /\ input = [s \in Out |-> 0]
       \/ /\ scene = "reading" /\ pump[Stdin] = "done"
          /\ \A fd \in Readable : input[fd] = Input
       \/ /\ scene = "exchange" /\ pump[Stdin] = "done"
          /\ \A fd \in Readable : input[fd] = Little

ScenesNext ==
    \/ scene = "outputs" /\ Next /\ OutputsOnly
    \/ scene = "reading" /\ Next /\ Reading
    \/ scene = "exchange" /\ Next /\ Exchange

ScenesSpec == ScenesInit /\ [][ScenesNext]_sceneVars

-----------------------------------------------------------------------------
WholeInit == Init /\ scene = "whole"

WholeNext == Next /\ scene' = scene

WholeFairSpec == WholeInit /\ [][WholeNext]_sceneVars /\ Fairness
=============================================================================
