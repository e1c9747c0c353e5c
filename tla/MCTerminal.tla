----------------------------- MODULE MCTerminal -----------------------------
(***************************************************************************)
(* Terminal for TLC: the session is one of three scenes, chosen at first,  *)
(* that differ in what may happen.                                         *)
(***************************************************************************)
EXTENDS Terminal

VARIABLE scene

sceneVars == <<scene, vars>>

\* The application goes on taking its stdin, and ends no output before its time.
StaysOpen == ~DaemonCloses /\ \A s \in Outputs : ~DaemonEnds(s)

StaysForeground ==
    \A r \in Runners : runner[r] = "raw" /\ runner'[r] # "raw" => mode' = "raw"

-----------------------------------------------------------------------------
\* Command after command beside an output, with the terminal or the connection lost.
Commands == StaysOpen /\ StaysForeground /\ dmodes' = 0

\* Command after command on a terminal whose mode the application sets, with the launcher put
\* in the background; nothing is written.
Typing == StaysOpen /\ connected' /\ \A s \in Outputs : dwritten'[s] = 0

\* One command, with stdin refused and the output ended.
Refused == StaysForeground /\ connected' /\ dmodes' = 0 /\ druns' <= 1

ScenesInit == Init /\ scene \in {"commands", "typing", "refused"}

ScenesNext ==
    /\ UNCHANGED scene
    /\ Next
    /\ \/ scene = "commands" /\ Commands
       \/ scene = "typing" /\ Typing
       \/ scene = "refused" /\ Refused

ScenesSpec == ScenesInit /\ [][ScenesNext]_sceneVars /\ Fairness
=============================================================================
