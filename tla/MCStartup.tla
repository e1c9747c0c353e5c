----------------------------- MODULE MCStartup -----------------------------
(***************************************************************************)
(* Startup for TLC: one invocation after another with many faults, or one  *)
(* more beside them at any moment with few, as is chosen at first.         *)
(***************************************************************************)
EXTENDS Startup

CONSTANT
    FaultsTogether  \* bound: how many faults happen where invocations meet

VARIABLE alone

aloneVars == <<alone, vars>>

\* Built once.
Built == <<[content |-> 1, size |-> 1]>>

\* Touched; rebuilt to the same size; rebuilt to another.
Rebuilt == <<[content |-> 1, size |-> 1], [content |-> 1, size |-> 1],
             [content |-> 2, size |-> 1], [content |-> 3, size |-> 2]>>

-----------------------------------------------------------------------------
AloneInit == Init /\ alone \in BOOLEAN /\ invoked = IF alone THEN Once ELSE {}

\* Nobody is killed.
OneByOne == \A l \in Launchers : ~Killed(l)

\* The executable stays as it is.
Together == script' = script /\ reused' = {} /\ faults' <= FaultsTogether

AloneNext ==
    /\ UNCHANGED alone
    /\ \/ alone /\ Next /\ OneByOne
       \/ ~alone /\ Next /\ Together

AloneSpec == AloneInit /\ [][AloneNext]_aloneVars /\ Fairness

-----------------------------------------------------------------------------
\* layout.md, Staleness: an application invoked again and again is served by the executable as
\* it is now, whatever it was rebuilt from and however it was touched, where no two invocations
\* meet and no launcher is killed: the record, the socket and the pid a launcher finds may else
\* be three daemons'.
ServedFresh ==
    alone => \A l \in Launchers \ Once :
        []<>(/\ phase[l] = "connected" /\ mine[l] # 0
             /\ Scripts[version[mine[l]]].content = Scripts[script].content)
=============================================================================
