------------------------------- MODULE Launch -------------------------------
(***************************************************************************)
(* The wait for a daemon to come up (launch.rs, await_startup; progress.rs)*)
(* by the launcher that holds the lock and spawns it and by others that    *)
(* found the lock held, and the wrapper between the spawner and java       *)
(* (wrapper.rs). The clock counts polls: every launcher that waits polls   *)
(* once between two ticks.                                                 *)
(***************************************************************************)
EXTENDS Integers

CONSTANTS
    Spawner,            \* the launcher that holds the lock
    Waiters,            \* launchers that wait on its daemon
    STARTUP_IDLE_LIMIT, \* polls without progress after which a daemon is presumed hung
    Reports,            \* bound: the reports of progress a bootstrap makes
    MaxClock            \* bound: how far the clock goes

ASSUME LaunchAssumption ==
    /\ STARTUP_IDLE_LIMIT \in Nat \ {0} /\ Reports \in Nat /\ MaxClock \in Nat
    /\ Spawner \notin Waiters

VARIABLES
    clock,
    progressFile,   \* Missing, Torn, or the number of the report it holds
    bound,          \* whether the socket is ready
    failFile,       \* whether the fail file is there
    wrapper,        \* "unborn", "starting", "bare" (java runs, no handlers), "handling", "exited"
    java,           \* "unborn", "running", "asked" (a signal was forwarded) or "exited"
    wait,           \* wait[w]: where in await_startup w is, its Outcome, "gone" or "killed"
    lastSeen,       \* lastSeen[w], lastChange[w]: the Watch of w
    lastChange,
    reports,        \* reports made
    changedAt,      \* when the progress in the file last changed
    doomedAt,       \* when the wrapper died, or a fail file was left, with no socket yet, or Never
    orphaned        \* whether the wrapper was killed while java ran (these three are history)

fileVars == <<progressFile, reports, changedAt>>
processVars == <<wrapper, java, orphaned, doomedAt>>
watchVars == <<wait, lastSeen, lastChange>>
launchVars == <<clock, fileVars, bound, failFile, processVars, watchVars>>

Launching == {Spawner} \cup Waiters
Outcomes == {"Bound", "Failed", "Exited", "Idle"}
Polling == {"polling", "unbound", "looked", "checked", "asleep"}
Never == -1
Missing == 0
Torn == -1

\* progress::read: a file that is missing, or does not parse, shows no progress.
Progress(content) == IF content = Torn THEN Missing ELSE content

\* The wrapper dies, or a fail file is left: for those who wait, whose spawner may have been
\* killed before it could leave one, the last of these counts.
Doomed ==
    LET unseen == wait[Spawner] = "killed" /\ ~failFile
    IN  doomedAt' = IF (doomedAt = Never \/ unseen) /\ ~bound THEN clock ELSE doomedAt

LaunchInit ==
    /\ clock = 0 /\ bound = FALSE /\ failFile = FALSE
    /\ progressFile = Missing /\ reports = 0 /\ changedAt = Never
    /\ wrapper = "unborn" /\ java = "unborn" /\ orphaned = FALSE /\ doomedAt = Never
    /\ wait = [w \in Launching |-> IF w = Spawner THEN "locked" ELSE "unborn"]
    /\ lastSeen = [w \in Launching |-> Missing]
    /\ lastChange = [w \in Launching |-> 0]

\* The file of a bootstrap that died is there before the spawner has got to removing it.
Leftover ==
    /\ clock = 0 /\ reports = 0 /\ Reports > 0
    /\ wrapper = "unborn" /\ \A w \in Waiters : wait[w] = "unborn"
    /\ progressFile' = 1 /\ reports' = 1
    /\ UNCHANGED <<clock, bound, failFile, changedAt, processVars, watchVars>>

-----------------------------------------------------------------------------
\* await_startup begins, with a new Watch.
Begins(w) ==
    /\ wait' = [wait EXCEPT ![w] = "polling"]
    /\ lastSeen' = [lastSeen EXCEPT ![w] = Missing]
    /\ lastChange' = [lastChange EXCEPT ![w] = clock]
    /\ doomedAt' = IF failFile THEN clock ELSE doomedAt

\* Java has been found, or downloaded, and any file left over goes before the spawn.
Spawn ==
    /\ wait[Spawner] = "locked"
    /\ progressFile' = Missing
    /\ changedAt' = IF progressFile = Missing THEN changedAt ELSE clock
    /\ wrapper' = "starting"
    /\ Begins(Spawner)
    /\ UNCHANGED <<clock, bound, failFile, reports, java, orphaned>>

Turns(w, to) == wait' = [wait EXCEPT ![w] = to] /\ UNCHANGED <<lastSeen, lastChange>>

\* No Java, before the file left over has gone, or no process, after.
CannotSpawn ==
    /\ wait[Spawner] = "locked"
    /\ progressFile' \in {progressFile, Missing}
    /\ changedAt' = IF progressFile' = progressFile THEN changedAt ELSE clock
    /\ failFile' = TRUE /\ Doomed
    /\ Turns(Spawner, "gone")
    /\ UNCHANGED <<clock, bound, reports, wrapper, java, orphaned>>

Join(w) ==
    /\ w \in Waiters /\ wait[w] = "unborn" /\ wait[Spawner] \in {"locked"} \cup Polling
    /\ Begins(w)
    /\ UNCHANGED <<clock, fileVars, bound, failFile, wrapper, java, orphaned>>

LooksForSocket(w) ==
    /\ wait[w] = "polling"
    /\ Turns(w, IF bound THEN "Bound" ELSE "unbound")
    /\ UNCHANGED <<clock, fileVars, bound, failFile, processVars>>

LooksForFailure(w) ==
    /\ wait[w] = "unbound"
    /\ Turns(w, IF failFile THEN "Failed" ELSE "looked")
    /\ UNCHANGED <<clock, fileVars, bound, failFile, processVars>>

\* Mutant: the socket is not looked at again once the child is known to be dead.
ChecksChildOnly(w) ==
    /\ wait[w] = "looked"
    /\ Turns(w, IF w = Spawner /\ wrapper = "exited" THEN "Exited" ELSE "checked")
    /\ UNCHANGED <<clock, fileVars, bound, failFile, processVars>>

\* Only the spawner has a child to look at, and its child is the wrapper.
ChecksChild(w) ==
    /\ wait[w] = "looked"
    /\ Turns(w, IF w = Spawner /\ wrapper = "exited" /\ ~bound THEN "Exited" ELSE "checked")
    /\ UNCHANGED <<clock, fileVars, bound, failFile, processVars>>

\* Mutant: a file that is gone is not a change.
ObserveUnlessMissing(w) ==
    LET current == Progress(progressFile) IN
    /\ lastSeen' = [lastSeen EXCEPT ![w] = IF current = Missing THEN @ ELSE current]
    /\ lastChange' = [lastChange EXCEPT
           ![w] = IF current \in {lastSeen[w], Missing} THEN @ ELSE clock]

\* Watch::observe.
Observe(w) ==
    /\ lastSeen' = [lastSeen EXCEPT ![w] = Progress(progressFile)]
    /\ lastChange' = [lastChange EXCEPT
           ![w] = IF Progress(progressFile) = lastSeen[w] THEN @ ELSE clock]

\* Watch::expired, of the change just observed.
Expired(w) == clock - lastChange'[w] >= STARTUP_IDLE_LIMIT

Watches(w) ==
    /\ wait[w] = "checked"
    /\ Observe(w)
    /\ wait' = [wait EXCEPT ![w] = IF Expired(w) THEN "Idle" ELSE "asleep"]
    /\ UNCHANGED <<clock, fileVars, bound, failFile, processVars>>

\* Mutant: no fail file is left of a daemon that exited.
ConcludesQuietly(w) ==
    /\ wait[w] \in Outcomes
    /\ Turns(w, "gone")
    /\ failFile' = (failFile \/ wait[w] \in {"Failed", "Idle"})
    /\ IF wait[w] = "Bound" THEN UNCHANGED doomedAt ELSE Doomed
    /\ progressFile' = IF w = Spawner THEN Missing ELSE progressFile
    /\ UNCHANGED <<clock, reports, changedAt, bound, wrapper, java, orphaned>>

\* What a launcher does of an outcome: the spawner removes the progress file; for want of a
\* socket both leave the fail file, whereupon they end.
Concludes(w) ==
    /\ wait[w] \in Outcomes
    /\ Turns(w, "gone")
    /\ failFile' = (failFile \/ wait[w] # "Bound")
    /\ IF wait[w] = "Bound" THEN UNCHANGED doomedAt ELSE Doomed
    /\ progressFile' = IF w = Spawner THEN Missing ELSE progressFile
    /\ UNCHANGED <<clock, reports, changedAt, bound, wrapper, java, orphaned>>

\* The spawner is killed, and nobody is left who knows the wrapper.
SpawnerKilled ==
    /\ wait[Spawner] \in Polling
    /\ Turns(Spawner, "killed")
    /\ UNCHANGED <<clock, fileVars, bound, failFile, processVars>>

Tick ==
    /\ clock < MaxClock
    /\ \A w \in Launching : wait[w] \in {"unborn", "locked", "asleep", "gone", "killed"}
    /\ clock' = clock + 1
    /\ wait' = [w \in Launching |-> IF wait[w] = "asleep" THEN "polling" ELSE wait[w]]
    /\ UNCHANGED <<fileVars, bound, failFile, processVars, lastSeen, lastChange>>

-----------------------------------------------------------------------------
\* The wrapper spawns java, or cannot.
WrapperSpawns ==
    /\ wrapper = "starting"
    /\ \/ wrapper' = "bare" /\ java' = "running" /\ UNCHANGED doomedAt
       \/ wrapper' = "exited" /\ Doomed /\ UNCHANGED java
    /\ UNCHANGED <<clock, fileVars, bound, failFile, orphaned, watchVars>>

InstallHandlers ==
    /\ wrapper = "bare"
    /\ wrapper' = "handling"
    /\ UNCHANGED <<clock, fileVars, bound, failFile, java, orphaned, doomedAt, watchVars>>

\* TERM, INT or HUP for the wrapper, whose handler passes it on to java.
Forward ==
    /\ wrapper = "handling" /\ java = "running"
    /\ java' = "asked"
    /\ UNCHANGED <<clock, fileVars, bound, failFile, wrapper, orphaned, doomedAt, watchVars>>

\* KILL at any time, or one of those before the handlers are there.
WrapperKilled ==
    /\ wrapper \in {"starting", "bare", "handling"}
    /\ wrapper' = "exited" /\ Doomed
    /\ orphaned' = (orphaned \/ java \in {"running", "asked"})
    /\ UNCHANGED <<clock, fileVars, bound, failFile, java, watchVars>>

WrapperReaps ==
    /\ wrapper = "handling" /\ java = "exited"
    /\ wrapper' = "exited" /\ Doomed
    /\ UNCHANGED <<clock, fileVars, bound, failFile, java, orphaned, watchVars>>

JavaExits ==
    /\ java \in {"running", "asked"}
    /\ java' = "exited"
    /\ UNCHANGED <<clock, fileVars, bound, failFile, wrapper, orphaned, doomedAt, watchVars>>

JavaBinds ==
    /\ java = "running" /\ ~bound
    /\ bound' = TRUE
    /\ UNCHANGED <<clock, fileVars, failFile, processVars, watchVars>>

\* The bootstrap reports, in part or whole, or has done: what the file shows stands for
\* longer than a poll.
JavaReports ==
    /\ java = "running" /\ ~bound
    /\ \/ reports < Reports /\ reports' = reports + 1 /\ progressFile' \in {Torn, reports'}
       \/ progressFile' \in {Missing, reports} /\ UNCHANGED reports
    /\ LET shows == Progress(progressFile') # Progress(progressFile) IN
         /\ shows => clock > changedAt + 1
         /\ changedAt' = IF shows THEN clock ELSE changedAt
    /\ UNCHANGED <<clock, bound, failFile, processVars, watchVars>>

LaunchNext ==
    \/ Leftover \/ Spawn \/ CannotSpawn \/ SpawnerKilled \/ Tick
    \/ \E w \in Launching :
         \/ Join(w) \/ LooksForSocket(w) \/ LooksForFailure(w) \/ ChecksChild(w)
         \/ Watches(w) \/ Concludes(w)
    \/ WrapperSpawns \/ InstallHandlers \/ Forward \/ WrapperKilled \/ WrapperReaps
    \/ JavaExits \/ JavaBinds \/ JavaReports

LaunchSpec == LaunchInit /\ [][LaunchNext]_launchVars

-----------------------------------------------------------------------------
\* A daemon is presumed hung only when nothing it reports has changed for the whole limit,
\* its report's disappearance included, and is waited for no longer than that from the last
\* change seen (launch.rs:10-15, progress.rs:60-62).
IdleWindow ==
    /\ [][\A w \in Launching :
            wait[w] = "checked" /\ wait'[w] = "Idle" /\ ~failFile /\ ~bound =>
                clock - changedAt >= STARTUP_IDLE_LIMIT]_launchVars
    /\ [](\A w \in Launching :
            wait[w] \in Polling => clock - lastChange[w] <= STARTUP_IDLE_LIMIT)

\* A start that fails is known at once to every launcher that waits: to the spawner by its
\* child or the fail file, to the others by the fail file the spawner leaves.
Together ==
    \A w \in Launching :
        wait[w] \in Polling /\ doomedAt # Never /\ ~bound =>
            \/ clock <= doomedAt + 2
            \/ ~failFile /\ wait[Spawner] = "killed"

\* The spawner says that the daemon exited only if none is left that may still come up,
\* the wrapper having been killed apart (launch.rs:157-163, wrapper.rs:33-35).
ExitedMeansGone ==
    wait[Spawner] = "Exited" /\ ~orphaned => ~bound /\ java \in {"unborn", "exited"}
=============================================================================
