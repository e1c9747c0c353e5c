------------------------------ MODULE Startup ------------------------------
(***************************************************************************)
(* How an invocation finds its daemon, or starts one: `backout`,           *)
(* `check_state`, the lock, `launch` and `await_startup`, and the files    *)
(* of the state directory that launchers and daemons meet in (main.rs,     *)
(* state.rs, launch.rs).                                                   *)
(*                                                                         *)
(* A step reads or changes the files of one decision of the code, and the  *)
(* decision is carried to the next step.  A daemon is known by its process *)
(* id; the executable by its version, of which the launcher sees the size  *)
(* and the time, and only the daemon the content.  `acceptance` goes with  *)
(* `build` and is not told from it.  Time is not modelled: a bounded wait  *)
(* that changes nothing is no step, and the others may be given up.  A     *)
(* file is whole when it is read: a pid or a record that cannot be parsed  *)
(* is not modelled.                                                        *)
(***************************************************************************)
EXTENDS Integers, Sequences, FiniteSets

CONSTANTS
    Launchers,      \* invocations there may be at once
    Once,           \* those of them that happen once at most
    Daemons,        \* bound: process ids daemons may have
    Scripts,        \* bound: the executable's versions, of `content` and `size`
    Faults,         \* which of the faults below may happen
    FaultLimit,     \* bound: how many faults happen
    Nobody          \* no launcher

\* "kill": a launcher is killed; "java": there is no JVM, or it cannot be spawned; "crash": a
\* daemon dies, its files left; "exit": it exits, its files removed; "start": it fails to
\* start; "idle": it binds later than a launcher waits; "mute": it does not answer `verify`
\* in time; "reuse": another process has the id of one that died.
ASSUME StartupAssumption ==
    /\ Once \subseteq Launchers /\ Nobody \notin Launchers /\ IsFiniteSet(Launchers)
    /\ Daemons \in Nat /\ FaultLimit \in Nat
    /\ Faults \subseteq {"kill", "java", "crash", "exit", "start", "idle", "mute", "reuse"}
    /\ Scripts \in Seq([content : Nat, size : Nat]) /\ Scripts # <<>>

VARIABLES
    pid, build, socket, fail, lock,     \* the state directory
    script,                             \* the executable
    phase, mine, invoked,               \* the launchers
    daemon, version, reused,            \* the daemons
    faults                              \* how many faults have happened

fileVars     == <<pid, build, socket, fail>>
launcherVars == <<phase, mine, invoked, lock>>
daemonVars   == <<daemon, version, reused>>
vars == <<fileVars, script, launcherVars, daemonVars, faults>>

Ids == 1..Daemons
Versions == 1..Len(Scripts)

Init ==
    /\ pid = 0 /\ build = 0 /\ socket = 0 /\ fail = "none" /\ lock = Nobody
    /\ script = 1
    /\ phase = [l \in Launchers |-> "idle"] /\ mine = [l \in Launchers |-> 0]
    /\ invoked \in SUBSET Once    \* of those that happen once, some never do
    /\ daemon = [d \in Ids |-> "none"] /\ version = [d \in Ids |-> 1] /\ reused = {}
    /\ faults = 0

\* A launcher reaps the child it awaits, and init the others.
ProcessAlive(d) == daemon[d] # "none" \/ d \in reused
Accepts(d) == d # 0 /\ daemon[d] \in {"bound", "recorded"}

May(f) == f \in Faults /\ faults < FaultLimit

Resting == {"idle", "connected", "failed", "unreachable"}

Goes(l, from, to) ==
    /\ phase[l] = from
    /\ phase' = [phase EXCEPT ![l] = to]

\* The process is gone, and its lock with it.
Exits(l) ==
    /\ phase' = [phase EXCEPT ![l] = "failed"] /\ mine' = [mine EXCEPT ![l] = 0]
    /\ lock' = IF lock = l THEN Nobody ELSE lock

-----------------------------------------------------------------------------
(* backout                                                                 *)

Backout(l, from, to) ==
    /\ \/ /\ Goes(l, from, to) /\ fail \in {"none", "old"}
          /\ fail' = "none"
          /\ UNCHANGED <<lock, mine>>
       \/ /\ Goes(l, from, to) /\ fail = "recent" /\ pid # 0
          /\ UNCHANGED <<fail, lock, mine>>
       \/ /\ phase[l] = from /\ fail = "recent" /\ pid = 0
          /\ Exits(l)
          /\ UNCHANGED fail
    /\ UNCHANGED <<pid, build, socket, script, invoked, daemonVars, faults>>

Invokes(l) ==
    /\ phase[l] \in Resting /\ (l \in Once => l \notin invoked)
    /\ phase' = [phase EXCEPT ![l] = "backout"]
    /\ mine' = [mine EXCEPT ![l] = 0]
    /\ invoked' = invoked \cup {l}
    /\ UNCHANGED <<fileVars, script, lock, daemonVars, faults>>

BacksOutFirst(l) == Backout(l, "backout", "check")

-----------------------------------------------------------------------------
(* check_state                                                             *)

ReadsPid(l) ==
    /\ Goes(l, "check", IF pid = 0 THEN "clear" ELSE "probe")
    /\ mine' = [mine EXCEPT ![l] = pid]
    /\ UNCHANGED <<fileVars, script, invoked, lock, daemonVars, faults>>

\* clear_daemon_files
Clears(l) ==
    /\ Goes(l, "clear", "ask")
    /\ build' = 0 /\ socket' = 0
    /\ UNCHANGED <<pid, fail, script, mine, invoked, lock, daemonVars, faults>>

Probes(l) ==
    /\ Goes(l, "probe",
            IF ~ProcessAlive(mine[l]) \/ (socket # 0 /\ ~Accepts(socket))
            THEN "displace" ELSE "record")
    /\ mine' = [mine EXCEPT ![l] = 0]
    /\ UNCHANGED <<fileVars, script, invoked, lock, daemonVars, faults>>

\* Mutant: the pid of a daemon displaced is left.
DisplacesFiles(l) ==
    /\ Goes(l, "displace", "ask")
    /\ build' = 0 /\ socket' = 0
    /\ UNCHANGED <<pid, fail, script, mine, invoked, lock, daemonVars, faults>>

Displaces(l) ==
    /\ Goes(l, "displace", "ask")
    /\ pid' = 0 /\ build' = 0 /\ socket' = 0
    /\ UNCHANGED <<fail, script, mine, invoked, lock, daemonVars, faults>>

\* Mutant: what was touched is taken for unchanged, as long as it has its size.
ComparesSizes(l) ==
    /\ \/ build = 0 /\ Goes(l, "record", "ask")
       \/ /\ build # 0 /\ Scripts[build].size = Scripts[script].size
          /\ Goes(l, "record", "ask")
       \/ /\ build # 0 /\ Scripts[build].size # Scripts[script].size
          /\ Goes(l, "record", "displace")
    /\ UNCHANGED <<fileVars, script, mine, invoked, lock, daemonVars, faults>>

\* freshness.  Where there is no record, it is waited for, and not read.
Compares(l) ==
    /\ \/ build = 0 /\ Goes(l, "record", "ask")
       \/ build = script /\ Goes(l, "record", "ask")
       \/ /\ build \notin {0, script} /\ Scripts[build].size # Scripts[script].size
          /\ Goes(l, "record", "displace")
       \/ /\ build \notin {0, script} /\ Scripts[build].size = Scripts[script].size
          /\ Goes(l, "record", "verify")
    /\ UNCHANGED <<fileVars, script, mine, invoked, lock, daemonVars, faults>>

\* A daemon that finds itself stale says so, and drains.
Verifies(l) ==
    /\ \/ /\ ~Accepts(socket) /\ Goes(l, "verify", "ask")
          /\ UNCHANGED <<daemon, faults>>
       \/ /\ Accepts(socket) /\ May("mute") /\ Goes(l, "verify", "ask")
          /\ faults' = faults + 1
          /\ UNCHANGED daemon
       \/ /\ Accepts(socket) /\ Scripts[version[socket]].content = Scripts[script].content
          /\ Goes(l, "verify", "ask")
          /\ UNCHANGED <<daemon, faults>>
       \/ /\ Accepts(socket) /\ Scripts[version[socket]].content # Scripts[script].content
          /\ Goes(l, "verify", "dying")
          /\ daemon' = [daemon EXCEPT ![socket] = "draining"]
          /\ UNCHANGED faults
    /\ UNCHANGED <<fileVars, script, mine, invoked, lock, version, reused>>

\* Its death is waited for, in vain if need be: it may have a long job in flight.
Buries(l) ==
    /\ Goes(l, "dying", "ask")
    /\ pid' = 0 /\ build' = 0 /\ socket' = 0
    /\ UNCHANGED <<fail, script, mine, invoked, lock, daemonVars, faults>>

-----------------------------------------------------------------------------
(* main: the lock is asked for only where there is no pid, which is looked *)
(* at before, and never again.                                             *)

Asks(l) ==
    /\ Goes(l, "ask", IF pid = 0 THEN "lock" ELSE "last")
    /\ UNCHANGED <<fileVars, script, mine, invoked, lock, daemonVars, faults>>

\* Mutant: the lock is dropped as soon as it is taken.
LocksAndDrops(l) ==
    /\ Goes(l, "lock", IF lock = Nobody THEN "launch" ELSE "await")
    /\ UNCHANGED <<fileVars, script, mine, invoked, lock, daemonVars, faults>>

Locks(l) ==
    /\ \/ lock = Nobody /\ Goes(l, "lock", "launch") /\ lock' = l
       \/ lock # Nobody /\ Goes(l, "lock", "await") /\ UNCHANGED lock
    /\ UNCHANGED <<fileVars, script, mine, invoked, daemonVars, faults>>

-----------------------------------------------------------------------------
(* launch                                                                  *)

Spawns(l) ==
    /\ Goes(l, "launch", "write")
    /\ \E d \in Ids :
         /\ daemon[d] = "none" /\ d \notin reused \cup {pid, socket}
         /\ daemon' = [daemon EXCEPT ![d] = "starting"]
         /\ version' = [version EXCEPT ![d] = script]
         /\ mine' = [mine EXCEPT ![l] = d]
    /\ UNCHANGED <<fileVars, script, invoked, lock, reused, faults>>

SpawnsNothing(l) ==
    /\ phase[l] = "launch" /\ May("java")
    /\ fail' = "recent" /\ faults' = faults + 1
    /\ Exits(l)
    /\ UNCHANGED <<pid, build, socket, script, invoked, daemonVars>>

\* Mutant: the pid is written before there is one.
WritesPidEarly(l) ==
    /\ Goes(l, "write", "child")
    /\ pid' = mine[l] + 1
    /\ UNCHANGED <<build, socket, fail, script, mine, invoked, lock, daemonVars, faults>>

WritesPid(l) ==
    /\ Goes(l, "write", "child")
    /\ pid' = mine[l]
    /\ UNCHANGED <<build, socket, fail, script, mine, invoked, lock, daemonVars, faults>>

\* await_startup: any socket will do.
AwaitsBound(l) ==
    /\ socket # 0
    /\ Goes(l, "child", "bound") \/ Goes(l, "await", "last")
    /\ mine' = [mine EXCEPT ![l] = 0]
    /\ UNCHANGED <<fileVars, script, invoked, lock, daemonVars, faults>>

\* The wait is given up while nothing is starting, or against one that is slow to.
AwaitsInVain(l) ==
    /\ phase[l] \in {"child", "await"} /\ socket = 0
    /\ \/ /\ \/ fail # "none"
             \/ phase[l] = "child" /\ ~ProcessAlive(mine[l])
             \/ \A d \in Ids : daemon[d] # "starting"
          /\ UNCHANGED faults
       \/ May("idle") /\ faults' = faults + 1
    /\ fail' = "recent"
    /\ Exits(l)
    /\ UNCHANGED <<pid, build, socket, script, invoked, daemonVars>>

BacksOutBound(l) == Backout(l, "bound", "unlock")

Unlocks(l) ==
    /\ Goes(l, "unlock", "last")
    /\ lock' = IF lock = l THEN Nobody ELSE lock
    /\ UNCHANGED <<fileVars, script, mine, invoked, daemonVars, faults>>

-----------------------------------------------------------------------------
(* main, to the connection                                                 *)

BacksOutLast(l) == Backout(l, "last", "connect")

\* The probe and the connection are one step here.
Connects(l) ==
    /\ Goes(l, "connect", IF Accepts(socket) THEN "connected" ELSE "unreachable")
    /\ mine' = [mine EXCEPT ![l] = IF Accepts(socket) THEN socket ELSE 0]
    /\ UNCHANGED <<fileVars, script, invoked, lock, daemonVars, faults>>

Killed(l) ==
    /\ phase[l] \notin Resting /\ May("kill")
    /\ Exits(l) /\ faults' = faults + 1
    /\ UNCHANGED <<fileVars, script, invoked, daemonVars>>

-----------------------------------------------------------------------------
(* The daemons, as layout.md has them.                                     *)

\* layout.md says the daemon writes `pid`; the launcher does not count on it.
DaemonBinds(d) ==
    /\ daemon[d] = "starting"
    /\ daemon' = [daemon EXCEPT ![d] = "bound"]
    /\ socket' = d
    /\ pid' \in {pid, d}
    /\ UNCHANGED <<build, fail, script, launcherVars, version, reused, faults>>

DaemonRecords(d) ==
    /\ daemon[d] = "bound"
    /\ daemon' = [daemon EXCEPT ![d] = "recorded"]
    /\ build' = version[d]
    /\ UNCHANGED <<pid, socket, fail, script, launcherVars, version, reused, faults>>

Dies(d) ==
    /\ daemon' = [daemon EXCEPT ![d] = "none"]
    /\ version' = [version EXCEPT ![d] = 1]

DaemonFailsToStart(d) ==
    /\ daemon[d] = "starting" /\ May("start")
    /\ Dies(d)
    /\ fail' \in {fail, "recent"} /\ faults' = faults + 1
    /\ UNCHANGED <<pid, build, socket, script, launcherVars, reused>>

DaemonCrashes(d) ==
    /\ daemon[d] \in {"bound", "recorded"} /\ May("crash")
    /\ Dies(d)
    /\ faults' = faults + 1
    /\ UNCHANGED <<fileVars, script, launcherVars, reused>>

\* It removes the files that are its own.
Leaves(d) ==
    /\ Dies(d)
    /\ pid' = IF pid = d THEN 0 ELSE pid
    /\ socket' = IF socket = d THEN 0 ELSE socket
    /\ build' = IF socket = d THEN 0 ELSE build
    /\ UNCHANGED <<fail, script, launcherVars, reused>>

DaemonExits(d) ==
    /\ Accepts(d) /\ May("exit")
    /\ Leaves(d) /\ faults' = faults + 1

\* Nobody can reach it, and it is idle; or it has drained.
DaemonLeaves(d) ==
    /\ (Accepts(d) /\ socket # d) \/ daemon[d] = "draining"
    /\ Leaves(d)
    /\ UNCHANGED faults

IdReused(d) ==
    /\ daemon[d] = "none" /\ pid = d /\ d \notin reused /\ May("reuse")
    /\ reused' = reused \cup {d} /\ faults' = faults + 1
    /\ UNCHANGED <<fileVars, script, launcherVars, daemon, version>>

IdFreed(d) ==
    /\ d \in reused
    /\ reused' = reused \ {d}
    /\ UNCHANGED <<fileVars, script, launcherVars, daemon, version, faults>>

-----------------------------------------------------------------------------
Rebuild ==
    /\ \E v \in Versions : v > script /\ script' = v
    /\ UNCHANGED <<fileVars, launcherVars, daemonVars, faults>>

\* Two seconds have passed.
FailAges ==
    /\ fail = "recent"
    /\ fail' = "old"
    /\ UNCHANGED <<pid, build, socket, script, launcherVars, daemonVars, faults>>

Launcher(l) ==
    \/ BacksOutFirst(l) \/ ReadsPid(l) \/ Clears(l) \/ Probes(l) \/ Displaces(l)
    \/ Compares(l) \/ Verifies(l) \/ Buries(l) \/ Asks(l) \/ Locks(l) \/ Spawns(l)
    \/ SpawnsNothing(l) \/ WritesPid(l) \/ AwaitsBound(l) \/ AwaitsInVain(l)
    \/ BacksOutBound(l) \/ Unlocks(l) \/ BacksOutLast(l) \/ Connects(l)
Daemon(d) == DaemonBinds(d) \/ DaemonRecords(d) \/ DaemonLeaves(d)
Fault(d) == DaemonFailsToStart(d) \/ DaemonCrashes(d) \/ DaemonExits(d) \/ IdReused(d)

Next == \/ Rebuild \/ FailAges
        \/ \E l \in Launchers : Invokes(l) \/ Launcher(l) \/ Killed(l)
        \/ \E d \in Ids : Daemon(d) \/ Fault(d) \/ IdFreed(d)

Spec == Init /\ [][Next]_vars

\* Processes go on while they can; time passes; the user invokes the application again.
Fairness ==
    /\ WF_vars(FailAges)
    /\ \A l \in Launchers : WF_vars(Launcher(l)) /\ WF_vars(Invokes(l))
    /\ \A d \in Ids : WF_vars(Daemon(d)) /\ WF_vars(IdFreed(d))

FairSpec == Spec /\ Fairness

-----------------------------------------------------------------------------
Phases == Resting \cup {"backout", "check", "clear", "probe", "displace", "record", "verify",
                        "dying", "ask", "lock", "launch", "write", "child", "await", "bound",
                        "unlock", "last", "connect"}

TypeOK ==
    /\ pid \in 0..Daemons /\ build \in {0} \cup Versions /\ socket \in 0..Daemons
    /\ fail \in {"none", "recent", "old"} /\ lock \in Launchers \cup {Nobody}
    /\ script \in Versions
    /\ phase \in [Launchers -> Phases] /\ mine \in [Launchers -> 0..Daemons]
    /\ invoked \subseteq Launchers
    /\ daemon \in [Ids -> {"none", "starting", "bound", "recorded", "draining"}]
    /\ version \in [Ids -> Versions] /\ reused \subseteq Ids
    /\ faults \in 0..FaultLimit

\* main.rs:132-143, launch.rs:98: a launcher holds the lock until its daemon has bound, so no
\* two launchers have daemons on the way at once.
OneStarts ==
    \A l, k \in Launchers :
        phase[l] \in {"write", "child"} /\ phase[k] \in {"write", "child"} => l = k

\* layout.md, Idle exit: "a missing or unresponsive socket means start one, never fail".  State
\* left by launchers and daemons that died, by faults and by concurrent invocations, which
\* may strand a daemon nobody can reach, never keeps an application from being served, if it
\* is invoked again and again.
Served == \A l \in Launchers \ Once : []<>(phase[l] = "connected")

\* layout.md, the files, of `lock`: "Held while starting a daemon, so concurrent invocations
\* start exactly one".
ExactlyOne == Cardinality({d \in Ids : daemon[d] # "none"}) <= 1

=============================================================================
