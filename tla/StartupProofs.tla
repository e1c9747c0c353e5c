--------------------------- MODULE StartupProofs ---------------------------
(* Theorems about module Startup: for any set of launchers, that who       *)
(* starts a daemon holds the lock; and for one launcher at a time, that    *)
(* the files it decides by are one daemon's.                               *)
EXTENDS Startup, TLAPS

Starting == {"launch", "write", "child", "bound", "unlock"}

\* OneStarts is not inductive: nothing in it keeps a second launcher from "launch".  The lock
\* does, which is let go nowhere but in "unlock", or with the process.
Holding ==
    /\ phase \in [Launchers -> Phases]
    /\ \A l \in Launchers : phase[l] \in Starting => lock = l

LEMMA HoldingInit == Init => Holding
BY DEF Init, Holding, Phases, Resting, Starting

\* The launchers that take no part in a step keep their place.
LEMMA GoesKeeps ==
    ASSUME Holding, NEW l \in Launchers, NEW from \in Phases, NEW to \in Phases,
           Goes(l, from, to), to \in Starting => from \in Starting, UNCHANGED lock
    PROVE  Holding'
BY DEF Holding, Goes

LEMMA ExitsKeeps ==
    ASSUME Holding, NEW l \in Launchers, Exits(l)
    PROVE  Holding'
<1>1. phase' \in [Launchers -> Phases]
    BY DEF Holding, Exits, Phases, Resting
<1>2. ASSUME NEW k \in Launchers, phase'[k] \in Starting PROVE lock' = k
    <2>1. k # l
        BY <1>2 DEF Holding, Exits, Starting
    <2>2. phase[k] \in Starting /\ lock = k
        BY <1>2, <2>1 DEF Holding, Exits
    <2>. QED
        BY <2>1, <2>2 DEF Exits
<1>. QED
    BY <1>1, <1>2 DEF Holding

LEMMA BackoutKeeps ==
    ASSUME Holding, NEW l \in Launchers, NEW from \in Phases, NEW to \in Phases,
           Backout(l, from, to), to \in Starting => from \in Starting
    PROVE  Holding'
<1>1. CASE Goes(l, from, to) /\ UNCHANGED lock
    BY <1>1, GoesKeeps
<1>2. CASE Exits(l)
    BY <1>2, ExitsKeeps
<1>. QED
    BY <1>1, <1>2 DEF Backout

LEMMA LauncherKeeps ==
    ASSUME Holding, NEW l \in Launchers, Launcher(l)
    PROVE  Holding'
<1>. USE DEF Phases, Resting, Starting
<1>1. CASE BacksOutFirst(l) \/ BacksOutBound(l) \/ BacksOutLast(l)
    BY <1>1, BackoutKeeps DEF BacksOutFirst, BacksOutBound, BacksOutLast
<1>2. CASE ReadsPid(l)
    BY <1>2, GoesKeeps DEF ReadsPid
<1>3. CASE Clears(l)
    BY <1>3, GoesKeeps DEF Clears
<1>4. CASE Probes(l)
    BY <1>4, GoesKeeps DEF Probes
<1>5. CASE Displaces(l)
    BY <1>5, GoesKeeps DEF Displaces
<1>6. CASE Compares(l)
    BY <1>6, GoesKeeps DEF Compares
<1>7. CASE Verifies(l)
    BY <1>7, GoesKeeps DEF Verifies
<1>8. CASE Buries(l)
    BY <1>8, GoesKeeps DEF Buries
<1>9. CASE Asks(l)
    BY <1>9, GoesKeeps DEF Asks
<1>10. CASE Locks(l)
    <2>1. CASE lock = Nobody /\ Goes(l, "lock", "launch") /\ lock' = l
        BY <2>1, StartupAssumption DEF Holding, Goes
    <2>2. CASE Goes(l, "lock", "await") /\ UNCHANGED lock
        BY <2>2, GoesKeeps
    <2>. QED
        BY <1>10, <2>1, <2>2 DEF Locks
<1>11. CASE Spawns(l)
    BY <1>11, GoesKeeps DEF Spawns, launcherVars
<1>12. CASE SpawnsNothing(l) \/ AwaitsInVain(l)
    BY <1>12, ExitsKeeps DEF SpawnsNothing, AwaitsInVain
<1>13. CASE WritesPid(l)
    BY <1>13, GoesKeeps DEF WritesPid
<1>14. CASE AwaitsBound(l)
    <2>1. CASE Goes(l, "child", "bound")
        BY <1>14, <2>1, GoesKeeps DEF AwaitsBound
    <2>2. CASE Goes(l, "await", "last")
        BY <1>14, <2>2, GoesKeeps DEF AwaitsBound
    <2>. QED
        BY <1>14, <2>1, <2>2 DEF AwaitsBound
<1>15. CASE Unlocks(l)
    BY <1>15 DEF Unlocks, Holding, Goes
<1>16. CASE Connects(l)
    BY <1>16, GoesKeeps DEF Connects
<1>. QED
    BY <1>1, <1>2, <1>3, <1>4, <1>5, <1>6, <1>7, <1>8, <1>9, <1>10, <1>11, <1>12, <1>13,
       <1>14, <1>15, <1>16 DEF Launcher

LEMMA HoldingNext == Holding /\ [Next]_vars => Holding'
<1>. SUFFICES ASSUME Holding, [Next]_vars PROVE Holding'
    OBVIOUS
<1>1. CASE UNCHANGED <<phase, lock>>
    BY <1>1 DEF Holding
<1>2. ASSUME NEW l \in Launchers, Launcher(l) PROVE Holding'
    BY <1>2, LauncherKeeps
<1>3. ASSUME NEW l \in Launchers, Invokes(l) PROVE Holding'
    BY <1>3 DEF Invokes, Holding, Phases, Resting, Starting
<1>4. ASSUME NEW l \in Launchers, Killed(l) PROVE Holding'
    BY <1>4, ExitsKeeps DEF Killed
<1>5. ASSUME NEW d \in Ids, Daemon(d) \/ Fault(d) \/ IdFreed(d) PROVE UNCHANGED <<phase, lock>>
    BY <1>5 DEF Daemon, DaemonBinds, DaemonRecords, DaemonLeaves, Leaves, Fault,
                DaemonFailsToStart, DaemonCrashes, DaemonExits, IdReused, IdFreed, launcherVars
<1>6. CASE Rebuild \/ FailAges
    BY <1>1, <1>6 DEF Rebuild, FailAges, launcherVars
<1>7. CASE UNCHANGED vars
    BY <1>1, <1>7 DEF vars, launcherVars
<1>. QED
    BY <1>1, <1>2, <1>3, <1>4, <1>5, <1>6, <1>7 DEF Next

LEMMA HoldingExcludes == Holding => OneStarts
BY DEF Holding, OneStarts, Starting

\* However many launchers there are, and whichever of them are killed where: no two have a
\* daemon on the way at once (main.rs:132-143, launch.rs:85-98).
THEOREM OneStartsAtATime == Spec => []OneStarts
<1>1. Holding /\ [Next]_vars => Holding'
    BY HoldingNext
<1>. QED
    BY HoldingInit, <1>1, HoldingExcludes, PTL DEF Spec

-----------------------------------------------------------------------------
(* The lock, the other way about: where nobody is starting a daemon, it is *)
(* free.                                                                   *)

\* The lock is somebody's: whoever has it is alive, and on the way from taking it to letting it
\* go.  So a lock refused to a launcher is refused for as long as a daemon is being started, and
\* none is left behind by a launcher that failed, was killed or went on to its connection.
LockIsSomebodys ==
    /\ lock # Nobody => lock \in Launchers
    /\ \A l \in Launchers : lock = l <=> phase[l] \in Starting

LEMMA LockInit == Init => LockIsSomebodys
BY StartupAssumption DEF Init, LockIsSomebodys, Starting

\* A launcher that stays on its side of the lock.
LEMMA LockGoes ==
    ASSUME Holding, LockIsSomebodys, NEW l \in Launchers, NEW from, NEW to,
           Goes(l, from, to), to \in Starting <=> from \in Starting, UNCHANGED lock
    PROVE  LockIsSomebodys'
BY DEF Holding, LockIsSomebodys, Goes

\* The lock goes with the process.
LEMMA LockExits ==
    ASSUME Holding, LockIsSomebodys, NEW l \in Launchers, Exits(l)
    PROVE  LockIsSomebodys'
<1>1. \A k \in Launchers : k # l => phase'[k] = phase[k]
    BY DEF Holding, Exits
<1>2. phase'[l] = "failed" /\ "failed" \notin Starting
    BY DEF Holding, Exits, Starting
<1>3. lock' = IF lock = l THEN Nobody ELSE lock
    BY DEF Exits
<1>. QED
    BY <1>1, <1>2, <1>3, StartupAssumption DEF LockIsSomebodys

LEMMA LockBackout ==
    ASSUME Holding, LockIsSomebodys, NEW l \in Launchers, NEW from, NEW to,
           Backout(l, from, to), to \in Starting <=> from \in Starting
    PROVE  LockIsSomebodys'
<1>1. CASE Goes(l, from, to) /\ UNCHANGED lock
    BY <1>1, LockGoes
<1>2. CASE Exits(l)
    BY <1>2, LockExits
<1>. QED
    BY <1>1, <1>2 DEF Backout

LEMMA LockLauncher ==
    ASSUME Holding, LockIsSomebodys, NEW l \in Launchers, Launcher(l)
    PROVE  LockIsSomebodys'
<1>. USE DEF Starting
<1>1. CASE BacksOutFirst(l)
    BY <1>1, LockBackout DEF BacksOutFirst
<1>2. CASE BacksOutBound(l)
    BY <1>2, LockBackout DEF BacksOutBound
<1>3. CASE BacksOutLast(l)
    BY <1>3, LockBackout DEF BacksOutLast
<1>4. CASE \/ ReadsPid(l) \/ Clears(l) \/ Probes(l) \/ Displaces(l) \/ Compares(l)
           \/ Verifies(l) \/ Buries(l) \/ Asks(l) \/ Connects(l)
    <2>1. UNCHANGED lock
        BY <1>4
        DEF ReadsPid, Clears, Probes, Displaces, Compares, Verifies, Buries, Asks, Connects
    <2>2. PICK from, to : Goes(l, from, to) /\ from \notin Starting /\ to \notin Starting
        BY <1>4
        DEF ReadsPid, Clears, Probes, Displaces, Compares, Verifies, Buries, Asks, Connects
    <2> HIDE DEF Starting
    <2>. QED
        BY <2>1, <2>2, LockGoes
<1>5. CASE Locks(l)
    <2>1. CASE lock = Nobody /\ Goes(l, "lock", "launch") /\ lock' = l
        BY <2>1, StartupAssumption DEF Holding, LockIsSomebodys, Goes
    <2>2. CASE Goes(l, "lock", "await") /\ UNCHANGED lock
        BY <2>2, LockGoes
    <2>. QED
        BY <1>5, <2>1, <2>2 DEF Locks
<1>6. CASE Spawns(l)
    BY <1>6, LockGoes DEF Spawns
<1>7. CASE SpawnsNothing(l) \/ AwaitsInVain(l)
    BY <1>7, LockExits DEF SpawnsNothing, AwaitsInVain
<1>8. CASE WritesPid(l)
    BY <1>8, LockGoes DEF WritesPid
<1>9. CASE AwaitsBound(l)
    <2>1. CASE Goes(l, "child", "bound")
        BY <1>9, <2>1, LockGoes DEF AwaitsBound
    <2>2. CASE Goes(l, "await", "last")
        BY <1>9, <2>2, LockGoes DEF AwaitsBound
    <2>. QED
        BY <1>9, <2>1, <2>2 DEF AwaitsBound
<1>10. CASE Unlocks(l)
    <2>1. lock = l /\ lock' = Nobody /\ phase[l] = "unlock" /\ phase' = [phase EXCEPT ![l] = "last"]
        BY <1>10 DEF Unlocks, Goes, LockIsSomebodys
    <2>. QED
        BY <2>1, StartupAssumption DEF Holding, LockIsSomebodys
<1>. QED
    BY <1>1, <1>2, <1>3, <1>4, <1>5, <1>6, <1>7, <1>8, <1>9, <1>10 DEF Launcher

LEMMA LockNext == Holding /\ LockIsSomebodys /\ [Next]_vars => LockIsSomebodys'
<1>. SUFFICES ASSUME Holding, LockIsSomebodys, [Next]_vars PROVE LockIsSomebodys'
    OBVIOUS
<1>1. CASE UNCHANGED <<phase, lock>>
    BY <1>1 DEF LockIsSomebodys
<1>2. ASSUME NEW l \in Launchers, Launcher(l) PROVE LockIsSomebodys'
    BY <1>2, LockLauncher
<1>3. ASSUME NEW l \in Launchers, Invokes(l) PROVE LockIsSomebodys'
    BY <1>3 DEF Invokes, Holding, LockIsSomebodys, Resting, Starting
<1>4. ASSUME NEW l \in Launchers, Killed(l) PROVE LockIsSomebodys'
    BY <1>4, LockExits DEF Killed
<1>5. ASSUME NEW d \in Ids, Daemon(d) \/ Fault(d) \/ IdFreed(d) PROVE UNCHANGED <<phase, lock>>
    BY <1>5 DEF Daemon, DaemonBinds, DaemonRecords, DaemonLeaves, Leaves, Fault,
                DaemonFailsToStart, DaemonCrashes, DaemonExits, IdReused, IdFreed, launcherVars
<1>6. CASE Rebuild \/ FailAges \/ UNCHANGED vars
    BY <1>1, <1>6 DEF Rebuild, FailAges, vars, launcherVars
<1>. QED
    BY <1>1, <1>2, <1>3, <1>4, <1>5, <1>6 DEF Next

\* The lock is held by a launcher that lives and has a daemon on the way, and by no other: it is
\* taken before the launch and let go after it, or with the process (main.rs:132-143).
THEOREM LockIsLetGo == Spec => []LockIsSomebodys
BY HoldingInit, HoldingNext, LockInit, LockNext, PTL DEF Spec

-----------------------------------------------------------------------------
(* The types: the socket that is told to drain is some daemon's, and what  *)
(* a launcher spawns is of an executable there was.                        *)

LEMMA VersionsAreSome == 1 \in Versions /\ Len(Scripts) \in Nat
BY StartupAssumption DEF Versions

LEMMA InitTyped == Init => TypeOK
BY VersionsAreSome, StartupAssumption DEF Init, TypeOK, Phases, Resting

\* A launcher goes from one place in main to another, or ends.
LEMMA GoesTyped ==
    ASSUME TypeOK, NEW l \in Launchers, NEW from, NEW to \in Phases, Goes(l, from, to)
    PROVE  phase' \in [Launchers -> Phases]
BY DEF TypeOK, Goes

LEMMA ExitsTyped ==
    ASSUME TypeOK, NEW l \in Launchers, Exits(l)
    PROVE  /\ phase' \in [Launchers -> Phases] /\ mine' \in [Launchers -> 0..Daemons]
           /\ lock' \in Launchers \cup {Nobody}
<1>1. "failed" \in Phases
    BY DEF Phases, Resting
<1>2. 0 \in 0..Daemons
    BY StartupAssumption
<1>. QED
    BY <1>1, <1>2 DEF TypeOK, Exits

LEMMA BackoutTyped ==
    ASSUME TypeOK, NEW l \in Launchers, NEW from, NEW to \in Phases, Backout(l, from, to)
    PROVE  TypeOK'
<1>1. /\ phase' \in [Launchers -> Phases] /\ mine' \in [Launchers -> 0..Daemons]
      /\ lock' \in Launchers \cup {Nobody} /\ fail' \in {"none", "recent", "old"}
    BY GoesTyped, ExitsTyped DEF Backout, TypeOK
<1>. QED
    BY <1>1 DEF Backout, TypeOK, daemonVars

\* What `check_state` and `main` do up to the lock, and after the launch.
LEMMA ChecksTyped ==
    ASSUME TypeOK, NEW l \in Launchers,
           \/ ReadsPid(l) \/ Clears(l) \/ Probes(l) \/ Displaces(l) \/ Compares(l)
           \/ Verifies(l) \/ Buries(l) \/ Asks(l) \/ Locks(l)
    PROVE  TypeOK'
<1>1. PICK from, to \in Phases : Goes(l, from, to)
    BY DEF ReadsPid, Clears, Probes, Displaces, Compares, Verifies, Buries, Asks, Locks, Phases
<1>2. phase' \in [Launchers -> Phases]
    BY <1>1, GoesTyped
<1>3. /\ fail' = fail /\ script' = script /\ invoked' = invoked
      /\ version' = version /\ reused' = reused
    BY DEF ReadsPid, Clears, Probes, Displaces, Compares, Verifies, Buries, Asks, Locks,
        fileVars, daemonVars
<1>4. mine' \in [Launchers -> 0..Daemons] /\ lock' \in Launchers \cup {Nobody}
    BY StartupAssumption
    DEF TypeOK, ReadsPid, Clears, Probes, Displaces, Compares, Verifies, Buries, Asks, Locks
<1>5. pid' \in 0..Daemons /\ build' \in {0} \cup Versions /\ socket' \in 0..Daemons
    BY StartupAssumption
    DEF TypeOK, ReadsPid, Clears, Probes, Displaces, Compares, Verifies, Buries, Asks, Locks,
        fileVars
<1>6. /\ daemon' \in [Ids -> {"none", "starting", "bound", "recorded", "draining"}]
      /\ faults' \in 0..FaultLimit
    <2>1. CASE Verifies(l)
        BY <2>1, StartupAssumption DEF Verifies, TypeOK, Accepts, Ids, May
    <2>2. CASE UNCHANGED <<daemon, faults>>
        BY <2>2 DEF TypeOK
    <2>. QED
        BY <2>1, <2>2
        DEF ReadsPid, Clears, Probes, Displaces, Compares, Buries, Asks, Locks, daemonVars
<1>. QED
    BY <1>2, <1>3, <1>4, <1>5, <1>6 DEF TypeOK

LEMMA LaunchTyped ==
    ASSUME TypeOK, NEW l \in Launchers,
           \/ Spawns(l) \/ SpawnsNothing(l) \/ WritesPid(l) \/ AwaitsBound(l)
           \/ AwaitsInVain(l) \/ Unlocks(l) \/ Connects(l) \/ Invokes(l) \/ Killed(l)
    PROVE  TypeOK'
<1>. USE StartupAssumption DEF fileVars, daemonVars, launcherVars
<1>1. CASE Spawns(l)
    <2>1. phase' \in [Launchers -> Phases]
        BY <1>1, GoesTyped DEF Spawns, Phases
    <2>2. /\ mine' \in [Launchers -> 0..Daemons] /\ version' \in [Ids -> Versions]
          /\ daemon' \in [Ids -> {"none", "starting", "bound", "recorded", "draining"}]
        BY <1>1 DEF Spawns, TypeOK, Ids
    <2>. QED
        BY <1>1, <2>1, <2>2 DEF Spawns, TypeOK
<1>2. CASE SpawnsNothing(l) \/ AwaitsInVain(l) \/ Killed(l)
    <2>1. Exits(l) /\ faults' \in 0..FaultLimit /\ fail' \in {"none", "recent", "old"}
        BY <1>2 DEF SpawnsNothing, AwaitsInVain, Killed, May, TypeOK
    <2>2. UNCHANGED <<pid, build, socket, script, invoked, daemonVars>>
        BY <1>2 DEF SpawnsNothing, AwaitsInVain, Killed
    <2>. QED
        BY <2>1, <2>2, ExitsTyped DEF TypeOK
<1>3. CASE WritesPid(l) \/ AwaitsBound(l) \/ Unlocks(l) \/ Connects(l)
    <2>1. PICK from, to \in Phases : Goes(l, from, to)
        BY <1>3 DEF WritesPid, AwaitsBound, Unlocks, Connects, Phases, Resting
    <2>2. phase' \in [Launchers -> Phases]
        BY <2>1, GoesTyped
    <2>3. /\ mine' \in [Launchers -> 0..Daemons] /\ lock' \in Launchers \cup {Nobody}
          /\ pid' \in 0..Daemons
        BY <1>3 DEF WritesPid, AwaitsBound, Unlocks, Connects, TypeOK
    <2>4. UNCHANGED <<build, socket, fail, script, invoked, daemonVars, faults>>
        BY <1>3 DEF WritesPid, AwaitsBound, Unlocks, Connects
    <2>. QED
        BY <2>2, <2>3, <2>4 DEF TypeOK
<1>4. CASE Invokes(l)
    <2>1. phase' \in [Launchers -> Phases]
        BY <1>4 DEF Invokes, TypeOK, Phases
    <2>. QED
        BY <1>4, <2>1 DEF Invokes, TypeOK
<1>. QED
    BY <1>1, <1>2, <1>3, <1>4

LEMMA DaemonsTyped ==
    ASSUME TypeOK, NEW d \in Ids, Daemon(d) \/ Fault(d) \/ IdFreed(d)
    PROVE  TypeOK'
<1>. USE StartupAssumption, VersionsAreSome DEF fileVars, daemonVars, launcherVars
<1>1. CASE DaemonBinds(d)
    BY <1>1 DEF DaemonBinds, TypeOK, Ids
<1>2. CASE DaemonRecords(d)
    BY <1>2 DEF DaemonRecords, TypeOK, Ids
<1>3. ASSUME Dies(d)
      PROVE  /\ version' \in [Ids -> Versions]
             /\ daemon' \in [Ids -> {"none", "starting", "bound", "recorded", "draining"}]
    BY <1>3 DEF Dies, TypeOK
<1>4. CASE DaemonFailsToStart(d) \/ DaemonCrashes(d)
    <2>1. Dies(d) /\ fail' \in {"none", "recent", "old"} /\ faults' \in 0..FaultLimit
        BY <1>4 DEF DaemonFailsToStart, DaemonCrashes, TypeOK, May
    <2>2. UNCHANGED <<pid, build, socket, script, launcherVars, reused>>
        BY <1>4 DEF DaemonFailsToStart, DaemonCrashes
    <2>. QED
        BY <1>3, <2>1, <2>2 DEF TypeOK
<1>5. CASE DaemonExits(d) \/ DaemonLeaves(d)
    <2>1. Leaves(d) /\ faults' \in 0..FaultLimit
        BY <1>5 DEF DaemonExits, DaemonLeaves, TypeOK, May
    <2>2. pid' \in 0..Daemons /\ build' \in {0} \cup Versions /\ socket' \in 0..Daemons
        BY <2>1 DEF Leaves, TypeOK
    <2>. QED
        BY <1>3, <2>1, <2>2 DEF Leaves, TypeOK
<1>6. CASE IdReused(d) \/ IdFreed(d)
    BY <1>6 DEF IdReused, IdFreed, TypeOK, May
<1>. QED
    BY <1>1, <1>2, <1>4, <1>5, <1>6 DEF Daemon, Fault

LEMMA NextTyped == TypeOK /\ [Next]_vars => TypeOK'
<1>. SUFFICES ASSUME TypeOK, [Next]_vars PROVE TypeOK'
    OBVIOUS
<1>. USE DEF fileVars, daemonVars, launcherVars
<1>1. ASSUME NEW l \in Launchers, BacksOutFirst(l) \/ BacksOutBound(l) \/ BacksOutLast(l)
      PROVE  TypeOK'
    BY <1>1, BackoutTyped DEF BacksOutFirst, BacksOutBound, BacksOutLast, Phases
<1>2. ASSUME NEW l \in Launchers, Invokes(l) \/ Launcher(l) \/ Killed(l) PROVE TypeOK'
    BY <1>1, <1>2, ChecksTyped, LaunchTyped DEF Launcher
<1>3. CASE Rebuild \/ FailAges
    BY <1>3 DEF Rebuild, FailAges, TypeOK
<1>4. CASE UNCHANGED vars
    BY <1>4 DEF vars, TypeOK
<1>. QED
    BY <1>2, <1>3, <1>4, DaemonsTyped DEF Next

\* Every variable keeps its type, for any launchers, daemons, executables and faults: a launcher
\* is somewhere in main, what it carries of a daemon is an id there may be, and the daemon told
\* that it is stale is the one whose socket was found (main.rs:95-160, state.rs:138-176).
THEOREM StartupTypeOK == Spec => []TypeOK
BY InitTyped, NextTyped, PTL DEF Spec

-----------------------------------------------------------------------------
(* The files of one daemon, which ServedFresh rests on: the hypotheses are *)
(* the ones it has in its run, and without either of them FilesAgree is    *)
(* false.                                                                  *)

\* state.rs:286-331: the files a launcher decides by are one daemon's, where no two invocations
\* meet and none is killed: the pid and the socket, and the record beside a socket that answers.
\* Faults of daemons, a JVM that is not there and ids reused do not mix them.
FilesAgree ==
    /\ pid # 0 /\ socket # 0 => pid = socket
    /\ build # 0 /\ Accepts(socket) => build = version[socket]

\* state.rs:231-256: so the record, which is all that is compared, judges the daemon there is:
\* one is kept unasked only if it was started from the executable as it is, and is displaced
\* for its size only if its own executable had another.
JudgedByItsOwn ==
    [][\A l \in Launchers :
          phase[l] = "record" /\ build # 0 /\ Accepts(socket) =>
             /\ phase'[l] = "ask" => version[socket] = script
             /\ phase'[l] = "displace" =>
                   Scripts[version[socket]].size # Scripts[script].size]_vars

OneLauncher == \A l, k \in Launchers : l = k

OnTheWay == {d \in Ids : daemon[d] \in {"starting", "bound"}}
Writes(d) == \E l \in Launchers : phase[l] = "write" /\ mine[l] = d

\* A daemon on the way has the files to itself; at most one is, for the pid is its own, or will
\* be as soon as it is written.
WayIsItsOwn ==
    \A d \in OnTheWay :
        /\ build = 0
        /\ (daemon[d] = "starting" => socket = 0) /\ (daemon[d] = "bound" => socket = d)
        /\ pid = d \/ Writes(d)

SocketIsOfPid == socket # 0 => pid = socket \/ Writes(socket)
RecordIsOfSocket == build # 0 => socket # 0 /\ (Accepts(socket) => build = version[socket])

\* What the launcher has found out and still counts on.
Settled == {"clear", "displace", "verify", "dying", "lock", "launch"}
Counts(l) ==
    /\ phase[l] \in Settled => OnTheWay = {}
    /\ phase[l] \in {"lock", "launch"} => pid = 0
    /\ phase[l] \in {"write", "probe"} => pid \in {0, mine[l]}

OneDaemons ==
    /\ WayIsItsOwn /\ SocketIsOfPid /\ RecordIsOfSocket
    /\ \A l \in Launchers : Counts(l)

LEMMA OneDaemonsInit == Init => OneDaemons
BY DEF Init, OneDaemons, WayIsItsOwn, SocketIsOfPid, RecordIsOfSocket, Counts, OnTheWay, Settled

\* The launcher goes on, and the files and the daemons stay as they are.
LEMMA WalksAgreed ==
    ASSUME OneLauncher, TypeOK, OneDaemons, NEW l \in Launchers,
           UNCHANGED <<pid, build, socket, daemon, version>>,
           phase[l] # "write", phase'[l] # "write",
           phase'[l] \in Settled => OnTheWay = {},
           phase'[l] \in {"lock", "launch"} => pid = 0,
           phase'[l] = "probe" => pid \in {0, mine'[l]}
    PROVE  OneDaemons'
<1>1. \A k \in Launchers : k = l
    BY DEF OneLauncher
<1>2. OnTheWay' = OnTheWay /\ \A d \in Ids : ~Writes(d) /\ ~Writes(d)'
    BY <1>1 DEF OnTheWay, Writes
<1>3. Counts(l)'
    BY <1>2 DEF Counts
<1>4. ~Writes(socket) /\ ~Writes(socket)'
    BY <1>1 DEF Writes
<1>5. WayIsItsOwn'
    BY <1>2 DEF OneDaemons, WayIsItsOwn, OnTheWay
<1>6. SocketIsOfPid'
    BY <1>4 DEF OneDaemons, SocketIsOfPid
<1>7. RecordIsOfSocket'
    BY DEF OneDaemons, RecordIsOfSocket, Accepts
<1>. QED
    BY <1>1, <1>3, <1>5, <1>6, <1>7 DEF OneDaemons

\* Nothing is on the way where there is no pid, or no process behind it, but while it is written.
LEMMA NoneOnTheWay ==
    ASSUME OneLauncher, TypeOK, OneDaemons, NEW l \in Launchers, phase[l] # "write"
    PROVE  /\ pid = 0 => OnTheWay = {} /\ socket = 0 /\ build = 0
           /\ build # 0 => OnTheWay = {}
           /\ \A d \in OnTheWay : pid = d
<1>1. \A d : ~Writes(d)
    BY DEF OneLauncher, Writes
<1>2. \A d \in OnTheWay : pid = d /\ build = 0 /\ d # 0
    BY <1>1 DEF OneDaemons, WayIsItsOwn, OnTheWay, Ids
<1>3. pid = 0 => socket = 0 /\ build = 0
    BY <1>1 DEF OneDaemons, SocketIsOfPid, RecordIsOfSocket
<1>. QED
    BY <1>2, <1>3

\* The files are removed once nothing is on the way.
LEMMA RemovesAgreed ==
    ASSUME OneLauncher, TypeOK, OneDaemons, NEW l \in Launchers,
           OnTheWay = {}, OnTheWay' = {}, socket' = 0, build' = 0, phase'[l] = "ask"
    PROVE  OneDaemons'
<1>1. WayIsItsOwn' /\ SocketIsOfPid' /\ RecordIsOfSocket'
    BY DEF WayIsItsOwn, SocketIsOfPid, RecordIsOfSocket
<1>2. Counts(l)'
    BY DEF Counts, Settled
<1>. QED
    BY <1>1, <1>2 DEF OneDaemons, OneLauncher

LEMMA ChecksAgreed ==
    ASSUME OneLauncher, TypeOK, OneDaemons, NEW l \in Launchers,
           \/ ReadsPid(l) \/ Clears(l) \/ Probes(l) \/ Displaces(l) \/ Compares(l)
           \/ Verifies(l) \/ Buries(l) \/ Asks(l) \/ Locks(l)
    PROVE  OneDaemons'
<1>. USE DEF Goes, Settled, fileVars, daemonVars
<1>1. \A p : phase' = [phase EXCEPT ![l] = p] => phase'[l] = p
    BY DEF TypeOK
<1>2. \A p : mine' = [mine EXCEPT ![l] = p] => mine'[l] = p
    BY DEF TypeOK
<1>3. CASE ReadsPid(l) \/ Asks(l)
    BY <1>1, <1>2, <1>3, NoneOnTheWay, WalksAgreed DEF ReadsPid, Asks
<1>4. CASE Clears(l) \/ Displaces(l) \/ Buries(l)
    <2>1. OnTheWay = {}
        BY <1>4 DEF Clears, Displaces, Buries, OneDaemons, Counts
    <2>2. OnTheWay' = OnTheWay
        BY <1>4 DEF Clears, Displaces, Buries, OnTheWay
    <2>. QED
        BY <1>1, <1>4, <2>1, <2>2, RemovesAgreed DEF Clears, Displaces, Buries
<1>5. CASE Probes(l)
    <2>1. phase'[l] = "displace" => OnTheWay = {}
        <3>1. SUFFICES ASSUME NEW d \in OnTheWay, phase'[l] = "displace" PROVE FALSE
            OBVIOUS
        <3>2. ~ProcessAlive(mine[l]) \/ (socket # 0 /\ ~Accepts(socket))
            BY <1>1, <1>5, <3>1 DEF Probes
        <3>3. pid = d /\ d # 0 /\ mine[l] = d
            BY <1>5, NoneOnTheWay DEF Probes, OneDaemons, Counts, OnTheWay, Ids
        <3>4. ProcessAlive(mine[l])
            BY <3>3 DEF ProcessAlive, OnTheWay
        <3>5. socket # 0 => daemon[socket] = "bound"
            BY DEF OneDaemons, WayIsItsOwn, OnTheWay
        <3>. QED
            BY <3>2, <3>4, <3>5 DEF Accepts
    <2>2. phase[l] = "probe" /\ phase'[l] \in {"displace", "record"}
        BY <1>1, <1>5 DEF Probes
    <2>. QED
        BY <1>5, <2>1, <2>2, WalksAgreed DEF Probes
<1>6. CASE Compares(l)
    BY <1>1, <1>6, NoneOnTheWay, WalksAgreed DEF Compares
<1>7. CASE Verifies(l)
    <2>1. OnTheWay = {} /\ phase[l] = "verify"
        BY <1>7 DEF Verifies, OneDaemons, Counts
    <2>2. phase'[l] \in {"ask", "dying"}
        BY <1>1, <1>7 DEF Verifies
    <2>3. CASE UNCHANGED daemon
        BY <1>7, <2>1, <2>2, <2>3, WalksAgreed DEF Verifies
    <2>4. CASE daemon' = [daemon EXCEPT ![socket] = "draining"]
        <3>1. UNCHANGED <<pid, build, socket, version>>
            BY <1>7 DEF Verifies
        <3>2. OnTheWay' = {}
            BY <2>1, <2>4 DEF OnTheWay, TypeOK
        <3>3. ~Accepts(socket)'
            BY <2>4, <3>1 DEF Accepts, TypeOK, Ids
        <3>4. \A k : ~Writes(k) /\ ~Writes(k)'
            BY <2>1, <2>2 DEF Writes, OneLauncher
        <3>5. Counts(l)'
            BY <2>2, <3>2 DEF Counts
        <3>6. WayIsItsOwn' /\ SocketIsOfPid' /\ RecordIsOfSocket'
            BY <3>1, <3>2, <3>3, <3>4
            DEF OneDaemons, WayIsItsOwn, SocketIsOfPid, RecordIsOfSocket
        <3>. QED
            BY <3>5, <3>6 DEF OneDaemons, OneLauncher
    <2>. QED
        BY <1>7, <2>3, <2>4 DEF Verifies
<1>8. CASE Locks(l)
    <2>1. OnTheWay = {} /\ pid = 0 /\ phase[l] = "lock"
        BY <1>8 DEF Locks, OneDaemons, Counts
    <2>2. phase'[l] \in {"launch", "await"}
        BY <1>1, <1>8 DEF Locks
    <2>. QED
        BY <1>8, <2>1, <2>2, WalksAgreed DEF Locks
<1>. QED
    BY <1>3, <1>4, <1>5, <1>6, <1>7, <1>8

LEMMA LaunchAgreed ==
    ASSUME OneLauncher, TypeOK, OneDaemons, NEW l \in Launchers,
           \/ Spawns(l) \/ SpawnsNothing(l) \/ WritesPid(l) \/ AwaitsBound(l)
           \/ AwaitsInVain(l) \/ Unlocks(l) \/ Connects(l) \/ Invokes(l)
           \/ BacksOutFirst(l) \/ BacksOutBound(l) \/ BacksOutLast(l)
    PROVE  OneDaemons'
<1>. USE DEF Goes, Settled, fileVars, daemonVars
<1>1. \A p : phase' = [phase EXCEPT ![l] = p] => phase'[l] = p
    BY DEF TypeOK
<1>2. \A p : mine' = [mine EXCEPT ![l] = p] => mine'[l] = p
    BY DEF TypeOK
<1>3. CASE Spawns(l)
    <2>1. PICK d \in Ids :
            /\ daemon[d] = "none" /\ daemon' = [daemon EXCEPT ![d] = "starting"]
            /\ mine' = [mine EXCEPT ![l] = d]
        BY <1>3 DEF Spawns
    <2>2. OnTheWay = {} /\ pid = 0 /\ phase[l] = "launch"
        BY <1>3 DEF Spawns, OneDaemons, Counts
    <2>3. socket = 0 /\ build = 0
        BY <2>2, NoneOnTheWay
    <2>4. UNCHANGED <<pid, build, socket>> /\ phase'[l] = "write" /\ mine'[l] = d
        BY <1>1, <1>2, <1>3, <2>1 DEF Spawns
    <2>5. OnTheWay' = {d} /\ daemon'[d] = "starting"
        BY <2>1, <2>2 DEF OnTheWay, TypeOK
    <2>6. Writes(d)'
        BY <2>4 DEF Writes
    <2>7. WayIsItsOwn' /\ SocketIsOfPid' /\ RecordIsOfSocket'
        BY <2>3, <2>4, <2>5, <2>6 DEF WayIsItsOwn, SocketIsOfPid, RecordIsOfSocket
    <2>8. Counts(l)'
        BY <2>2, <2>4 DEF Counts
    <2>. QED
        BY <2>7, <2>8 DEF OneDaemons, OneLauncher
<1>4. CASE WritesPid(l)
    <2>1. /\ phase[l] = "write" /\ phase'[l] = "child" /\ pid' = mine[l]
          /\ UNCHANGED <<build, socket, mine, daemon, version>>
        BY <1>1, <1>4 DEF WritesPid
    <2>2. pid \in {0, mine[l]}
        BY <2>1 DEF OneDaemons, Counts
    <2>3. \A d : (pid = d /\ d # 0) \/ Writes(d) => pid' = d
        BY <2>1, <2>2 DEF Writes, OneLauncher
    <2>4. OnTheWay' = OnTheWay /\ \A d \in OnTheWay : d # 0
        BY <2>1 DEF OnTheWay, Ids
    <2>5. WayIsItsOwn'
        BY <2>1, <2>3, <2>4 DEF OneDaemons, WayIsItsOwn
    <2>6. SocketIsOfPid'
        BY <2>1, <2>3 DEF OneDaemons, SocketIsOfPid
    <2>7. RecordIsOfSocket'
        BY <2>1 DEF OneDaemons, RecordIsOfSocket, Accepts
    <2>8. Counts(l)'
        BY <2>1 DEF Counts
    <2>. QED
        BY <2>5, <2>6, <2>7, <2>8 DEF OneDaemons, OneLauncher
<1>5. CASE SpawnsNothing(l) \/ AwaitsInVain(l)
    <2>1. phase[l] # "write" /\ phase'[l] = "failed"
        BY <1>1, <1>5 DEF SpawnsNothing, AwaitsInVain, Exits
    <2>. QED
        BY <1>5, <2>1, WalksAgreed DEF SpawnsNothing, AwaitsInVain
<1>6. CASE AwaitsBound(l) \/ Unlocks(l) \/ Connects(l) \/ Invokes(l)
    <2>1. /\ phase[l] # "write"
          /\ phase'[l] \in {"bound", "last", "connected", "unreachable", "backout"}
        BY <1>1, <1>6 DEF AwaitsBound, Unlocks, Connects, Invokes, Resting
    <2>. QED
        BY <1>6, <2>1, WalksAgreed DEF AwaitsBound, Unlocks, Connects, Invokes
<1>7. CASE BacksOutFirst(l) \/ BacksOutBound(l) \/ BacksOutLast(l)
    <2>1. phase[l] # "write" /\ phase'[l] \in {"check", "unlock", "connect", "failed"}
        BY <1>1, <1>7 DEF BacksOutFirst, BacksOutBound, BacksOutLast, Backout, Exits
    <2>. QED
        BY <1>7, <2>1, WalksAgreed DEF BacksOutFirst, BacksOutBound, BacksOutLast, Backout
<1>. QED
    BY <1>3, <1>4, <1>5, <1>6, <1>7

\* Two daemons are never on the way at once: both would be the one the pid is, or will be, of.
LEMMA OneOnTheWay ==
    ASSUME OneLauncher, TypeOK, OneDaemons, NEW d \in OnTheWay, NEW e \in OnTheWay
    PROVE  d = e
<1>1. d # 0 /\ e # 0 /\ (pid = d \/ Writes(d)) /\ (pid = e \/ Writes(e))
    BY DEF OneDaemons, WayIsItsOwn, OnTheWay, Ids
<1>2. \A c : Writes(c) => pid \in {0, c}
    BY DEF Writes, OneDaemons, Counts
<1>3. Writes(d) /\ Writes(e) => d = e
    BY DEF Writes, OneLauncher
<1>. QED
    BY <1>1, <1>2, <1>3

\* A daemon that dies, with its files or without, takes nothing from another.
LEMMA DiesAgreed ==
    ASSUME TypeOK, OneDaemons, NEW d \in Ids, Dies(d), UNCHANGED <<phase, mine>>,
           \/ UNCHANGED <<pid, build, socket>>
           \/ /\ pid' = IF pid = d THEN 0 ELSE pid
              /\ socket' = IF socket = d THEN 0 ELSE socket
              /\ build' = IF socket = d THEN 0 ELSE build
    PROVE  OneDaemons'
<1>1. /\ OnTheWay' = OnTheWay \ {d}
      /\ \A e \in Ids \ {d} : daemon'[e] = daemon[e] /\ version'[e] = version[e]
    BY DEF OnTheWay, Dies, TypeOK
<1>2. \A e : Writes(e)' <=> Writes(e)
    BY DEF Writes
<1>3. WayIsItsOwn'
    BY <1>1, <1>2 DEF OneDaemons, WayIsItsOwn, OnTheWay
<1>4. SocketIsOfPid'
    BY <1>2 DEF OneDaemons, SocketIsOfPid
<1>5. RecordIsOfSocket'
    <2>1. SUFFICES ASSUME build' # 0
                   PROVE  socket' # 0 /\ (Accepts(socket)' => build' = version'[socket'])
        BY DEF RecordIsOfSocket
    <2>2. build # 0 /\ build' = build /\ socket' = socket /\ socket # 0
        BY <2>1 DEF OneDaemons, RecordIsOfSocket, Ids
    <2>3. Accepts(socket)' => socket # d
        BY <2>2 DEF Accepts, Dies, TypeOK
    <2>4. socket \in Ids
        BY <2>2 DEF TypeOK, Ids
    <2>. QED
        BY <1>1, <2>2, <2>3, <2>4 DEF OneDaemons, RecordIsOfSocket, Accepts
<1>6. \A l \in Launchers : Counts(l)'
    BY <1>1 DEF OneDaemons, Counts
<1>. QED
    BY <1>3, <1>4, <1>5, <1>6 DEF OneDaemons

LEMMA DaemonsAgreed ==
    ASSUME OneLauncher, TypeOK, OneDaemons, NEW d \in Ids, Daemon(d) \/ Fault(d) \/ IdFreed(d)
    PROVE  OneDaemons'
<1>. USE DEF fileVars, launcherVars, daemonVars
<1>1. CASE DaemonBinds(d)
    <2>1. /\ d \in OnTheWay /\ socket' = d /\ pid' \in {pid, d}
          /\ daemon' = [daemon EXCEPT ![d] = "bound"]
          /\ UNCHANGED <<build, phase, mine, version>>
        BY <1>1 DEF DaemonBinds, OnTheWay
    <2>2. OnTheWay = {d} /\ build = 0 /\ d # 0 /\ (pid = d \/ Writes(d))
        <3>1. \A e \in OnTheWay : e = d
            BY <2>1, OneOnTheWay
        <3>2. d # 0 /\ build = 0 /\ (pid = d \/ Writes(d))
            BY <2>1 DEF OneDaemons, WayIsItsOwn, Ids
        <3>. QED
            BY <2>1, <3>1, <3>2
    <2>3. OnTheWay' = {d} /\ daemon'[d] = "bound"
        BY <2>1, <2>2 DEF OnTheWay, TypeOK
    <2>4. pid' = d \/ Writes(d)'
        BY <2>1, <2>2 DEF Writes
    <2>5. WayIsItsOwn' /\ SocketIsOfPid' /\ RecordIsOfSocket'
        BY <2>1, <2>2, <2>3, <2>4 DEF WayIsItsOwn, SocketIsOfPid, RecordIsOfSocket
    <2>6. ASSUME NEW l \in Launchers PROVE Counts(l)'
        <3>1. phase[l] \notin Settled /\ (phase[l] \in {"write", "probe"} => pid \in {0, mine[l]})
            BY <2>2 DEF OneDaemons, Counts
        <3>2. Writes(d) => phase[l] = "write" /\ mine[l] = d
            BY DEF Writes, OneLauncher
        <3>3. phase[l] \in {"write", "probe"} => pid' \in {0, mine[l]}
            BY <2>1, <2>2, <3>1, <3>2
        <3>. QED
            BY <2>1, <3>1, <3>3 DEF Counts, Settled
    <2>. QED
        BY <2>5, <2>6 DEF OneDaemons
<1>2. CASE DaemonRecords(d)
    <2>1. /\ d \in OnTheWay /\ daemon[d] = "bound"
          /\ daemon' = [daemon EXCEPT ![d] = "recorded"]
          /\ build' = version[d] /\ UNCHANGED <<pid, socket, phase, mine, version>>
        BY <1>2 DEF DaemonRecords, OnTheWay
    <2>2. OnTheWay = {d} /\ socket = d /\ d # 0
        <3>1. \A e \in OnTheWay : e = d
            BY <2>1, OneOnTheWay
        <3>2. d # 0 /\ socket = d
            BY <2>1 DEF OneDaemons, WayIsItsOwn, Ids
        <3>. QED
            BY <2>1, <3>1, <3>2
    <2>3. OnTheWay' = {}
        BY <2>1, <2>2 DEF OnTheWay, TypeOK
    <2>4. WayIsItsOwn' /\ SocketIsOfPid' /\ RecordIsOfSocket'
        BY <2>1, <2>2, <2>3 DEF OneDaemons, WayIsItsOwn, SocketIsOfPid, RecordIsOfSocket, Writes
    <2>5. \A l \in Launchers : Counts(l)'
        BY <2>1, <2>3 DEF OneDaemons, Counts
    <2>. QED
        BY <2>4, <2>5 DEF OneDaemons
<1>3. CASE DaemonFailsToStart(d) \/ DaemonCrashes(d) \/ DaemonExits(d) \/ DaemonLeaves(d)
    BY <1>3, DiesAgreed
    DEF DaemonFailsToStart, DaemonCrashes, DaemonExits, DaemonLeaves, Leaves
<1>4. CASE IdReused(d) \/ IdFreed(d)
    BY <1>4 DEF IdReused, IdFreed, OneDaemons, WayIsItsOwn, SocketIsOfPid, RecordIsOfSocket,
        Counts, OnTheWay, Writes, Accepts
<1>. QED
    BY <1>1, <1>2, <1>3, <1>4 DEF Daemon, Fault

LEMMA OneDaemonsNext ==
    ASSUME OneLauncher, "kill" \notin Faults, TypeOK, OneDaemons, [Next]_vars
    PROVE  OneDaemons'
<1>1. ASSUME NEW l \in Launchers, Invokes(l) \/ Launcher(l) \/ Killed(l) PROVE OneDaemons'
    BY <1>1, ChecksAgreed, LaunchAgreed DEF Launcher, Killed, May
<1>2. CASE Rebuild \/ FailAges \/ UNCHANGED vars
    BY <1>2 DEF Rebuild, FailAges, vars, fileVars, launcherVars, daemonVars, OneDaemons,
        WayIsItsOwn, SocketIsOfPid, RecordIsOfSocket, Counts, OnTheWay, Writes, Accepts
<1>. QED
    BY <1>1, <1>2, DaemonsAgreed DEF Next

LEMMA OneDaemonsAgree == OneDaemons => FilesAgree
<1>. SUFFICES ASSUME OneDaemons PROVE FilesAgree
    OBVIOUS
<1>1. \A d : Writes(d) => pid \in {0, d}
    BY DEF Writes, OneDaemons, Counts
<1>. QED
    BY <1>1 DEF OneDaemons, SocketIsOfPid, RecordIsOfSocket, FilesAgree

\* The pid and the socket a launcher finds are of one daemon, and the record beside a socket that
\* answers is that daemon's, whichever daemons fail, crash, exit, bind late or never start before
\* and whatever process has an id of theirs, for any number of them: where one invocation
\* follows another and none is killed (state.rs:286-331, launch.rs:25-98).
THEOREM FilesAgreeForOne ==
    ASSUME OneLauncher, "kill" \notin Faults
    PROVE  Spec => []FilesAgree
<1>1. TypeOK /\ OneDaemons /\ [Next]_vars => TypeOK' /\ OneDaemons'
    BY NextTyped, OneDaemonsNext
<1>. QED
    BY InitTyped, OneDaemonsInit, <1>1, OneDaemonsAgree, PTL DEF Spec

\* A launcher leaves the comparison nowhere but through it.
LEMMA JudgesByRecord ==
    ASSUME TypeOK, FilesAgree, NEW l \in Launchers, [Next]_vars,
           phase[l] = "record", build # 0, Accepts(socket)
    PROVE  /\ phase'[l] = "ask" => version[socket] = script
           /\ phase'[l] = "displace" => Scripts[version[socket]].size # Scripts[script].size
<1>1. build = version[socket]
    BY DEF FilesAgree
<1>2. CASE Compares(l)
    BY <1>1, <1>2 DEF Compares, Goes, TypeOK
<1>3. CASE phase'[l] \in {"record", "failed"}
    BY <1>3
<1>4. ASSUME NEW k \in Launchers, Invokes(k) \/ Launcher(k) \/ Killed(k), k # l
      PROVE  phase'[l] = "record"
    BY <1>4 DEF Invokes, Launcher, Killed, Goes, Exits, Backout, TypeOK, BacksOutFirst, ReadsPid,
        Clears, Probes, Displaces, Compares, Verifies, Buries, Asks, Locks, Spawns, SpawnsNothing,
        WritesPid, AwaitsBound, AwaitsInVain, BacksOutBound, Unlocks, BacksOutLast, Connects
<1>5. ASSUME Invokes(l) \/ Launcher(l) \/ Killed(l)
      PROVE  Compares(l) \/ phase'[l] = "failed"
    BY <1>5 DEF Invokes, Resting, Launcher, Killed, Goes, Exits, Backout, TypeOK, BacksOutFirst,
        ReadsPid, Clears, Probes, Displaces, Verifies, Buries, Asks, Locks, Spawns,
        SpawnsNothing, WritesPid, AwaitsBound, AwaitsInVain, BacksOutBound, Unlocks,
        BacksOutLast, Connects
<1>6. ASSUME NEW d \in Ids, Daemon(d) \/ Fault(d) \/ IdFreed(d) PROVE UNCHANGED phase
    BY <1>6 DEF Daemon, DaemonBinds, DaemonRecords, DaemonLeaves, Leaves, Fault,
                DaemonFailsToStart, DaemonCrashes, DaemonExits, IdReused, IdFreed, launcherVars
<1>7. CASE Rebuild \/ FailAges \/ UNCHANGED vars
    BY <1>3, <1>7 DEF Rebuild, FailAges, vars, launcherVars
<1>. QED
    BY <1>2, <1>3, <1>4, <1>5, <1>6, <1>7 DEF Next

\* Under the same hypotheses: a daemon kept on the record's word was started from the executable
\* as it is, and one displaced for its size is of another executable, so that no daemon is
\* judged by what another one wrote (state.rs:231-256).
THEOREM JudgedByItsOwnForOne ==
    ASSUME OneLauncher, "kill" \notin Faults
    PROVE  Spec => JudgedByItsOwn
<1>1. TypeOK /\ OneDaemons /\ [Next]_vars => TypeOK' /\ OneDaemons'
    BY NextTyped, OneDaemonsNext
<1>2. TypeOK /\ OneDaemons /\ [Next]_vars =>
        [\A l \in Launchers :
            phase[l] = "record" /\ build # 0 /\ Accepts(socket) =>
               /\ phase'[l] = "ask" => version[socket] = script
               /\ phase'[l] = "displace" =>
                     Scripts[version[socket]].size # Scripts[script].size]_vars
    BY OneDaemonsAgree, JudgesByRecord
<1>. QED
    BY InitTyped, OneDaemonsInit, <1>1, <1>2, PTL DEF Spec, JudgedByItsOwn
=============================================================================
