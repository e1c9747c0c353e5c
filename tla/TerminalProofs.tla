--------------------------- MODULE TerminalProofs ---------------------------
(* The terminal under the commands run on it, for any number of commands,  *)
(* of outputs and of keystrokes: each reads it uncontested, and has every  *)
(* open output held for exactly as long as it may; each keystroke goes to  *)
(* one reader, the daemon's in the order they were typed; and no thread    *)
(* waits for one that waits for it.                                        *)
EXTENDS Terminal, FiniteSetTheorems, FunctionTheorems, WellFoundedInduction, TLAPS

Phases == {"none", "start", "pause", "pausing", "hold", "restore", "spawn", "running", "raw",
           "release", "resume", "answer", "done"}

ThreadsOK ==
    /\ runner \in [Runners -> Phases]
    /\ inlets \subseteq Outputs /\ todo \subseteq Outputs /\ held \in [Outputs -> BOOLEAN]

\* Between the mutex's lock and its release.
Locked(r) == runner[r] \in Phases \ {"none", "start", "done"}

Having == {"restore", "spawn", "running", "raw"}

\* The gate: one command has the mutex; a pause is requested from before its wait to its
\* resume, so the pump stays where the wait found it.
Gated ==
    /\ parked => pump \in {"parked", "done"}
    /\ \A r \in Runners :
         /\ Locked(r) => child = r
         /\ Owns(r) => parked
         /\ Owns(r) \/ runner[r] = "pausing" => requested

\* The outputs: those held or released so far are the ones no longer to do.
HeldSoFar ==
    /\ \A s \in inlets : held[s] => \E r \in Runners : Owns(r) /\ runner[r] # "resume"
    /\ \A r \in Runners, s \in inlets :
         /\ runner[r] \in Having => held[s]
         /\ runner[r] = "hold" /\ s \notin todo => held[s]
         /\ runner[r] = "release" /\ s \notin todo => ~held[s]

TerminalInv == ThreadsOK /\ Gated /\ HeldSoFar

LEMMA RunnersAreNotZero == 0 \notin Runners
BY TerminalAssumption DEF Runners

LEMMA TerminalInvInit == Init => TerminalInv
BY DEF Init, TerminalInv, ThreadsOK, Gated, HeldSoFar, Locked, Owns, Having, Phases

\* What the reader, the drains, the user and the daemon leave of it: an inlet may go.
LEMMA OthersKeep ==
    ASSUME TerminalInv, UNCHANGED <<requested, parked, pump, runner, child, todo, held>>,
           inlets' \subseteq inlets
    PROVE  TerminalInv'
BY DEF TerminalInv, ThreadsOK, Gated, HeldSoFar, Locked, Owns

LEMMA PumpKeeps == TerminalInv /\ Pump => TerminalInv'
<1>. SUFFICES ASSUME TerminalInv, Pump PROVE TerminalInv'
    OBVIOUS
<1>1. UNCHANGED <<requested, runner, child, todo, held, inlets>>
    BY DEF Pump, PumpAllowance, PumpLeftover, PumpParks, PumpUnparks, PumpPolls, PumpReads,
           PumpVacates, gateVars, runVars, inletVars
<1>2. Gated'
    <2>1. parked' => pump' \in {"parked", "done"}
        BY DEF TerminalInv, Gated, Pump, PumpAllowance, PumpLeftover, PumpParks, PumpUnparks,
               PumpPolls, PumpReads, PumpVacates, gateVars
    <2>2. parked /\ requested => parked'
        BY DEF Pump, PumpAllowance, PumpLeftover, PumpParks, PumpUnparks,
               PumpPolls, PumpReads, PumpVacates, gateVars
    <2>. QED
        BY <1>1, <2>1, <2>2 DEF TerminalInv, Gated, Owns, Locked
<1>. QED
    BY <1>1, <1>2 DEF TerminalInv, ThreadsOK, HeldSoFar, Owns

\* A step of one command's thread: it alone moves, and only it may be where it is.
LEMMA RunnerKeeps ==
    ASSUME TerminalInv, NEW r \in Runners, Runner(r)
    PROVE  TerminalInv'
<1>. USE DEF TerminalInv, ThreadsOK, Gated, HeldSoFar, Locked, Owns, Having, Phases,
             RunnerGoes, inletVars, terminalVars, gateVars, pumpVars
<1>1. CASE RunnerLocks(r)
    BY <1>1, RunnersAreNotZero DEF RunnerLocks
<1>2. CASE RunnerPauses(r)
    BY <1>2 DEF RunnerPauses
<1>3. CASE RunnerPaused(r)
    BY <1>3 DEF RunnerPaused
<1>4. CASE RunnerHolds(r)
    BY <1>4 DEF RunnerHolds, HoldsAll
<1>5. CASE RunnerRestores(r)
    BY <1>5 DEF RunnerRestores
<1>6. CASE RunnerSpawns(r)
    BY <1>6 DEF RunnerSpawns
<1>7. CASE RunnerSetsRaw(r)
    BY <1>7 DEF RunnerSetsRaw
<1>8. CASE RunnerReleases(r)
    BY <1>8 DEF RunnerReleases, HoldsAll
<1>9. CASE RunnerResumes(r)
    BY <1>9 DEF RunnerResumes
<1>10. CASE RunnerAnswers(r)
    BY <1>10 DEF RunnerAnswers
<1>. QED
    BY <1>1, <1>2, <1>3, <1>4, <1>5, <1>6, <1>7, <1>8, <1>9, <1>10 DEF Runner

\* A `run` read starts a thread, which has locked nothing yet.
LEMMA ReadRunKeeps ==
    ASSUME TerminalInv, ReadRun PROVE TerminalInv'
<1>1. PICK r \in Runners :
          runner[r] = "none" /\ runner' = [runner EXCEPT ![r] = "start"]
    BY DEF ReadRun
<1>2. UNCHANGED <<requested, parked, pump, child, todo, held, inlets>>
    BY DEF ReadRun, Receives, gateVars, pumpVars
<1>3. ThreadsOK' /\ \A t \in Runners : runner'[t] = runner[t] \/ t = r
    BY <1>1, <1>2 DEF TerminalInv, ThreadsOK, Phases
<1>4. runner'[r] = "start"
    BY <1>1 DEF TerminalInv, ThreadsOK
<1>. QED
    BY <1>1, <1>2, <1>3, <1>4 DEF TerminalInv, Gated, HeldSoFar, Locked, Owns, Having

LEMMA TerminalInvNext == TerminalInv /\ [Next]_vars => TerminalInv'
<1>. SUFFICES ASSUME TerminalInv, [Next]_vars PROVE TerminalInv'
    OBVIOUS
<1>. USE DEF gateVars, terminalVars, pumpVars, creditVars, runVars, inletVars, drainVars
<1>1. CASE UNCHANGED vars \/ Terminated
    BY <1>1, OthersKeep DEF vars, Terminated
<1>2. CASE Pump
    BY <1>2, PumpKeeps
<1>3. CASE Reader
    <2>1. CASE ReadRun
        BY <2>1, ReadRunKeeps
    <2>2. CASE ReadData \/ ReadEnd \/ ReadCredit \/ ReadClosed \/ ReadMode \/ ReadExitStatus
        BY <2>2, OthersKeep
        DEF ReadData, ReadEnd, ReadCredit, ReadClosed, ReadMode, ReadExitStatus, Receives
    <2>3. CASE ReadFails \/ ReaderCloses \/ ReaderReleases
        BY <2>3, OthersKeep DEF ReadFails, ReaderCloses, ReaderReleases, ReaderGoes
    <2>. QED
        BY <1>3, <2>1, <2>2, <2>3 DEF Reader
<1>4. CASE Main
    BY <1>4, OthersKeep DEF Main, MainWaits, MainRestores, MainExits, MainGoes
<1>5. CASE User
    BY <1>5, OthersKeep DEF User, UserTypes, UserHangsUp, launcherVars
<1>6. CASE Daemon
    BY <1>6, OthersKeep
    DEF Daemon, DaemonGrants, DaemonCloses, DaemonModes, DaemonRuns, DaemonExits, Disconnect,
        DaemonWrites, DaemonEnds, DaemonSends, launcherVars
<1>7. ASSUME NEW r \in Runners, Runner(r) PROVE TerminalInv'
    BY <1>7, RunnerKeeps
<1>8. ASSUME NEW r \in Runners, Command(r) PROVE TerminalInv'
    <2>1. CASE CommandReads(r)
        BY <2>1, OthersKeep DEF CommandReads
    <2>2. CASE CommandEnds(r)
        BY <2>2 DEF CommandEnds, RunnerGoes, TerminalInv, ThreadsOK, Gated, HeldSoFar, Locked,
                    Owns, Having, Phases
    <2>. QED
        BY <1>8, <2>1, <2>2 DEF Command
<1>9. ASSUME NEW s \in Outputs, Drain(s) PROVE TerminalInv'
    BY <1>9, OthersKeep DEF Drain, DrainTakes, DrainWrites
<1>. QED
    BY <1>1, <1>2, <1>3, <1>4, <1>5, <1>6, <1>7, <1>8, <1>9 DEF Next

\* A command the daemon asks to run on the terminal reads it uncontested: from its pause's end
\* to its resume the pump is parked or gone, and no other command has it (session.rs:277-281).
THEOREM CommandUncontested == Spec => []Uncontested
<1>1. TerminalInv => Uncontested
    BY DEF TerminalInv, ThreadsOK, Gated, Uncontested, Owns, Locked, Phases
<1>. QED
    BY TerminalInvInit, TerminalInvNext, <1>1, PTL DEF Spec

-----------------------------------------------------------------------------
(* What the socket holds, weighed: `weight` gives each document what it    *)
(* counts for.                                                             *)

Wire == [type : Types, stream : Outputs \cup {NoStream}, bytes : 0..WINDOW]

Weighed(q, weight) == {p \in (DOMAIN q) \X (1..WINDOW) : p[2] <= weight[q[p[1]]]}
Load(q, weight) == Cardinality(Weighed(q, weight))

LEMMA DisjointUnion ==
    ASSUME NEW A, NEW B, IsFiniteSet(A), IsFiniteSet(B), A \cap B = {}
    PROVE  Cardinality(A \cup B) = Cardinality(A) + Cardinality(B)
<1>1. Cardinality(A \cup B) = Cardinality(A) + Cardinality(B) - Cardinality(A \cap B)
    BY FS_Union
<1>2. Cardinality(A \cap B) = 0
    BY FS_EmptySet
<1>. QED
    BY <1>1, <1>2, FS_CardinalityType

LEMMA WeighedFinite ==
    ASSUME NEW q \in Seq(Wire), NEW weight
    PROVE  IsFiniteSet(Weighed(q, weight)) /\ Load(q, weight) \in Nat
<1>1. IsFiniteSet(1..Len(q)) /\ IsFiniteSet(1..WINDOW) /\ DOMAIN q = 1..Len(q)
    BY FS_Interval, TerminalAssumption
<1>2. IsFiniteSet((DOMAIN q) \X (1..WINDOW))
    BY <1>1, FS_Product, Zenon
<1>3. Weighed(q, weight) \in SUBSET ((DOMAIN q) \X (1..WINDOW))
    BY DEF Weighed
<1>4. IsFiniteSet(Weighed(q, weight))
    BY <1>2, <1>3, FS_Subset
<1>. QED
    BY <1>4, FS_CardinalityType DEF Load, Weighed

LEMMA LoadOfEmpty ==
    ASSUME NEW weight PROVE Load(<<>>, weight) = 0
<1>1. {p \in (DOMAIN <<>>) \X (1..WINDOW) : p[2] <= weight[<<>>[p[1]]]} = {}
    OBVIOUS
<1>. QED
    BY <1>1, FS_EmptySet DEF Load, Weighed

\* A document's share, at any place in the queue, numbers its weight.
LEMMA OneShare ==
    ASSUME NEW n \in 0..WINDOW, NEW i \in Nat
    PROVE  LET S == {p \in {i} \X (1..WINDOW) : p[2] <= n}
           IN  IsFiniteSet(S) /\ Cardinality(S) = n
<1> DEFINE S == {p \in {i} \X (1..WINDOW) : p[2] <= n}
           f == [k \in 1..n |-> <<i, k>>]
<1>1. IsFiniteSet(1..n) /\ Cardinality(1..n) = n
    BY FS_Interval
<1>2. S = {<<i, k>> : k \in 1..n}
    BY TerminalAssumption
<1>3. f \in Bijection(1..n, S)
    BY <1>2, Fun_IsBij, Zenon
<1>. QED
    BY <1>1, <1>3, FS_Bijection DEF ExistsBijection

LEMMA LoadOfAppend ==
    ASSUME NEW q \in Seq(Wire), NEW d \in Wire, NEW weight \in [Wire -> 0..WINDOW]
    PROVE  /\ Append(q, d) \in Seq(Wire) /\ Load(q, weight) \in Nat /\ weight[d] \in Nat
           /\ Load(Append(q, d), weight) = Load(q, weight) + weight[d]
<1> DEFINE n == Len(q) + 1
           S == {p \in {n} \X (1..WINDOW) : p[2] <= weight[d]}
<1>1. IsFiniteSet(S) /\ Cardinality(S) = weight[d]
    <2>1. n \in Nat /\ weight[d] \in 0..WINDOW
        OBVIOUS
    <2> HIDE DEF n
    <2>. QED
        BY <2>1, OneShare
<1>2. IsFiniteSet(Weighed(q, weight)) /\ Load(q, weight) \in Nat
    BY WeighedFinite
<1>3. Weighed(Append(q, d), weight) = Weighed(q, weight) \cup S
    <2>1. /\ DOMAIN q = 1..Len(q) /\ DOMAIN Append(q, d) = 1..n
          /\ Append(q, d)[n] = d /\ \A i \in 1..Len(q) : Append(q, d)[i] = q[i]
        OBVIOUS
    <2>. QED
        BY <2>1 DEF Weighed
<1>4. Weighed(q, weight) \cap S = {}
    BY DEF Weighed
<1>5. Cardinality(Weighed(Append(q, d), weight)) = Cardinality(Weighed(q, weight)) + Cardinality(S)
    <2> HIDE DEF S
    <2>. QED
        BY <1>1, <1>2, <1>3, <1>4, DisjointUnion
<1>6. Append(q, d) \in Seq(Wire) /\ weight[d] \in Nat
    BY TerminalAssumption
<1>. QED
    BY <1>1, <1>2, <1>5, <1>6 DEF Load, Weighed

LEMMA LoadOfTail ==
    ASSUME NEW q \in Seq(Wire), q # <<>>, NEW weight \in [Wire -> 0..WINDOW]
    PROVE  /\ Head(q) \in Wire /\ Tail(q) \in Seq(Wire)
           /\ Load(Tail(q), weight) \in Nat /\ weight[Head(q)] \in Nat
           /\ Load(q, weight) = weight[Head(q)] + Load(Tail(q), weight)
<1> DEFINE d == Head(q)
           S == {p \in {1} \X (1..WINDOW) : p[2] <= weight[d]}
           T == Weighed(q, weight) \ S
           f == [p \in Weighed(Tail(q), weight) |-> <<p[1] + 1, p[2]>>]
<1>0. d \in Wire /\ Tail(q) \in Seq(Wire) /\ weight[d] \in 0..WINDOW /\ weight[d] \in Nat
    BY TerminalAssumption
<1>1. IsFiniteSet(S) /\ Cardinality(S) = weight[d]
    BY <1>0, OneShare
<1>2. /\ IsFiniteSet(Weighed(q, weight))
      /\ IsFiniteSet(Weighed(Tail(q), weight)) /\ Load(Tail(q), weight) \in Nat
    BY <1>0, WeighedFinite
<1>3. /\ DOMAIN q = 1..Len(q) /\ q[1] = d /\ Len(q) \in Nat /\ Len(q) >= 1
      /\ DOMAIN Tail(q) = 1..(Len(q) - 1)
      /\ \A i \in 1..(Len(q) - 1) : Tail(q)[i] = q[i + 1]
    OBVIOUS
<1>4. S \subseteq Weighed(q, weight)
    BY <1>3 DEF Weighed
<1>5. f \in Bijection(Weighed(Tail(q), weight), T)
    <2>1. f \in [Weighed(Tail(q), weight) -> T]
        BY <1>3 DEF Weighed
    <2>2. \A a, b \in Weighed(Tail(q), weight) : f[a] = f[b] => a = b
        <3>1. \A a \in Weighed(Tail(q), weight) : a = <<a[1], a[2]>> /\ a[1] \in Nat
            BY <1>3 DEF Weighed
        <3>. QED
            BY <3>1
    <2>3. \A t \in T : \E p \in Weighed(Tail(q), weight) : f[p] = t
        <3> SUFFICES ASSUME NEW t \in T
                     PROVE  \E p \in Weighed(Tail(q), weight) : f[p] = t
            OBVIOUS
        <3>1. t[1] \in 2..Len(q) /\ t[2] \in 1..WINDOW /\ t = <<t[1], t[2]>>
            BY <1>3 DEF Weighed
        <3>2. <<t[1] - 1, t[2]>> \in Weighed(Tail(q), weight)
            BY <1>3, <3>1 DEF Weighed
        <3>. QED
            BY <3>1, <3>2
    <2>. QED
        BY <2>1, <2>2, <2>3, Fun_IsBij, Zenon
<1>6. Cardinality(T) = Cardinality(Weighed(Tail(q), weight))
    BY <1>2, <1>5, FS_Bijection DEF ExistsBijection
<1>7. Cardinality(Weighed(q, weight)) = Cardinality(T) + Cardinality(S)
    <2> HIDE DEF S
    <2>1. T \in SUBSET Weighed(q, weight) /\ T \cap S = {} /\ T \cup S = Weighed(q, weight)
        BY <1>4
    <2>2. IsFiniteSet(T)
        BY <1>2, <2>1, FS_Subset
    <2> HIDE DEF T
    <2>. QED
        BY <1>1, <2>1, <2>2, DisjointUnion
<1>8. /\ Load(q, weight) = Cardinality(Weighed(q, weight))
      /\ Load(Tail(q), weight) = Cardinality(Weighed(Tail(q), weight))
    BY DEF Load, Weighed
<1> HIDE DEF S, T, f
<1>. QED
    BY <1>0, <1>1, <1>2, <1>6, <1>7, <1>8

\* The credit a document grants, and the chunks of one output it is.
Grants == [d \in Wire |-> IF d.type = "credit" THEN d.bytes ELSE 0]
Chunk(s) == [d \in Wire |-> IF d.type = "data" /\ d.stream = s THEN 1 ELSE 0]

LEMMA Weights ==
    /\ Grants \in [Wire -> 0..WINDOW] /\ \A s : Chunk(s) \in [Wire -> 0..WINDOW]
    /\ \A s \in Outputs \cup {NoStream}, n \in 0..WINDOW :
         \A type \in Types :
             /\ Doc(type, s, n) \in Wire
             /\ Grants[Doc(type, s, n)] = IF type = "credit" THEN n ELSE 0
             /\ \A t : Chunk(t)[Doc(type, s, n)] = IF type = "data" /\ s = t THEN 1 ELSE 0
<1>1. 0 \in 0..WINDOW /\ 1 \in 0..WINDOW
    BY TerminalAssumption
<1>2. \A d \in Wire : d.bytes \in 0..WINDOW
    BY DEF Wire
<1>3. Grants \in [Wire -> 0..WINDOW] /\ \A s : Chunk(s) \in [Wire -> 0..WINDOW]
    BY <1>1, <1>2 DEF Grants, Chunk
<1>4. ASSUME NEW s \in Outputs \cup {NoStream}, NEW n \in 0..WINDOW, NEW type \in Types
      PROVE  Doc(type, s, n) \in Wire
    BY DEF Doc, Wire
<1>. QED
    BY <1>3, <1>4 DEF Grants, Chunk, Doc

-----------------------------------------------------------------------------
(* The types: the bounds among them say that no credit, chunk or answer is *)
(* made on the way.                                                        *)

\* Stdin's window is spent, outstanding or on its way back, and the pump never has more
\* allowance than credit.
Charged ==
    /\ credit + dbuffer + Load(down, Grants) <= WINDOW
    /\ pump \in {"leftover", "park", "parked", "poll", "read"} => allowed <= credit

\* An output's chunks are written, in its drain's hands, in its queue or on the wire.
Counted ==
    \A s \in Outputs :
        output[s] + (IF drain[s] = "write" THEN 1 ELSE 0) + queue[s] + Load(down, Chunk(s))
            <= dwritten[s]

Finished == {r \in Runners : runner[r] = "done"}
Answered == answers <= Cardinality(Finished)

TermInv == TypeOK /\ down \in Seq(Wire) /\ Charged /\ Counted /\ Answered

LEMMA FinishedIsFew == IsFiniteSet(Finished) /\ Cardinality(Finished) \in 0..Runs
<1>1. IsFiniteSet(Runners) /\ Cardinality(Runners) = Runs /\ Runs \in Nat
    BY FS_Interval, TerminalAssumption DEF Runners
<1>2. Finished \in SUBSET Runners
    BY DEF Finished
<1>3. IsFiniteSet(Finished) /\ Cardinality(Finished) <= Cardinality(Runners)
    BY <1>1, <1>2, FS_Subset
<1>. QED
    BY <1>1, <1>3, FS_CardinalityType

LEMMA LoadsAreNumbers ==
    ASSUME down \in Seq(Wire)
    PROVE  Load(down, Grants) \in Nat /\ \A s : Load(down, Chunk(s)) \in Nat
BY WeighedFinite

LEMMA TermInvInit == Init => TermInv
<1>. SUFFICES ASSUME Init PROVE TermInv
    OBVIOUS
<1>. USE TerminalAssumption
<1>1. down = <<>> /\ down \in Seq(Wire) /\ Len(down) = 0 /\ sent = <<>> /\ sent \in Seq(1..Keys)
    BY DEF Init
<1>2. Load(down, Grants) = 0 /\ \A s : Load(down, Chunk(s)) = 0
    BY <1>1, LoadOfEmpty
<1>3. pending \in 0..Keys
    BY DEF Init
<1>4. TypeOK
    <2>0. typed = pending /\ front = pending /\ allowed = 0 /\ credit = WINDOW
        BY DEF Init
    <2>1. /\ typed \in 0..Keys /\ front \in 0..typed /\ pending \in 0..front
          /\ allowed \in 0..MAXIMUM_CHUNK /\ credit \in 0..WINDOW
        BY <1>3, <2>0
    <2>2. /\ inlets \subseteq Outputs /\ queue \in [Outputs -> 0..Output]
          /\ ended \in [Outputs -> BOOLEAN] /\ held \in [Outputs -> BOOLEAN]
          /\ drain \in [Outputs -> {"wait", "write", "done"}] /\ output \in [Outputs -> 0..Output]
          /\ dwritten \in [Outputs -> 0..Output]
        BY DEF Init
    <2>3. /\ \A i \in 1..Len(down) : down[i].type \in Types
          /\ dbuffer \in 0..WINDOW /\ dmodes \in 0..Modes /\ druns \in 0..Runs
          /\ child \in 0..Runs /\ answers \in 0..Runs
        BY <1>1 DEF Init
    <2>. QED
        BY <1>1, <2>1, <2>2, <2>3 DEF Init, TypeOK
<1>5. Charged
    BY <1>2 DEF Init, Charged
<1>6. Counted
    BY <1>2 DEF Init, Counted
<1>7. Answered
    BY FinishedIsFew DEF Init, Answered
<1>. QED
    BY <1>1, <1>4, <1>5, <1>6, <1>7 DEF TermInv

LEMMA Joined ==
    ASSUME NEW S, NEW a \in Seq(S), NEW b \in Seq(S) PROVE a \o b \in Seq(S)
OBVIOUS

\* What is carried has been charged first.
LEMMA CarryTypes ==
    ASSUME TermInv, NEW from \in Nat, NEW n \in Nat, from + n <= Keys, n <= credit,
           Carry(from, n), down' = down
    PROVE  /\ sent' \in Seq(1..Keys) /\ credit' \in 0..WINDOW /\ dbuffer' \in 0..WINDOW
           /\ credit' + dbuffer' + Load(down', Grants) <= WINDOW
<1> DEFINE added == [i \in 1..n |-> from + i]
<1>1. /\ credit \in Nat /\ dbuffer \in Nat /\ Load(down, Grants) \in Nat /\ WINDOW \in Nat
      /\ credit + dbuffer + Load(down, Grants) <= WINDOW /\ Load(down', Grants) = Load(down, Grants)
    BY LoadsAreNumbers, TerminalAssumption DEF TermInv, TypeOK, Charged
<1>2. credit' = credit - n
    BY <1>1 DEF Carry
<1>3. dbuffer' = dbuffer \/ dbuffer' = dbuffer + n
    BY DEF Carry
<1>4. added \in Seq(1..Keys)
    BY TerminalAssumption
<1>5. sent' = sent \/ sent' = sent \o added
    BY DEF Carry
<1> HIDE DEF added
<1>6. sent \in Seq(1..Keys)
    BY DEF TermInv, TypeOK
<1>7. sent' \in Seq(1..Keys)
    BY <1>4, <1>5, <1>6, Joined
<1>. QED
    BY <1>1, <1>2, <1>3, <1>7

LEMMA PumpKeepsTypes == TermInv /\ Pump => TermInv'
<1>. SUFFICES ASSUME TermInv, Pump PROVE TermInv'
    OBVIOUS
<1>. USE DEF gateVars, terminalVars, creditVars, runVars, inletVars, drainVars, wireVars, daemonVars
<1>1. /\ UNCHANGED <<requested, mode, typed, hungup, open, runVars, inletVars, drainVars>>
      /\ UNCHANGED <<reader, main, wireVars, dwritten, dended, dmodes, druns, dexit>>
    BY DEF Pump, PumpAllowance, PumpLeftover, PumpParks, PumpUnparks, PumpPolls, PumpReads,
           PumpVacates, Carry
<1>2. down' \in Seq(Wire) /\ Counted' /\ Answered'
    BY <1>1 DEF TermInv, Counted, Answered, Finished
<1>3. ASSUME /\ parked' \in BOOLEAN /\ front' \in 0..typed
             /\ pump' \in {"allowance", "leftover", "park", "parked", "poll", "read", "vacate", "done"}
             /\ allowed' \in 0..MAXIMUM_CHUNK /\ pending' \in 0..front' /\ sent' \in Seq(1..Keys)
             /\ credit' \in 0..WINDOW /\ dbuffer' \in 0..WINDOW
      PROVE  TypeOK'
    BY <1>1, <1>3 DEF TermInv, TypeOK
<1>4. /\ typed \in 0..Keys /\ front \in 0..typed /\ pending \in 0..front /\ Keys \in Nat
      /\ allowed \in 0..MAXIMUM_CHUNK /\ MAXIMUM_CHUNK \in 1..WINDOW /\ WINDOW \in Nat
      /\ credit \in 0..WINDOW /\ dbuffer \in 0..WINDOW /\ parked \in BOOLEAN
      /\ sent \in Seq(1..Keys)
    BY TerminalAssumption DEF TermInv, TypeOK
<1>5. CASE PumpAllowance
    <2>1. allowed' = allowed \/ allowed' = Least(credit, MAXIMUM_CHUNK)
        BY <1>5 DEF PumpAllowance
    <2>2. allowed' \in 0..MAXIMUM_CHUNK
        BY <1>4, <2>1 DEF Least
    <2>3. TypeOK'
        BY <1>3, <1>4, <1>5, <2>2 DEF PumpAllowance
    <2>4. Charged'
        BY <1>1, <1>4, <1>5 DEF TermInv, Charged, PumpAllowance, Least
    <2>. QED
        BY <1>2, <2>3, <2>4 DEF TermInv
<1>6. CASE PumpLeftover
    <2> DEFINE take == Least(allowed, pending)
    <2>1. take \in Nat /\ take <= pending /\ take <= allowed
        BY <1>4 DEF Least
    <2>2. /\ pump = "leftover" /\ pump' = "allowance" /\ Carry(front - pending, take)
          /\ pending' = pending - take /\ front' = front /\ allowed' = allowed /\ parked' = parked
        BY <1>6 DEF PumpLeftover
    <2> HIDE DEF take
    <2>3. front - pending \in Nat /\ (front - pending) + take <= Keys /\ take <= credit
        BY <1>4, <2>1, <2>2 DEF TermInv, Charged
    <2>4. /\ sent' \in Seq(1..Keys) /\ credit' \in 0..WINDOW /\ dbuffer' \in 0..WINDOW
          /\ credit' + dbuffer' + Load(down', Grants) <= WINDOW
        BY <1>1, <2>1, <2>2, <2>3, CarryTypes
    <2>5. TypeOK'
        BY <1>3, <1>4, <2>1, <2>2, <2>4
    <2>. QED
        BY <1>2, <2>2, <2>4, <2>5 DEF TermInv, Charged
<1>7. CASE PumpParks \/ PumpUnparks \/ PumpPolls \/ PumpVacates
    <2>1. TypeOK'
        BY <1>3, <1>4, <1>7 DEF PumpParks, PumpUnparks, PumpPolls, PumpVacates
    <2>2. Charged'
        BY <1>1, <1>7 DEF TermInv, Charged, PumpParks, PumpUnparks, PumpPolls, PumpVacates
    <2>. QED
        BY <1>2, <2>1, <2>2 DEF TermInv
<1>8. CASE PumpReads
    <2>1. CASE pump' = "vacate"
        <3>1. UNCHANGED <<parked, front, allowed, pending, sent, credit, dbuffer>>
            BY <1>8, <2>1 DEF PumpReads
        <3>. QED
            BY <1>1, <1>2, <1>3, <1>4, <2>1, <3>1 DEF TermInv, Charged
    <2>2. ASSUME NEW n \in 1..Least(allowed, typed - front), Carry(front, n),
                 front' = front + n, pump' = "allowance"
          PROVE  TermInv'
        <3>1. UNCHANGED <<parked, allowed, pending>> /\ pump = "read"
            BY <1>8 DEF PumpReads
        <3>2. n \in Nat /\ n <= allowed /\ n <= typed - front
            BY <1>4 DEF Least
        <3>3. front \in Nat /\ front + n <= Keys /\ n <= credit
            BY <1>4, <3>1, <3>2 DEF TermInv, Charged
        <3>4. /\ sent' \in Seq(1..Keys) /\ credit' \in 0..WINDOW /\ dbuffer' \in 0..WINDOW
              /\ credit' + dbuffer' + Load(down', Grants) <= WINDOW
            BY <1>1, <2>2, <3>2, <3>3, CarryTypes
        <3>5. TypeOK'
            BY <1>3, <1>4, <2>2, <3>1, <3>2, <3>4
        <3>. QED
            BY <1>2, <2>2, <3>4, <3>5 DEF TermInv, Charged
    <2>. QED
        BY <1>8, <2>1, <2>2 DEF PumpReads
<1>. QED
    BY <1>5, <1>6, <1>7, <1>8 DEF Pump

\* What leaves the sums alone leaves them true.
LEMMA SumsKept ==
    ASSUME TermInv, TypeOK', Finished' = Finished,
           UNCHANGED <<credit, dbuffer, down, pump, allowed, output, drain, queue, dwritten, answers>>
    PROVE  TermInv'
BY DEF TermInv, Charged, Counted, Answered

LEMMA RunnerKeepsTypes ==
    ASSUME TermInv, NEW r \in Runners, Runner(r) \/ Command(r)
    PROVE  TermInv'
<1>. USE DEF gateVars, terminalVars, pumpVars, creditVars, inletVars, drainVars, wireVars, daemonVars
<1>1. /\ UNCHANGED <<parked, typed, hungup, pumpVars, creditVars, inlets, queue, ended>>
      /\ UNCHANGED <<drainVars, reader, main, wireVars, daemonVars>>
    BY DEF Runner, RunnerLocks, RunnerPauses, RunnerPaused, RunnerHolds, HoldsAll, RunnerRestores,
           RunnerSpawns, RunnerSetsRaw, RunnerReleases, RunnerResumes, RunnerAnswers, RunnerGoes,
           Command, CommandReads, CommandEnds
<1>2. r \in 1..Runs /\ Runs \in Nat /\ 0 \in 0..Runs /\ r \in 0..Runs
    BY TerminalAssumption DEF Runners
<1>3. ASSUME /\ requested' \in BOOLEAN /\ mode' \in {"saved", "raw", "cooked"}
             /\ front' \in 0..typed /\ pending \in 0..front' /\ runner' \in [Runners -> Phases]
             /\ child' \in 0..Runs /\ todo' \subseteq Outputs /\ eaten' \subseteq 1..Keys
             /\ answers' \in 0..Runs /\ held' \in [Outputs -> BOOLEAN]
      PROVE  TypeOK'
    BY <1>1, <1>3 DEF TermInv, TypeOK, Phases
<1>4. /\ requested \in BOOLEAN /\ mode \in {"saved", "raw", "cooked"}
      /\ front \in 0..typed /\ pending \in 0..front /\ runner \in [Runners -> Phases]
      /\ child \in 0..Runs /\ todo \subseteq Outputs /\ eaten \subseteq 1..Keys
      /\ answers \in 0..Runs /\ held \in [Outputs -> BOOLEAN]
      /\ typed \in 0..Keys /\ Keys \in Nat
    BY TerminalAssumption DEF TermInv, TypeOK, Phases
<1>5. ASSUME NEW to \in Phases \ {"done"}, runner[r] # "done", runner' = [runner EXCEPT ![r] = to]
      PROVE  runner' \in [Runners -> Phases] /\ Finished' = Finished
    BY <1>4, <1>5 DEF Finished
<1>6. ASSUME runner' = runner PROVE Finished' = Finished
    BY <1>6 DEF Finished
<1>7. CASE RunnerLocks(r)
    <2>1. /\ runner[r] = "start" /\ runner' = [runner EXCEPT ![r] = "pause"] /\ child' = r
          /\ UNCHANGED <<requested, mode, front, todo, eaten, answers, held>>
        BY <1>7 DEF RunnerLocks, RunnerGoes
    <2>2. runner' \in [Runners -> Phases] /\ Finished' = Finished
        BY <1>5, <2>1 DEF Phases
    <2>. QED
        BY <1>1, <1>2, <1>3, <1>4, <2>1, <2>2, SumsKept
<1>8. CASE RunnerPauses(r)
    <2>1. /\ runner[r] = "pause" /\ runner' = [runner EXCEPT ![r] = "pausing"] /\ requested' = TRUE
          /\ UNCHANGED <<mode, front, child, todo, eaten, answers, held>>
        BY <1>8 DEF RunnerPauses, RunnerGoes
    <2>2. runner' \in [Runners -> Phases] /\ Finished' = Finished
        BY <1>5, <2>1 DEF Phases
    <2>. QED
        BY <1>1, <1>3, <1>4, <2>1, <2>2, SumsKept
<1>9. CASE RunnerPaused(r)
    <2>1. /\ runner[r] = "pausing" /\ runner' = [runner EXCEPT ![r] = "hold"] /\ todo' = Outputs
          /\ UNCHANGED <<requested, mode, front, child, eaten, answers, held>>
        BY <1>9 DEF RunnerPaused, RunnerGoes
    <2>2. runner' \in [Runners -> Phases] /\ Finished' = Finished
        BY <1>5, <2>1 DEF Phases
    <2>. QED
        BY <1>1, <1>3, <1>4, <2>1, <2>2, SumsKept
<1>10. ASSUME NEW from \in Phases \ {"done"}, NEW to \in Phases \ {"done"}, NEW hold \in BOOLEAN,
              HoldsAll(r, from, hold, to)
       PROVE  TermInv'
    <2>1. /\ runner[r] = from /\ (runner' = runner \/ runner' = [runner EXCEPT ![r] = to])
          /\ todo' \subseteq todo
          /\ held' = held \/ \E s \in todo : held' = [held EXCEPT ![s] = hold]
          /\ UNCHANGED <<requested, mode, front, child, eaten, answers>>
        BY <1>10 DEF HoldsAll
    <2>2. runner' \in [Runners -> Phases] /\ Finished' = Finished
        BY <1>4, <1>5, <1>6, <2>1
    <2>3. held' \in [Outputs -> BOOLEAN] /\ todo' \subseteq Outputs
        BY <1>4, <2>1
    <2>. QED
        BY <1>1, <1>3, <1>4, <2>1, <2>2, <2>3, SumsKept
<1>11. CASE RunnerHolds(r) \/ RunnerReleases(r)
    <2>1. /\ "hold" \in Phases \ {"done"} /\ "restore" \in Phases \ {"done"}
          /\ "release" \in Phases \ {"done"} /\ "resume" \in Phases \ {"done"}
        BY DEF Phases
    <2>. QED
        BY <1>10, <1>11, <2>1 DEF RunnerHolds, RunnerReleases
<1>12. CASE RunnerRestores(r) \/ RunnerSpawns(r) \/ CommandEnds(r)
    <2>1. /\ runner[r] # "done"
          /\ \E to \in Phases \ {"done"} : runner' = [runner EXCEPT ![r] = to]
          /\ mode' = mode \/ mode' = "saved"
          /\ UNCHANGED <<requested, front, child, todo, eaten, answers, held>>
        BY <1>12 DEF RunnerRestores, RunnerSpawns, CommandEnds, RunnerGoes, Phases
    <2>2. runner' \in [Runners -> Phases] /\ Finished' = Finished
        BY <1>5, <2>1
    <2>3. mode' \in {"saved", "raw", "cooked"}
        BY <1>4, <2>1
    <2>. QED
        BY <1>1, <1>3, <1>4, <2>1, <2>2, <2>3, SumsKept
<1>13. CASE RunnerSetsRaw(r)
    <2>1. /\ runner[r] = "raw" /\ runner' = [runner EXCEPT ![r] = "release"] /\ todo' = Outputs
          /\ mode' = mode \/ mode' = "raw"
          /\ UNCHANGED <<requested, front, child, eaten, answers, held>>
        BY <1>13 DEF RunnerSetsRaw, RunnerGoes
    <2>2. runner' \in [Runners -> Phases] /\ Finished' = Finished
        BY <1>5, <2>1 DEF Phases
    <2>3. mode' \in {"saved", "raw", "cooked"}
        BY <1>4, <2>1
    <2>. QED
        BY <1>1, <1>3, <1>4, <2>1, <2>2, <2>3, SumsKept
<1>14. CASE RunnerResumes(r)
    <2>1. /\ runner[r] = "resume" /\ runner' = [runner EXCEPT ![r] = "answer"] /\ requested' = FALSE
          /\ UNCHANGED <<mode, front, child, todo, eaten, answers, held>>
        BY <1>14 DEF RunnerResumes, RunnerGoes
    <2>2. runner' \in [Runners -> Phases] /\ Finished' = Finished
        BY <1>5, <2>1 DEF Phases
    <2>. QED
        BY <1>1, <1>3, <1>4, <2>1, <2>2, SumsKept
<1>15. CASE RunnerAnswers(r)
    <2>1. /\ runner[r] = "answer" /\ runner' = [runner EXCEPT ![r] = "done"] /\ child' = 0
          /\ answers' = answers \/ answers' = answers + 1
          /\ UNCHANGED <<requested, mode, front, todo, eaten, held>>
        BY <1>15 DEF RunnerAnswers, RunnerGoes
    <2>2. runner' \in [Runners -> Phases] /\ Finished' = Finished \cup {r} /\ r \notin Finished
        BY <1>4, <2>1 DEF Finished, Phases
    <2>3. Cardinality(Finished') = Cardinality(Finished) + 1 /\ Cardinality(Finished) \in 0..Runs
        BY <2>2, FinishedIsFew, FS_AddElement
    <2>4. Cardinality(Finished') \in 0..Runs
        <3>1. Finished' \in SUBSET (1..Runs) /\ IsFiniteSet(1..Runs) /\ Cardinality(1..Runs) = Runs
            BY <1>2, FS_Interval DEF Finished, Runners
        <3>2. Cardinality(Finished') <= Cardinality(1..Runs)
            BY <3>1, FS_Subset
        <3>. QED
            BY <1>2, <2>3, <3>1, <3>2
    <2>5. answers' \in 0..Runs /\ answers' <= Cardinality(Finished')
        BY <1>2, <1>4, <2>1, <2>3, <2>4 DEF TermInv, Answered
    <2>6. TypeOK'
        BY <1>2, <1>3, <1>4, <2>1, <2>2, <2>5
    <2>. QED
        BY <1>1, <2>5, <2>6 DEF TermInv, Charged, Counted, Answered
<1>16. CASE CommandReads(r)
    <2>1. /\ front' = front + 1 /\ front < typed /\ eaten' = eaten \cup {front + 1}
          /\ UNCHANGED <<requested, mode, runner, child, todo, answers, held>>
        BY <1>16 DEF CommandReads
    <2>2. front' \in 0..typed /\ pending \in 0..front' /\ eaten' \subseteq 1..Keys
        BY <1>4, <2>1
    <2>. QED
        BY <1>1, <1>3, <1>4, <1>6, <2>1, <2>2, SumsKept
<1>. QED
    BY <1>7, <1>8, <1>9, <1>11, <1>12, <1>13, <1>14, <1>15, <1>16 DEF Runner, Command

LEMMA DrainKeepsTypes ==
    ASSUME TermInv, NEW s \in Outputs, Drain(s)
    PROVE  TermInv'
<1>. USE DEF gateVars, terminalVars, pumpVars, creditVars, runVars, inletVars, wireVars, daemonVars
<1>1. /\ UNCHANGED <<gateVars, terminalVars, pumpVars, creditVars, runVars, inlets, ended, held>>
      /\ UNCHANGED <<reader, main, wireVars, daemonVars>>
    BY DEF Drain, DrainTakes, DrainWrites
<1>2. /\ queue \in [Outputs -> 0..Output] /\ drain \in [Outputs -> {"wait", "write", "done"}]
      /\ output \in [Outputs -> 0..Output] /\ dwritten \in [Outputs -> 0..Output] /\ Output \in Nat
      /\ \A t : Load(down, Chunk(t)) \in Nat
    BY LoadsAreNumbers, TerminalAssumption DEF TermInv, TypeOK
<1>3. /\ queue' \in [Outputs -> 0..Output] /\ drain' \in [Outputs -> {"wait", "write", "done"}]
      /\ output' \in [Outputs -> Nat] /\ Counted'
    <2>1. \A t \in Outputs :
              output[t] + (IF drain[t] = "write" THEN 1 ELSE 0) + queue[t] + Load(down, Chunk(t))
                  <= dwritten[t]
        BY DEF TermInv, Counted
    <2>2. CASE DrainTakes(s)
        <3>1. /\ drain[s] = "wait" /\ output' = output
              /\ \/ /\ queue[s] > 0 /\ queue' = [queue EXCEPT ![s] = queue[s] - 1]
                    /\ drain' = [drain EXCEPT ![s] = "write"]
                 \/ queue' = queue /\ drain' = [drain EXCEPT ![s] = "done"]
            BY <2>2 DEF DrainTakes
        <3>. QED
            BY <1>1, <1>2, <2>1, <3>1 DEF Counted
    <2>3. CASE DrainWrites(s)
        <3>1. /\ drain[s] = "write" /\ queue' = queue /\ drain' = [drain EXCEPT ![s] = "wait"]
              /\ output' = [output EXCEPT ![s] = output[s] + 1]
            BY <2>3 DEF DrainWrites
        <3>. QED
            BY <1>1, <1>2, <2>1, <3>1 DEF Counted
    <2>. QED
        BY <2>2, <2>3 DEF Drain
<1>4. output' \in [Outputs -> 0..Output]
    BY <1>1, <1>2, <1>3 DEF Counted
<1>5. TypeOK'
    BY <1>1, <1>3, <1>4 DEF TermInv, TypeOK
<1>. QED
    BY <1>1, <1>3, <1>5 DEF TermInv, Charged, Answered, Finished

LEMMA OnTheWire ==
    ASSUME NEW q \in Seq(Wire) PROVE \A i \in 1..Len(q) : q[i].type \in Types
<1>. SUFFICES ASSUME NEW i \in 1..Len(q) PROVE q[i].type \in Types
    OBVIOUS
<1>1. q[i] \in Wire
    OBVIOUS
<1>. QED
    BY <1>1 DEF Wire

\* What is read leaves the socket.
LEMMA Received ==
    ASSUME TermInv, NEW type, Receives(type)
    PROVE  /\ Head(down) \in Wire /\ Head(down).type = type /\ Head(down).bytes \in Nat
           /\ down' \in Seq(Wire)
           /\ Load(down', Grants) \in Nat
           /\ Load(down, Grants) = Load(down', Grants)
                                     + (IF type = "credit" THEN Head(down).bytes ELSE 0)
           /\ \A s \in Outputs :
                /\ Load(down', Chunk(s)) \in Nat
                /\ Load(down, Chunk(s)) = Load(down', Chunk(s))
                     + (IF type = "data" /\ Head(down).stream = s THEN 1 ELSE 0)
<1> DEFINE d == Head(down)
<1>1. down \in Seq(Wire) /\ down # <<>> /\ d.type = type /\ down' = Tail(down)
    BY DEF TermInv, Receives
<1>2. d \in Wire /\ down' \in Seq(Wire)
    BY <1>1
<1>3. d.bytes \in Nat
    BY <1>2, TerminalAssumption DEF Wire
<1> HIDE DEF d
<1>4. /\ Load(down', Grants) \in Nat /\ Load(down, Grants) = Grants[d] + Load(down', Grants)
    BY <1>1, LoadOfTail, Weights DEF d
<1>5. ASSUME NEW s \in Outputs
      PROVE  /\ Load(down', Chunk(s)) \in Nat
             /\ Load(down, Chunk(s)) = Chunk(s)[d] + Load(down', Chunk(s))
    BY <1>1, LoadOfTail, Weights DEF d
<1>6. /\ Grants[d] = IF type = "credit" THEN d.bytes ELSE 0
      /\ \A s : Chunk(s)[d] = IF type = "data" /\ d.stream = s THEN 1 ELSE 0
    BY <1>1, <1>2 DEF Grants, Chunk
<1>7. Load(down, Grants) = Load(down', Grants) + (IF type = "credit" THEN d.bytes ELSE 0)
    BY <1>3, <1>4, <1>6
<1>8. ASSUME NEW s \in Outputs
      PROVE  Load(down, Chunk(s)) = Load(down', Chunk(s))
                                      + (IF type = "data" /\ d.stream = s THEN 1 ELSE 0)
    BY <1>5, <1>6
<1>. QED
    BY <1>1, <1>2, <1>3, <1>4, <1>5, <1>7, <1>8 DEF d

LEMMA ReaderKeepsTypes == TermInv /\ Reader => TermInv'
<1>. SUFFICES ASSUME TermInv, Reader PROVE TermInv'
    OBVIOUS
<1>. USE DEF gateVars, terminalVars, pumpVars, creditVars, runVars, inletVars, drainVars,
             wireVars, daemonVars
<1>1. /\ UNCHANGED <<gateVars, typed, front, hungup, pumpVars, child, todo, eaten, answers>>
      /\ UNCHANGED <<held, drainVars, main, connected, daemonVars>>
    BY DEF Reader, ReadData, ReadEnd, ReadCredit, ReadClosed, ReadMode, ReadRun, ReadExitStatus,
           ReadFails, ReaderCloses, ReaderReleases, ReaderGoes, Receives
<1>2. /\ queue \in [Outputs -> 0..Output] /\ drain \in [Outputs -> {"wait", "write", "done"}]
      /\ output \in [Outputs -> 0..Output] /\ dwritten \in [Outputs -> 0..Output] /\ Output \in Nat
      /\ Load(down, Grants) \in Nat /\ \A t : Load(down, Chunk(t)) \in Nat
      /\ credit \in 0..WINDOW /\ dbuffer \in 0..WINDOW /\ WINDOW \in Nat
    BY LoadsAreNumbers, TerminalAssumption DEF TermInv, TypeOK
<1>3. \A s \in Outputs :
          output[s] + (IF drain[s] = "write" THEN 1 ELSE 0) + queue[s] + Load(down, Chunk(s))
              <= dwritten[s]
    BY DEF TermInv, Counted
<1>4. CASE ReadData
    <2>1. Receives("data") /\ UNCHANGED <<mode, creditVars, runner, inlets, ended, reader>>
        BY <1>4 DEF ReadData
    <2>2. /\ down' \in Seq(Wire) /\ Load(down', Grants) = Load(down, Grants)
          /\ \A s \in Outputs :
                /\ Load(down', Chunk(s)) \in Nat
                /\ Load(down, Chunk(s)) = Load(down', Chunk(s))
                     + (IF Head(down).stream = s THEN 1 ELSE 0)
        <3>1. /\ down' \in Seq(Wire) /\ Load(down', Grants) \in Nat
              /\ Load(down, Grants) = Load(down', Grants)
                                        + (IF "data" = "credit" THEN Head(down).bytes ELSE 0)
              /\ \A s \in Outputs :
                   /\ Load(down', Chunk(s)) \in Nat
                   /\ Load(down, Chunk(s)) = Load(down', Chunk(s))
                        + (IF "data" = "data" /\ Head(down).stream = s THEN 1 ELSE 0)
            BY <2>1, Received
        <3>. QED
            BY <3>1
    <2>3. \/ queue' = queue
          \/ /\ Head(down).stream \in Outputs
             /\ queue' = [queue EXCEPT ![Head(down).stream] = queue[Head(down).stream] + 1]
        BY <1>4 DEF ReadData, TermInv, TypeOK
    <2>4. queue' \in [Outputs -> Nat]
        BY <1>2, <2>3
    <2>5. ASSUME NEW s \in Outputs
          PROVE  output[s] + (IF drain[s] = "write" THEN 1 ELSE 0) + queue'[s] + Load(down', Chunk(s))
                     <= dwritten[s]
        <3>1. queue'[s] <= queue[s] + (IF Head(down).stream = s THEN 1 ELSE 0)
            BY <1>2, <2>3
        <3>2. /\ output[s] \in Nat /\ queue[s] \in Nat /\ dwritten[s] \in Nat /\ queue'[s] \in Nat
              /\ Load(down', Chunk(s)) \in Nat
            BY <1>2, <2>2, <2>4
        <3>3. Load(down, Chunk(s)) = Load(down', Chunk(s)) + (IF Head(down).stream = s THEN 1 ELSE 0)
            BY <2>2
        <3>4. output[s] + (IF drain[s] = "write" THEN 1 ELSE 0) + queue[s] + Load(down, Chunk(s))
                  <= dwritten[s]
            BY <1>3
        <3>. QED
            BY <3>1, <3>2, <3>3, <3>4
    <2>6. queue' \in [Outputs -> 0..Output]
        <3>1. ASSUME NEW s \in Outputs PROVE queue'[s] \in 0..Output
            <4>1. /\ output[s] \in Nat /\ dwritten[s] \in 0..Output /\ queue'[s] \in Nat
                  /\ Load(down', Chunk(s)) \in Nat
                BY <1>2, <2>2, <2>4
            <4>. QED
                BY <1>2, <2>5, <4>1
        <3>. QED
            BY <2>4, <3>1
    <2>7. TypeOK'
        BY <1>1, <2>1, <2>2, <2>6, OnTheWire DEF TermInv, TypeOK
    <2>. QED
        BY <1>1, <2>1, <2>2, <2>5, <2>7 DEF TermInv, Charged, Counted, Answered, Finished
<1>5. CASE ReadCredit
    <2>1. /\ Receives("credit") /\ UNCHANGED <<mode, open, runner, inlets, queue, ended, reader>>
          /\ credit' = credit \/ credit' = credit + Head(down).bytes
        BY <1>5 DEF ReadCredit
    <2>2. /\ down' \in Seq(Wire) /\ Load(down', Grants) \in Nat /\ Head(down).bytes \in Nat
          /\ Load(down, Grants) = Load(down', Grants) + Head(down).bytes
          /\ \A s \in Outputs : Load(down, Chunk(s)) = Load(down', Chunk(s))
        BY <2>1, Received, <1>2
    <2>3. credit' \in 0..WINDOW /\ credit' >= credit
             /\ credit' + dbuffer + Load(down', Grants) <= WINDOW
        BY <1>2, <2>1, <2>2 DEF TermInv, Charged
    <2>4. TypeOK'
        <3>1. \A i \in 1..Len(down') : down'[i].type \in Types
            BY <2>2, OnTheWire
        <3>2. credit' \in 0..WINDOW
            BY <2>3
        <3>. QED
            BY <1>1, <2>1, <3>1, <3>2 DEF TermInv, TypeOK
    <2>5. Charged'
        <3>1. pump' \in {"leftover", "park", "parked", "poll", "read"} => allowed' <= credit
            BY <1>1 DEF TermInv, Charged
        <3>2. allowed' \in Nat
            BY <1>1, TerminalAssumption DEF TermInv, TypeOK
        <3>. QED
            BY <1>1, <1>2, <2>3, <3>1, <3>2 DEF Charged
    <2>. QED
        BY <1>1, <2>1, <2>2, <2>4, <2>5 DEF TermInv, Counted, Answered, Finished
<1>6. CASE ReadEnd \/ ReadClosed \/ ReadMode \/ ReadRun \/ ReadExitStatus
    <2>1. /\ \E type \in Types \ {"data", "credit"} : Receives(type)
          /\ UNCHANGED <<credit, queue>>
          /\ open' \in {open, FALSE} /\ mode' \in {mode, "cooked", "raw"} /\ inlets' \subseteq inlets
          /\ reader' \in {reader, "credits"}
        BY <1>6 DEF ReadEnd, ReadClosed, ReadMode, ReadRun, ReadExitStatus, Types
    <2>2. /\ down' \in Seq(Wire) /\ Load(down', Grants) = Load(down, Grants)
          /\ \A s \in Outputs : Load(down', Chunk(s)) = Load(down, Chunk(s))
        BY <2>1, Received, <1>2
    <2>3. ended' \in [Outputs -> BOOLEAN]
        <3>1. \/ ended' = ended
              \/ \E s \in Outputs : ended' = [ended EXCEPT ![s] = TRUE]
            BY <1>6 DEF ReadEnd, ReadClosed, ReadMode, ReadRun, ReadExitStatus, TermInv, TypeOK
        <3>. QED
            BY <3>1 DEF TermInv, TypeOK
    <2>4. runner' \in [Runners -> Phases] /\ Finished' = Finished
        <3>1. \/ runner' = runner
              \/ \E r \in Runners : runner[r] = "none" /\ runner' = [runner EXCEPT ![r] = "start"]
            BY <1>6 DEF ReadEnd, ReadClosed, ReadMode, ReadRun, ReadExitStatus
        <3>. QED
            BY <3>1 DEF TermInv, TypeOK, Phases, Finished
    <2>5. open' \in BOOLEAN /\ mode' \in {"saved", "raw", "cooked"} /\ inlets' \subseteq Outputs
            /\ reader' \in {"reading", "credits", "outbox", "release", "reported"}
        BY <2>1 DEF TermInv, TypeOK
    <2>6. \A i \in 1..Len(down') : down'[i].type \in Types
        BY <2>2, OnTheWire
    <2>7. TypeOK'
        BY <1>1, <2>1, <2>3, <2>4, <2>5, <2>6 DEF TermInv, TypeOK, Phases
    <2>. QED
        BY <1>1, <2>1, <2>2, <2>4, <2>7 DEF TermInv, Charged, Counted, Answered
<1>7. CASE ReadFails \/ ReaderCloses \/ ReaderReleases
    <2>1. /\ UNCHANGED <<mode, creditVars, runVars, queue, wireVars>>
          /\ reader' \in {"credits", "outbox", "release", "reported"}
        BY <1>7 DEF ReadFails, ReaderCloses, ReaderReleases, ReaderGoes
    <2>2. inlets' \subseteq Outputs /\ ended' \in [Outputs -> BOOLEAN]
        <3>1. \/ inlets' = inlets /\ ended' = ended
              \/ inlets' = {} /\ ended' = [s \in Outputs |-> ended[s] \/ s \in inlets]
            BY <1>7 DEF ReadFails, ReaderCloses, ReaderReleases
        <3>. QED
            BY <3>1 DEF TermInv, TypeOK
    <2>3. TypeOK'
        BY <1>1, <2>1, <2>2 DEF TermInv, TypeOK
    <2>. QED
        BY <1>1, <2>1, <2>3, SumsKept DEF Finished
<1>. QED
    BY <1>4, <1>5, <1>6, <1>7 DEF Reader

\* What the daemon sends joins the socket.
LEMMA SentDown ==
    ASSUME TermInv, NEW type \in Types, NEW s \in Outputs \cup {NoStream}, NEW n \in 0..WINDOW,
           DaemonSends(Doc(type, s, n))
    PROVE  /\ down' \in Seq(Wire) /\ \A i \in 1..Len(down') : down'[i].type \in Types
           /\ Load(down, Grants) \in Nat
           /\ Load(down', Grants) = Load(down, Grants) + (IF type = "credit" THEN n ELSE 0)
           /\ \A t \in Outputs :
                /\ Load(down, Chunk(t)) \in Nat
                /\ Load(down', Chunk(t)) = Load(down, Chunk(t))
                                             + (IF type = "data" /\ s = t THEN 1 ELSE 0)
           /\ UNCHANGED <<launcherVars, typed, hungup, connected>>
<1> DEFINE d == Doc(type, s, n)
<1>1. down \in Seq(Wire) /\ down' = Append(down, d) /\ UNCHANGED <<launcherVars, typed, hungup, connected>>
    BY DEF TermInv, DaemonSends
<1>2. /\ d \in Wire /\ Grants[d] = (IF type = "credit" THEN n ELSE 0)
      /\ \A t : Chunk(t)[d] = IF type = "data" /\ s = t THEN 1 ELSE 0
    BY Weights
<1> HIDE DEF d
<1>3. /\ down' \in Seq(Wire) /\ Load(down, Grants) \in Nat
      /\ Load(down', Grants) = Load(down, Grants) + Grants[d]
    BY <1>1, <1>2, LoadOfAppend, Weights
<1>4. ASSUME NEW t \in Outputs
      PROVE  /\ Load(down, Chunk(t)) \in Nat
             /\ Load(down', Chunk(t)) = Load(down, Chunk(t)) + Chunk(t)[d]
    <2>1. Chunk(t) \in [Wire -> 0..WINDOW]
        BY Weights
    <2>. QED
        BY <1>1, <1>2, <2>1, LoadOfAppend
<1>5. \A i \in 1..Len(down') : down'[i].type \in Types
    BY <1>3, OnTheWire
<1>. QED
    BY <1>1, <1>2, <1>3, <1>4, <1>5

LEMMA DaemonKeepsTypes == TermInv /\ Daemon => TermInv'
<1>. SUFFICES ASSUME TermInv, Daemon PROVE TermInv'
    OBVIOUS
<1>. USE DEF launcherVars, gateVars, pumpVars, creditVars, runVars, inletVars, drainVars, daemonVars
<1>0. /\ 0 \in 0..WINDOW /\ 1 \in 0..WINDOW /\ WINDOW \in Nat /\ Output \in Nat
      /\ Runs \in Nat /\ Modes \in Nat
    BY TerminalAssumption
<1>1. CASE \/ DaemonCloses \/ DaemonModes \/ DaemonRuns \/ DaemonExits
           \/ \E s \in Outputs : DaemonEnds(s)
    <2>1. /\ \E type \in Types \ {"credit", "data"}, s \in Outputs \cup {NoStream} :
                DaemonSends(Doc(type, s, 0))
          /\ UNCHANGED <<dbuffer, dwritten>>
          /\ dended' = dended \/ \E s \in Outputs : dended' = dended \cup {s}
          /\ dmodes' = dmodes \/ (dmodes < Modes /\ dmodes' = dmodes + 1)
          /\ druns' = druns \/ (druns < Runs /\ druns' = druns + 1)
          /\ dexit' = dexit \/ dexit' = TRUE
        BY <1>1 DEF DaemonCloses, DaemonModes, DaemonRuns, DaemonExits, DaemonEnds, Types
    <2>2. /\ down' \in Seq(Wire) /\ \A i \in 1..Len(down') : down'[i].type \in Types
          /\ Load(down', Grants) = Load(down, Grants)
          /\ \A t \in Outputs : Load(down', Chunk(t)) = Load(down, Chunk(t))
          /\ UNCHANGED <<launcherVars, typed, hungup, connected>>
        <3>1. PICK type \in Types \ {"credit", "data"}, s \in Outputs \cup {NoStream} :
                  DaemonSends(Doc(type, s, 0))
            BY <2>1
        <3>2. /\ Load(down, Grants) \in Nat
              /\ Load(down', Grants) = Load(down, Grants) + (IF type = "credit" THEN 0 ELSE 0)
              /\ \A t \in Outputs :
                   /\ Load(down, Chunk(t)) \in Nat
                   /\ Load(down', Chunk(t)) = Load(down, Chunk(t))
                                                + (IF type = "data" /\ s = t THEN 1 ELSE 0)
              /\ down' \in Seq(Wire) /\ \A i \in 1..Len(down') : down'[i].type \in Types
              /\ UNCHANGED <<launcherVars, typed, hungup, connected>>
            BY <1>0, <3>1, SentDown
        <3>. QED
            BY <3>2
    <2>3. dmodes' \in 0..Modes /\ druns' \in 0..Runs /\ dended' \subseteq Outputs
        BY <1>0, <2>1 DEF TermInv, TypeOK
    <2>4. dexit' \in BOOLEAN
        BY <2>1 DEF TermInv, TypeOK
    <2>5. UNCHANGED <<launcherVars, typed, hungup, connected, dbuffer, dwritten>>
        BY <2>1, <2>2
    <2>6. \A i \in 1..Len(down') : down'[i].type \in Types
        BY <2>2
    <2>7. TypeOK'
        BY <2>3, <2>4, <2>5, <2>6 DEF TermInv, TypeOK
    <2>. QED
        BY <2>1, <2>2, <2>7 DEF TermInv, Charged, Counted, Answered, Finished
<1>2. ASSUME NEW s \in Outputs, DaemonWrites(s) PROVE TermInv'
    <2>1. /\ DaemonSends(Doc("data", s, 1)) /\ dwritten[s] < Output
          /\ dwritten' = [dwritten EXCEPT ![s] = dwritten[s] + 1]
          /\ UNCHANGED <<dbuffer, dended, dmodes, druns, dexit>>
        BY <1>2 DEF DaemonWrites
    <2>2. /\ Load(down, Grants) \in Nat
          /\ Load(down', Grants) = Load(down, Grants) + (IF "data" = "credit" THEN 1 ELSE 0)
          /\ \A t \in Outputs :
               /\ Load(down, Chunk(t)) \in Nat
               /\ Load(down', Chunk(t)) = Load(down, Chunk(t))
                                            + (IF "data" = "data" /\ s = t THEN 1 ELSE 0)
          /\ down' \in Seq(Wire) /\ \A i \in 1..Len(down') : down'[i].type \in Types
          /\ UNCHANGED <<launcherVars, typed, hungup, connected>>
        <3>1. "data" \in Types
            BY DEF Types
        <3>. QED
            BY <1>0, <2>1, <3>1, SentDown
    <2>3. dwritten' \in [Outputs -> 0..Output]
        BY <1>0, <2>1 DEF TermInv, TypeOK
    <2>4. TypeOK'
        BY <2>1, <2>2, <2>3 DEF TermInv, TypeOK
    <2>5. ASSUME NEW t \in Outputs
          PROVE  output[t] + (IF drain[t] = "write" THEN 1 ELSE 0) + queue[t] + Load(down', Chunk(t))
                     <= dwritten'[t]
        <3>1. /\ output[t] \in Nat /\ queue[t] \in Nat /\ dwritten[t] \in Nat
              /\ Load(down, Chunk(t)) \in Nat
              /\ dwritten'[t] = dwritten[t] + (IF s = t THEN 1 ELSE 0)
            BY <1>0, <2>1, <2>2 DEF TermInv, TypeOK
        <3>2. Load(down', Chunk(t)) = Load(down, Chunk(t)) + (IF s = t THEN 1 ELSE 0)
            BY <2>2
        <3>3. output[t] + (IF drain[t] = "write" THEN 1 ELSE 0) + queue[t] + Load(down, Chunk(t))
                  <= dwritten[t]
            BY DEF TermInv, Counted
        <3>. QED
            BY <3>1, <3>2, <3>3
    <2>6. Counted'
        BY <2>2, <2>5 DEF Counted
    <2>. QED
        BY <2>1, <2>2, <2>4, <2>6 DEF TermInv, Charged, Answered, Finished
<1>3. CASE DaemonGrants
    <2>1. PICK n \in 1..dbuffer : DaemonSends(Doc("credit", NoStream, n)) /\ dbuffer' = dbuffer - n
        BY <1>3 DEF DaemonGrants
    <2>2. UNCHANGED <<dwritten, dended, dmodes, druns, dexit>>
        BY <1>3 DEF DaemonGrants
    <2>3. /\ credit \in 0..WINDOW /\ dbuffer \in 0..WINDOW /\ n \in 0..WINDOW
          /\ dbuffer' \in 0..WINDOW /\ Load(down, Grants) \in Nat
        BY <1>0, <2>1, LoadsAreNumbers DEF TermInv, TypeOK
    <2>4. /\ Load(down', Grants) = Load(down, Grants) + (IF "credit" = "credit" THEN n ELSE 0)
          /\ \A t \in Outputs :
               /\ Load(down, Chunk(t)) \in Nat
               /\ Load(down', Chunk(t)) = Load(down, Chunk(t))
                                            + (IF "credit" = "data" /\ NoStream = t THEN 1 ELSE 0)
          /\ down' \in Seq(Wire) /\ \A i \in 1..Len(down') : down'[i].type \in Types
          /\ UNCHANGED <<launcherVars, typed, hungup, connected>>
        <3>1. "credit" \in Types /\ NoStream \in Outputs \cup {NoStream}
            BY DEF Types
        <3>. QED
            BY <2>1, <2>3, <3>1, SentDown
    <2>5. TypeOK'
        BY <2>2, <2>3, <2>4 DEF TermInv, TypeOK
    <2>6. Counted'
        BY <2>2, <2>4 DEF TermInv, Counted
    <2>7. Charged'
        BY <1>0, <2>1, <2>3, <2>4 DEF TermInv, Charged
    <2>. QED
        BY <2>4, <2>5, <2>6, <2>7 DEF TermInv, Answered, Finished
<1>4. CASE Disconnect
    <2>1. connected' = FALSE /\ UNCHANGED <<launcherVars, typed, hungup, down, daemonVars>>
        BY <1>4 DEF Disconnect
    <2>2. connected' \in BOOLEAN /\ TypeOK
        BY <2>1 DEF TermInv
    <2>3. UNCHANGED <<launcherVars, typed, hungup, down, daemonVars>>
        BY <2>1
    <2>4. TypeOK'
        BY <2>2, <2>3 DEF TypeOK
    <2>. QED
        BY <2>3, <2>4, SumsKept DEF Finished
<1>. QED
    BY <1>1, <1>2, <1>3, <1>4 DEF Daemon

LEMMA TermInvNext == TermInv /\ [Next]_vars => TermInv'
<1>. SUFFICES ASSUME TermInv, [Next]_vars PROVE TermInv'
    OBVIOUS
<1>. USE DEF gateVars, terminalVars, pumpVars, creditVars, runVars, inletVars, drainVars,
             wireVars, daemonVars
<1>1. CASE UNCHANGED vars \/ Terminated
    <2>1. UNCHANGED <<gateVars, terminalVars, pumpVars, creditVars, runVars, inletVars>>
          /\ UNCHANGED <<drainVars, reader, main, wireVars, daemonVars>>
        BY <1>1 DEF vars, Terminated
    <2>2. TypeOK'
        <3>1. TypeOK
            BY DEF TermInv
        <3>. QED
            BY <2>1, <3>1 DEF TypeOK
    <2>. QED
        BY <2>1, <2>2, SumsKept DEF Finished
<1>2. CASE Pump
    BY <1>2, PumpKeepsTypes
<1>3. CASE Reader
    BY <1>3, ReaderKeepsTypes
<1>4. CASE Main
    <2>1. /\ main' \in {"restoring", "exiting", "gone"} /\ (mode' = mode \/ mode' = "saved")
          /\ UNCHANGED <<gateVars, typed, front, hungup, pumpVars, creditVars, runVars>>
          /\ UNCHANGED <<inletVars, drainVars, reader, wireVars, daemonVars>>
        BY <1>4 DEF Main, MainWaits, MainRestores, MainExits, MainGoes
    <2>2. mode' \in {"saved", "raw", "cooked"}
        BY <2>1 DEF TermInv, TypeOK
    <2>3. TypeOK'
        BY <2>1, <2>2 DEF TermInv, TypeOK
    <2>. QED
        BY <2>1, <2>3, SumsKept DEF Finished
<1>5. CASE User
    <2>1. /\ typed' = typed \/ (typed < Keys /\ typed' = typed + 1)
          /\ hungup' = hungup \/ hungup' = TRUE
          /\ UNCHANGED <<launcherVars, wireVars, daemonVars>>
        BY <1>5 DEF User, UserTypes, UserHangsUp
    <2>2. typed' \in 0..Keys /\ front \in 0..typed'
        BY <2>1, TerminalAssumption DEF TermInv, TypeOK
    <2>3. hungup' \in BOOLEAN
        BY <2>1 DEF TermInv, TypeOK
    <2>4. TypeOK'
        BY <2>1, <2>2, <2>3 DEF TermInv, TypeOK, launcherVars
    <2>. QED
        BY <2>1, <2>4, SumsKept DEF Finished, launcherVars
<1>6. CASE Daemon
    BY <1>6, DaemonKeepsTypes
<1>7. ASSUME NEW r \in Runners, Runner(r) \/ Command(r) PROVE TermInv'
    BY <1>7, RunnerKeepsTypes
<1>8. ASSUME NEW s \in Outputs, Drain(s) PROVE TermInv'
    BY <1>8, DrainKeepsTypes
<1>. QED
    BY <1>1, <1>2, <1>3, <1>4, <1>5, <1>6, <1>7, <1>8 DEF Next

\* Every variable of the terminal's session keeps its type, and with it its bounds: stdin's
\* credit is never more than its window, an output is written no more than the daemon wrote,
\* and no command is answered twice (session.rs:136-166, 591-637).
THEOREM TerminalTypeOK == Spec => []TypeOK
<1>1. TermInv => TypeOK
    BY DEF TermInv
<1>. QED
    BY TermInvInit, TermInvNext, <1>1, PTL DEF Spec

-----------------------------------------------------------------------------
\* The outputs still open are held while a command may run and none is between commands.
HeldMeanwhile ==
    \A s \in inlets :
        /\ held[s] => \E r \in Runners : Owns(r)
        /\ (\E r \in Runners : runner[r] \in {"restore", "spawn", "running", "raw"}) => held[s]

\* Which steps touch an output's queue or its drain: the reader's, which only add to it, and
\* the drain's own, which takes nothing up while it is held.
LEMMA HeldTakesNothing ==
    ASSUME TypeOK, NEW s \in Outputs, held[s], [Next]_vars
    PROVE  queue'[s] >= queue[s] /\ (drain[s] = "wait" => drain'[s] = "wait")
<1>1. queue[s] \in Nat
    BY TerminalAssumption DEF TypeOK
<1>. USE DEF gateVars, terminalVars, pumpVars, creditVars, runVars, inletVars, drainVars
<1>2. CASE UNCHANGED vars \/ Terminated
    BY <1>1, <1>2 DEF vars, Terminated
<1>3. CASE Pump
    BY <1>1, <1>3 DEF Pump, PumpAllowance, PumpLeftover, PumpParks, PumpUnparks, PumpPolls,
                      PumpReads, PumpVacates
<1>4. CASE Reader
    <2>1. CASE ReadData
        BY <1>1, <2>1 DEF ReadData, Receives, TypeOK
    <2>2. CASE ReadEnd \/ ReadCredit \/ ReadClosed \/ ReadMode \/ ReadExitStatus \/ ReadRun
        BY <1>1, <2>2
        DEF ReadEnd, ReadCredit, ReadClosed, ReadMode, ReadExitStatus, ReadRun, Receives
    <2>3. CASE ReadFails \/ ReaderCloses \/ ReaderReleases
        BY <1>1, <2>3 DEF ReadFails, ReaderCloses, ReaderReleases, ReaderGoes
    <2>. QED
        BY <1>4, <2>1, <2>2, <2>3 DEF Reader
<1>5. CASE Main \/ User
    BY <1>1, <1>5 DEF Main, MainWaits, MainRestores, MainExits, MainGoes, User, UserTypes,
                      UserHangsUp, launcherVars
<1>6. CASE Daemon
    BY <1>1, <1>6
    DEF Daemon, DaemonGrants, DaemonCloses, DaemonModes, DaemonRuns, DaemonExits, Disconnect,
        DaemonWrites, DaemonEnds, DaemonSends, launcherVars
<1>7. ASSUME NEW r \in Runners, Runner(r) \/ Command(r)
      PROVE  queue' = queue /\ drain' = drain
    BY <1>7 DEF Runner, RunnerLocks, RunnerPauses, RunnerPaused, RunnerHolds, HoldsAll,
                RunnerRestores, RunnerSpawns, RunnerSetsRaw, RunnerReleases, RunnerResumes,
                RunnerAnswers, Command, CommandReads, CommandEnds
<1>8. ASSUME NEW t \in Outputs, Drain(t)
      PROVE  queue'[s] >= queue[s] /\ (drain[s] = "wait" => drain'[s] = "wait")
    BY <1>1, <1>8 DEF Drain, DrainTakes, DrainWrites, TypeOK
<1>. QED
    BY <1>1, <1>2, <1>3, <1>4, <1>5, <1>6, <1>7, <1>8 DEF Next

\* While a command may run no drain takes up a chunk of an output still open, and between
\* commands none is held, whatever ends and whatever else is asked meanwhile
\* (session.rs:236-244, 566-569, 606-608, 621-623).
THEOREM OutputsHeldMeanwhile == Spec => TakesNothingUp
<1>1. TerminalInv => HeldMeanwhile
    BY DEF TerminalInv, HeldSoFar, HeldMeanwhile, Owns, Having
<1>2. ASSUME TypeOK, HeldMeanwhile, [Next]_vars
      PROVE  [\A s \in inlets :
                /\ (\E r \in Runners : runner[r] \in {"restore", "spawn", "running", "raw"}) =>
                     queue'[s] >= queue[s] /\ (drain[s] = "wait" => drain'[s] = "wait")
                /\ held[s] => \E r \in Runners : Owns(r)]_vars
    <2>1. inlets \subseteq Outputs
        BY <1>2 DEF TypeOK
    <2>. QED
        BY <1>2, <2>1, HeldTakesNothing DEF HeldMeanwhile
<1>. QED
    BY TerminalInvInit, TerminalInvNext, TerminalTypeOK, <1>1, <1>2, PTL
    DEF Spec, TakesNothingUp

-----------------------------------------------------------------------------
(* The keystrokes: each is taken from the terminal once, by the pump or by *)
(* a command, and the pump's reach the daemon in the order they were typed.*)

KeyTypes ==
    /\ typed \in Nat /\ front \in Nat /\ pending \in Nat /\ allowed \in Nat
    /\ front <= typed /\ pending <= front
    /\ sent \in Seq(Nat) /\ eaten \subseteq 1..front /\ IsFiniteSet(eaten)
    /\ credit \in Nat /\ WINDOW \in Nat /\ MAXIMUM_CHUNK \in Nat \ {0}

\* The pump comes to the gate only with nothing pending, so no command has read before it has.
LeftoversFirst ==
    /\ pump \in {"park", "parked", "poll", "read"} => pending = 0
    /\ pump \in {"allowance", "leftover"} /\ pending > 0 => eaten = {}

\* What is pending is the last of what has been taken; what was sent came before it.
SentBefore ==
    \A i \in 1..Len(sent) :
        /\ sent[i] <= front - pending /\ sent[i] \notin eaten
        /\ i > 1 => sent[i - 1] < sent[i]

Accounted == ~OutboxClosed => Len(sent) + Cardinality(eaten) + pending = front

KeysInv == KeyTypes /\ LeftoversFirst /\ SentBefore /\ Accounted

LEMMA KeysInvInit == Init => KeysInv
<1>. SUFFICES ASSUME Init PROVE KeysInv
    OBVIOUS
<1>1. pending \in Nat /\ Leftovers \subseteq 0..Keys
    BY TerminalAssumption DEF Init
<1>2. IsFiniteSet({}) /\ Cardinality({}) = 0
    BY FS_EmptySet
<1>3. sent = <<>> /\ Len(sent) = 0 /\ sent \in Seq(Nat)
    BY DEF Init
<1>. QED
    BY <1>1, <1>2, <1>3, TerminalAssumption
    DEF Init, KeysInv, KeyTypes, LeftoversFirst, SentBefore, Accounted

LEMMA JoinedAt ==
    ASSUME NEW S, NEW a \in Seq(S), NEW b \in Seq(S)
    PROVE  /\ a \o b \in Seq(S) /\ Len(a \o b) = Len(a) + Len(b)
           /\ \A i \in 1..Len(a) : (a \o b)[i] = a[i]
           /\ \A i \in (Len(a) + 1)..(Len(a) + Len(b)) : (a \o b)[i] = b[i - Len(a)]
OBVIOUS

\* What Carry appends: the keystrokes that follow the `from` first, in their order.
LEMMA Carried ==
    ASSUME NEW from \in Nat, NEW n \in Nat, sent \in Seq(Nat), ~OutboxClosed, Carry(from, n)
    PROVE  /\ sent' \in Seq(Nat) /\ Len(sent') = Len(sent) + n
           /\ \A i \in 1..Len(sent) : sent'[i] = sent[i]
           /\ \A i \in (Len(sent) + 1)..Len(sent') : sent'[i] = from + (i - Len(sent))
<1> DEFINE added == [i \in 1..n |-> from + i]
<1>1. added \in Seq(Nat) /\ Len(added) = n /\ \A i \in 1..n : added[i] = from + i
    OBVIOUS
<1>2. sent' = sent \o added
    BY DEF Carry
<1> HIDE DEF added
<1>. QED
    BY <1>1, <1>2, JoinedAt

\* Sending what comes next, from where nothing has been sent or eaten yet.
LEMMA CarryKeeps ==
    ASSUME KeysInv, NEW from \in Nat, NEW n \in Nat, Carry(from, n),
           front = from + pending, pending' \in Nat, front' \in Nat,
           front' - pending' = from + n, UNCHANGED <<eaten, reader>>,
           \A k \in eaten : k <= from
    PROVE  SentBefore' /\ Accounted' /\ sent' \in Seq(Nat)
<1>1. pending \in Nat
    BY DEF KeysInv, KeyTypes
<1>2. front - pending = from
    BY <1>1
<1>3. sent \in Seq(Nat) /\ IsFiniteSet(eaten) /\ eaten' = eaten
    BY DEF KeysInv, KeyTypes
<1>4. ASSUME NEW i \in 1..Len(sent)
      PROVE  /\ sent[i] \in Nat /\ sent[i] <= from /\ sent[i] \notin eaten
             /\ i > 1 => sent[i - 1] < sent[i]
    <2>1. sent[i] <= front - pending /\ sent[i] \notin eaten /\ (i > 1 => sent[i - 1] < sent[i])
        BY DEF KeysInv, SentBefore
    <2>2. sent[i] \in Nat
        BY <1>3
    <2>. QED
        BY <1>2, <2>1, <2>2
<1>5. /\ front - pending = from /\ front' - pending' = from + n /\ pending \in Nat
      /\ sent \in Seq(Nat) /\ IsFiniteSet(eaten) /\ eaten' = eaten
      /\ \A i \in 1..Len(sent) :
           /\ sent[i] \in Nat /\ sent[i] <= from /\ sent[i] \notin eaten
           /\ i > 1 => sent[i - 1] < sent[i]
    BY <1>1, <1>2, <1>3, <1>4
<1>6. CASE OutboxClosed
    <2>1. sent' = sent /\ OutboxClosed'
        BY <1>6 DEF Carry, OutboxClosed
    <2>2. \A i \in 1..Len(sent) : sent[i] <= from + n
        BY <1>5
    <2>. QED
        BY <1>5, <2>1, <2>2 DEF SentBefore, Accounted
<1>7. CASE ~OutboxClosed
    <2>1. /\ sent' \in Seq(Nat) /\ Len(sent') = Len(sent) + n /\ Len(sent) \in Nat
          /\ \A i \in 1..Len(sent) : sent'[i] = sent[i]
          /\ \A i \in (Len(sent) + 1)..Len(sent') : sent'[i] = from + (i - Len(sent))
        BY <1>5, <1>7, Carried
    <2>2. SentBefore'
        <3>. SUFFICES ASSUME NEW i \in 1..Len(sent')
             PROVE  /\ sent'[i] <= from + n /\ sent'[i] \notin eaten
                    /\ i > 1 => sent'[i - 1] < sent'[i]
            BY <1>5 DEF SentBefore
        <3>1. CASE i \in 1..Len(sent)
            <4>1. /\ sent'[i] = sent[i] /\ sent[i] \in Nat /\ sent[i] <= from
                  /\ sent[i] \notin eaten /\ (i > 1 => sent[i - 1] < sent[i])
                BY <1>5, <2>1, <3>1
            <4>2. i > 1 => i - 1 \in 1..Len(sent)
                BY <2>1, <3>1
            <4>3. i > 1 => sent'[i - 1] = sent[i - 1]
                BY <2>1, <4>2
            <4>. QED
                BY <4>1, <4>3
        <3>2. CASE i \in (Len(sent) + 1)..Len(sent')
            <4>1. /\ sent'[i] = from + (i - Len(sent)) /\ i - Len(sent) \in 1..n /\ i \in Nat
                  /\ Len(sent') \in Nat
                BY <2>1, <3>2
            <4>2. sent'[i] \in Nat /\ sent'[i] > from /\ sent'[i] <= from + n
                BY <4>1
            <4>3. sent'[i] \notin eaten
                BY <4>2
            <4>4. i > 1 => sent'[i - 1] < sent'[i]
                <5>1. CASE i = Len(sent) + 1 /\ Len(sent) >= 1
                    <6>1. sent'[i - 1] = sent[Len(sent)] /\ Len(sent) \in 1..Len(sent)
                        BY <2>1, <5>1
                    <6>2. sent[Len(sent)] <= from /\ sent[Len(sent)] \in Nat
                        BY <1>5, <6>1
                    <6>. QED
                        BY <4>2, <6>1, <6>2
                <5>2. CASE i > Len(sent) + 1
                    <6>1. i - 1 \in (Len(sent) + 1)..Len(sent')
                        BY <2>1, <3>2, <4>1, <5>2
                    <6>2. sent'[i - 1] = from + (i - 1 - Len(sent))
                        BY <2>1, <6>1
                    <6>. QED
                        BY <2>1, <4>1, <6>2
                <5>. QED
                    BY <2>1, <3>2, <4>1, <5>1, <5>2
            <4>. QED
                BY <4>2, <4>3, <4>4
        <3>. QED
            BY <2>1, <3>1, <3>2
    <2>3. Cardinality(eaten) \in Nat
        BY <1>5, FS_CardinalityType
    <2>4. Len(sent) + Cardinality(eaten) + pending = front
        BY <1>7 DEF KeysInv, Accounted
    <2>5. Len(sent') + Cardinality(eaten') + pending' = front'
        <3>1. Cardinality(eaten') = Cardinality(eaten) /\ Len(sent') = Len(sent) + n
            BY <1>5, <2>1
        <3>2. Len(sent) \in Nat
            BY <2>1
        <3>3. Len(sent) + Cardinality(eaten) = from
            BY <1>1, <2>3, <2>4, <3>2
        <3> DEFINE length == Len(sent)
                   count == Cardinality(eaten)
                   left == pending'
                   taken == front'
        <3>4. /\ length \in Nat /\ count \in Nat /\ left \in Nat /\ taken \in Nat
              /\ length + count = from /\ taken - left = from + n
            BY <2>3, <3>2, <3>3
        <3> HIDE DEF length, count, left, taken
        <3>5. length + n + count + left = taken
            BY <3>4
        <3>. QED
            BY <3>1, <3>5 DEF length, count, left, taken
    <2>. QED
        BY <2>1, <2>2, <2>5 DEF Accounted
<1>. QED
    BY <1>6, <1>7

\* What only the pump's place, the credit or the outbox's end can disturb.
LEMMA KeysOthersKeep ==
    ASSUME KeysInv, UNCHANGED <<front, pending, sent, eaten, allowed, pump>>,
           typed' \in Nat, typed <= typed', credit' \in Nat, OutboxClosed => OutboxClosed'
    PROVE  KeysInv'
BY DEF KeysInv, KeyTypes, LeftoversFirst, SentBefore, Accounted

LEMMA PumpKeepsKeys == KeysInv /\ Pump => KeysInv'
<1>. SUFFICES ASSUME KeysInv, Pump PROVE KeysInv'
    OBVIOUS
<1>. USE DEF gateVars, terminalVars, creditVars, runVars
<1>1. UNCHANGED <<typed, eaten, reader>> /\ (OutboxClosed <=> OutboxClosed')
    BY DEF Pump, PumpAllowance, PumpLeftover, PumpParks, PumpUnparks, PumpPolls, PumpReads,
           PumpVacates, OutboxClosed
<1>2. CASE PumpAllowance
    <2>1. allowed' \in Nat
        BY <1>2 DEF PumpAllowance, KeysInv, KeyTypes, Least
    <2>. QED
        BY <1>1, <1>2, <2>1
        DEF PumpAllowance, KeysInv, KeyTypes, LeftoversFirst, SentBefore, Accounted
<1>3. CASE PumpLeftover
    <2> DEFINE take == Least(allowed, pending)
    <2>1. take \in Nat /\ take <= pending
        BY DEF KeysInv, KeyTypes, Least
    <2>2. /\ pump = "leftover" /\ pump' = "allowance" /\ Carry(front - pending, take)
          /\ pending' = pending - take /\ front' = front /\ allowed' = allowed
        BY <1>3 DEF PumpLeftover
    <2> HIDE DEF take
    <2>3. /\ front - pending \in Nat /\ front \in Nat /\ pending \in Nat /\ pending' \in Nat
          /\ front = (front - pending) + pending /\ front' - pending' = (front - pending) + take
        BY <2>1, <2>2 DEF KeysInv, KeyTypes
    <2>4. pending > 0 => eaten = {}
        BY <2>2 DEF KeysInv, LeftoversFirst
    <2>5. \A k \in eaten : k <= front - pending
        BY <2>3, <2>4 DEF KeysInv, KeyTypes
    <2>6. SentBefore' /\ Accounted' /\ sent' \in Seq(Nat)
        BY <1>1, <2>1, <2>2, <2>3, <2>5, CarryKeeps
    <2>7. credit' \in Nat
        BY <2>1, <2>2 DEF Carry, KeysInv, KeyTypes
    <2>. QED
        BY <1>1, <2>1, <2>2, <2>3, <2>4, <2>6, <2>7 DEF KeysInv, KeyTypes, LeftoversFirst
<1>4. CASE PumpParks \/ PumpUnparks \/ PumpPolls \/ PumpVacates
    BY <1>1, <1>4
    DEF PumpParks, PumpUnparks, PumpPolls, PumpVacates, KeysInv, KeyTypes, LeftoversFirst,
        SentBefore, Accounted
<1>5. CASE PumpReads
    <2>1. pump = "read" /\ pending = 0 /\ pending' = 0 /\ allowed' = allowed
        BY <1>5 DEF PumpReads, KeysInv, LeftoversFirst
    <2>2. CASE front' = front
        BY <1>1, <1>5, <2>1, <2>2
        DEF PumpReads, KeysInv, KeyTypes, LeftoversFirst, SentBefore, Accounted
    <2>3. ASSUME NEW n \in 1..Least(allowed, typed - front), Carry(front, n),
                 front' = front + n, pump' = "allowance"
          PROVE  KeysInv'
        <3>1. n \in Nat /\ n <= typed - front
            BY DEF KeysInv, KeyTypes, Least
        <3>2. /\ front \in Nat /\ front' \in Nat /\ front = front + pending
              /\ front' - pending' = front + n
            BY <2>1, <2>3, <3>1 DEF KeysInv, KeyTypes
        <3>3. \A k \in eaten : k <= front
            BY DEF KeysInv, KeyTypes
        <3>4. SentBefore' /\ Accounted' /\ sent' \in Seq(Nat)
            BY <1>1, <2>1, <2>3, <3>1, <3>2, <3>3, CarryKeeps
        <3>5. credit' \in Nat
            BY <2>3, <3>1 DEF Carry, KeysInv, KeyTypes
        <3>. QED
            BY <1>1, <2>1, <2>3, <3>1, <3>2, <3>4, <3>5 DEF KeysInv, KeyTypes, LeftoversFirst
    <2>. QED
        BY <1>5, <2>2, <2>3 DEF PumpReads
<1>. QED
    BY <1>2, <1>3, <1>4, <1>5 DEF Pump

\* A command reads only while the pump is parked or gone, and so has nothing it may still send
\* from before.
LEMMA CommandKeepsKeys ==
    ASSUME TerminalInv, KeysInv, NEW r \in Runners, CommandReads(r)
    PROVE  KeysInv'
<1>1. pump \in {"parked", "done"}
    BY DEF CommandReads, TerminalInv, Gated, Owns
<1>2. /\ front' = front + 1 /\ eaten' = eaten \cup {front + 1} /\ front < typed
      /\ UNCHANGED <<typed, pump, pending, allowed, sent, credit, reader>>
    BY DEF CommandReads, pumpVars, creditVars
<1>3. front + 1 \notin eaten /\ IsFiniteSet(eaten)
    BY DEF KeysInv, KeyTypes
<1>4. IsFiniteSet(eaten') /\ Cardinality(eaten') = Cardinality(eaten) + 1
    BY <1>2, <1>3, FS_AddElement
<1>5. Cardinality(eaten) \in Nat
    BY <1>3, FS_CardinalityType
<1>6. KeyTypes' /\ LeftoversFirst'
    BY <1>1, <1>2, <1>4 DEF KeysInv, KeyTypes, LeftoversFirst
<1>7. SentBefore'
    BY <1>2 DEF KeysInv, KeyTypes, SentBefore
<1>8. Accounted'
    BY <1>2, <1>4, <1>5 DEF KeysInv, KeyTypes, Accounted, OutboxClosed
<1>. QED
    BY <1>6, <1>7, <1>8 DEF KeysInv

LEMMA KeysInvNext == TerminalInv /\ TypeOK' /\ KeysInv /\ [Next]_vars => KeysInv'
<1>. SUFFICES ASSUME TerminalInv, TypeOK', KeysInv, [Next]_vars PROVE KeysInv'
    OBVIOUS
<1>. USE DEF gateVars, terminalVars, pumpVars, creditVars, runVars, inletVars, drainVars,
             KeysInv, KeyTypes, OutboxClosed
<1>0. credit' \in Nat
    BY TerminalAssumption DEF TypeOK
<1>1. CASE UNCHANGED vars \/ Terminated
    BY <1>1, KeysOthersKeep DEF vars, Terminated
<1>2. CASE Pump
    BY <1>2, PumpKeepsKeys
<1>3. CASE Reader
    <2>1. CASE ReadCredit
        BY <1>0, <2>1, KeysOthersKeep DEF ReadCredit, Receives
    <2>2. CASE ReadData \/ ReadEnd \/ ReadClosed \/ ReadMode \/ ReadRun \/ ReadExitStatus
        BY <2>2, KeysOthersKeep
        DEF ReadData, ReadEnd, ReadClosed, ReadMode, ReadRun, ReadExitStatus, Receives
    <2>3. CASE ReadFails \/ ReaderCloses \/ ReaderReleases
        BY <2>3, KeysOthersKeep DEF ReadFails, ReaderCloses, ReaderReleases, ReaderGoes
    <2>. QED
        BY <1>3, <2>1, <2>2, <2>3 DEF Reader
<1>4. CASE Main
    BY <1>4, KeysOthersKeep DEF Main, MainWaits, MainRestores, MainExits, MainGoes
<1>5. CASE User
    BY <1>5, KeysOthersKeep DEF User, UserTypes, UserHangsUp, launcherVars
<1>6. CASE Daemon
    BY <1>6, KeysOthersKeep
    DEF Daemon, DaemonGrants, DaemonCloses, DaemonModes, DaemonRuns, DaemonExits, Disconnect,
        DaemonWrites, DaemonEnds, DaemonSends, launcherVars
<1>7. ASSUME NEW r \in Runners, Runner(r) PROVE KeysInv'
    BY <1>7, KeysOthersKeep
    DEF Runner, RunnerLocks, RunnerPauses, RunnerPaused, RunnerHolds, HoldsAll, RunnerRestores,
        RunnerSpawns, RunnerSetsRaw, RunnerReleases, RunnerResumes, RunnerAnswers, RunnerGoes
<1>8. ASSUME NEW r \in Runners, Command(r) PROVE KeysInv'
    <2>1. CASE CommandReads(r)
        BY <2>1, CommandKeepsKeys
    <2>2. CASE CommandEnds(r)
        BY <2>2, KeysOthersKeep DEF CommandEnds, RunnerGoes
    <2>. QED
        BY <1>8, <2>1, <2>2 DEF Command
<1>9. ASSUME NEW s \in Outputs, Drain(s) PROVE KeysInv'
    BY <1>9, KeysOthersKeep DEF Drain, DrainTakes, DrainWrites
<1>. QED
    BY <1>1, <1>2, <1>3, <1>4, <1>5, <1>6, <1>7, <1>8, <1>9 DEF Next

\* What the user types goes to one reader each, the daemon's in the order typed, those of the
\* handshake first, whatever commands come and go (session.rs:495-516, 591-637).
THEOREM KeysReachTheirReader == Spec => []KeysInOrder
<1>1. KeysInv => KeysInOrder
    BY DEF KeysInv, SentBefore, Accounted, KeysInOrder
<1>2. Spec => []TypeOK
    BY TerminalTypeOK
<1>. QED
    BY TerminalInvInit, TerminalInvNext, KeysInvInit, KeysInvNext, <1>1, <1>2, PTL DEF Spec

-----------------------------------------------------------------------------
(* Who waits, and for whom.                                                *)

\* The gate and the child's mutex: whoever has the mutex is on its way to releasing it, and a
\* pause is requested only by whoever will resume it.
GateHeld ==
    /\ child # 0 => child \in Runners /\ Locked(child)
    /\ requested => child # 0 /\ (runner[child] = "pausing" \/ Owns(child))
    /\ pump \in {"parked", "done"} => parked
    /\ \A r \in Runners : runner[r] \in {"hold", "release"} => todo # {}

\* Every stream that has ended is out of the map, and no other.
EndedIsOut == \A s \in Outputs : ended[s] <=> s \notin inlets

\* The pump goes to the gate with something to read for, and to `read` with something to read.
PumpHasCause ==
    /\ pump \in {"leftover", "park", "parked", "poll", "read"} => allowed > 0
    /\ pump = "read" => front < typed \/ hungup

\* While stdin is open its whole window is somewhere: spent by the application, not yet
\* granted, or on its way back.
WindowIsKept == Active => credit + dbuffer + Load(down, Grants) = WINDOW

Commanded == [d \in Wire |-> IF d.type = "run" THEN 1 ELSE 0]
Exits == [d \in Wire |-> IF d.type = "exit-status" THEN 1 ELSE 0]
Begun == {r \in Runners : runner[r] # "none"}

\* Commands begun or on the wire are commands asked for.
RunsAreFew == Cardinality(Begun) + Load(down, Commanded) <= druns

\* The session's end, once said, is still ahead of the reader.
ExitIsSeen == dexit /\ reader = "reading" => Load(down, Exits) > 0

WaitInv == /\ GateHeld /\ EndedIsOut /\ PumpHasCause /\ WindowIsKept /\ RunsAreFew /\ ExitIsSeen

\* What leaves the gate, the mutex and the threads alone.
LEMMA GateOthersKeep ==
    ASSUME GateHeld, UNCHANGED <<requested, parked, pump, runner, child, todo>>
    PROVE  GateHeld'
BY DEF GateHeld, Locked, Owns

LEMMA GatePump ==
    ASSUME GateHeld, Pump PROVE GateHeld'
<1>1. UNCHANGED <<requested, runner, child, todo>>
    BY DEF Pump, PumpAllowance, PumpLeftover, PumpParks, PumpUnparks, PumpPolls, PumpReads,
           PumpVacates, gateVars, runVars
<1>2. pump' \in {"parked", "done"} => parked'
    BY DEF GateHeld, Pump, PumpAllowance, PumpLeftover, PumpParks, PumpUnparks, PumpPolls, PumpReads,
           PumpVacates, gateVars
<1>. QED
    BY <1>1, <1>2 DEF GateHeld, Locked, Owns

LEMMA GateRunner ==
    ASSUME TerminalInv, GateHeld, NEW r \in Runners, Runner(r) \/ CommandEnds(r)
    PROVE  GateHeld'
<1>. USE DEF TerminalInv, ThreadsOK, Gated, GateHeld, Locked, Owns, Phases,
             RunnerGoes, inletVars, terminalVars, gateVars, pumpVars
<1>0. r # 0
    BY RunnersAreNotZero
<1>1. CASE RunnerLocks(r)
    BY <1>0, <1>1 DEF RunnerLocks
<1>2. CASE RunnerPauses(r)
    BY <1>0, <1>2 DEF RunnerPauses
<1>3. CASE RunnerPaused(r)
    BY <1>3, TerminalAssumption DEF RunnerPaused
<1>4. CASE RunnerHolds(r)
    BY <1>4 DEF RunnerHolds, HoldsAll
<1>5. CASE RunnerRestores(r)
    BY <1>5 DEF RunnerRestores
<1>6. CASE RunnerSpawns(r)
    BY <1>6 DEF RunnerSpawns
<1>7. CASE RunnerSetsRaw(r)
    BY <1>7, TerminalAssumption DEF RunnerSetsRaw
<1>8. CASE RunnerReleases(r)
    BY <1>8 DEF RunnerReleases, HoldsAll
<1>9. CASE RunnerResumes(r)
    BY <1>9 DEF RunnerResumes
<1>10. CASE RunnerAnswers(r)
    BY <1>10 DEF RunnerAnswers
<1>11. CASE CommandEnds(r)
    BY <1>11 DEF CommandEnds
<1>. QED
    BY <1>1, <1>2, <1>3, <1>4, <1>5, <1>6, <1>7, <1>8, <1>9, <1>10, <1>11 DEF Runner

LEMMA GateReadRun ==
    ASSUME TerminalInv, GateHeld, ReadRun PROVE GateHeld'
<1>1. PICK r \in Runners :
          runner[r] = "none" /\ runner' = [runner EXCEPT ![r] = "start"]
    BY DEF ReadRun
<1>2. UNCHANGED <<requested, parked, pump, child, todo>>
    BY DEF ReadRun, Receives, gateVars, pumpVars
<1>3. (\A t \in Runners \ {r} : runner'[t] = runner[t]) /\ runner'[r] = "start"
    BY <1>1 DEF TerminalInv, ThreadsOK
<1>4. child # 0 => child # r
    BY <1>1 DEF GateHeld, Locked
<1>. QED
    BY <1>1, <1>2, <1>3, <1>4 DEF GateHeld, Locked, Owns

LEMMA GateNext == TerminalInv /\ GateHeld /\ [Next]_vars => GateHeld'
<1>. SUFFICES ASSUME TerminalInv, GateHeld, [Next]_vars PROVE GateHeld'
    OBVIOUS
<1>. USE DEF gateVars, terminalVars, pumpVars, creditVars, runVars, inletVars, drainVars
<1>1. CASE UNCHANGED vars \/ Terminated
    BY <1>1, GateOthersKeep DEF vars, Terminated
<1>2. CASE Pump
    BY <1>2, GatePump
<1>3. CASE Reader
    <2>1. CASE ReadRun
        BY <2>1, GateReadRun
    <2>2. CASE ReadData \/ ReadEnd \/ ReadCredit \/ ReadClosed \/ ReadMode \/ ReadExitStatus
        BY <2>2, GateOthersKeep
        DEF ReadData, ReadEnd, ReadCredit, ReadClosed, ReadMode, ReadExitStatus, Receives
    <2>3. CASE ReadFails \/ ReaderCloses \/ ReaderReleases
        BY <2>3, GateOthersKeep DEF ReadFails, ReaderCloses, ReaderReleases, ReaderGoes
    <2>. QED
        BY <1>3, <2>1, <2>2, <2>3 DEF Reader
<1>4. CASE Main
    BY <1>4, GateOthersKeep DEF Main, MainWaits, MainRestores, MainExits, MainGoes
<1>5. CASE User
    BY <1>5, GateOthersKeep DEF User, UserTypes, UserHangsUp, launcherVars
<1>6. CASE Daemon
    BY <1>6, GateOthersKeep
    DEF Daemon, DaemonGrants, DaemonCloses, DaemonModes, DaemonRuns, DaemonExits, Disconnect,
        DaemonWrites, DaemonEnds, DaemonSends, launcherVars
<1>7. ASSUME NEW r \in Runners, Runner(r) PROVE GateHeld'
    BY <1>7, GateRunner
<1>8. ASSUME NEW r \in Runners, Command(r) PROVE GateHeld'
    <2>1. CASE CommandReads(r)
        BY <2>1, GateOthersKeep DEF CommandReads
    <2>2. CASE CommandEnds(r)
        BY <2>2, GateRunner
    <2>. QED
        BY <1>8, <2>1, <2>2 DEF Command
<1>9. ASSUME NEW s \in Outputs, Drain(s) PROVE GateHeld'
    BY <1>9, GateOthersKeep DEF Drain, DrainTakes, DrainWrites
<1>. QED
    BY <1>1, <1>2, <1>3, <1>4, <1>5, <1>6, <1>7, <1>8, <1>9 DEF Next

\* A stream leaves the map as it ends: at its `end`, or with all the others.
LEMMA EndedNext == TermInv /\ EndedIsOut /\ [Next]_vars => EndedIsOut'
<1>. SUFFICES ASSUME TermInv, EndedIsOut, [Next]_vars PROVE EndedIsOut'
    OBVIOUS
<1>. USE DEF EndedIsOut
<1>0. ended \in [Outputs -> BOOLEAN] /\ inlets \subseteq Outputs
    BY DEF TermInv, TypeOK
<1>1. CASE UNCHANGED <<ended, inlets>>
    BY <1>1
<1>2. CASE ReadEnd
    BY <1>0, <1>2 DEF ReadEnd
<1>3. CASE ReaderReleases
    BY <1>0, <1>3 DEF ReaderReleases
<1>4. \/ UNCHANGED <<ended, inlets>>
      \/ ReadEnd
      \/ ReaderReleases
    BY DEF Next, vars, Terminated, Pump, PumpAllowance, PumpLeftover, PumpParks, PumpUnparks,
           PumpPolls, PumpReads, PumpVacates, Reader, ReadData, ReadCredit, ReadClosed, ReadMode,
           ReadRun, ReadExitStatus, ReadFails, ReaderCloses, Main, MainWaits,
           MainRestores, MainExits, MainGoes, User, UserTypes, UserHangsUp, Daemon, DaemonGrants,
           DaemonCloses, DaemonModes, DaemonRuns, DaemonExits, Disconnect, DaemonWrites,
           DaemonEnds, DaemonSends, Runner, RunnerLocks, RunnerPauses, RunnerPaused, RunnerHolds,
           HoldsAll, RunnerRestores, RunnerSpawns, RunnerSetsRaw, RunnerReleases, RunnerResumes,
           RunnerAnswers, RunnerGoes, Command, CommandReads, CommandEnds, Drain, DrainTakes,
           DrainWrites, inletVars, launcherVars
<1>. QED
    BY <1>1, <1>2, <1>3, <1>4

\* A command reads while the pump is parked or gone, so what the pump has seen is still there.
LEMMA CauseNext == TerminalInv /\ TermInv /\ PumpHasCause /\ [Next]_vars => PumpHasCause'
<1>. SUFFICES ASSUME TerminalInv, TermInv, PumpHasCause, [Next]_vars PROVE PumpHasCause'
    OBVIOUS
<1>. USE DEF PumpHasCause, pumpVars, terminalVars
<1>0. /\ front \in Nat /\ typed \in Nat /\ credit \in Nat /\ hungup \in BOOLEAN
      /\ MAXIMUM_CHUNK \in Nat \ {0}
    BY TerminalAssumption DEF TermInv, TypeOK
<1>1. CASE UNCHANGED <<pump, allowed, front>> /\ typed' \in Nat /\ typed' >= typed /\ (hungup => hungup')
    BY <1>0, <1>1
<1>2. ASSUME NEW r \in Runners, CommandReads(r) PROVE PumpHasCause'
    BY <1>2 DEF CommandReads, TerminalInv, Gated, Owns
<1>3. CASE Pump
    <2>1. CASE PumpAllowance
        <3>1. pump' \in {"leftover", "park"} => credit > 0 /\ allowed' = Least(credit, MAXIMUM_CHUNK)
            BY <2>1 DEF PumpAllowance
        <3>2. pump' \in {"vacate", "leftover", "park"}
            BY <2>1 DEF PumpAllowance
        <3>. QED
            BY <1>0, <3>1, <3>2 DEF Least
    <2>2. CASE PumpLeftover \/ PumpParks \/ PumpUnparks \/ PumpPolls \/ PumpReads \/ PumpVacates
        BY <2>2 DEF PumpLeftover, PumpParks, PumpUnparks, PumpPolls, PumpReads, PumpVacates
    <2>. QED
        BY <1>3, <2>1, <2>2 DEF Pump
<1>4. \/ UNCHANGED <<pump, allowed, front>> /\ typed' \in Nat /\ typed' >= typed /\ (hungup => hungup')
      \/ \E r \in Runners : CommandReads(r)
      \/ Pump
    BY <1>0 DEF Next, vars, Terminated, Reader, ReadData, ReadEnd, ReadCredit, ReadClosed,
           ReadMode, ReadRun, ReadExitStatus, ReadFails, ReaderCloses, ReaderReleases, ReaderGoes,
           Receives, Main, MainWaits, MainRestores, MainExits, MainGoes, User, UserTypes,
           UserHangsUp, Daemon, DaemonGrants, DaemonCloses, DaemonModes, DaemonRuns, DaemonExits,
           Disconnect, DaemonWrites, DaemonEnds, DaemonSends, Runner, RunnerLocks, RunnerPauses,
           RunnerPaused, RunnerHolds, HoldsAll, RunnerRestores, RunnerSpawns, RunnerSetsRaw,
           RunnerReleases, RunnerResumes, RunnerAnswers, RunnerGoes, Command, CommandEnds, Drain,
           DrainTakes, DrainWrites, launcherVars
<1>. QED
    BY <1>1, <1>2, <1>3, <1>4

\* What is weighed loses what is read, and gains what is sent.
LEMMA OnTheWay ==
    ASSUME TermInv, NEW weight \in [Wire -> 0..WINDOW]
    PROVE  /\ Load(down, weight) \in Nat
           /\ \A type : Receives(type) =>
                /\ Head(down) \in Wire /\ Head(down).type = type
                /\ weight[Head(down)] \in Nat /\ Load(down', weight) \in Nat
                /\ Load(down, weight) = weight[Head(down)] + Load(down', weight)
           /\ \A d \in Wire : DaemonSends(d) =>
                /\ weight[d] \in Nat /\ Load(down', weight) = Load(down, weight) + weight[d]
<1>1. down \in Seq(Wire)
    BY DEF TermInv
<1>2. ASSUME NEW type, Receives(type)
      PROVE  /\ Head(down) \in Wire /\ Head(down).type = type
             /\ weight[Head(down)] \in Nat /\ Load(down', weight) \in Nat
             /\ Load(down, weight) = weight[Head(down)] + Load(down', weight)
    <2>1. down # <<>> /\ down' = Tail(down) /\ Head(down).type = type
        BY <1>2 DEF Receives
    <2>. QED
        BY <1>1, <2>1, LoadOfTail
<1>3. ASSUME NEW d \in Wire, DaemonSends(d)
      PROVE  weight[d] \in Nat /\ Load(down', weight) = Load(down, weight) + weight[d]
    <2>1. down' = Append(down, d)
        BY <1>3 DEF DaemonSends
    <2>. QED
        BY <1>1, <2>1, LoadOfAppend
<1>. QED
    BY <1>1, <1>2, <1>3, WeighedFinite

LEMMA WireWeights ==
    /\ Commanded \in [Wire -> 0..WINDOW] /\ Exits \in [Wire -> 0..WINDOW]
    /\ \A d \in Wire :
         /\ Commanded[d] = IF d.type = "run" THEN 1 ELSE 0
         /\ Exits[d] = IF d.type = "exit-status" THEN 1 ELSE 0
         /\ Grants[d] = IF d.type = "credit" THEN d.bytes ELSE 0
BY TerminalAssumption DEF Commanded, Exits, Grants

\* Every document the daemon sends is one of the wire's.
LEMMA Sendings ==
    ASSUME TermInv, Daemon
    PROVE  \/ down' = down /\ UNCHANGED <<dbuffer, druns, dexit>>
           \/ \E d \in Wire :
                /\ DaemonSends(d)
                /\ IF d.type = "credit" THEN dbuffer' = dbuffer - d.bytes /\ d.bytes <= dbuffer
                                        ELSE dbuffer' = dbuffer
                /\ druns' = druns + (IF d.type = "run" THEN 1 ELSE 0)
                /\ (dexit' => dexit \/ d.type = "exit-status")
<1>0. /\ 0 \in 0..WINDOW /\ 1 \in 0..WINDOW /\ druns \in Nat /\ dbuffer \in 0..WINDOW /\ WINDOW \in Nat
      /\ dexit \in BOOLEAN
    BY TerminalAssumption DEF TermInv, TypeOK
<1>1. \A type \in Types, s \in Outputs \cup {NoStream}, n \in 0..WINDOW :
          /\ Doc(type, s, n) \in Wire
          /\ Doc(type, s, n).type = type /\ Doc(type, s, n).bytes = n
    BY DEF Doc, Wire
<1>2. ASSUME NEW s \in Outputs, DaemonWrites(s) \/ DaemonEnds(s)
      PROVE  \E d \in Wire : /\ DaemonSends(d) /\ d.type \in {"data", "end"}
                             /\ UNCHANGED <<dbuffer, druns, dexit>>
    BY <1>0, <1>1, <1>2 DEF DaemonWrites, DaemonEnds, Types
<1>3. ASSUME DaemonCloses \/ DaemonModes
      PROVE  \E d \in Wire : /\ DaemonSends(d) /\ d.type \in {"closed", "cooked", "raw"}
                             /\ UNCHANGED <<dbuffer, druns, dexit>>
    BY <1>0, <1>1, <1>3 DEF DaemonCloses, DaemonModes, Types, daemonVars
<1>4. CASE DaemonGrants
    <2>1. PICK n \in 1..dbuffer : DaemonSends(Doc("credit", NoStream, n)) /\ dbuffer' = dbuffer - n
        BY <1>4 DEF DaemonGrants
    <2>2. n \in 0..WINDOW /\ n <= dbuffer
        BY <1>0
    <2>3. Doc("credit", NoStream, n) \in Wire /\ Doc("credit", NoStream, n).type = "credit"
             /\ Doc("credit", NoStream, n).bytes = n
        BY <1>1, <2>2 DEF Types
    <2>4. druns' = druns /\ dexit' = dexit
        BY <1>4 DEF DaemonGrants
    <2>. QED
        BY <1>0, <2>1, <2>2, <2>3, <2>4
<1>5. CASE DaemonRuns
    <2>1. Doc("run", NoStream, 0) \in Wire /\ Doc("run", NoStream, 0).type = "run"
        BY <1>0, <1>1 DEF Types
    <2>. QED
        BY <1>0, <1>5, <2>1 DEF DaemonRuns
<1>6. CASE DaemonExits
    <2>1. Doc("exit-status", NoStream, 0) \in Wire /\ Doc("exit-status", NoStream, 0).type = "exit-status"
        BY <1>0, <1>1 DEF Types
    <2>2. DaemonSends(Doc("exit-status", NoStream, 0)) /\ UNCHANGED <<dbuffer, druns>>
        BY <1>6 DEF DaemonExits
    <2>. QED
        BY <1>0, <2>1, <2>2
<1>7. CASE Disconnect
    BY <1>7 DEF Disconnect, daemonVars
<1>8. ASSUME NEW d \in Wire, DaemonSends(d), d.type \notin {"credit", "run", "exit-status"},
             UNCHANGED <<dbuffer, druns, dexit>>
      PROVE  \E e \in Wire :
                /\ DaemonSends(e)
                /\ IF e.type = "credit" THEN dbuffer' = dbuffer - e.bytes /\ e.bytes <= dbuffer
                                        ELSE dbuffer' = dbuffer
                /\ druns' = druns + (IF e.type = "run" THEN 1 ELSE 0)
                /\ (dexit' => dexit \/ e.type = "exit-status")
    BY <1>0, <1>8
<1>. QED
    BY <1>2, <1>3, <1>4, <1>5, <1>6, <1>7, <1>8 DEF Daemon

\* What a reader's document changes of the sums.
LEMMA Readings ==
    ASSUME TermInv, Reader
    PROVE  \/ /\ down' = down /\ runner' = runner /\ credit' = credit /\ reader # "reported"
              /\ reader' \in {"credits", "outbox", "release", "reported"} /\ (Active' => Active)
           \/ \E type \in Types :
                /\ Receives(type) /\ reader' \in {reader, "credits"} /\ (open' => open)
                /\ type = "exit-status" => reader' = "credits"
                /\ type # "exit-status" => reader' = reader
                /\ IF type = "credit" THEN open => credit' = credit + Head(down).bytes
                                      ELSE credit' = credit
                /\ IF type = "run"
                   THEN \E r \in Runners : runner[r] = "none"
                                            /\ runner' = [runner EXCEPT ![r] = "start"]
                   ELSE runner' = runner
<1>1. CASE ReadFails \/ ReaderCloses \/ ReaderReleases
    BY <1>1 DEF ReadFails, ReaderCloses, ReaderReleases, ReaderGoes, wireVars, runVars, creditVars,
                Active, CreditsClosed
<1>2. CASE ReadData
    BY <1>2 DEF ReadData, creditVars, Types
<1>3. CASE ReadEnd
    BY <1>3 DEF ReadEnd, creditVars, Types
<1>4. CASE ReadCredit
    BY <1>4 DEF ReadCredit, Types
<1>5. CASE ReadClosed
    BY <1>5 DEF ReadClosed, Types
<1>6. CASE ReadMode
    BY <1>6 DEF ReadMode, creditVars, Types
<1>7. CASE ReadRun
    BY <1>7 DEF ReadRun, creditVars, Types
<1>8. CASE ReadExitStatus
    BY <1>8 DEF ReadExitStatus, creditVars, Types
<1>. QED
    BY <1>1, <1>2, <1>3, <1>4, <1>5, <1>6, <1>7, <1>8 DEF Reader

\* Every other thread's step leaves the wire alone.
LEMMA Elsewhere ==
    ASSUME [Next]_vars
    PROVE  \/ Pump \/ Reader \/ Daemon
           \/ /\ UNCHANGED <<open, credit, reader, down, connected, daemonVars>>
              /\ runner' = runner \/ \E r \in Runners :
                    /\ runner[r] # "none"
                    /\ \E to : to # "none" /\ runner' = [runner EXCEPT ![r] = to]
<1>. USE DEF creditVars, wireVars, runVars
<1>1. CASE UNCHANGED vars \/ Terminated
    BY <1>1 DEF vars, Terminated
<1>2. CASE Main
    BY <1>2 DEF Main, MainWaits, MainRestores, MainExits, MainGoes
<1>3. CASE User
    BY <1>3 DEF User, UserTypes, UserHangsUp, launcherVars
<1>4. ASSUME NEW r \in Runners, Runner(r) \/ Command(r)
      PROVE  /\ UNCHANGED <<open, credit, reader, down, connected, daemonVars>>
             /\ runner' = runner \/ \E to : to # "none" /\ runner' = [runner EXCEPT ![r] = to]
             /\ runner[r] # "none"
    BY <1>4 DEF Runner, RunnerLocks, RunnerPauses, RunnerPaused, RunnerHolds, HoldsAll,
                RunnerRestores, RunnerSpawns, RunnerSetsRaw, RunnerReleases, RunnerResumes,
                RunnerAnswers, RunnerGoes, Command, CommandReads, CommandEnds
<1>5. ASSUME NEW s \in Outputs, Drain(s)
      PROVE  UNCHANGED <<open, credit, reader, down, connected, daemonVars, runner>>
    BY <1>5 DEF Drain, DrainTakes, DrainWrites
<1>. QED
    BY <1>1, <1>2, <1>3, <1>4, <1>5 DEF Next

\* The pump spends no more credit than it has, and sends what it spends.
LEMMA PumpingKeeps ==
    ASSUME TermInv, Pump
    PROVE  /\ UNCHANGED <<open, reader, down, connected, druns, dexit, runner>>
           /\ ~OutboxClosed => credit' + dbuffer' = credit + dbuffer
<1>. USE DEF creditVars, wireVars, runVars, daemonVars
<1>0. /\ credit \in Nat /\ dbuffer \in Nat /\ allowed \in Nat /\ pending \in Nat
      /\ typed \in Nat /\ front \in Nat
      /\ pump \in {"leftover", "park", "parked", "poll", "read"} => allowed <= credit
    BY TerminalAssumption DEF TermInv, TypeOK, Charged
<1>1. UNCHANGED <<open, reader, down, connected, druns, dexit, runner>>
    BY DEF Pump, PumpAllowance, PumpLeftover, PumpParks, PumpUnparks, PumpPolls, PumpReads,
           PumpVacates, Carry
<1>2. ASSUME NEW from, NEW n \in Nat, n <= credit, Carry(from, n), ~OutboxClosed
      PROVE  credit' + dbuffer' = credit + dbuffer
    <2>1. credit' = credit - n /\ dbuffer' = dbuffer + n
        BY <1>0, <1>2 DEF Carry
    <2>. QED
        BY <1>0, <2>1
<1>3. CASE PumpLeftover
    <2> DEFINE take == Least(allowed, pending)
    <2>1. take \in Nat /\ take <= allowed
        BY <1>0 DEF Least
    <2>2. pump = "leftover" /\ Carry(front - pending, take)
        BY <1>3 DEF PumpLeftover
    <2> HIDE DEF take
    <2>. QED
        BY <1>0, <1>1, <1>2, <2>1, <2>2
<1>4. CASE PumpReads
    <2>1. CASE UNCHANGED <<credit, dbuffer>>
        BY <1>1, <2>1
    <2>2. ASSUME NEW n \in 1..Least(allowed, typed - front), Carry(front, n), pump = "read"
          PROVE  ~OutboxClosed => credit' + dbuffer' = credit + dbuffer
        <3>1. n \in Nat /\ n <= allowed
            BY <1>0 DEF Least
        <3>. QED
            BY <1>0, <1>2, <2>2, <3>1
    <2>. QED
        BY <1>1, <1>4, <2>1, <2>2 DEF PumpReads
<1>5. CASE PumpAllowance \/ PumpParks \/ PumpUnparks \/ PumpPolls \/ PumpVacates
    BY <1>1, <1>5 DEF PumpAllowance, PumpParks, PumpUnparks, PumpPolls, PumpVacates
<1>. QED
    BY <1>1, <1>3, <1>4, <1>5 DEF Pump

-----------------------------------------------------------------------------
LEMMA WindowNext == TermInv /\ WindowIsKept /\ [Next]_vars => WindowIsKept'
<1>. SUFFICES ASSUME TermInv, WindowIsKept, [Next]_vars, Active'
              PROVE  (credit + dbuffer + Load(down, Grants) = WINDOW)'
    BY DEF WindowIsKept
<1>. USE DEF Active, CreditsClosed, OutboxClosed
<1>1. /\ credit \in Nat /\ dbuffer \in Nat /\ WINDOW \in Nat /\ Load(down, Grants) \in Nat
      /\ Active => credit + dbuffer + Load(down, Grants) = WINDOW
      /\ Grants \in [Wire -> 0..WINDOW]
    BY OnTheWay, Weights, TerminalAssumption DEF TermInv, TypeOK, WindowIsKept
<1>2. CASE Pump
    <2>1. UNCHANGED <<open, reader, down>> /\ (~OutboxClosed => credit' + dbuffer' = credit + dbuffer)
        BY <1>2, PumpingKeeps
    <2>2. Active /\ credit' + dbuffer' = credit + dbuffer /\ Load(down', Grants) = Load(down, Grants)
        BY <2>1
    <2>3. credit' \in Nat /\ dbuffer' \in Nat
        BY <1>2, TermInvNext, TerminalAssumption DEF TermInv, TypeOK
    <2>. QED
        BY <1>1, <2>2, <2>3
<1>3. CASE Reader
    <2>1. dbuffer' = dbuffer
        BY <1>3
        DEF Reader, ReadData, ReadEnd, ReadCredit, ReadClosed, ReadMode, ReadRun, ReadExitStatus,
            ReadFails, ReaderCloses, ReaderReleases, ReaderGoes, Receives, daemonVars
    <2>2. CASE down' = down /\ credit' = credit /\ Active
        BY <1>1, <2>1, <2>2
    <2>3. ASSUME NEW type \in Types, Receives(type), open', open, reader' \in {reader, "credits"},
                 IF type = "credit" THEN credit' = credit + Head(down).bytes ELSE credit' = credit
          PROVE  (credit + dbuffer + Load(down, Grants) = WINDOW)'
        <3>1. Active
            BY <2>3 DEF Receives
        <3>2. /\ Head(down) \in Wire /\ Head(down).type = type
              /\ Load(down', Grants) \in Nat
              /\ Load(down, Grants) = Grants[Head(down)] + Load(down', Grants)
              /\ Grants[Head(down)] \in Nat
            BY <1>1, <2>3, OnTheWay
        <3>3. Grants[Head(down)] = IF type = "credit" THEN Head(down).bytes ELSE 0
            BY <3>2, WireWeights
        <3>4. credit' = credit + Grants[Head(down)]
            BY <1>1, <2>3, <3>3
        <3>. QED
            BY <1>1, <2>1, <3>1, <3>2, <3>4
    <2>. QED
        BY <1>3, <2>2, <2>3, Readings
<1>4. CASE Daemon
    <2>1. UNCHANGED <<open, credit, reader>>
        BY <1>4
        DEF Daemon, DaemonGrants, DaemonCloses, DaemonModes, DaemonRuns, DaemonExits, Disconnect,
            DaemonWrites, DaemonEnds, DaemonSends, launcherVars, creditVars
    <2>2. CASE down' = down /\ dbuffer' = dbuffer
        BY <1>1, <2>1, <2>2
    <2>3. ASSUME NEW d \in Wire, DaemonSends(d),
                 IF d.type = "credit" THEN dbuffer' = dbuffer - d.bytes /\ d.bytes <= dbuffer
                                      ELSE dbuffer' = dbuffer
          PROVE  (credit + dbuffer + Load(down, Grants) = WINDOW)'
        <3>1. /\ Grants[d] \in Nat /\ Load(down', Grants) = Load(down, Grants) + Grants[d]
              /\ Grants[d] = IF d.type = "credit" THEN d.bytes ELSE 0
            BY <1>1, <2>3, OnTheWay, WireWeights
        <3>2. dbuffer' = dbuffer - Grants[d]
            BY <1>1, <2>3, <3>1
        <3>. QED
            BY <1>1, <2>1, <3>1, <3>2
    <2>. QED
        BY <1>4, <2>2, <2>3, Sendings
<1>5. CASE UNCHANGED <<open, credit, reader, down, daemonVars>>
    BY <1>1, <1>5 DEF daemonVars
<1>. QED
    BY <1>2, <1>3, <1>4, <1>5, Elsewhere

LEMMA BegunIsFew == IsFiniteSet(Begun) /\ Cardinality(Begun) \in Nat
<1>1. IsFiniteSet(Runners)
    BY FS_Interval, TerminalAssumption DEF Runners
<1>2. Begun \in SUBSET Runners
    BY DEF Begun
<1>. QED
    BY <1>1, <1>2, FS_Subset, FS_CardinalityType

LEMMA RunsNext == TermInv /\ RunsAreFew /\ [Next]_vars => RunsAreFew'
<1>. SUFFICES ASSUME TermInv, RunsAreFew, [Next]_vars PROVE RunsAreFew'
    OBVIOUS
<1>1. /\ Cardinality(Begun) \in Nat /\ druns \in Nat /\ Load(down, Commanded) \in Nat
      /\ Cardinality(Begun) + Load(down, Commanded) <= druns
      /\ Commanded \in [Wire -> 0..WINDOW] /\ DOMAIN runner = Runners
    BY BegunIsFew, OnTheWay, WireWeights, TerminalAssumption DEF TermInv, TypeOK, RunsAreFew
<1>2. ASSUME runner' = runner PROVE Begun' = Begun
    BY <1>2 DEF Begun
<1>3. CASE Pump
    BY <1>1, <1>2, <1>3, PumpingKeeps DEF RunsAreFew
<1>4. CASE Reader
    <2>1. druns' = druns
        BY <1>4
        DEF Reader, ReadData, ReadEnd, ReadCredit, ReadClosed, ReadMode, ReadRun, ReadExitStatus,
            ReadFails, ReaderCloses, ReaderReleases, ReaderGoes, Receives, daemonVars
    <2>2. CASE down' = down /\ runner' = runner
        BY <1>1, <1>2, <2>1, <2>2 DEF RunsAreFew
    <2>3. ASSUME NEW type \in Types, Receives(type),
                 IF type = "run"
                 THEN \E r \in Runners : runner[r] = "none"
                                         /\ runner' = [runner EXCEPT ![r] = "start"]
                 ELSE runner' = runner
          PROVE  RunsAreFew'
        <3>1. /\ Load(down', Commanded) \in Nat
              /\ Load(down, Commanded) = Commanded[Head(down)] + Load(down', Commanded)
              /\ Commanded[Head(down)] = IF type = "run" THEN 1 ELSE 0
            BY <1>1, <2>3, OnTheWay, WireWeights
        <3>2. Cardinality(Begun') = Cardinality(Begun) + (IF type = "run" THEN 1 ELSE 0)
            <4>1. CASE type # "run"
                BY <1>1, <1>2, <2>3, <4>1
            <4>2. CASE type = "run"
                <5>1. PICK r \in Runners : runner[r] = "none"
                                          /\ runner' = [runner EXCEPT ![r] = "start"]
                    BY <2>3, <4>2
                <5>2. Begun' = Begun \cup {r} /\ r \notin Begun
                    BY <1>1, <5>1 DEF Begun
                <5>3. Cardinality(Begun') = Cardinality(Begun) + 1
                    BY <5>2, BegunIsFew, FS_AddElement
                <5>. QED
                    BY <4>2, <5>3
            <4>. QED
                BY <4>1, <4>2
        <3> DEFINE begun == Cardinality(Begun)
                   after == Cardinality(Begun')
        <3>3. begun \in Nat /\ after = begun + (IF type = "run" THEN 1 ELSE 0)
                 /\ begun + Load(down, Commanded) <= druns
            BY <1>1, <3>2
        <3> HIDE DEF begun, after
        <3>4. after + Load(down', Commanded) <= druns'
            BY <1>1, <2>1, <3>1, <3>3
        <3>. QED
            BY <3>4 DEF RunsAreFew, after
    <2>. QED
        BY <1>4, <2>2, <2>3, Readings
<1>5. CASE Daemon
    <2>1. runner' = runner
        BY <1>5
        DEF Daemon, DaemonGrants, DaemonCloses, DaemonModes, DaemonRuns, DaemonExits, Disconnect,
            DaemonWrites, DaemonEnds, DaemonSends, launcherVars, runVars
    <2>2. CASE down' = down /\ druns' = druns
        BY <1>1, <1>2, <2>1, <2>2 DEF RunsAreFew
    <2>3. ASSUME NEW d \in Wire, DaemonSends(d), druns' = druns + (IF d.type = "run" THEN 1 ELSE 0)
          PROVE  RunsAreFew'
        <3>1. /\ Load(down', Commanded) = Load(down, Commanded) + Commanded[d]
              /\ Commanded[d] = IF d.type = "run" THEN 1 ELSE 0
            BY <1>1, <2>3, OnTheWay, WireWeights
        <3>2. Cardinality(Begun) + Load(down', Commanded) <= druns'
            BY <1>1, <2>3, <3>1
        <3>. QED
            BY <1>2, <2>1, <3>2 DEF RunsAreFew
    <2>. QED
        BY <1>5, <2>2, <2>3, Sendings
<1>6. CASE /\ UNCHANGED <<down, daemonVars>>
           /\ runner' = runner \/ \E r \in Runners :
                 /\ runner[r] # "none"
                 /\ \E to : to # "none" /\ runner' = [runner EXCEPT ![r] = to]
    <2>1. Begun' = Begun
        BY <1>1, <1>6 DEF Begun
    <2>. QED
        BY <1>1, <1>6, <2>1 DEF RunsAreFew, daemonVars
<1>. QED
    BY <1>3, <1>4, <1>5, <1>6, Elsewhere

LEMMA ExitNext == TermInv /\ ExitIsSeen /\ [Next]_vars => ExitIsSeen'
<1>. SUFFICES ASSUME TermInv, ExitIsSeen, [Next]_vars, dexit', reader' = "reading"
              PROVE  Load(down', Exits) > 0
    BY DEF ExitIsSeen
<1>1. /\ Load(down, Exits) \in Nat
      /\ dexit /\ reader = "reading" => Load(down, Exits) > 0
      /\ Exits \in [Wire -> 0..WINDOW]
    BY OnTheWay, WireWeights DEF ExitIsSeen
<1>2. CASE Pump
    BY <1>1, <1>2, PumpingKeeps
<1>3. CASE Reader
    <2>1. dexit' = dexit
        BY <1>3
        DEF Reader, ReadData, ReadEnd, ReadCredit, ReadClosed, ReadMode, ReadRun, ReadExitStatus,
            ReadFails, ReaderCloses, ReaderReleases, ReaderGoes, Receives, daemonVars
    <2>2. PICK type \in Types :
              /\ Receives(type)
              /\ type = "exit-status" => reader' = "credits"
              /\ type # "exit-status" => reader' = reader
        BY <1>3, Readings
    <2>3. type # "exit-status" /\ reader = "reading"
        BY <2>2
    <2>4. /\ Load(down', Exits) \in Nat /\ Exits[Head(down)] = 0
          /\ Load(down, Exits) = Exits[Head(down)] + Load(down', Exits)
        BY <1>1, <2>2, <2>3, OnTheWay, WireWeights
    <2>. QED
        BY <1>1, <2>1, <2>3, <2>4
<1>4. CASE Daemon
    <2>1. reader' = reader
        BY <1>4
        DEF Daemon, DaemonGrants, DaemonCloses, DaemonModes, DaemonRuns, DaemonExits, Disconnect,
            DaemonWrites, DaemonEnds, DaemonSends, launcherVars
    <2>2. CASE down' = down /\ dexit' = dexit
        BY <1>1, <2>1, <2>2
    <2>3. ASSUME NEW d \in Wire, DaemonSends(d), dexit' => dexit \/ d.type = "exit-status"
          PROVE  Load(down', Exits) > 0
        <3>1. /\ Load(down', Exits) = Load(down, Exits) + Exits[d]
              /\ Exits[d] = IF d.type = "exit-status" THEN 1 ELSE 0
            BY <1>1, <2>3, OnTheWay, WireWeights
        <3>. QED
            BY <1>1, <2>1, <2>3, <3>1
    <2>. QED
        BY <1>4, <2>2, <2>3, Sendings
<1>5. CASE UNCHANGED <<reader, down, daemonVars>>
    BY <1>1, <1>5 DEF daemonVars
<1>. QED
    BY <1>2, <1>3, <1>4, <1>5, Elsewhere

LEMMA WaitInvInit == Init => WaitInv
<1>. SUFFICES ASSUME Init PROVE WaitInv
    OBVIOUS
<1>1. GateHeld /\ EndedIsOut /\ PumpHasCause
    BY RunnersAreNotZero DEF Init, GateHeld, EndedIsOut, PumpHasCause
<1>2. Load(down, Grants) = 0 /\ Load(down, Commanded) = 0
    BY LoadOfEmpty DEF Init
<1>3. Begun = {}
    BY DEF Init, Begun
<1>4. WindowIsKept /\ RunsAreFew /\ ExitIsSeen
    BY <1>2, <1>3, FS_EmptySet, TerminalAssumption DEF Init, WindowIsKept, RunsAreFew, ExitIsSeen
<1>. QED
    BY <1>1, <1>4 DEF WaitInv

LEMMA WaitInvNext == TerminalInv /\ TermInv /\ WaitInv /\ [Next]_vars => WaitInv'
BY GateNext, EndedNext, CauseNext, WindowNext, RunsNext, ExitNext DEF WaitInv

-----------------------------------------------------------------------------
(* What each thread may do next: these are the conditions under which its  *)
(* actions are enabled.                                                    *)

PumpMay ==
    \/ pump = "allowance" /\ (~Active \/ credit > 0)
    \/ pump \in {"leftover", "park", "poll", "vacate"}
    \/ pump = "parked" /\ ~requested
    \/ pump = "read" /\ (front < typed \/ hungup)

CommandMay(r) ==
    \/ runner[r] = "start" /\ child = 0
    \/ runner[r] = "pausing" /\ parked
    \/ runner[r] \in {"hold", "release"} /\ todo # {}
    \/ runner[r] \in {"pause", "restore", "spawn", "running", "raw", "resume", "answer"}

FirstUnbegun(r) == runner[r] = "none" /\ \A earlier \in 1..(r - 1) : runner[earlier] # "none"

ReaderMay ==
    \/ /\ reader = "reading" /\ down # <<>>
       /\ Head(down).type = "run" => \E r \in Runners : FirstUnbegun(r)
    \/ reader = "reading" /\ down = <<>> /\ ~connected
    \/ reader \in {"credits", "outbox", "release"}

DrainMay(s) ==
    \/ drain[s] = "write"
    \/ drain[s] = "wait" /\ ~held[s] /\ (queue[s] > 0 \/ ended[s])

\* The application may read what it has been sent, and grant as much again.
CreditMay == dbuffer > 0 /\ connected /\ ~dexit /\ Len(down) < SOCKET

HolderMay == child \in Runners /\ CommandMay(child)

\* The pump goes on; or the credit it waits for is on its way, or the application's to give; or
\* the command it waits for goes on.
PumpAdvances ==
    \/ PumpMay
    \/ pump = "allowance" /\ (ReaderMay \/ CreditMay)
    \/ pump = "parked" /\ HolderMay

\* session.rs:277-281 and launcher.md, Running a command on the client's terminal: no one on
\* the terminal waits for someone who waits for him.  A command that waits for its turn, or for
\* the pump to park, waits for a thread that goes on; the pump waits for credit that may come
\* or for a command that goes on; and a stream still open is held by one that goes on.  A drain
\* waits for no one but the daemon or, its stream held and over, for the release it will not
\* get (the property Gone, that the code does not have).  That a command running ends is the
\* user's affair.
NoneWaitsInVain ==
    Alive =>
        /\ \A r \in Runners : runner[r] \notin {"none", "done"} =>
             \/ CommandMay(r)
             \/ HolderMay
             \/ child \in Runners /\ runner[child] = "pausing" /\ PumpAdvances
        /\ pump # "done" => PumpAdvances
        /\ \A s \in inlets : held[s] => HolderMay
        /\ \A s \in Outputs : drain[s] # "done" => DrainMay(s) \/ held[s] \/ s \in inlets

LEMMA FirstOfThem ==
    ASSUME NEW T, T \subseteq Nat, T # {} PROVE \E x \in T : \A y \in T : x <= y
<1> DEFINE R == {ss \in Nat \X Nat : ss[1] < ss[2]}
<1>1. IsWellFoundedOn(R, Nat)
    BY NatLessThanWellFounded DEF OpToRel
<1>2. \E x \in T : \A y \in T : ~(<<y, x>> \in R)
    <2> HIDE DEF R
    <2>. QED
        BY <1>1, WFMin
<1>3. PICK x \in T : \A y \in T : <<y, x>> \notin R
    BY <1>2
<1>4. ASSUME NEW y \in T PROVE x <= y
    <2>1. x \in Nat /\ y \in Nat /\ ~(y < x)
        BY <1>3
    <2>. QED
        BY <2>1
<1>. QED
    BY <1>3, <1>4

\* A `run` on the wire finds a thread to run it.
LEMMA RunIsBegun ==
    ASSUME TermInv, RunsAreFew, down # <<>>, Head(down).type = "run"
    PROVE  \E r \in Runners : FirstUnbegun(r)
<1>1. /\ down \in Seq(Wire) /\ Commanded \in [Wire -> 0..WINDOW] /\ druns \in 0..Runs
      /\ Runs \in Nat /\ Cardinality(Begun) \in Nat
    BY WireWeights, BegunIsFew, TerminalAssumption DEF TermInv, TypeOK
<1>2. Load(down, Commanded) >= 1
    <2>1. /\ Head(down) \in Wire /\ Load(Tail(down), Commanded) \in Nat
          /\ Load(down, Commanded) = Commanded[Head(down)] + Load(Tail(down), Commanded)
        BY <1>1, LoadOfTail
    <2>. QED
        BY <2>1, WireWeights
<1>3. Cardinality(Begun) < Runs
    <2>1. Load(down, Commanded) \in Nat
        BY <1>1, WeighedFinite
    <2> DEFINE begun == Cardinality(Begun)
    <2>2. begun \in Nat /\ begun + Load(down, Commanded) <= druns
        BY <1>1 DEF RunsAreFew
    <2> HIDE DEF begun
    <2>3. begun < Runs
        BY <1>1, <1>2, <2>1, <2>2
    <2>. QED
        BY <2>3 DEF begun
<1> DEFINE rest == {r \in Runners : runner[r] = "none"}
<1>4. rest # {}
    <2>1. SUFFICES ASSUME rest = {} PROVE FALSE
        OBVIOUS
    <2>2. Begun = 1..Runs
        BY <2>1 DEF Begun, Runners
    <2>3. Cardinality(1..Runs) = Runs
        BY <1>1, FS_Interval
    <2>. QED
        BY <1>1, <1>3, <2>2, <2>3
<1>5. rest \subseteq Nat
    BY <1>1 DEF Runners
<1>6. PICK r \in rest : \A other \in rest : r <= other
    BY <1>4, <1>5, FirstOfThem
<1>7. ASSUME NEW earlier \in 1..(r - 1) PROVE runner[earlier] # "none"
    <2>1. earlier \in Runners /\ ~(r <= earlier)
        BY <1>1, <1>5, <1>6 DEF Runners
    <2>. QED
        BY <1>6, <2>1
<1>. QED
    BY <1>6, <1>7 DEF FirstUnbegun

LEMMA ReaderGoesOn ==
    ASSUME TermInv, RunsAreFew, down # <<>> \/ ~connected \/ reader \in {"credits", "outbox", "release"},
           reader # "reported"
    PROVE  ReaderMay
<1>1. reader \in {"reading", "credits", "outbox", "release"}
    BY DEF TermInv, TypeOK
<1>. QED
    BY <1>1, RunIsBegun DEF ReaderMay

\* Credit that is not to be had yet is on the wire, or the application's to grant.
LEMMA CreditComes ==
    ASSUME TermInv, WaitInv, Active, credit = 0
    PROVE  ReaderMay \/ CreditMay
<1>1. SUFFICES ASSUME ~ReaderMay PROVE CreditMay
    OBVIOUS
<1>2. reader = "reading" /\ down = <<>> /\ connected
    BY <1>1, ReaderGoesOn DEF Active, CreditsClosed, TermInv, TypeOK, WaitInv
<1>3. /\ WINDOW \in Nat \ {0} /\ SOCKET \in Nat \ {0} /\ dbuffer \in Nat /\ dexit \in BOOLEAN
    BY TerminalAssumption DEF TermInv, TypeOK
<1>4. Load(down, Grants) = 0 /\ Load(down, Exits) = 0
    BY <1>2, LoadOfEmpty
<1>5. dbuffer = WINDOW
    BY <1>3, <1>4 DEF WaitInv, WindowIsKept
<1>6. ~dexit
    BY <1>2, <1>4 DEF WaitInv, ExitIsSeen
<1>7. Len(down) = 0
    BY <1>2
<1>. QED
    BY <1>2, <1>3, <1>5, <1>6, <1>7 DEF CreditMay

\* Whoever has the child's mutex goes on, unless it waits for the pump to park.
LEMMA HolderGoesOn ==
    ASSUME TerminalInv, WaitInv, child # 0
    PROVE  child \in Runners /\ (HolderMay \/ (runner[child] = "pausing" /\ ~parked))
BY DEF TerminalInv, ThreadsOK, WaitInv, GateHeld, HolderMay, CommandMay, Locked, Phases

LEMMA PumpGoesOn ==
    ASSUME TerminalInv, TermInv, WaitInv, pump # "done"
    PROVE  PumpAdvances
<1>0. /\ credit \in Nat
      /\ pump \in {"allowance", "leftover", "park", "parked", "poll", "read", "vacate"}
    BY DEF TermInv, TypeOK
<1>1. CASE pump = "allowance"
    BY <1>0, <1>1, CreditComes DEF PumpAdvances, PumpMay
<1>2. CASE pump = "parked"
    <2>1. requested => child # 0 /\ parked
        BY <1>2 DEF WaitInv, GateHeld
    <2>. QED
        BY <1>2, <2>1, HolderGoesOn DEF PumpAdvances, PumpMay
<1>3. CASE pump \notin {"allowance", "parked"}
    BY <1>0, <1>3 DEF PumpAdvances, PumpMay, WaitInv, PumpHasCause
<1>. QED
    BY <1>1, <1>2, <1>3

LEMMA WaitsNotInVain == TerminalInv /\ TermInv /\ WaitInv => NoneWaitsInVain
<1>. SUFFICES ASSUME TerminalInv, TermInv, WaitInv PROVE NoneWaitsInVain
    OBVIOUS
<1>1. ASSUME child # 0
      PROVE  HolderMay \/ (child \in Runners /\ runner[child] = "pausing" /\ PumpAdvances)
    <2>1. CASE HolderMay
        BY <2>1
    <2>2. CASE child \in Runners /\ runner[child] = "pausing" /\ ~parked
        <3>1. pump # "done"
            BY <2>2 DEF WaitInv, GateHeld
        <3>. QED
            BY <2>2, <3>1, PumpGoesOn
    <2>. QED
        BY <1>1, <2>1, <2>2, HolderGoesOn
<1>2. ASSUME NEW r \in Runners, runner[r] \notin {"none", "done"}
      PROVE  \/ CommandMay(r)
             \/ HolderMay
             \/ child \in Runners /\ runner[child] = "pausing" /\ PumpAdvances
    <2>1. CASE runner[r] = "start" /\ child = 0
        BY <2>1 DEF CommandMay
    <2>2. CASE runner[r] # "start"
        <3>1. child = r /\ r # 0
            BY <1>2, <2>2, RunnersAreNotZero DEF TerminalInv, ThreadsOK, Gated, Locked
        <3>. QED
            BY <1>1, <3>1
    <2>. QED
        BY <1>1, <2>1, <2>2
<1>3. ASSUME NEW s \in inlets, held[s] PROVE HolderMay
    <2>1. PICK r \in Runners : Owns(r)
        BY <1>3 DEF TerminalInv, HeldSoFar
    <2>2. child = r /\ r # 0 /\ runner[r] # "pausing"
        BY <2>1, RunnersAreNotZero DEF TerminalInv, Gated, Owns, Locked, Phases
    <2>. QED
        BY <2>2, HolderGoesOn
<1>4. ASSUME NEW s \in Outputs, drain[s] # "done", ~held[s], s \notin inlets PROVE DrainMay(s)
    <2>1. drain[s] \in {"wait", "write"} /\ ended[s]
        BY <1>4 DEF TermInv, TypeOK, WaitInv, EndedIsOut
    <2>. QED
        BY <1>4, <2>1 DEF DrainMay
<1>. QED
    BY <1>2, <1>3, <1>4, PumpGoesOn DEF NoneWaitsInVain

\* The terminal, its pump, the commands run on it and the streams they hold never wait for one
\* another in a circle (session.rs:281-327, 600-637).
THEOREM CommandsAreNeverStuck == Spec => []NoneWaitsInVain
BY TerminalInvInit, TerminalInvNext, TermInvInit, TermInvNext, WaitInvInit, WaitInvNext,
   WaitsNotInVain, PTL DEF Spec
=============================================================================
