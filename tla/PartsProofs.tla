---------------------------- MODULE PartsProofs ----------------------------
(* The parts of the launcher that share no state with one another, as      *)
(* module MCParts has them, each for any value of its constants.           *)
EXTENDS Update, Record, Launch, Java, Acceptance, Signals, FiniteSetTheorems,
        FunctionTheorems, TLAPS

-----------------------------------------------------------------------------
(* The launcher's own file.  Updates that do not overlap lose no           *)
(* executable, and any swap in what they verified, wherever they fail or   *)
(* are killed.  The scan for the record finds the first in the file.       *)

Binary == {Installed} \cup Deliveries

Updates == {"started", "read", "verified", "cleared", "moved", "swapped"}

FilesOK ==
    /\ {script, old, pendingFile} \subseteq Binary \cup {Absent}
    /\ at \in [Launchers -> Updates \cup {"idle"}]
    /\ config \in [Launchers -> Binary]
    /\ bytes \in [Launchers -> Binary \cup {Absent}]
    /\ met \in BOOLEAN /\ redelivered \in BOOLEAN

\* Recoverable does not say what an invocation at its update has still to rely on: that it is
\* the only one, and where the executable is by then.
Alone ==
    /\ Executable # Absent
    /\ \A l \in Launchers : at[l] # "idle" =>
         /\ \A other \in Launchers : at[other] # "idle" => other = l
         /\ at[l] = "moved" <=> script = Absent

\* Nor does SwapsVerified: that what was accepted is as it was when it was, and ...
Judged ==
    \A l \in Launchers :
        at[l] \in {"verified", "cleared", "moved"} => Acceptable(bytes[l], config[l])

\* ... that the path is empty while one is between its renames, so that there is one such, ...
OneMoved ==
    \A l \in Launchers : at[l] = "moved" =>
        script = Absent /\ \A other \in Launchers : at[other] = "moved" => other = l

\* ... and that while something is pending that no delivery has replaced, all that are at
\* their updates have read it, if anything, and run the binary that it would replace.
Agreed ==
    pendingFile # Absent => \A l \in Launchers : at[l] # "idle" =>
        /\ at[l] # "swapped" /\ script \in {config[l], Absent}
        /\ at[l] = "moved" => old \in {config[l], Absent}
        /\ at[l] \in {"read", "verified", "cleared", "moved"} => bytes[l] = pendingFile
        /\ \A other \in Launchers : at[other] # "idle" => config[other] = config[l]

UpdateInv ==
    FilesOK /\ Judged /\ OneMoved /\ (~met => Alone) /\ (~redelivered => Agreed)

LEMMA AbsentIsNone == Absent \notin Binary
BY UpdateAssumption DEF Binary

LEMMA UpdateInvInit == UpdateInit => UpdateInv
BY AbsentIsNone DEF UpdateInit, UpdateInv, FilesOK, Judged, OneMoved, Alone, Agreed, Executable,
                    Binary

LEMMA PutPendingKeeps == ASSUME UpdateInv, PutPending PROVE UpdateInv'
<1>1. FilesOK'
    BY DEF UpdateInv, FilesOK, PutPending, Binary
<1>2. Judged' /\ OneMoved' /\ (~met' => Alone')
    BY DEF UpdateInv, PutPending, Judged, OneMoved, Alone, Executable, Acceptable, Verifies,
           Advances
<1>3. ~redelivered' => Agreed'
    BY DEF UpdateInv, PutPending, Agreed, Updating
<1>. QED
    BY <1>1, <1>2, <1>3 DEF UpdateInv

LEMMA StartKeeps == ASSUME UpdateInv, NEW l \in Launchers, Start(l) PROVE UpdateInv'
<1>1. FilesOK'
    BY DEF UpdateInv, FilesOK, Start, Meets, Updates
<1>2. Judged' /\ OneMoved' /\ (~redelivered' => Agreed')
    BY DEF UpdateInv, FilesOK, Start, Judged, OneMoved, Agreed, Acceptable, Verifies, Advances
<1>3. ASSUME ~met' PROVE Alone'
    <2>1. ~met /\ \A other \in Launchers : other # l => at[other] = "idle"
        BY <1>3 DEF Start, Meets, Updating, UpdateInv, FilesOK
    <2>. QED
        BY <2>1 DEF Start, UpdateInv, FilesOK, Alone, Executable
<1>. QED
    BY <1>1, <1>2, <1>3 DEF UpdateInv

\* The other steps of an update.
UpdateSteps(l) ==
    \/ ReadPending(l) \/ Reject(l) \/ Accept(l) \/ RemoveOld(l) \/ MoveAside(l)
    \/ CannotMoveAside(l) \/ MoveIn(l) \/ MoveBack(l) \/ Exec(l) \/ Kill(l)

LEMMA StepKeeps == ASSUME UpdateInv, NEW l \in Launchers, UpdateSteps(l) PROVE UpdateInv'
<1>. USE AbsentIsNone
     DEF UpdateInv, FilesOK, Updates, Judged, OneMoved, Alone, Agreed, Executable, Moves, Proceed,
         historyVars
<1>1. CASE ReadPending(l)
    BY <1>1 DEF ReadPending
<1>2. CASE Reject(l)
    BY <1>2 DEF Reject
<1>3. CASE Accept(l)
    BY <1>3 DEF Accept
<1>4. CASE RemoveOld(l)
    BY <1>4 DEF RemoveOld
<1>5. CASE MoveAside(l)
    BY <1>5 DEF MoveAside
<1>6. CASE CannotMoveAside(l)
    BY <1>6 DEF CannotMoveAside
<1>7. CASE MoveIn(l)
    BY <1>7 DEF MoveIn
<1>8. CASE MoveBack(l)
    BY <1>8 DEF MoveBack
<1>9. CASE Exec(l)
    BY <1>9 DEF Exec
<1>10. CASE Kill(l)
    BY <1>10 DEF Kill
<1>. QED
    BY <1>1, <1>2, <1>3, <1>4, <1>5, <1>6, <1>7, <1>8, <1>9, <1>10 DEF UpdateSteps

LEMMA UpdateInvNext == UpdateInv /\ [UpdateNext]_updateVars => UpdateInv'
<1>. SUFFICES ASSUME UpdateInv, [UpdateNext]_updateVars PROVE UpdateInv'
    OBVIOUS
<1>1. CASE UNCHANGED updateVars
    BY <1>1 DEF updateVars, historyVars, UpdateInv, FilesOK, Judged, OneMoved, Alone, Agreed,
                Executable, Acceptable, Verifies, Advances
<1>2. CASE UpdateNext
    BY <1>2, PutPendingKeeps, StartKeeps, StepKeeps DEF UpdateNext, UpdateSteps
<1>. QED
    BY <1>1, <1>2

\* Updates that do not overlap lose no executable, wherever they fail or are killed, whatever
\* is delivered meanwhile (update.rs:71-81).
THEOREM UpdateLosesNothing == UpdateSpec => []Recoverable
<1>1. UpdateInv => Recoverable
    BY DEF UpdateInv, Alone, Recoverable
<1>. QED
    BY UpdateInvInit, UpdateInvNext, <1>1, PTL DEF UpdateSpec

\* Only an invocation's second rename ends in its having swapped.
LEMMA SwapsByMoveIn ==
    ASSUME FilesOK, NEW l \in Launchers, at[l] = "moved", at'[l] = "swapped",
           [UpdateNext]_updateVars
    PROVE  MoveIn(l)
<1>1. at' # at
    OBVIOUS
<1>2. PICK m \in Launchers : Start(m) \/ UpdateSteps(m)
    BY <1>1 DEF updateVars, UpdateNext, UpdateSteps, PutPending
<1>3. \A other \in Launchers \ {m} : at'[other] = at[other]
    BY <1>2 DEF UpdateSteps, Start, ReadPending, Reject, Accept, RemoveOld, MoveAside,
        CannotMoveAside, MoveIn, MoveBack, Exec, Kill, Moves, Proceed, FilesOK
<1>4. m = l
    BY <1>3
<1>. QED
    BY <1>2, <1>4 DEF UpdateSteps, Start, ReadPending, Reject, Accept, RemoveOld, MoveAside,
        CannotMoveAside, MoveIn, MoveBack, Exec, Kill, Moves, Proceed, FilesOK

\* What an invocation swaps in, if it is what it read, its own publisher signed, of a later
\* build or with leave to go back; and it is what it read, and replaces the binary that read it,
\* for any number of updates at once, unless a delivery met one (update.rs:27-56, 71-81).
THEOREM UpdateSwapsVerified == UpdateSpec => SwapsVerified
<1>1. ASSUME UpdateInv, [UpdateNext]_updateVars
      PROVE  [\A l \in Launchers : at[l] = "moved" /\ at'[l] = "swapped" =>
                /\ script' = bytes[l] => Supersedes(script', config[l])
                /\ ~redelivered => script' = bytes[l] /\ old \in {config[l], Absent}]_updateVars
    <2>. SUFFICES ASSUME NEW l \in Launchers, at[l] = "moved", at'[l] = "swapped"
                  PROVE  /\ script' = bytes[l] => Supersedes(script', config[l])
                         /\ ~redelivered => script' = bytes[l] /\ old \in {config[l], Absent}
        OBVIOUS
    <2>1. MoveIn(l) /\ pendingFile # Absent /\ script' = pendingFile
        BY <1>1, SwapsByMoveIn DEF UpdateInv, MoveIn
    <2>2. Acceptable(bytes[l], config[l])
        BY <1>1 DEF UpdateInv, Judged
    <2>3. ~redelivered => script' = bytes[l] /\ old \in {config[l], Absent}
        BY <1>1, <2>1 DEF UpdateInv, Agreed
    <2>. QED
        BY <2>2, <2>3 DEF Acceptable, Verifies, Advances, Supersedes
<1>. QED
    BY UpdateInvInit, UpdateInvNext, <1>1, PTL DEF UpdateSpec, SwapsVerified

\* NeverStranded, of two invocations, says nothing of what a failed swap has to move back. One
\* at most is between its renames. Where the other has removed the `.old` it made, what is
\* pending is there, and the other has had its turn: it can end, and not start again. And what
\* two invocations have both read of is there until one of them is done with it.
AtMostTwo == \A l, other, third \in Launchers : l = other \/ other = third \/ l = third

Taken == {"read", "verified", "cleared", "moved"}

Between(l) ==
    /\ script = Absent
    /\ \A other \in Launchers : at[other] = "moved" => other = l
    /\ \/ old # Absent
       \/ pendingFile # Absent /\ \A other \in Launchers \ {l} : at[other] \in {"cleared", "idle"}

Unstranded ==
    /\ \A l \in Launchers : at[l] = "moved" => Between(l)
    /\ script = Absent => \E l \in Launchers : at[l] = "moved"
    /\ \A l, other \in Launchers :
         at[l] \in Taken /\ at[other] \in Taken /\ l # other => pendingFile # Absent

LEMMA UnstrandedInit == UpdateInit => Unstranded
BY AbsentIsNone DEF UpdateInit, Unstranded, Between, Taken, Binary

LEMMA UnstrandedSteps ==
    ASSUME AtMostTwo, FilesOK, Unstranded, ~faulted', NEW l \in Launchers,
           \/ Start(l) \/ ReadPending(l) \/ Reject(l) \/ Accept(l) \/ RemoveOld(l)
           \/ MoveAside(l) \/ CannotMoveAside(l) \/ MoveIn(l) \/ MoveBack(l) \/ Exec(l)
    PROVE  Unstranded'
<1>. USE DEF FilesOK, Updates, Unstranded, Between, Taken, Moves, Proceed, historyVars
<1>1. CASE Start(l)
    BY <1>1 DEF Start
<1>2. CASE ReadPending(l)
    BY <1>2 DEF ReadPending
<1>3. CASE Reject(l)
    BY <1>3 DEF Reject, AtMostTwo
<1>4. CASE Accept(l)
    BY <1>4 DEF Accept
<1>5. CASE RemoveOld(l)
    BY <1>5 DEF RemoveOld, AtMostTwo
<1>6. CASE MoveAside(l)
    BY <1>6 DEF MoveAside
<1>7. CASE CannotMoveAside(l)
    BY <1>7 DEF CannotMoveAside
<1>8. CASE MoveIn(l)
    BY <1>8 DEF MoveIn, AtMostTwo
<1>9. CASE MoveBack(l)
    BY <1>9 DEF MoveBack
<1>10. CASE Exec(l)
    BY <1>10 DEF Exec
<1>. QED
    BY <1>1, <1>2, <1>3, <1>4, <1>5, <1>6, <1>7, <1>8, <1>9, <1>10

LEMMA UnstrandedNext ==
    ASSUME AtMostTwo, FilesOK, ~faulted => Unstranded, [UpdateNext]_updateVars
    PROVE  ~faulted' => Unstranded'
<1>. SUFFICES ASSUME ~faulted' PROVE Unstranded'
    OBVIOUS
<1>1. CASE UNCHANGED updateVars
    BY <1>1 DEF updateVars, historyVars, Unstranded, Between
<1>2. CASE PutPending
    BY <1>2, AbsentIsNone DEF PutPending, Unstranded, Between, Binary
<1>3. ASSUME NEW l \in Launchers, Kill(l) PROVE FALSE
    BY <1>3 DEF Kill
<1>4. ASSUME NEW l \in Launchers,
             \/ Start(l) \/ ReadPending(l) \/ Reject(l) \/ Accept(l) \/ RemoveOld(l)
             \/ MoveAside(l) \/ CannotMoveAside(l) \/ MoveIn(l) \/ MoveBack(l) \/ Exec(l)
      PROVE  Unstranded'
    <2>1. ~faulted
        BY <1>4 DEF Start, ReadPending, Reject, Accept, RemoveOld, MoveAside, CannotMoveAside,
            MoveIn, MoveBack, Exec, historyVars
    <2>. QED
        BY <1>4, <2>1, UnstrandedSteps
<1>. QED
    BY <1>1, <1>2, <1>3, <1>4 DEF UpdateNext

\* Two updates that overlap in any way leave an executable at the path whenever neither is
\* between its renames, unless one was killed or could not rename what was there
\* (update.rs:71-81, layout.md:65). Of three it is false: when the first has swapped, the second
\* moves what came in aside, with nothing pending any more, and the third removes that `.old`.
THEOREM TwoUpdatesLeaveOne == ASSUME AtMostTwo PROVE UpdateSpec => []NeverStranded
<1>1. UpdateInv => FilesOK
    BY DEF UpdateInv
<1>2. (~faulted => Unstranded) => NeverStranded
    BY DEF Unstranded, NeverStranded
<1>. QED
    BY UpdateInvInit, UpdateInvNext, UnstrandedInit, UnstrandedNext, <1>1, <1>2, PTL
    DEF UpdateSpec

-----------------------------------------------------------------------------

\* FirstRecordFound speaks of a scan that is done; what makes it so is what each read leaves
\* behind it: no magic starts before the buffer, and the bytes carried are too few for one.
Scanned ==
    /\ file \in Seq(Nat) /\ scan \in {"closed", "reading", "done"}
    /\ position \in Nat /\ carry \in 0..(MAGIC_LEN - 1) /\ record \in Nat \cup {None}
    /\ scan = "closed" => position = 0 /\ carry = 0
    /\ scan # "done" => record = None
    /\ scan = "reading" => position + carry <= Len(file)
    /\ ScanIsFirst

\* A scan that ends with nothing has passed no whole record that starts within the limit.
NothingPassed ==
    scan = "done" /\ record = None =>
        \A offset \in Nat :
            MagicAt(file, offset) => offset >= SCAN_LIMIT \/ offset + RECORD_LEN > Len(file)

LEMMA MagicLength ==
    MAGIC_LEN \in Nat /\ MAGIC_LEN > 0 /\ RECORD_LEN \in Nat /\ RECORD_LEN >= MAGIC_LEN
BY RecordAssumption DEF MAGIC_LEN

LEMMA ScannedInit == RecordInit => Scanned /\ NothingPassed
<1>. SUFFICES ASSUME RecordInit PROVE Scanned /\ NothingPassed
    OBVIOUS
<1>1. Len(<<>>) = 0 /\ <<>> \in Seq(Nat)
    OBVIOUS
<1>. QED
    BY <1>1, MagicLength DEF RecordInit, Scanned, NothingPassed, ScanIsFirst, None

LEMMA OpenKeeps ==
    ASSUME Scanned, OpenFile PROVE Scanned' /\ NothingPassed'
<1>1. file' \in Seq(Nat) /\ Len(file') >= MAGIC_LEN - 1 /\ Len(file') \in Nat
    BY RecordAssumption DEF OpenFile
<1>. QED
    BY <1>1, MagicLength DEF OpenFile, Scanned, NothingPassed, ScanIsFirst, None

LEMMA FoundKeeps ==
    ASSUME Scanned, scan = "reading", NEW filled \in Nat, position + filled <= Len(file),
           NEW offset \in position..(position + filled),
           IsFirst(file, offset, position, position + filled), Found(offset)
    PROVE  Scanned' /\ NothingPassed'
<1>. USE MagicLength
<1>1. /\ offset \in Nat /\ MagicAt(file, offset)
      /\ offset + MAGIC_LEN <= Len(file) /\ Len(file) \in Nat
    BY DEF Scanned, IsFirst, MagicAt
<1>2. \A other \in 0..(offset - 1) : ~MagicAt(file, other)
    BY <1>1 DEF Scanned, IsFirst, ScanIsFirst
<1>3. IsFirst(file, offset, 0, Len(file))
    BY <1>1, <1>2 DEF IsFirst
<1>4. UNCHANGED <<file, position, carry>> /\ scan' = "done"
    BY DEF Found
<1>5. CASE offset + RECORD_LEN <= Len(file)
    <2>1. record' = offset /\ record' # None
        BY <1>1, <1>5 DEF Found, None
    <2>. QED
        BY <1>1, <1>3, <1>4, <1>5, <2>1 DEF Scanned, NothingPassed, ScanIsFirst
<1>6. CASE ~(offset + RECORD_LEN <= Len(file))
    <2>1. record' = None
        BY <1>6 DEF Found
    <2>2. \A other \in Nat : MagicAt(file, other) => other + RECORD_LEN > Len(file)
        BY <1>1, <1>2, <1>6
    <2>. QED
        BY <1>1, <1>4, <2>1, <2>2 DEF Scanned, NothingPassed, ScanIsFirst, MagicAt
<1>. QED
    BY <1>5, <1>6

LEMMA SlideKeeps ==
    ASSUME Scanned, scan = "reading", NEW filled \in Nat, position + filled <= Len(file),
           filled >= MAGIC_LEN - 1,
           \A offset \in position..(position + filled - MAGIC_LEN) : ~MagicAt(file, offset),
           Slide(filled)
    PROVE  Scanned' /\ NothingPassed'
<1>. USE MagicLength
<1>1. UNCHANGED <<file, scan, record>>
    BY DEF Slide
<1>2. carry' = MAGIC_LEN - 1 /\ position' = position + filled - (MAGIC_LEN - 1)
    BY DEF Slide
<1>3. position' \in Nat /\ position' + carry' <= Len(file)
    BY <1>2 DEF Scanned
<1>4. ASSUME NEW offset \in 0..(position' - 1) PROVE ~MagicAt(file, offset)
    <2>1. CASE offset < position
        BY <2>1 DEF Scanned, ScanIsFirst
    <2>2. CASE ~(offset < position)
        <3>1. offset \in position..(position + filled - MAGIC_LEN)
            BY <2>2, <1>2 DEF Scanned
        <3>. QED
            BY <3>1
    <2>. QED
        BY <2>1, <2>2
<1>. QED
    BY <1>1, <1>2, <1>3, <1>4 DEF Scanned, NothingPassed, ScanIsFirst, MagicAt, IsFirst

LEMMA ReadKeeps ==
    ASSUME Scanned, ReadChunk
    PROVE  Scanned' /\ NothingPassed'
<1>. USE MagicLength, RecordAssumption
<1>1. PICK read \in 1..(CHUNK + MAGIC_LEN - 1 - carry) :
        /\ position + (carry + read) <= Len(file) /\ carry + read >= MAGIC_LEN - 1
        /\ \/ \E offset \in position..(position + (carry + read)) :
                /\ IsFirst(file, offset, position, position + (carry + read))
                /\ Found(offset)
           \/ /\ \A offset \in position..(position + (carry + read) - MAGIC_LEN) :
                    ~MagicAt(file, offset)
              /\ Slide(carry + read)
    BY DEF ReadChunk
<1>2. carry + read \in Nat /\ scan = "reading"
    BY DEF Scanned, ReadChunk
<1>. QED
    BY <1>1, <1>2, FoundKeeps, SlideKeeps

LEMMA NothingKeeps ==
    ASSUME Scanned, Nothing
    PROVE  Scanned' /\ NothingPassed'
<1>. USE MagicLength, RecordAssumption
<1>1. UNCHANGED <<file, position, carry, record>> /\ scan' = "done" /\ record = None
    BY DEF Nothing, Scanned
<1>2. ASSUME NEW offset \in Nat, MagicAt(file, offset), position >= SCAN_LIMIT
      PROVE  offset >= SCAN_LIMIT
    BY <1>2 DEF Nothing, Scanned, ScanIsFirst
<1>3. ASSUME NEW offset \in Nat, MagicAt(file, offset), position + carry = Len(file)
      PROVE  FALSE
    <2>1. offset < position
        BY <1>3 DEF MagicAt, Scanned
    <2>. QED
        BY <1>3, <2>1 DEF Nothing, Scanned, ScanIsFirst
<1>4. NothingPassed'
    BY <1>1, <1>2, <1>3 DEF Nothing, NothingPassed, MagicAt
<1>. QED
    BY <1>1, <1>4 DEF Scanned, ScanIsFirst, MagicAt, IsFirst

LEMMA ScannedNext ==
    Scanned /\ NothingPassed /\ [RecordNext]_recordVars => Scanned' /\ NothingPassed'
<1>. SUFFICES ASSUME Scanned, NothingPassed, [RecordNext]_recordVars
              PROVE  Scanned' /\ NothingPassed'
    OBVIOUS
<1>1. CASE UNCHANGED recordVars
    BY <1>1 DEF recordVars, Scanned, NothingPassed, ScanIsFirst, MagicAt, IsFirst
<1>. QED
    BY <1>1, OpenKeeps, ReadKeeps, NothingKeeps DEF RecordNext

\* A first magic is the only one.
LEMMA OneFirst ==
    ASSUME NEW f, NEW to \in Int, NEW other \in Int,
           NEW one \in Nat, IsFirst(f, one, 0, to),
           NEW another \in Nat, IsFirst(f, another, 0, other)
    PROVE  one = another
<1>1. ~(one < another)
    BY DEF IsFirst
<1>2. ~(another < one)
    BY DEF IsFirst
<1>. QED
    BY <1>1, <1>2

\* What the verifier finds is the first magic of a part of the file.
LEMMA FindsAFirst ==
    ASSUME NEW f, FindRecord(f) # None
    PROVE  /\ FindRecord(f) \in 0..Len(f)
           /\ IsFirst(f, FindRecord(f), 0, Len(f) - RECORD_LEN + 1)
BY DEF FindRecord

LEMMA ScannedIsFirst == Scanned /\ NothingPassed => FirstRecordFound
<1>. SUFFICES ASSUME Scanned, NothingPassed, scan = "done" PROVE FirstRecordFound
    BY DEF FirstRecordFound
<1>. USE MagicLength, RecordAssumption
<1>1. Len(file) \in Nat
    BY DEF Scanned
<1>2. ASSUME record # None
      PROVE  /\ record + RECORD_LEN <= Len(file)
             /\ IsFirst(file, record, 0, Len(file))
             /\ FindRecord(file) \in {None, record}
    <2>1. /\ record \in Nat /\ record + RECORD_LEN <= Len(file)
          /\ IsFirst(file, record, 0, Len(file))
        BY <1>2 DEF Scanned, ScanIsFirst
    <2>2. ASSUME FindRecord(file) # None PROVE FindRecord(file) = record
        <3>1. /\ FindRecord(file) \in Nat
              /\ IsFirst(file, FindRecord(file), 0, Len(file) - RECORD_LEN + 1)
            BY <1>1, <2>2, FindsAFirst
        <3>. QED
            BY <1>1, <2>1, <3>1, OneFirst
    <2>. QED
        BY <2>1, <2>2
<1>3. ASSUME record = None, NEW offset \in 0..Len(file), MagicAt(file, offset)
      PROVE  offset >= SCAN_LIMIT \/ offset + RECORD_LEN > Len(file)
    BY <1>1, <1>3 DEF NothingPassed
<1>. QED
    BY <1>2, <1>3 DEF FirstRecordFound

\* However the reads of the launcher's scan fall (config.rs:117-146), it finds the first record
\* there is within its limit, and none that the verifier sees elsewhere, in a file of any size
\* and for any magic, record, chunk and limit.
THEOREM ScanFindsFirst == RecordSpec => []FirstRecordFound
<1>1. RecordSpec => [](Scanned /\ NothingPassed)
    BY ScannedInit, ScannedNext, PTL DEF RecordSpec
<1>. QED
    BY <1>1, ScannedIsFirst, PTL

-----------------------------------------------------------------------------
(* The wait for a daemon: what the spawner says of a daemon that exited is *)
(* so, a failure comes to be known to all that wait, and only a daemon     *)
(* that shows no progress is given up.  Then the downloads of the Java it  *)
(* runs on: whatever step was the last of each, the next one starts well.  *)

\* The spawner looks at its wrapper, and at the socket, a moment before it says so: what it
\* saw must last. Java is begun only by a wrapper that lives, and outlives it only if that one
\* is killed.
Waited ==
    /\ wait \in [Launching -> {"unborn", "locked", "gone", "killed"} \cup Outcomes \cup Polling]
    /\ wrapper \in {"unborn", "starting", "bare", "handling", "exited"}
    /\ java \in {"unborn", "running", "asked", "exited"}
    /\ orphaned \in BOOLEAN /\ bound \in BOOLEAN
    /\ wait[Spawner] = "locked" => wrapper = "unborn"
    /\ wrapper \in {"unborn", "starting"} => java = "unborn"
    /\ wrapper = "exited" /\ ~orphaned => java \in {"unborn", "exited"}
    /\ wait[Spawner] = "Exited" => wrapper = "exited" /\ (~orphaned => ~bound)

LEMMA WaitedInit == LaunchInit => Waited
BY DEF LaunchInit, Waited, Launching, Outcomes, Polling

LEMMA SpawningKeeps ==
    ASSUME Waited, Leftover \/ Spawn \/ CannotSpawn \/ SpawnerKilled \/ Tick PROVE Waited'
<1>. USE DEF Waited, Turns, Launching, Outcomes, Polling, processVars, watchVars
<1>1. CASE Leftover
    BY <1>1 DEF Leftover
<1>2. CASE Spawn
    BY <1>2 DEF Spawn, Begins
<1>3. CASE CannotSpawn
    BY <1>3 DEF CannotSpawn
<1>4. CASE SpawnerKilled
    BY <1>4 DEF SpawnerKilled
<1>5. CASE Tick
    BY <1>5 DEF Tick
<1>. QED
    BY <1>1, <1>2, <1>3, <1>4, <1>5

LEMMA WaitingKeeps ==
    ASSUME Waited, NEW w \in Launching,
           \/ Join(w) \/ LooksForSocket(w) \/ LooksForFailure(w) \/ ChecksChild(w)
           \/ Watches(w) \/ Concludes(w)
    PROVE  Waited'
<1>. USE LaunchAssumption DEF Waited, Turns, Launching, Outcomes, Polling, processVars
<1>1. CASE Join(w)
    BY <1>1 DEF Join, Begins
<1>2. CASE LooksForSocket(w)
    BY <1>2 DEF LooksForSocket
<1>3. CASE LooksForFailure(w)
    BY <1>3 DEF LooksForFailure
<1>4. CASE ChecksChild(w)
    BY <1>4 DEF ChecksChild
<1>5. CASE Watches(w)
    BY <1>5 DEF Watches
<1>6. CASE Concludes(w)
    BY <1>6 DEF Concludes
<1>. QED
    BY <1>1, <1>2, <1>3, <1>4, <1>5, <1>6

LEMMA ProcessesKeep ==
    ASSUME Waited,
           \/ WrapperSpawns \/ InstallHandlers \/ Forward \/ WrapperKilled \/ WrapperReaps
           \/ JavaExits \/ JavaBinds \/ JavaReports
    PROVE  Waited'
<1>. USE DEF Waited, processVars, watchVars
<1>1. CASE WrapperSpawns
    BY <1>1 DEF WrapperSpawns
<1>2. CASE InstallHandlers
    BY <1>2 DEF InstallHandlers
<1>3. CASE Forward
    BY <1>3 DEF Forward
<1>4. CASE WrapperKilled
    BY <1>4 DEF WrapperKilled
<1>5. CASE WrapperReaps
    BY <1>5 DEF WrapperReaps
<1>6. CASE JavaExits
    BY <1>6 DEF JavaExits
<1>7. CASE JavaBinds
    BY <1>7 DEF JavaBinds
<1>8. CASE JavaReports
    BY <1>8 DEF JavaReports
<1>. QED
    BY <1>1, <1>2, <1>3, <1>4, <1>5, <1>6, <1>7, <1>8

LEMMA WaitedNext == Waited /\ [LaunchNext]_launchVars => Waited'
<1>. SUFFICES ASSUME Waited, [LaunchNext]_launchVars PROVE Waited'
    OBVIOUS
<1>1. CASE UNCHANGED launchVars
    BY <1>1 DEF launchVars, processVars, watchVars, Waited
<1>. QED
    BY <1>1, SpawningKeeps, WaitingKeeps, ProcessesKeep DEF LaunchNext

\* The spawner says that the daemon exited only if none is left that may still come up, the
\* wrapper having been killed apart (launch.rs:157-163).
THEOREM ExitIsFinal == LaunchSpec => []ExitedMeansGone
<1>1. Waited => ExitedMeansGone
    BY DEF Waited, ExitedMeansGone
<1>. QED
    BY WaitedInit, WaitedNext, <1>1, PTL DEF LaunchSpec

\* What is not yet in the state of a launcher that waits, of a failure or of progress, came up
\* since it last looked.
Timed ==
    /\ clock \in Nat /\ changedAt \in Int /\ doomedAt \in {Never} \cup Nat
    /\ progressFile \in Nat \cup {Torn} /\ reports \in Nat /\ failFile \in BOOLEAN
    /\ lastSeen \in [Launching -> Nat] /\ lastChange \in [Launching -> Nat]
    /\ changedAt <= clock /\ doomedAt <= clock
    /\ wait[Spawner] # "unborn"
    /\ wrapper = "unborn" => wait[Spawner] \in {"locked", "gone"}

\* The spawner sees within a poll that its wrapper died, and its fail file is seen within
\* another.
SpawnerSees ==
    \/ clock = doomedAt
    \/ clock = doomedAt + 1 /\ wait[Spawner] \in {"polling", "unbound", "looked"} \cup Outcomes

FailureSeen(w) ==
    \/ clock <= doomedAt + 1
    \/ clock = doomedAt + 2 /\ wait[w] \in {"polling", "unbound"}

Told ==
    /\ failFile \/ wrapper = "exited" => doomedAt # Never
    /\ doomedAt # Never => failFile \/ wrapper = "exited"
    /\ \A w \in Launching : wait[w] # "Bound"
    /\ wait[Spawner] = "gone" => failFile
    /\ doomedAt # Never /\ ~failFile /\ wait[Spawner] # "killed" => SpawnerSees
    /\ failFile => \A w \in Launching : wait[w] \in Polling => FailureSeen(w)

\* A launcher that polls has seen what the file shows, when it came to show that or later; or
\* has yet to look, at a file that has just changed; or began just now.
UpToDate(w) ==
    \/ lastSeen[w] = Progress(progressFile) /\ changedAt <= lastChange[w]
    \/ /\ lastSeen[w] # Progress(progressFile) /\ wrapper # "unborn"
       /\ \/ changedAt = clock
          \/ changedAt = clock - 1 /\ wait[w] # "asleep"
    \/ lastChange[w] = clock /\ wait[w] # "asleep"

WithinLimit(w) ==
    /\ clock - lastChange[w] <= STARTUP_IDLE_LIMIT
    /\ wait[w] = "asleep" => clock - lastChange[w] < STARTUP_IDLE_LIMIT

Watching ==
    /\ \A w \in Launching : wait[w] \in Polling => WithinLimit(w)
    /\ wait[Spawner] = "locked" => progressFile \in {Missing, 1} /\ wrapper = "unborn"
    /\ ~bound /\ ~failFile => \A w \in Launching : wait[w] \in Polling => UpToDate(w)

LaunchInv == Waited /\ Timed /\ (~bound => Told) /\ Watching

LEMMA LaunchInvInit == LaunchInit => LaunchInv
<1>. SUFFICES ASSUME LaunchInit PROVE LaunchInv
    OBVIOUS
<1>1. Waited
    BY WaitedInit
<1>2. Timed
    <2>1. /\ clock = 0 /\ changedAt = Never /\ doomedAt = Never /\ progressFile = Missing
          /\ reports = 0 /\ failFile = FALSE /\ wait[Spawner] = "locked"
        BY DEF LaunchInit, Launching
    <2>2. lastSeen \in [Launching -> Nat] /\ lastChange \in [Launching -> Nat]
        BY DEF LaunchInit, Missing
    <2>3. failFile \in BOOLEAN /\ wait[Spawner] # "unborn" /\ wait[Spawner] \in {"locked", "gone"}
        BY <2>1
    <2>4. /\ clock \in Nat /\ changedAt \in Int /\ doomedAt \in {Never} \cup Nat
          /\ progressFile \in Nat \cup {Torn} /\ reports \in Nat
          /\ changedAt <= clock /\ doomedAt <= clock
        BY <2>1 DEF Never, Missing, Torn
    <2>. QED
        BY <2>2, <2>3, <2>4 DEF Timed
<1>3. Told /\ Watching
    BY LaunchAssumption DEF LaunchInit, Told, Watching, Launching, Never, Missing, Torn, Polling
<1>. QED
    BY <1>1, <1>2, <1>3 DEF LaunchInv

LEMMA TimedKeeps == ASSUME Waited, Timed, LaunchNext PROVE Timed'
<1>. USE LaunchAssumption
     DEF Waited, Timed, Turns, Launching, Outcomes, Polling, processVars, watchVars, fileVars, Never,
         Missing, Torn, Doomed
<1>1. CASE Leftover
    BY <1>1 DEF Leftover
<1>2. CASE Spawn
    BY <1>2 DEF Spawn, Begins
<1>3. CASE CannotSpawn
    BY <1>3 DEF CannotSpawn
<1>4. CASE SpawnerKilled
    BY <1>4 DEF SpawnerKilled
<1>5. CASE Tick
    BY <1>5 DEF Tick
<1>6. ASSUME NEW w \in Launching, Join(w) PROVE Timed'
    BY <1>6 DEF Join, Begins
<1>7. ASSUME NEW w \in Launching, LooksForSocket(w) \/ LooksForFailure(w) \/ ChecksChild(w)
      PROVE  Timed'
    BY <1>7 DEF LooksForSocket, LooksForFailure, ChecksChild
<1>8. ASSUME NEW w \in Launching, Watches(w) PROVE Timed'
    BY <1>8 DEF Watches, Observe, Progress
<1>9. ASSUME NEW w \in Launching, Concludes(w) PROVE Timed'
    BY <1>9 DEF Concludes
<1>10. CASE WrapperSpawns \/ InstallHandlers \/ Forward \/ WrapperKilled \/ WrapperReaps
    BY <1>10 DEF WrapperSpawns, InstallHandlers, Forward, WrapperKilled, WrapperReaps
<1>11. CASE JavaExits \/ JavaBinds
    BY <1>11 DEF JavaExits, JavaBinds
<1>12. CASE JavaReports
    BY <1>12 DEF JavaReports
<1>. QED
    BY <1>1, <1>2, <1>3, <1>4, <1>5, <1>6, <1>7, <1>8, <1>9, <1>10, <1>11, <1>12 DEF LaunchNext

LEMMA TellingKeeps ==
    ASSUME Waited, Timed, ~bound => Told, Timed', Waited', LaunchNext
    PROVE  ~bound' => Told'
<1>. SUFFICES ASSUME ~bound' PROVE Told'
    OBVIOUS
<1>. USE LaunchAssumption
     DEF Waited, Timed, Told, FailureSeen, SpawnerSees, Turns, Launching, Outcomes, Polling,
         processVars, watchVars, fileVars, Never, Doomed
<1>1. CASE Leftover
    BY <1>1 DEF Leftover
<1>2. CASE Spawn
    BY <1>2 DEF Spawn, Begins
<1>3. CASE CannotSpawn
    BY <1>3 DEF CannotSpawn
<1>4. CASE SpawnerKilled
    BY <1>4 DEF SpawnerKilled
<1>5. CASE Tick
    BY <1>5 DEF Tick
<1>6. ASSUME NEW w \in Launching, Join(w) PROVE Told'
    BY <1>6 DEF Join, Begins
<1>7. ASSUME NEW w \in Launching, LooksForSocket(w) PROVE Told'
    BY <1>7 DEF LooksForSocket
<1>8. ASSUME NEW w \in Launching, LooksForFailure(w) PROVE Told'
    BY <1>8 DEF LooksForFailure
<1>9. ASSUME NEW w \in Launching, ChecksChild(w) PROVE Told'
    BY <1>9 DEF ChecksChild
<1>10. ASSUME NEW w \in Launching, Watches(w) PROVE Told'
    BY <1>10 DEF Watches
<1>11. ASSUME NEW w \in Launching, Concludes(w) PROVE Told'
    <2>1. failFile' /\ ~bound /\ Doomed
        BY <1>11 DEF Concludes
    <2>2. CASE failFile
        BY <1>11, <2>1, <2>2 DEF Concludes
    <2>3. CASE ~failFile /\ (doomedAt = Never \/ wait[Spawner] = "killed")
        BY <1>11, <2>1, <2>3 DEF Concludes
    <2>4. CASE ~failFile /\ doomedAt # Never /\ wait[Spawner] # "killed"
        BY <1>11, <2>1, <2>4 DEF Concludes
    <2>. QED
        BY <2>2, <2>3, <2>4
<1>12. CASE InstallHandlers \/ Forward
    BY <1>12 DEF InstallHandlers, Forward
<1>14. CASE WrapperSpawns \/ WrapperKilled \/ WrapperReaps
    <2>1. /\ wait' = wait /\ clock' = clock /\ failFile' = failFile /\ ~bound
          /\ \/ wrapper' # "exited" /\ wrapper # "exited" /\ doomedAt' = doomedAt
             \/ wrapper' = "exited" /\ wrapper # "exited" /\ Doomed
        BY <1>14 DEF WrapperSpawns, WrapperKilled, WrapperReaps
    <2>2. CASE wrapper' # "exited" /\ wrapper # "exited" /\ doomedAt' = doomedAt
        BY <2>1, <2>2
    <2>3. CASE wrapper' = "exited" /\ wrapper # "exited" /\ Doomed /\ failFile
        BY <2>1, <2>3
    <2>4. CASE wrapper' = "exited" /\ wrapper # "exited" /\ Doomed /\ ~failFile
        BY <2>1, <2>4
    <2>. QED
        BY <2>1, <2>2, <2>3, <2>4
<1>13. CASE JavaExits \/ JavaBinds \/ JavaReports
    BY <1>13 DEF JavaExits, JavaBinds, JavaReports
<1>. QED
    BY <1>1, <1>2, <1>3, <1>4, <1>5, <1>6, <1>7, <1>8, <1>9, <1>10, <1>11, <1>12, <1>13,
       <1>14
    DEF LaunchNext

LEMMA WatchingKeeps ==
    ASSUME LaunchInv, Timed', Waited', LaunchNext
    PROVE  Watching'
<1>. USE LaunchAssumption
     DEF LaunchInv, Waited, Timed, Watching, WithinLimit, UpToDate, Turns, Launching, Outcomes, Polling,
         processVars, watchVars, fileVars, Missing, Torn, Progress
<1>1. CASE Leftover
    BY <1>1 DEF Leftover
<1>2. CASE Spawn
    BY <1>2 DEF Spawn, Begins
<1>3. CASE CannotSpawn
    BY <1>3 DEF CannotSpawn
<1>4. CASE SpawnerKilled
    BY <1>4 DEF SpawnerKilled
<1>5. CASE Tick
    BY <1>5 DEF Tick
<1>6. ASSUME NEW w \in Launching, Join(w) PROVE Watching'
    BY <1>6 DEF Join, Begins
<1>7. ASSUME NEW w \in Launching, LooksForSocket(w) \/ LooksForFailure(w) \/ ChecksChild(w)
      PROVE  Watching'
    BY <1>7 DEF LooksForSocket, LooksForFailure, ChecksChild
<1>8. ASSUME NEW w \in Launching, Watches(w) PROVE Watching'
    BY <1>8 DEF Watches, Observe, Expired
<1>9. ASSUME NEW w \in Launching, Concludes(w) PROVE Watching'
    BY <1>9 DEF Concludes, Told
<1>10. CASE WrapperSpawns \/ InstallHandlers \/ Forward \/ WrapperKilled \/ WrapperReaps
    BY <1>10 DEF WrapperSpawns, InstallHandlers, Forward, WrapperKilled, WrapperReaps
<1>11. CASE JavaExits \/ JavaBinds
    BY <1>11 DEF JavaExits, JavaBinds
<1>12. CASE JavaReports
    BY <1>12 DEF JavaReports
<1>. QED
    BY <1>1, <1>2, <1>3, <1>4, <1>5, <1>6, <1>7, <1>8, <1>9, <1>10, <1>11, <1>12 DEF LaunchNext

LEMMA LaunchInvNext == LaunchInv /\ [LaunchNext]_launchVars => LaunchInv'
<1>. SUFFICES ASSUME LaunchInv, [LaunchNext]_launchVars PROVE LaunchInv'
    OBVIOUS
<1>0. Waited'
    BY WaitedNext DEF LaunchInv
<1>1. CASE UNCHANGED launchVars
    BY <1>1 DEF launchVars, fileVars, processVars, watchVars, LaunchInv, Waited, Timed, Told,
        FailureSeen, SpawnerSees, Watching, WithinLimit, UpToDate
<1>2. CASE LaunchNext
    BY <1>0, <1>2, TimedKeeps, TellingKeeps, WatchingKeeps DEF LaunchInv
<1>. QED
    BY <1>1, <1>2

\* A start that fails is known to every launcher that waits by its second poll from then, however
\* many wait and whoever of them leaves the fail file, but for those whose spawner was killed
\* before it left one (launch.rs:142-172).
THEOREM FailureIsTold == LaunchSpec => []Together
<1>1. LaunchInv => Together
    BY DEF LaunchInv, Timed, Told, Together, SpawnerSees, FailureSeen, Never
<1>. QED
    BY LaunchInvInit, LaunchInvNext, <1>1, PTL DEF LaunchSpec

\* What a launcher concludes of a daemon it presumes hung is so: nothing that the bootstrap
\* reports has changed for the whole limit; and it waits no longer than the limit from the last
\* change it saw (progress.rs:60-62).
THEOREM PresumedHungIsSo == LaunchSpec => IdleWindow
<1>1. LaunchInv => \A w \in Launching :
                      wait[w] \in Polling => clock - lastChange[w] <= STARTUP_IDLE_LIMIT
    BY DEF LaunchInv, Watching, WithinLimit
<1>2. ASSUME LaunchInv, [LaunchNext]_launchVars
      PROVE  [\A w \in Launching :
                wait[w] = "checked" /\ wait'[w] = "Idle" /\ ~failFile /\ ~bound =>
                    clock - changedAt >= STARTUP_IDLE_LIMIT]_launchVars
    <2>. SUFFICES ASSUME NEW w \in Launching, wait[w] = "checked", wait'[w] = "Idle",
                         ~failFile, ~bound, LaunchNext
                  PROVE  clock - changedAt >= STARTUP_IDLE_LIMIT
        BY <1>2
    <2>1. Watches(w)
        BY <1>2 DEF LaunchNext, LaunchInv, Waited, Launching, Outcomes, Polling, Leftover, Spawn,
            Begins, CannotSpawn, SpawnerKilled, Tick, Turns, Join, LooksForSocket,
            LooksForFailure, ChecksChild, Watches, Concludes, WrapperSpawns, InstallHandlers,
            Forward, WrapperKilled, WrapperReaps, JavaExits, JavaBinds, JavaReports, watchVars
    <2>2. UpToDate(w) /\ Timed
        BY <1>2 DEF LaunchInv, Watching, Polling
    <2>. QED
        BY <2>1, <2>2, LaunchAssumption DEF Watches, Observe, Expired, UpToDate, Timed, Launching
<1>. QED
    BY LaunchInvInit, LaunchInvNext, <1>1, <1>2, PTL DEF LaunchSpec, IdleWindow

-----------------------------------------------------------------------------

SearchesOK ==
    /\ installs \in [Releases -> {"absent", "whole", "partial"}]
    /\ link \in Releases \cup {NoJava}
    /\ search \in [Installers -> Downloads \cup {"idle", "found", "none"}]
    /\ release \in [Installers -> Releases \cup {NoJava}]
    /\ overlapped \in BOOLEAN
    /\ \A l \in Installers :
         /\ search[l] \in {"idle", "fetching"} => release[l] = NoJava
         /\ search[l] \in Downloads \ {"fetching"} => release[l] \in Releases

\* Where the one download is, or was stopped: nothing is linked that it may leave in part, for
\* it began because the link led nowhere, and what it clears is not linked.
Sound ==
    /\ \A l, other \in Installers :
         search[l] \in Downloads /\ search[other] \in Downloads => l = other
    /\ link # NoJava => installs[link] # "partial"
    /\ \A l \in Installers :
         /\ search[l] \in {"fetching", "unpacked", "clearing", "cleared"} =>
               link = NoJava \/ installs[link] = "absent"
         /\ search[l] = "cleared" => installs[release[l]] = "absent"
         /\ search[l] \in {"installed", "unlinked"} => installs[release[l]] = "whole"
         /\ search[l] = "unlinked" => link = NoJava

JavaInv == SearchesOK /\ (~overlapped => Sound)

\* What JavaIsWhole says of a step.
TakesWhole ==
    \A l \in Installers :
        /\ search[l] # "found" /\ search'[l] = "found" /\ release'[l] # NoJava =>
              installs'[release'[l]] = "whole"
        /\ search[l] = "cleared" => search'[l] # "none"

Step == JavaInv' /\ (~overlapped => TakesWhole)

LEMMA NoJavaIsNone == NoJava \notin Releases
BY JavaAssumption

LEMMA JavaInvInit == JavaInit => JavaInv
BY NoJavaIsNone DEF JavaInit, JavaInv, SearchesOK, Sound, Downloads

LEMMA ProbeSteps ==
    ASSUME JavaInv, NEW l \in Installers, Probe(l) PROVE Step
<1>. USE NoJavaIsNone
     DEF Step, JavaInv, SearchesOK, Sound, TakesWhole, Downloads, Reaches
<1>1. search[l] = "idle" /\ UNCHANGED <<installs, link>>
    BY DEF Probe
<1>2. CASE search' = [search EXCEPT ![l] = "found"] /\ UNCHANGED <<release, overlapped>>
    BY <1>1, <1>2
<1>3. CASE LinkWorks /\ search' = [search EXCEPT ![l] = "found"]
           /\ release' = [release EXCEPT ![l] = link] /\ UNCHANGED overlapped
    BY <1>1, <1>3 DEF LinkWorks
<1>4. CASE search' = [search EXCEPT ![l] = "none"] /\ UNCHANGED <<release, overlapped>>
    BY <1>1, <1>4
<1>5. CASE /\ ~LinkWorks /\ search' = [search EXCEPT ![l] = "fetching"]
           /\ overlapped' = (overlapped \/ Downloading # {}) /\ UNCHANGED release
    BY <1>1, <1>5 DEF LinkWorks, Downloading
<1>. QED
    BY <1>2, <1>3, <1>4, <1>5 DEF Probe

LEMMA DownloadSteps ==
    ASSUME JavaInv, NEW l \in Installers,
           FetchFails(l) \/ Unpack(l) \/ Clears(l) \/ Install(l) \/ Unlink(l) \/ MakeLink(l)
    PROVE  Step
<1>. USE NoJavaIsNone
     DEF Step, JavaInv, SearchesOK, Sound, TakesWhole, Downloads, Reaches
<1>1. CASE FetchFails(l)
    BY <1>1 DEF FetchFails
<1>2. CASE Unpack(l)
    BY <1>2 DEF Unpack
<1>3. CASE Clears(l)
    BY <1>3 DEF Clears
<1>4. CASE Install(l)
    BY <1>4 DEF Install
<1>5. CASE Unlink(l)
    BY <1>5 DEF Unlink
<1>6. CASE MakeLink(l)
    BY <1>6 DEF MakeLink
<1>. QED
    BY <1>1, <1>2, <1>3, <1>4, <1>5, <1>6

LEMMA JavaInvNext ==
    ASSUME JavaInv, [JavaNext]_javaVars PROVE JavaInv' /\ [~overlapped => TakesWhole]_javaVars
<1>. USE NoJavaIsNone
     DEF Step, JavaInv, SearchesOK, Sound, TakesWhole, Downloads, Reaches
<1>1. CASE UNCHANGED javaVars
    BY <1>1 DEF javaVars
<1>2. CASE Uninstall
    BY <1>2 DEF Uninstall
<1>3. ASSUME NEW l \in Installers, Over(l) PROVE Step
    BY <1>3 DEF Over
<1>. QED
    BY <1>1, <1>2, <1>3, ProbeSteps, DownloadSteps DEF JavaNext

\* As long as no two downloads overlap, a Java that is linked, found or just installed is
\* whole, wherever earlier downloads were killed, and none of them makes a later one fail
\* (java.rs:165-188).
THEOREM DownloadsAreWhole == JavaSpec => JavaIsWhole
<1>1. JavaInv => (~overlapped /\ link # NoJava => installs[link] # "partial")
    BY DEF JavaInv, Sound
<1>2. ASSUME JavaInv, [JavaNext]_javaVars
      PROVE  [~overlapped =>
                \A l \in Installers :
                   /\ search[l] # "found" /\ search'[l] = "found" /\ release'[l] # NoJava =>
                         installs'[release'[l]] = "whole"
                   /\ search[l] = "cleared" => search'[l] # "none"]_javaVars
    BY <1>2, JavaInvNext DEF TakesWhole
<1>. QED
    BY JavaInvInit, JavaInvNext, <1>1, <1>2, PTL DEF JavaSpec, JavaIsWhole

-----------------------------------------------------------------------------
(* The signals: a question goes the round of the pipes, the slot and the   *)
(* wire, one at a time, and nowhere but in its place is a name of it.      *)

\* A handler that runs has a signal, and so has a courier that is not waiting for a request.
HandlersOK ==
    /\ kind \in Seq({"TERM", "INT", "WINCH", "TSTP", "CONT"}) /\ Len(kind) <= Signals
    /\ handler \in [Handlers -> {"idle", "drain", "write", "poll", "act", "stop"}]
    /\ on \in [Handlers -> 0..Signals]
    /\ got \in [Ids -> Answers \cup {"none", "timeout"}]
    /\ \A t \in Handlers : handler[t] # "idle" => on[t] \in 1..Len(kind)
    /\ away \subseteq Ids

CourierOK ==
    /\ requests \in Seq(Ids) /\ answers \in Seq(Answers)
    /\ courier \in {"read", "send", "wait", "flag", "answer"} /\ carrying \in 0..Signals
    /\ result \in Answers \cup {"none"} /\ answer \in Answers \cup {"none"}
    /\ courier # "read" => carrying \in Ids
    /\ courier \in {"flag", "answer"} => result \in Answers

WireOK ==
    /\ up \in Seq(Ids) /\ down \in Seq(Answers \cup {"exit"})
    /\ decision \in [Ids -> Answers \cup {"none"}]

FlagsOK ==
    /\ over \in BOOLEAN /\ connected \in BOOLEAN /\ dexit \in BOOLEAN /\ drained \in BOOLEAN
    /\ termination \in BOOLEAN /\ stopped \in BOOLEAN /\ resuming \in BOOLEAN
    /\ late \in BOOLEAN /\ crossed \in BOOLEAN

EndsOK ==
    /\ monitor \in {"watching", "grace", "done"}
    /\ main \in {"waiting", "restoring", "ending", "dying", "exiting", "gone"}
    /\ fate \in {"alive", "exit", "TERM", "INT"}
    /\ mode \in {"raw", "saved"}

Typing == HandlersOK /\ CourierOK /\ WireOK /\ FlagsOK /\ EndsOK

LEMMA TypingIsTypeOK == Typing => TypeOK
BY DEF Typing, HandlersOK, CourierOK, WireOK, FlagsOK, EndsOK, TypeOK

LEMMA SignalsTyped == Init => Typing
<1>. SUFFICES ASSUME Init PROVE Typing
    OBVIOUS
<1>1. Signals \in Nat /\ Len(<<>>) = 0
    BY SignalsAssumption
<1>2. /\ <<>> \in Seq({"TERM", "INT", "WINCH", "TSTP", "CONT"})
      /\ <<>> \in Seq(Ids) /\ <<>> \in Seq(Answers) /\ <<>> \in Seq(Answers \cup {"exit"})
    OBVIOUS
<1>3. HandlersOK
    BY <1>1, <1>2 DEF Init, HandlersOK
<1>4. CourierOK /\ WireOK
    BY <1>1, <1>2 DEF Init, CourierOK, WireOK
<1>5. FlagsOK /\ EndsOK
    BY DEF Init, FlagsOK, EndsOK
<1>. QED
    BY <1>3, <1>4, <1>5 DEF Typing

\* A delivery numbers the signal next.
LEMMA DeliveryKeepsTypes ==
    ASSUME Typing, NEW t \in Handlers, Deliver(t) \/ DeliverCont(t) PROVE Typing'
<1>. USE DEF pipeVars, courierVars, wireVars, sessionVars, endVars, Enters
<1>1. PICK k \in {"TERM", "INT", "WINCH", "TSTP", "CONT"} : Enters(t, k, "drain")
    BY SignalsAssumption DEF Deliver, DeliverCont
<1>2. /\ kind' \in Seq({"TERM", "INT", "WINCH", "TSTP", "CONT"}) /\ Len(kind') = Len(kind) + 1
      /\ Len(kind') <= Signals /\ Len(kind') \in Nat
    BY <1>1, SignalsAssumption DEF Typing, HandlersOK
<1>3. HandlersOK'
    <2>1. Len(kind) + 1 \in Ids /\ away \subseteq Ids
        BY <1>1, SignalsAssumption DEF Typing, HandlersOK, Ids
    <2>2. away' \subseteq Ids
        BY <1>1, <2>1
    <2>. QED
        BY <1>1, <1>2, <2>2, SignalsAssumption DEF Typing, HandlersOK
<1>4. CourierOK' /\ WireOK'
    BY <1>1 DEF Typing, CourierOK, WireOK
<1>5. FlagsOK'
    BY <1>1 DEF Deliver, DeliverCont, jobVars, Typing, FlagsOK
<1>6. EndsOK'
    BY <1>1 DEF Deliver, DeliverCont, jobVars, Typing, EndsOK
<1>. QED
    BY <1>3, <1>4, <1>5, <1>6 DEF Typing

LEMMA HandlerKeepsTypes ==
    ASSUME Typing, NEW t \in Handlers, Handler(t) PROVE Typing'
<1>. USE DEF HandlerGoes, HandlerDrains, HandlerWrites, HandlerReads, HandlerGivesUp, HandlerActs,
             HandlerStops, Handler
<1>1. HandlersOK'
    <2>1. handler[t] # "idle" => on[t] \in Ids
        BY SignalsAssumption DEF Typing, HandlersOK, Ids
    <2>2. answers # <<>> => Head(answers) \in Answers
        BY DEF Typing, CourierOK
    <2>. QED
        BY <2>1, <2>2 DEF Typing, HandlersOK
<1>2. CourierOK'
    <2>1. handler[t] = "write" => on[t] \in Ids
        BY SignalsAssumption DEF Typing, HandlersOK, Ids
    <2>2. requests' \in Seq(Ids)
        BY <2>1 DEF Typing, CourierOK, pipeVars
    <2>3. answers # <<>> => Tail(answers) \in Seq(Answers)
        BY DEF Typing, CourierOK
    <2>4. \/ answers' = answers \/ answers' = <<>>
          \/ answers # <<>> /\ answers' = Tail(answers)
        BY DEF pipeVars
    <2>5. <<>> \in Seq(Answers)
        OBVIOUS
    <2>6. answers' \in Seq(Answers)
        BY <2>3, <2>4, <2>5 DEF Typing, CourierOK
    <2>. QED
        BY <2>2, <2>6 DEF Typing, CourierOK, courierVars
<1>3. WireOK'
    BY DEF Typing, WireOK, wireVars
<1>4. FlagsOK'
    BY DEF Typing, FlagsOK, sessionVars, endVars, jobVars
<1>5. EndsOK'
    BY DEF Typing, EndsOK, endVars, jobVars
<1>. QED
    BY <1>1, <1>2, <1>3, <1>4, <1>5 DEF Typing

LEMMA CourierKeepsTypes == ASSUME Typing, Courier PROVE Typing'
<1>. USE DEF CourierGoes, Courier, CourierReads, CourierSends, CourierTakes, CourierGivesUp,
             CourierFlags, CourierAnswers
<1>1. HandlersOK'
    BY DEF Typing, HandlersOK, handlerVars
<1>2. CourierOK'
    <2>1. requests # <<>> => Head(requests) \in Ids /\ Tail(requests) \in Seq(Ids)
        BY DEF Typing, CourierOK
    <2>2. requests' \in Seq(Ids)
        BY <2>1 DEF Typing, CourierOK, pipeVars
    <2>3. answers' \in Seq(Answers)
        BY DEF Typing, CourierOK, pipeVars
    <2>4. Ids \subseteq 0..Signals
        BY SignalsAssumption DEF Ids
    <2>. QED
        BY <2>1, <2>2, <2>3, <2>4 DEF Typing, CourierOK, Answers
<1>3. WireOK'
    <2>1. up' \in {up, Append(up, carrying)} /\ UNCHANGED <<down, decision>>
        BY DEF wireVars
    <2>2. up' = Append(up, carrying) => courier = "send" \/ up' = up
        BY DEF wireVars
    <2>3. up' \in Seq(Ids)
        BY <2>1, <2>2 DEF Typing, WireOK, CourierOK
    <2>. QED
        BY <2>1, <2>3 DEF Typing, WireOK
<1>4. FlagsOK'
    BY DEF Typing, FlagsOK, handlerVars, sessionVars, jobVars
<1>5. EndsOK'
    BY DEF Typing, EndsOK, jobVars
<1>. QED
    BY <1>1, <1>2, <1>3, <1>4, <1>5 DEF Typing

LEMMA OthersKeepTypes ==
    ASSUME Typing,
           Reader \/ Monitor \/ Main \/ Continue \/ DrainsEnd \/ DaemonAnswers \/ DaemonExits
    PROVE  Typing'
<1>. USE DEF Reader, ReadAck, ReadOver, Monitor, MonitorWakes, MonitorCloses, Main, MainGoes,
             MainWaits, MainRestores, MainEnds, MainDies, MainExits, Continue, DrainsEnd,
             DaemonAnswers, DaemonExits, DaemonActs
<1>1. HandlersOK'
    BY DEF Typing, HandlersOK, handlerVars
<1>2. CourierOK'
    BY DEF Typing, CourierOK, WireOK, courierVars, pipeVars
<1>3. WireOK'
    <2>1. CASE DaemonAnswers
        <3>1. /\ Head(up) \in Ids /\ Tail(up) \in Seq(Ids)
              /\ \A a \in Answers : Append(down, a) \in Seq(Answers \cup {"exit"})
            BY <2>1 DEF Typing, WireOK
        <3>. QED
            BY <2>1, <3>1 DEF Typing, WireOK
    <2>2. CASE DaemonExits
        BY <2>2 DEF Typing, WireOK
    <2>3. CASE ReadAck
        BY <2>3 DEF Typing, WireOK
    <2>4. CASE ReadOver \/ Monitor \/ Main \/ Continue \/ DrainsEnd
        BY <2>4 DEF Typing, WireOK, wireVars
    <2>. QED
        BY <2>1, <2>2, <2>3, <2>4
<1>4. FlagsOK'
    <2>0. CASE ReadOver \/ DrainsEnd
        BY <2>0 DEF Typing, FlagsOK, handlerVars, jobVars, endVars
    <2>1. CASE ReadAck
        BY <2>1 DEF Typing, FlagsOK, handlerVars, sessionVars, jobVars, endVars
    <2>4. CASE DaemonAnswers \/ DaemonExits
        <3>1. DaemonActs /\ dexit' \in {dexit, TRUE}
            BY <2>4
        <3>. QED
            BY <3>1 DEF Typing, FlagsOK, handlerVars, jobVars, endVars
    <2>2. CASE Monitor \/ Continue
        BY <2>2 DEF Typing, FlagsOK, handlerVars, sessionVars, jobVars, endVars
    <2>3. CASE Main
        BY <2>3 DEF Typing, FlagsOK, handlerVars, sessionVars
    <2>. QED
        BY <2>0, <2>1, <2>2, <2>3, <2>4
<1>5. EndsOK'
    BY DEF Typing, EndsOK, jobVars, endVars
<1>. QED
    BY <1>1, <1>2, <1>3, <1>4, <1>5 DEF Typing

LEMMA StutterKeepsTypes == Typing /\ UNCHANGED vars => Typing'
BY DEF Typing, HandlersOK, CourierOK, WireOK, FlagsOK, EndsOK, vars, handlerVars, pipeVars,
       courierVars, wireVars, sessionVars, endVars, jobVars

LEMMA SignalsStayTyped == Typing /\ [Next]_vars => Typing'
BY DeliveryKeepsTypes, HandlerKeepsTypes, CourierKeepsTypes, OthersKeepTypes, StutterKeepsTypes
DEF Next, Terminated

\* Every step of every thread leaves the signals, the pipes and the wire of their types.
THEOREM SignalsTypeOK == Spec => []TypeOK
BY SignalsTyped, SignalsStayTyped, TypingIsTypeOK, PTL DEF Spec

-----------------------------------------------------------------------------
\* One handler is at work.
Single ==
    \A one, other \in Handlers : handler[one] # "idle" /\ handler[other] # "idle" => one = other

\* What the daemon has sent: the acknowledgement it owes, and its exit behind that.
Sent(acks) == down = IF dexit THEN Append(acks, "exit") ELSE acks

Quiet == up = <<>> /\ Sent(<<>>)

\* Nothing is asked, of anyone.
Unasked == requests = <<>> /\ courier = "read" /\ answers = <<>> /\ Quiet

Flagged(i) == kind[i] = "TERM" /\ decision[i] = "accept" => termination

Waits(i) ==
    \/ up = <<i>> /\ Sent(<<>>) /\ answer = "none" /\ decision[i] = "none"
    \/ up = <<>> /\ Sent(<<decision[i]>>) /\ answer = "none" /\ decision[i] \in Answers
    \/ Quiet /\ answer = decision[i] /\ answer \in Answers

Carried(i) ==
    /\ requests = <<>> /\ carrying = i /\ answers = <<>>
    /\ \/ courier = "send" /\ Quiet /\ decision[i] = "none"
       \/ courier = "wait" /\ Waits(i)
       \/ /\ courier \in {"flag", "answer"} /\ Quiet
          /\ result = "accept" <=> decision[i] = "accept"
          /\ courier = "answer" => Flagged(i)

\* Where the question about signal i is, or the answer to it.
Asked(i) ==
    \/ requests = <<i>> /\ courier = "read" /\ answers = <<>> /\ Quiet /\ decision[i] = "none"
    \/ Carried(i)
    \/ /\ requests = <<>> /\ courier = "read" /\ Quiet /\ Flagged(i)
       /\ \E a \in Answers : answers = <<a>> /\ (a = "accept" <=> decision[i] = "accept")

Polls(t) == handler[t] = "poll"

\* A question is out while its handler polls, and none otherwise.
Asks ==
    /\ \A t \in Handlers : Polls(t) => Asked(on[t])
    /\ (\A t \in Handlers : ~Polls(t)) => Unasked

\* And nothing is decided of a signal, or answered, before.
Fresh ==
    /\ \A i \in Ids : i > Len(kind) => decision[i] = "none" /\ got[i] = "none"
    /\ \A t \in Handlers : handler[t] \in {"drain", "write"} => decision[on[t]] = "none"
    /\ \A t \in Handlers : handler[t] \in {"drain", "write", "poll"} => got[on[t]] = "none"

\* A termination that is accepted is flagged by the time its handler goes on.
Accepted ==
    \A i \in 1..Len(kind) : Flagged(i) \/ \E t \in Handlers : Polls(t) /\ on[t] = i

\* Another thread's signal is known for one.
Elsewhere == \A t \in Handlers : t # "main" /\ handler[t] # "idle" => on[t] \in away

NoneAccepted == \A i \in 1..Len(kind) \ away : ~(kind[i] = "TERM" /\ decision[i] = "accept")

\* Main goes on once the session is over, with nothing asked on it; then nothing is.
Ends ==
    /\ main # "waiting" => over /\ \A k \in DOMAIN up : up[k] \in away
    /\ main = "exiting" \/ fate = "exit" => NoneAccepted

OneSigInv == ~late /\ ~crossed => Single /\ Asks /\ Fresh /\ OwnAnswer
MainInv == OneSigInv /\ Elsewhere /\ (~late /\ ~crossed => Accepted /\ Ends)

-----------------------------------------------------------------------------
LEMMA Singletons == \A a : /\ Append(<<>>, a) = <<a>> /\ Head(<<a>>) = a /\ Tail(<<a>>) = <<>>
                       /\ <<a>> # <<>>
OBVIOUS

\* What can be read of the daemon where it owes nothing is its exit.
LEMMA NoneToRead == Sent(<<>>) /\ down # <<>> => Head(down) = "exit"
BY Singletons DEF Sent

LEMMA OneToRead ==
    ASSUME NEW a \in Answers, Sent(<<a>>)
    PROVE  /\ down # <<>> /\ Head(down) = a
           /\ Tail(down) = IF dexit THEN Append(<<>>, "exit") ELSE <<>>
<1>. DEFINE both == Append(<<a>>, "exit")
<1>1. /\ both \in Seq(Answers \cup {"exit"}) /\ Len(both) = 2 /\ both[1] = a /\ both[2] = "exit"
    OBVIOUS
<1>2. Append(<<>>, "exit") = <<"exit">>
    OBVIOUS
<1>3. both # <<>> /\ Head(both) = a
    <2>. HIDE DEF both
    <2>. QED
        BY <1>1
<1>4. Tail(both) = <<"exit">>
    <2>. HIDE DEF both
    <2>1. /\ Tail(both) \in Seq(Answers \cup {"exit"}) /\ Len(Tail(both)) = 1
          /\ Tail(both)[1] = both[2]
        BY <1>1
    <2>2. \A one, other \in Seq(Answers \cup {"exit"}) :
             Len(one) = 1 /\ Len(other) = 1 /\ one[1] = other[1] => one = other
        OBVIOUS
    <2>3. <<"exit">> \in Seq(Answers \cup {"exit"}) /\ Len(<<"exit">>) = 1 /\ <<"exit">>[1] = "exit"
        OBVIOUS
    <2>. QED
        BY <1>1, <2>1, <2>2, <2>3
<1>5. <<a>> # <<>> /\ Head(<<a>>) = a /\ Tail(<<a>>) = <<>>
    BY Singletons
<1>. QED
    BY <1>2, <1>3, <1>4, <1>5 DEF Sent

LEMMA QuestionInit == Init => OneSigInv
<1>. SUFFICES ASSUME Init PROVE OneSigInv
    OBVIOUS
<1>1. Asks
    BY DEF Init, Asks, Polls, Unasked, Quiet, Sent
<1>2. Single /\ Fresh /\ OwnAnswer
    BY DEF Init, Single, Fresh, OwnAnswer
<1>. QED
    BY <1>1, <1>2 DEF OneSigInv

\* A handler that is not polling leaves the question unasked.
LEMMA UnaskedBut ==
    ASSUME Single, Asks, NEW t \in Handlers, handler[t] # "idle", ~Polls(t)
    PROVE  Unasked
BY DEF Single, Asks, Polls

LEMMA DeliverAsks ==
    ASSUME Typing, OneSigInv, NEW t \in Handlers, Deliver(t) \/ DeliverCont(t)
    PROVE  OneSigInv'
<1>. SUFFICES ASSUME ~late', ~crossed' PROVE Single' /\ Asks' /\ Fresh' /\ OwnAnswer'
    BY DEF OneSigInv
<1>1. PICK k \in {"TERM", "INT", "WINCH", "TSTP", "CONT"} : Enters(t, k, "drain")
    BY SignalsAssumption DEF Deliver, DeliverCont
<1>2. /\ ~late /\ ~crossed /\ Asks /\ Fresh /\ OwnAnswer
      /\ \A other \in Handlers : handler[other] = "idle"
    BY <1>1 DEF Enters, OneSigInv
<1>3. Unasked
    BY <1>2 DEF Asks, Polls
<1>4. \A other \in Handlers : other # t => handler'[other] = "idle"
    BY <1>1, <1>2 DEF Enters, Typing, HandlersOK
<1>5. handler'[t] = "drain" /\ on'[t] = Len(kind) + 1
    BY <1>1 DEF Enters, Typing, HandlersOK
<1>6. /\ Len(kind) + 1 \in Ids /\ Len(kind') = Len(kind) + 1 /\ Len(kind) \in Nat
    BY <1>1, SignalsAssumption DEF Enters, Typing, HandlersOK, Ids
<1>7. Asks'
    BY <1>1, <1>3, <1>4, <1>5 DEF Asks, Polls, Unasked, Quiet, Sent, Enters, pipeVars, courierVars,
                           wireVars, sessionVars
<1>8. got' = got /\ decision' = decision
    BY <1>1 DEF Enters, wireVars
<1>9. Fresh'
    <2>1. \A i \in Ids : i > Len(kind') => i > Len(kind)
        BY <1>6 DEF Ids
    <2>2. decision[Len(kind) + 1] = "none" /\ got[Len(kind) + 1] = "none"
        BY <1>2, <1>6 DEF Fresh
    <2>. QED
        BY <1>2, <1>4, <1>5, <1>8, <2>1, <2>2 DEF Fresh
<1>10. OwnAnswer'
    BY <1>2, <1>8 DEF OwnAnswer
<1>11. Single'
    BY <1>4 DEF Single
<1>. QED
    BY <1>7, <1>9, <1>10, <1>11

LEMMA HandlerAsks ==
    ASSUME Typing, OneSigInv, NEW t \in Handlers, Handler(t)
    PROVE  OneSigInv'
<1>. SUFFICES ASSUME ~late', ~crossed' PROVE Single' /\ Asks' /\ Fresh' /\ OwnAnswer'
    BY DEF OneSigInv
<1>1. ~late /\ ~crossed /\ Single /\ Asks /\ Fresh /\ OwnAnswer
    BY DEF OneSigInv, Handler, HandlerDrains, HandlerWrites, HandlerReads, HandlerGivesUp,
           HandlerActs, HandlerStops, HandlerGoes
<1>2. \A other \in Handlers : other # t => handler[other] = "idle" /\ handler'[other] = "idle"
    BY <1>1 DEF Single, Handler, HandlerDrains, HandlerWrites, HandlerReads, HandlerGivesUp,
                HandlerActs, HandlerStops, HandlerGoes, Typing, HandlersOK
<1>0. Single'
    BY <1>2 DEF Single
<1>3. ASSUME HandlerDrains(t) \/ HandlerActs(t) \/ HandlerStops(t)
      PROVE  Asks' /\ Fresh' /\ OwnAnswer'
    <2>. USE DEF HandlerDrains, HandlerActs, HandlerStops, HandlerGoes
    <2>1. /\ handler[t] \in {"drain", "act", "stop"}
          /\ handler'[t] \in {"write", "stop", "idle"}
          /\ handler'[t] = "write" => handler[t] = "drain"
        BY <1>3 DEF Typing, HandlersOK
    <2>2. Unasked
        BY <1>1, <2>1, UnaskedBut DEF Polls
    <2>3. /\ requests' = requests /\ courier' = courier /\ up' = up /\ down' = down
          /\ dexit' = dexit /\ decision' = decision /\ got' = got /\ on' = on /\ kind' = kind
        BY <1>3 DEF courierVars, wireVars, sessionVars, pipeVars
    <2>4. answers' = <<>>
        BY <1>3, <2>2 DEF Unasked, pipeVars
    <2>5. Asks'
        BY <1>2, <2>1, <2>2, <2>3, <2>4 DEF Asks, Polls, Unasked, Quiet, Sent
    <2>6. Fresh'
        BY <1>1, <1>2, <2>1, <2>3 DEF Fresh
    <2>7. OwnAnswer'
        BY <1>1, <2>3 DEF OwnAnswer
    <2>. QED
        BY <2>5, <2>6, <2>7
<1>4. ASSUME HandlerWrites(t) PROVE Asks' /\ Fresh' /\ OwnAnswer'
    <2>. USE DEF HandlerWrites, HandlerGoes
    <2>1. handler[t] = "write" /\ handler'[t] = "poll"
        BY <1>4 DEF Typing, HandlersOK
    <2>2. Unasked /\ decision[on[t]] = "none"
        BY <1>1, <2>1, UnaskedBut DEF Polls, Fresh
    <2>3. /\ answers' = answers /\ courier' = courier /\ up' = up /\ down' = down
          /\ dexit' = dexit /\ decision' = decision /\ got' = got /\ on' = on /\ kind' = kind
        BY <1>4 DEF courierVars, wireVars, sessionVars
    <2>4. requests' = <<on[t]>>
        BY <1>4, <2>2, Singletons DEF Unasked
    <2>5. Asks'
        BY <1>2, <2>1, <2>2, <2>3, <2>4 DEF Asks, Polls, Asked, Unasked, Quiet, Sent
    <2>6. Fresh'
        BY <1>1, <1>2, <2>1, <2>3 DEF Fresh
    <2>7. OwnAnswer'
        BY <1>1, <2>3 DEF OwnAnswer
    <2>. QED
        BY <2>5, <2>6, <2>7
<1>5. ASSUME HandlerReads(t) PROVE Asks' /\ Fresh' /\ OwnAnswer'
    <2>. USE DEF HandlerReads, HandlerGoes
    <2>1. handler[t] = "poll" /\ handler'[t] = "act"
        BY <1>5 DEF Typing, HandlersOK
    <2>2. Asked(on[t]) /\ answers # <<>>
        BY <1>1, <1>5, <2>1 DEF Asks, Polls
    <2>3. PICK a \in Answers : /\ answers = <<a>> /\ (a = "accept" <=> decision[on[t]] = "accept")
                               /\ requests = <<>> /\ courier = "read" /\ Quiet
        BY <2>2 DEF Asked, Carried
    <2>4. /\ requests' = requests /\ courier' = courier /\ up' = up /\ down' = down
          /\ dexit' = dexit /\ decision' = decision /\ on' = on /\ kind' = kind
        BY <1>5 DEF courierVars, wireVars, sessionVars
    <2>5. answers' = <<>> /\ got' = [got EXCEPT ![on[t]] = a]
        BY <1>5, <2>3, Singletons
    <2>6. Asks'
        BY <1>2, <2>1, <2>3, <2>4, <2>5 DEF Asks, Polls, Unasked, Quiet, Sent
    <2>7. Fresh'
        <3>1. on[t] \in 1..Len(kind) /\ on[t] \in Ids /\ Len(kind) \in Nat
            BY <2>1, SignalsAssumption DEF Typing, HandlersOK, Ids
        <3>. QED
            BY <1>1, <1>2, <2>1, <2>4, <2>5, <3>1 DEF Fresh
    <2>8. OwnAnswer'
        BY <1>1, <2>3, <2>4, <2>5 DEF OwnAnswer, Typing, HandlersOK
    <2>. QED
        BY <2>6, <2>7, <2>8
<1>6. ~HandlerGivesUp(t)
    BY DEF HandlerGivesUp
<1>. QED
    BY <1>0, <1>3, <1>4, <1>5, <1>6 DEF Handler

\* Whatever but a handler's own step is taken, the thread that polls still does.
LEMMA StillPolls ==
    ASSUME Single, Fresh, OwnAnswer, UNCHANGED <<handlerVars, decision>>,
           \/ \E t \in Handlers : Polls(t) /\ Asked(on[t])'
           \/ (\A t \in Handlers : ~Polls(t)) /\ Unasked'
    PROVE  Single' /\ Asks' /\ Fresh' /\ OwnAnswer'
BY DEF Single, Asks, Fresh, OwnAnswer, Polls, handlerVars

LEMMA CourierAsks ==
    ASSUME Typing, OneSigInv, Courier PROVE OneSigInv'
<1>. SUFFICES ASSUME ~late', ~crossed' PROVE Single' /\ Asks' /\ Fresh' /\ OwnAnswer'
    BY DEF OneSigInv
<1>. USE DEF CourierGoes
<1>1. /\ ~late /\ ~crossed /\ Single /\ Asks /\ Fresh /\ OwnAnswer
      /\ UNCHANGED <<handlerVars, down, decision, sessionVars>>
      /\ CourierReads \/ CourierSends \/ CourierTakes \/ CourierFlags \/ CourierAnswers
    BY DEF OneSigInv, handlerVars, Courier, CourierReads, CourierSends, CourierTakes,
           CourierGivesUp, CourierFlags, CourierAnswers
<1>2. PICK t \in Handlers : Polls(t) /\ Asked(on[t])
    BY <1>1 DEF Asks, Unasked, CourierReads, CourierSends, CourierTakes, CourierFlags,
                CourierAnswers
<1>3. on[t] = on[t]' /\ kind[on[t]] = kind'[on[t]] /\ decision[on[t]] = decision'[on[t]]
      /\ down' = down /\ dexit' = dexit
    BY <1>1 DEF handlerVars, sessionVars
<1>4. CASE CourierReads
    <2>1. requests = <<on[t]>> /\ answers = <<>> /\ Quiet /\ decision[on[t]] = "none"
        BY <1>2, <1>4 DEF CourierReads, Asked, Carried
    <2>2. Carried(on[t])'
        BY <1>3, <1>4, <2>1, Singletons DEF CourierReads, Carried, Quiet, Sent
    <2>. QED
        BY <1>1, <1>2, <2>2, StillPolls DEF Asked
<1>5. CASE CourierSends
    <2>1. /\ courier = "send" /\ requests = <<>> /\ carrying = on[t] /\ answers = <<>>
          /\ Quiet /\ decision[on[t]] = "none"
        BY <1>2, <1>5 DEF CourierSends, Asked, Carried
    <2>2. requests' = <<>> /\ carrying' = on[t] /\ answers' = <<>>
        BY <1>5, <2>1 DEF CourierSends, pipeVars
    <2>3. CASE over
        BY <1>1, <1>2, <1>3, <1>5, <2>1, <2>2, <2>3, StillPolls
        DEF CourierSends, Asked, Carried, Quiet, Sent
    <2>4. CASE ~over
        <3>1. answer' = "none" /\ up' = <<on[t]>> /\ courier' = "wait"
            BY <1>5, <2>1, <2>4, Singletons DEF CourierSends, Quiet
        <3>2. Waits(on[t])'
            BY <1>3, <2>1, <3>1 DEF Waits, Quiet, Sent
        <3>3. Carried(on[t])'
            BY <1>3, <2>2, <3>1, <3>2 DEF Carried
        <3>. QED
            BY <1>1, <1>2, <3>3, StillPolls DEF Asked
    <2>. QED
        BY <2>3, <2>4
<1>6. CASE CourierTakes
    <2>1. /\ courier = "wait" /\ requests = <<>> /\ carrying = on[t] /\ answers = <<>>
          /\ Quiet /\ answer = decision[on[t]]
        BY <1>2, <1>6 DEF CourierTakes, Asked, Carried, Waits
    <2>2. Carried(on[t])'
        BY <1>3, <1>6, <2>1 DEF CourierTakes, pipeVars, Carried, Quiet, Sent
    <2>. QED
        BY <1>1, <1>2, <2>2, StillPolls DEF Asked
<1>7. CASE CourierFlags
    <2>1. /\ courier = "flag" /\ requests = <<>> /\ carrying = on[t] /\ answers = <<>>
          /\ Quiet /\ (result = "accept" <=> decision[on[t]] = "accept")
        BY <1>2, <1>7 DEF CourierFlags, Asked, Carried
    <2>2. Flagged(on[t])'
        BY <1>3, <1>7, <2>1 DEF CourierFlags, Flagged
    <2>3. Carried(on[t])'
        BY <1>3, <1>7, <2>1, <2>2 DEF CourierFlags, pipeVars, Carried, Quiet, Sent
    <2>. QED
        BY <1>1, <1>2, <2>3, StillPolls DEF Asked
<1>8. CASE CourierAnswers
    <2>1. /\ courier = "answer" /\ requests = <<>> /\ carrying = on[t] /\ answers = <<>>
          /\ Quiet /\ (result = "accept" <=> decision[on[t]] = "accept") /\ Flagged(on[t])
        BY <1>2, <1>8 DEF CourierAnswers, Asked, Carried
    <2>2. answers' = <<result>> /\ result \in Answers /\ Flagged(on[t])'
        BY <1>3, <1>8, <2>1, Singletons DEF CourierAnswers, Typing, CourierOK, Flagged
    <2>3. Quiet' /\ requests' = <<>> /\ courier' = "read"
        BY <1>3, <1>8, <2>1 DEF CourierAnswers, Quiet, Sent
    <2>4. Asked(on[t])'
        BY <1>3, <2>1, <2>2, <2>3 DEF Asked
    <2>. QED
        BY <1>1, <1>2, <2>4, StillPolls
<1>. QED
    BY <1>1, <1>4, <1>5, <1>6, <1>7, <1>8

LEMMA ReaderAsks ==
    ASSUME Typing, OneSigInv, Reader PROVE OneSigInv'
<1>. SUFFICES ASSUME ~late', ~crossed' PROVE Single' /\ Asks' /\ Fresh' /\ OwnAnswer'
    BY DEF OneSigInv
<1>1. /\ ~late /\ ~crossed /\ Single /\ Asks /\ Fresh /\ OwnAnswer
      /\ UNCHANGED <<handlerVars, pipeVars, courierVars, up, decision, dexit, termination>>
    BY DEF OneSigInv, handlerVars, Reader, ReadAck, ReadOver, wireVars, sessionVars, endVars
<1>2. CASE ReadOver
    <2>1. down' = down /\ answer' = answer
        BY <1>2 DEF ReadOver, wireVars
    <2>. QED
        BY <1>1, <2>1 DEF Single, Asks, Asked, Carried, Waits, Flagged, Unasked, Quiet, Sent, Polls,
                          Fresh, OwnAnswer, handlerVars, pipeVars, courierVars
<1>3. CASE ReadAck
    <2>1. ~Sent(<<>>)
        BY <1>3, NoneToRead DEF ReadAck
    <2>2. PICK t \in Handlers : Polls(t) /\ Asked(on[t])
        BY <1>1, <2>1 DEF Asks, Unasked, Quiet
    <2>3. /\ requests = <<>> /\ carrying = on[t] /\ answers = <<>> /\ courier = "wait"
          /\ up = <<>> /\ Sent(<<decision[on[t]]>>) /\ decision[on[t]] \in Answers
        BY <2>1, <2>2 DEF Asked, Carried, Waits, Quiet
    <2>4. answer' = decision[on[t]] /\ Sent(<<>>)'
        BY <1>1, <1>3, <2>3, OneToRead DEF ReadAck, Sent
    <2>5. /\ requests' = <<>> /\ carrying' = on[t] /\ answers' = <<>> /\ courier' = "wait"
          /\ up' = <<>> /\ on'[t] = on[t] /\ decision'[on[t]] = decision[on[t]]
        BY <1>1, <2>3 DEF handlerVars, pipeVars, courierVars
    <2>6. Waits(on[t])'
        BY <2>3, <2>4, <2>5 DEF Waits, Quiet
    <2>7. Asked(on[t])'
        BY <2>5, <2>6 DEF Asked, Carried
    <2>. QED
        BY <1>1, <2>2, <2>7, StillPolls
<1>. QED
    BY <1>2, <1>3 DEF Reader

LEMMA DaemonAsks ==
    ASSUME Typing, OneSigInv, DaemonAnswers PROVE OneSigInv'
<1>. SUFFICES ASSUME ~late', ~crossed' PROVE Single' /\ Asks' /\ Fresh' /\ OwnAnswer'
    BY DEF OneSigInv
<1>1. /\ ~late /\ ~crossed /\ Single /\ Asks /\ Fresh /\ OwnAnswer /\ up # <<>> /\ ~dexit
      /\ UNCHANGED <<handlerVars, pipeVars, courierVars, answer, dexit, termination>>
    BY DEF OneSigInv, handlerVars, DaemonAnswers, DaemonActs, endVars
<1>2. PICK t \in Handlers : Polls(t) /\ Asked(on[t])
    BY <1>1 DEF Asks, Unasked, Quiet
<1>3. /\ requests = <<>> /\ carrying = on[t] /\ answers = <<>> /\ courier = "wait"
      /\ up = <<on[t]>> /\ Sent(<<>>) /\ answer = "none"
    BY <1>1, <1>2 DEF Asked, Carried, Waits, Quiet
<1>4. PICK a \in Answers : decision' = [decision EXCEPT ![on[t]] = a] /\ down' = <<a>> /\ up' = <<>>
    BY <1>1, <1>3, Singletons DEF DaemonAnswers, Sent
<1>5. on[t] \in 1..Len(kind) /\ on[t] \in Ids /\ Len(kind) \in Nat
    BY <1>2, SignalsAssumption DEF Typing, HandlersOK, Ids, Polls
<1>6. decision'[on[t]] = a
    BY <1>4, <1>5 DEF Typing, WireOK
<1>7. Waits(on[t])'
    BY <1>1, <1>3, <1>4, <1>6 DEF Waits, Sent, handlerVars
<1>8. Asked(on[t])'
    BY <1>1, <1>3, <1>7 DEF Asked, Carried, handlerVars, pipeVars, courierVars
<1>9. \A other \in Handlers : other # t => handler[other] = "idle"
    BY <1>1, <1>2 DEF Single, Polls
<1>10. Asks'
    BY <1>1, <1>2, <1>8, <1>9 DEF Asks, Polls, handlerVars
<1>11. Fresh'
    BY <1>1, <1>2, <1>4, <1>5, <1>9 DEF Fresh, Polls, handlerVars, Typing, WireOK
<1>12. OwnAnswer'
    <2>1. got[on[t]] = "none" /\ got' = got
        BY <1>1, <1>2 DEF Fresh, Polls, handlerVars
    <2>. QED
        BY <1>1, <1>4, <1>5, <2>1 DEF OwnAnswer, Typing, WireOK
<1>. QED
    BY <1>1, <1>10, <1>11, <1>12 DEF Single, handlerVars

LEMMA OthersAsk ==
    ASSUME Typing, OneSigInv,
           DrainsEnd \/ DaemonExits \/ Monitor \/ Main \/ Continue \/ UNCHANGED vars
    PROVE  OneSigInv'
<1>. SUFFICES ASSUME ~late', ~crossed' PROVE Single' /\ Asks' /\ Fresh' /\ OwnAnswer'
    BY DEF OneSigInv
<1>1. /\ ~late /\ ~crossed /\ Single /\ Asks /\ Fresh /\ OwnAnswer
      /\ UNCHANGED <<handlerVars, pipeVars, courierVars, answer, up, decision, termination>>
    BY DEF OneSigInv, handlerVars, DrainsEnd, DaemonExits, DaemonActs, Monitor, MonitorWakes,
           MonitorCloses, Main, MainGoes, MainWaits, MainRestores, MainEnds, MainDies, MainExits,
           Continue, vars, wireVars, endVars
<1>2. \A acks : Sent(acks) => Sent(acks)'
    <2>1. CASE DaemonExits
        BY <2>1 DEF DaemonExits, DaemonActs, Sent
    <2>2. CASE DrainsEnd \/ Monitor \/ Main \/ Continue \/ UNCHANGED vars
        BY <2>2 DEF DrainsEnd, Monitor, MonitorWakes, MonitorCloses, Main, MainGoes, MainWaits,
                    MainRestores, MainEnds, MainDies, MainExits, Continue, vars, wireVars,
                    sessionVars, Sent
    <2>. QED
        BY <2>1, <2>2
<1>3. Sent(<<>>) => Sent(<<>>)'
    BY <1>2
<1>4. \A t \in Handlers : Asked(on[t]) => Asked(on[t])'
    <2>. TAKE t \in Handlers
    <2>1. Sent(<<decision[on[t]]>>) => Sent(<<decision[on[t]]>>)'
        BY <1>1, <1>2 DEF handlerVars
    <2>. QED
        BY <1>1, <1>3, <2>1 DEF Asked, Carried, Waits, Flagged, Quiet, handlerVars, pipeVars,
                                courierVars
<1>5. Unasked => Unasked'
    BY <1>1, <1>3 DEF Unasked, Quiet, pipeVars, courierVars
<1>. QED
    BY <1>1, <1>4, <1>5 DEF Single, Asks, Fresh, OwnAnswer, Polls, handlerVars

LEMMA QuestionNext ==
    ASSUME Typing, OneSigInv, [Next]_vars PROVE OneSigInv'
BY DeliverAsks, HandlerAsks, CourierAsks, ReaderAsks, DaemonAsks, OthersAsk DEF Next, Terminated

\* As long as every answer comes in time and one handler is at work at once, a handler acts on
\* what the daemon decided of its own signal, whichever threads they run on: nothing in the
\* pipes or the slot says which signal it is about (signals.rs, launcher.md, Signals).
THEOREM AnswersAreOwn == Spec => []OwnAnswerInTime
<1>1. ASSUME Typing, OneSigInv, [Next]_vars PROVE OneSigInv'
    BY <1>1, QuestionNext
<1>2. OneSigInv => OwnAnswerInTime
    BY DEF OneSigInv, OwnAnswerInTime
<1>. QED
    BY QuestionInit, <1>1, <1>2, SignalsTyped, SignalsStayTyped, PTL DEF Spec

-----------------------------------------------------------------------------
LEMMA EndInit == Init => MainInv
<1>. SUFFICES ASSUME Init PROVE MainInv
    OBVIOUS
<1>1. 1..Len(kind) = {}
    BY DEF Init
<1>. QED
    BY <1>1, QuestionInit DEF MainInv, Elsewhere, Accepted, Ends, NoneAccepted, Init

LEMMA ElsewhereStays == ASSUME Typing, Elsewhere, [Next]_vars PROVE Elsewhere'
<1>1. ASSUME NEW t \in Handlers, Deliver(t) \/ DeliverCont(t) PROVE Elsewhere'
    <2>1. \E k \in {"TERM", "INT", "WINCH", "TSTP", "CONT"} : Enters(t, k, "drain")
        BY <1>1, SignalsAssumption DEF Deliver, DeliverCont
    <2>2. /\ \A other \in Handlers : other # t =>
                handler'[other] = handler[other] /\ on'[other] = on[other]
          /\ on'[t] = Len(kind) + 1 /\ away \subseteq away'
          /\ t # "main" => Len(kind) + 1 \in away'
        BY <2>1 DEF Enters, Typing, HandlersOK
    <2>. QED
        BY <2>2 DEF Elsewhere
<1>2. ASSUME NEW t \in Handlers, Handler(t) PROVE Elsewhere'
    <2>1. handler[t] # "idle" /\ UNCHANGED <<on, away>>
          /\ \A other \in Handlers : other # t => handler'[other] = handler[other]
        BY <1>2 DEF Handler, HandlerDrains, HandlerWrites, HandlerReads, HandlerGivesUp,
                    HandlerActs, HandlerStops, HandlerGoes, Typing, HandlersOK
    <2>. QED
        BY <2>1 DEF Elsewhere
<1>3. ASSUME UNCHANGED handlerVars PROVE Elsewhere'
    BY <1>3 DEF handlerVars, Elsewhere
<1>4. CASE Courier \/ Reader \/ Monitor \/ Main \/ Continue \/ Terminated \/ DrainsEnd
           \/ DaemonAnswers \/ DaemonExits \/ UNCHANGED vars
    BY <1>3, <1>4 DEF Courier, CourierGoes, CourierReads, CourierSends, CourierTakes,
        CourierGivesUp, CourierFlags, CourierAnswers, Reader, ReadAck, ReadOver, Main, MainGoes,
        MainWaits, MainRestores, MainEnds, MainDies, MainExits, Monitor, MonitorWakes,
        MonitorCloses, DrainsEnd, DaemonAnswers, DaemonExits, DaemonActs, Continue, Terminated, vars
<1>. QED
    BY <1>1, <1>2, <1>4 DEF Next

LEMMA DeliverEnds ==
    ASSUME Typing, MainInv, NEW t \in Handlers, Deliver(t) \/ DeliverCont(t), ~late, ~crossed'
    PROVE  Accepted' /\ Ends'
<1>1. PICK k \in {"TERM", "INT", "WINCH", "TSTP", "CONT"} : Enters(t, k, "drain")
    BY SignalsAssumption DEF Deliver, DeliverCont
<1>2. /\ Asks /\ Fresh /\ Accepted /\ Ends
      /\ \A other \in Handlers : handler[other] = "idle"
    BY <1>1 DEF Enters, MainInv, OneSigInv
<1>3. \A other \in Handlers : ~Polls(other)
    BY <1>2 DEF Polls
<1>4. /\ Len(kind) + 1 \in Ids /\ Len(kind') = Len(kind) + 1 /\ Len(kind) \in Nat
      /\ \A i \in 1..Len(kind) : kind'[i] = kind[i]
    BY <1>1, SignalsAssumption DEF Enters, Typing, HandlersOK, Ids
<1>5. UNCHANGED <<decision, termination, main, fate, over, up>> /\ away \subseteq away'
    BY <1>1 DEF Enters, wireVars, endVars, sessionVars
<1>6. decision[Len(kind) + 1] = "none"
    BY <1>2, <1>4 DEF Fresh
<1>7. \A i \in 1..Len(kind') : i \in 1..Len(kind) \/ i = Len(kind) + 1
    BY <1>4
<1>8. Accepted'
    BY <1>2, <1>3, <1>4, <1>5, <1>6, <1>7 DEF Accepted, Flagged
<1>9. NoneAccepted => NoneAccepted'
    BY <1>4, <1>5, <1>6, <1>7 DEF NoneAccepted
<1>10. Ends'
    BY <1>2, <1>5, <1>9 DEF Ends
<1>. QED
    BY <1>8, <1>10

LEMMA HandlerEnds ==
    ASSUME Typing, MainInv, NEW t \in Handlers, Handler(t), ~late', ~crossed'
    PROVE  Accepted' /\ Ends'
<1>. USE DEF Handler, HandlerDrains, HandlerWrites, HandlerReads, HandlerGivesUp, HandlerActs,
             HandlerStops, HandlerGoes
<1>1. ~late /\ Single /\ Asks /\ Fresh /\ Accepted /\ Ends
    BY DEF MainInv, OneSigInv
<1>2. /\ UNCHANGED <<kind, on, away, decision, up, over, termination, main>>
      /\ fate' = fate \/ fate' \in {"TERM", "INT"}
    BY DEF wireVars, sessionVars, endVars
<1>3. \A other \in Handlers : other # t => handler[other] = "idle"
    BY <1>1 DEF Single
<1>4. Polls(t) /\ ~Polls(t)' => Flagged(on[t])
    <2>. SUFFICES ASSUME Polls(t), ~Polls(t)' PROVE Flagged(on[t])
        OBVIOUS
    <2>1. HandlerReads(t)
        BY DEF Polls, Typing, HandlersOK
    <2>2. answers # <<>> /\ Asked(on[t])
        BY <1>1, <2>1 DEF Asks
    <2>. QED
        BY <2>2 DEF Asked, Carried
<1>5. Accepted'
    <2>. SUFFICES ASSUME NEW i \in 1..Len(kind)
                  PROVE  Flagged(i)' \/ \E other \in Handlers : Polls(other)' /\ on'[other] = i
        BY <1>2 DEF Accepted
    <2>1. Flagged(i) => Flagged(i)'
        BY <1>2 DEF Flagged
    <2>2. \A other \in Handlers : Polls(other) => other = t
        BY <1>3 DEF Polls
    <2>. QED
        BY <1>1, <1>2, <1>4, <2>1, <2>2 DEF Accepted
<1>6. Ends'
    BY <1>1, <1>2 DEF Ends, NoneAccepted
<1>. QED
    BY <1>5, <1>6

LEMMA DaemonEnds ==
    ASSUME Typing, MainInv, DaemonAnswers, ~late, ~crossed PROVE Accepted' /\ Ends'
<1>1. Asks /\ Fresh /\ Accepted /\ Ends
    BY DEF MainInv, OneSigInv
<1>2. /\ up # <<>> /\ fate = "alive"
      /\ UNCHANGED <<handlerVars, over, termination, main, fate>>
    BY DEF DaemonAnswers, DaemonActs, sessionVars, endVars
<1>4. PICK t \in Handlers : Polls(t) /\ Asked(on[t])
    BY <1>1, <1>2 DEF Asks, Unasked, Quiet
<1>5. up = <<on[t]>>
    BY <1>2, <1>4 DEF Asked, Carried, Waits, Quiet
<1>6. /\ \A i \in 1..Len(kind) : i # on[t] => decision'[i] = decision[i]
      /\ up' = <<>>
    BY <1>5, Singletons DEF DaemonAnswers, Typing, WireOK
<1>7. Accepted'
    BY <1>1, <1>2, <1>4, <1>6 DEF Accepted, Flagged, Polls, handlerVars
<1>8. Ends'
    <2>1. CASE main = "waiting"
        BY <1>2, <2>1 DEF Ends
    <2>2. CASE main # "waiting"
        <3>1. 1 \in DOMAIN up /\ up[1] = on[t]
            BY <1>5
        <3>2. on[t] \in away /\ over
            BY <1>1, <2>2, <3>1 DEF Ends
        <3>3. NoneAccepted => NoneAccepted'
            BY <1>2, <1>6, <3>2 DEF NoneAccepted, handlerVars
        <3>4. DOMAIN up' = {}
            BY <1>6
        <3>. QED
            BY <1>1, <1>2, <3>2, <3>3, <3>4 DEF Ends
    <2>. QED
        BY <2>1, <2>2
<1>. QED
    BY <1>7, <1>8

\* Where nothing is decided, and no handler goes on.
LEMMA SameEnds ==
    ASSUME Accepted, UNCHANGED <<handlerVars, decision>>, termination => termination'
    PROVE  Accepted'
BY DEF Accepted, Flagged, Polls, handlerVars

LEMMA CourierEnds ==
    ASSUME Typing, MainInv, Courier, ~late, ~crossed PROVE Accepted' /\ Ends'
<1>. USE DEF Courier, CourierGoes, CourierReads, CourierSends, CourierTakes, CourierGivesUp,
             CourierFlags, CourierAnswers
<1>1. Accepted /\ Ends
    BY DEF MainInv, OneSigInv
<1>2. UNCHANGED <<handlerVars, decision, sessionVars, main, fate>> /\ (over => up' = up)
    OBVIOUS
<1>3. termination => termination'
    <2>1. CASE CourierFlags
        BY <2>1
    <2>2. CASE ~CourierFlags
        BY <2>2 DEF Typing, FlagsOK
    <2>. QED
        BY <2>1, <2>2
<1>4. Accepted'
    BY <1>1, <1>2, <1>3, SameEnds
<1>5. Ends'
    BY <1>1, <1>2 DEF Ends, NoneAccepted, handlerVars, sessionVars
<1>. QED
    BY <1>4, <1>5

LEMMA MainEndsWell ==
    ASSUME Typing, MainInv, Main, ~late, ~crossed PROVE Accepted' /\ Ends'
<1>. USE DEF Main, MainGoes, MainWaits, MainRestores, MainEnds, MainDies, MainExits
<1>1. Asks /\ Accepted /\ Ends /\ Elsewhere
    BY DEF MainInv, OneSigInv
<1>2. UNCHANGED <<handlerVars, decision, up, over, termination>>
    BY DEF wireVars, sessionVars
<1>3. \A t \in Handlers : Polls(t) => on[t] \in away
    BY <1>1 DEF Elsewhere, Free, Polls
<1>4. /\ \A k \in DOMAIN up : up[k] \in away
      /\ \A i \in 1..Len(kind) \ away : Flagged(i)
    <2>1. CASE up = <<>>
        BY <1>1, <1>3, <2>1 DEF Accepted
    <2>2. CASE up # <<>>
        <3>1. PICK t \in Handlers : Polls(t) /\ Asked(on[t])
            BY <1>1, <2>2 DEF Asks, Unasked, Quiet
        <3>2. up = <<on[t]>>
            BY <2>2, <3>1 DEF Asked, Carried, Waits, Quiet
        <3>3. \A k \in DOMAIN up : up[k] = on[t]
            BY <3>2
        <3>. QED
            BY <1>1, <1>3, <3>1, <3>3 DEF Accepted
    <2>. QED
        BY <2>1, <2>2
<1>5. Accepted'
    BY <1>1, <1>2, SameEnds
<1>6. main' # "waiting" => over /\ \A k \in DOMAIN up : up[k] \in away
    BY <1>1, <1>4 DEF Ends
<1>7. main' = "exiting" \/ fate' = "exit" => NoneAccepted
    <2>1. CASE main = "ending"
        BY <1>1, <1>4, <2>1 DEF Flagged, NoneAccepted, Ends
    <2>2. CASE main # "ending"
        BY <1>1, <2>2 DEF Ends, NoneAccepted
    <2>. QED
        BY <2>1, <2>2
<1>8. Ends'
    BY <1>2, <1>6, <1>7 DEF Ends, NoneAccepted, handlerVars
<1>. QED
    BY <1>5, <1>8

LEMMA OthersEnd ==
    ASSUME Typing, MainInv, ~late, ~crossed,
           Reader \/ DrainsEnd \/ DaemonExits \/ Monitor \/ Continue \/ UNCHANGED vars
    PROVE  Accepted' /\ Ends'
<1>1. Accepted /\ Ends
    BY DEF MainInv, OneSigInv
<1>2. /\ UNCHANGED <<handlerVars, decision, up, termination, main, fate>>
      /\ over => over'
    BY DEF Reader, ReadAck, ReadOver, DrainsEnd, DaemonExits, DaemonActs, Monitor, MonitorWakes,
           MonitorCloses, Continue, vars, wireVars, sessionVars, endVars
<1>3. Accepted'
    BY <1>1, <1>2, SameEnds
<1>4. Ends'
    BY <1>1, <1>2 DEF Ends, NoneAccepted, handlerVars
<1>. QED
    BY <1>3, <1>4

\* What has once happened has happened.
LEMMA HistoryStays ==
    ASSUME Typing, [Next]_vars PROVE (late => late') /\ (crossed => crossed')
<1>1. ASSUME NEW t \in Handlers, Deliver(t) \/ DeliverCont(t)
      PROVE  late' = late /\ (crossed => crossed')
    <2>1. \E k \in {"TERM", "INT", "WINCH", "TSTP", "CONT"} : Enters(t, k, "drain")
        BY <1>1, SignalsAssumption DEF Deliver, DeliverCont
    <2>. QED
        BY <2>1 DEF Enters
<1>2. ASSUME NEW t \in Handlers, Handler(t) PROVE (late => late') /\ crossed' = crossed
    BY <1>2 DEF Handler, HandlerDrains, HandlerWrites, HandlerReads, HandlerGivesUp, HandlerActs,
                HandlerStops, HandlerGoes
<1>3. CASE Courier
    BY <1>3 DEF Courier, CourierGoes, CourierReads, CourierSends, CourierTakes, CourierGivesUp,
                CourierFlags, CourierAnswers, handlerVars
<1>4. CASE Reader \/ Monitor \/ Continue \/ DrainsEnd \/ DaemonAnswers \/ DaemonExits
    BY <1>4 DEF Reader, ReadAck, ReadOver, Monitor, MonitorWakes, MonitorCloses, Continue,
                DrainsEnd, DaemonAnswers, DaemonExits, DaemonActs, handlerVars
<1>5. CASE Main
    BY <1>5 DEF Main, MainGoes, MainWaits, MainRestores, MainEnds, MainDies, MainExits, handlerVars
<1>6. CASE UNCHANGED vars
    BY <1>6 DEF vars, handlerVars
<1>. QED
    BY <1>1, <1>2, <1>3, <1>4, <1>5, <1>6 DEF Next, Terminated

LEMMA EndNext == ASSUME Typing, MainInv, [Next]_vars PROVE MainInv'
<1>1. OneSigInv' /\ Elsewhere'
    BY QuestionNext, ElsewhereStays DEF MainInv
<1>2. ASSUME ~late', ~crossed' PROVE Accepted' /\ Ends'
    <2>1. ~late /\ ~crossed
        BY <1>2, HistoryStays
    <2>. QED
        BY <1>2, <2>1, DeliverEnds, HandlerEnds, DaemonEnds, CourierEnds, MainEndsWell, OthersEnd
        DEF Next, Terminated
<1>. QED
    BY <1>1, <1>2 DEF MainInv

\* As long as every answer comes in time and one handler is at work at once, a launcher whose
\* TERM the daemon accepted dies of it, whatever status the session ends with, if its handler
\* ran on main; other signals' may run on any thread (main.rs, launcher.md, Exit status).
THEOREM AcceptedTermDies == Spec => []TermDiesInTime
<1>1. ASSUME Typing, MainInv, [Next]_vars PROVE MainInv'
    BY <1>1, EndNext
<1>2. MainInv => TermDiesInTime
    BY DEF MainInv, Ends, NoneAccepted, TermDiesInTime
<1>. QED
    BY EndInit, <1>1, <1>2, SignalsTyped, SignalsStayTyped, PTL DEF Spec

-----------------------------------------------------------------------------
(* How many of a sequence, or of a function, are one thing.                *)

Number(q, a) == Cardinality({i \in DOMAIN q : q[i] = a})
Is(x, a) == IF x = a THEN 1 ELSE 0

LEMMA TwoParts ==
    ASSUME NEW S, NEW T, IsFiniteSet(S), IsFiniteSet(T), S \cap T = {}
    PROVE  /\ Cardinality(S) \in Nat /\ Cardinality(T) \in Nat
           /\ Cardinality(S \cup T) = Cardinality(S) + Cardinality(T)
<1>1. Cardinality(S \cup T) = Cardinality(S) + Cardinality(T) - Cardinality(S \cap T)
    BY FS_Union
<1>2. Cardinality(S \cap T) = 0
    BY FS_EmptySet
<1>3. Cardinality(S) \in Nat /\ Cardinality(T) \in Nat
    BY FS_CardinalityType
<1>. QED
    BY <1>1, <1>2, <1>3

LEMMA AtOne ==
    ASSUME NEW d, NEW x, NEW a
    PROVE  /\ IsFiniteSet({i \in {d} : x = a})
           /\ Cardinality({i \in {d} : x = a}) = Is(x, a)
<1>1. CASE x = a
    <2>1. {i \in {d} : x = a} = {d} /\ Is(x, a) = 1
        BY <1>1 DEF Is
    <2>. QED
        BY <2>1, FS_Singleton
<1>2. CASE x # a
    <2>1. {i \in {d} : x = a} = {} /\ Is(x, a) = 0
        BY <1>2 DEF Is
    <2>. QED
        BY <2>1, FS_EmptySet
<1>. QED
    BY <1>1, <1>2

LEMMA NumberNone == \A a : Number(<<>>, a) = 0
<1>1. \A a : {i \in DOMAIN <<>> : <<>>[i] = a} = {}
    OBVIOUS
<1>. QED
    BY <1>1, FS_EmptySet DEF Number

LEMMA NumberNat ==
    ASSUME NEW q, IsFiniteSet(DOMAIN q), NEW a
    PROVE  /\ Number(q, a) \in Nat
           /\ Number(q, a) > 0 <=> \E i \in DOMAIN q : q[i] = a
<1>. DEFINE T == {i \in DOMAIN q : q[i] = a}
<1>1. IsFiniteSet(T)
    BY FS_Subset
<1>2. Number(q, a) = Cardinality(T)
    BY DEF Number
<1>3. Cardinality(T) \in Nat /\ (Cardinality(T) = 0 <=> T = {})
    <2>. HIDE DEF T
    <2>. QED
        BY <1>1, FS_CardinalityType, FS_EmptySet
<1>. QED
    BY <1>2, <1>3

\* A function changed at d.
LEMMA NumberExcept ==
    ASSUME NEW f, NEW g, IsFiniteSet(DOMAIN f), DOMAIN g = DOMAIN f, NEW d \in DOMAIN f,
           \A i \in DOMAIN f : i # d => g[i] = f[i], NEW a
    PROVE  /\ Number(f, a) \in Nat /\ Number(g, a) \in Nat
           /\ Number(g, a) + Is(f[d], a) = Number(f, a) + Is(g[d], a)
<1>. DEFINE rest == {i \in DOMAIN f \ {d} : f[i] = a}
            was == {i \in {d} : f[d] = a}
            is == {i \in {d} : g[d] = a}
<1>1. IsFiniteSet(rest)
    <2>1. rest \in SUBSET (DOMAIN f)
        OBVIOUS
    <2>. QED
        BY <2>1, FS_Subset
<1>2. /\ IsFiniteSet(was) /\ Cardinality(was) = Is(f[d], a)
      /\ IsFiniteSet(is) /\ Cardinality(is) = Is(g[d], a)
    BY AtOne
<1>3. {i \in DOMAIN f : f[i] = a} = rest \cup was /\ {i \in DOMAIN g : g[i] = a} = rest \cup is
    OBVIOUS
<1>4. rest \cap was = {} /\ rest \cap is = {}
    OBVIOUS
<1>5. Number(f, a) = Cardinality(rest \cup was) /\ Number(g, a) = Cardinality(rest \cup is)
    BY <1>3 DEF Number
<1>. HIDE DEF rest, was, is
<1>6. /\ Cardinality(rest) \in Nat
      /\ Cardinality(rest \cup was) = Cardinality(rest) + Cardinality(was)
    BY <1>1, <1>2, <1>4, TwoParts
<1>7. Cardinality(rest \cup is) = Cardinality(rest) + Cardinality(is)
    BY <1>1, <1>2, <1>4, TwoParts
<1>8. Is(f[d], a) \in Nat /\ Is(g[d], a) \in Nat
    BY DEF Is
<1>. QED
    BY <1>2, <1>5, <1>6, <1>7, <1>8

LEMMA NumberInSeq ==
    ASSUME NEW S, NEW q \in Seq(S), NEW a
    PROVE  /\ Number(q, a) \in Nat
           /\ Number(q, a) > 0 <=> \E i \in 1..Len(q) : q[i] = a
<1>1. DOMAIN q = 1..Len(q) /\ IsFiniteSet(1..Len(q))
    BY FS_Interval
<1>2. IsFiniteSet(DOMAIN q)
    BY <1>1
<1>. QED
    BY <1>1, <1>2, NumberNat, Zenon

LEMMA NumberAppend ==
    ASSUME NEW S, NEW q \in Seq(S), NEW d \in S, NEW a
    PROVE  /\ Number(Append(q, d), a) \in Nat
           /\ Number(Append(q, d), a) = Number(q, a) + Is(d, a)
<1>. DEFINE n == Len(q) + 1
            before == {i \in 1..Len(q) : q[i] = a}
            last == {i \in {n} : d = a}
<1>1. IsFiniteSet(before)
    <2>1. IsFiniteSet(1..Len(q)) /\ before \in SUBSET (1..Len(q))
        BY FS_Interval
    <2>. QED
        BY <2>1, FS_Subset
<1>2. IsFiniteSet(last) /\ Cardinality(last) = Is(d, a)
    BY AtOne
<1>3. /\ {i \in DOMAIN q : q[i] = a} = before
      /\ {i \in DOMAIN Append(q, d) : Append(q, d)[i] = a} = before \cup last
    <2>1. /\ DOMAIN q = 1..Len(q) /\ DOMAIN Append(q, d) = 1..n
          /\ Append(q, d)[n] = d /\ \A i \in 1..Len(q) : Append(q, d)[i] = q[i]
        OBVIOUS
    <2>. QED
        BY <2>1
<1>4. before \cap last = {}
    OBVIOUS
<1>5. Number(q, a) = Cardinality(before) /\ Number(Append(q, d), a) = Cardinality(before \cup last)
    BY <1>3 DEF Number
<1>. HIDE DEF before, last
<1>6. /\ Cardinality(before) \in Nat /\ Cardinality(last) \in Nat
      /\ Cardinality(before \cup last) = Cardinality(before) + Cardinality(last)
    BY <1>1, <1>2, <1>4, TwoParts
<1>. QED
    BY <1>2, <1>5, <1>6

LEMMA NumberTail ==
    ASSUME NEW S, NEW q \in Seq(S), q # <<>>, NEW a
    PROVE  /\ Number(Tail(q), a) \in Nat
           /\ Number(q, a) = Is(Head(q), a) + Number(Tail(q), a)
<1>. DEFINE first == {i \in {1} : Head(q) = a}
            rest == {i \in 1..(Len(q) - 1) : Tail(q)[i] = a}
            later == {i \in 2..Len(q) : q[i] = a}
            f == [i \in rest |-> i + 1]
<1>1. /\ DOMAIN q = 1..Len(q) /\ q[1] = Head(q) /\ Len(q) \in Nat /\ Len(q) >= 1
      /\ DOMAIN Tail(q) = 1..(Len(q) - 1)
      /\ \A i \in 1..(Len(q) - 1) : Tail(q)[i] = q[i + 1]
    OBVIOUS
<1>2. IsFiniteSet(first) /\ Cardinality(first) = Is(Head(q), a)
    BY AtOne
<1>3. IsFiniteSet(rest)
    <2>1. IsFiniteSet(1..(Len(q) - 1)) /\ rest \in SUBSET (1..(Len(q) - 1))
        BY <1>1, FS_Interval
    <2>. QED
        BY <2>1, FS_Subset
<1>4. f \in Bijection(rest, later)
    <2>1. f \in [rest -> later]
        BY <1>1
    <2>2. \A one, other \in rest : f[one] = f[other] => one = other
        BY <1>1
    <2>3. ASSUME NEW t \in later PROVE \E i \in rest : f[i] = t
        <3>1. t - 1 \in rest /\ (t - 1) + 1 = t
            BY <1>1
        <3>2. f[t - 1] = (t - 1) + 1
            BY <3>1
        <3>. QED
            BY <3>1, <3>2
    <2>. QED
        BY <2>1, <2>2, <2>3, Fun_IsBij, Zenon
<1>5. IsFiniteSet(later) /\ Cardinality(later) = Cardinality(rest)
    <2>. HIDE DEF rest, later, f
    <2>1. ExistsBijection(rest, later)
        BY <1>4, Zenon DEF ExistsBijection
    <2>. QED
        BY <1>3, <2>1, FS_Bijection
<1>6. /\ {i \in DOMAIN q : q[i] = a} = first \cup later /\ first \cap later = {}
      /\ {i \in DOMAIN Tail(q) : Tail(q)[i] = a} = rest
    BY <1>1
<1>7. Number(q, a) = Cardinality(first \cup later) /\ Number(Tail(q), a) = Cardinality(rest)
    BY <1>6 DEF Number
<1>. HIDE DEF first, rest, later, f
<1>. QED
    BY <1>2, <1>3, <1>5, <1>6, <1>7, TwoParts

-----------------------------------------------------------------------------
(* Consents, whatever the handlers and however late: none is made up.      *)

\* The signals whose handlers have not asked about them yet.
asking == [t \in Handlers |-> IF handler[t] \in {"drain", "write"} THEN on[t] ELSE 0]

Sending(i) == IF courier = "send" THEN Is(carrying, i) ELSE 0
Decided(i) == IF decision[i] # "none" THEN 1 ELSE 0

\* Where a question about signal i, not yet decided, may be; and that it was decided.
Questions(i) ==
    Number(asking, i) + Number(requests, i) + Sending(i) + Number(up, i) + Decided(i)

AskedOnce ==
    /\ \A i \in Ids : Questions(i) <= IF i <= Len(kind) THEN 1 ELSE 0
    /\ courier # "read" => carrying <= Len(kind)

\* A consent that the courier has, in hand or in the slot it waits at.
InHand == IF courier \in {"flag", "answer"} THEN Is(result, "accept") ELSE 0
InSlot == IF courier = "wait" THEN Is(answer, "accept") ELSE 0

Consents ==
    Number(got, "accept") + Number(answers, "accept") + InHand + InSlot + Number(down, "accept")

\* Every consent there is, wherever, is one that the daemon gave.
NoneMadeUp ==
    /\ Consents <= Number(decision, "accept")
    /\ termination =>
         /\ \E i \in 1..Len(kind) : kind[i] = "TERM"
         /\ Number(decision, "accept") > 0

ConsentInv == AskedOnce /\ NoneMadeUp

LEMMA QuestionsNatural ==
    ASSUME Typing, NEW i
    PROVE  /\ IsFiniteSet(Handlers) /\ asking \in [Handlers -> 0..Signals]
           /\ Number(asking, i) \in Nat /\ Number(requests, i) \in Nat /\ Sending(i) \in Nat
           /\ Number(up, i) \in Nat /\ Decided(i) \in Nat
<1>1. asking \in [Handlers -> 0..Signals] /\ IsFiniteSet(Handlers)
    BY SignalsAssumption DEF asking, Typing, HandlersOK
<1>2. Number(asking, i) \in Nat
    <2>1. DOMAIN asking = Handlers
        BY DEF asking
    <2>. QED
        BY <1>1, <2>1, NumberNat, Zenon
<1>3. Number(requests, i) \in Nat /\ Number(up, i) \in Nat
    BY NumberInSeq DEF Typing, CourierOK, WireOK
<1>. QED
    BY <1>1, <1>2, <1>3 DEF Sending, Decided, Is

LEMMA ConsentsNatural ==
    ASSUME Typing
    PROVE  /\ IsFiniteSet(Ids)
           /\ Number(got, "accept") \in Nat /\ Number(answers, "accept") \in Nat
           /\ InHand \in Nat /\ InSlot \in Nat /\ Number(down, "accept") \in Nat
           /\ Number(decision, "accept") \in Nat
           /\ Number(decision, "accept") > 0 <=> \E i \in Ids : decision[i] = "accept"
<1>1. IsFiniteSet(Ids) /\ DOMAIN got = Ids /\ DOMAIN decision = Ids
    BY SignalsAssumption, FS_Interval DEF Ids, Typing, HandlersOK, WireOK
<1>2. /\ Number(got, "accept") \in Nat /\ Number(decision, "accept") \in Nat
      /\ Number(decision, "accept") > 0 <=> \E i \in Ids : decision[i] = "accept"
    BY <1>1, NumberNat, Zenon
<1>3. Number(answers, "accept") \in Nat /\ Number(down, "accept") \in Nat
    BY NumberInSeq DEF Typing, CourierOK, WireOK
<1>. QED
    BY <1>1, <1>2, <1>3 DEF InHand, InSlot, Is

LEMMA ConsentInit == Init => ConsentInv
<1>. SUFFICES ASSUME Init PROVE ConsentInv
    OBVIOUS
<1>1. Typing
    BY SignalsTyped
<1>2. ASSUME NEW i \in Ids PROVE Questions(i) = 0
    <2>1. \A t \in Handlers : asking[t] # i
        BY DEF Init, asking, Ids
    <2>2. Number(asking, i) = 0
        <3>1. DOMAIN asking = Handlers /\ IsFiniteSet(Handlers)
            BY SignalsAssumption DEF asking
        <3>2. Number(asking, i) > 0 => \E t \in Handlers : asking[t] = i
            BY <3>1, NumberNat, Zenon
        <3>. QED
            BY <1>1, <2>1, <3>2, QuestionsNatural
    <2>3. Number(requests, i) = 0 /\ Number(up, i) = 0
        BY NumberNone DEF Init
    <2>. QED
        BY <2>2, <2>3 DEF Init, Questions, Sending, Decided
<1>3. AskedOnce
    BY <1>2 DEF AskedOnce, Init
<1>4. Number(got, "accept") = 0
    <2>1. DOMAIN got = Ids /\ IsFiniteSet(Ids) /\ \A i \in Ids : got[i] # "accept"
        BY <1>1, ConsentsNatural DEF Init
    <2>2. Number(got, "accept") > 0 => \E i \in Ids : got[i] = "accept"
        BY <2>1, NumberNat, Zenon
    <2>. QED
        BY <1>1, <2>1, <2>2, ConsentsNatural
<1>5. Number(answers, "accept") = 0 /\ Number(down, "accept") = 0 /\ InHand = 0 /\ InSlot = 0
    BY NumberNone DEF Init, InHand, InSlot
<1>6. NoneMadeUp
    BY <1>1, <1>4, <1>5, ConsentsNatural DEF NoneMadeUp, Consents, Init
<1>. QED
    BY <1>3, <1>6 DEF ConsentInv

-----------------------------------------------------------------------------
\* Each signal is asked about once.

LEMMA AskedStill ==
    ASSUME Typing, AskedOnce, Len(kind') = Len(kind),
           \A i \in Ids : Questions(i)' \in Nat /\ Questions(i)' <= Questions(i),
           courier' # "read" => carrying' <= Len(kind)
    PROVE  AskedOnce'
<1>1. \A i \in Ids : Questions(i) \in Nat
    BY QuestionsNatural DEF Questions
<1>2. /\ Len(kind) \in Nat /\ Len(kind)' = Len(kind)
    BY DEF Typing, HandlersOK
<1>3. ASSUME NEW i \in Ids PROVE Questions(i)' <= IF i <= Len(kind) THEN 1 ELSE 0
    <2>1. Questions(i) <= IF i <= Len(kind) THEN 1 ELSE 0
        BY DEF AskedOnce
    <2>. QED
        BY <1>1, <2>1, SignalsAssumption DEF Ids
<1>. QED
    BY <1>2, <1>3 DEF AskedOnce

\* A step that moves no question.
LEMMA AskedKept ==
    ASSUME Typing, AskedOnce, asking' = asking, Len(kind') = Len(kind),
           UNCHANGED <<requests, up, decision, carrying>>,
           courier' = "send" => courier = "send", courier' # "read" => courier # "read"
    PROVE  AskedOnce'
<1>1. ASSUME NEW i \in Ids
      PROVE  Questions(i)' \in Nat /\ Questions(i)' <= Questions(i)
    <2>1. Number(asking, i)' = Number(asking, i)
        BY DEF Number
    <2>2. /\ Number(requests, i)' = Number(requests, i) /\ Number(up, i)' = Number(up, i)
          /\ Decided(i)' = Decided(i)
        BY DEF Number, Decided
    <2>3. Sending(i)' \in Nat /\ Sending(i)' <= Sending(i)
        BY DEF Sending, Is
    <2>. QED
        BY <2>1, <2>2, <2>3, QuestionsNatural DEF Questions
<1>. QED
    BY <1>1, AskedStill DEF AskedOnce

\* A new signal, about which no question is anywhere.
LEMMA AskedOfDelivery ==
    ASSUME Typing, AskedOnce, NEW t \in Handlers, Deliver(t) \/ DeliverCont(t)
    PROVE  AskedOnce'
<1>. DEFINE n == Len(kind) + 1
<1>1. PICK k \in {"TERM", "INT", "WINCH", "TSTP", "CONT"} : Enters(t, k, "drain")
    BY SignalsAssumption DEF Deliver, DeliverCont
<1>2. /\ n \in 0..Signals /\ n \in Ids /\ Len(kind') = n /\ Len(kind) \in Nat
      /\ n = Len(kind) + 1
    BY <1>1, SignalsAssumption DEF Enters, Typing, HandlersOK, Ids
<1>3. asking' = [asking EXCEPT ![t] = n] /\ asking[t] = 0
    BY <1>1 DEF Enters, Free, asking, Typing, HandlersOK
<1>. HIDE DEF n
<1>4. ASSUME NEW i \in Ids
      PROVE  /\ Questions(i) \in Nat /\ Questions(i)' = Questions(i) + Is(n, i)
    <2>1. /\ Number(asking, i)' \in Nat
          /\ Number(asking, i)' + Is(0, i) = Number(asking, i) + Is(n, i)
        <3>1. /\ IsFiniteSet(DOMAIN asking) /\ DOMAIN asking' = DOMAIN asking /\ t \in DOMAIN asking
              /\ \A other \in DOMAIN asking : other # t => asking'[other] = asking[other]
              /\ asking'[t] = n /\ asking[t] = 0
            BY <1>3, QuestionsNatural
        <3>. QED
            BY <3>1, NumberExcept
    <2>2. Is(0, i) = 0
        BY DEF Is, Ids
    <2>3. /\ Number(requests, i)' = Number(requests, i) /\ Number(up, i)' = Number(up, i)
          /\ Sending(i)' = Sending(i) /\ Decided(i)' = Decided(i)
        BY <1>1 DEF Enters, pipeVars, courierVars, wireVars, Number, Sending, Decided
    <2>4. Is(n, i) \in Nat
        BY DEF Is
    <2>. QED
        BY <2>1, <2>2, <2>3, <2>4, QuestionsNatural DEF Questions
<1>5. ASSUME NEW i \in Ids PROVE Questions(i)' <= IF i <= n THEN 1 ELSE 0
    <2>1. Questions(i) <= IF i <= Len(kind) THEN 1 ELSE 0
        BY DEF AskedOnce
    <2>2. i \in Nat
        BY DEF Ids
    <2>. QED
        BY <1>2, <1>4, <2>1, <2>2 DEF Is
<1>6. courier' # "read" => carrying' <= n
    BY <1>1, <1>2, SignalsAssumption DEF Enters, courierVars, AskedOnce, Typing, CourierOK
<1>. QED
    BY <1>2, <1>5, <1>6 DEF AskedOnce

LEMMA AskedOfHandler ==
    ASSUME Typing, AskedOnce, NEW t \in Handlers, Handler(t) PROVE AskedOnce'
<1>1. CASE HandlerWrites(t)
    <2>0. handler[t] = "write" /\ on[t] \in 1..Len(kind) /\ Len(kind) \in Nat /\ Len(kind) <= Signals
        BY <1>1 DEF HandlerWrites, HandlerGoes, Typing, HandlersOK
    <2>1. /\ on[t] \in Ids
          /\ requests' = Append(requests, on[t]) /\ UNCHANGED <<kind, courierVars, wireVars>>
        BY <1>1, <2>0, SignalsAssumption DEF HandlerWrites, HandlerGoes, Ids
    <2>a. /\ asking[t] = on[t] /\ asking'[t] = 0
          /\ \A other \in Handlers : other # t => asking'[other] = asking[other]
          /\ DOMAIN asking = Handlers /\ DOMAIN asking' = Handlers
        BY <1>1, <2>0 DEF HandlerWrites, HandlerGoes, asking, Typing, HandlersOK
    <2>2. ASSUME NEW i \in Ids
          PROVE  Questions(i)' \in Nat /\ Questions(i)' <= Questions(i)
        <3>1. /\ Number(asking, i)' \in Nat
              /\ Number(asking, i)' + Is(on[t], i) = Number(asking, i) + Is(0, i)
            <4>1. /\ IsFiniteSet(DOMAIN asking) /\ DOMAIN asking' = DOMAIN asking
                  /\ t \in DOMAIN asking
                  /\ \A other \in DOMAIN asking : other # t => asking'[other] = asking[other]
                  /\ asking'[t] = 0 /\ asking[t] = on[t]
                BY <2>a, QuestionsNatural
            <4>. QED
                BY <4>1, NumberExcept
        <3>2. /\ Number(Append(requests, on[t]), i) \in Nat
              /\ Number(Append(requests, on[t]), i) = Number(requests, i) + Is(on[t], i)
            BY <2>1, NumberAppend DEF Typing, CourierOK
        <3>3. Is(0, i) = 0 /\ Number(requests, i)' = Number(Append(requests, on[t]), i)
            BY <2>1 DEF Number, Is, Ids
        <3>4. /\ Number(up, i)' = Number(up, i)
              /\ Sending(i)' = Sending(i) /\ Decided(i)' = Decided(i)
            BY <2>1 DEF courierVars, wireVars, Number, Sending, Decided
        <3>5. Is(on[t], i) \in Nat
            BY DEF Is
        <3>. QED
            BY <3>1, <3>2, <3>3, <3>4, <3>5, QuestionsNatural DEF Questions
    <2>3. courier' # "read" => carrying' <= Len(kind)
        BY <2>1 DEF courierVars, AskedOnce
    <2>4. Len(kind') = Len(kind)
        BY <2>1
    <2>. QED
        BY <2>2, <2>3, <2>4, AskedStill
<1>2. CASE \/ HandlerDrains(t) \/ HandlerReads(t) \/ HandlerGivesUp(t) \/ HandlerActs(t)
           \/ HandlerStops(t)
    <2>1. asking' = asking /\ UNCHANGED <<kind, requests, courierVars, wireVars>>
        BY <1>2 DEF HandlerDrains, HandlerReads, HandlerGivesUp, HandlerActs, HandlerStops,
                    HandlerGoes, asking, Typing, HandlersOK, pipeVars
    <2>. QED
        BY <2>1, AskedKept DEF courierVars, wireVars
<1>. QED
    BY <1>1, <1>2 DEF Handler

LEMMA AskedOfCourier == ASSUME Typing, AskedOnce, Courier PROVE AskedOnce'
<1>0. asking' = asking /\ Len(kind') = Len(kind) /\ UNCHANGED <<down, decision>>
    BY DEF Courier, CourierReads, CourierSends, CourierTakes, CourierGivesUp, CourierFlags,
           CourierAnswers, CourierGoes, handlerVars, asking
<1>a. ASSUME NEW i \in Ids
      PROVE  Number(asking, i)' = Number(asking, i) /\ Decided(i)' = Decided(i)
    BY <1>0 DEF Number, Decided
<1>1. CASE CourierReads
    <2>1. /\ requests # <<>> /\ requests' = Tail(requests) /\ carrying' = Head(requests)
          /\ courier = "read" /\ courier' = "send" /\ up' = up
        BY <1>1 DEF CourierReads, CourierGoes
    <2>2. ASSUME NEW i \in Ids
          PROVE  Questions(i)' \in Nat /\ Questions(i)' <= Questions(i)
        <3>1. /\ Number(Tail(requests), i) \in Nat
              /\ Number(requests, i) = Is(Head(requests), i) + Number(Tail(requests), i)
            BY <2>1, NumberTail DEF Typing, CourierOK
        <3>2. /\ Number(requests, i)' = Number(Tail(requests), i)
              /\ Number(up, i)' = Number(up, i)
              /\ Sending(i) = 0 /\ Sending(i)' = Is(Head(requests), i)
            BY <2>1 DEF Number, Sending, Is
        <3>3. Is(Head(requests), i) \in Nat
            BY DEF Is
        <3>. QED
            BY <1>a, <3>1, <3>2, <3>3, QuestionsNatural DEF Questions
    <2>3. Head(requests) <= Len(kind)
        <3>. DEFINE i == Head(requests)
        <3>1. i \in Ids /\ i \in Nat /\ Len(kind) \in Nat
            BY <2>1, SignalsAssumption DEF Typing, CourierOK, HandlersOK, Ids
        <3>2. Number(requests, i) > 0
            <4>1. 1 \in 1..Len(requests) /\ requests[1] = i
                BY <2>1 DEF Typing, CourierOK
            <4>. QED
                BY <4>1, NumberInSeq DEF Typing, CourierOK
        <3>3. Questions(i) <= IF i <= Len(kind) THEN 1 ELSE 0
            BY <3>1 DEF AskedOnce
        <3>. HIDE DEF i
        <3>4. Questions(i) > 0 /\ Questions(i) \in Nat
            BY <3>2, QuestionsNatural DEF Questions
        <3>5. i <= Len(kind)
            BY <3>1, <3>3, <3>4
        <3>. QED
            BY <3>5 DEF i
    <2>. QED
        BY <1>0, <2>1, <2>2, <2>3, AskedStill
<1>2. CASE CourierSends
    <2>1. /\ courier = "send" /\ courier' # "send" /\ requests' = requests /\ carrying' = carrying
          /\ carrying \in Ids
          /\ up' = up \/ up' = Append(up, carrying)
        BY <1>2 DEF CourierSends, CourierGoes, pipeVars, Typing, CourierOK
    <2>2. ASSUME NEW i \in Ids
          PROVE  Questions(i)' \in Nat /\ Questions(i)' <= Questions(i)
        <3>1. /\ Number(Append(up, carrying), i) \in Nat
              /\ Number(Append(up, carrying), i) = Number(up, i) + Is(carrying, i)
            BY <2>1, NumberAppend DEF Typing, WireOK
        <3>2. /\ Number(requests, i)' = Number(requests, i)
              /\ Sending(i)' = 0 /\ Sending(i) = Is(carrying, i) /\ Is(carrying, i) \in Nat
            BY <2>1 DEF Number, Sending, Is
        <3>3. \/ Number(up, i)' = Number(up, i)
              \/ Number(up, i)' = Number(Append(up, carrying), i)
            BY <2>1 DEF Number
        <3>. QED
            BY <1>a, <3>1, <3>2, <3>3, QuestionsNatural DEF Questions
    <2>3. carrying' <= Len(kind)
        BY <2>1 DEF AskedOnce
    <2>. QED
        BY <1>0, <2>2, <2>3, AskedStill
<1>3. CASE CourierTakes \/ CourierGivesUp \/ CourierFlags \/ CourierAnswers
    <2>1. /\ UNCHANGED <<requests, up, carrying>> /\ courier' # "send"
          /\ courier' # "read" => courier # "read"
        BY <1>3 DEF CourierTakes, CourierGivesUp, CourierFlags, CourierAnswers, CourierGoes, pipeVars
    <2>. QED
        BY <1>0, <2>1, AskedKept
<1>. QED
    BY <1>1, <1>2, <1>3 DEF Courier

\* What the daemon answers it has not decided before.
LEMMA AskedOfDaemon ==
    ASSUME Typing, AskedOnce, DaemonAnswers
    PROVE  AskedOnce' /\ Head(up) \in Ids /\ decision[Head(up)] = "none"
<1>1. /\ up # <<>> /\ Head(up) \in Ids /\ up' = Tail(up) /\ decision \in [Ids -> Answers \cup {"none"}]
      /\ asking' = asking /\ UNCHANGED <<kind, requests, courier, carrying>>
    BY DEF DaemonAnswers, DaemonActs, handlerVars, pipeVars, courierVars, asking, Typing, WireOK
<1>2. PICK a \in Answers : decision' = [decision EXCEPT ![Head(up)] = a]
    BY DEF DaemonAnswers
<1>3. ASSUME NEW i \in Ids
      PROVE  /\ Number(Tail(up), i) \in Nat
             /\ Number(up, i) = Is(Head(up), i) + Number(Tail(up), i)
    BY <1>1, NumberTail DEF Typing, WireOK
<1>4. decision[Head(up)] = "none"
    <2>. DEFINE i == Head(up)
    <2>1. i \in Ids /\ Is(i, i) = 1 /\ Len(kind) \in Nat
        BY <1>1 DEF Is, Typing, HandlersOK
    <2>2. Number(up, i) = Is(i, i) + Number(Tail(up), i) /\ Number(Tail(up), i) \in Nat
        BY <1>1, <1>3
    <2>3. Questions(i) <= 1
        <3>1. Questions(i) <= IF i <= Len(kind) THEN 1 ELSE 0
            BY <2>1 DEF AskedOnce
        <3>2. Questions(i) \in Nat
            BY QuestionsNatural DEF Questions
        <3>. QED
            BY <3>1, <3>2
    <2>. HIDE DEF i
    <2>4. Decided(i) = 0
        BY <2>1, <2>2, <2>3, QuestionsNatural DEF Questions
    <2>5. decision[i] = "none"
        BY <2>4 DEF Decided
    <2>. QED
        BY <2>5 DEF i
<1>5. ASSUME NEW i \in Ids
      PROVE  Questions(i)' \in Nat /\ Questions(i)' <= Questions(i)
    <2>1. /\ Number(asking, i)' = Number(asking, i) /\ Number(requests, i)' = Number(requests, i)
          /\ Number(up, i)' = Number(Tail(up), i) /\ Sending(i)' = Sending(i)
        BY <1>1 DEF Number, Sending
    <2>2. Decided(i)' = Decided(i) + Is(Head(up), i) /\ Is(Head(up), i) \in Nat
        BY <1>1, <1>2, <1>4 DEF Decided, Is, Answers
    <2>. QED
        BY <1>3, <2>1, <2>2, QuestionsNatural DEF Questions
<1>6. courier' # "read" => carrying' <= Len(kind)
    BY <1>1 DEF AskedOnce
<1>7. AskedOnce'
    BY <1>1, <1>5, <1>6, AskedStill
<1>. QED
    BY <1>1, <1>4, <1>7

LEMMA AskedOnceNext == ASSUME Typing, AskedOnce, [Next]_vars PROVE AskedOnce'
<1>1. CASE Reader \/ Monitor \/ Main \/ Continue \/ DrainsEnd \/ DaemonExits \/ UNCHANGED vars
    <2>1. asking' = asking /\ UNCHANGED <<kind, requests, up, decision, courierVars>>
        BY <1>1 DEF Reader, ReadAck, ReadOver, Monitor, MonitorWakes, MonitorCloses, Main, MainGoes,
            MainWaits, MainRestores, MainEnds, MainDies, MainExits, Continue, DrainsEnd,
            DaemonExits, DaemonActs, handlerVars, pipeVars, wireVars, vars, asking
    <2>. QED
        BY <2>1, AskedKept DEF courierVars
<1>. QED
    BY <1>1, AskedOfDelivery, AskedOfHandler, AskedOfCourier, AskedOfDaemon DEF Next, Terminated

-----------------------------------------------------------------------------
\* No consent is made up.

\* A step after which there are no more consents about than before, and no fewer given.
LEMMA ConsentsStill ==
    ASSUME Typing, Typing', NoneMadeUp, kind' = kind \/ \E k : kind' = Append(kind, k),
           Consents' <= Consents,
           Number(decision, "accept")' >= Number(decision, "accept"),
           termination' => termination \/ (/\ \E i \in 1..Len(kind) : kind[i] = "TERM"
                                           /\ Number(decision, "accept") > 0)
    PROVE  NoneMadeUp'
<1>1. Consents \in Nat /\ Number(decision, "accept") \in Nat
    BY ConsentsNatural DEF Consents
<1>2. Consents' \in Nat /\ Number(decision, "accept")' \in Nat
    <2>1. /\ Number(got, "accept")' \in Nat /\ Number(answers, "accept")' \in Nat
          /\ InHand' \in Nat /\ InSlot' \in Nat /\ Number(down, "accept")' \in Nat
          /\ Number(decision, "accept")' \in Nat
        <3>1. DOMAIN got' = Ids /\ DOMAIN decision' = Ids /\ IsFiniteSet(Ids)
            BY ConsentsNatural DEF Typing, HandlersOK, WireOK
        <3>2. IsFiniteSet(DOMAIN got') /\ IsFiniteSet(DOMAIN decision')
            BY <3>1
        <3>3. Number(got', "accept") \in Nat /\ Number(decision', "accept") \in Nat
            BY <3>2, NumberNat, Zenon
        <3>4. Number(answers', "accept") \in Nat /\ Number(down', "accept") \in Nat
            BY NumberInSeq DEF Typing, CourierOK, WireOK
        <3>. QED
            BY <3>3, <3>4 DEF InHand, InSlot, Is
    <2>. QED
        BY <2>1 DEF Consents
<1>3. Consents' <= Number(decision, "accept")'
    BY <1>1, <1>2 DEF NoneMadeUp
<1>4. /\ \A i \in 1..Len(kind) : i \in 1..Len(kind') /\ kind'[i] = kind[i]
    <2>1. kind \in Seq({"TERM", "INT", "WINCH", "TSTP", "CONT"})
        BY DEF Typing, HandlersOK
    <2>. QED
        BY <2>1
<1>. QED
    BY <1>1, <1>2, <1>3, <1>4 DEF NoneMadeUp

LEMMA ConsentsKept ==
    ASSUME Typing, Typing', NoneMadeUp, kind' = kind \/ \E k : kind' = Append(kind, k),
           UNCHANGED <<got, courierVars, answer, wireVars>>,
           answers' = answers \/ answers' = <<>>, termination' => termination
    PROVE  NoneMadeUp'
<1>1. /\ Number(got, "accept")' = Number(got, "accept") /\ InHand' = InHand /\ InSlot' = InSlot
      /\ Number(down, "accept")' = Number(down, "accept")
      /\ Number(decision, "accept")' = Number(decision, "accept")
    BY DEF courierVars, wireVars, Number, InHand, InSlot
<1>2. Number(answers, "accept")' \in {Number(answers, "accept"), 0}
    BY NumberNone DEF Number
<1>3. Consents' <= Consents /\ Number(decision, "accept")' >= Number(decision, "accept")
    BY <1>1, <1>2, ConsentsNatural DEF Consents
<1>. QED
    BY <1>3, ConsentsStill

\* What a handler takes it takes out of the pipe, and a wait given up is no consent.
LEMMA HandlerMakesNoneUp ==
    ASSUME Typing, Typing', NoneMadeUp, NEW t \in Handlers, Handler(t) PROVE NoneMadeUp'
<1>1. CASE HandlerReads(t) \/ HandlerGivesUp(t)
    <2>0. handler[t] = "poll" /\ on[t] \in 1..Len(kind) /\ Len(kind) \in Nat /\ Len(kind) <= Signals
        BY <1>1 DEF HandlerReads, HandlerGivesUp, HandlerGoes, Typing, HandlersOK
    <2>1. PICK x : got' = [got EXCEPT ![on[t]] = x] /\ HandlerGoes(t, "poll", "act")
                   /\ \/ answers # <<>> /\ x = Head(answers) /\ answers' = Tail(answers)
                      \/ answers' = answers /\ x = "timeout"
                   /\ UNCHANGED termination
        BY <1>1 DEF HandlerReads, HandlerGivesUp, pipeVars, endVars
    <2>2. /\ Number(got, "accept")' \in Nat
          /\ Number(got, "accept")' + Is(got[on[t]], "accept") = Number(got, "accept") + Is(x, "accept")
        <3>1. /\ IsFiniteSet(DOMAIN got) /\ DOMAIN got' = DOMAIN got /\ on[t] \in DOMAIN got
              /\ \A other \in DOMAIN got : other # on[t] => got'[other] = got[other]
              /\ got'[on[t]] = x
            BY <2>0, <2>1, ConsentsNatural, SignalsAssumption DEF Typing, HandlersOK, Ids
        <3>. QED
            BY <3>1, NumberExcept
    <2>3. /\ Number(answers, "accept")' \in Nat
          /\ Number(answers, "accept")' + Is(x, "accept") = Number(answers, "accept")
        <3>1. CASE answers # <<>> /\ x = Head(answers) /\ answers' = Tail(answers)
            <4>1. /\ Number(Tail(answers), "accept") \in Nat
                  /\ Number(answers, "accept") = Is(x, "accept") + Number(Tail(answers), "accept")
                BY <3>1, NumberTail DEF Typing, CourierOK
            <4>2. Number(answers, "accept")' = Number(Tail(answers), "accept")
                BY <3>1 DEF Number
            <4>3. Is(x, "accept") \in Nat
                BY DEF Is
            <4>. QED
                BY <4>1, <4>2, <4>3
        <3>2. CASE answers' = answers /\ x = "timeout"
            BY <3>2, ConsentsNatural DEF Is, Number
        <3>. QED
            BY <2>1, <3>1, <3>2
    <2>4. /\ InHand' = InHand /\ InSlot' = InSlot /\ Number(down, "accept")' = Number(down, "accept")
          /\ Number(decision, "accept")' = Number(decision, "accept")
          /\ kind' = kind
        BY <2>1 DEF HandlerGoes, courierVars, wireVars, Number, InHand, InSlot
    <2>5. Is(x, "accept") \in Nat /\ Is(got[on[t]], "accept") \in Nat
        BY DEF Is
    <2>6. Consents' <= Consents /\ Number(decision, "accept")' >= Number(decision, "accept")
        BY <2>2, <2>3, <2>4, <2>5, ConsentsNatural DEF Consents
    <2>. QED
        BY <2>1, <2>4, <2>6, ConsentsStill
<1>2. CASE HandlerDrains(t) \/ HandlerWrites(t) \/ HandlerActs(t) \/ HandlerStops(t)
    <2>1. /\ UNCHANGED <<kind, got, courierVars, answer, wireVars, termination>>
          /\ answers' = answers \/ answers' = <<>>
        BY <1>2 DEF HandlerDrains, HandlerWrites, HandlerActs, HandlerStops, HandlerGoes, pipeVars,
                    endVars
    <2>. QED
        BY <2>1, ConsentsKept
<1>. QED
    BY <1>1, <1>2 DEF Handler

\* What the courier answers is what it took from the slot, which it empties before it asks.
LEMMA CourierMakesNoneUp ==
    ASSUME Typing, Typing', AskedOnce, NoneMadeUp, Courier PROVE NoneMadeUp'
<1>0. UNCHANGED <<kind, got, down, decision>>
    BY DEF Courier, CourierReads, CourierSends, CourierTakes, CourierGivesUp, CourierFlags,
           CourierAnswers, CourierGoes, handlerVars
<1>1. /\ Number(got, "accept")' = Number(got, "accept")
      /\ Number(down, "accept")' = Number(down, "accept")
      /\ Number(decision, "accept")' = Number(decision, "accept")
    BY <1>0 DEF Number
<1>2. CASE CourierAnswers
    <2>1. /\ result \in Answers /\ answers' = Append(answers, result) /\ courier = "answer"
          /\ courier' = "read" /\ UNCHANGED termination
        BY <1>2 DEF CourierAnswers, CourierGoes, Typing, CourierOK
    <2>2. Number(Append(answers, result), "accept") = Number(answers, "accept") + Is(result, "accept")
        BY <2>1, NumberAppend DEF Typing, CourierOK
    <2>3. /\ Number(answers, "accept")' = Number(Append(answers, result), "accept")
          /\ InHand = Is(result, "accept") /\ InHand' = 0 /\ InSlot = 0 /\ InSlot' = 0
        BY <2>1 DEF Number, InHand, InSlot
    <2>4. Consents' <= Consents /\ Number(decision, "accept")' >= Number(decision, "accept")
        BY <1>1, <2>2, <2>3, ConsentsNatural DEF Consents
    <2>. QED
        BY <1>0, <2>1, <2>4, ConsentsStill
<1>3. CASE CourierReads \/ CourierSends \/ CourierTakes \/ CourierGivesUp \/ CourierFlags
    <2>1. answers' = answers
        BY <1>3 DEF CourierReads, CourierSends, CourierTakes, CourierGivesUp, CourierFlags, pipeVars
    <2>2. InHand' + InSlot' <= InHand + InSlot
        <3>1. CASE CourierReads
            BY <3>1 DEF CourierReads, CourierGoes, InHand, InSlot, Is
        <3>2. CASE CourierSends
            BY <3>2 DEF CourierSends, CourierGoes, InHand, InSlot, Is
        <3>3. CASE CourierTakes \/ CourierGivesUp
            BY <3>3 DEF CourierTakes, CourierGivesUp, CourierGoes, InHand, InSlot, Is
        <3>4. CASE CourierFlags
            BY <3>4 DEF CourierFlags, CourierGoes, InHand, InSlot, Is
        <3>. QED
            BY <1>3, <3>1, <3>2, <3>3, <3>4
    <2>3. InHand' \in Nat /\ InSlot' \in Nat
        BY DEF InHand, InSlot, Is
    <2>4. Number(answers, "accept")' = Number(answers, "accept")
        BY <2>1 DEF Number
    <2>5. Consents' <= Consents /\ Number(decision, "accept")' >= Number(decision, "accept")
        BY <1>1, <2>2, <2>3, <2>4, ConsentsNatural DEF Consents
    <2>6. termination' => termination \/ (/\ \E i \in 1..Len(kind) : kind[i] = "TERM"
                                          /\ Number(decision, "accept") > 0)
        <3>1. CASE CourierFlags
            <4>1. /\ courier = "flag" /\ carrying \in Ids /\ carrying <= Len(kind)
                  /\ Len(kind) \in Nat
                  /\ termination' = (termination \/ (kind[carrying] = "TERM" /\ result = "accept"))
                BY <3>1 DEF CourierFlags, CourierGoes, AskedOnce, Typing, HandlersOK, CourierOK
            <4>2. carrying \in 1..Len(kind)
                BY <4>1, SignalsAssumption DEF Ids
            <4>3. result = "accept" => InHand = 1
                BY <4>1 DEF InHand, Is
            <4>4. result = "accept" => Number(decision, "accept") > 0
                BY <4>3, ConsentsNatural DEF NoneMadeUp, Consents
            <4>. QED
                BY <4>1, <4>2, <4>4
        <3>2. CASE CourierReads \/ CourierSends \/ CourierTakes \/ CourierGivesUp
            BY <3>2 DEF CourierReads, CourierSends, CourierTakes, CourierGivesUp
        <3>. QED
            BY <1>3, <3>1, <3>2
    <2>. QED
        BY <1>0, <2>5, <2>6, ConsentsStill
<1>. QED
    BY <1>2, <1>3 DEF Courier

LEMMA ReaderMakesNoneUp ==
    ASSUME Typing, Typing', NoneMadeUp, ReadAck PROVE NoneMadeUp'
<1>1. /\ down # <<>> /\ down' = Tail(down) /\ answer' = Head(down)
      /\ UNCHANGED <<kind, got, answers, courierVars, decision, termination>>
    BY DEF ReadAck, handlerVars, pipeVars, endVars
<1>2. /\ Number(Tail(down), "accept") \in Nat
      /\ Number(down, "accept") = Is(Head(down), "accept") + Number(Tail(down), "accept")
    BY <1>1, NumberTail DEF Typing, WireOK
<1>3. /\ Number(got, "accept")' = Number(got, "accept")
      /\ Number(answers, "accept")' = Number(answers, "accept")
      /\ Number(decision, "accept")' = Number(decision, "accept")
      /\ Number(down, "accept")' = Number(Tail(down), "accept") /\ InHand' = InHand
    BY <1>1 DEF Number, courierVars, InHand
<1>4. InSlot' <= Is(Head(down), "accept") /\ InSlot' \in Nat /\ Is(Head(down), "accept") \in Nat
    BY <1>1 DEF InSlot, courierVars, Is
<1>5. Consents' <= Consents /\ Number(decision, "accept")' >= Number(decision, "accept")
    BY <1>2, <1>3, <1>4, ConsentsNatural DEF Consents
<1>. QED
    BY <1>1, <1>5, ConsentsStill

\* A consent that the daemon sends is one that it gives.
LEMMA DaemonMakesNoneUp ==
    ASSUME Typing, Typing', AskedOnce, NoneMadeUp, DaemonAnswers PROVE NoneMadeUp'
<1>1. PICK a \in Answers : /\ decision' = [decision EXCEPT ![Head(up)] = a]
                           /\ down' = Append(down, a)
    BY DEF DaemonAnswers
<1>2. UNCHANGED <<kind, got, answers, courierVars, answer, termination>>
    BY DEF DaemonAnswers, DaemonActs, handlerVars, pipeVars, endVars
<1>3. Number(Append(down, a), "accept") = Number(down, "accept") + Is(a, "accept")
    BY NumberAppend DEF Typing, WireOK
<1>4. /\ Number(decision, "accept")' \in Nat
      /\ Number(decision, "accept")' = Number(decision, "accept") + Is(a, "accept")
    <2>1. /\ IsFiniteSet(DOMAIN decision) /\ DOMAIN decision' = DOMAIN decision
          /\ Head(up) \in DOMAIN decision
          /\ \A other \in DOMAIN decision : other # Head(up) => decision'[other] = decision[other]
          /\ decision'[Head(up)] = a /\ Is(decision[Head(up)], "accept") = 0
        BY <1>1, AskedOfDaemon, ConsentsNatural DEF Typing, WireOK, Is
    <2>2. /\ Number(decision', "accept") \in Nat
          /\ Number(decision', "accept") + Is(decision[Head(up)], "accept")
                = Number(decision, "accept") + Is(decision'[Head(up)], "accept")
        BY <2>1, NumberExcept
    <2>3. Number(decision, "accept")' = Number(decision', "accept")
        OBVIOUS
    <2>. QED
        BY <2>1, <2>2, <2>3
<1>5. /\ Number(got, "accept")' = Number(got, "accept")
      /\ Number(answers, "accept")' = Number(answers, "accept")
      /\ Number(down, "accept")' = Number(Append(down, a), "accept")
      /\ InHand' = InHand /\ InSlot' = InSlot
    BY <1>1, <1>2 DEF Number, courierVars, InHand, InSlot
<1>6. Is(a, "accept") \in Nat
    BY DEF Is
<1>7. Consents' = Consents + Is(a, "accept") /\ Consents \in Nat
    BY <1>3, <1>5, <1>6, ConsentsNatural DEF Consents
<1>. QED
    BY <1>2, <1>4, <1>6, <1>7, ConsentsNatural DEF NoneMadeUp

LEMMA ExitMakesNoneUp ==
    ASSUME Typing, Typing', NoneMadeUp, DaemonExits PROVE NoneMadeUp'
<1>1. /\ down' = Append(down, "exit")
      /\ UNCHANGED <<kind, got, answers, courierVars, answer, decision, termination>>
    BY DEF DaemonExits, DaemonActs, handlerVars, pipeVars, endVars
<1>2. Number(Append(down, "exit"), "accept") = Number(down, "accept") + Is("exit", "accept")
    <2>1. down \in Seq(Answers \cup {"exit"}) /\ "exit" \in Answers \cup {"exit"}
        BY DEF Typing, WireOK
    <2>. QED
        BY <2>1, NumberAppend
<1>3. /\ Number(got, "accept")' = Number(got, "accept")
      /\ Number(answers, "accept")' = Number(answers, "accept")
      /\ Number(down, "accept")' = Number(Append(down, "exit"), "accept")
      /\ Number(decision, "accept")' = Number(decision, "accept")
      /\ InHand' = InHand /\ InSlot' = InSlot /\ Is("exit", "accept") = 0
    BY <1>1 DEF Number, courierVars, InHand, InSlot, Is
<1>4. Consents' <= Consents /\ Number(decision, "accept")' >= Number(decision, "accept")
    BY <1>2, <1>3, ConsentsNatural DEF Consents
<1>. QED
    BY <1>1, <1>4, ConsentsStill

LEMMA ConsentNext ==
    ASSUME Typing, Typing', ConsentInv, [Next]_vars PROVE ConsentInv'
<1>0. AskedOnce /\ NoneMadeUp
    BY DEF ConsentInv
<1>1. ASSUME NEW t \in Handlers, Deliver(t) \/ DeliverCont(t) PROVE NoneMadeUp'
    <2>1. PICK k : Enters(t, k, "drain")
        BY <1>1 DEF Deliver, DeliverCont
    <2>2. /\ kind' = Append(kind, k)
          /\ UNCHANGED <<got, answers, courierVars, answer, wireVars, termination>>
        BY <1>1, <2>1 DEF Enters, pipeVars, Deliver, DeliverCont, endVars
    <2>. QED
        BY <1>0, <2>2, ConsentsKept
<1>2. ASSUME ReadOver \/ Monitor \/ Main \/ Continue \/ DrainsEnd \/ UNCHANGED vars
      PROVE  NoneMadeUp'
    <2>1. UNCHANGED <<kind, got, answers, courierVars, answer, wireVars, termination>>
        BY <1>2 DEF ReadOver, Monitor, MonitorWakes, MonitorCloses, Main, MainGoes, MainWaits,
            MainRestores, MainEnds, MainDies, MainExits, Continue, DrainsEnd, handlerVars, pipeVars,
            endVars, vars
    <2>. QED
        BY <1>0, <2>1, ConsentsKept
<1>. QED
    BY <1>0, <1>1, <1>2, AskedOnceNext, HandlerMakesNoneUp, CourierMakesNoneUp, ReaderMakesNoneUp,
       DaemonMakesNoneUp, ExitMakesNoneUp DEF ConsentInv, Next, Reader, Terminated

\* launcher.md, Signals, of any number of handlers, and however late an answer is: a late answer
\* may go to another signal than its own (OwnAnswer, that the code does not have), but none is
\* heeded that the daemon did not give, or twice.  A termination is flagged only when one was
\* delivered and something accepted, and the daemon is asked about no signal again.
ConsentsAreGiven ==
    /\ Number(got, "accept") <= Number(decision, "accept")
    /\ termination =>
         /\ \E i \in 1..Len(kind) : kind[i] = "TERM"
         /\ \E i \in Ids : decision[i] = "accept"
    /\ \A i \in Ids : Number(up, i) <= IF decision[i] = "none" THEN 1 ELSE 0

\* No consent is made up, or spent twice, by the pipes and the slot between a handler and the daemon
\* (signals.rs:107-157, session.rs:333-375).
THEOREM NoConsentIsMadeUp == Spec => []ConsentsAreGiven
<1>1. ASSUME Typing, ConsentInv PROVE ConsentsAreGiven
    <2>1. ASSUME NEW i \in Ids PROVE Number(up, i) <= IF decision[i] = "none" THEN 1 ELSE 0
        <3>1. Questions(i) <= IF i <= Len(kind) THEN 1 ELSE 0
            BY <1>1 DEF ConsentInv, AskedOnce
        <3>2. Number(up, i) + Decided(i) <= Questions(i) /\ Questions(i) \in Nat
            BY <1>1, QuestionsNatural DEF Questions
        <3>3. Number(up, i) + Decided(i) <= 1
            BY <1>1, <3>1, <3>2, QuestionsNatural
        <3>. QED
            BY <1>1, <3>3, QuestionsNatural DEF Decided
    <2>2. Number(got, "accept") <= Number(decision, "accept")
        BY <1>1, ConsentsNatural DEF ConsentInv, NoneMadeUp, Consents
    <2>. QED
        BY <1>1, <2>1, <2>2, ConsentsNatural DEF ConsentsAreGiven, ConsentInv, NoneMadeUp
<1>2. ASSUME Typing, Typing', ConsentInv, [Next]_vars PROVE ConsentInv'
    BY <1>2, ConsentNext
<1>. QED
    BY <1>1, <1>2, ConsentInit, SignalsTyped, SignalsStayTyped, PTL DEF Spec

-----------------------------------------------------------------------------
(* The choice of a composition, for any chain and any layers that a daemon *)
(* may hold: a name is a beginning of a hash, and no hash of another's     *)
(* begins as one of the chain's does.                                      *)

LEMMA PrefixMeans ==
    ASSUME NEW S, NEW s \in Seq(S), NEW t \in Seq(S)
    PROVE  IsPrefix(s, t) <=> Len(s) <= Len(t) /\ \A i \in 1..Len(s) : s[i] = t[i]
<1>1. SubSeq(s, 1, Len(s)) = s
    OBVIOUS
<1>2. ASSUME Len(s) <= Len(t) PROVE SubSeq(t, 1, Len(s)) = s <=> \A i \in 1..Len(s) : s[i] = t[i]
    <2>1. /\ SubSeq(t, 1, Len(s)) \in Seq(S) /\ Len(SubSeq(t, 1, Len(s))) = Len(s)
          /\ \A i \in 1..Len(s) : SubSeq(t, 1, Len(s))[i] = t[i]
        BY <1>2
    <2>. QED
        BY <2>1
<1>. QED
    BY <1>1, <1>2 DEF IsPrefix

LEMMA CutMeans ==
    ASSUME NEW S, NEW s \in Seq(S), NEW n \in 0..Len(s)
    PROVE  /\ SubSeq(s, 1, n) \in Seq(S) /\ Len(SubSeq(s, 1, n)) = n
           /\ \A i \in 1..n : SubSeq(s, 1, n)[i] = s[i]
OBVIOUS

\* What the launcher holds, and what it does not, are told apart.
LEMMA ChainIs ==
    /\ chain \in Seq(Seq(Nat)) /\ Len(chain) \in Nat /\ Len(chain) >= 1 /\ DOMAIN chain = 1..Len(chain)
    /\ \A i \in 1..Len(chain) : chain[i] \in Seq(Nat) /\ chain[i] \in ToSet(chain)
    /\ \A i, j \in 1..Len(chain) : chain[i] = chain[j] => i = j
    /\ \A h \in ToSet(chain) : \E i \in 1..Len(chain) : h = chain[i]
    /\ HASH \in Nat /\ SHORTEST \in 1..HASH
    /\ \A h \in Hashes : h \in Seq(Nat) /\ Len(h) = HASH
<1>1. chain \in Seq(Seq(Nat)) /\ Len(chain) \in Nat /\ DOMAIN chain = 1..Len(chain)
    BY AcceptanceAssumption
<1>2. \A h \in ToSet(chain) : \E i \in 1..Len(chain) : h = chain[i]
    BY <1>1 DEF ToSet
<1>3. \A i \in 1..Len(chain) : chain[i] \in Seq(Nat) /\ chain[i] \in ToSet(chain)
    <2>1. \A i \in 1..Len(chain) : chain[i] \in Seq(Nat)
        BY <1>1
    <2>2. \A i \in DOMAIN chain : chain[i] \in ToSet(chain)
        BY DEF ToSet
    <2>. QED
        BY <1>1, <2>1, <2>2
<1>4. \A i, j \in 1..Len(chain) : chain[i] = chain[j] => i = j
    BY <1>1, AcceptanceAssumption DEF IsInjective
<1>5. \A h \in Hashes : h \in Seq(Nat) /\ Len(h) = HASH
    BY <1>2, <1>3, AcceptanceAssumption DEF Hashes
<1>. QED
    BY <1>1, <1>2, <1>3, <1>4, <1>5, AcceptanceAssumption

LEMMA ForeignIsNone ==
    /\ \A i \in 1..Len(chain) : chain[i] # Foreign
    /\ \A h \in Newer, i \in 1..Len(chain), n \in SHORTEST..HASH : ~IsPrefix(SubSeq(h, 1, n), chain[i])
<1>1. ASSUME NEW h \in Newer \cup {Foreign}, NEW i \in 1..Len(chain), NEW n \in SHORTEST..HASH,
             IsPrefix(SubSeq(h, 1, n), chain[i])
      PROVE  FALSE
    <2>1. h \in Seq(Nat) /\ Len(h) = HASH /\ chain[i] \in Seq(Nat) /\ Len(chain[i]) = HASH
        BY ChainIs DEF Hashes
    <2> DEFINE cut == SubSeq(h, 1, n)
    <2>2. n \in 0..HASH /\ HASH \in Nat
        BY ChainIs
    <2>3. cut \in Seq(Nat) /\ Len(cut) = n /\ \A k \in 1..n : cut[k] = h[k]
        BY <2>1, <2>2, CutMeans
    <2>4. IsPrefix(cut, chain[i])
        BY <1>1
    <2>. HIDE DEF cut
    <2>5. \A k \in 1..Len(cut) : cut[k] = chain[i][k]
        <3>1. cut \in Seq(Nat) /\ chain[i] \in Seq(Nat)
            BY <2>1, <2>3
        <3>. HIDE DEF cut
        <3>2. IsPrefix(cut, chain[i]) <=>
                Len(cut) <= Len(chain[i]) /\ \A k \in 1..Len(cut) : cut[k] = chain[i][k]
            BY <3>1, PrefixMeans
        <3>. QED
            BY <2>4, <3>2
    <2>6. \A k \in 1..n : h[k] = chain[i][k]
        BY <2>3, <2>5
    <2>7. SHORTEST \in 0..HASH /\ \A k \in 1..SHORTEST : k \in 1..n
        BY ChainIs
    <2>8. SubSeq(h, 1, SHORTEST) = SubSeq(chain[i], 1, SHORTEST)
        <3>0. /\ h \in Seq(Nat) /\ SHORTEST \in 0..Len(h)
              /\ chain[i] \in Seq(Nat) /\ SHORTEST \in 0..Len(chain[i])
            BY <2>1, <2>7
        <3>1. /\ SubSeq(h, 1, SHORTEST) \in Seq(Nat) /\ Len(SubSeq(h, 1, SHORTEST)) = SHORTEST
              /\ \A k \in 1..SHORTEST : SubSeq(h, 1, SHORTEST)[k] = h[k]
            BY <3>0, CutMeans
        <3>2. /\ SubSeq(chain[i], 1, SHORTEST) \in Seq(Nat) /\ Len(SubSeq(chain[i], 1, SHORTEST)) = SHORTEST
              /\ \A k \in 1..SHORTEST : SubSeq(chain[i], 1, SHORTEST)[k] = chain[i][k]
            BY <3>0, CutMeans
        <3>. QED
            BY <2>6, <2>7, <3>1, <3>2
    <2>. QED
        BY <2>8, ChainIs, AcceptanceAssumption
<1>2. ASSUME NEW i \in 1..Len(chain), chain[i] = Foreign PROVE FALSE
    <2>0. Foreign \in Seq(Nat) /\ Len(Foreign) = HASH /\ HASH \in SHORTEST..HASH
        BY ChainIs DEF Hashes
    <2>1. SubSeq(Foreign, 1, HASH) = Foreign
        BY <2>0
    <2>2. IsPrefix(Foreign, Foreign)
        BY <2>0, PrefixMeans
    <2>. QED
        BY <1>1, <1>2, <2>0, <2>1, <2>2
<1>. QED
    BY <1>1, <1>2

\* The alternative a daemon means comes last.
Offered == published[Len(published)]

Requirement(schema) ==
    /\ schema \in Seq(Seq(Nat)) /\ Len(schema) >= 1
    /\ reads.requires = schema

Naming(components) ==
    \E name \in [reads.holds -> SHORTEST..HASH] :
        components = {SubSeq(h, 1, name[h]) : h \in reads.holds \ ToSet(reads.requires)}

Offers ==
    /\ Len(published) \in Nat /\ DOMAIN published = 1..Len(published)
    /\ published # <<>> =>
         /\ Len(published) >= 1
         /\ \A n \in 1..(Len(published) - 1) : ~Servable(published[n])
         /\ Requirement(Offered.schema) /\ Naming(Offered.components)
         /\ reads.holds \subseteq Layers
         /\ Offered.any_published => reads.holds = Layers

\* The layers of what the daemon requires are the first of the chain, if it can be served.
LEMMA RequiredFirst ==
    ASSUME NEW schema \in Seq(Seq(Nat)), IsPrefix(schema, chain)
    PROVE  /\ Len(schema) <= Len(chain) /\ Len(schema) \in Nat
           /\ \A i \in 1..Len(schema) : schema[i] = chain[i]
           /\ \A i \in (Len(schema) + 1)..Len(chain) : chain[i] \notin ToSet(schema)
<1>1. IsPrefix(schema, chain) <=>
        Len(schema) <= Len(chain) /\ \A i \in 1..Len(schema) : schema[i] = chain[i]
    BY ChainIs, PrefixMeans
<1>2. DOMAIN schema = 1..Len(schema) /\ Len(schema) \in Nat
    OBVIOUS
<1>3. ASSUME NEW i \in (Len(schema) + 1)..Len(chain), chain[i] \in ToSet(schema) PROVE FALSE
    <2>1. PICK j \in 1..Len(schema) : chain[i] = schema[j]
        BY <1>2, <1>3 DEF ToSet
    <2>2. chain[i] = chain[j] /\ i \in 1..Len(chain) /\ j \in 1..Len(chain) /\ i # j
        BY <1>1, <1>2, <2>1, ChainIs
    <2>. QED
        BY <2>2, ChainIs
<1>. QED
    BY <1>1, <1>2, <1>3

\* A beginning of a hash of the launcher's is one.
LEMMA CutBegins ==
    ASSUME NEW i \in 1..Len(chain), NEW n \in SHORTEST..HASH
    PROVE  IsPrefix(SubSeq(chain[i], 1, n), chain[i])
<1>1. chain[i] \in Seq(Nat) /\ Len(chain[i]) = HASH /\ n \in 0..HASH
    BY ChainIs DEF Hashes
<1>2. /\ SubSeq(chain[i], 1, n) \in Seq(Nat) /\ Len(SubSeq(chain[i], 1, n)) = n
      /\ \A k \in 1..n : SubSeq(chain[i], 1, n)[k] = chain[i][k]
    BY <1>1, CutMeans
<1>3. n <= HASH
    BY ChainIs
<1>. DEFINE cut == SubSeq(chain[i], 1, n)
<1>4. cut \in Seq(Nat) /\ Len(cut) = n /\ \A k \in 1..n : cut[k] = chain[i][k]
    BY <1>2
<1>. HIDE DEF cut
<1>5. IsPrefix(cut, chain[i]) <=>
        Len(cut) <= Len(chain[i]) /\ \A k \in 1..Len(cut) : cut[k] = chain[i][k]
    BY <1>1, <1>4, PrefixMeans
<1>6. IsPrefix(cut, chain[i])
    BY <1>1, <1>3, <1>4, <1>5
<1>. QED
    BY <1>6 DEF cut

\* A layer beyond what is required is named only if it is held,
LEMMA NamedIsHeld ==
    ASSUME Offers, published # <<>>, Servable(Offered),
           NEW i \in (Len(Offered.schema) + 1)..Len(chain), Named(Offered, i)
    PROVE  chain[i] \in reads.holds
<1>1. i \in 1..Len(chain) /\ chain[i] \in Layers
    <2>1. Len(Offered.schema) \in Nat /\ Len(Offered.schema) >= 1
        BY DEF Offers, Requirement
    <2>2. i \in 1..Len(chain) /\ i # 1 /\ 1 \in 1..Len(chain)
        BY <2>1, ChainIs
    <2>3. chain[i] \in ToSet(chain) /\ chain[i] # chain[1]
        BY <2>2, ChainIs
    <2>. QED
        BY <2>2, <2>3 DEF Layers
<1>2. CASE Offered.any_published
    BY <1>1, <1>2 DEF Offers
<1>3. ASSUME NEW c \in Offered.components, Denotes(c, i) PROVE chain[i] \in reads.holds
    <2>1. PICK name \in [reads.holds -> SHORTEST..HASH] :
            Offered.components = {SubSeq(h, 1, name[h]) : h \in reads.holds \ ToSet(reads.requires)}
        BY DEF Offers, Naming
    <2>2. PICK h \in reads.holds : c = SubSeq(h, 1, name[h]) /\ name[h] \in SHORTEST..HASH
        BY <1>3, <2>1
    <2>3. \A other \in 1..Len(chain) : IsPrefix(c, chain[other]) <=> other = i
        BY <1>1, <1>3, ChainIs DEF Denotes
    <2>4. h \notin Newer
        BY <1>1, <2>2, <2>3, ForeignIsNone
    <2>5. PICK k \in 1..Len(chain) : h = chain[k]
        BY <2>2, <2>4, ChainIs DEF Offers, Layers
    <2>6. k = i
        BY <2>2, <2>3, <2>5, CutBegins
    <2>. QED
        BY <2>2, <2>5, <2>6
<1>. QED
    BY <1>2, <1>3 DEF Named

\* and one that is held is named, or its name is ambiguous.
LEMMA HeldIsNamed ==
    ASSUME Offers, published # <<>>, Servable(Offered),
           NEW i \in (Len(Offered.schema) + 1)..Len(chain), chain[i] \in reads.holds, ~Ambiguous
    PROVE  Named(Offered, i)
<1>1. i \in 1..Len(chain)
    BY ChainIs DEF Offers, Requirement
<1>2. chain[i] \notin ToSet(reads.requires)
    BY RequiredFirst DEF Offers, Requirement, Servable
<1>3. PICK name \in [reads.holds -> SHORTEST..HASH] :
        Offered.components = {SubSeq(h, 1, name[h]) : h \in reads.holds \ ToSet(reads.requires)}
    BY DEF Offers, Naming
<1>. DEFINE c == SubSeq(chain[i], 1, name[chain[i]])
<1>4. c \in Offered.components /\ name[chain[i]] \in SHORTEST..HASH
    BY <1>2, <1>3
<1>5. IsPrefix(c, chain[i])
    BY <1>1, <1>4, CutBegins
<1>. HIDE DEF c
<1>7. \A other \in DOMAIN chain : IsPrefix(c, chain[other]) => other = i
    <2>. SUFFICES ASSUME NEW other \in DOMAIN chain, IsPrefix(c, chain[other]), other # i
                  PROVE  Ambiguous
        OBVIOUS
    <2>1. Len(published) \in DOMAIN published
        BY DEF Offers
    <2>2. i \in DOMAIN chain /\ c \in published[Len(published)].components
        BY <1>1, <1>4, ChainIs DEF Offered
    <2>. QED
        BY <1>5, <2>1, <2>2, Zenon DEF Ambiguous
<1>8. Denotes(c, i)
    BY <1>1, <1>5, <1>7, ChainIs DEF Denotes
<1>. QED
    BY <1>4, <1>8 DEF Named

\* Where the choice is.
Chooses ==
    /\ choosing \in {"down", "up", "trying", "extending", "chosen", "mismatch"}
    /\ choosing \in {"trying", "extending", "mismatch"} => published # <<>>
    /\ choosing \in {"trying", "mismatch"} =>
         /\ trying \in Nat /\ trying >= 1
         /\ \A n \in 1..Len(published) : n < trying => ~Servable(published[n])
    /\ choosing = "mismatch" => trying > Len(published)
    /\ choosing = "extending" =>
         /\ trying = Len(published) /\ Servable(Offered)
         /\ depth \in Len(Offered.schema)..Len(chain) /\ ReadsDepth(depth)
    /\ choosing = "chosen" /\ published # <<>> =>
         /\ ReadsDepth(depth)
         /\ ~Ambiguous => \A n \in (depth + 1)..Len(chain) : ~ReadsDepth(n)

ChoiceInv == (choosing # "down" => Offers) /\ Chooses

\* A composition the daemon reads is extended by what it holds.
LEMMA DepthMeans ==
    ASSUME Offers, published # <<>>, Servable(Offered), NEW n \in 0..Len(chain)
    PROVE  ReadsDepth(n) <=>
             /\ n >= Len(Offered.schema)
             /\ \A layer \in (Len(Offered.schema) + 1)..n : chain[layer] \in reads.holds
<1>1. /\ Offered.schema \in Seq(Seq(Nat)) /\ reads.requires = Offered.schema
      /\ IsPrefix(Offered.schema, chain) /\ Len(Offered.schema) \in Nat
    BY DEF Offers, Requirement, Servable
<1>. DEFINE r == Offered.schema
            cut == SubSeq(chain, 1, n)
<1>2. cut \in Seq(Seq(Nat)) /\ Len(cut) = n /\ \A i \in 1..n : cut[i] = chain[i]
    BY ChainIs, CutMeans
<1>3. Len(r) <= Len(chain) /\ \A i \in 1..Len(r) : r[i] = chain[i]
    BY <1>1, RequiredFirst
<1>4. r \in Seq(Seq(Nat)) /\ Len(r) \in Nat
    BY <1>1
<1>. HIDE DEF r, cut
<1>5. IsPrefix(r, cut) <=> Len(r) <= Len(cut) /\ \A i \in 1..Len(r) : r[i] = cut[i]
    BY <1>2, <1>4, PrefixMeans
<1>6. IsPrefix(r, cut) <=> n >= Len(r)
    <2>1. n \in Nat
        BY ChainIs
    <2>2. ASSUME n >= Len(r) PROVE \A i \in 1..Len(r) : r[i] = cut[i]
        <3>1. \A i \in 1..Len(r) : i \in 1..n
            BY <1>4, <2>1, <2>2
        <3>. QED
            BY <1>2, <1>3, <3>1 DEF r
    <2>. QED
        BY <1>2, <1>4, <1>5, <2>1, <2>2
<1>. QED
    BY <1>1, <1>6 DEF ReadsDepth, r, cut

LEMMA ChoiceInit == AcceptanceInit => ChoiceInv
BY DEF AcceptanceInit, ChoiceInv, Chooses

LEMMA LoadKeeps == ASSUME ChoiceInv, Load PROVE ChoiceInv'
<1>1. Offers' /\ published' = published
    BY DEF ChoiceInv, Load, Offers, Offered, Servable, Requirement, Naming
<1>2. Chooses'
    BY <1>1 DEF ChoiceInv, Chooses, Load
<1>. QED
    BY <1>1, <1>2 DEF ChoiceInv

LEMMA OffersStay ==
    ASSUME Offers, UNCHANGED <<reads, published>>
    PROVE  Offers' /\ Offered' = Offered /\ \A n : ReadsDepth(n)' <=> ReadsDepth(n)
BY DEF Offers, Offered, Servable, Requirement, Naming, ReadsDepth

LEMMA TryKeeps == ASSUME ChoiceInv, Try PROVE ChoiceInv'
<1>1. Offers /\ published # <<>> /\ UNCHANGED <<reads, published>> /\ choosing = "trying"
    BY DEF ChoiceInv, Chooses, Try
<1>2. Offers' /\ Offered' = Offered
    BY <1>1, OffersStay
<1>. SUFFICES Chooses'
    BY <1>2 DEF ChoiceInv
<1>3. /\ trying \in Nat /\ trying >= 1 /\ Len(published) \in Nat
      /\ \A n \in 1..Len(published) : n < trying => ~Servable(published[n])
    BY <1>1 DEF ChoiceInv, Chooses, Offers
<1>4. Servable(Offered)' <=> Servable(Offered)
    BY <1>2 DEF Servable
<1>5. CASE trying > Len(published)
    BY <1>1, <1>3, <1>5 DEF Try, Chooses, Servable
<1>6. CASE trying <= Len(published) /\ ~Servable(published[trying])
    BY <1>1, <1>3, <1>6 DEF Try, Chooses, Servable
<1>7. CASE trying <= Len(published) /\ Servable(published[trying])
    <2>1. trying = Len(published)
        <3>1. trying # Len(published) => trying \in 1..(Len(published) - 1)
            BY <1>3, <1>7
        <3>2. \A n \in 1..(Len(published) - 1) : ~Servable(published[n])
            BY <1>1 DEF Offers
        <3>. QED
            BY <1>7, <3>1, <3>2
    <2>2. /\ Servable(Offered) /\ depth' = Len(Offered.schema) /\ choosing' = "extending"
          /\ trying' = trying
        BY <1>1, <1>7, <2>1 DEF Try, Offered
    <2>3. depth' \in 0..Len(chain) /\ depth' \in Len(Offered.schema)..Len(chain)
        BY <1>1, <2>2, RequiredFirst, ChainIs DEF Offers, Requirement, Servable
    <2>4. ReadsDepth(depth')
        <3>. DEFINE n == depth'
        <3>1. n \in 0..Len(chain) /\ n >= Len(Offered.schema)
              /\ \A layer \in (Len(Offered.schema) + 1)..n : chain[layer] \in reads.holds
            BY <2>2, <2>3
        <3>. HIDE DEF n
        <3>2. ReadsDepth(n)
            BY <1>1, <2>2, <3>1, DepthMeans
        <3>. QED
            BY <3>2 DEF n
    <2>5. ReadsDepth(depth)'
        BY <1>1, <2>4 DEF ReadsDepth
    <2>. QED
        BY <1>1, <1>2, <1>4, <2>1, <2>2, <2>3, <2>5 DEF Chooses
<1>. QED
    BY <1>3, <1>5, <1>6, <1>7

LEMMA ExtendKeeps == ASSUME ChoiceInv, Extend PROVE ChoiceInv'
<1>1. /\ Offers /\ published # <<>> /\ UNCHANGED <<reads, published, trying>>
      /\ choosing = "extending" /\ trying = Len(published) /\ Servable(Offered)
      /\ depth \in Len(Offered.schema)..Len(chain) /\ ReadsDepth(depth)
      /\ published[trying] = Offered
    BY DEF ChoiceInv, Chooses, Extend, Offered
<1>2. Offers' /\ Offered' = Offered /\ (Servable(Offered)' <=> Servable(Offered))
    BY <1>1, OffersStay DEF Servable
<1>3. \A n : ReadsDepth(n)' <=> ReadsDepth(n)
    BY <1>1, OffersStay
<1>. SUFFICES Chooses'
    BY <1>2 DEF ChoiceInv
<1>4. Len(Offered.schema) \in Nat /\ Len(Offered.schema) >= 1 /\ depth \in 0..Len(chain) /\ depth \in Nat
    BY <1>1, ChainIs DEF Offers, Requirement
<1>5. ASSUME depth < Len(chain), Named(Offered, depth + 1) PROVE Chooses'
    <2>. DEFINE i == depth + 1
    <2>1. i \in (Len(Offered.schema) + 1)..Len(chain) /\ i \in 0..Len(chain)
        BY <1>1, <1>4, <1>5, ChainIs
    <2>2. chain[i] \in reads.holds
        BY <1>1, <1>5, <2>1, NamedIsHeld
    <2>3. \A layer \in (Len(Offered.schema) + 1)..i : chain[layer] \in reads.holds
        <3>1. \A layer \in (Len(Offered.schema) + 1)..depth : chain[layer] \in reads.holds
            BY <1>1, <1>4, DepthMeans
        <3>2. \A layer \in (Len(Offered.schema) + 1)..i :
                layer = i \/ layer \in (Len(Offered.schema) + 1)..depth
            BY <1>4
        <3>. QED
            BY <2>2, <3>1, <3>2
    <2>4. i >= Len(Offered.schema) /\ i \in Len(Offered.schema)..Len(chain)
        BY <1>1, <1>4, <2>1
    <2>5. depth' = i /\ choosing' = "extending"
        BY <1>1, <1>5 DEF Extend
    <2>. HIDE DEF i
    <2>6. ReadsDepth(i)
        BY <1>1, <2>1, <2>3, <2>4, DepthMeans
    <2>7. ReadsDepth(depth)'
        BY <1>1, <2>5, <2>6 DEF ReadsDepth
    <2>. QED
        BY <1>1, <1>2, <2>4, <2>5, <2>7 DEF Chooses
<1>6. ASSUME ~(depth < Len(chain) /\ Named(Offered, depth + 1)) PROVE Chooses'
    <2>1. choosing' = "chosen" /\ depth' = depth
        BY <1>1, <1>6 DEF Extend
    <2>2. ReadsDepth(depth)'
        BY <1>1, <2>1 DEF ReadsDepth
    <2>3. ASSUME ~Ambiguous, NEW n \in (depth + 1)..Len(chain), ReadsDepth(n) PROVE FALSE
        <3>1. /\ n \in 0..Len(chain) /\ depth < Len(chain)
              /\ depth + 1 \in (Len(Offered.schema) + 1)..n
              /\ depth + 1 \in (Len(Offered.schema) + 1)..Len(chain)
            BY <1>1, <1>4, ChainIs
        <3>2. chain[depth + 1] \in reads.holds
            BY <1>1, <2>3, <3>1, DepthMeans
        <3>3. Named(Offered, depth + 1)
            BY <1>1, <2>3, <3>1, <3>2, HeldIsNamed
        <3>. QED
            BY <1>6, <3>1, <3>3
    <2>4. ~Ambiguous => \A n \in (depth + 1)..Len(chain) : ~ReadsDepth(n)
        BY <2>3
    <2>5. Ambiguous' <=> Ambiguous
        BY <1>1 DEF Ambiguous
    <2>6. ~Ambiguous' => \A n \in (depth' + 1)..Len(chain) : ~ReadsDepth(n)'
        BY <1>3, <2>1, <2>4, <2>5
    <2>. QED
        BY <1>1, <2>1, <2>2, <2>6 DEF Chooses
<1>. QED
    BY <1>5, <1>6

LEMMA TwoJoined == \A a, b : <<a>> \o <<b>> = <<a, b>>
<1>. TAKE a, b
<1>. DEFINE S == {a, b}
<1>1. <<a>> \in Seq(S) /\ <<b>> \in Seq(S) /\ <<a, b>> \in Seq(S)
    OBVIOUS
<1>2. /\ <<a>> \o <<b>> \in Seq(S) /\ Len(<<a>> \o <<b>>) = 2
      /\ (<<a>> \o <<b>>)[1] = a /\ (<<a>> \o <<b>>)[2] = b
    BY <1>1
<1>. DEFINE both == <<a>> \o <<b>>
            pair == <<a, b>>
<1>3. both \in Seq(S) /\ Len(both) = 2 /\ both[1] = a /\ both[2] = b
    BY <1>2
<1>4. pair \in Seq(S) /\ Len(pair) = 2 /\ pair[1] = a /\ pair[2] = b
    BY <1>1
<1>. HIDE DEF both, pair, S
<1>5. both = pair
    BY <1>3, <1>4
<1>. QED
    BY <1>5 DEF both, pair

\* What is published last is what the daemon means, and what it prefers to that is not served.
LEMMA PublishKeeps == ASSUME ChoiceInv, Publish PROVE ChoiceInv'
<1>1. PICK base \in {chain[1], Foreign}, held \in SUBSET Layers, all \in BOOLEAN,
           required \in 0..(Len(chain) - 1),
           preferred \in {<<>>, <<Foreign>>, chain \o <<Foreign>>} :
         LET requires == <<base>> \o SubSeq(chain, 2, required + 1)
             alternative(name) ==
                [schema |-> requires, any_published |-> all,
                 components |-> {SubSeq(h, 1, name[h]) : h \in held \ ToSet(requires)}]
             refused == [schema |-> preferred, any_published |-> TRUE, components |-> {}]
         IN  /\ ToSet(requires) \subseteq held \cup {base}
             /\ all => held = Layers
             /\ reads' = [requires |-> requires, holds |-> held]
             /\ \/ requires = <<base>> /\ held = {} /\ published' = <<>>
                \/ \E name \in Names(held) :
                     published' = (IF preferred = <<>> THEN <<>> ELSE <<refused>>)
                                  \o <<alternative(name)>>
    BY DEF Publish
<1>. DEFINE requires == <<base>> \o SubSeq(chain, 2, required + 1)
            alternative(name) ==
                [schema |-> requires, any_published |-> all,
                 components |-> {SubSeq(h, 1, name[h]) : h \in held \ ToSet(requires)}]
            refused == [schema |-> preferred, any_published |-> TRUE, components |-> {}]
<1>2. requires \in Seq(Seq(Nat)) /\ Len(requires) >= 1
    <2>1. base \in Seq(Nat)
        BY ChainIs DEF Hashes
    <2>2. SubSeq(chain, 2, required + 1) \in Seq(Seq(Nat))
        <3>1. \A i \in 2..(required + 1) : chain[i] \in Seq(Nat)
            BY ChainIs
        <3>. QED
            BY <3>1, ChainIs
    <2>. QED
        BY <2>1, <2>2
<1>3. choosing' = "up"
    BY DEF Publish
<1>4. Chooses'
    BY <1>3 DEF Chooses
<1>5. CASE published' = <<>>
    <2>1. Len(published') = 0 /\ DOMAIN published' = 1..0
        BY <1>5
    <2>. QED
        BY <1>4, <1>5, <2>1 DEF ChoiceInv, Offers
<1>6. ASSUME NEW name \in Names(held),
             published' = (IF preferred = <<>> THEN <<>> ELSE <<refused>>) \o <<alternative(name)>>
      PROVE  ChoiceInv'
    <2>. DEFINE last == alternative(name)
    <2>0. published' = (IF preferred = <<>> THEN <<>> ELSE <<refused>>) \o <<last>>
        BY <1>6
    <2>1. published' = <<last>> \/ (published' = <<refused, last>> /\ preferred # <<>>)
        <3>. HIDE DEF last, refused
        <3>1. <<>> \o <<last>> = <<last>>
            OBVIOUS
        <3>2. <<refused>> \o <<last>> = <<refused, last>>
            BY TwoJoined
        <3>. QED
            BY <2>0, <3>1, <3>2
    <2>2. ~Servable(refused) \/ preferred = <<>>
        <3>1. CASE preferred = <<Foreign>>
            <4>. DEFINE s == <<Foreign>>
            <4>1. s \in Seq(Seq(Nat)) /\ Len(s) = 1 /\ s[1] = Foreign
                BY ChainIs DEF Hashes
            <4>2. chain[1] # Foreign
                BY ForeignIsNone, ChainIs
            <4>. HIDE DEF s
            <4>3. ~IsPrefix(s, chain)
                <5>. SUFFICES ASSUME IsPrefix(s, chain) PROVE FALSE
                    OBVIOUS
                <5>1. \A i \in 1..Len(s) : s[i] = chain[i]
                    BY <4>1, RequiredFirst
                <5>2. 1 \in 1..Len(s)
                    BY <4>1
                <5>. QED
                    BY <4>1, <4>2, <5>1, <5>2
            <4>. QED
                BY <3>1, <4>3 DEF Servable, s
        <3>2. CASE preferred = chain \o <<Foreign>>
            <4>. DEFINE s == chain \o <<Foreign>>
            <4>1. s \in Seq(Seq(Nat)) /\ Len(s) = Len(chain) + 1
                BY ChainIs DEF Hashes
            <4>. HIDE DEF s
            <4>2. ~IsPrefix(s, chain)
                BY <4>1, ChainIs, RequiredFirst
            <4>. QED
                BY <3>2, <4>2 DEF Servable, s
        <3>. QED
            BY <3>1, <3>2
    <2>3. reads' = [requires |-> requires, holds |-> held] /\ (all => held = Layers)
        BY <1>1
    <2>4. Requirement(last.schema)' /\ last.schema = requires
        BY <1>2, <2>3 DEF Requirement
    <2>5. Naming(last.components)'
        BY <2>3 DEF Naming, Names
    <2>6. (last.any_published => reads'.holds = Layers) /\ reads'.holds \subseteq Layers
        BY <2>3
    <2>. HIDE DEF last, refused
    <2>7. /\ Len(published') \in Nat /\ Len(published') >= 1 /\ DOMAIN published' = 1..Len(published')
          /\ Offered' = last /\ \A n \in 1..(Len(published') - 1) : published'[n] = refused /\ preferred # <<>>
        <3>1. CASE published' = <<last>>
            <4>1. Len(published') = 1 /\ DOMAIN published' = 1..1 /\ published'[1] = last
                BY <3>1
            <4>. QED
                BY <4>1 DEF Offered
        <3>2. CASE published' = <<refused, last>> /\ preferred # <<>>
            <4>1. /\ Len(published') = 2 /\ DOMAIN published' = 1..2
                  /\ published'[1] = refused /\ published'[2] = last
                BY <3>2
            <4>2. \A n \in 1..(Len(published') - 1) : n = 1
                BY <4>1
            <4>. QED
                BY <3>2, <4>1, <4>2 DEF Offered
        <3>. QED
            BY <2>1, <3>1, <3>2
    <2>8. Offers'
        BY <2>2, <2>4, <2>5, <2>6, <2>7 DEF Offers, Servable
    <2>. QED
        BY <1>4, <2>8 DEF ChoiceInv
<1>. QED
    BY <1>1, <1>5, <1>6

LEMMA ChoiceNext == ChoiceInv /\ [AcceptanceNext]_acceptanceVars => ChoiceInv'
<1>. SUFFICES ASSUME ChoiceInv, [AcceptanceNext]_acceptanceVars PROVE ChoiceInv'
    OBVIOUS
<1>1. CASE UNCHANGED acceptanceVars
    BY <1>1 DEF acceptanceVars, ChoiceInv, Chooses, Offers, Offered, Servable, Requirement, Naming,
                ReadsDepth, Ambiguous
<1>. QED
    BY <1>1, PublishKeeps, LoadKeeps, TryKeeps, ExtendKeeps DEF AcceptanceNext

\* No composition of this launcher's is read by a daemon it cannot serve.
LEMMA NoneToServe ==
    ASSUME ChoiceInv, choosing = "mismatch" PROVE \A n \in DOMAIN chain : ~ReadsDepth(n)
<1>1. /\ Offers /\ published # <<>> /\ trying > Len(published) /\ trying \in Nat
      /\ \A n \in 1..Len(published) : n < trying => ~Servable(published[n])
    BY DEF ChoiceInv, Chooses
<1>2. ~Servable(Offered)
    BY <1>1 DEF Offers, Offered
<1>3. ASSUME NEW n \in 1..Len(chain), ReadsDepth(n) PROVE FALSE
    <2>. DEFINE r == Offered.schema
                cut == SubSeq(chain, 1, n)
    <2>0. reads.requires = r
        BY <1>1 DEF Offers, Requirement
    <2>1. r \in Seq(Seq(Nat)) /\ Len(r) \in Nat
        BY <1>1 DEF Offers, Requirement
    <2>2. n \in 0..Len(chain) /\ n <= Len(chain)
        BY ChainIs
    <2>3. cut \in Seq(Seq(Nat)) /\ Len(cut) = n /\ \A i \in 1..n : cut[i] = chain[i]
        BY <2>2, ChainIs, CutMeans
    <2>4. IsPrefix(r, cut) /\ ~IsPrefix(r, chain)
        BY <1>2, <1>3, <2>0 DEF ReadsDepth, Servable
    <2>. HIDE DEF r, cut
    <2>5. IsPrefix(r, cut) <=> Len(r) <= Len(cut) /\ \A i \in 1..Len(r) : r[i] = cut[i]
        BY <2>1, <2>3, PrefixMeans
    <2>6. IsPrefix(r, chain) <=> Len(r) <= Len(chain) /\ \A i \in 1..Len(r) : r[i] = chain[i]
        BY <2>1, ChainIs, PrefixMeans
    <2>7. Len(r) <= n /\ \A i \in 1..Len(r) : r[i] = cut[i] /\ i \in 1..n
        BY <2>1, <2>3, <2>4, <2>5
    <2>. QED
        BY <2>1, <2>2, <2>3, <2>4, <2>6, <2>7, ChainIs
<1>. QED
    BY <1>3, ChainIs

\* For every chain and every daemon: the composition chosen is one the daemon reads, and the
\* richest both hold unless a name is ambiguous; a mismatch is one (acceptance.rs, choose).
THEOREM ChoiceIsRead == AcceptanceSpec => []Negotiated
<1>1. ChoiceInv => Negotiated
    BY NoneToServe DEF ChoiceInv, Chooses, Negotiated
<1>. QED
    BY ChoiceInit, ChoiceNext, <1>1, PTL DEF AcceptanceSpec
=============================================================================
