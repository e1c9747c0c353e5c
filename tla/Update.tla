------------------------------- MODULE Update -------------------------------
(***************************************************************************)
(* Self-update (update.rs, verify.rs, sign/src/main.rs): every invocation  *)
(* of the executable at `script` looks for `.pending`, verifies it against *)
(* the key in its own record, and swaps it into place by two renames. The  *)
(* application delivers `.pending`s, each by one rename; invocations are   *)
(* started at any time and may be killed between any two steps.            *)
(*                                                                         *)
(* A binary is its record's build id, flags and public key, its signature  *)
(* slot, and whether it is otherwise as it was signed.                     *)
(***************************************************************************)
EXTENDS Integers, FiniteSets

CONSTANTS
    Launchers,      \* invocations that may run at once
    Installed,      \* the executable there is at first
    Deliveries,     \* the binaries the application may deliver
    Killable,       \* BOOLEAN: whether invocations are killed
    Fallible,       \* BOOLEAN: whether a rename may fail that has something to move
    Starts,         \* bound: invocations started
    Delivered       \* bound: binaries delivered

\* No file at a path, and the slot of a signature as the builder leaves it.
Absent == [absent |-> TRUE]
Unsigned == [unsigned |-> TRUE]

ASSUME UpdateAssumption ==
    /\ Killable \in BOOLEAN /\ Fallible \in BOOLEAN
    /\ \A b \in {Installed} \cup Deliveries :
         b # Absent /\ b.build \in Nat

VARIABLES
    script,         \* the executable's path: a binary, or Absent
    old,            \* `<name>.old`
    pendingFile,    \* `.pending`
    at,             \* at[l]: where in check_updates invocation l is
    config,         \* config[l]: the binary l runs, whose record it loaded
    bytes,          \* bytes[l]: what l read of `.pending`
    starts,         \* invocations started
    deliveries,     \* binaries delivered
    met,            \* history: whether an invocation ever met another at its update
    redelivered,    \* history: whether a delivery ever met an update under way
    faulted         \* history: whether one was killed, or a rename failed, in the midst of one

historyVars == <<met, redelivered, faulted>>
updateVars ==
    <<script, old, pendingFile, at, config, bytes, starts, deliveries, historyVars>>

Unset == "unset"

-----------------------------------------------------------------------------
\* A signature is by a key, over the whole file with the signature's slot zeroed: over the
\* flags, that is, which the signer sets first.
Zeroed(b) == [b EXCEPT !.signature = Unsigned]

Sign(b, seed, allowDowngrade) ==
    LET flagged == Zeroed([b EXCEPT !.downgrade = allowDowngrade])
    IN  [flagged EXCEPT !.signature = [by |-> seed, over |-> flagged]]

\* verify_pending, with the key of the running binary.
Verifies(b, key) ==
    /\ key # Unset
    /\ b.signature = [by |-> key, over |-> Zeroed(b)]

\* Mutant: an update of the same build is let through.
AdvancesOrStays(b, running) == b.build >= running.build \/ b.downgrade

\* The policy on build ids, against the running binary's.
Advances(b, running) == b.build > running.build \/ b.downgrade

Acceptable(b, running) == Verifies(b, running.key) /\ Advances(b, running)

-----------------------------------------------------------------------------
\* The invocations that have not yet gone on to the daemon.
Updating == {l \in Launchers : at[l] # "idle"}

\* A step of l's while another invocation is at its update.
Meets(l) == met' = (met \/ Updating \ {l} # {})

UpdateInit ==
    /\ script = Installed /\ old = Absent /\ pendingFile = Absent
    /\ at = [l \in Launchers |-> "idle"]
    /\ config = [l \in Launchers |-> Installed]
    /\ bytes = [l \in Launchers |-> Absent]
    /\ starts = 0 /\ deliveries = 0
    /\ met = FALSE /\ redelivered = FALSE /\ faulted = FALSE

\* The application puts a binary at `.pending`, whatever is there.
PutPending ==
    /\ deliveries < Delivered
    /\ pendingFile' \in Deliveries
    /\ deliveries' = deliveries + 1
    /\ redelivered' = (redelivered \/ Updating # {})
    /\ UNCHANGED <<script, old, at, config, bytes, starts, met, faulted>>

\* The executable is started, and loads the record of what is at its path; without one
\* nothing starts.
Start(l) ==
    /\ at[l] = "idle" /\ script # Absent /\ starts < Starts
    /\ at' = [at EXCEPT ![l] = "started"]
    /\ config' = [config EXCEPT ![l] = script]
    /\ starts' = starts + 1
    /\ Meets(l)
    /\ UNCHANGED <<script, old, pendingFile, bytes, deliveries, redelivered, faulted>>

Moves(l, to) == at' = [at EXCEPT ![l] = to]

\* Goes on to the daemon with the binary that runs.
Proceed(l) ==
    /\ at' = [at EXCEPT ![l] = "idle"]
    /\ bytes' = [bytes EXCEPT ![l] = Absent]

\* `.pending` is read, if it is there and the executable is.
ReadPending(l) ==
    /\ at[l] = "started"
    /\ IF script = Absent \/ pendingFile = Absent
       THEN Proceed(l)
       ELSE Moves(l, "read") /\ bytes' = [bytes EXCEPT ![l] = pendingFile]
    /\ UNCHANGED <<script, old, pendingFile, config, starts, deliveries, historyVars>>

\* What was read is unsigned, altered or no advance: whatever is pending by now is removed.
Reject(l) ==
    /\ at[l] = "read" /\ ~Acceptable(bytes[l], config[l])
    /\ pendingFile' = Absent
    /\ Proceed(l)
    /\ UNCHANGED <<script, old, config, starts, deliveries, historyVars>>

Accept(l) ==
    /\ at[l] = "read" /\ Acceptable(bytes[l], config[l])
    /\ Moves(l, "verified")
    /\ UNCHANGED <<script, old, pendingFile, config, bytes, starts, deliveries, historyVars>>

RemoveOld(l) ==
    /\ at[l] = "verified"
    /\ old' = Absent
    /\ Moves(l, "cleared")
    /\ UNCHANGED <<script, pendingFile, config, bytes, starts, deliveries, historyVars>>

\* Mutant: the executable is removed, not moved aside.
MoveAsideDeleting(l) ==
    /\ at[l] = "cleared" /\ script # Absent
    /\ script' = Absent
    /\ Moves(l, "moved")
    /\ UNCHANGED <<old, pendingFile, config, bytes, starts, deliveries, historyVars>>

MoveAside(l) ==
    /\ at[l] = "cleared" /\ script # Absent
    /\ old' = script /\ script' = Absent
    /\ Moves(l, "moved")
    /\ UNCHANGED <<pendingFile, config, bytes, starts, deliveries, historyVars>>

CannotMoveAside(l) ==
    /\ at[l] = "cleared" /\ (script = Absent \/ Fallible)
    /\ Proceed(l)
    /\ faulted' = (faulted \/ script # Absent)
    /\ UNCHANGED <<script, old, pendingFile, config, starts, deliveries, met, redelivered>>

MoveIn(l) ==
    /\ at[l] = "moved" /\ pendingFile # Absent
    /\ script' = pendingFile /\ pendingFile' = Absent
    /\ Moves(l, "swapped")
    /\ UNCHANGED <<old, config, bytes, starts, deliveries, historyVars>>

\* Mutant: a failed swap is left as it is.
MoveBackForgotten(l) ==
    /\ at[l] = "moved" /\ (pendingFile = Absent \/ Fallible)
    /\ Proceed(l)
    /\ faulted' = (faulted \/ pendingFile # Absent)
    /\ UNCHANGED <<script, old, pendingFile, config, starts, deliveries, met, redelivered>>

\* The rename back is tried once, and its failure ignored.
MoveBack(l) ==
    /\ at[l] = "moved" /\ (pendingFile = Absent \/ Fallible)
    /\ IF old # Absent
       THEN script' = old /\ old' = Absent
       ELSE UNCHANGED <<script, old>>
    /\ Proceed(l)
    /\ faulted' = (faulted \/ pendingFile # Absent)
    /\ UNCHANGED <<pendingFile, config, starts, deliveries, met, redelivered>>

\* The invocation becomes one of what is at the path by now, or goes on if nothing is.
Exec(l) ==
    /\ at[l] = "swapped"
    /\ bytes' = [bytes EXCEPT ![l] = Absent]
    /\ IF script = Absent
       THEN Moves(l, "idle") /\ UNCHANGED config
       ELSE Moves(l, "started") /\ config' = [config EXCEPT ![l] = script]
    /\ UNCHANGED <<script, old, pendingFile, starts, deliveries, historyVars>>

Kill(l) ==
    /\ Killable /\ at[l] # "idle"
    /\ Proceed(l)
    /\ faulted' = TRUE
    /\ UNCHANGED <<script, old, pendingFile, config, starts, deliveries, met, redelivered>>

UpdateNext ==
    \/ PutPending
    \/ \E l \in Launchers :
          \/ Start(l) \/ ReadPending(l) \/ Reject(l) \/ Accept(l) \/ RemoveOld(l)
          \/ MoveAside(l) \/ CannotMoveAside(l) \/ MoveIn(l) \/ MoveBack(l) \/ Exec(l)
          \/ Kill(l)

UpdateSpec == UpdateInit /\ [][UpdateNext]_updateVars

-----------------------------------------------------------------------------
\* The executable: what is at its path or, when an update has moved it, what it moved.
Executable == IF script # Absent THEN script ELSE old

\* An update that fails, or is killed between its renames, loses nothing: the executable is
\* at its path or in `.old`, whatever is delivered, as long as updates do not overlap
\* (update.rs:71-81).
Recoverable == ~met => Executable # Absent

\* What the running binary's publisher lets take its place.
Supersedes(b, running) ==
    /\ b.signature = [by |-> running.key, over |-> Zeroed(b)]
    /\ b.build > running.build \/ b.downgrade

\* An invocation that swaps in what it read swaps in a binary signed by its own key, and of a
\* higher build than its own or with the publisher's leave.  And it does swap in what it read,
\* for the binary whose key it verified that by, however updates overlap and wherever one is
\* killed or fails, unless a delivery met one under way (update.rs:27-56, layout.md:65).
SwapsVerified ==
    [][\A l \in Launchers : at[l] = "moved" /\ at'[l] = "swapped" =>
         /\ script' = bytes[l] => Supersedes(script', config[l])
         /\ ~redelivered => script' = bytes[l] /\ old \in {config[l], Absent}]_updateVars

\* update.rs:22-27: "in any of those cases we delete `.pending` and continue with the existing
\* binary", and layout.md:65: the launcher verifies `.pending` "and on success swaps it into
\* place": what an invocation has swapped in passed both of its tests.
SwappedIsVerified ==
    \A l \in Launchers : at[l] = "swapped" => Supersedes(script, config[l])

\* Two updates may overlap in any way without leaving the path empty: it is so only while
\* one of them is between its two renames (update.rs:71-81, layout.md:65). Of two only: a
\* third may remove the `.old` that the second was to move back.
NeverStranded ==
    ~faulted /\ (\A l \in Launchers : at[l] # "moved") => script # Absent
=============================================================================
