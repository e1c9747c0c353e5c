------------------------------- MODULE Record -------------------------------
(***************************************************************************)
(* The configuration record in an executable `stub, record, jar`: the scan *)
(* by which a launcher finds its own (config.rs, scan_file) and the search *)
(* by which an update is verified and signed (find_record, find_magic).    *)
(* A file is a sequence of bytes, an offset the number of bytes before it; *)
(* the scan's buffer is the file from `position`, of which `carry` bytes   *)
(* are kept from the previous chunk.                                       *)
(***************************************************************************)
EXTENDS Integers, Sequences

CONSTANTS
    Executables,    \* the files an executable may be
    Magic,          \* the bytes a record starts with
    RECORD_LEN,     \* the length of a record, its magic included
    CHUNK,          \* how much one read of the scan may bring beyond what was carried
    SCAN_LIMIT      \* where the scan starts no further read

MAGIC_LEN == Len(Magic)

ASSUME RecordAssumption ==
    /\ \A f \in Executables : f \in Seq(Nat) /\ Len(f) >= MAGIC_LEN - 1
    /\ Magic \in Seq(Nat) /\ MAGIC_LEN > 0
    /\ RECORD_LEN \in Nat /\ RECORD_LEN >= MAGIC_LEN
    /\ CHUNK \in Nat \ {0} /\ SCAN_LIMIT \in Nat

VARIABLES
    file,       \* the executable the launcher was invoked as
    scan,       \* "closed", "reading" or "done"
    position,   \* the offset of the buffer's first byte
    carry,      \* bytes retained from the previous chunk
    record      \* the offset of the record found, or None

recordVars == <<file, scan, position, carry, record>>

None == -1

MagicAt(f, offset) ==
    /\ offset + MAGIC_LEN <= Len(f)
    /\ \A k \in 1..MAGIC_LEN : f[offset + k] = Magic[k]

\* The first magic that lies wholly in f between two offsets.
IsFirst(f, offset, from, to) ==
    /\ offset \in from..(to - MAGIC_LEN) /\ MagicAt(f, offset)
    /\ \A other \in from..(offset - 1) : ~MagicAt(f, other)

\* Where find_record, and the signer's find_magic, see a record in the bytes of a file: in a
\* slice that ends one byte into the last place a record could start.
FindRecord(f) ==
    IF \E offset \in 0..Len(f) : IsFirst(f, offset, 0, Len(f) - RECORD_LEN + 1)
    THEN CHOOSE offset \in 0..Len(f) : IsFirst(f, offset, 0, Len(f) - RECORD_LEN + 1)
    ELSE None

RecordInit ==
    /\ file = <<>> /\ scan = "closed"
    /\ position = 0 /\ carry = 0 /\ record = None

OpenFile ==
    /\ scan = "closed"
    /\ file' \in Executables
    /\ scan' = "reading"
    /\ UNCHANGED <<position, carry, record>>

\* read_exact fails when the file ends within the record.
Found(offset) ==
    /\ record' = IF offset + RECORD_LEN <= Len(file) THEN offset ELSE None
    /\ scan' = "done"
    /\ UNCHANGED <<file, position, carry>>

\* Mutant: chunks overlap by a byte too few.
SlideShort(filled) ==
    /\ carry' = MAGIC_LEN - 2
    /\ position' = position + filled - carry'
    /\ UNCHANGED <<file, scan, record>>

Slide(filled) ==
    /\ carry' = MAGIC_LEN - 1
    /\ position' = position + filled - carry'
    /\ UNCHANGED <<file, scan, record>>

\* One read and the search of what the buffer holds. A read may be short, though a file
\* system gives at least the carry's worth of a file's first bytes.
ReadChunk ==
    /\ scan = "reading" /\ position < SCAN_LIMIT
    /\ \E read \in 1..(CHUNK + MAGIC_LEN - 1 - carry) :
         LET filled == carry + read IN
         /\ position + filled <= Len(file) /\ filled >= MAGIC_LEN - 1
         /\ \/ \E offset \in position..(position + filled) :
                 /\ IsFirst(file, offset, position, position + filled)
                 /\ Found(offset)
            \/ /\ \A offset \in position..(position + filled - MAGIC_LEN) : ~MagicAt(file, offset)
               /\ Slide(filled)

Nothing ==
    /\ scan = "reading"
    /\ position >= SCAN_LIMIT \/ position + carry = Len(file)
    /\ scan' = "done"
    /\ UNCHANGED <<file, position, carry, record>>

RecordNext == OpenFile \/ ReadChunk \/ Nothing

RecordSpec == RecordInit /\ [][RecordNext]_recordVars

-----------------------------------------------------------------------------
\* What the scan has settled: no magic starts before what is still in the buffer, and a
\* record it has found is whole and the first.
ScanIsFirst ==
    /\ scan = "reading" => \A offset \in 0..(position - 1) : ~MagicAt(file, offset)
    /\ record # None =>
         /\ record + RECORD_LEN <= Len(file)
         /\ IsFirst(file, record, 0, Len(file))

\* However the reads fall on a file, a scan finds its first record, unless that starts where
\* the scan no longer looks (config.rs:113-115); a magic too close to the end hides no other;
\* and the verifier, if it finds a record as well, finds the same (verify.rs:50).
FirstRecordFound ==
    scan = "done" =>
        /\ record # None =>
             /\ record + RECORD_LEN <= Len(file)
             /\ IsFirst(file, record, 0, Len(file))
             /\ FindRecord(file) \in {None, record}
        /\ record = None =>
             \A offset \in 0..Len(file) :
                 MagicAt(file, offset) => offset >= SCAN_LIMIT \/ offset + RECORD_LEN > Len(file)

\* ethrcfg.md:22-25: the launcher "takes the first occurrence of the 8-byte magic as the start
\* of the record, provided 3764 bytes remain from there.  A verifier checking an upgrade does
\* exactly the same on the candidate file".
VerifierFindsSame ==
    scan = "done" => FindRecord(file) = record

=============================================================================
