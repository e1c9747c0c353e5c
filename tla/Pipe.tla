-------------------------------- MODULE Pipe --------------------------------
(***************************************************************************)
(* What a session promises of each of its streams: it is a pipe.  Bytes    *)
(* come out in the order they went in, never more than CAPACITY are inside *)
(* (the window of spec/launcher.md, Flow control), and the end is seen     *)
(* only behind the last byte - unless the receiver has turned away, after  *)
(* which bytes may be lost but the writer is never held up for them.       *)
(***************************************************************************)
EXTENDS Integers

CONSTANT CAPACITY

VARIABLES
    sent,       \* bytes put in
    delivered,  \* bytes taken out
    eof,        \* the receiver has seen the end
    abandoned   \* the receiver has turned away

vars == <<sent, delivered, eof, abandoned>>

Init == sent = 0 /\ delivered = 0 /\ ~eof /\ ~abandoned

Write ==
    /\ ~eof
    /\ \E n \in 1..CAPACITY : sent' = sent + n
    /\ abandoned \/ sent' - delivered <= CAPACITY
    /\ UNCHANGED <<delivered, eof, abandoned>>

Deliver ==
    /\ ~eof
    /\ delivered' \in delivered + 1 .. sent
    /\ UNCHANGED <<sent, eof, abandoned>>

End ==
    /\ delivered = sent \/ abandoned
    /\ ~eof /\ eof' = TRUE
    /\ UNCHANGED <<sent, delivered, abandoned>>

Abandon ==
    /\ abandoned' = TRUE
    /\ UNCHANGED <<sent, delivered, eof>>

Next == Write \/ Deliver \/ End \/ Abandon

Spec == Init /\ [][Next]_vars
=============================================================================
