------------------------------ MODULE Handshake ------------------------------
(***************************************************************************)
(* The question for the terminal's background colour (tty.rs,              *)
(* query_bg_color and parse_osc11), asked before the session begins, on an *)
(* input where the answer comes among what the user types. What is read    *)
(* and is not the answer is `leftover`, which the session sends before     *)
(* what it reads of the terminal itself (session.rs, pump_terminal).       *)
(***************************************************************************)
EXTENDS Integers, Sequences, FiniteSetsExt

CONSTANTS
    READ_LEN,   \* how much one read of the handshake asks for
    Typeable,   \* the bytes a user may type
    Typed       \* bound: bytes typed

ASSUME HandshakeAssumption == READ_LEN \in Nat \ {0} /\ Typed \in Nat

\* The bytes that the handshake tells apart; the rest of the prefix, and the colour, are one
\* byte each.
Esc == "ESC"
Backslash == "backslash"
Bel == "BEL"
Prefix == <<Esc, "]11;rgb:">>
ST == <<Esc, Backslash>>
Replies == {Prefix \o <<"colour">> \o ST, Prefix \o <<"colour", Bel>>}

NotThere == -1

VARIABLES
    asking,     \* "polling", "reading" or "done"
    input,      \* bytes at the terminal, unread
    buffered,   \* bytes read of it that std's buffered stdin keeps
    buf,        \* bytes the handshake has been given
    answered,   \* whether the reply has a colour
    leftover,   \* what is passed on to the session
    keyed,      \* what the user has typed, and
    arrived,    \* what has arrived at the terminal, replies included (these are history)
    reply,      \* the terminal's reply, or <<>>
    replyAt     \* how many bytes arrived before it, or NotThere

handshakeVars ==
    <<asking, input, buffered, buf, answered, leftover, keyed, arrived, reply, replyAt>>

-----------------------------------------------------------------------------
\* Where a sequence of bytes begins in another: the offsets, and the first one.
Occurrences(haystack, needle) ==
    {at \in 0..(Len(haystack) - Len(needle)) :
        SubSeq(haystack, at + 1, at + Len(needle)) = needle}

FindSubseq(haystack, needle) ==
    LET found == Occurrences(haystack, needle)
    IN  IF found = {} THEN NotThere ELSE Min(found)

After(bytes, offset) == SubSeq(bytes, offset + 1, Len(bytes))

\* The loop stops at anything that may end a reply.
EndsReply(bytes) == FindSubseq(bytes, ST) # NotThere \/ FindSubseq(bytes, <<Bel>>) # NotThere

\* Where the reply in `bytes` begins and ends, at the first terminator after its prefix; at
\* once, if there is none.
ReplySpan(bytes) ==
    LET start == FindSubseq(bytes, Prefix)
        rest == After(bytes, start + Len(Prefix))
        st == FindSubseq(rest, ST)
        bel == FindSubseq(rest, <<Bel>>)
        ends == (IF st = NotThere THEN {} ELSE {st + Len(ST)})
                \cup (IF bel = NotThere THEN {} ELSE {bel + 1})
    IN  IF start = NotThere \/ ends = {}
        THEN <<0, 0>>
        ELSE <<start, start + Len(Prefix) + Min(ends)>>

\* Mutant: what was typed before the reply is taken for a part of it.
ParseOsc11Dropping(bytes) == After(bytes, ReplySpan(bytes)[2])

\* parse_osc11: what is left of the bytes read without the reply.
ParseOsc11(bytes) ==
    SubSeq(bytes, 1, ReplySpan(bytes)[1]) \o After(bytes, ReplySpan(bytes)[2])

-----------------------------------------------------------------------------
HandshakeInit ==
    /\ asking = "polling"
    /\ input = <<>> /\ buffered = <<>> /\ buf = <<>> /\ leftover = <<>>
    /\ answered = FALSE
    /\ keyed = <<>> /\ arrived = <<>> /\ reply = <<>> /\ replyAt = NotThere

Arrives(bytes) == input' = input \o bytes /\ arrived' = arrived \o bytes

Type ==
    /\ Len(keyed) < Typed
    /\ \E key \in Typeable : keyed' = Append(keyed, key) /\ Arrives(<<key>>)
    /\ UNCHANGED <<asking, buffered, buf, answered, leftover, reply, replyAt>>

\* The terminal answers, in time or late or never, in one piece among the keys.
Reply ==
    /\ reply = <<>>
    /\ reply' \in Replies /\ Arrives(reply')
    /\ replyAt' = Len(arrived)
    /\ UNCHANGED <<asking, buffered, buf, answered, leftover, keyed>>

Concluded(bytes) ==
    /\ asking' = "done"
    /\ leftover' = ParseOsc11(bytes)
    /\ answered' = (ReplySpan(bytes) # <<0, 0>>)

\* The poll sees input: of the terminal, not of what std has already taken.
PollsReady ==
    /\ asking = "polling" /\ input # <<>>
    /\ asking' = "reading"
    /\ UNCHANGED <<input, buffered, buf, answered, leftover, keyed, arrived, reply, replyAt>>

\* The deadline, at any moment.
PollsInVain ==
    /\ asking = "polling"
    /\ Concluded(buf)
    /\ UNCHANGED <<input, buffered, buf, keyed, arrived, reply, replyAt>>

\* One read: std gives what it has buffered or, with nothing buffered, takes what there is.
ReadStdin ==
    /\ asking = "reading"
    /\ LET available == IF buffered = <<>> THEN input ELSE buffered
           given == SubSeq(available, 1, Min({READ_LEN, Len(available)}))
       IN  /\ input' = IF buffered = <<>> THEN <<>> ELSE input
           /\ buffered' = After(available, Len(given))
           /\ buf' = buf \o given
           /\ IF EndsReply(buf')
              THEN Concluded(buf')
              ELSE asking' = "polling" /\ UNCHANGED <<answered, leftover>>
    /\ UNCHANGED <<keyed, arrived, reply, replyAt>>

HandshakeNext == Type \/ Reply \/ PollsReady \/ PollsInVain \/ ReadStdin

HandshakeSpec == HandshakeInit /\ [][HandshakeNext]_handshakeVars

-----------------------------------------------------------------------------
\* What the session is to send first, and what it can read after that.
Onward == leftover \o input

\* As long as std keeps nothing back, what goes on to the session is everything that arrived
\* in its order, without the reply if it was whole when the handshake ended - typed before,
\* after and between as the keys may be, terminators included - and with it, whole, if it
\* was not (tty.rs:115-116).
ReplyTakenWhole ==
    asking = "done" /\ buffered = <<>> =>
        /\ answered = (replyAt # NotThere /\ replyAt + Len(reply) <= Len(buf))
        /\ Onward = IF answered
                    THEN SubSeq(arrived, 1, replyAt) \o After(arrived, replyAt + Len(reply))
                    ELSE arrived

\* No byte the user typed is lost: "Any non-response bytes are returned so they can be
\* prepended to the daemon's stdin and not lost" (tty.rs:115-116, main.rs:195-198). Asked of
\* the keys that no reply contains.
NothingLost ==
    LET IsKey(byte) == byte \in Typeable \ {Esc, Backslash, Bel}
    IN  asking = "done" => SelectSeq(Onward, IsKey) = SelectSeq(keyed, IsKey)
=============================================================================
