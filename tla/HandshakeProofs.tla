-------------------------- MODULE HandshakeProofs --------------------------
(***************************************************************************)
(* The question for the background colour: wherever the terminal's reply   *)
(* comes among the keys, and however the reads cut it, what is taken out   *)
(* is the reply and nothing else.                                          *)
(***************************************************************************)
EXTENDS Handshake, SequenceTheorems, WellFoundedInduction, TLAPS

Mark == "]11;rgb:"

\* A user could type what no keyboard sends at once; the reply would then not be told from it.
NoForgery == Mark \notin Typeable

Byte == Typeable \cup {Esc, Mark, "colour", Backslash, Bel}

\* A set of numbers has a least, and this is Min of it.
LEMMA HasLeast ==
    ASSUME NEW T, T \subseteq Nat, T # {} PROVE Min(T) \in T /\ \A y \in T : Min(T) <= y
<1>. DEFINE R == {ss \in Nat \X Nat : ss[1] < ss[2]}
<1>1. IsWellFoundedOn(R, Nat)
    BY NatLessThanWellFounded DEF OpToRel
<1>2. \E x \in T : \A y \in T : ~ (<<y, x>> \in R)
    <2>. HIDE DEF R
    <2>. QED
        BY <1>1, WFMin
<1>3. PICK x \in T : \A y \in T : <<y, x>> \notin R
    BY <1>2
<1>4. \A y \in T : x <= y
    <2>. SUFFICES ASSUME NEW y \in T, ~(x <= y) PROVE FALSE
        OBVIOUS
    <2>1. x \in Nat /\ y \in Nat
        OBVIOUS
    <2>2. y < x
        BY <2>1
    <2>3. <<y, x>> \in R
        BY <2>1, <2>2
    <2>. QED
        BY <1>3, <2>3
<1>. QED
    BY <1>4 DEF Min

LEMMA FindsLeast ==
    ASSUME NEW s, NEW needle
    PROVE  \/ FindSubseq(s, needle) = NotThere /\ Occurrences(s, needle) = {}
           \/ /\ FindSubseq(s, needle) \in Occurrences(s, needle)
              /\ \A other \in Occurrences(s, needle) : FindSubseq(s, needle) <= other
<1>1. Occurrences(s, needle) \subseteq Nat
    BY DEF Occurrences
<1>. QED
    BY <1>1, HasLeast DEF FindSubseq

LEMMA TwoRead ==
    ASSUME NEW S, NEW s \in Seq(S), NEW at \in Nat, NEW x, NEW y, at + 2 <= Len(s)
    PROVE  SubSeq(s, at + 1, at + 2) = <<x, y>> <=> s[at + 1] = x /\ s[at + 2] = y
<1>1. /\ SubSeq(s, at + 1, at + 2) \in Seq(S) /\ Len(SubSeq(s, at + 1, at + 2)) = 2
      /\ SubSeq(s, at + 1, at + 2)[1] = s[at + 1] /\ SubSeq(s, at + 1, at + 2)[2] = s[at + 2]
    OBVIOUS
<1>2. ASSUME NEW t \in Seq(S), Len(t) = 2 PROVE t = <<t[1], t[2]>>
    BY <1>2
<1>. QED
    BY <1>1, <1>2

LEMMA OneRead ==
    ASSUME NEW S, NEW s \in Seq(S), NEW at \in Nat, NEW x, at + 1 <= Len(s)
    PROVE  SubSeq(s, at + 1, at + 1) = <<x>> <=> s[at + 1] = x
<1>1. /\ SubSeq(s, at + 1, at + 1) \in Seq(S) /\ Len(SubSeq(s, at + 1, at + 1)) = 1
      /\ SubSeq(s, at + 1, at + 1)[1] = s[at + 1]
    OBVIOUS
<1>2. ASSUME NEW t \in Seq(S), Len(t) = 1 PROVE t = <<t[1]>>
    BY <1>2
<1>. QED
    BY <1>1, <1>2

\* Where two bytes are, and one.
LEMMA TwoOccur ==
    ASSUME NEW S, NEW s \in Seq(S), NEW x, NEW y, NEW at
    PROVE  at \in Occurrences(s, <<x, y>>)
              <=> at \in 0..(Len(s) - 2) /\ s[at + 1] = x /\ s[at + 2] = y
<1>1. Len(<<x, y>>) = 2 /\ Len(s) \in Nat
    OBVIOUS
<1>2. at \in Occurrences(s, <<x, y>>)
         <=> at \in 0..(Len(s) - 2) /\ SubSeq(s, at + 1, at + 2) = <<x, y>>
    BY <1>1 DEF Occurrences
<1>3. ASSUME at \in 0..(Len(s) - 2)
      PROVE  SubSeq(s, at + 1, at + 2) = <<x, y>> <=> s[at + 1] = x /\ s[at + 2] = y
    <2>1. at \in Nat /\ at + 2 <= Len(s)
        BY <1>1, <1>3
    <2>. QED
        BY <2>1, TwoRead
<1>. QED
    BY <1>2, <1>3

LEMMA OneOccurs ==
    ASSUME NEW S, NEW s \in Seq(S), NEW x, NEW at
    PROVE  at \in Occurrences(s, <<x>>) <=> at \in 0..(Len(s) - 1) /\ s[at + 1] = x
<1>1. Len(<<x>>) = 1 /\ Len(s) \in Nat
    OBVIOUS
<1>2. at \in Occurrences(s, <<x>>)
         <=> at \in 0..(Len(s) - 1) /\ SubSeq(s, at + 1, at + 1) = <<x>>
    BY <1>1 DEF Occurrences
<1>3. at \in 0..(Len(s) - 1) => at \in Nat /\ at + 1 <= Len(s)
    BY <1>1
<1>. QED
    BY <1>2, <1>3, OneRead

LEMMA LensAre ==
    /\ Prefix = <<Esc, Mark>> /\ Len(Prefix) = 2
    /\ ST = <<Esc, Backslash>> /\ Len(ST) = 2
BY DEF Prefix, ST, Mark

LEMMA AfterIs ==
    ASSUME NEW S, NEW s \in Seq(S), NEW n \in 0..Len(s)
    PROVE  /\ After(s, n) \in Seq(S) /\ Len(After(s, n)) = Len(s) - n
           /\ \A i \in 1..(Len(s) - n) : After(s, n)[i] = s[n + i]
BY DEF After

LEMMA Joins ==
    ASSUME NEW S, NEW s \in Seq(S), NEW t \in Seq(S)
    PROVE  /\ s \o t \in Seq(S) /\ Len(s \o t) = Len(s) + Len(t)
           /\ \A i \in 1..Len(s) : (s \o t)[i] = s[i]
           /\ \A i \in 1..Len(t) : (s \o t)[Len(s) + i] = t[i]
OBVIOUS

\* The replies are of four bytes and five, told apart by how they end.
LEMMA RepliesAre ==
    ASSUME NEW r \in Replies
    PROVE  /\ r \in Seq(Byte) /\ Len(r) \in {4, 5}
           /\ r[1] = Esc /\ r[2] = Mark /\ r[3] = "colour"
           /\ Len(r) = 5 => r[4] = Esc /\ r[5] = Backslash
           /\ Len(r) = 4 => r[4] = Bel
<1>1. /\ Esc \in Byte /\ Mark \in Byte /\ "colour" \in Byte /\ Backslash \in Byte /\ Bel \in Byte
    BY DEF Byte
<1>2. Prefix \in Seq(Byte) /\ ST \in Seq(Byte)
    BY <1>1, LensAre
<1>3. /\ Len(Prefix) = 2 /\ Prefix[1] = Esc /\ Prefix[2] = Mark
      /\ Len(ST) = 2 /\ ST[1] = Esc /\ ST[2] = Backslash
    BY LensAre
<1>4. CASE r = (Prefix \o <<"colour">>) \o ST
    <2>. DEFINE c == <<"colour">>
                head == Prefix \o c
    <2>1. c \in Seq(Byte)
        BY <1>1
    <2>2. Len(c) = 1 /\ c[1] = "colour"
        OBVIOUS
    <2>. HIDE DEF c
    <2>3. /\ head \in Seq(Byte) /\ Len(head) = Len(Prefix) + Len(c)
          /\ \A i \in 1..Len(Prefix) : head[i] = Prefix[i]
          /\ \A i \in 1..Len(c) : head[Len(Prefix) + i] = c[i]
        BY <1>2, <2>1, Joins
    <2>. HIDE DEF head
    <2>4. Len(head) = 3 /\ head[1] = Esc /\ head[2] = Mark /\ head[3] = "colour"
        BY <1>3, <2>2, <2>3
    <2>5. /\ r \in Seq(Byte) /\ Len(r) = Len(head) + Len(ST)
          /\ \A i \in 1..Len(head) : r[i] = head[i]
          /\ \A i \in 1..Len(ST) : r[Len(head) + i] = ST[i]
        <3>1. r = head \o ST
            BY <1>4 DEF head, c
        <3>2. /\ head \o ST \in Seq(Byte) /\ Len(head \o ST) = Len(head) + Len(ST)
              /\ \A i \in 1..Len(head) : (head \o ST)[i] = head[i]
              /\ \A i \in 1..Len(ST) : (head \o ST)[Len(head) + i] = ST[i]
            <4>1. head \in Seq(Byte)
                BY <2>3
            <4>. QED
                BY <1>2, <4>1, Joins
        <3>. QED
            BY <3>1, <3>2
    <2>. QED
        BY <1>3, <2>4, <2>5
<1>5. CASE r = Prefix \o <<"colour", Bel>>
    <2>. DEFINE c == <<"colour", Bel>>
    <2>1. c \in Seq(Byte)
        BY <1>1
    <2>2. Len(c) = 2 /\ c[1] = "colour" /\ c[2] = Bel
        OBVIOUS
    <2>3. r = Prefix \o c
        BY <1>5
    <2>. HIDE DEF c
    <2>4. /\ Prefix \o c \in Seq(Byte) /\ Len(Prefix \o c) = Len(Prefix) + Len(c)
          /\ \A i \in 1..Len(Prefix) : (Prefix \o c)[i] = Prefix[i]
          /\ \A i \in 1..Len(c) : (Prefix \o c)[Len(Prefix) + i] = c[i]
        BY <1>2, <2>1, Joins
    <2>5. /\ r \in Seq(Byte) /\ Len(r) = Len(Prefix) + Len(c)
          /\ \A i \in 1..Len(Prefix) : r[i] = Prefix[i]
          /\ \A i \in 1..Len(c) : r[Len(Prefix) + i] = c[i]
        BY <2>3, <2>4
    <2>. QED
        BY <1>3, <2>2, <2>5
<1>. QED
    BY <1>4, <1>5 DEF Replies

\* Where the reply r, or what there is of it, is in bytes: after n of them.
IsIn(r, n, bytes) ==
    /\ bytes \in Seq(Byte) /\ r \in Replies /\ n \in 0..Len(bytes)
    /\ \A i \in 1..Len(bytes) :
         IF n < i /\ i <= n + Len(r) THEN bytes[i] = r[i - n] ELSE bytes[i] \in Typeable

LEMMA ByteNames ==
    /\ NoForgery => Mark \notin Typeable
    /\ Esc # Mark /\ Esc # "colour" /\ Esc # Backslash /\ Esc # Bel /\ Mark # "colour"
    /\ Mark # Backslash /\ Mark # Bel /\ Bel # "colour" /\ Bel # Backslash
BY DEF NoForgery, Mark, Esc, Backslash, Bel

LEMMA MarkIsSecond ==
    ASSUME NEW r \in Replies, NEW k \in 1..Len(r), r[k] = Mark PROVE k = 2
<1>1. k \in {1, 2, 3, 4, 5}
    BY RepliesAre
<1>2. r[1] # Mark /\ r[3] # Mark /\ (k = 4 => r[4] # Mark) /\ (k = 5 => r[5] # Mark)
    BY RepliesAre, ByteNames
<1>. QED
    BY <1>1, <1>2

\* The prefix is found there and nowhere else, once two bytes of the reply have come.
LEMMA PrefixFound ==
    ASSUME NoForgery, NEW r, NEW n, NEW bytes, IsIn(r, n, bytes)
    PROVE  FindSubseq(bytes, Prefix) = IF n + 2 <= Len(bytes) THEN n ELSE NotThere
<1>. DEFINE len == Len(bytes)
<1>1. len \in Nat /\ n \in Nat /\ n <= len /\ Len(r) \in {4, 5} /\ r[1] = Esc /\ r[2] = Mark
    BY RepliesAre DEF IsIn
<1>2. \A i \in 1..len : IF n < i /\ i <= n + Len(r) THEN bytes[i] = r[i - n]
                                                     ELSE bytes[i] \in Typeable
    BY DEF IsIn
<1>3. bytes \in Seq(Byte)
    BY DEF IsIn
<1>4. \A at \in Occurrences(bytes, Prefix) : at = n /\ n + 2 <= len
    <2>. SUFFICES ASSUME NEW at \in Occurrences(bytes, Prefix) PROVE at = n /\ n + 2 <= len
        OBVIOUS
    <2>1. at \in 0..(len - 2) /\ bytes[at + 2] = Mark
        BY <1>3, TwoOccur, LensAre
    <2>2. PICK i \in 1..len : i = at + 2
        BY <1>1, <2>1
    <2>3. bytes[i] \notin Typeable
        BY <2>1, <2>2, ByteNames
    <2>4. n < i /\ i <= n + Len(r) /\ r[i - n] = Mark
        BY <1>2, <2>1, <2>2, <2>3
    <2>5. PICK k \in 1..Len(r) : k = i - n
        BY <1>1, <2>4
    <2>6. r[k] = Mark
        BY <2>4, <2>5
    <2>7. k = 2
        BY <2>6, MarkIsSecond DEF IsIn
    <2>. QED
        BY <1>1, <2>1, <2>2, <2>5, <2>7
<1>5. n + 2 <= len => n \in Occurrences(bytes, Prefix)
    <2>. SUFFICES ASSUME n + 2 <= len PROVE n \in Occurrences(bytes, Prefix)
        OBVIOUS
    <2>1. bytes[n + 1] = r[1] /\ bytes[n + 2] = r[2]
        BY <1>1, <1>2
    <2>. QED
        BY <1>1, <1>3, <2>1, TwoOccur, LensAre
<1>. QED
    BY <1>4, <1>5, FindsLeast

\* What follows the prefix: the colour, and the reply's own terminator before any other.
LEMMA EndFound ==
    ASSUME NEW r, NEW n, NEW bytes, IsIn(r, n, bytes), n + 2 <= Len(bytes),
           NEW rest, NEW st, NEW bel, NEW ends,
           /\ rest = After(bytes, n + 2) /\ st = FindSubseq(rest, ST)
           /\ bel = FindSubseq(rest, <<Bel>>)
           /\ ends = (IF st = NotThere THEN {} ELSE {st + 2})
                      \cup (IF bel = NotThere THEN {} ELSE {bel + 1})
    PROVE  IF n + Len(r) <= Len(bytes) THEN ends # {} /\ Min(ends) = Len(r) - 2 ELSE ends = {}
<1>. DEFINE len == Len(rest)
            left == Len(r) - 2
<1>1. /\ Len(bytes) \in Nat /\ n \in Nat /\ n + 2 \in 0..Len(bytes)
      /\ Len(r) \in {4, 5} /\ bytes \in Seq(Byte) /\ r \in Replies
    BY RepliesAre DEF IsIn
<1>2. /\ rest \in Seq(Byte) /\ Len(rest) = Len(bytes) - (n + 2)
      /\ \A i \in 1..(Len(bytes) - (n + 2)) : rest[i] = bytes[n + 2 + i]
    BY <1>1, AfterIs
<1>3. len \in Nat /\ left \in {2, 3} /\ (n + Len(r) <= Len(bytes) <=> left <= len)
    BY <1>1, <1>2
<1>4. \A i \in 1..len : i <= left => rest[i] = r[i + 2]
    <2>. SUFFICES ASSUME NEW i \in 1..len, i <= left PROVE rest[i] = r[i + 2]
        OBVIOUS
    <2>1. rest[i] = bytes[n + 2 + i]
        BY <1>2
    <2>2. PICK k \in 1..Len(bytes) : k = n + 2 + i
        BY <1>1, <1>2
    <2>3. n < k /\ k <= n + Len(r) /\ k - n = i + 2
        BY <1>1, <2>2
    <2>4. bytes[k] = r[k - n]
        BY <2>3 DEF IsIn
    <2>. QED
        BY <2>1, <2>2, <2>3, <2>4
<1>5. /\ r[3] = "colour" /\ (left = 3 => r[4] = Esc /\ r[5] = Backslash)
      /\ (left = 2 => r[4] = Bel)
    BY <1>1, RepliesAre
<1>. HIDE DEF len, left
<1>6. /\ 1 <= len => rest[1] = "colour"
      /\ 2 <= len => rest[2] = IF left = 3 THEN Esc ELSE Bel
      /\ 3 <= len /\ left = 3 => rest[3] = Backslash
    BY <1>3, <1>4, <1>5
<1>7. \A at : at \in Occurrences(rest, ST)
                 => at \in 0..(len - 2) /\ rest[at + 1] = Esc /\ rest[at + 2] = Backslash
    BY <1>2, TwoOccur, LensAre DEF len
<1>8. \A at : at \in Occurrences(rest, <<Bel>>) => at \in 0..(len - 1) /\ rest[at + 1] = Bel
    BY <1>2, OneOccurs DEF len
<1>9. \A at \in Occurrences(rest, ST) : at \in Nat /\ at + 2 <= len
                                         /\ at >= (IF left = 3 THEN 1 ELSE 2)
    BY <1>3, <1>6, <1>7, ByteNames
<1>10. \A at \in Occurrences(rest, <<Bel>>) : at \in Nat /\ at + 1 <= len
                                              /\ at >= (IF left = 3 THEN 3 ELSE 1)
    BY <1>3, <1>6, <1>8, ByteNames
<1>11. CASE left <= len
    <2>1. CASE left = 3
        <3>1. 1 \in Occurrences(rest, ST)
            BY <1>2, <1>3, <1>6, <1>11, <2>1, TwoOccur, LensAre DEF len
        <3>2. st = 1
            BY <1>9, <2>1, <3>1, FindsLeast
        <3>3. bel = NotThere \/ (bel \in Nat /\ bel >= 3)
            BY <1>10, <2>1, FindsLeast
        <3>4. ends \subseteq Nat /\ 3 \in ends /\ \A e \in ends : e >= 3
            BY <3>2, <3>3 DEF NotThere
        <3>5. Min(ends) \in ends /\ Min(ends) <= 3
            BY <3>4, HasLeast
        <3>6. Min(ends) = 3
            <4>1. Min(ends) \in Nat /\ Min(ends) >= 3 /\ Min(ends) <= 3
                BY <3>4, <3>5
            <4>. QED
                BY <4>1
        <3>. QED
            BY <1>3, <1>11, <2>1, <3>4, <3>6 DEF left
    <2>2. CASE left = 2
        <3>1. 1 \in Occurrences(rest, <<Bel>>)
            BY <1>2, <1>3, <1>6, <1>11, <2>2, OneOccurs DEF len
        <3>2. bel = 1
            BY <1>10, <2>2, <3>1, FindsLeast
        <3>3. st = NotThere \/ (st \in Nat /\ st >= 2)
            BY <1>9, <2>2, FindsLeast
        <3>4. ends \subseteq Nat /\ 2 \in ends /\ \A e \in ends : e >= 2
            BY <3>2, <3>3 DEF NotThere
        <3>5. Min(ends) \in ends /\ Min(ends) <= 2
            BY <3>4, HasLeast
        <3>6. Min(ends) = 2
            <4>1. Min(ends) \in Nat /\ Min(ends) >= 2 /\ Min(ends) <= 2
                BY <3>4, <3>5
            <4>. QED
                BY <4>1
        <3>. QED
            BY <1>3, <1>11, <2>2, <3>4, <3>6 DEF left
    <2>. QED
        BY <1>3, <2>1, <2>2
<1>12. CASE ~(left <= len)
    <2>1. Occurrences(rest, ST) = {} /\ Occurrences(rest, <<Bel>>) = {}
        BY <1>3, <1>9, <1>10, <1>12
    <2>2. st = NotThere /\ bel = NotThere
        BY <2>1, FindsLeast
    <2>. QED
        BY <1>3, <1>12, <2>2
<1>. QED
    BY <1>11, <1>12

LEMMA SpanFound ==
    ASSUME NoForgery, NEW r, NEW n, NEW bytes, IsIn(r, n, bytes)
    PROVE  ReplySpan(bytes) = IF n + Len(r) <= Len(bytes) THEN <<n, n + Len(r)>> ELSE <<0, 0>>
<1>. DEFINE rest == After(bytes, n + 2)
            st == FindSubseq(rest, ST)
            bel == FindSubseq(rest, <<Bel>>)
            ends == (IF st = NotThere THEN {} ELSE {st + 2})
                    \cup (IF bel = NotThere THEN {} ELSE {bel + 1})
<1>1. /\ Len(bytes) \in Nat /\ n \in Nat /\ Len(r) \in {4, 5}
    BY RepliesAre DEF IsIn
<1>2. FindSubseq(bytes, Prefix) = IF n + 2 <= Len(bytes) THEN n ELSE NotThere
    BY PrefixFound
<1>3. CASE n + 2 <= Len(bytes)
    <2>1. IF n + Len(r) <= Len(bytes) THEN ends # {} /\ Min(ends) = Len(r) - 2 ELSE ends = {}
        <3>1. /\ rest = After(bytes, n + 2) /\ st = FindSubseq(rest, ST)
              /\ bel = FindSubseq(rest, <<Bel>>)
              /\ ends = (IF st = NotThere THEN {} ELSE {st + 2})
                         \cup (IF bel = NotThere THEN {} ELSE {bel + 1})
            OBVIOUS
        <3>. HIDE DEF st, bel, ends, rest
        <3>. QED
            BY <1>3, <3>1, EndFound
    <2>2. ReplySpan(bytes) = IF n = NotThere \/ ends = {} THEN <<0, 0>>
                             ELSE <<n, n + 2 + Min(ends)>>
        BY <1>2, <1>3, LensAre DEF ReplySpan
    <2>3. n # NotThere
        BY <1>1 DEF NotThere
    <2>. HIDE DEF ends
    <2>. QED
        BY <1>1, <2>1, <2>2, <2>3
<1>4. CASE ~(n + 2 <= Len(bytes))
    <2>1. ~(n + Len(r) <= Len(bytes))
        BY <1>1, <1>4
    <2>2. ReplySpan(bytes) = <<0, 0>>
        BY <1>2, <1>4 DEF ReplySpan
    <2>. QED
        BY <2>1, <2>2
<1>. QED
    BY <1>3, <1>4

\* What has been read of the input is the first that arrived; and the reply, if there is one,
\* is whole in what arrived.
Asked ==
    /\ asking \in {"polling", "reading", "done"}
    /\ input \in Seq(Byte) /\ buffered \in Seq(Byte) /\ buf \in Seq(Byte)
    /\ arrived = buf \o (buffered \o input)

ReplyIn ==
    \/ /\ reply = <<>> /\ replyAt = NotThere
       /\ \A i \in 1..Len(arrived) : arrived[i] \in Typeable
    \/ IsIn(reply, replyAt, arrived) /\ replyAt + Len(reply) <= Len(arrived)

HandshakeInv ==
    /\ Asked /\ ReplyIn
    /\ asking = "done" => /\ leftover = ParseOsc11(buf)
                          /\ answered = (ReplySpan(buf) # <<0, 0>>)

LEMMA ArrivedIs ==
    Asked => /\ buffered \o input \in Seq(Byte) /\ arrived \in Seq(Byte)
             /\ Len(arrived) = Len(buf) + Len(buffered \o input)
             /\ \A i \in 1..Len(buf) : arrived[i] = buf[i]
<1>. SUFFICES ASSUME Asked
              PROVE  /\ buffered \o input \in Seq(Byte) /\ arrived \in Seq(Byte)
                     /\ Len(arrived) = Len(buf) + Len(buffered \o input)
                     /\ \A i \in 1..Len(buf) : arrived[i] = buf[i]
    OBVIOUS
<1>. DEFINE later == buffered \o input
<1>1. input \in Seq(Byte) /\ buffered \in Seq(Byte) /\ buf \in Seq(Byte) /\ arrived = buf \o later
    BY DEF Asked
<1>2. later \in Seq(Byte)
    BY <1>1, Joins
<1>. HIDE DEF later
<1>3. /\ buf \o later \in Seq(Byte) /\ Len(buf \o later) = Len(buf) + Len(later)
      /\ \A i \in 1..Len(buf) : (buf \o later)[i] = buf[i]
    <2>1. buf \in Seq(Byte)
        BY <1>1
    <2>. QED
        BY <1>2, <2>1, Joins
<1>. QED
    BY <1>1, <1>2, <1>3 DEF later

\* Where the reply is in what has been read of it.
LEMMA ReadIsIn ==
    ASSUME NEW r, NEW n, NEW bytes, IsIn(r, n, bytes), NEW read \in Seq(Byte),
           Len(read) <= Len(bytes), \A i \in 1..Len(read) : read[i] = bytes[i]
    PROVE  IsIn(r, IF n <= Len(read) THEN n ELSE Len(read), read)
<1>1. Len(read) \in Nat /\ Len(bytes) \in Nat /\ n \in Nat /\ Len(r) \in {4, 5} /\ r \in Replies
    BY RepliesAre DEF IsIn
<1>2. ASSUME NEW i \in 1..Len(read)
      PROVE  IF n < i /\ i <= n + Len(r) THEN read[i] = r[i - n] ELSE read[i] \in Typeable
    <2>1. i \in 1..Len(bytes) /\ read[i] = bytes[i]
        BY <1>1
    <2>. QED
        BY <2>1 DEF IsIn
<1>3. CASE n <= Len(read)
    BY <1>1, <1>2, <1>3 DEF IsIn
<1>4. CASE ~(n <= Len(read))
    <2>1. ASSUME NEW i \in 1..Len(read) PROVE ~(n < i) /\ ~(Len(read) < i)
        BY <1>1, <1>4
    <2>2. \A i \in 1..Len(read) : read[i] \in Typeable
        BY <1>2, <2>1
    <2>. QED
        BY <1>1, <1>4, <2>1, <2>2 DEF IsIn
<1>. QED
    BY <1>3, <1>4

LEMMA Beyond == ASSUME NEW m \in Nat, NEW k \in Nat, NEW len \in {4, 5}, k >= m PROVE ~(k + len <= m)
OBVIOUS

LEMMA BufSpan ==
    ASSUME NoForgery, Asked, ReplyIn
    PROVE  ReplySpan(buf) = IF replyAt # NotThere /\ replyAt + Len(reply) <= Len(buf)
                            THEN <<replyAt, replyAt + Len(reply)>> ELSE <<0, 0>>
<1>1. /\ buf \in Seq(Byte) /\ Len(buf) \in Nat /\ Len(buf) <= Len(arrived)
      /\ \A i \in 1..Len(buf) : arrived[i] = buf[i]
    <2>1. Len(buffered \o input) \in Nat /\ buf \in Seq(Byte) /\ Len(buf) \in Nat
        BY ArrivedIs DEF Asked
    <2>. QED
        BY <2>1, ArrivedIs
<1>2. CASE /\ reply = <<>> /\ replyAt = NotThere
           /\ \A i \in 1..Len(arrived) : arrived[i] \in Typeable
    <2>1. PICK r \in Replies : TRUE
        BY DEF Replies
    <2>2. Len(r) \in {4, 5}
        BY RepliesAre
    <2>3. \A i \in 1..Len(buf) : buf[i] \in Typeable /\ ~(Len(buf) < i)
        BY <1>1, <1>2
    <2>4. IsIn(r, Len(buf), buf)
        BY <1>1, <2>3 DEF IsIn
    <2>5. ~(Len(buf) + Len(r) <= Len(buf))
        <3>1. Len(buf) \in Nat
            BY <1>1
        <3>2. Len(buf) >= Len(buf)
            BY <3>1
        <3>. QED
            BY <2>2, <3>1, <3>2, Beyond
    <2>. QED
        BY <1>2, <2>4, <2>5, SpanFound
<1>3. CASE IsIn(reply, replyAt, arrived)
    <2>. DEFINE n == IF replyAt <= Len(buf) THEN replyAt ELSE Len(buf)
    <2>1. IsIn(reply, n, buf)
        BY <1>1, <1>3, ReadIsIn
    <2>2. ReplySpan(buf) = IF n + Len(reply) <= Len(buf) THEN <<n, n + Len(reply)>> ELSE <<0, 0>>
        <3>. HIDE DEF n
        <3>. QED
            BY <2>1, SpanFound
    <2>3. replyAt \in Nat /\ Len(reply) \in {4, 5}
        BY <1>3, RepliesAre DEF IsIn
    <2>4. replyAt # NotThere
        BY <2>3 DEF NotThere
    <2>5. CASE replyAt <= Len(buf)
        BY <2>2, <2>4, <2>5
    <2>6. CASE ~(replyAt <= Len(buf))
        <3>1. ~(n + Len(reply) <= Len(buf)) /\ ~(replyAt + Len(reply) <= Len(buf))
            <4>1. /\ Len(buf) \in Nat /\ replyAt \in Nat /\ n \in Nat
                  /\ n >= Len(buf) /\ replyAt >= Len(buf)
                BY <1>1, <2>3, <2>6
            <4>. HIDE DEF n
            <4>2. ~(n + Len(reply) <= Len(buf))
                BY <2>3, <4>1, Beyond
            <4>3. ~(replyAt + Len(reply) <= Len(buf))
                BY <2>3, <4>1, Beyond
            <4>. QED
                BY <4>2, <4>3
        <3>. QED
            BY <2>2, <3>1
    <2>. QED
        BY <2>5, <2>6
<1>. QED
    BY <1>2, <1>3 DEF ReplyIn

LEMMA AskedInit == HandshakeInit => HandshakeInv
<1>. SUFFICES ASSUME HandshakeInit PROVE HandshakeInv
    OBVIOUS
<1>1. <<>> \in Seq(Byte) /\ Len(<<>>) = 0
    OBVIOUS
<1>2. <<>> = <<>> \o (<<>> \o <<>>)
    OBVIOUS
<1>. QED
    BY <1>1, <1>2 DEF HandshakeInit, HandshakeInv, Asked, ReplyIn

\* The keys, and the reply, come after all that arrived.
LEMMA ArrivesAsked ==
    ASSUME Asked, NEW bytes \in Seq(Byte), Arrives(bytes), UNCHANGED <<asking, buffered, buf>>
    PROVE  Asked' /\ arrived' = arrived \o bytes
<1>1. input \in Seq(Byte) /\ buffered \in Seq(Byte) /\ buf \in Seq(Byte)
    BY DEF Asked
<1>2. (buffered \o input) \o bytes = buffered \o (input \o bytes)
    BY <1>1, ConcatAssociative
<1>3. (buf \o (buffered \o input)) \o bytes = buf \o ((buffered \o input) \o bytes)
    <2>1. buffered \o input \in Seq(Byte)
        BY <1>1, Joins
    <2>. QED
        BY <1>1, <2>1, ConcatAssociative
<1>4. input \o bytes \in Seq(Byte)
    BY <1>1, Joins
<1>. QED
    BY <1>1, <1>2, <1>3, <1>4 DEF Asked, Arrives

LEMMA TypeKeeps ==
    ASSUME HandshakeInv, Type PROVE HandshakeInv'
<1>1. PICK key \in Typeable : Arrives(<<key>>)
    BY DEF Type
<1>2. <<key>> \in Seq(Byte) /\ Len(<<key>>) = 1 /\ <<key>>[1] = key
    BY DEF Byte
<1>3. Asked' /\ arrived' = arrived \o <<key>>
    BY <1>1, <1>2, ArrivesAsked DEF Type, HandshakeInv
<1>4. arrived \in Seq(Byte) /\ Len(arrived) \in Nat
    BY ArrivedIs DEF HandshakeInv
<1>5. /\ arrived' \in Seq(Byte) /\ Len(arrived') = Len(arrived) + 1
      /\ \A i \in 1..Len(arrived) : arrived'[i] = arrived[i]
      /\ arrived'[Len(arrived) + 1] = key
    BY <1>3, <1>4, <1>2
<1>6. ReplyIn'
    <2>1. \A i \in 1..(Len(arrived) + 1) : i \in 1..Len(arrived) \/ i = Len(arrived) + 1
        BY <1>4
    <2>2. CASE /\ reply = <<>> /\ replyAt = NotThere
               /\ \A i \in 1..Len(arrived) : arrived[i] \in Typeable
        BY <1>5, <2>1, <2>2 DEF ReplyIn, Type
    <2>3. CASE IsIn(reply, replyAt, arrived) /\ replyAt + Len(reply) <= Len(arrived)
        <3>1. reply' = reply /\ replyAt' = replyAt
            BY DEF Type
        <3>2. replyAt \in Nat /\ Len(reply) \in Nat /\ replyAt <= Len(arrived) /\ reply \in Replies
            BY <2>3, RepliesAre DEF IsIn
        <3>3. ~(Len(arrived) + 1 <= replyAt + Len(reply))
            BY <1>4, <2>3, <3>2
        <3>4. ASSUME NEW i \in 1..(Len(arrived) + 1)
              PROVE  IF replyAt < i /\ i <= replyAt + Len(reply)
                     THEN arrived'[i] = reply[i - replyAt] ELSE arrived'[i] \in Typeable
            BY <1>5, <2>1, <2>3, <3>3 DEF IsIn
        <3>5. replyAt \in 0..(Len(arrived) + 1) /\ replyAt + Len(reply) <= Len(arrived) + 1
            BY <1>4, <2>3, <3>2
        <3>. QED
            BY <1>5, <3>1, <3>2, <3>4, <3>5 DEF IsIn, ReplyIn
    <2>. QED
        BY <2>2, <2>3 DEF HandshakeInv, ReplyIn
<1>. QED
    BY <1>3, <1>6 DEF Type, HandshakeInv

LEMMA ReplyKeeps ==
    ASSUME HandshakeInv, Reply PROVE HandshakeInv'
<1>. DEFINE len == Len(arrived)
<1>1. reply' \in Replies /\ Arrives(reply') /\ replyAt' = len /\ reply = <<>>
    BY DEF Reply
<1>2. reply' \in Seq(Byte) /\ Len(reply') \in {4, 5}
    BY <1>1, RepliesAre
<1>3. Asked' /\ arrived' = arrived \o reply'
    BY <1>1, <1>2, ArrivesAsked DEF Reply, HandshakeInv
<1>4. arrived \in Seq(Byte) /\ len \in Nat
    BY ArrivedIs DEF HandshakeInv
<1>5. /\ arrived' \in Seq(Byte) /\ Len(arrived') = len + Len(reply')
      /\ \A i \in 1..len : arrived'[i] = arrived[i]
      /\ \A i \in 1..Len(reply') : arrived'[len + i] = reply'[i]
    <2>1. reply' \in Seq(Byte) /\ arrived \in Seq(Byte)
        BY <1>2, <1>4
    <2>2. /\ arrived \o reply' \in Seq(Byte) /\ Len(arrived \o reply') = Len(arrived) + Len(reply')
          /\ \A i \in 1..Len(arrived) : (arrived \o reply')[i] = arrived[i]
          /\ \A i \in 1..Len(reply') : (arrived \o reply')[Len(arrived) + i] = reply'[i]
        BY <2>1, Joins
    <2>. QED
        BY <1>3, <2>2
<1>6. \A i \in 1..len : arrived[i] \in Typeable
    <2>1. <<>> \notin Replies
        BY RepliesAre
    <2>. QED
        BY <1>1, <2>1 DEF HandshakeInv, ReplyIn, IsIn
<1>. HIDE DEF len
<1>7. ASSUME NEW i \in 1..(len + Len(reply'))
      PROVE  IF len < i /\ i <= len + Len(reply')
             THEN arrived'[i] = reply'[i - len] ELSE arrived'[i] \in Typeable
    <2>1. CASE len < i
        <3>1. PICK k \in 1..Len(reply') : k = i - len
            BY <1>2, <1>4, <2>1
        <3>2. i = len + k /\ i <= len + Len(reply')
            BY <1>2, <1>4, <3>1
        <3>. QED
            BY <1>5, <2>1, <3>1, <3>2
    <2>2. CASE ~(len < i)
        <3>1. i \in 1..len
            BY <1>4, <2>2
        <3>. QED
            BY <1>5, <1>6, <2>2, <3>1
    <2>. QED
        BY <2>1, <2>2
<1>8. ReplyIn'
    <2>1. len \in 0..(len + Len(reply'))
        BY <1>2, <1>4
    <2>. QED
        BY <1>1, <1>5, <1>7, <2>1 DEF ReplyIn, IsIn
<1>. QED
    BY <1>3, <1>8 DEF Reply, HandshakeInv

\* A read gives the first of what there is, and keeps the rest.
LEMMA GivenIs ==
    ASSUME NEW available \in Seq(Byte), NEW n \in 0..Len(available)
    PROVE  /\ SubSeq(available, 1, n) \in Seq(Byte) /\ Len(SubSeq(available, 1, n)) = n
           /\ After(available, n) \in Seq(Byte)
           /\ SubSeq(available, 1, n) \o After(available, n) = available
<1>1. SubSeq(available, 1, n) \in Seq(Byte) /\ Len(SubSeq(available, 1, n)) = n
    OBVIOUS
<1>2. SubSeq(available, 1, n) \o SubSeq(available, n + 1, Len(available))
         = SubSeq(available, 1, Len(available))
    <2>1. /\ 1 \in 1..(Len(available) + 1) /\ n \in (1 - 1)..Len(available)
          /\ Len(available) \in n..Len(available)
        OBVIOUS
    <2>. QED
        BY <2>1, ConcatAdjacentSubSeq
<1>3. SubSeq(available, 1, Len(available)) = available
    BY SubSeqFull
<1>. QED
    BY <1>1, <1>2, <1>3, AfterIs DEF After

LEMMA ReadKeeps ==
    ASSUME HandshakeInv, ReadStdin PROVE HandshakeInv'
<1>. DEFINE available == IF buffered = <<>> THEN input ELSE buffered
            n == Min({READ_LEN, Len(available)})
            given == SubSeq(available, 1, n)
            later == After(available, n)
<1>1. input \in Seq(Byte) /\ buffered \in Seq(Byte) /\ buf \in Seq(Byte)
    BY DEF HandshakeInv, Asked
<1>2. available \in Seq(Byte)
    BY <1>1
<1>3. n \in 0..Len(available)
    <2>. HIDE DEF available
    <2>1. Len(available) \in Nat
        BY <1>2
    <2>2. {READ_LEN, Len(available)} \subseteq Nat
        BY <2>1, HandshakeAssumption
    <2>3. n \in {READ_LEN, Len(available)} /\ n <= Len(available)
        BY <2>2, HasLeast
    <2>. QED
        BY <2>1, <2>2, <2>3
<1>4. /\ input' = IF buffered = <<>> THEN <<>> ELSE input
      /\ buffered' = After(available, Len(given)) /\ buf' = buf \o given
    BY DEF ReadStdin
<1>5. /\ given \in Seq(Byte) /\ Len(given) = n /\ later \in Seq(Byte)
      /\ given \o later = available
    <2>. HIDE DEF available, n
    <2>. QED
        BY <1>2, <1>3, GivenIs
<1>6. buffered \o input = available \o input'
    <2>1. CASE buffered = <<>>
        BY <1>1, <1>4, <2>1, ConcatEmptySeq
    <2>2. CASE buffered # <<>>
        BY <1>4, <2>2
    <2>. QED
        BY <2>1, <2>2
<1>7. input' \in Seq(Byte)
    <2>1. <<>> \in Seq(Byte)
        OBVIOUS
    <2>. QED
        BY <1>1, <1>4, <2>1
<1>. HIDE DEF given, later, n, available
<1>8. buffered' = later
    BY <1>4, <1>5 DEF later
<1>9. arrived = (buf \o given) \o (later \o input')
    <2>1. arrived = buf \o ((given \o later) \o input')
        BY <1>5, <1>6 DEF HandshakeInv, Asked
    <2>. given \in Seq(Byte) /\ later \in Seq(Byte)
        BY <1>5
    <2>2. (given \o later) \o input' = given \o (later \o input')
        BY <1>7, ConcatAssociative
    <2>3. later \o input' \in Seq(Byte)
        BY <1>5, <1>7, Joins
    <2>4. (buf \o given) \o (later \o input') = buf \o (given \o (later \o input'))
        <3>. DEFINE rest == later \o input'
        <3>1. rest \in Seq(Byte) /\ buf \in Seq(Byte)
            BY <1>1, <2>3
        <3>. HIDE DEF rest
        <3>2. (buf \o given) \o rest = buf \o (given \o rest)
            BY <3>1, ConcatAssociative
        <3>. QED
            BY <3>2 DEF rest
    <2>. QED
        BY <2>1, <2>2, <2>4
<1>10. buf' \in Seq(Byte)
    BY <1>1, <1>4, <1>5, Joins
<1>11. asking' \in {"polling", "done"} /\ UNCHANGED <<arrived, reply, replyAt>>
    BY DEF ReadStdin, Concluded
<1>12. Asked'
    BY <1>4, <1>5, <1>7, <1>8, <1>9, <1>10, <1>11 DEF Asked
<1>13. asking' = "done" => leftover' = ParseOsc11(buf') /\ answered' = (ReplySpan(buf') # <<0, 0>>)
    BY DEF ReadStdin, Concluded
<1>. QED
    BY <1>11, <1>12, <1>13 DEF HandshakeInv, ReplyIn

LEMMA HandshakeInvNext == HandshakeInv /\ [HandshakeNext]_handshakeVars => HandshakeInv'
<1>. SUFFICES ASSUME HandshakeInv, [HandshakeNext]_handshakeVars PROVE HandshakeInv'
    OBVIOUS
<1>. USE DEF HandshakeInv, Asked, ReplyIn
<1>1. CASE PollsReady
    BY <1>1 DEF PollsReady
<1>2. CASE PollsInVain
    BY <1>2 DEF PollsInVain, Concluded
<1>3. CASE UNCHANGED handshakeVars
    BY <1>3 DEF handshakeVars
<1>. QED
    BY <1>1, <1>2, <1>3, TypeKeeps, ReplyKeeps, ReadKeeps DEF HandshakeNext

\* What is left of all that arrived, read and unread, when the reply is taken out of what was read.
Cuts(read, unread, all, n, m) ==
    all = read \o unread
        => (SubSeq(read, 1, n) \o After(read, m)) \o unread
              = SubSeq(all, 1, n) \o After(all, m)

LEMMA WithoutIs ==
    ASSUME NEW read \in Seq(Byte), NEW unread \in Seq(Byte), NEW n \in 0..Len(read),
           NEW m \in 0..Len(read), NEW all
    PROVE  Cuts(read, unread, all, n, m)
<1>. SUFFICES ASSUME all = read \o unread
              PROVE  (SubSeq(read, 1, n) \o After(read, m)) \o unread
                        = SubSeq(all, 1, n) \o After(all, m)
    BY DEF Cuts
<1>1. all \in Seq(Byte)
    BY Joins
<1>2. Len(all) = Len(read) + Len(unread) /\ \A i \in 1..Len(read) : all[i] = read[i]
    BY Joins
<1>3. \A i \in 1..Len(unread) : all[Len(read) + i] = unread[i]
    BY Joins
<1>4. n \in 0..Len(all) /\ m \in 0..Len(all) /\ Len(all) \in Nat /\ Len(read) \in Nat
      /\ Len(unread) \in Nat /\ n \in Nat /\ m \in Nat
    BY <1>1, <1>2
<1>5. SubSeq(all, 1, n) = SubSeq(read, 1, n)
    <2>1. /\ SubSeq(all, 1, n) \in Seq(Byte) /\ Len(SubSeq(all, 1, n)) = n
          /\ \A i \in 1..n : SubSeq(all, 1, n)[i] = all[i]
        BY <1>1, <1>4
    <2>2. /\ SubSeq(read, 1, n) \in Seq(Byte) /\ Len(SubSeq(read, 1, n)) = n
          /\ \A i \in 1..n : SubSeq(read, 1, n)[i] = read[i]
        OBVIOUS
    <2>3. \A i \in 1..n : i \in 1..Len(read)
        BY <1>4
    <2>. QED
        BY <1>2, <2>1, <2>2, <2>3, SeqEqual
<1>6. After(all, m) = After(read, m) \o unread
    <2>. DEFINE rest == After(read, m)
    <2>1. /\ rest \in Seq(Byte) /\ Len(rest) = Len(read) - m
          /\ \A i \in 1..(Len(read) - m) : rest[i] = read[m + i]
        BY AfterIs
    <2>2. /\ After(all, m) \in Seq(Byte) /\ Len(After(all, m)) = Len(all) - m
          /\ \A i \in 1..(Len(all) - m) : After(all, m)[i] = all[m + i]
        BY <1>1, <1>4, AfterIs
    <2>. HIDE DEF rest
    <2>3. /\ rest \o unread \in Seq(Byte) /\ Len(rest \o unread) = Len(rest) + Len(unread)
          /\ \A i \in 1..Len(rest) : (rest \o unread)[i] = rest[i]
          /\ \A i \in 1..Len(unread) : (rest \o unread)[Len(rest) + i] = unread[i]
        <3>1. rest \in Seq(Byte)
            BY <2>1
        <3>. QED
            BY <3>1, Joins
    <2>4. ASSUME NEW i \in 1..(Len(all) - m) PROVE After(all, m)[i] = (rest \o unread)[i]
        <3>1. CASE i <= Len(rest)
            <4>1. i \in 1..Len(rest) /\ m + i \in 1..Len(read)
                BY <1>4, <2>1, <3>1
            <4>. QED
                BY <1>2, <2>1, <2>2, <2>3, <4>1
        <3>2. CASE ~(i <= Len(rest))
            <4>1. PICK k \in 1..Len(unread) : k = i - Len(rest)
                BY <1>2, <1>4, <2>1, <3>2
            <4>2. i = Len(rest) + k /\ m + i = Len(read) + k
                BY <1>4, <2>1, <4>1
            <4>. QED
                BY <1>3, <2>2, <2>3, <4>1, <4>2
        <3>. QED
            BY <3>1, <3>2
    <2>5. Len(After(all, m)) = Len(rest \o unread)
        BY <1>2, <1>4, <2>1, <2>2, <2>3
    <2>. QED
        BY <2>2, <2>3, <2>4, <2>5, SeqEqual DEF rest
<1>7. SubSeq(read, 1, n) \in Seq(Byte) /\ After(read, m) \in Seq(Byte)
    BY AfterIs
<1>8. (SubSeq(read, 1, n) \o After(read, m)) \o unread
         = SubSeq(read, 1, n) \o (After(read, m) \o unread)
    <2>. DEFINE first == SubSeq(read, 1, n)
                rest == After(read, m)
    <2>1. first \in Seq(Byte) /\ rest \in Seq(Byte)
        BY <1>7
    <2>. HIDE DEF first, rest
    <2>2. (first \o rest) \o unread = first \o (rest \o unread)
        BY <2>1, ConcatAssociative
    <2>. QED
        BY <2>2 DEF first, rest
<1>. QED
    BY <1>5, <1>6, <1>8

LEMMA TakenWhole == NoForgery /\ HandshakeInv => ReplyTakenWhole
<1>. SUFFICES ASSUME NoForgery, HandshakeInv, asking = "done", buffered = <<>>
              PROVE  /\ answered = (replyAt # NotThere /\ replyAt + Len(reply) <= Len(buf))
                     /\ Onward = IF answered
                                 THEN SubSeq(arrived, 1, replyAt)
                                         \o After(arrived, replyAt + Len(reply))
                                 ELSE arrived
    BY DEF ReplyTakenWhole
<1>. DEFINE whole == replyAt # NotThere /\ replyAt + Len(reply) <= Len(buf)
<1>1. /\ leftover = ParseOsc11(buf) /\ answered = (ReplySpan(buf) # <<0, 0>>)
      /\ Asked /\ ReplyIn
    BY DEF HandshakeInv
<1>2. ReplySpan(buf) = IF whole THEN <<replyAt, replyAt + Len(reply)>> ELSE <<0, 0>>
    BY <1>1, BufSpan
<1>3. /\ buf \in Seq(Byte) /\ input \in Seq(Byte) /\ arrived = buf \o input
    BY <1>1, ConcatEmptySeq DEF Asked
<1>4. CASE whole
    <2>1. replyAt \in Nat /\ Len(reply) \in {4, 5}
        BY <1>1, <1>4, RepliesAre DEF ReplyIn, IsIn
    <2>2. replyAt \in 0..Len(buf) /\ replyAt + Len(reply) \in 0..Len(buf)
        BY <1>3, <1>4, <2>1
    <2>3. ReplySpan(buf) # <<0, 0>>
        <3>1. replyAt + Len(reply) # 0
            BY <2>1
        <3>. QED
            BY <1>2, <1>4, <3>1
    <2>4. leftover = SubSeq(buf, 1, replyAt) \o After(buf, replyAt + Len(reply))
        <3>1. ReplySpan(buf)[1] = replyAt /\ ReplySpan(buf)[2] = replyAt + Len(reply)
            BY <1>2, <1>4
        <3>. QED
            BY <1>1, <3>1 DEF ParseOsc11
    <2>5. (SubSeq(buf, 1, replyAt) \o After(buf, replyAt + Len(reply))) \o input
             = SubSeq(arrived, 1, replyAt) \o After(arrived, replyAt + Len(reply))
        <3>. DEFINE m == replyAt + Len(reply)
        <3>1. replyAt \in 0..Len(buf) /\ m \in 0..Len(buf)
            BY <2>2
        <3>. HIDE DEF m
        <3>2. buf \in Seq(Byte)
            BY <1>3
        <3>3. input \in Seq(Byte)
            BY <1>3
        <3>4. Cuts(buf, input, arrived, replyAt, m)
            BY <3>1, <3>2, <3>3, WithoutIs
        <3>. QED
            BY <1>3, <3>4 DEF m, Cuts
    <2>6. answered = TRUE /\ whole = TRUE
        BY <1>1, <1>4, <2>3
    <2>. HIDE DEF whole
    <2>. QED
        BY <2>4, <2>5, <2>6 DEF Onward, whole
<1>5. CASE ~whole
    <2>1. SubSeq(buf, 1, 0) = <<>> /\ After(buf, 0) = buf
        BY <1>3, SubSeqEmpty, SubSeqFull DEF After
    <2>2. leftover = buf
        BY <1>1, <1>2, <1>3, <1>5, <2>1, ConcatEmptySeq DEF ParseOsc11
    <2>. QED
        BY <1>1, <1>2, <1>3, <1>5, <2>2 DEF Onward
<1>. QED
    BY <1>4, <1>5

\* However the reads of the handshake cut what arrives, and wherever in it the reply comes, what
\* goes on to the session is everything else in its order, as long as nobody types the
\* reply's own prefix and std keeps nothing back (tty.rs:115-116).
THEOREM ReplyIsTakenWhole == ASSUME NoForgery PROVE HandshakeSpec => []ReplyTakenWhole
BY AskedInit, HandshakeInvNext, TakenWhole, PTL DEF HandshakeSpec
=============================================================================
