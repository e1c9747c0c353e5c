---------------------------- MODULE MCDocuments ----------------------------
(***************************************************************************)
(* Documents for TLC: numbers below 32 in two digits of two bits and a     *)
(* third, the base and a composition of it and one layer.                  *)
(***************************************************************************)
EXTENDS Documents

DocumentMagic == <<6, 3>>
Signatures == <<<<5, 0>>, <<5, 1, 6, 2>>>>
ModeFlag == <<[owner |-> Variant.mode, kind |-> "flag"]>>
SomeChunks == {<<>>, <<4, 7>>, <<1, 2, 3, 4>>}
SomeTexts == {<<1>>}
Oddities == {<<>>} \cup {<<x>> : x \in Bytes} \cup {<<5, y>> : y \in {0, 1}}
=============================================================================
