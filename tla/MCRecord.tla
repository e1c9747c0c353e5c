------------------------------ MODULE MCRecord ------------------------------
(***************************************************************************)
(* Record for TLC: a magic of three bits, that may overlap itself and the  *)
(* carry in two ways, and every file of two to nine bits.                  *)
(***************************************************************************)
EXTENDS Record

RecordMagic == <<1, 1, 0>>
Files == UNION {[1..n -> 0..1] : n \in 2..9}
=============================================================================
