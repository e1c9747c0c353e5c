------------------------------ MODULE MCUpdate ------------------------------
(***************************************************************************)
(* Update for TLC: an executable, and what may be delivered to replace it: *)
(* an older build without and with leave to downgrade, a newer one, one of *)
(* another publisher, and a signed one altered since.                      *)
(***************************************************************************)
EXTENDS Update

Plain(build) == [build |-> build, downgrade |-> FALSE, key |-> "k", signature |-> Unsigned]
Build2 == Plain(2)
Binaries == {Sign(Plain(1), "k", FALSE), Sign(Plain(1), "k", TRUE), Sign(Plain(3), "k", FALSE),
             Sign(Plain(4), "other", FALSE),
             [Sign(Plain(1), "k", FALSE) EXCEPT !.downgrade = TRUE]}
=============================================================================
