------------------------------ MODULE MCBnlUdp ------------------------------
(* Instances of BnlUdp for model checking. *)
EXTENDS BnlUdp, TLC

\* Addresses and values are interchangeable; used where only safety is checked.
Symmetric == Permutations(Addr) \cup Permutations(Val)
=============================================================================
