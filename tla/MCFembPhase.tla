----------------------------- MODULE MCFembPhase -----------------------------
(* A FEMB of two ASICs.  Which of the four positions of an ASIC is called 0  *)
(* is arbitrary, so the first phase of a list may be fixed; in the second    *)
(* one the ASICs differ from it in different bits.                           *)
EXTENDS FembPhase

First   == [d0 |-> {}, d1 |-> {}]
Second  == [d0 |-> {1}, d1 |-> {2}]
MCLists == {<<>>, <<First, Second>>}
=============================================================================
