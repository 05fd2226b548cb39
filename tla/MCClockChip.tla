----------------------------- MODULE MCClockChip -----------------------------
(* Three byte values, 1 the page register.  One list changes pages and writes *)
(* a register twice, one stays on a page.                                     *)
EXTENDS ClockChip

W(p, r, v) == [page |-> p, reg |-> r, val |-> v]
MCPost  == W(0, 2, 1)
MCLists == {<<W(0, 0, 1), W(1, 2, 2), W(0, 0, 2)>>, <<W(1, 0, 1)>>}
=============================================================================
