------------------------------- MODULE MCWib2 -------------------------------
(* Two settings that differ in every FEMB, three sockets.                    *)
EXTENDS Wib2

F(b, v, w) == [enabled |-> b, channel |-> v, strobe |-> w, gain_match |-> b]
MCSettings == {[wib |-> 0, femb0 |-> F(TRUE, 0, 1), femb1 |-> F(TRUE, 1, 0),
                femb2 |-> F(FALSE, 0, 0), femb3 |-> F(TRUE, 1, 1)],
               [wib |-> 1, femb0 |-> F(FALSE, 0, 0), femb1 |-> F(TRUE, 1, 1),
                femb2 |-> F(TRUE, 1, 0), femb3 |-> F(FALSE, 0, 1)]}
OneSettings == {[wib |-> 0, femb0 |-> F(TRUE, 0, 1), femb1 |-> F(TRUE, 1, 0),
                 femb2 |-> F(FALSE, 0, 0), femb3 |-> F(TRUE, 1, 1)]}
=============================================================================
