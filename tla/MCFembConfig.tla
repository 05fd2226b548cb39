---------------------------- MODULE MCFembConfig ----------------------------
(* Two ASICs whose channels belong to different wire planes; settings that    *)
(* differ in every field and between them take every branch.                  *)
EXTENDS FembConfig

Physics  == [kind |-> "config", gain |-> 2, shape |-> 2, base |-> 2, leak |-> FALSE,
             x10 |-> FALSE, ac |-> FALSE, ext |-> TRUE, pls |-> 0, dac |-> 0, cont |-> {}]
Internal == [Physics EXCEPT !.gain = 1, !.shape = 0, !.base = 0, !.leak = TRUE, !.ext = FALSE,
                            !.pls = 1, !.dac = 62, !.cont = {"read", "spi", "phases", "sync"}]
External31 == [Physics EXCEPT !.gain = 0, !.shape = 1, !.base = 1, !.x10 = TRUE, !.ac = TRUE,
                            !.pls = 2, !.dac = 31]
TopValue == [Internal EXCEPT !.dac = 63]
NoGain   == [Physics EXCEPT !.gain = 4, !.ext = FALSE]
NoMode   == [Physics EXCEPT !.pls = 3]
Wide     == [Physics EXCEPT !.shape = 256, !.ext = FALSE]

MCFakes  == {[kind |-> "fake", mode |-> 2, fits |-> FALSE],
             [kind |-> "fake", mode |-> 3, fits |-> TRUE]}
MCFaults == {{"spi"}, {"spi", "write"}, {"spi", "read"}}
MCAsked == {Physics, Internal, External31, TopValue, NoGain, NoMode, Wide}

\* For the runs that show a disagreement with tables and messages.
PhysicsOnly == {Physics}
TopOnly     == {[TopValue EXCEPT !.cont = {}]}
NoFakes     == {}
NoFaults    == {{}}
=============================================================================
