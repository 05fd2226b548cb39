----------------------------- MODULE MCProtoWib -----------------------------
(* Instances of ProtoWib for model checking: two FEMBs, a FELIX and an RCE   *)
(* board whose control register resets clear different registers, and        *)
(* settings that between them take every branch.                             *)
EXTENDS ProtoWib

\* Checked reset with the timing system clock, nothing tolerated.
Plain == [tgrp |-> 0, expect |-> "any", force |-> FALSE, local |-> FALSE, src |-> 0,
          links |-> {1, 3}, fake |-> {}, kind |-> [f \in FEMB |-> "real"], cont |-> {}]
\* Full reset with the local clock, fake data, one FEMB not enabled.
Forced == [Plain EXCEPT !.force = TRUE, !.local = TRUE, !.links = {1, 2, 4},
                        !.kind[1] = "word", !.kind[2] = "disabled", !.fake = {1, 2}]
\* Another timing group and source, every error tolerated.
Lenient == [Plain EXCEPT !.tgrp = 1, !.src = 1, !.links = {2, 3, 4},
                         !.kind[1] = "disabled",
                         !.cont = {"read", "spi", "phases", "sync"}]
\* Checked reset with the local clock; settings ConfigFEMB* refuse.
Odd == [Plain EXCEPT !.local = TRUE, !.expect = "FELIX", !.cont = {"read"},
                     !.kind[1] = "dac63", !.kind[2] = "waveform"]
\* Settings do_settings and setup_femb refuse.
BadGroup == [Plain EXCEPT !.tgrp = 16]
BadRange == [Plain EXCEPT !.tgrp = 6, !.expect = "RCE", !.kind[1] = "range"]
\* For the runs that show a disagreement with the documentation.
LocalOnly == [Plain EXCEPT !.local = TRUE]
GroupFive == [Plain EXCEPT !.tgrp = 5]
OneFemb   == [Plain EXCEPT !.kind[2] = "disabled"]
FrontPanel == [Plain EXCEPT !.src = 1]

MCSettings == {Forced, Lenient, Odd, BadGroup, BadRange}

Felix == [mode |-> "FELIX", clears |-> {"dnd", "daq", "fake_clock"}]
Rce   == [mode |-> "RCE", clears |-> Bits \cup {"link", "fake", "power"}]
Other == [mode |-> "UNKNOWN", clears |-> {}]
MCBoards == {Felix, Rce, Other}

LocalSettings == {LocalOnly}
GroupSettings == {GroupFive}
ReadoutSettings == {OneFemb}
SourceSettings == {Plain, FrontPanel}
=============================================================================
