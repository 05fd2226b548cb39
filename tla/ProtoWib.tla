------------------------------ MODULE ProtoWib ------------------------------
(***************************************************************************)
(* plugins/ProtoWIBConfigurator.cpp driving src/WIB1/WIB.cpp: the commands  *)
(* conf, settings and scrap, the full and the checked reset, the clock     *)
(* set-up, the configuration of the front end boards (FEMBs) and the start *)
(* of the stream to DAQ, against a board that keeps its registers across   *)
(* commands and across restarts of the application.                        *)
(*                                                                         *)
(* A register access that fails raises an exception; a write that fails    *)
(* may or may not have been applied (RegisterIO, implemented by BnlUdp).   *)
(* A step is a group of accesses that no other step comes between: when it *)
(* fails it leaves the board in any of the states it passes through.       *)
(***************************************************************************)
EXTENDS Naturals, FiniteSets

CONSTANTS NumFemb,   \* front end boards of a WIB, 4 in the code
          Settings,  \* the settings a command may carry
          Boards     \* the kinds of board: firmware mode, what its reset clears

FEMB      == 1..NumFemb
ScrapTries == 5      \* stop_run_tries

Modes     == {"RCE", "FELIX", "UNKNOWN"}
\* Boards "off", powered but "blank", configured by an earlier command
\* ("stale"), with an unfinished configuration ("partial"), configured by this
\* command for data ("ready"), with a tolerated error ("degraded") or for
\* "fake" data.
FembState == {"off", "blank", "stale", "partial", "ready", "degraded", "fake"}
\* What the settings of one FEMB ask for: nothing, it is not enabled; a channel
\* number or a fake word, of which setup_femb_fake_data keeps 16 bits and these
\* fit in 12; a fake_waveform, or a word that does not fit; fake data of an
\* unknown kind; real data, real data with the internal pulser at 63, real data
\* with a value outside the ranges setup_femb checks.
Kinds     == {"disabled", "word", "waveform", "unknown", "real", "dac63", "range"}
\* One-bit registers: SLOW_CONTROL_DND, CONVERT_CONTROL.HALT, ENABLE, EN_FAKE
\* and LOCAL_TIMESTAMP, CNC_CLOCK_SELECT, PDTS_ENABLE, SI5344.ENABLE and
\* INPUT_SELECT (local oscillator), SI5342.ENABLE, ENABLE_DTS_CMDS.
Bits      == {"dnd", "halt", "convert", "fake_clock", "local_time", "cnc", "pdts",
              "si5344", "local_osc", "si5342", "dts_cmds"}

Conf  == [tgrp : 0..16, expect : {"RCE", "FELIX", "any"}, force : BOOLEAN,
          local : BOOLEAN, src : 0..2, links : SUBSET (1..4), fake : SUBSET FEMB,
          kind : [FEMB -> Kinds], cont : SUBSET {"read", "spi", "phases", "sync"}]
\* daq: FEMBs whose links are enabled for capture; fake: FEMBs all of whose streams
\* have the fake source.
Dev   == [bits : SUBSET Bits, tgrp : 0..3, src : 0..2, link : SUBSET (1..4),
          daq : SUBSET FEMB, fake : SUBSET FEMB, femb : [FEMB -> FembState]]
Board == [mode : Modes, clears : SUBSET (Bits \cup {"link", "daq", "fake", "power"})]

ASSUME FembAssumption     == NumFemb \in Nat \ {0}
ASSUME SettingsAssumption == Settings \subseteq Conf
ASSUME BoardsAssumption   == Boards \subseteq Board

VARIABLES board,  \* the kind of board at wib_addr
          dev,    \* the registers of the board
          wib,    \* the unique_ptr of the module: "null" or "up"
          pc,     \* the step the command is at, "idle" between commands
          conf,   \* settings of the last command
          saved,  \* slow_control_dnd of the reset, ConfigFEMB or StartStreamToDAQ
          i,      \* iFEMB of the loop over the FEMBs, iTry of do_scrap
          out     \* how the last command ended

vars == <<board, dev, wib, pc, conf, saved, i, out>>

PowerUp == [bits |-> {}, tgrp |-> 0, src |-> 0, link |-> {}, daq |-> {},
            fake |-> {}, femb |-> [f \in FEMB |-> "off"]]

Init == /\ board \in Boards
        /\ dev = PowerUp
        /\ wib = "null"
        /\ pc = "idle"
        /\ conf \in Settings
        /\ saved = FALSE
        /\ i = 1
        /\ out = "none"
-----------------------------------------------------------------------------
(* Register accesses                                                       *)

On(d, B)  == [d EXCEPT !.bits = @ \cup B]
Off(d, B) == [d EXCEPT !.bits = @ \ B]
Power(d, f, s) == [d EXCEPT !.femb[f] = s]
Quiet     == "dnd" \in dev.bits

Ends(e) == pc' = "idle" /\ out' = e

\* A read that fails, or a check that throws.
Throw(e) == Ends(e) /\ UNCHANGED <<board, dev, wib, conf, saved, i>>

\* Writes that take the board through the states of mid to d; then to is next.
Go(mid, d, to) == \/ dev' = d /\ pc' = to /\ UNCHANGED out
                  \/ dev' \in {dev, d} \cup mid /\ Ends("error")
Writes(mid, d, to) == Go(mid, d, to) /\ UNCHANGED <<board, wib, conf, saved, i>>

\* As Writes, after slow_control_dnd has been read.
SavingWrites(mid, d, to) == /\ Go(mid, d, to)
                            /\ saved' = Quiet
                            /\ UNCHANGED <<board, wib, conf, i>>

\* slow_control_dnd is written back.
Restored == IF saved THEN On(dev, {"dnd"}) ELSE Off(dev, {"dnd"})
-----------------------------------------------------------------------------
(* Commands                                                                *)

Begin(s, first) ==
  /\ pc = "idle"
  /\ conf' = s
  /\ dev' = [dev EXCEPT !.femb = [f \in FEMB |->
               IF @[f] \in {"ready", "degraded", "fake"} THEN "stale" ELSE @[f]]]
  /\ pc' = first
  /\ out' = "none"
  /\ i' = 1
  /\ UNCHANGED <<board, wib, saved>>

\* do_conf makes a new WIB, then applies conf.settings.
Configure(s) == Begin(s, "new")

\* The tables do not load or the board does not answer: the old WIB is kept.
NewWib == /\ pc = "new"
          /\ \/ /\ wib' = "up"
                /\ pc' = "settings"
                /\ UNCHANGED <<board, dev, conf, saved, i, out>>
             \/ Throw("error")

Settle(s) == wib = "up" /\ Begin(s, "settings")

\* Settings without a WIB: the null pointer is used once the partition number
\* has been checked.
SettleNoWib(s) == /\ pc = "idle"
                  /\ wib = "null"
                  /\ conf' = s
                  /\ out' = IF s.tgrp > 15 THEN "error" ELSE "crash"
                  /\ UNCHANGED <<board, dev, wib, pc, saved, i>>

SetDnd == /\ pc = "settings"
          /\ IF conf.tgrp > 15 THEN Throw("error")
                               ELSE Writes({}, On(dev, {"dnd"}), "mode")

\* Firmware mode and version, then the argument checks of the reset.  The check
\* of the version may fail for any settings, as any read may.
ModeAccepted == board.mode # "UNKNOWN" /\ conf.expect \in {"any", board.mode}
CheckMode == /\ pc = "mode"
             /\ \/ Throw("error")
                \/ /\ ModeAccepted
                   /\ conf.src <= 1
                   /\ pc' = IF conf.force THEN "reset" ELSE "check"
                   /\ UNCHANGED <<board, dev, wib, conf, saved, i, out>>
-----------------------------------------------------------------------------
(* Reset and clock                                                         *)

\* The clock registers CheckedResetWIBAndCfgDTS compares for timing system
\* clocking; the lock and state bits it also reads are the board's choice.
AnyGroup == {"cnc", "pdts", "si5344"} \subseteq dev.bits /\ "local_osc" \notin dev.bits
ClockAsAsked == /\ dev.tgrp = conf.tgrp
                /\ {"cnc", "pdts", "si5344"} \subseteq dev.bits
                /\ "local_osc" \notin dev.bits

\* With the local clock the check reads DTS.CCONVERT_CONTROL.LOCAL_TIMESTAMP,
\* which is in no table, as soon as EN_FAKE is found set.
UnknownName == conf.local /\ "fake_clock" \in dev.bits

Check == /\ pc = "check"
         /\ \/ Throw("error")
            \/ UnknownName /\ Throw("bad_name")
            \/ /\ ~UnknownName
               /\ \/ pc' = "reset"
                  \/ /\ ~conf.local /\ ClockAsAsked
                     /\ board.mode = "FELIX" => "si5342" \in dev.bits
                     /\ pc' = "links_off"
               /\ UNCHANGED <<board, dev, wib, conf, saved, i, out>>

\* CONTROL_REGISTER_RESET: which registers it clears is up to the firmware.
Cleared(d) ==
  LET keep(r) == r \notin board.clears
  IN  [d EXCEPT !.bits = @ \ board.clears,
                !.link = IF keep("link") THEN @ ELSE {},
                !.daq  = IF keep("daq") THEN @ ELSE {},
                !.fake = IF keep("fake") THEN @ ELSE {},
                !.femb = IF keep("power") THEN @ ELSE PowerUp.femb]
ControlReset == pc = "reset" /\ SavingWrites({}, Cleared(dev), "reset_rest")

\* The rest of ResetWIB: the SI5342 of a FELIX board, the event builder, the
\* convert generator.
Halted(d) == Off(On(d, {"halt"}), {"convert"})
ResetRest ==
  LET d == IF board.mode = "FELIX" THEN On(dev, {"si5342"}) ELSE dev
  IN  /\ pc = "reset_rest"
      /\ Writes({Off(dev, {"si5342"}), d, On(d, {"halt"})}, Halted(d), "dnd_again")

ResetLosesDnd == pc = "dnd_again" /\ Writes({}, dev, "femb_off")
DndAgain == pc = "dnd_again" /\ Writes({}, On(dev, {"dnd"}), "femb_off")

\* Every FEMB is powered off, then everything DTS is off.
OffBefore(k) == [dev EXCEPT !.femb = [f \in FEMB |-> IF f < k THEN "off" ELSE @[f]]]
OffUpTo(k) == [dev EXCEPT !.femb = [f \in FEMB |-> IF f <= k THEN "off" ELSE @[f]]]
FembOff == /\ pc = "femb_off"
           /\ Writes({OffUpTo(k) : k \in FEMB}, Halted(OffUpTo(NumFemb)), "clock")

LocalClock ==
  LET a == Off(dev, {"si5344"})
      b == On(a, {"local_osc"})
      c == On(b, {"si5344"})
      d == On(c, {"fake_clock"})
      e == On(d, {"local_time"})
  IN  /\ pc = "clock"
      /\ conf.local
      /\ Writes({a, b, c, d, e}, On(e, {"cnc"}), IF conf.force THEN "daq_off" ELSE "dnd_back")

\* PDTS_TGRP has two bits, the address table cuts off what does not fit.
GroupBits(n) == n % 4

\* InitializeDTS up to the alignment: CDS and SI5344 are set up or it throws.
TimingClock ==
  LET a == [dev EXCEPT !.tgrp = GroupBits(conf.tgrp)]
      b == Off(a, {"pdts", "si5344"})
      c == [b EXCEPT !.src = conf.src]
      d == Off(c, {"local_osc"})
  IN  /\ pc = "clock"
      /\ ~conf.local
      /\ Writes({a, Off(a, {"pdts"}), b, c, d}, On(d, {"si5344"}), "align")

\* One turn of the alignment loop, which has no timeout here: PDTS_STATE is
\* RUN, on its way there, or wrong, and then the search starts again.
Align == /\ pc = "align"
         /\ LET d == On(dev, {"pdts"})
            IN  \/ Writes({}, d, "clock_select")
                \/ Writes({}, d, "align")
                \/ Writes({d}, Off(d, {"pdts"}), "align")

ClockSelect == /\ pc = "clock_select"
               /\ Writes({}, On(dev, {"cnc", "pdts"}),
                         IF conf.force THEN "daq_off" ELSE "dnd_back")

DndBack == /\ pc = "dnd_back"
           /\ Writes({}, Restored, IF conf.force THEN "fake_data" ELSE "links_off")

\* The links of this firmware: two with FELIX, four with RCE.
Links == IF board.mode = "FELIX" THEN 1..2 ELSE 1..4
OneLinkShort == /\ pc = "links_off"
                /\ Writes({}, [dev EXCEPT !.link = @ \ {1}], "daq_off")
LinksOff == /\ pc = "links_off"
            /\ Writes({[dev EXCEPT !.link = @ \ (1..k)] : k \in Links},
                      [dev EXCEPT !.link = @ \ Links], "daq_off")

DaqOff == /\ pc = "daq_off"
          /\ Writes({[dev EXCEPT !.daq = @ \ (1..k)] : k \in FEMB},
                    [dev EXCEPT !.daq = {}],
                    IF conf.force THEN "dnd_back" ELSE "fake_data")
-----------------------------------------------------------------------------
(* FEMBs                                                                   *)

\* FEMB_REPLACE_FEMB_3_N_5_WITH_1_N_2 must be off, and half a FELIX link cannot
\* be fake; then ConfigWIBFakeData selects the fake sources.
HalfLink(S) == \E p \in {{1, 2}, {3, 4}} : Cardinality(S \cap p) = 1
\* Stream by stream, and within a stream FEMB by FEMB: the first stream makes a
\* FEMB partly real, only the last one makes it fake.
RealUpTo(k) == [dev EXCEPT !.fake = @ \ ((1..k) \ conf.fake)]
FakeUpTo(k) == [dev EXCEPT !.fake = conf.fake \cap (@ \cup (1..k))]
FakeData ==
  /\ pc = "fake_data"
  /\ \/ Throw("error")
     \/ /\ ~(board.mode = "FELIX" /\ HalfLink(conf.fake))
        /\ Writes({RealUpTo(k) : k \in FEMB} \cup {FakeUpTo(k) : k \in FEMB},
                  FakeUpTo(NumFemb), "power")

Enabled(f) == conf.kind[f] # "disabled"
PoweredUpTo(k) ==
  [dev EXCEPT !.femb = [f \in FEMB |->
     IF f <= k /\ Enabled(f) /\ @[f] = "off" THEN "blank" ELSE @[f]]]
PowerOn == /\ pc = "power"
           /\ Writes({PoweredUpTo(k) : k \in FEMB}, PoweredUpTo(NumFemb), "setup")

\* The loop over the FEMBs goes on.
SameFemb == /\ pc' = "setup"
            /\ UNCHANGED <<board, wib, conf, saved, i, out>>
NextFemb == /\ pc' = "setup"
            /\ i' = i + 1
            /\ UNCHANGED <<board, wib, conf, saved, out>>

SkipFemb == /\ pc = "setup"
            /\ i \in FEMB
            /\ ~Enabled(i)
            /\ NextFemb
            /\ UNCHANGED dev

\* A FEMB whose registers cannot be read is powered off; without
\* continue_on_femb_reg_read_error that also ends the command.
Unreadable == /\ pc = "setup"
              /\ i \in FEMB
              /\ conf.kind[i] \notin {"disabled", "range"}
              /\ LET d == Power(dev, i, "off")
                 IN  \/ /\ dev' \in {dev, d}
                        /\ Ends("error")
                        /\ UNCHANGED <<board, wib, conf, saved, i>>
                     \/ /\ "read" \in conf.cont
                        /\ dev' = d
                        /\ NextFemb

\* setup_femb and setup_femb_fake_data pass their settings on when the FEMB has
\* the expected firmware and their checks hold.  They make a waveform of 255
\* samples, ConfigFEMBFakeData wants 256, and words of 12 bits.
SetupFemb == /\ pc = "setup"
             /\ i \in FEMB
             /\ Enabled(i)
             /\ \/ Throw("error")
                \/ conf.kind[i] = "waveform" /\ Throw("refused")
                \/ /\ conf.kind[i] \in {"word", "real", "dac63"}
                   /\ pc' = "config"
                   /\ UNCHANGED <<board, dev, wib, conf, saved, i, out>>

AllSetUp == /\ pc = "setup"
            /\ i > NumFemb
            /\ pc' = "stream"
            /\ UNCHANGED <<board, dev, wib, conf, saved, i, out>>

\* ConfigFEMB and ConfigFEMBFakeData save DND, set it, and restore it at the end.
ConfigFemb == pc = "config" /\ SavingWrites({}, On(dev, {"dnd"}), "config_write")

\* ConfigFEMB reads the FEMB once more: with continue_on_femb_reg_read_error it
\* returns at once and leaves the FEMB as it is.
GiveUpFemb == /\ pc = "config_write"
              /\ conf.kind[i] # "word"
              /\ "read" \in conf.cont
              /\ NextFemb
              /\ UNCHANGED dev

Tolerated == "spi" \in conf.cont \/ {"phases", "sync"} \subseteq conf.cont

\* The registers of the FEMB are reset and written.  A readback mismatch or ADCs
\* that do not synchronise end the command unless tolerated; the internal pulser
\* takes no amplitude of 63.
Written(s) == Writes({Power(dev, i, "partial")}, Power(dev, i, s), "config_back")
WriteFemb ==
  /\ pc = "config_write"
  /\ \/ conf.kind[i] = "word" /\ Written("fake")
     \/ conf.kind[i] = "real" /\ Written("ready")
     \/ conf.kind[i] = "real" /\ Tolerated /\ Written("degraded")
     \/ /\ conf.kind[i] = "dac63"
        /\ dev' = Power(dev, i, "partial")
        /\ Ends("refused")
        /\ UNCHANGED <<board, wib, conf, saved, i>>

ConfigBack == /\ pc = "config_back"
              /\ \/ dev' = Restored /\ NextFemb
                 \/ /\ dev' \in {dev, Restored}
                    /\ Ends("error")
                    /\ UNCHANGED <<board, wib, conf, saved, i>>
-----------------------------------------------------------------------------
(* The stream to DAQ, and scrap                                            *)

\* StartStreamToDAQ halts the converts, then saves DND and sets it.
Stream == /\ pc = "stream"
          /\ SavingWrites({On(dev, {"halt"}), Halted(dev)}, On(Halted(dev), {"dnd"}), "links_on")

\* Only links 1 and 2 of FELIX and 3 and 4 of RCE are ever enabled.
StreamLinks == conf.links \cap (IF board.mode = "FELIX" THEN {1, 2} ELSE {3, 4})
LinksOn == /\ pc = "links_on"
           /\ Writes({[dev EXCEPT !.link = @ \cup (StreamLinks \cap (1..k))] : k \in Links},
                     [dev EXCEPT !.link = @ \cup StreamLinks], "sync")

\* Every FEMB is streamed, enabled or not, and the converts are released.
Sync == LET d == On([dev EXCEPT !.daq = FEMB], {"dts_cmds"})
            e == Off(d, {"halt"})
        IN  /\ pc = "sync"
            /\ Writes({[dev EXCEPT !.daq = @ \cup (1..k)] : k \in FEMB} \cup {d, e},
                      On(e, {"convert"}), "stream_back")

StreamBack == pc = "stream_back" /\ Writes({}, Restored, "dnd_off")

DndOff == /\ pc = "dnd_off"
          /\ \/ dev' = Off(dev, {"dnd"}) /\ Ends("configured")
             \/ dev' \in {dev, Off(dev, {"dnd"})} /\ Ends("error")
          /\ UNCHANGED <<board, wib, conf, saved, i>>

\* do_scrap: the links of a FELIX board are disabled, in up to five tries.
Scrap == /\ pc = "idle"
         /\ \/ wib = "null" /\ Throw("error")
            \/ /\ wib = "up"
               /\ pc' = IF board.mode = "FELIX" THEN "scrap" ELSE "scrapped"
               /\ i' = 1
               /\ out' = "none"
               /\ UNCHANGED <<board, dev, wib, conf, saved>>

\* One try, stopped by BAD_REPLY (tried again) or by another exception.
FirstLinkOnly == <<On(dev, {"dnd"}), [On(dev, {"dnd"}) EXCEPT !.link = @ \ {1}],
                   [On(dev, {"dnd"}) EXCEPT !.link = @ \ {1}]>>
LinksOffPath == LET a == On(dev, {"dnd"})
                    b == [a EXCEPT !.link = @ \ {1}]
                IN  <<a, b, [b EXCEPT !.link = @ \ {2}]>>
TriesUpToFive == i <= ScrapTries
TriesLeft     == i < ScrapTries
ScrapTry ==
  /\ pc = "scrap"
  /\ LET path    == LinksOffPath
         stopped == {dev, path[1], path[2], path[3]}
     IN  \/ /\ dev' = path[3]
            /\ pc' = "scrapped"
            /\ UNCHANGED <<i, out>>
         \/ /\ dev' \in stopped
            /\ \/ TriesLeft /\ i' = i + 1 /\ UNCHANGED <<pc, out>>
               \/ ~TriesLeft /\ pc' = "scrapped" /\ out' = "warned" /\ UNCHANGED i
         \/ /\ dev' \in stopped \cup {Off(d, {"dnd"}) : d \in stopped}
            /\ Ends("error")
            /\ UNCHANGED i
  /\ UNCHANGED <<board, wib, conf, saved>>

\* DND is cleared if the board answers, the WIB is dropped in any case.
Scrapped == /\ pc = "scrapped"
            /\ dev' \in IF board.mode = "FELIX" THEN {dev, Off(dev, {"dnd"})} ELSE {dev}
            /\ wib' = "null"
            /\ Ends(IF out = "warned" THEN "warned" ELSE "scrapped")
            /\ UNCHANGED <<board, conf, saved, i>>

\* The application dies and is started again; the board does not notice.
Crash == /\ wib' = "null"
         /\ Ends("crash")
         /\ UNCHANGED <<board, dev, conf, saved, i>>
-----------------------------------------------------------------------------
Command == \/ \E s \in Settings : Configure(s) \/ Settle(s) \/ SettleNoWib(s)
           \/ Scrap

Reset  == Check \/ ControlReset \/ ResetRest \/ DndAgain \/ FembOff
Clock  == LocalClock \/ TimingClock \/ Align \/ ClockSelect
Paths  == DndBack \/ LinksOff \/ DaqOff \/ FakeData \/ PowerOn
Fembs  == \/ SkipFemb \/ Unreadable \/ SetupFemb \/ AllSetUp
          \/ ConfigFemb \/ GiveUpFemb \/ WriteFemb \/ ConfigBack
Start  == Stream \/ LinksOn \/ Sync \/ StreamBack \/ DndOff
Step   == \/ NewWib \/ SetDnd \/ CheckMode \/ Reset \/ Clock \/ Paths
          \/ Fembs \/ Start \/ ScrapTry \/ Scrapped

Next == Command \/ Step \/ Crash

Spec     == Init /\ [][Next]_vars
\* A command runs on by itself once the framework has called it.
FairSpec == Spec /\ WF_vars(Step)
-----------------------------------------------------------------------------
Phases == {"idle", "new", "settings", "mode", "check", "reset", "reset_rest",
           "dnd_again", "femb_off", "clock", "align", "clock_select", "dnd_back",
           "links_off", "daq_off", "fake_data", "power", "setup", "config",
           "config_write", "config_back", "stream", "links_on", "sync",
           "stream_back", "dnd_off", "scrap", "scrapped"}

TypeOK == /\ board \in Boards
          /\ dev \in Dev
          /\ wib \in {"null", "up"}
          /\ pc \in Phases
          /\ conf \in Settings
          /\ saved \in BOOLEAN
          /\ i \in 1..(NumFemb + ScrapTries)
          /\ pc = "setup" => i <= NumFemb + 1
          /\ pc \in {"config", "config_write", "config_back"} => i <= NumFemb
          /\ pc \in {"scrap", "scrapped"} => i <= ScrapTries
          /\ out \in {"none", "configured", "scrapped", "warned", "error", "bad_name",
                      "refused", "crash"}

\* Once settings has asked the slow control not to disturb, it stays asked until
\* the board is configured, through every save and restore of the flag and
\* whatever CONTROL_REGISTER_RESET clears.  Only from that reset to the next
\* write of the flag, in ResetWIB, is it up to the board.
Disturbable == {"idle", "new", "settings", "reset_rest", "dnd_again", "scrap", "scrapped"}
QuietWhileConfiguring == pc \notin Disturbable => Quiet

\* Where the FEMBs are configured: after the reset, before the stream.
Configuring == {"fake_data", "power", "setup", "config", "config_write", "config_back",
                "stream", "links_on"}

\* No FEMB streams into the event builder while FEMBs are configured, and after
\* a checked reset no DAQ link is enabled either, whatever an earlier run, a
\* failed command or a restart of the application left enabled.
DataPathDown == pc \in Configuring => /\ dev.daq = {}
                                      /\ ~conf.force => dev.link = {}

\* FEMBs are configured and streamed only with the clock the settings ask for,
\* whether the reset set it up or the check found it good, as far as the timing
\* group fits its register.  (The input of the timing system is the subject of
\* SourceOfTiming: the check does not look at it.)
ClockReady ==
  pc \in Configuring \cup {"sync", "stream_back", "dnd_off"} =>
    /\ {"cnc", "si5344"} \subseteq dev.bits
    /\ IF conf.local
       THEN {"fake_clock", "local_time", "local_osc"} \subseteq dev.bits
       ELSE /\ "pdts" \in dev.bits /\ "local_osc" \notin dev.bits
            /\ dev.tgrp = GroupBits(conf.tgrp)

\* What the loop over the FEMBs leaves of FEMB f, given the errors the settings
\* tolerate.
SetUp(f) ==
  LET skipped == IF "read" \in conf.cont THEN {"off", "blank", "stale", "partial"} ELSE {}
  IN  CASE conf.kind[f] = "disabled" -> conf.force => dev.femb[f] = "off"
        [] conf.kind[f] = "word"     -> dev.femb[f] \in {"fake"} \cup (skipped \cap {"off"})
        [] conf.kind[f] = "real"     -> dev.femb[f] \in {"ready"} \cup skipped \cup
                                          (IF Tolerated THEN {"degraded"} ELSE {})
        [] OTHER                     -> dev.femb[f] \in skipped

\* A settings command that succeeds has done what it says: each FEMB enabled is
\* configured by this very command, or is one whose failure the settings
\* tolerate, and is read out; the fake sources and the links are those asked for;
\* the converts are released and the slow control may read again.  (Which other
\* FEMBs are read out is the subject of OnlyEnabledReadOut.)
SettingsDone ==
  out = "configured" =>
    /\ \A f \in FEMB : SetUp(f)
    /\ dev.fake = conf.fake
    /\ {f \in FEMB : Enabled(f)} \subseteq dev.daq
    /\ StreamLinks \subseteq dev.link
    /\ ~conf.force => dev.link = StreamLinks
    /\ {"convert", "dts_cmds"} \subseteq dev.bits
    /\ dev.bits \cap {"dnd", "halt"} = {}

\* A scrap that neither fails nor warns leaves both links of a FELIX board
\* disabled, and every scrap that does not throw drops the WIB, also after tries
\* that stopped half way.
ScrapDone == /\ out = "scrapped" /\ board.mode = "FELIX" => dev.link = {}
             /\ out \in {"scrapped", "warned"} /\ pc = "idle" => wib = "null"

\* A command ends, or keeps waiting for the timing system in the alignment loop,
\* which has no timeout: no loop over FEMBs, links or tries goes on for ever.
CommandEnds == (pc # "idle") ~> (pc \in {"idle", "align"})
-----------------------------------------------------------------------------
(* What the documentation says and the code does not do.                   *)

\* Every register name used is in the address tables.
NamesKnown == out # "bad_name"

\* A group that is accepted is the group the board listens to: the check of the
\* settings says "partition_number must be 0-15".
GroupAsAsked == out = "configured" /\ ~conf.local => dev.tgrp = conf.tgrp

\* A FEMB that is not enabled is not read out: the schema says of "enabled" that it
\* is for FEMBs to be "configured and read out by WIB".
OnlyEnabledReadOut == out = "configured" => \A f \in dev.daq : Enabled(f)

\* The input of the timing system is the one asked for: the schema says of
\* dts_source "where to get the timing system input from".
SourceOfTiming == out = "configured" /\ ~conf.local => dev.src = conf.src
=============================================================================
