----------------------------- MODULE FembConfig -----------------------------
(***************************************************************************)
(* src/WIB1/WIB_FEMB.cpp on one FEMB: ConfigFEMB with the set-up of its     *)
(* clock, pulser and ASICs, ConfigFEMBFakeData and SetupASICPulserBits,    *)
(* called in any order.  Every register access may raise an exception, the *)
(* FEMB may ignore writes the WIB has acknowledged, its ASICs may not take *)
(* what is shifted in, and what is read back may be wrong.                 *)
(*                                                                         *)
(* FembCall is what a caller, ProtoWib, sees of such a call; the search for *)
(* clock phases at its end is in FembPhase.  A step here is a group of     *)
(* accesses that follow each other.                                        *)
(***************************************************************************)
EXTENDS AsicMap

CONSTANTS FakeAsked,  \* the fake data a caller may ask for
          MaxCalls,   \* bound: calls in a behaviour
          Stops,      \* bound: the registers of an ASIC, 0..8, after which writes may stop
          Faults      \* what the FEMB may do: ignore a "write"; its ASICs not take what
                      \* is shifted in, "spi"; "read" back what they do not hold

\* fits: the fake word has 12 bits, there are 256 samples, the FEMB number has 4 bits.
Fakes == [kind : {"fake"}, mode : 0..4, fits : BOOLEAN]
Pulse == [kind |-> "pulser"]
Calls == Asked \cup FakeAsked \cup {Pulse}

ASSUME FakesAssumption == FakeAsked \subseteq Fakes
ASSUME CallsAssumption == MaxCalls \in Nat \ {0}
ASSUME StopsAssumption == Stops \subseteq 0..8
ASSUME FaultsAssumption == Faults \subseteq SUBSET {"write", "spi", "read"}

VARIABLES faults,  \* what this FEMB may do
          femb,    \* the registers of the FEMB and its ASICs
          dnd,     \* SYSTEM.SLOW_CONTROL_DND of the WIB
          pc,
          op,      \* the call in progress or last made
          saved,   \* slow_control_dnd
          pass,    \* iSPIWrite, from 1
          vals,    \* what the ASICs should read back: regs, vals
          warn,    \* an error has been tolerated
          out,     \* how the call ended
          calls,   \* calls made
          before   \* history: DND when the call began

vars == <<faults, femb, dnd, pc, op, saved, pass, vals, warn, out, calls, before>>

\* STREAM_AND_ADC_DATA_EN; FEMB_TST_SEL; the enable bits of the pulser and its
\* amplitude; registers 21 to 33 are set, phase_en of 37 and 40; the SPI registers of
\* the FPGA and what the ASICs hold.
Pulsers == {"dac", "int", "ext", "fpga", "asic"}
Femb == [stream : BOOLEAN, tst : 0..4, tp : SUBSET Pulsers, amp : 0..63,
         timing : BOOLEAN, phase_en : 0..1,
         win : [Asic -> Word], chip : [Asic -> Word]]

Blank == [a \in Asic |-> {}]

Init == /\ faults \in Faults
        /\ femb = [stream |-> FALSE, tst |-> 0, tp |-> {}, amp |-> 0, timing |-> FALSE,
                   phase_en |-> 0, win |-> Blank, chip |-> Blank]
        /\ dnd \in BOOLEAN
        /\ pc = "idle"
        /\ op = Pulse
        /\ saved = FALSE
        /\ pass = 1
        /\ vals = Blank
        /\ warn = FALSE
        /\ out = "none"
        /\ calls = 0
        /\ before = dnd
-----------------------------------------------------------------------------
local == <<op, saved, pass, vals, warn, calls, before>>

Ends(e)  == pc' = "idle" /\ out' = e
Throw(e) == Ends(e) /\ UNCHANGED <<faults, femb, dnd, local>>
To(p)    == pc' = p /\ UNCHANGED <<faults, femb, dnd, out, local>>

\* Writes that take the FEMB through the states of mid to f; then p is next.
Go(mid, f, p) ==
  \/ /\ femb' \in {f} \cup (IF "write" \in faults THEN mid \cup {femb} ELSE {})
     /\ pc' = p
     /\ UNCHANGED out
  \/ femb' \in {femb, f} \cup mid /\ Ends("failed")
Writes(mid, f, p) == Go(mid, f, p) /\ UNCHANGED <<faults, dnd, local>>

\* The arguments that are checked before anything is done; a FEMB number or a frame
\* mode out of range and a fe_config of another size are refused as well.
BadFake(o)  == o.mode \in 1..3 /\ ~o.fits
Bad(o) == \/ o.kind = "config" /\ o.pls > 2
          \/ o.kind = "fake" /\ BadFake(o)

Call(o) == /\ pc = "idle"
           /\ calls < MaxCalls
           /\ calls' = calls + 1
           /\ op' = o
           /\ pass' = 1
           /\ warn' = FALSE
           /\ saved' = FALSE
           /\ vals' = Blank
           /\ before' = dnd
           /\ IF Bad(o) THEN Ends("refused")
                        ELSE /\ pc' = IF o.kind = "pulser" THEN "off" ELSE "save"
                             /\ out' = "none"
           /\ UNCHANGED <<faults, femb, dnd>>

\* SLOW_CONTROL_DND is read, then set.
SavedLate(old, new) == new
Saved(old, new)     == old
Save == /\ pc = "save"
        /\ \/ Throw("failed")
           \/ /\ dnd' = TRUE
              /\ saved' = Saved(dnd, dnd')
              /\ \/ pc' = (IF op.kind = "config" THEN "check" ELSE "reset") /\ UNCHANGED out
                 \/ Ends("failed")
              /\ UNCHANGED <<faults, femb, op, pass, vals, warn, calls, before>>

\* A FEMB that cannot be read ends the call; if that is tolerated, without exception.
Check == /\ pc = "check"
         /\ \/ To("reset")
            \/ Throw(IF "read" \in op.cont THEN "skipped" ELSE "unreadable")
            \/ Throw("failed")

\* REG_RESET, the start frame registers.  What a reset does to the stream and to the
\* SPI registers is up to the firmware.
NoReset(f, on, win) == f
ResetTo(f, on, win) == [stream |-> on, tst |-> 0, tp |-> {}, amp |-> 0, timing |-> FALSE,
                        phase_en |-> 0, win |-> win, chip |-> f.chip]
AfterReset == IF op.kind = "fake" THEN "fake"
              ELSE IF op.ext THEN "clock" ELSE "asic_reset"
Reset == /\ pc = "reset"
         /\ \E on \in BOOLEAN, win \in {femb.win, Blank} :
              Writes({}, ResetTo(femb, on, win), AfterReset)
-----------------------------------------------------------------------------
(* ConfigFEMBFakeData                                                      *)

Stream(f, on) == [f EXCEPT !.stream = on]
Fake == /\ pc = "fake"
        /\ LET off == Stream(femb, FALSE)
               sel == [off EXCEPT !.tst = op.mode]
           IN  Writes({off, sel}, Stream(sel, TRUE), "back")
-----------------------------------------------------------------------------
(* ConfigFEMB: clock, resets and pulser                                    *)

\* SetupFEMBExtClock: phase_en is toggled in each of four rounds.
Rounds == 4
PhaseEn(k) == (k + 1) % 2
Clock == /\ pc = "clock"
         /\ LET set == [femb EXCEPT !.timing = TRUE]
                round(k) == [set EXCEPT !.phase_en = PhaseEn(k)]
            IN  Writes({set} \cup {round(k) : k \in 1..(Rounds - 1)}, round(Rounds), "asic_reset")

\* ADC_ASIC_RESET, FE_ASIC_RESET, the latch locations.
AsicReset == /\ pc = "asic_reset"
             /\ LET adc == [femb EXCEPT !.chip = [a \in Asic |-> @[a] \ AdcBits]]
                IN  Writes({adc}, [femb EXCEPT !.chip = Blank], "pulser")

InternalTp == LET a == [femb EXCEPT !.tp = @ \ {"dac"}, !.amp = 0]
                  b == [a EXCEPT !.tp = @ \ {"int"}]
                  c == [b EXCEPT !.tp = @ \cup {"ext"}]
                  d == [c EXCEPT !.tp = @ \ {"fpga"}]
              IN  Writes({a, b, c, d}, [d EXCEPT !.tp = @ \cup {"asic"}], "args")
FpgaTp == LET a == [femb EXCEPT !.tp = @ \ {"asic"}]
              b == [a EXCEPT !.tp = @ \cup {"fpga"}]
              c == [b EXCEPT !.tp = @ \cup {"dac"}, !.amp = op.dac]
              d == [c EXCEPT !.tp = @ \ {"int"}]
          IN  Writes({a, b, c, d}, [d EXCEPT !.tp = @ \cup {"ext"}], "args")

\* The amplitudes that are refused, 63 for the internal pulser among them.
TooHigh == (op.pls = 1 /\ op.dac >= 63) \/ (op.pls = 2 /\ op.dac >= 32)
Pulser == /\ pc = "pulser"
          /\ \/ op.pls = 0 /\ To("args")
             \/ TooHigh /\ Throw("refused")
             \/ op.pls = 1 /\ ~TooHigh /\ InternalTp
             \/ op.pls = 2 /\ ~TooHigh /\ FpgaTp

Args == pc = "args" /\ IF InRange(op) THEN To("off") ELSE Throw("refused")
-----------------------------------------------------------------------------
(* The SPI passes of SetupFEMBASICs and SetupASICPulserBits                *)

PassesMore == IF op.kind = "config" THEN 3 ELSE 4
Passes == IF op.kind = "config" THEN 2 ELSE 3
StreamOff == pc = "off" /\ Writes({}, Stream(femb, FALSE), "load")

\* The SPI registers are written in order, up to register k of ASIC a.
Upto(w, a, k) == [b \in Asic |-> IF b < a THEN w[b]
                                 ELSE IF b = a
                                 THEN (w[b] \cap (0..(32 * k + 31)))
                                        \cup (femb.win[b] \ (0..(32 * k + 31)))
                                 ELSE femb.win[b]]
Window(w)  == [femb EXCEPT !.win = w]
Load == /\ pc = "load"
        /\ op.kind = "config"
        /\ vals' = Regs[op]
        /\ Go({Window(Upto(Regs[op], a, k)) : a \in Asic, k \in Stops},
              Window(Regs[op]), "program")
        /\ UNCHANGED <<faults, dnd, op, saved, pass, warn, calls, before>>

\* SetupASICPulserBits reads register 8 of each ASIC and sets two bits of it to 2.
OneBitMask(w)  == w \cup {SwdacField + 1}
External(w)    == (w \ Swdac) \cup {SwdacField + 1}
LoadBits ==
  /\ pc = "load"
  /\ op.kind = "pulser"
  /\ \E wrong \in IF "read" \in faults THEN SUBSET Asic ELSE {{}} :
       LET init(a) == IF a \in wrong THEN {} ELSE femb.win[a] \cap Register(8)
           new == [a \in Asic |-> (femb.win[a] \ Register(8)) \cup External(init(a))]
       IN  /\ vals' = new
           /\ Go({Window(Upto(new, a, 8)) : a \in Asic}, Window(new), "program")
  /\ UNCHANGED <<faults, dnd, op, saved, pass, warn, calls, before>>

\* WRITE_ASIC_SPI: the ASICs take the SPI registers, or some do not.
Program ==
  /\ pc = "program"
  /\ \E deaf \in IF "spi" \in faults THEN SUBSET Asic ELSE {{}} :
       Writes({}, [femb EXCEPT !.chip =
                     [a \in Asic |-> IF a \in deaf THEN @[a] ELSE femb.win[a]]],
              IF pass = Passes THEN "verify" ELSE "on")

\* The last pass is read back, a second time if need be: all registers by
\* SetupFEMBASICs, register 8 of each ASIC by SetupASICPulserBits.
Compared == IF op.kind = "config" THEN ChipBits ELSE Register(8)
Same     == \A a \in Asic : femb.chip[a] \cap Compared = vals[a] \cap Compared
ReadsBack == IF "read" \in faults THEN BOOLEAN ELSE {Same}
Accepts(first, second)  == first \/ second
Verify ==
  /\ pc = "verify"
  /\ \/ Throw("failed")
     \/ \E first, second \in ReadsBack :
          IF Accepts(first, second) THEN To("on")
          ELSE IF op.kind = "config" /\ "spi" \in op.cont
          THEN /\ warn' = TRUE
               /\ pc' = "on"
               /\ UNCHANGED <<faults, femb, dnd, op, saved, pass, vals, out, calls, before>>
          ELSE Throw("mismatch")

\* The stream is switched on after each pass, also the unverified ones.
NextPass == pass + 1
StreamOn ==
  /\ pc = "on"
  /\ IF pass < Passes
     THEN /\ Go({}, Stream(femb, TRUE), "off")
          /\ pass' = NextPass
     ELSE /\ \/ op.kind = "config" /\ Go({}, Stream(femb, TRUE), "sync")
             \/ /\ op.kind = "pulser"
                /\ \/ /\ femb' \in {Stream(femb, TRUE)}
                             \cup (IF "write" \in faults THEN {femb} ELSE {})
                      /\ Ends("ok")
                   \/ femb' \in {femb, Stream(femb, TRUE)} /\ Ends("failed")
          /\ UNCHANGED pass
  /\ UNCHANGED <<faults, dnd, op, saved, vals, warn, calls, before>>

\* TryFEMBPhases and HuntFEMBPhase: see FembPhase.
Sync == /\ pc = "sync"
        /\ \/ To("back")
           \/ Throw("failed")
           \/ IF {"phases", "sync"} \subseteq op.cont
              THEN /\ warn' = TRUE
                   /\ pc' = "back"
                   /\ UNCHANGED <<faults, femb, dnd, op, saved, pass, vals, out, calls, before>>
              ELSE Throw("unsynced")

Back == /\ pc = "back"
        /\ \/ dnd' = saved /\ Ends(IF warn THEN "degraded" ELSE "ok")
           \/ dnd' \in {dnd, saved} /\ Ends("failed")
        /\ UNCHANGED <<faults, femb, local>>

Proceed == \/ Save \/ Check \/ Reset \/ Fake \/ Clock \/ AsicReset \/ Pulser \/ Args
           \/ StreamOff \/ Load \/ LoadBits \/ Program \/ Verify \/ StreamOn \/ Sync \/ Back
Done    == pc = "idle" /\ calls = MaxCalls /\ UNCHANGED vars
Next    == (\E o \in Calls : Call(o)) \/ Proceed \/ Done

Spec == Init /\ [][Next]_vars
-----------------------------------------------------------------------------
TypeOK == /\ faults \in Faults
          /\ femb \in Femb
          /\ dnd \in BOOLEAN
          /\ pc \in {"idle", "save", "check", "reset", "fake", "clock", "asic_reset", "pulser",
                     "args", "off", "load", "program", "verify", "on", "sync", "back"}
          /\ op \in Calls
          /\ saved \in BOOLEAN
          /\ pass \in 1..3
          /\ vals \in [Asic -> Word]
          /\ warn \in BOOLEAN
          /\ out \in {"none", "refused", "failed", "skipped", "unreadable", "mismatch",
                      "unsynced", "degraded", "ok"}
          /\ calls \in 0..MaxCalls
          /\ before \in BOOLEAN

\* When ConfigFEMB succeeds with nothing tolerated and the read-back can be trusted,
\* every ASIC holds, at the places and with the meanings of the address tables, what
\* was asked for: gain, shaping time, test capacitance and common baseline of each
\* channel; source and amplitude of the test pulse, coupling, leakage factor and
\* clock.  That is so if the FEMB ignored writes or its ASICs missed a pass, and
\* whatever they held before.  (Baseline by planes and leakage: PlanesAsNamed,
\* LeakageAsShown.)
AsicsAsAsked == op.kind = "config" /\ out = "ok" /\ "read" \notin faults /\ Documented(op) =>
                  \A a \in Asic : ChipAsAsked(op, femb.chip[a])

\* What the FEMB streams, and from what clock and pulser.
StreamedAsAsked ==
  /\ femb.stream
  /\ op.kind = "fake" => femb.tst = op.mode /\ femb.tp = {}
  /\ op.kind = "config" =>
       /\ femb.tst = 0
       /\ femb.timing = op.ext
       /\ op.ext => femb.phase_en = 1
       /\ ("asic" \in femb.tp) <=> op.pls = 1
       /\ ("fpga" \in femb.tp) <=> op.pls = 2
       /\ op.pls = 2 => femb.amp = op.dac

\* After ConfigFEMB the FEMB streams real data, after ConfigFEMBFakeData the fake data
\* asked for, whatever calls came before; its own clock and pulser are set up if and
\* only if its ASICs are told to use them.  A FEMB whose ASICs are known not to hold
\* what they should, and where that is not tolerated, sends no data, although the
\* stream was switched on after each pass before.
SourceAsAsked ==
  "write" \notin faults =>
    /\ out \in {"ok", "degraded"} => StreamedAsAsked
    /\ out = "mismatch" => ~femb.stream

\* SetupASICPulserBits, done or failed at any point, changes in the SPI registers
\* nothing but the source of the test pulse.  What its passes shift into an ASIC, all
\* nine registers, is what these registers have held since before the call but for
\* that source: each step leaves an ASIC as it is or makes it so.  When the call
\* succeeds register 8 of every ASIC is as in the SPI registers and the source external.
PulserOnly ==
  [][op.kind = "pulser" /\ pc # "idle" /\ "read" \notin faults =>
       \A a \in Asic :
         /\ femb'.win[a] \ Swdac = femb.win[a] \ Swdac
         /\ femb'.chip[a] # femb.chip[a] => femb'.chip[a] \ Swdac = femb.win[a] \ Swdac
         /\ out' = "ok" =>
              /\ (femb'.chip[a] \cap Register(8)) \ Swdac = (femb'.win[a] \cap Register(8)) \ Swdac
              /\ ShownPulser[Shown(femb'.chip[a], SwdacField, 2)] = "external"]_vars

\* Between calls the "do not disturb" flag is as it was before the last one, unless
\* that was cut short; it is not restored then, and never lost.
DndRestored == pc = "idle" /\ dnd # before =>
                 /\ out \notin {"ok", "degraded", "none"}
                 /\ dnd

\* A call keeps to FembCall, the steps ProtoWib takes it in: the FEMB is written only
\* with the "do not disturb" flag set, every outcome comes with the state of FEMB and
\* flag it stands for, and nothing is tolerated that the caller did not ask for.
PhaseOfCall == CASE pc = "idle"                      -> "idle"
                 [] pc = "save"                      -> "entered"
                 [] pc \in {"check", "reset"}        -> "quiet"
                 [] pc = "back"                      -> IF warn THEN "tolerated" ELSE "written"
                 [] OTHER                            -> "writing"
OneCall == INSTANCE FembCall WITH phase <- PhaseOfCall, kept <- before
KeepsToCall == OneCall!Spec
-----------------------------------------------------------------------------
(* What tables and messages say and the code does not do.                  *)

\* With the baseline by planes, "900 mV on induction" and 200 mV on collection wires,
\* the channels that collect are those ASIC_SPI_fine.adt calls by their numbers.
PlanesAsNamed == op.kind = "config" /\ out = "ok" /\ "read" \notin faults =>
                   \A a \in Asic : PlanesInOrder(op, a, femb.chip[a])

\* FE_LEAK of ASIC_SPI_monitor.adt shows the leakage current asked for.
LeakageAsShown == op.kind = "config" /\ out = "ok" /\ "read" \notin faults =>
                    \A a \in Asic : LeakOf(ShownLeak(femb.chip[a])) = LeakAsked(op)

\* An amplitude the message calls allowed, "must be 0-63", is not refused.
AmplitudeAllowed == op.kind = "config" /\ op.pls = 1 /\ Documented(op) => out # "refused"
=============================================================================
