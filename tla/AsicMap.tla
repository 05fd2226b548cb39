------------------------------- MODULE AsicMap -------------------------------
(***************************************************************************)
(* What SetupFEMBASICs (src/WIB1/WIB_FEMB.cpp) and the three *_reg_mapping  *)
(* classes make of the settings of a FEMB: the bits shifted into the ADC   *)
(* and front end (FE) ASICs.  The bits of one ADC and one FE ASIC are the  *)
(* set of those that are 1, of 288 bits: register k of the ASIC in the     *)
(* FPGA holds bits 32 * k to 32 * k + 31.                                  *)
(***************************************************************************)
EXTENDS Naturals

CONSTANTS Asic,  \* the ASICs of a FEMB, 0..7 in the code
          Asked  \* the settings of a FEMB a caller may ask for

Channel   == 0..15
ChipBits  == 0..287
AdcBits   == 0..143
FeBits    == 144..287
Word      == SUBSET ChipBits
Register(k) == (32 * k)..(32 * k + 31)

\* gain to pulse mode and DAC value as ConfigFEMB takes them; base 2 is low for
\* collection wires, high for induction wires; 4 and 3 stand for any value above the
\* range, 256 for one that does not fit in 8 bits; cont are the errors that are
\* tolerated.
Settings == [kind : {"config"}, gain : (0..4) \cup {256}, shape : (0..4) \cup {256},
             base : 0..2, leak : BOOLEAN,
             x10 : BOOLEAN, ac : BOOLEAN, ext : BOOLEAN, pls : 0..3, dac : 0..63,
             cont : SUBSET {"read", "spi", "phases", "sync"}]

ASSUME AsicAssumption  == Asic \subseteq 0..7
ASSUME AskedAssumption == Asked \subseteq Settings
-----------------------------------------------------------------------------
\* The bits of a number of w bits; a set of bits moved up; a one-bit field.
Weight      == <<1, 2, 4, 8, 16, 32>>
Bin(v, w)   == {b \in 0..(w - 1) : (v \div Weight[b + 1]) % 2 = 1}
Up(n, S)    == {n + b : b \in S}
If(cond, S) == IF cond THEN S ELSE {}

\* fe_config has 32 bits for each value, SetupFEMBASICs takes the last 8.
Byte(v) == v % 256

\* The ASIC swaps the bits of the gain and orders the shaping times 1, 3, 0.5, 2 us.
GainAsIs  == <<0, 1, 2, 3>>
GainCode  == <<0, 2, 1, 3>>
ShapeCode == <<2, 0, 3, 1>>

Collection(a, c) == IF a \in {0, 1, 4, 5} THEN c >= 10 ELSE c <= 5
LowBaseline(r, a, c) == r.base = 0 \/ (r.base = 2 /\ Collection(a, c))

\* One channel of an FE ASIC; the test capacitance is on with either pulser.
FeChannel(r, a, c) == Up(2, Bin(ShapeCode[Byte(r.shape) + 1], 2))
                        \cup Up(4, Bin(GainCode[Byte(r.gain) + 1], 2))
                        \cup If(LowBaseline(r, a, c), {6})
                        \cup If(r.pls # 0, {7})

\* The amplitude of the internal pulser goes in with its bits reversed.
Amplitude(r) == IF r.pls = 1 THEN r.dac ELSE 0
FeGlobal(r) == If(~r.leak, {0}) \cup If(r.x10, {4}) \cup If(r.ac, {5})
                 \cup Up(8, Bin(r.pls, 2)) \cup {15 - b : b \in Bin(Amplitude(r), 6)}
AdcGlobal(r) == If(r.ext, {15})

\* Channel 15 comes first, the bits for the whole ASIC last; ADC before FE.
ChannelStart(c)   == 8 * (15 - c)
GlobalStart       == 128
FeStart           == 144
FeWord(r, a)  == (UNION {Up(ChannelStart(c), FeChannel(r, a, c)) : c \in Channel})
                   \cup Up(GlobalStart, FeGlobal(r))
AdcWord(r)    == Up(GlobalStart, AdcGlobal(r))
ChipWord(r, a) == AdcWord(r) \cup Up(FeStart, FeWord(r, a))

\* Settings SetupFEMBASICs does not refuse, and what it writes for each ASIC.
InRange(r)  == Byte(r.gain) <= 3 /\ Byte(r.shape) <= 3
Regs        == [r \in {s \in Asked : InRange(s)} |-> [a \in Asic |-> ChipWord(r, a)]]
-----------------------------------------------------------------------------
(* What the bits of an ASIC mean, from the address tables in                *)
(* config/WIB1/tables alone: ASIC_SPI_fine.adt says where the fields of     *)
(* each channel and of the whole ASIC are, ASIC_SPI_monitor.adt what their  *)
(* values mean.                                                             *)

\* FE_CHc_CONFIG; FE_GLOBAL_LEAKX10, ACCOUPLE, SWDAC, DAC; ADC_GLOBAL_CLK0; FE_LEAK.
ChannelField(c) == 144 + 8 * c
X10Field    == 276
CoupleField == 277
SwdacField  == 280
DacField    == 282
ClockField  == 143
LeakField   == 272

Swdac          == {SwdacField, SwdacField + 1}
Shown(w, pos, n) == {b \in 0..(n - 1) : pos + b \in w}
ShownLeak(w)   == {b \in {0, 4} : LeakField + b \in w}

\* The values of sc_conv, in mV/fC, us and pA.
ShownGain  == [S \in SUBSET {0, 1} |-> CASE S = {} -> "4.7"  [] S = {0} -> "14"
                                         [] S = {1} -> "7.8" [] OTHER -> "25"]
ShownShape == [S \in SUBSET {0, 1} |-> CASE S = {} -> "1"    [] S = {0} -> "3"
                                         [] S = {1} -> "0.5" [] OTHER -> "2"]
ShownPulser == [S \in SUBSET {0, 1} |-> CASE S = {} -> "off" [] S = {0} -> "internal"
                                         [] S = {1} -> "external" [] OTHER -> "unknown"]
LeakOf(S) == CASE S = {} -> 500 [] S = {0} -> 5000 [] S = {4} -> 100 [] OTHER -> 1000

\* The settings as the comment above ConfigFEMB and the schema explain them.
GainAsked   == <<"4.7", "7.8", "14", "25">>
ShapeAsked  == <<"0.5", "1", "2", "3">>
PulserAsked == <<"off", "internal", "external">>
LeakAsked(r) == (IF r.leak THEN 500 ELSE 100) * (IF r.x10 THEN 10 ELSE 1)
Documented(r) == r.gain <= 3 /\ r.shape <= 3

\* Gain, shaping time, test capacitance and, where it is the same for all channels,
\* baseline; the output buffer is bypassed and the output not monitored, either of
\* which "might blow up protoDUNE".
ChannelAsAsked(r, w, c) ==
  /\ ShownGain[Shown(w, ChannelField(c) + 4, 2)] = GainAsked[r.gain + 1]
  /\ ShownShape[Shown(w, ChannelField(c) + 2, 2)] = ShapeAsked[r.shape + 1]
  /\ r.base # 2 => ((ChannelField(c) + 6 \in w) <=> r.base = 0)
  /\ (ChannelField(c) + 7 \in w) <=> r.pls # 0
  /\ ChannelField(c) \notin w /\ ChannelField(c) + 1 \notin w

\* The amplitude is of the internal pulser and stands in its field with the lowest bit
\* highest, which no table says.  Leakage and its factor are as the table shows them
\* where the table and the comment above ConfigFEMB can both be right.
ChipAsAsked(r, w) ==
  /\ \A c \in Channel : ChannelAsAsked(r, w, c)
  /\ ShownPulser[Shown(w, SwdacField, 2)] = PulserAsked[r.pls + 1]
  /\ \A b \in 0..5 : (DacField + 5 - b \in w) <=> (r.pls = 1 /\ b \in Bin(r.dac, 6))
  /\ (X10Field \in w) <=> r.x10
  /\ r.leak # r.x10 => LeakOf(ShownLeak(w)) = LeakAsked(r)
  /\ (CoupleField \in w) <=> r.ac
  /\ (ClockField \in w) <=> r.ext

\* With base 2: a channel has the low baseline if and only if its wires collect.
PlanesInOrder(r, a, w) ==
  r.base = 2 => \A c \in Channel : (ChannelField(c) + 6 \in w) <=> Collection(a, c)
=============================================================================
