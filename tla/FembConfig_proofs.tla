--------------------------- MODULE FembConfig_proofs ---------------------------
(***************************************************************************)
(* What ConfigFEMB and its companions leave in a FEMB, for any ASICs, any   *)
(* settings, any number of calls and any faults.  MapIsRight shows that the *)
(* bits of the register maps mean what was asked, setting by setting; Held  *)
(* and Source follow what is in the ASICs and what the FEMB streams through *)
(* the steps of a call.                                                     *)
(***************************************************************************)
EXTENDS FembConfig, TLAPS

LEMMA TwoBits == /\ Bin(0, 2) = {} /\ Bin(1, 2) = {0}
                 /\ Bin(2, 2) = {1} /\ Bin(3, 2) = {0, 1}
<1>1. Weight[1] = 1 /\ Weight[2] = 2
  BY DEF Weight
<1>2. \A v \in 0..3 : Bin(v, 2) = {b \in {0, 1} : IF b = 0 THEN v % 2 = 1 ELSE v \in {2, 3}}
  <2> SUFFICES ASSUME NEW v \in 0..3
               PROVE  Bin(v, 2) = {b \in {0, 1} : IF b = 0 THEN v % 2 = 1 ELSE v \in {2, 3}}
    OBVIOUS
  <2>1. 0..(2 - 1) = {0, 1}
    OBVIOUS
  <2>2. v \div 1 = v /\ ((v \div 2) % 2 = 1 <=> v \in {2, 3})
    OBVIOUS
  <2> QED BY <1>1, <2>1, <2>2 DEF Bin
<1> QED BY <1>2

LEMMA ChannelBits ==
  ASSUME NEW r \in Settings, NEW a \in Asic, NEW c \in Channel
  PROVE  FeChannel(r, a, c) \subseteq 2..7
BY DEF FeChannel, Up, If, Bin

LEMMA GlobalBits ==
  ASSUME NEW r \in Settings
  PROVE  FeGlobal(r) \subseteq 0..15 /\ AdcGlobal(r) \subseteq 0..15
BY DEF FeGlobal, AdcGlobal, Up, If, Bin

\* Where the code puts a channel, and where a bit of an ASIC comes from.
Place(c) == FeStart + ChannelStart(c)

LEMMA WordOfChannel ==
  ASSUME NEW r \in Settings, NEW a \in Asic, NEW c \in Channel, NEW p \in 0..7
  PROVE  (Place(c) + p \in ChipWord(r, a)) <=> p \in FeChannel(r, a, c)
<1>1. Place(c) + p = 144 + 8 * (15 - c) + p /\ c \in 0..15
  BY DEF Place, FeStart, ChannelStart, Channel
<1>2. Place(c) + p \in 144..271
  BY <1>1
<1>3. Place(c) + p \notin AdcWord(r)
  BY <1>2, GlobalBits DEF AdcWord, Up, GlobalStart
<1>4. (Place(c) + p \in Up(FeStart, FeWord(r, a))) <=> 8 * (15 - c) + p \in FeWord(r, a)
  <2>1. \A b \in FeWord(r, a) : b \in Nat
    <3>1. \A d \in Channel : \A b \in Up(ChannelStart(d), FeChannel(r, a, d)) : b \in Nat
      BY ChannelBits DEF Up, ChannelStart, Channel
    <3>2. \A b \in Up(GlobalStart, FeGlobal(r)) : b \in Nat
      BY GlobalBits DEF Up, GlobalStart
    <3> QED BY <3>1, <3>2 DEF FeWord
  <2> QED BY <1>1, <2>1 DEF Up, FeStart
<1>5. 8 * (15 - c) + p \notin Up(GlobalStart, FeGlobal(r))
  BY <1>1, GlobalBits DEF Up, GlobalStart
<1>6. \A d \in Channel :
        (8 * (15 - c) + p \in Up(ChannelStart(d), FeChannel(r, a, d)))
          <=> (d = c /\ p \in FeChannel(r, a, c))
  <2> TAKE d \in Channel
  <2>1. FeChannel(r, a, d) \subseteq 2..7
    BY ChannelBits
  <2>2. \A q \in 2..7 : 8 * (15 - c) + p = 8 * (15 - d) + q => d = c /\ p = q
    BY DEF Channel
  <2> QED BY <2>1, <2>2 DEF Up, ChannelStart
<1>7. (8 * (15 - c) + p \in FeWord(r, a)) <=> p \in FeChannel(r, a, c)
  BY <1>5, <1>6 DEF FeWord
<1> QED BY <1>3, <1>4, <1>7 DEF ChipWord

\* The tables count the channels the other way.
LEMMA WordOfField ==
  ASSUME NEW r \in Settings, NEW a \in Asic, NEW c \in Channel, NEW p \in 0..7
  PROVE  /\ 15 - c \in Channel
         /\ (ChannelField(c) + p \in ChipWord(r, a)) <=> p \in FeChannel(r, a, 15 - c)
<1>1. 15 - c \in Channel /\ Place(15 - c) = ChannelField(c)
  BY DEF Channel, Place, FeStart, ChannelStart, ChannelField
<1> QED BY <1>1, WordOfChannel

LEMMA WordOfGlobal ==
  ASSUME NEW r \in Settings, NEW a \in Asic
  PROVE  /\ \A p \in 0..15 : (272 + p \in ChipWord(r, a)) <=> p \in FeGlobal(r)
         /\ (ClockField \in ChipWord(r, a)) <=> r.ext
<1>1. \A d \in Channel : \A b \in Up(ChannelStart(d), FeChannel(r, a, d)) : b \in 0..127
  BY ChannelBits DEF Up, ChannelStart, Channel
<1>2. \A b \in FeWord(r, a) : b \in 0..127 \/ b \in Up(GlobalStart, FeGlobal(r))
  BY <1>1 DEF FeWord
<1>3. \A b \in Up(GlobalStart, FeGlobal(r)) : b \in 128..143 /\ b - 128 \in FeGlobal(r)
  BY GlobalBits DEF Up, GlobalStart
<1>4. \A b \in AdcWord(r) : b \in 128..143
  BY GlobalBits DEF AdcWord, Up, GlobalStart
<1>5. ASSUME NEW p \in 0..15
      PROVE  (272 + p \in ChipWord(r, a)) <=> p \in FeGlobal(r)
  <2>1. ASSUME p \in FeGlobal(r) PROVE 272 + p \in ChipWord(r, a)
    <3>1. 128 + p \in FeWord(r, a)
      BY <2>1 DEF FeWord, Up, GlobalStart
    <3>2. 144 + (128 + p) = 272 + p
      OBVIOUS
    <3> QED BY <3>1, <3>2 DEF ChipWord, Up, FeStart
  <2>2. ASSUME 272 + p \in ChipWord(r, a) PROVE p \in FeGlobal(r)
    <3>1. PICK b \in FeWord(r, a) : 272 + p = 144 + b
      BY <2>2, <1>4 DEF ChipWord, Up, FeStart
    <3>2. b \in 0..127 \/ (b \in 128..143 /\ b - 128 \in FeGlobal(r))
      BY <1>2, <1>3
    <3>3. b = 128 + p
      BY <3>1, <3>2
    <3> QED BY <3>2, <3>3
  <2> QED BY <2>1, <2>2
<1>6. (ClockField \in ChipWord(r, a)) <=> r.ext
  <2>1. \A b \in FeWord(r, a) : 144 + b # 143
    BY <1>2, <1>3
  <2>2. ClockField \notin Up(FeStart, FeWord(r, a))
    BY <2>1 DEF Up, FeStart, ClockField
  <2>3. (ClockField \in AdcWord(r)) <=> r.ext
    BY DEF AdcWord, AdcGlobal, Up, If, GlobalStart, ClockField
  <2> QED BY <2>2, <2>3 DEF ChipWord
<1> QED BY <1>5, <1>6

-----------------------------------------------------------------------------
(* The register map does what is asked, for every setting                 *)

LEMMA GainIsShown ==
  ASSUME NEW g \in 0..3
  PROVE  ShownGain[Bin(GainCode[g + 1], 2)] = GainAsked[g + 1]
<1>1. /\ GainCode[1] = 0 /\ GainCode[2] = 2 /\ GainCode[3] = 1 /\ GainCode[4] = 3
      /\ GainAsked[1] = "4.7" /\ GainAsked[2] = "7.8" /\ GainAsked[3] = "14" /\ GainAsked[4] = "25"
  BY DEF GainCode, GainAsked
<1>2. /\ ShownGain[{}] = "4.7" /\ ShownGain[{0}] = "14" /\ ShownGain[{1}] = "7.8"
      /\ ShownGain[{0, 1}] = "25"
  BY DEF ShownGain
<1>3. g = 0 \/ g = 1 \/ g = 2 \/ g = 3
  OBVIOUS
<1> QED BY <1>1, <1>2, <1>3, TwoBits

LEMMA ShapeIsShown ==
  ASSUME NEW g \in 0..3
  PROVE  ShownShape[Bin(ShapeCode[g + 1], 2)] = ShapeAsked[g + 1]
<1>1. /\ ShapeCode[1] = 2 /\ ShapeCode[2] = 0 /\ ShapeCode[3] = 3 /\ ShapeCode[4] = 1
      /\ ShapeAsked[1] = "0.5" /\ ShapeAsked[2] = "1" /\ ShapeAsked[3] = "2" /\ ShapeAsked[4] = "3"
  BY DEF ShapeCode, ShapeAsked
<1>2. /\ ShownShape[{}] = "1" /\ ShownShape[{0}] = "3" /\ ShownShape[{1}] = "0.5"
      /\ ShownShape[{0, 1}] = "2"
  BY DEF ShownShape
<1>3. g = 0 \/ g = 1 \/ g = 2 \/ g = 3
  OBVIOUS
<1> QED BY <1>1, <1>2, <1>3, TwoBits

LEMMA PulserIsShown ==
  ASSUME NEW g \in 0..2
  PROVE  ShownPulser[Bin(g, 2)] = PulserAsked[g + 1]
<1>1. PulserAsked[1] = "off" /\ PulserAsked[2] = "internal" /\ PulserAsked[3] = "external"
  BY DEF PulserAsked
<1>2. ShownPulser[{}] = "off" /\ ShownPulser[{0}] = "internal" /\ ShownPulser[{1}] = "external"
  BY DEF ShownPulser
<1>3. g = 0 \/ g = 1 \/ g = 2
  OBVIOUS
<1> QED BY <1>1, <1>2, <1>3, TwoBits

LEMMA InOfTwo ==
  ASSUME NEW w, NEW pos \in Nat, NEW S \in SUBSET {0, 1},
         (pos \in w) <=> 0 \in S, (pos + 1 \in w) <=> 1 \in S
  PROVE  Shown(w, pos, 2) = S
<1>1. 0..(2 - 1) = {0, 1} /\ pos + 0 = pos
  OBVIOUS
<1> QED BY <1>1 DEF Shown

LEMMA FieldsOfChannel ==
  ASSUME NEW r \in Settings, NEW a \in Asic, NEW c \in Channel
  PROVE  /\ \A n \in 0..1 : (2 + n \in FeChannel(r, a, c))
                               <=> n \in Bin(ShapeCode[Byte(r.shape) + 1], 2)
         /\ \A n \in 0..1 : (4 + n \in FeChannel(r, a, c))
                               <=> n \in Bin(GainCode[Byte(r.gain) + 1], 2)
         /\ (6 \in FeChannel(r, a, c)) <=> LowBaseline(r, a, c)
         /\ (7 \in FeChannel(r, a, c)) <=> r.pls # 0
         /\ 0 \notin FeChannel(r, a, c) /\ 1 \notin FeChannel(r, a, c)
<1> DEFINE S == Bin(ShapeCode[Byte(r.shape) + 1], 2)
           G == Bin(GainCode[Byte(r.gain) + 1], 2)
<1>1. S \subseteq {0, 1} /\ G \subseteq {0, 1}
  BY DEF Bin
<1> HIDE DEF S, G
<1>2. FeChannel(r, a, c) = Up(2, S) \cup Up(4, G)
        \cup If(LowBaseline(r, a, c), {6}) \cup If(r.pls # 0, {7})
  BY DEF FeChannel, S, G
<1>3. /\ \A n : (n \in Up(2, S)) <=> ((n = 2 /\ 0 \in S) \/ (n = 3 /\ 1 \in S))
      /\ \A n : (n \in Up(4, G)) <=> ((n = 4 /\ 0 \in G) \/ (n = 5 /\ 1 \in G))
  <2>1. ASSUME NEW k \in Nat, NEW X \in SUBSET {0, 1}, NEW n
        PROVE  n \in Up(k, X) <=> ((n = k /\ 0 \in X) \/ (n = k + 1 /\ 1 \in X))
    <3>1. \A b \in X : b = 0 \/ b = 1
      BY <2>1
    <3>2. k + 0 = k
      BY <2>1
    <3> QED BY <3>1, <3>2 DEF Up
  <2>2. S \in SUBSET {0, 1} /\ G \in SUBSET {0, 1} /\ 2 + 1 = 3 /\ 4 + 1 = 5
    BY <1>1
  <2> QED BY <2>1, <2>2
<1>4. /\ \A n : (n \in If(LowBaseline(r, a, c), {6})) <=> (n = 6 /\ LowBaseline(r, a, c))
      /\ \A n : (n \in If(r.pls # 0, {7})) <=> (n = 7 /\ r.pls # 0)
  BY DEF If
<1>5. \A n : (n \in FeChannel(r, a, c)) <=>
               \/ (n = 2 /\ 0 \in S) \/ (n = 3 /\ 1 \in S) \/ (n = 4 /\ 0 \in G)
               \/ (n = 5 /\ 1 \in G) \/ (n = 6 /\ LowBaseline(r, a, c)) \/ (n = 7 /\ r.pls # 0)
  BY <1>2, <1>3, <1>4
<1> QED BY <1>5 DEF S, G

LEMMA FieldsOfGlobal ==
  ASSUME NEW r \in Settings, r.pls \in 0..2
  PROVE  /\ \A n \in 0..1 : (8 + n \in FeGlobal(r)) <=> n \in Bin(r.pls, 2)
         /\ \A b \in 0..5 : (15 - b \in FeGlobal(r)) <=> (r.pls = 1 /\ b \in Bin(r.dac, 6))
         /\ (0 \in FeGlobal(r)) <=> ~r.leak
         /\ (4 \in FeGlobal(r)) <=> r.x10
         /\ (5 \in FeGlobal(r)) <=> r.ac
<1> DEFINE P == Bin(r.pls, 2)
           D == Bin(Amplitude(r), 6)
<1>1. P \subseteq {0, 1}
  BY DEF Bin
<1>2. D \subseteq 0..5 /\ \A b \in 0..5 : b \in D <=> (r.pls = 1 /\ b \in Bin(r.dac, 6))
  <2>1. 0..(6 - 1) = 0..5
    OBVIOUS
  <2>2. ASSUME r.pls = 1 PROVE D = Bin(r.dac, 6)
    BY <2>2 DEF Amplitude
  <2>3. ASSUME r.pls # 1, NEW b \in 0..5 PROVE b \notin D
    <3>1. Weight[b + 1] \in Nat \ {0}
      <4>1. b = 0 \/ b = 1 \/ b = 2 \/ b = 3 \/ b = 4 \/ b = 5
        OBVIOUS
      <4> QED BY <4>1 DEF Weight
    <3>2. \A n \in Nat \ {0} : (0 \div n) % 2 = 0
      OBVIOUS
    <3>3. Amplitude(r) = 0
      BY <2>3 DEF Amplitude
    <3> QED BY <3>1, <3>2, <3>3 DEF Bin
  <2>4. D \subseteq 0..5
    BY <2>1 DEF Bin
  <2> QED BY <2>2, <2>3, <2>4
<1>3. FeGlobal(r) = If(~r.leak, {0}) \cup If(r.x10, {4}) \cup If(r.ac, {5})
                      \cup Up(8, P) \cup {15 - b : b \in D}
  BY DEF FeGlobal
<1> HIDE DEF P, D
<1>4. /\ \A n : n \in If(~r.leak, {0}) <=> (n = 0 /\ ~r.leak)
      /\ \A n : n \in If(r.x10, {4}) <=> (n = 4 /\ r.x10)
      /\ \A n : n \in If(r.ac, {5}) <=> (n = 5 /\ r.ac)
  BY DEF If
<1>5. \A n : n \in Up(8, P) <=> ((n = 8 /\ 0 \in P) \/ (n = 9 /\ 1 \in P))
  BY <1>1 DEF Up
<1>6. \A n : n \in {15 - b : b \in D} <=> n \in 10..15 /\ 15 - n \in D
  <2> SUFFICES ASSUME NEW n PROVE n \in {15 - b : b \in D} <=> n \in 10..15 /\ 15 - n \in D
    OBVIOUS
  <2>1. ASSUME n \in {15 - b : b \in D} PROVE n \in 10..15 /\ 15 - n \in D
    <3>1. PICK b \in D : n = 15 - b
      BY <2>1
    <3>2. b \in 0..5 /\ 15 - n = b
      BY <1>2, <3>1
    <3> QED BY <3>1, <3>2
  <2>2. ASSUME n \in 10..15, 15 - n \in D PROVE n \in {15 - b : b \in D}
    <3>1. 15 - (15 - n) = n
      BY <2>2
    <3> QED BY <2>2, <3>1
  <2> QED BY <2>1, <2>2
<1>7. \A n \in 0..15 : n \in FeGlobal(r) <=>
        \/ (n = 0 /\ ~r.leak) \/ (n = 4 /\ r.x10) \/ (n = 5 /\ r.ac)
        \/ (n = 8 /\ 0 \in P) \/ (n = 9 /\ 1 \in P) \/ (n \in 10..15 /\ 15 - n \in D)
  BY <1>3, <1>4, <1>5, <1>6
<1>8. \A n \in 0..1 : (8 + n \in FeGlobal(r)) <=> n \in P
  BY <1>7
<1>9. \A b \in 0..5 : (15 - b \in FeGlobal(r)) <=> (r.pls = 1 /\ b \in Bin(r.dac, 6))
  <2> TAKE b \in 0..5
  <2>1. 15 - b \in 10..15 /\ 15 - (15 - b) = b
    OBVIOUS
  <2>2. (15 - b \in FeGlobal(r)) <=> b \in D
    BY <1>7, <2>1
  <2> QED BY <1>2, <2>2
<1>10. /\ (0 \in FeGlobal(r)) <=> ~r.leak
       /\ (4 \in FeGlobal(r)) <=> r.x10
       /\ (5 \in FeGlobal(r)) <=> r.ac
  BY <1>7
<1> QED BY <1>8, <1>9, <1>10 DEF P

\* For every setting in the documented range and every ASIC of every FEMB: the 288 bits
\* written have what was asked for where the address tables look for it.
LEMMA MapIsRight ==
  ASSUME NEW r \in Settings, Documented(r), r.pls \in 0..2, NEW a \in Asic
  PROVE  ChipAsAsked(r, ChipWord(r, a))
<1> DEFINE w == ChipWord(r, a)
<1> HIDE DEF w
<1>1. r.gain \in 0..3 /\ r.shape \in 0..3 /\ Byte(r.gain) = r.gain /\ Byte(r.shape) = r.shape
  BY DEF Settings, Documented, Byte
<1>2. ASSUME NEW c \in Channel
      PROVE  ChannelAsAsked(r, w, c)
  <2> DEFINE F == FeChannel(r, a, 15 - c)
             f == ChannelField(c)
             S == Bin(ShapeCode[r.shape + 1], 2)
             G == Bin(GainCode[r.gain + 1], 2)
  <2>1. f \in Nat /\ S \in SUBSET {0, 1} /\ G \in SUBSET {0, 1}
    BY DEF ChannelField, Channel, Bin
  <2>2. 15 - c \in Channel
    BY WordOfField, 0 \in 0..7
  <2>3. \A p \in 0..7 : (f + p \in w) <=> p \in F
    BY WordOfField DEF w
  <2>4. /\ \A n \in 0..1 : (2 + n \in F) <=> n \in S
        /\ \A n \in 0..1 : (4 + n \in F) <=> n \in G
        /\ (6 \in F) <=> LowBaseline(r, a, 15 - c)
        /\ (7 \in F) <=> r.pls # 0
        /\ 0 \notin F /\ 1 \notin F
    BY <1>1, <2>2, FieldsOfChannel
  <2> HIDE DEF F, f, S, G
  <2>5. Shown(w, f + 4, 2) = G
    <3>1. (4 \in F <=> 0 \in G) /\ (5 \in F <=> 1 \in G)
      <4>1. (4 + 0 \in F <=> 0 \in G) /\ (4 + 1 \in F <=> 1 \in G)
        BY <2>4
      <4> QED BY <4>1
    <3>2. ((f + 4 \in w) <=> 0 \in G) /\ ((f + 5 \in w) <=> 1 \in G)
      BY <2>3, <3>1
    <3>3. (f + 4) + 1 = f + 5 /\ f + 4 \in Nat
      BY <2>1
    <3> QED BY <2>1, <3>2, <3>3, InOfTwo
  <2>6. Shown(w, f + 2, 2) = S
    <3>1. (2 \in F <=> 0 \in S) /\ (3 \in F <=> 1 \in S)
      <4>1. (2 + 0 \in F <=> 0 \in S) /\ (2 + 1 \in F <=> 1 \in S)
        BY <2>4
      <4> QED BY <4>1
    <3>2. ((f + 2 \in w) <=> 0 \in S) /\ ((f + 3 \in w) <=> 1 \in S)
      BY <2>3, <3>1
    <3>3. (f + 2) + 1 = f + 3 /\ f + 2 \in Nat
      BY <2>1
    <3> QED BY <2>1, <3>2, <3>3, InOfTwo
  <2>7. r.base # 2 => ((f + 6 \in w) <=> r.base = 0)
    BY <2>3, <2>4 DEF LowBaseline
  <2>8. /\ (f + 7 \in w) <=> r.pls # 0
        /\ f \notin w /\ f + 1 \notin w
    <3>1. f + 0 = f
      BY <2>1
    <3> QED BY <2>3, <2>4, <3>1
  <2> QED
    BY <1>1, <2>5, <2>6, <2>7, <2>8, GainIsShown, ShapeIsShown DEF ChannelAsAsked, f, G, S
<1>3. \A p \in 0..15 : (272 + p \in w) <=> p \in FeGlobal(r)
  BY WordOfGlobal DEF w
<1>4. ShownPulser[Shown(w, SwdacField, 2)] = PulserAsked[r.pls + 1]
  <2> DEFINE G == Bin(r.pls, 2)
  <2>1. G \in SUBSET {0, 1}
    BY DEF Bin
  <2>2. (8 \in FeGlobal(r) <=> 0 \in G) /\ (9 \in FeGlobal(r) <=> 1 \in G)
    <3>1. (8 + 0 \in FeGlobal(r) <=> 0 \in G) /\ (8 + 1 \in FeGlobal(r) <=> 1 \in G)
      BY FieldsOfGlobal
    <3> QED BY <3>1
  <2> HIDE DEF G
  <2>3. (272 + 8 \in w <=> 8 \in FeGlobal(r)) /\ (272 + 9 \in w <=> 9 \in FeGlobal(r))
    BY <1>3
  <2>4. (280 \in w <=> 0 \in G) /\ (280 + 1 \in w <=> 1 \in G)
    BY <2>2, <2>3
  <2>5. Shown(w, 280, 2) = G
    BY <2>1, <2>4, InOfTwo
  <2> QED BY <2>5, PulserIsShown DEF G, SwdacField
<1>5. \A b \in 0..5 : (DacField + 5 - b \in w) <=> (r.pls = 1 /\ b \in Bin(r.dac, 6))
  <2> TAKE b \in 0..5
  <2>1. DacField + 5 - b = 272 + (15 - b) /\ 15 - b \in 0..15
    BY DEF DacField
  <2> QED BY <1>3, <2>1, FieldsOfGlobal
<1>6. /\ (272 \in w) <=> ~r.leak
      /\ (276 \in w) <=> r.x10
      /\ (277 \in w) <=> r.ac
  <2>1. /\ (272 + 0 \in w) <=> 0 \in FeGlobal(r)
        /\ (272 + 4 \in w) <=> 4 \in FeGlobal(r)
        /\ (272 + 5 \in w) <=> 5 \in FeGlobal(r)
    BY <1>3
  <2> QED BY <2>1, FieldsOfGlobal
<1>7. ASSUME r.leak # r.x10 PROVE LeakOf(ShownLeak(w)) = LeakAsked(r)
  <2>1. r.leak \in BOOLEAN /\ r.x10 \in BOOLEAN
    BY DEF Settings
  <2>2. /\ 0 \in ShownLeak(w) <=> ~r.leak
        /\ 4 \in ShownLeak(w) <=> r.x10
        /\ ShownLeak(w) \subseteq {0, 4}
    <3>1. 272 + 0 = 272 /\ 272 + 4 = 276
      OBVIOUS
    <3> QED BY <1>6, <3>1 DEF ShownLeak, LeakField
  <2>3. CASE r.leak /\ ~r.x10
    <3>1. ShownLeak(w) = {}
      BY <2>2, <2>3
    <3>2. LeakAsked(r) = 500
      BY <2>3 DEF LeakAsked
    <3> QED BY <3>1, <3>2 DEF LeakOf
  <2>4. CASE ~r.leak /\ r.x10
    <3>1. 0 \in ShownLeak(w) /\ 4 \in ShownLeak(w)
      BY <2>2, <2>4
    <3>2. ShownLeak(w) # {} /\ ShownLeak(w) # {0} /\ ShownLeak(w) # {4}
      BY <3>1
    <3>3. LeakAsked(r) = 1000
      BY <2>4 DEF LeakAsked
    <3> QED BY <3>2, <3>3 DEF LeakOf
  <2> QED BY <1>7, <2>1, <2>3, <2>4
<1>8. (ClockField \in w) <=> r.ext
  BY WordOfGlobal DEF w
<1> QED
  BY <1>2, <1>4, <1>5, <1>6, <1>7, <1>8 DEF ChipAsAsked, w, X10Field, CoupleField
-----------------------------------------------------------------------------
(* Types                                                                   *)

LEMMA WordType ==
  ASSUME NEW r \in Settings, NEW a \in Asic
  PROVE  ChipWord(r, a) \in Word
<1>1. \A d \in Channel : \A b \in Up(ChannelStart(d), FeChannel(r, a, d)) : b \in 0..127
  BY ChannelBits DEF Up, ChannelStart, Channel
<1>2. \A b \in Up(GlobalStart, FeGlobal(r)) : b \in 128..143
  BY GlobalBits DEF Up, GlobalStart
<1>3. \A b \in FeWord(r, a) : b \in 0..143
  BY <1>1, <1>2 DEF FeWord
<1>4. \A b \in AdcWord(r) : b \in 0..143
  BY GlobalBits DEF AdcWord, Up, GlobalStart
<1>5. \A b \in Up(FeStart, FeWord(r, a)) : b \in 0..287
  BY <1>3 DEF Up, FeStart
<1> QED BY <1>4, <1>5 DEF ChipWord, Word, ChipBits

LEMMA RegsType ==
  ASSUME NEW r \in Asked, InRange(r)
  PROVE  Regs[r] = [a \in Asic |-> ChipWord(r, a)] /\ Regs[r] \in [Asic -> Word]
BY WordType, AskedAssumption DEF Regs

LEMMA OpType == ASSUME NEW o \in Calls
                PROVE  /\ o \in Asked \/ o \in FakeAsked \/ o = Pulse
                       /\ o.kind = "config" => o \in Asked /\ o \in Settings
                       /\ o.kind = "fake" => o \in FakeAsked /\ o \in Fakes
                       /\ o.kind = "pulser" => o = Pulse
                       /\ o.kind \in {"config", "fake", "pulser"}
BY AskedAssumption, FakesAssumption DEF Calls, Settings, Fakes, Pulse

LEMMA UptoType ==
  ASSUME femb \in Femb, NEW w \in [Asic -> Word], NEW a, NEW k
  PROVE  Window(Upto(w, a, k)) \in Femb
<1>1. Upto(w, a, k) \in [Asic -> Word]
  BY DEF Upto, Word, Femb
<1> QED BY <1>1 DEF Window, Femb

LEMMA WindowType ==
  ASSUME femb \in Femb, NEW w \in [Asic -> Word]
  PROVE  Window(w) \in Femb
BY DEF Window, Femb

\* What Go and Writes come to.
LEMMA GoSteps ==
  ASSUME NEW mid, NEW f, NEW p, Go(mid, f, p)
  PROVE  /\ femb' \in {femb, f} \cup mid
         /\ \/ pc' = p /\ out' = out /\ ("write" \notin faults => femb' = f)
            \/ pc' = "idle" /\ out' = "failed"
BY DEF Go, Ends

LEMMA WritesSteps ==
  ASSUME NEW mid, NEW f, NEW p, Writes(mid, f, p)
  PROVE  /\ femb' \in {femb, f} \cup mid
         /\ \/ pc' = p /\ out' = out /\ ("write" \notin faults => femb' = f)
            \/ pc' = "idle" /\ out' = "failed"
         /\ UNCHANGED <<faults, dnd, op, saved, pass, vals, warn, calls, before>>
BY GoSteps DEF Writes, local

\* The control: which step a call may be at, and what its arguments have passed.
Spi == {"off", "load", "program", "verify", "on"}
Control ==
  /\ pc # "idle" => out = "none" /\ ~Bad(op) /\ pass <= Passes
  /\ op.kind = "config" => /\ pc # "fake"
                           /\ pc \in Spi \cup {"sync", "back"} => InRange(op)
  /\ op.kind = "fake" => pc \in {"idle", "save", "reset", "fake", "back"}
  /\ op.kind = "pulser" => pc \in {"idle"} \cup Spi
  /\ pc = "clock" => op.ext

LEMMA WritesType ==
  ASSUME TypeOK, NEW mid, NEW f, NEW p, Writes(mid, f, p),
         f \in Femb, mid \subseteq Femb,
         p \in {"fake", "clock", "asic_reset", "pulser", "args", "load", "program",
                "verify", "on", "back"}
  PROVE  TypeOK'
<1>1. femb' \in Femb
  BY WritesSteps DEF TypeOK
<1>2. pc' \in {p, "idle"} /\ out' \in {out, "failed"}
  BY WritesSteps
<1>3. UNCHANGED <<faults, dnd, op, saved, pass, vals, warn, calls, before>>
  BY WritesSteps
<1> QED BY <1>1, <1>2, <1>3 DEF TypeOK

\* What a step leaves of a FEMB is a FEMB.
LEMMA ResetType ==
  ASSUME NEW f \in Femb, NEW on \in BOOLEAN, NEW win \in [Asic -> Word]
  PROVE  ResetTo(f, on, win) \in Femb
<1>1. f.chip \in [Asic -> Word]
  BY DEF Femb
<1> QED BY <1>1 DEF ResetTo, Femb

LEMMA FieldType ==
  ASSUME NEW f \in Femb
  PROVE  /\ \A b \in BOOLEAN : Stream(f, b) \in Femb
         /\ \A m \in 0..4 : [f EXCEPT !.tst = m] \in Femb
         /\ [f EXCEPT !.timing = TRUE] \in Femb
         /\ \A S \in SUBSET Pulsers, m \in 0..63 : [f EXCEPT !.tp = S, !.amp = m] \in Femb
         /\ \A k \in 1..4 : [f EXCEPT !.phase_en = PhaseEn(k)] \in Femb
         /\ \A c \in [Asic -> Word] : [f EXCEPT !.chip = c] \in Femb
<1>1. \A b \in BOOLEAN : Stream(f, b) \in Femb
  BY DEF Femb, Stream
<1>2. \A m \in 0..4 : [f EXCEPT !.tst = m] \in Femb
  BY DEF Femb
<1>3. [f EXCEPT !.timing = TRUE] \in Femb
  BY DEF Femb
<1>4. \A k \in 1..4 : [f EXCEPT !.phase_en = PhaseEn(k)] \in Femb
  <2> TAKE k \in 1..4
  <2>1. PhaseEn(k) \in 0..1
    BY DEF PhaseEn
  <2> QED BY <2>1 DEF Femb
<1>5. \A c \in [Asic -> Word] : [f EXCEPT !.chip = c] \in Femb
  BY DEF Femb
<1>6. \A S \in SUBSET Pulsers, m \in 0..63 : [f EXCEPT !.tp = S, !.amp = m] \in Femb
  <2> TAKE S \in SUBSET Pulsers, m \in 0..63
  <2> DEFINE g == [f EXCEPT !.tp = S]
  <2>1. g \in Femb
    BY DEF Femb
  <2>2. [f EXCEPT !.tp = S, !.amp = m] = [g EXCEPT !.amp = m]
    BY DEF Femb
  <2> HIDE DEF g
  <2>3. [g EXCEPT !.amp = m] \in Femb
    BY <2>1 DEF Femb
  <2> QED BY <2>2, <2>3
<1> QED BY <1>1, <1>2, <1>3, <1>4, <1>5, <1>6

LEMMA TypeStep == TypeOK /\ Control /\ [Next]_vars => TypeOK'
<1> SUFFICES ASSUME TypeOK, Control, [Next]_vars
             PROVE  TypeOK'
  OBVIOUS
<1>0. femb \in Femb /\ op \in Calls /\ Blank \in [Asic -> Word]
  BY DEF TypeOK, Blank, Word
<1>1. CASE UNCHANGED vars
  BY <1>1 DEF vars, TypeOK
<1>2. ASSUME NEW o \in Calls, Call(o) PROVE TypeOK'
  <2>1. calls' \in 0..MaxCalls
    BY <1>2, CallsAssumption DEF Call, TypeOK
  <2>2. pc' \in {"idle", "off", "save"} /\ out' \in {"refused", "none"}
    BY <1>2 DEF Call, Ends
  <2>3. op' \in Calls /\ vals' \in [Asic -> Word] /\ UNCHANGED <<faults, femb, dnd>>
    BY <1>0, <1>2 DEF Call
  <2>4. saved' = FALSE /\ warn' = FALSE /\ before' = dnd /\ pass' = 1
    BY <1>2 DEF Call
  <2>5. pass' \in 1..3
    BY <2>4
  <2>6. saved' \in BOOLEAN /\ warn' \in BOOLEAN /\ before' \in BOOLEAN
    BY <2>4 DEF TypeOK
  <2> QED BY <2>1, <2>2, <2>3, <2>5, <2>6 DEF TypeOK
<1>3. CASE Save
  BY <1>3 DEF Save, Throw, Ends, local, Saved, TypeOK
<1>4. CASE Check
  BY <1>4 DEF Check, Throw, Ends, To, local, TypeOK
<1>5. CASE Reset
  <2>1. PICK on \in BOOLEAN, win \in {femb.win, Blank} :
            Writes({}, ResetTo(femb, on, win), AfterReset)
    BY <1>5 DEF Reset
  <2>2. ResetTo(femb, on, win) \in Femb
    <3>1. win \in [Asic -> Word]
      BY <1>0 DEF Femb
    <3> QED BY <1>0, <3>1, ResetType
  <2> QED BY <2>1, <2>2, WritesType DEF AfterReset
<1>6. CASE Fake
  <2>1. op.mode \in 0..4
    <3>1. op.kind # "config" /\ op.kind # "pulser"
      BY <1>6 DEF Fake, Control, Spi
    <3>2. op \in Fakes
      BY <1>0, <3>1, OpType
    <3> QED BY <3>2 DEF Fakes
  <2> DEFINE off == Stream(femb, FALSE)
             sel == [off EXCEPT !.tst = op.mode]
  <2>2. off \in Femb /\ sel \in Femb /\ Stream(sel, TRUE) \in Femb
    BY <1>0, <2>1, FieldType
  <2> DEFINE f == Stream(sel, TRUE)
             mid == {off, sel}
  <2>3. Writes(mid, f, "back") /\ f \in Femb /\ mid \subseteq Femb
    BY <1>6, <2>2 DEF Fake
  <2> HIDE DEF off, sel, f, mid
  <2> QED BY <2>2, <2>3, WritesType
<1>7. CASE Clock
  <2> DEFINE set == [femb EXCEPT !.timing = TRUE]
             round(k) == [set EXCEPT !.phase_en = PhaseEn(k)]
  <2>1. set \in Femb
    BY <1>0, FieldType
  <2>2. \A k \in 1..4 : round(k) \in Femb
    BY <2>1, FieldType
  <2> HIDE DEF round, set
  <2>3. {set} \cup {round(k) : k \in 1..(Rounds - 1)} \subseteq Femb /\ round(Rounds) \in Femb
    BY <2>1, <2>2 DEF Rounds
  <2>4. Writes({set} \cup {round(k) : k \in 1..(Rounds - 1)}, round(Rounds), "asic_reset")
    BY <1>7 DEF Clock, set, round
  <2> QED BY <2>3, <2>4, WritesType
<1>8. CASE AsicReset
  <2> DEFINE adc == [femb EXCEPT !.chip = [a \in Asic |-> @[a] \ AdcBits]]
             fe  == [femb EXCEPT !.chip = Blank]
  <2>1. adc \in Femb /\ fe \in Femb
    <3>1. [a \in Asic |-> femb.chip[a] \ AdcBits] \in [Asic -> Word]
      BY <1>0 DEF Femb, Word
    <3>2. adc = [femb EXCEPT !.chip = [a \in Asic |-> femb.chip[a] \ AdcBits]]
      BY <1>0 DEF Femb
    <3> HIDE DEF adc
    <3> QED BY <1>0, <3>1, <3>2, FieldType
  <2>2. Writes({adc}, fe, "pulser")
    BY <1>8 DEF AsicReset
  <2> HIDE DEF adc, fe
  <2> QED BY <2>1, <2>2, WritesType
<1>9. CASE Pulser
  <2>1. CASE To("args") \/ Throw("refused")
    BY <2>1 DEF To, Throw, Ends, local, TypeOK
  <2>2. CASE InternalTp
    <3> DEFINE a == [femb EXCEPT !.tp = @ \ {"dac"}, !.amp = 0]
               b == [a EXCEPT !.tp = @ \ {"int"}]
               c == [b EXCEPT !.tp = @ \cup {"ext"}]
               d == [c EXCEPT !.tp = @ \ {"fpga"}]
               e == [d EXCEPT !.tp = @ \cup {"asic"}]
    <3>1. a \in Femb
      <4>1. femb.tp \ {"dac"} \in SUBSET Pulsers /\ 0 \in 0..63
        BY <1>0 DEF Femb
      <4> QED BY <1>0, <4>1, FieldType
    <3>2. b \in Femb
      BY <3>1 DEF Femb, Pulsers
    <3>3. c \in Femb
      BY <3>2 DEF Femb, Pulsers
    <3>4. d \in Femb
      BY <3>3 DEF Femb, Pulsers
    <3>5. e \in Femb
      BY <3>4 DEF Femb, Pulsers
    <3>6. Writes({a, b, c, d}, e, "args")
      BY <2>2 DEF InternalTp
    <3> HIDE DEF a, b, c, d, e
    <3> QED BY <3>1, <3>2, <3>3, <3>4, <3>5, <3>6, WritesType
  <2>3. CASE op.pls = 2 /\ ~TooHigh /\ FpgaTp
    <3> DEFINE a == [femb EXCEPT !.tp = @ \ {"asic"}]
               b == [a EXCEPT !.tp = @ \cup {"fpga"}]
               c == [b EXCEPT !.tp = @ \cup {"dac"}, !.amp = op.dac]
               d == [c EXCEPT !.tp = @ \ {"int"}]
               e == [d EXCEPT !.tp = @ \cup {"ext"}]
    <3>0. op.dac \in 0..63
      BY <1>0, <1>9, OpType DEF Control, Pulser, Spi, Settings
    <3>1. a \in Femb
      BY <1>0 DEF Femb, Pulsers
    <3>2. b \in Femb
      BY <3>1 DEF Femb, Pulsers
    <3>3. c \in Femb
      BY <3>0, <3>2 DEF Femb, Pulsers
    <3>4. d \in Femb
      BY <3>3 DEF Femb, Pulsers
    <3>5. e \in Femb
      BY <3>4 DEF Femb, Pulsers
    <3>6. Writes({a, b, c, d}, e, "args")
      BY <2>3 DEF FpgaTp
    <3> HIDE DEF a, b, c, d, e
    <3> QED BY <3>1, <3>2, <3>3, <3>4, <3>5, <3>6, WritesType
  <2> QED BY <1>9, <2>1, <2>2, <2>3 DEF Pulser
<1>10. CASE Args
  BY <1>10 DEF Args, To, Throw, Ends, local, TypeOK
<1>11. CASE StreamOff
  <2>1. Stream(femb, FALSE) \in Femb
    BY <1>0, FieldType
  <2> DEFINE f == Stream(femb, FALSE)
  <2>2. Writes({}, f, "load") /\ f \in Femb
    BY <1>11, <2>1 DEF StreamOff
  <2> HIDE DEF f
  <2> QED BY <2>1, <2>2, WritesType
<1>12. CASE Load
  <2>1. Regs[op] \in [Asic -> Word]
    BY <1>0, <1>12, RegsType, OpType DEF Load, Control, Spi
  <2> DEFINE mid == {Window(Upto(Regs[op], a, k)) : a \in Asic, k \in Stops}
  <2>2. mid \subseteq Femb /\ Window(Regs[op]) \in Femb
    BY <1>0, <2>1, UptoType, WindowType
  <2> HIDE DEF mid
  <2>3. femb' \in Femb /\ pc' \in {"program", "idle"} /\ out' \in {out, "failed"}
    <3>1. Go(mid, Window(Regs[op]), "program")
      BY <1>12 DEF Load, mid
    <3> DEFINE f == Window(Regs[op])
    <3>2. Go(mid, f, "program") /\ f \in Femb
      BY <2>2, <3>1
    <3> HIDE DEF f
    <3>3. femb' \in {femb, f} \cup mid
      BY <3>2, GoSteps
    <3>4. pc' \in {"program", "idle"} /\ out' \in {out, "failed"}
      BY <3>2, GoSteps
    <3> QED BY <1>0, <2>2, <3>2, <3>3, <3>4
  <2> QED BY <1>12, <2>1, <2>3 DEF Load, TypeOK
<1>13. CASE LoadBits
  <2>1. PICK wrong \in IF "read" \in faults THEN SUBSET Asic ELSE {{}} :
          LET init(a) == IF a \in wrong THEN {} ELSE femb.win[a] \cap Register(8)
              new == [a \in Asic |-> (femb.win[a] \ Register(8)) \cup External(init(a))]
          IN  /\ vals' = new
              /\ Go({Window(Upto(new, a, 8)) : a \in Asic}, Window(new), "program")
    BY <1>13 DEF LoadBits
  <2> DEFINE init(a) == IF a \in wrong THEN {} ELSE femb.win[a] \cap Register(8)
             new == [a \in Asic |-> (femb.win[a] \ Register(8)) \cup External(init(a))]
  <2>2. new \in [Asic -> Word]
    BY <1>0 DEF External, Femb, Word, ChipBits, Swdac, SwdacField
  <2> HIDE DEF new
  <2> DEFINE mid == {Window(Upto(new, a, 8)) : a \in Asic}
  <2>3. mid \subseteq Femb /\ Window(new) \in Femb
    BY <1>0, <2>2, UptoType, WindowType
  <2>4. vals' = new /\ Go(mid, Window(new), "program")
    BY <2>1 DEF new
  <2> HIDE DEF mid
  <2>5. femb' \in Femb /\ pc' \in {"program", "idle"} /\ out' \in {out, "failed"}
    <3> DEFINE f == Window(new)
    <3>2. Go(mid, f, "program") /\ f \in Femb
      BY <2>3, <2>4
    <3> HIDE DEF f
    <3>3. femb' \in {femb, f} \cup mid
      BY <3>2, GoSteps
    <3>4. pc' \in {"program", "idle"} /\ out' \in {out, "failed"}
      BY <3>2, GoSteps
    <3> QED BY <1>0, <2>3, <3>2, <3>3, <3>4
  <2> QED BY <1>13, <2>2, <2>4, <2>5 DEF LoadBits, TypeOK
<1>14. CASE Program
  <2>1. PICK deaf : Writes({}, [femb EXCEPT !.chip =
                     [a \in Asic |-> IF a \in deaf THEN @[a] ELSE femb.win[a]]],
              IF pass = Passes THEN "verify" ELSE "on")
    BY <1>14 DEF Program
  <2>2. [femb EXCEPT !.chip = [a \in Asic |-> IF a \in deaf THEN @[a] ELSE femb.win[a]]] \in Femb
    BY <1>0 DEF Femb
  <2> QED BY <2>1, <2>2, WritesType
<1>15. CASE Verify
  BY <1>15 DEF Verify, Throw, Ends, To, local, TypeOK
<1>16. CASE StreamOn
  <2> DEFINE f == Stream(femb, TRUE)
  <2>1. f \in Femb
    BY <1>0, FieldType
  <2>2. \/ pass < Passes /\ Go({}, f, "off") /\ pass' = NextPass
        \/ pass' = pass /\ Go({}, f, "sync")
        \/ pass' = pass /\ femb' \in {femb, f} /\ pc' = "idle" /\ out' \in {"ok", "failed"}
    BY <1>16 DEF StreamOn, Ends
  <2> HIDE DEF f
  <2>3. femb' \in {femb, f} /\ pc' \in {"off", "sync", "idle"} /\ out' \in {out, "failed", "ok"}
    BY <2>2, GoSteps
  <2>4. pass' \in 1..3
    BY <2>2 DEF NextPass, Passes, TypeOK
  <2> QED BY <1>0, <1>16, <2>1, <2>3, <2>4 DEF StreamOn, TypeOK
<1>17. CASE Sync
  BY <1>17 DEF Sync, Throw, Ends, To, local, TypeOK
<1>18. CASE Back
  BY <1>18 DEF Back, Ends, local, TypeOK
<1>19. CASE Done
  BY <1>19 DEF Done, vars, TypeOK
<1> QED BY <1>1, <1>2, <1>3, <1>4, <1>5, <1>6, <1>7, <1>8, <1>9, <1>10, <1>11, <1>12, <1>13,
           <1>14, <1>15, <1>16, <1>17, <1>18, <1>19 DEF Next, Proceed

LEMMA ControlStep == TypeOK /\ Control /\ [Next]_vars => Control'
<1> SUFFICES ASSUME TypeOK, Control, [Next]_vars
             PROVE  Control'
  OBVIOUS
<1>1. CASE UNCHANGED vars
  BY <1>1 DEF vars, Control, Bad, BadFake, InRange, Passes
<1>2. ASSUME NEW o \in Calls, Call(o) PROVE Control'
  BY <1>2, OpType DEF Call, Ends, Control, Bad, BadFake, Passes, Spi
\* A step of a call, by where it leads.
<1>3. ASSUME UNCHANGED <<op, pass>>, pc # "idle",
             \/ pc' = "idle"
             \/ /\ out' = "none"
                /\ op.kind = "config" => pc' # "fake"
                /\ op.kind = "config" /\ pc' \in Spi \cup {"sync", "back"} => InRange(op)
                /\ op.kind = "fake" => pc' \in {"idle", "save", "reset", "fake", "back"}
                /\ op.kind = "pulser" => pc' \in {"idle"} \cup Spi
                /\ pc' = "clock" => op.ext
      PROVE  Control'
  BY <1>3 DEF Control, Bad, BadFake, InRange, Passes, Spi
<1>4. CASE Save
  BY <1>3, <1>4 DEF Save, Throw, Ends, local, Control, Spi
<1>5. CASE Check
  BY <1>3, <1>5 DEF Check, Throw, Ends, To, local, Control, Spi
<1>6. CASE Reset
  BY <1>3, <1>6, WritesSteps, OpType DEF Reset, AfterReset, Control, Spi, TypeOK
<1>7. CASE Fake
  <2>1. /\ pc = "fake" /\ pc' \in {"back", "idle"}
        /\ UNCHANGED <<op, pass>> /\ out' \in {out, "failed"} /\ (pc' # "idle" => out' = out)
    BY <1>7, WritesSteps DEF Fake
  <2> QED BY <1>3, <2>1 DEF Control, Spi
<1>8. CASE Clock
  <2>1. /\ pc = "clock" /\ pc' \in {"asic_reset", "idle"}
        /\ UNCHANGED <<op, pass>> /\ out' \in {out, "failed"} /\ (pc' # "idle" => out' = out)
    BY <1>8, WritesSteps DEF Clock
  <2> QED BY <1>3, <2>1 DEF Control, Spi
<1>9. CASE AsicReset
  BY <1>3, <1>9, WritesSteps DEF AsicReset, Control, Spi
<1>10. CASE Pulser
  BY <1>3, <1>10, WritesSteps DEF Pulser, InternalTp, FpgaTp, Throw, Ends, To, local, Control, Spi
<1>11. CASE Args
  BY <1>3, <1>11 DEF Args, Throw, Ends, To, local, Control, Spi
<1>12. CASE StreamOff
  <2>1. /\ pc = "off" /\ pc' \in {"load", "idle"}
        /\ UNCHANGED <<op, pass>> /\ out' \in {out, "failed"} /\ (pc' # "idle" => out' = out)
    BY <1>12, WritesSteps DEF StreamOff
  <2> QED BY <1>3, <2>1 DEF Control, Spi
<1>13. CASE Load
  BY <1>3, <1>13, GoSteps DEF Load, Control, Spi
<1>14. CASE LoadBits
  BY <1>3, <1>14, GoSteps DEF LoadBits, Control, Spi
<1>15. CASE Program
  BY <1>3, <1>15, WritesSteps DEF Program, Control, Spi
<1>16. CASE Verify
  BY <1>3, <1>16 DEF Verify, Throw, Ends, To, local, Control, Spi
<1>17. CASE StreamOn
  <2>1. CASE pass < Passes
    <3>1. (pc' = "off" /\ out' = out) \/ pc' = "idle"
      BY <1>17, <2>1, GoSteps DEF StreamOn
    <3>2. pass' = pass + 1 /\ UNCHANGED op
      BY <1>17, <2>1 DEF StreamOn, NextPass
    <3>3. pass' <= Passes'
      BY <2>1, <3>2 DEF Passes, TypeOK
    <3> QED BY <1>17, <3>1, <3>2, <3>3 DEF StreamOn, Control, Bad, BadFake, InRange, Spi
  <2>2. CASE ~(pass < Passes)
    <3>1. /\ pc = "on" /\ UNCHANGED <<op, pass>>
          /\ pc' = "idle" \/ (pc' = "sync" /\ out' = out /\ op.kind = "config")
      BY <1>17, <2>2, GoSteps DEF StreamOn, Ends
    <3> QED BY <1>3, <3>1 DEF Control, Spi
  <2> QED BY <2>1, <2>2
<1>18. CASE Sync
  BY <1>3, <1>18 DEF Sync, Throw, Ends, To, local, Control, Spi
<1>19. CASE Back
  BY <1>3, <1>19 DEF Back, Ends, local
<1>20. CASE Done
  BY <1>1, <1>20 DEF Done
<1> QED BY <1>1, <1>2, <1>4, <1>5, <1>6, <1>7, <1>8, <1>9, <1>10, <1>11, <1>12, <1>13,
           <1>14, <1>15, <1>16, <1>17, <1>18, <1>19, <1>20 DEF Next, Proceed

LEMMA Start == Init => TypeOK /\ Control
<1> SUFFICES ASSUME Init PROVE TypeOK /\ Control
  OBVIOUS
<1>1. Blank \in [Asic -> Word]
  BY DEF Blank, Word
<1>2. TypeOK
  <2>1. femb \in Femb
    BY <1>1 DEF Init, Femb
  <2>2. saved = FALSE /\ warn = FALSE /\ before = dnd /\ dnd \in BOOLEAN
    BY DEF Init
  <2>3. saved \in BOOLEAN /\ warn \in BOOLEAN /\ before \in BOOLEAN
    BY <2>2
  <2>4. pass \in 1..3 /\ calls \in 0..MaxCalls
    BY CallsAssumption DEF Init
  <2>5. faults \in Faults /\ op \in Calls /\ vals \in [Asic -> Word] /\ pc = "idle" /\ out = "none"
    BY <1>1 DEF Init, Calls
  <2> QED BY <2>1, <2>2, <2>3, <2>4, <2>5 DEF TypeOK
<1>3. Control
  BY DEF Init, Control, Pulse, Spi
<1> QED BY <1>2, <1>3

LEMMA Controlled == Spec => [](TypeOK /\ Control)
BY Start, TypeStep, ControlStep, PTL DEF Spec

\* Every variable keeps its type.
THEOREM TypeCorrect == Spec => []TypeOK
BY Controlled, PTL
-----------------------------------------------------------------------------
(* What the ASICs hold, and when the FEMB is silent                        *)

\* The steps up to the first word for an ASIC of each pass.
Early == Save \/ Check \/ Reset \/ Fake \/ Clock \/ AsicReset \/ Pulser \/ Args \/ StreamOff

LEMMA EarlySteps ==
  ASSUME TypeOK, Control, Early
  PROVE  /\ UNCHANGED <<faults, op, pass, vals, warn, calls, before>>
         /\ pc # "idle"
         /\ pc' \notin {"program", "verify", "on", "sync"}
         /\ pc' = "back" => op.kind # "config"
         /\ pc' = "load" => pc = "off" /\ ("write" \notin faults => ~femb'.stream)
         /\ out' \in {"none", "refused", "failed", "skipped", "unreadable"}
<1>0. out = "none"
  BY DEF Control, Early, Save, Check, Reset, Fake, Clock, AsicReset, Pulser, Args, StreamOff
<1>1. CASE Save
  BY <1>0, <1>1 DEF Save, Throw, Ends, local
<1>2. CASE Check
  BY <1>0, <1>2 DEF Check, Throw, Ends, To, local
<1>3. CASE Reset
  BY <1>0, <1>3, WritesSteps DEF Reset, AfterReset
<1>4. CASE Fake
  <2>1. pc = "fake" /\ pc' \in {"back", "idle"} /\ out' \in {out, "failed"}
    BY <1>4, WritesSteps DEF Fake
  <2>2. UNCHANGED <<faults, op, pass, vals, warn, calls, before>>
    BY <1>4, WritesSteps DEF Fake
  <2>3. op.kind # "config"
    BY <2>1 DEF Control
  <2> QED BY <1>0, <2>1, <2>2, <2>3
<1>5. CASE Clock
  <2>1. pc = "clock" /\ pc' \in {"asic_reset", "idle"} /\ out' \in {out, "failed"}
    BY <1>5, WritesSteps DEF Clock
  <2>2. UNCHANGED <<faults, op, pass, vals, warn, calls, before>>
    BY <1>5, WritesSteps DEF Clock
  <2> QED BY <1>0, <2>1, <2>2
<1>6. CASE AsicReset
  BY <1>0, <1>6, WritesSteps DEF AsicReset
<1>7. CASE Pulser
  BY <1>0, <1>7, WritesSteps DEF Pulser, InternalTp, FpgaTp, Throw, Ends, To, local
<1>8. CASE Args
  BY <1>0, <1>8 DEF Args, Throw, Ends, To, local
<1>9. CASE StreamOff
  <2> DEFINE f == Stream(femb, FALSE)
  <2>1. pc = "off" /\ Writes({}, f, "load")
    BY <1>9 DEF StreamOff
  <2>2. ~f.stream
    BY DEF Stream, TypeOK, Femb
  <2> HIDE DEF f
  <2>3. pc' \in {"load", "idle"} /\ out' \in {out, "failed"}
          /\ (pc' = "load" /\ "write" \notin faults => femb' = f)
    BY <2>1, WritesSteps
  <2>4. UNCHANGED <<faults, op, pass, vals, warn, calls, before>>
    BY <2>1, WritesSteps
  <2> QED BY <1>0, <2>1, <2>2, <2>3, <2>4
<1> QED BY <1>1, <1>2, <1>3, <1>4, <1>5, <1>6, <1>7, <1>8, <1>9 DEF Early

Config == op.kind = "config"

\* From its last pass on, if nothing had to be tolerated and the read-back can be
\* trusted, the ASICs hold what the settings ask for.
Held ==
  Config =>
    /\ pc \in {"program", "verify"} => vals = Regs[op]
    /\ /\ "read" \notin faults /\ ~warn
       /\ (pc = "on" /\ pass = Passes) \/ pc \in {"sync", "back"}
       => femb.chip = Regs[op]
    /\ out = "ok" => InRange(op) /\ op.pls \in 0..2
                       /\ ("read" \notin faults => femb.chip = Regs[op])

LEMMA HeldStep == TypeOK /\ Control /\ Held /\ [Next]_vars => Held'
<1> SUFFICES ASSUME TypeOK, Control, Held, [Next]_vars
             PROVE  Held'
  OBVIOUS
<1>0. op \in Calls /\ femb \in Femb /\ vals \in [Asic -> Word]
  BY DEF TypeOK
<1>1. CASE UNCHANGED vars
  BY <1>1 DEF vars, Held, Config, Passes, InRange
<1>2. ASSUME NEW o \in Calls, Call(o) PROVE Held'
  BY <1>2 DEF Call, Ends, Held
<1>3. CASE Early
  <2>1. Config' => Config
    BY <1>3, EarlySteps DEF Config
  <2>2. pc' \notin {"program", "verify", "on", "sync"} /\ (Config => pc' # "back") /\ out' # "ok"
    BY <1>3, EarlySteps DEF Config
  <2> QED BY <2>1, <2>2 DEF Held
<1>4. CASE Load
  <2>1. pc' \in {"program", "idle"} /\ (pc' = "idle" => out' = "failed")
          /\ (pc' # "idle" => out' = out)
    <3> DEFINE f == Window(Regs[op])
               mid == {Window(Upto(Regs[op], a, k)) : a \in Asic, k \in Stops}
    <3>1. Go(mid, f, "program")
      BY <1>4 DEF Load
    <3> HIDE DEF f, mid
    <3> QED BY <3>1, GoSteps
  <2>2. vals' = Regs[op] /\ op' = op /\ out = "none"
    BY <1>4 DEF Load, Control
  <2> QED BY <2>1, <2>2 DEF Held
<1>5. CASE LoadBits
  BY <1>5 DEF LoadBits, Held, Config
<1>6. CASE Program
  <2>1. UNCHANGED <<faults, op, vals, warn, pass>> /\ pc = "program" /\ out = "none"
    BY <1>6, WritesSteps DEF Program, Control
  <2>2. pc' \in {IF pass = Passes THEN "verify" ELSE "on", "idle"} /\ out' \in {out, "failed"}
    BY <1>6, WritesSteps DEF Program
  <2>3. pc' = "on" => pass' # Passes'
    BY <2>1, <2>2 DEF Passes
  <2> QED BY <2>1, <2>2, <2>3 DEF Held, Config
<1>7. CASE Verify
  <2>1. UNCHANGED <<faults, op, vals, pass, femb>> /\ pc = "verify" /\ pc' \in {"on", "idle"}
          /\ out' # "ok"
    BY <1>7 DEF Verify, To, Throw, Ends, local, Control
  <2>2. ASSUME Config, pc' = "on", ~warn', "read" \notin faults
        PROVE  femb.chip = Regs[op]
    <3>1. Same
      BY <1>7, <2>2 DEF Verify, To, Throw, Ends, ReadsBack, Accepts
    <3>2. \A a \in Asic : femb.chip[a] = vals[a]
      BY <1>0, <2>2, <3>1 DEF Same, Compared, Config, Femb, Word
    <3>3. femb.chip = vals
      BY <1>0, <3>2 DEF Femb
    <3> QED BY <2>1, <2>2, <3>3 DEF Held
  <2> QED BY <2>1, <2>2 DEF Held, Config
<1>8. CASE StreamOn
  <2> DEFINE f == Stream(femb, TRUE)
  <2>1. f.chip = femb.chip
    BY <1>0 DEF Stream, Femb
  <2>2. /\ pc = "on" /\ out = "none"
        /\ \/ pass < Passes /\ Go({}, f, "off") /\ pass' = NextPass
           \/ pass = Passes /\ Config /\ Go({}, f, "sync")
           \/ ~Config /\ femb' \in {femb, f} /\ pc' = "idle" /\ out' \in {"ok", "failed"}
        /\ UNCHANGED <<faults, op, vals, warn>>
    <3>1. pc = "on" /\ out = "none" /\ pass <= Passes /\ UNCHANGED <<faults, op, vals, warn>>
      BY <1>8 DEF StreamOn, Control
    <3>2. ~(pass < Passes) => pass = Passes
      BY <3>1 DEF TypeOK, Passes
    <3>3. \/ pass < Passes /\ Go({}, f, "off") /\ pass' = NextPass
          \/ ~(pass < Passes) /\ Config /\ Go({}, f, "sync")
          \/ op.kind = "pulser" /\ femb' \in {femb, f} /\ pc' = "idle" /\ out' \in {"ok", "failed"}
      BY <1>8 DEF StreamOn, Ends, Config
    <3> HIDE DEF f
    <3> QED BY <3>1, <3>2, <3>3 DEF Config
  <2> HIDE DEF f
  <2>3. CASE pass < Passes /\ Go({}, f, "off")
    <3>1. pc' \in {"off", "idle"} /\ out' # "ok"
      BY <2>2, <2>3, GoSteps
    <3> QED BY <3>1 DEF Held
  <2>4. CASE pass = Passes /\ Config /\ Go({}, f, "sync")
    <3>1. pc' \in {"sync", "idle"} /\ out' # "ok" /\ femb'.chip = femb.chip
      BY <2>1, <2>2, <2>4, GoSteps
    <3> QED BY <2>2, <2>4, <3>1 DEF Held, Config
  <2>5. CASE ~Config
    BY <2>2, <2>5 DEF Held, Config
  <2> QED BY <2>2, <2>3, <2>4, <2>5
<1>9. CASE Sync
  BY <1>9 DEF Sync, To, Throw, Ends, local, Control, Held, Config
<1>10. CASE Back
  <2>1. UNCHANGED <<faults, femb, op, warn>> /\ pc = "back" /\ pc' = "idle"
          /\ (out' = "ok" => ~warn)
    BY <1>10 DEF Back, Ends, local
  <2>2. Config => InRange(op) /\ op.pls \in 0..2
    <3> SUFFICES ASSUME Config PROVE InRange(op) /\ op.pls \in 0..2
      OBVIOUS
    <3>1. op.pls \in 0..3
      BY <1>0, OpType DEF Config, Settings
    <3>2. InRange(op) /\ ~(op.pls > 2)
      BY <2>1 DEF Control, Bad, Config
    <3> QED BY <3>1, <3>2
  <2> QED BY <2>1, <2>2 DEF Held, Config, InRange
<1>11. CASE Done
  BY <1>1, <1>11 DEF Done
<1> QED BY <1>1, <1>2, <1>3, <1>4, <1>5, <1>6, <1>7, <1>8, <1>9, <1>10, <1>11
        DEF Next, Proceed, Early

\* A FEMB whose ASICs do not hold what they should is silent.
SilentAfterMismatch == "write" \notin faults /\ out = "mismatch" => ~femb.stream
Quiet == /\ pc \in {"load", "program", "verify"} /\ "write" \notin faults => ~femb.stream
         /\ SilentAfterMismatch

LEMMA QuietStep == TypeOK /\ Control /\ Quiet /\ [Next]_vars => Quiet'
<1> SUFFICES ASSUME TypeOK, Control, Quiet, [Next]_vars
             PROVE  Quiet'
  OBVIOUS
<1>0. femb \in Femb
  BY DEF TypeOK
<1>1. CASE UNCHANGED vars
  BY <1>1 DEF vars, Quiet, SilentAfterMismatch
<1>2. ASSUME NEW o \in Calls, Call(o) PROVE Quiet'
  BY <1>2 DEF Call, Ends, Quiet, SilentAfterMismatch
<1>3. CASE Early
  BY <1>3, EarlySteps DEF Quiet, SilentAfterMismatch
<1>4. ASSUME NEW mid, NEW f, Go(mid, f, "program"), f.stream = femb.stream, pc = "load",
             UNCHANGED faults
      PROVE  Quiet'
  <2>1. out = "none"
    BY <1>4 DEF Control
  <2> QED BY <1>4, <2>1, GoSteps DEF Quiet, SilentAfterMismatch
<1>5. \A w : Window(w).stream = femb.stream
  BY <1>0 DEF Window, Femb
<1>6. CASE Load
  BY <1>4, <1>5, <1>6 DEF Load
<1>7. CASE LoadBits
  BY <1>4, <1>5, <1>7 DEF LoadBits
<1>8. CASE Program
  <2>1. PICK deaf : Writes({}, [femb EXCEPT !.chip =
                     [a \in Asic |-> IF a \in deaf THEN @[a] ELSE femb.win[a]]],
              IF pass = Passes THEN "verify" ELSE "on")
    BY <1>8 DEF Program
  <2> DEFINE f == [femb EXCEPT !.chip =
                     [a \in Asic |-> IF a \in deaf THEN @[a] ELSE femb.win[a]]]
             p == IF pass = Passes THEN "verify" ELSE "on"
  <2>2. f.stream = femb.stream /\ Writes({}, f, p) /\ p \in {"verify", "on"}
    BY <1>0, <2>1 DEF Femb
  <2> HIDE DEF f, p
  <2>3. pc = "program" /\ out = "none"
    BY <1>8 DEF Program, Control
  <2> QED BY <2>2, <2>3, WritesSteps DEF Quiet, SilentAfterMismatch
<1>9. CASE Verify
  BY <1>9 DEF Verify, To, Throw, Ends, local, Quiet, SilentAfterMismatch, Control
<1>10. CASE StreamOn
  <2>1. pc' \in {"off", "sync", "idle"} /\ out' \in {"none", "failed", "ok"}
    <3> DEFINE f == Stream(femb, TRUE)
    <3>1. /\ out = "none"
          /\ \/ Go({}, f, "off") \/ Go({}, f, "sync")
             \/ pc' = "idle" /\ out' \in {"ok", "failed"}
      BY <1>10 DEF StreamOn, Ends, Control
    <3> HIDE DEF f
    <3> QED BY <3>1, GoSteps
  <2> QED BY <2>1 DEF Quiet, SilentAfterMismatch
<1>11. CASE Sync
  BY <1>11 DEF Sync, To, Throw, Ends, local, Quiet, SilentAfterMismatch, Control
<1>12. CASE Back
  BY <1>12 DEF Back, Ends, Quiet, SilentAfterMismatch
<1>13. CASE Done
  BY <1>1, <1>13 DEF Done
<1> QED BY <1>1, <1>2, <1>3, <1>6, <1>7, <1>8, <1>9, <1>10, <1>11, <1>12, <1>13
        DEF Next, Proceed, Early

\* The flag on the way to its restoration.
Flag ==
  /\ pc = "idle" => DndRestored
  /\ pc = "save" \/ op.kind = "pulser" => dnd = before
  /\ pc \notin {"idle", "save"} /\ op.kind # "pulser" => dnd = TRUE /\ saved = before

LEMMA FlagStep == TypeOK /\ Control /\ Flag /\ [Next]_vars => Flag'
<1> SUFFICES ASSUME TypeOK, Control, Flag, [Next]_vars
             PROVE  Flag'
  OBVIOUS
<1>1. CASE UNCHANGED vars
  BY <1>1 DEF vars, Flag, DndRestored
<1>2. ASSUME NEW o \in Calls, Call(o) PROVE Flag'
  BY <1>2 DEF Call, Ends, Flag, DndRestored
\* Steps that leave the flag alone.
<1>3. ASSUME UNCHANGED <<dnd, saved, before, op>>, pc \notin {"idle", "save"}, pc' # "save",
             op.kind = "pulser" \/ out' \notin {"none", "ok", "degraded"} \/ pc' # "idle"
      PROVE  Flag'
  BY <1>3 DEF Flag, DndRestored
<1>4. CASE Save
  <2>1. out = "none" /\ op.kind # "pulser" /\ dnd = before
    BY <1>4 DEF Save, Control, Spi, Flag
  <2> QED BY <1>4, <2>1 DEF Save, Throw, Ends, local, Saved, Flag, DndRestored
<1>5. ASSUME NEW mid, NEW f, NEW p, Writes(mid, f, p), pc \notin {"idle", "save"},
             p \notin {"idle", "save"}
      PROVE  Flag'
  <2>1. UNCHANGED <<dnd, saved, before, op>> /\ pc' \in {p, "idle"}
          /\ (pc' = "idle" => out' = "failed")
    BY <1>5, WritesSteps
  <2> QED BY <1>3, <1>5, <2>1
<1>6. CASE Check
  BY <1>3, <1>6 DEF Check, To, Throw, Ends, local
<1>7. CASE Reset
  BY <1>5, <1>7 DEF Reset, AfterReset
<1>8. CASE Fake
  <2>1. pc = "fake" /\ \E mid, f : Writes(mid, f, "back")
    BY <1>8, Zenon DEF Fake
  <2> QED BY <1>5, <2>1
<1>9. CASE Clock
  <2>1. pc = "clock" /\ \E mid, f : Writes(mid, f, "asic_reset")
    BY <1>9, Zenon DEF Clock
  <2> QED BY <1>5, <2>1
<1>10. CASE AsicReset
  BY <1>5, <1>10 DEF AsicReset
<1>11. CASE Pulser
  <2>1. CASE InternalTp
    BY <1>5, <1>11, <2>1 DEF Pulser, InternalTp
  <2>2. CASE FpgaTp
    BY <1>5, <1>11, <2>2 DEF Pulser, FpgaTp
  <2> QED BY <1>3, <1>11, <2>1, <2>2 DEF Pulser, To, Throw, Ends, local
<1>12. CASE Args
  BY <1>3, <1>12 DEF Args, To, Throw, Ends, local
<1>13. CASE StreamOff
  <2> DEFINE f == Stream(femb, FALSE)
  <2>1. pc = "off" /\ Writes({}, f, "load")
    BY <1>13 DEF StreamOff
  <2> HIDE DEF f
  <2> QED BY <1>5, <2>1
<1>14. CASE Load \/ LoadBits
  <2>1. ASSUME NEW mid, NEW f, Go(mid, f, "program"), pc = "load",
               UNCHANGED <<dnd, saved, before, op>>
        PROVE  Flag'
    <3>1. pc' \in {"program", "idle"} /\ (pc' = "idle" => out' = "failed")
      BY <2>1, GoSteps
    <3> QED BY <1>3, <2>1, <3>1
  <2>2. CASE Load
    BY <2>1, <2>2 DEF Load
  <2>3. CASE LoadBits
    BY <2>1, <2>3 DEF LoadBits
  <2> QED BY <1>14, <2>2, <2>3
<1>15. CASE Program
  BY <1>5, <1>15 DEF Program
<1>16. CASE Verify
  BY <1>3, <1>16 DEF Verify, To, Throw, Ends, local
<1>17. CASE StreamOn
  <2>1. /\ pc = "on" /\ UNCHANGED <<dnd, saved, before, op>>
        /\ \/ \E p \in {"off", "sync"} : \E f : Go({}, f, p)
           \/ op.kind = "pulser" /\ pc' = "idle"
    BY <1>17 DEF StreamOn, Ends
  <2>2. pc' \in {"off", "sync", "idle"} /\ (pc' = "idle" => out' = "failed" \/ op.kind = "pulser")
    BY <2>1, GoSteps
  <2> QED BY <1>3, <2>1, <2>2
<1>18. CASE Sync
  BY <1>3, <1>18 DEF Sync, To, Throw, Ends, local
<1>19. CASE Back
  <2>1. op.kind # "pulser"
    BY <1>19 DEF Back, Control, Spi
  <2> QED BY <1>19, <2>1 DEF Back, Ends, local, Flag, DndRestored
<1>20. CASE Done
  BY <1>1, <1>20 DEF Done
<1> QED BY <1>1, <1>2, <1>4, <1>6, <1>7, <1>8, <1>9, <1>10, <1>11, <1>12, <1>13,
           <1>14, <1>15, <1>16, <1>17, <1>18, <1>19, <1>20 DEF Next, Proceed

\* When ConfigFEMB ends well every ASIC has, where the address tables look for it, the
\* gain, shaping time, test capacitance and common baseline of each channel, the source
\* and amplitude of the test pulse, the coupling, the leakage factor and the clock asked
\* for, whatever writes and passes were lost on the way.
THEOREM AsicsHoldWhatIsAsked == Spec => []AsicsAsAsked
<1>1. Init => Held
  BY DEF Init, Held, Config, Pulse
<1>2. Spec => []Held
  BY <1>1, Controlled, HeldStep, PTL DEF Spec
<1>3. TypeOK /\ Held => AsicsAsAsked
  <2> SUFFICES ASSUME TypeOK, Held, op.kind = "config", out = "ok", "read" \notin faults,
                      Documented(op), NEW a \in Asic
               PROVE  ChipAsAsked(op, femb.chip[a])
    BY DEF AsicsAsAsked
  <2>1. InRange(op) /\ op.pls \in 0..2 /\ femb.chip = Regs[op]
    BY DEF Held, Config
  <2>2. op \in Asked /\ op \in Settings
    BY OpType DEF TypeOK
  <2>3. femb.chip[a] = ChipWord(op, a)
    BY <2>1, <2>2, RegsType
  <2> QED BY <2>1, <2>2, <2>3, MapIsRight
<1> QED BY <1>2, <1>3, Controlled, PTL

\* The second half of SourceAsAsked: a FEMB whose read-back fails for good is left
\* without stream.
LEMMA MismatchSilences == Spec => []SilentAfterMismatch
<1>1. Init => Quiet
  BY DEF Init, Quiet, SilentAfterMismatch
<1>2. Spec => []Quiet
  BY <1>1, Controlled, QuietStep, PTL DEF Spec
<1> QED BY <1>2, PTL DEF Quiet

\* The flag of the slow control comes back unless a call is cut short.
THEOREM DndComesBack == Spec => []DndRestored
<1>1. Init => Flag
  BY DEF Init, Flag, DndRestored, Pulse
<1>2. Spec => []Flag
  BY <1>1, Controlled, FlagStep, PTL DEF Spec
<1>3. Flag => DndRestored
  BY DEF Flag, DndRestored
<1> QED BY <1>2, <1>3, PTL
-----------------------------------------------------------------------------
(* What the FEMB streams                                                   *)

\* What the call has set up by the time it is at p, on a FEMB that takes every write.
Clocked(f) == f.timing = op.ext /\ (op.ext => f.phase_en = 1)
Pulsed(f)  == /\ ("asic" \in f.tp) <=> op.pls = 1
              /\ ("fpga" \in f.tp) <=> op.pls = 2
              /\ op.pls = 2 => f.amp = op.dac
Last       == {"args", "sync", "back"} \cup Spi
SourceAt(p, f) ==
  /\ p \in {"sync", "back"} => f.stream
  /\ p \in {"fake", "clock", "asic_reset", "pulser"} => f.tp = {}
  /\ op.kind = "fake" /\ p = "back" => f.tst = op.mode /\ f.tp = {}
  /\ Config =>
       /\ p \in {"clock", "asic_reset", "pulser"} \cup Last => f.tst = 0
       /\ p \in {"asic_reset", "pulser"} \cup Last => Clocked(f)
       /\ p \in Last => Pulsed(f)

StreamsRight == out \in {"ok", "degraded"} => StreamedAsAsked
Source == "write" \notin faults => SourceAt(pc, femb) /\ StreamsRight

\* The fields the SPI passes leave alone.
Alike(f) == /\ f.tst = femb.tst /\ f.timing = femb.timing /\ f.phase_en = femb.phase_en
            /\ f.tp = femb.tp /\ f.amp = femb.amp

LEMMA AlikeSource ==
  ASSUME NEW f, NEW p, Alike(f), SourceAt(pc, femb), pc \in Last, p \in Last,
         p \in {"sync", "back"} => f.stream, op.kind = "fake" => p # "back"
  PROVE  SourceAt(p, f)
BY DEF Alike, SourceAt, Clocked, Pulsed, Last, Spi

LEMMA SourceStep == TypeOK /\ Control /\ Source /\ [Next]_vars => Source'
<1> SUFFICES ASSUME TypeOK, Control, Source, [Next]_vars
             PROVE  Source'
  OBVIOUS
<1>0. femb \in Femb /\ op \in Calls
  BY DEF TypeOK
<1>1. CASE UNCHANGED vars
  BY <1>1 DEF vars, Source, StreamsRight, StreamedAsAsked, SourceAt, Clocked, Pulsed, Config
<1>2. ASSUME NEW o \in Calls, Call(o) PROVE Source'
  <2>1. op' = o /\ out' \in {"none", "refused"}
          /\ pc' \in {"idle", "save"} \cup (IF o.kind = "pulser" THEN {"off"} ELSE {})
    BY <1>2 DEF Call, Ends
  <2> QED BY <2>1 DEF Source, StreamsRight, StreamedAsAsked, SourceAt, Config, Last, Spi
\* A step within a call, by where it leads.
<1>3. ASSUME UNCHANGED <<faults, op>>,
             \/ pc' = "idle" /\ out' \notin {"ok", "degraded"}
             \/ out' = "none" /\ ("write" \notin faults => SourceAt(pc', femb'))
      PROVE  Source'
  BY <1>3 DEF Source, StreamsRight, StreamedAsAsked, SourceAt, Clocked, Pulsed, Config, Last, Spi
<1>4. ASSUME NEW mid, NEW f, NEW p, Go(mid, f, p), UNCHANGED <<faults, op>>, pc # "idle",
             "write" \notin faults => SourceAt(p, f)
      PROVE  Source'
  <2>1. out = "none"
    BY <1>4 DEF Control
  <2>2. \/ pc' = p /\ out' = out /\ ("write" \notin faults => femb' = f)
        \/ pc' = "idle" /\ out' = "failed"
    BY <1>4, GoSteps
  <2> QED BY <1>3, <1>4, <2>1, <2>2
<1>5. ASSUME NEW mid, NEW f, NEW p, Writes(mid, f, p), pc # "idle",
             "write" \notin faults => SourceAt(p, f)
      PROVE  Source'
  BY <1>4, <1>5 DEF Writes, local
<1>6. CASE Save
  BY <1>3, <1>6 DEF Save, Throw, Ends, local, Control, SourceAt, Last, Spi
<1>7. CASE Check
  BY <1>3, <1>7 DEF Check, Throw, Ends, To, local, Control, SourceAt, Last, Spi
<1>8. CASE Reset
  <2>1. PICK on \in BOOLEAN, win \in {femb.win, Blank} :
          Writes({}, ResetTo(femb, on, win), AfterReset)
    BY <1>8 DEF Reset
  <2> DEFINE f == ResetTo(femb, on, win)
  <2>2. f.tst = 0 /\ f.tp = {} /\ f.timing = FALSE
    BY DEF ResetTo
  <2>3. op.kind = "config" => op.ext \in BOOLEAN
    BY <1>0, OpType DEF Settings
  <2> HIDE DEF f
  <2>4. SourceAt(AfterReset, f)
    BY <2>2, <2>3 DEF AfterReset, SourceAt, Clocked, Config, Last, Spi
  <2>5. pc = "reset" /\ Writes({}, f, AfterReset)
    BY <1>8, <2>1 DEF Reset, f
  <2> QED BY <1>5, <2>4, <2>5
<1>9. CASE Fake
  <2> DEFINE off == Stream(femb, FALSE)
             sel == [off EXCEPT !.tst = op.mode]
             f   == Stream(sel, TRUE)
  <2>1. pc = "fake" /\ Writes({off, sel}, f, "back")
    BY <1>9 DEF Fake
  <2>2. f.stream /\ f.tst = op.mode /\ f.tp = femb.tp
    BY <1>0 DEF Stream, Femb
  <2>3. ~Config
    BY <2>1 DEF Control, Config
  <2> HIDE DEF f, off, sel
  <2>4. "write" \notin faults => SourceAt("back", f)
    BY <2>1, <2>2, <2>3 DEF Source, SourceAt
  <2> QED BY <1>5, <2>1, <2>4
<1>10. CASE Clock
  <2> DEFINE set == [femb EXCEPT !.timing = TRUE]
             round(k) == [set EXCEPT !.phase_en = PhaseEn(k)]
             f   == round(Rounds)
             mid == {set} \cup {round(k) : k \in 1..(Rounds - 1)}
  <2>1. pc = "clock" /\ Writes(mid, f, "asic_reset")
    BY <1>10 DEF Clock
  <2>2. f.timing = TRUE /\ f.phase_en = 1 /\ f.tp = femb.tp /\ f.tst = femb.tst
    BY <1>0 DEF Femb, Rounds, PhaseEn
  <2>3. op.kind = "config" /\ op.ext => op.ext = TRUE
    BY <1>0, OpType DEF Settings
  <2> HIDE DEF f, mid
  <2>4. "write" \notin faults => SourceAt("asic_reset", f)
    BY <2>1, <2>2, <2>3 DEF Source, SourceAt, Clocked, Control, Config, Last, Spi
  <2> QED BY <1>5, <2>1, <2>4
<1>11. CASE AsicReset
  <2> DEFINE adc == [femb EXCEPT !.chip = [a \in Asic |-> @[a] \ AdcBits]]
             f   == [femb EXCEPT !.chip = Blank]
  <2>1. pc = "asic_reset" /\ Writes({adc}, f, "pulser")
    BY <1>11 DEF AsicReset
  <2>2. Alike(f)
    BY <1>0 DEF Alike, Femb
  <2> HIDE DEF f, adc
  <2>3. "write" \notin faults => SourceAt("pulser", f)
    BY <2>1, <2>2 DEF Source, SourceAt, Clocked, Alike, Last, Spi
  <2> QED BY <1>5, <2>1, <2>3
<1>12. CASE Pulser
  <2>0. /\ pc = "pulser" /\ out = "none"
        /\ "write" \notin faults => SourceAt("pulser", femb)
    BY <1>12 DEF Pulser, Control, Source
  <2>1. ASSUME NEW f, f.tst = femb.tst, f.timing = femb.timing, f.phase_en = femb.phase_en,
               Config => Pulsed(f), "write" \notin faults
        PROVE  SourceAt("args", f)
    BY <2>0, <2>1 DEF SourceAt, Clocked, Last, Spi
  <2>2. CASE op.pls = 0 /\ To("args")
    <3>1. "write" \notin faults => Pulsed(femb)
      BY <2>0, <2>2 DEF SourceAt, Pulsed
    <3> QED BY <1>3, <2>0, <2>1, <2>2, <3>1 DEF To, local
  <2>3. CASE TooHigh /\ Throw("refused")
    BY <1>3, <2>3 DEF Throw, Ends, local
  <2>4. CASE op.pls = 1 /\ InternalTp
    <3> DEFINE a == [femb EXCEPT !.tp = @ \ {"dac"}, !.amp = 0]
               b == [a EXCEPT !.tp = @ \ {"int"}]
               c == [b EXCEPT !.tp = @ \cup {"ext"}]
               d == [c EXCEPT !.tp = @ \ {"fpga"}]
               f == [d EXCEPT !.tp = @ \cup {"asic"}]
    <3>1. Writes({a, b, c, d}, f, "args")
      BY <2>4, Zenon DEF InternalTp
    <3>2. /\ f.tst = femb.tst /\ f.timing = femb.timing /\ f.phase_en = femb.phase_en
          /\ "asic" \in f.tp /\ "fpga" \notin f.tp
      BY <1>0 DEF Femb
    <3> HIDE DEF a, b, c, d, f
    <3>3. "write" \notin faults => SourceAt("args", f)
      BY <2>1, <2>4, <3>2 DEF Pulsed
    <3> QED BY <1>5, <2>0, <3>1, <3>3
  <2>5. CASE op.pls = 2 /\ FpgaTp
    <3> DEFINE a == [femb EXCEPT !.tp = @ \ {"asic"}]
               b == [a EXCEPT !.tp = @ \cup {"fpga"}]
               c == [b EXCEPT !.tp = @ \cup {"dac"}, !.amp = op.dac]
               d == [c EXCEPT !.tp = @ \ {"int"}]
               f == [d EXCEPT !.tp = @ \cup {"ext"}]
    <3>1. Writes({a, b, c, d}, f, "args")
      BY <2>5, Zenon DEF FpgaTp
    <3>2. /\ f.tst = femb.tst /\ f.timing = femb.timing /\ f.phase_en = femb.phase_en
          /\ "asic" \notin f.tp /\ "fpga" \in f.tp /\ f.amp = op.dac
      BY <1>0 DEF Femb
    <3> HIDE DEF a, b, c, d, f
    <3>3. "write" \notin faults => SourceAt("args", f)
      BY <2>1, <2>5, <3>2 DEF Pulsed
    <3> QED BY <1>5, <2>0, <3>1, <3>3
  <2> QED BY <1>12, <2>2, <2>3, <2>4, <2>5 DEF Pulser
\* From here on only the stream changes.
<1>13. ASSUME NEW f, NEW p, Alike(f), pc \in Last, p \in Last, op.kind # "fake",
              p \in {"sync", "back"} => f.stream, "write" \notin faults
       PROVE  SourceAt(p, f)
  BY <1>13, AlikeSource DEF Source
<1>14. Alike(femb) /\ (\A w : Alike(Window(w))) /\ \A b \in BOOLEAN : Alike(Stream(femb, b))
  BY <1>0 DEF Alike, Femb, Window, Stream
<1>15. pc \in Spi \cup {"args", "sync"} => op.kind # "fake"
  BY DEF Control, Spi
<1>16. CASE Args
  BY <1>3, <1>13, <1>14, <1>15, <1>16 DEF Args, To, Throw, Ends, local, Control, Last, Spi
<1>17. CASE StreamOff
  <2> DEFINE f == Stream(femb, FALSE)
  <2>1. pc = "off" /\ Writes({}, f, "load") /\ Alike(f)
    BY <1>14, <1>17 DEF StreamOff
  <2> HIDE DEF f
  <2> QED BY <1>5, <1>13, <1>15, <2>1 DEF Last, Spi
<1>18. CASE Load
  <2> DEFINE f == Window(Regs[op])
             mid == {Window(Upto(Regs[op], a, k)) : a \in Asic, k \in Stops}
  <2>1. pc = "load" /\ Go(mid, f, "program") /\ Alike(f) /\ UNCHANGED <<faults, op>>
    BY <1>14, <1>18 DEF Load
  <2> HIDE DEF f, mid
  <2> QED BY <1>4, <1>13, <1>15, <2>1 DEF Last, Spi
<1>19. CASE LoadBits
  <2>1. PICK mid, new : Go(mid, Window(new), "program")
    BY <1>19 DEF LoadBits
  <2>2. pc = "load" /\ Alike(Window(new)) /\ UNCHANGED <<faults, op>>
    BY <1>14, <1>19 DEF LoadBits
  <2> DEFINE f == Window(new)
  <2>3. Go(mid, f, "program") /\ Alike(f)
    BY <2>1, <2>2
  <2> HIDE DEF f
  <2> QED BY <1>4, <1>13, <1>15, <2>2, <2>3 DEF Last, Spi
<1>20. CASE Program
  <2>1. PICK deaf : Writes({}, [femb EXCEPT !.chip =
                     [a \in Asic |-> IF a \in deaf THEN @[a] ELSE femb.win[a]]],
              IF pass = Passes THEN "verify" ELSE "on")
    BY <1>20 DEF Program
  <2> DEFINE f == [femb EXCEPT !.chip =
                     [a \in Asic |-> IF a \in deaf THEN @[a] ELSE femb.win[a]]]
             p == IF pass = Passes THEN "verify" ELSE "on"
  <2>2. pc = "program" /\ Alike(f) /\ Writes({}, f, p) /\ p \in {"verify", "on"}
    BY <1>0, <1>20, <2>1 DEF Alike, Femb, Program
  <2> HIDE DEF f, p
  <2> QED BY <1>5, <1>13, <1>15, <2>2 DEF Last, Spi
<1>21. CASE Verify
  <2>1. "write" \notin faults => SourceAt("on", femb)
    BY <1>13, <1>14, <1>15, <1>21 DEF Verify, Last, Spi
  <2> QED BY <1>3, <1>21, <2>1 DEF Verify, To, Throw, Ends, local, Control
<1>22. CASE StreamOn
  <2> DEFINE f == Stream(femb, TRUE)
  <2>1. pc = "on" /\ out = "none" /\ UNCHANGED <<faults, op>> /\ Alike(f) /\ f.stream
    BY <1>0, <1>14, <1>22 DEF StreamOn, Control, Stream, Femb
  <2>2. \/ \E p \in {"off", "sync"} : Go({}, f, p)
        \/ /\ op.kind = "pulser"
           /\ pc' = "idle"
           /\ out' \in {"ok", "failed"}
           /\ out' = "ok" => femb' \in {f} \cup (IF "write" \in faults THEN {femb} ELSE {})
    BY <1>22, Zenon DEF StreamOn, Ends
  <2> HIDE DEF f
  <2>3. CASE \E p \in {"off", "sync"} : Go({}, f, p)
    BY <1>4, <1>13, <1>15, <2>1, <2>3 DEF Last, Spi
  <2>4. ASSUME op.kind = "pulser", pc' = "idle", "write" \notin faults,
               out' = "ok" => femb' = f, out' \in {"ok", "failed"}
        PROVE  Source'
    BY <2>1, <2>4 DEF Source, StreamsRight, StreamedAsAsked, SourceAt, Config, Last, Spi
  <2>5. "write" \in faults => Source'
    BY <2>1 DEF Source
  <2> QED BY <2>2, <2>3, <2>4, <2>5
<1>23. CASE Sync
  <2>1. pc = "sync" /\ out = "none" /\ ("write" \notin faults => femb.stream)
    BY <1>23 DEF Sync, Control, Source, SourceAt
  <2>2. "write" \notin faults => SourceAt("back", femb)
    BY <1>13, <1>14, <1>15, <2>1 DEF Last
  <2> QED BY <1>3, <1>23, <2>1, <2>2 DEF Sync, To, Throw, Ends, local
<1>24. CASE Back
  <2>1. pc = "back" /\ UNCHANGED <<faults, femb, op>> /\ pc' = "idle"
    BY <1>24 DEF Back, Ends, local
  <2>2. "write" \notin faults => SourceAt("back", femb)
    BY <2>1 DEF Source
  <2> QED
    BY <2>1, <2>2
    DEF Source, StreamsRight, StreamedAsAsked, SourceAt, Clocked, Pulsed, Config, Last, Spi
<1>25. CASE Done
  BY <1>1, <1>25 DEF Done
<1> QED BY <1>1, <1>2, <1>6, <1>7, <1>8, <1>9, <1>10, <1>11, <1>12, <1>16, <1>17, <1>18,
           <1>19, <1>20, <1>21, <1>22, <1>23, <1>24, <1>25 DEF Next, Proceed

\* Whatever calls came before, the FEMB streams what the last one asked for, with its
\* own clock and pulser set up as its ASICs are told; after a read-back that failed for
\* good it streams nothing.
THEOREM StreamsWhatIsAsked == Spec => []SourceAsAsked
<1>1. Init => Source
  BY DEF Init, Source, StreamsRight, SourceAt, Last, Spi
<1>2. Spec => []Source
  BY <1>1, Controlled, SourceStep, PTL DEF Spec
<1>3. Source /\ SilentAfterMismatch => SourceAsAsked
  BY DEF Source, SourceAsAsked, StreamsRight, SilentAfterMismatch
<1> QED BY <1>2, <1>3, MismatchSilences, PTL
-----------------------------------------------------------------------------
(* What SetupASICPulserBits changes                                        *)

OnlyPulser == op.kind = "pulser" /\ "read" \notin faults
\* The two registers agree on all but the source of the test pulse.
AgreeIn8(v, w) == (v \cap Register(8)) \ Swdac = (w \cap Register(8)) \ Swdac

PulserHeld ==
  OnlyPulser =>
    /\ pc \in {"program", "verify", "on"} =>
         \A a \in Asic : vals[a] \cap Swdac = {SwdacField + 1} /\ AgreeIn8(vals[a], femb.win[a])
    /\ pc = "on" /\ pass = Passes =>
         \A a \in Asic : femb.chip[a] \cap Register(8) = vals[a] \cap Register(8)

\* PulserOnly, the property of a step.
Touched ==
  OnlyPulser /\ pc # "idle" =>
    \A a \in Asic :
      /\ femb'.win[a] \ Swdac = femb.win[a] \ Swdac
      /\ femb'.chip[a] # femb.chip[a] => femb'.chip[a] \ Swdac = femb.win[a] \ Swdac
      /\ out' = "ok" => /\ AgreeIn8(femb'.chip[a], femb'.win[a])
                        /\ ShownPulser[Shown(femb'.chip[a], SwdacField, 2)] = "external"

LEMMA Register8 == Register(8) = 256..287 /\ Swdac = {280, 281} /\ Swdac \subseteq Register(8)
BY DEF Register, Swdac, SwdacField

LEMMA NewWord ==
  ASSUME NEW w \in Word, NEW new, new = (w \ Register(8)) \cup External(w \cap Register(8))
  PROVE  /\ new \in Word
         /\ new \ Swdac = w \ Swdac
         /\ new \cap Swdac = {SwdacField + 1}
         /\ AgreeIn8(new, w)
<1>1. new = (w \ Swdac) \cup {281}
  BY Register8 DEF External, SwdacField
<1>2. new \in Word
  <2>1. w \subseteq 0..287 /\ 281 \in 0..287
    BY DEF Word, ChipBits
  <2>2. new \subseteq 0..287
    BY <1>1, <2>1
  <2> QED BY <2>2 DEF Word, ChipBits
<1> QED BY <1>1, <1>2, Register8 DEF AgreeIn8, SwdacField

LEMMA ExternalIsShown ==
  ASSUME NEW c, NEW v, c \cap Register(8) = v \cap Register(8),
         v \cap Swdac = {SwdacField + 1}
  PROVE  ShownPulser[Shown(c, SwdacField, 2)] = "external"
<1>1. 280 \notin c /\ 281 \in c
  <2>1. 280 \in Register(8) /\ 281 \in Register(8) /\ 280 \notin v /\ 281 \in v
    BY Register8 DEF SwdacField
  <2> QED BY <2>1
<1>2. Shown(c, SwdacField, 2) = {1}
  <2>1. 0..(2 - 1) = {0, 1} /\ SwdacField + 0 = 280 /\ SwdacField + 1 = 281
    BY DEF SwdacField
  <2> QED BY <1>1, <2>1 DEF Shown
<1> QED BY <1>2 DEF ShownPulser

\* Where each step is taken, and what none of them changes.
LEMMA StepsAt ==
  /\ Proceed => pc # "idle" /\ UNCHANGED <<op, faults>>
  /\ Proceed /\ pc \in Spi /\ op.kind = "pulser" =>
       StreamOff \/ LoadBits \/ Program \/ Verify \/ StreamOn
<1>1. Save => pc = "save" /\ UNCHANGED <<op, faults>>
  BY DEF Save, Throw, Ends, local
<1>2. Check => pc = "check" /\ UNCHANGED <<op, faults>>
  BY DEF Check, To, Throw, Ends, local
<1>3. Reset => pc = "reset" /\ UNCHANGED <<op, faults>>
  BY DEF Reset, Writes, local
<1>4. Fake => pc = "fake" /\ UNCHANGED <<op, faults>>
  BY DEF Fake, Writes, local
<1>5. Clock => pc = "clock" /\ UNCHANGED <<op, faults>>
  BY DEF Clock, Writes, local
<1>6. AsicReset => pc = "asic_reset" /\ UNCHANGED <<op, faults>>
  BY DEF AsicReset, Writes, local
<1>7. Pulser => pc = "pulser" /\ UNCHANGED <<op, faults>>
  BY DEF Pulser, InternalTp, FpgaTp, To, Throw, Ends, local, Writes
<1>8. Args => pc = "args" /\ UNCHANGED <<op, faults>>
  BY DEF Args, To, Throw, Ends, local
<1>9. StreamOff => pc = "off" /\ UNCHANGED <<op, faults>>
  BY DEF StreamOff, Writes, local
<1>10. Load => pc = "load" /\ op.kind = "config" /\ UNCHANGED <<op, faults>>
  BY DEF Load
<1>11. LoadBits => pc = "load" /\ UNCHANGED <<op, faults>>
  BY DEF LoadBits
<1>12. Program => pc = "program" /\ UNCHANGED <<op, faults>>
  BY DEF Program, Writes, local
<1>13. Verify => pc = "verify" /\ UNCHANGED <<op, faults>>
  BY DEF Verify, To, Throw, Ends, local
<1>14. StreamOn => pc = "on" /\ UNCHANGED <<op, faults>>
  BY DEF StreamOn
<1>15. Sync => pc = "sync" /\ UNCHANGED <<op, faults>>
  BY DEF Sync, To, Throw, Ends, local
<1>16. Back => pc = "back" /\ UNCHANGED <<op, faults>>
  BY DEF Back, local
<1> QED BY <1>1, <1>2, <1>3, <1>4, <1>5, <1>6, <1>7, <1>8,
           <1>9, <1>10, <1>11, <1>12, <1>13, <1>14, <1>15, <1>16 DEF Proceed, Spi

LEMMA PulserStep == TypeOK /\ Control /\ PulserHeld /\ [Next]_vars => PulserHeld' /\ Touched
<1> SUFFICES ASSUME TypeOK, Control, PulserHeld, [Next]_vars
             PROVE  PulserHeld' /\ Touched
  OBVIOUS
<1>0. /\ femb \in Femb /\ op \in Calls /\ vals \in [Asic -> Word]
      /\ \A a \in Asic : femb.win[a] \in Word
  BY DEF TypeOK, Femb
<1>1. CASE UNCHANGED vars
  <2>1. out' = "ok" => pc = "idle"
    BY <1>1 DEF vars, Control
  <2> QED BY <1>1, <2>1 DEF vars, PulserHeld, OnlyPulser, Touched, Passes
<1>2. ASSUME NEW o \in Calls, Call(o) PROVE PulserHeld' /\ Touched
  <2>1. pc = "idle" /\ pc' \in {"idle", "save", "off"}
    BY <1>2 DEF Call, Ends
  <2> QED BY <2>1 DEF PulserHeld, Touched
<1>3. CASE ~OnlyPulser /\ UNCHANGED <<op, faults>>
  BY <1>3 DEF PulserHeld, Touched, OnlyPulser
<1>4. ASSUME OnlyPulser, pc # "idle", Proceed PROVE PulserHeld' /\ Touched
  <2>1. StreamOff \/ LoadBits \/ Program \/ Verify \/ StreamOn
    <3>1. op.kind = "pulser" /\ pc \in Spi
      BY <1>4 DEF OnlyPulser, Control
    <3> QED BY <1>4, <3>1, StepsAt
  \* Steps that leave the SPI registers alone.
  <2>2. ASSUME femb'.win = femb.win, out' # "ok",
               \A a \in Asic : femb'.chip[a] \in {femb.chip[a], femb.win[a]}
        PROVE  Touched
    BY <2>2 DEF Touched
  <2>3. CASE StreamOff
    <3> DEFINE f == Stream(femb, FALSE)
    <3>1. /\ Writes({}, f, "load") /\ out = "none"
          /\ f.win = femb.win /\ f.chip = femb.chip
      BY <1>0, <2>3 DEF StreamOff, Stream, Femb, Control
    <3> HIDE DEF f
    <3>2. /\ femb'.win = femb.win /\ femb'.chip = femb.chip
          /\ out' # "ok" /\ pc' \in {"load", "idle"}
      BY <3>1, WritesSteps
    <3> QED BY <2>2, <3>2 DEF PulserHeld
  <2>4. CASE LoadBits
    <3> DEFINE new == [a \in Asic |-> (femb.win[a] \ Register(8))
                                        \cup External(femb.win[a] \cap Register(8))]
               mid == {Window(Upto(new, a, 8)) : a \in Asic}
               f   == Window(new)
    <3>1. vals' = new /\ Go(mid, f, "program") /\ out = "none" /\ UNCHANGED <<op, faults, pass>>
      <4>1. PICK wrong \in {{}} :
              LET init(a) == IF a \in wrong THEN {} ELSE femb.win[a] \cap Register(8)
                  nw == [a \in Asic |-> (femb.win[a] \ Register(8)) \cup External(init(a))]
              IN  /\ vals' = nw
                  /\ Go({Window(Upto(nw, a, 8)) : a \in Asic}, Window(nw), "program")
        BY <1>4, <2>4 DEF LoadBits, OnlyPulser
      <4>2. wrong = {}
        BY <4>1
      <4>3. vals' = new /\ Go(mid, f, "program")
        BY <4>1, <4>2
      <4>4. out = "none" /\ UNCHANGED <<op, faults, pass>>
        BY <2>4 DEF LoadBits, Control
      <4> QED BY <4>3, <4>4
    <3>2. \A a \in Asic : /\ new[a] \in Word
                          /\ new[a] \ Swdac = femb.win[a] \ Swdac
                          /\ new[a] \cap Swdac = {SwdacField + 1}
                          /\ AgreeIn8(new[a], femb.win[a])
      BY <1>0, NewWord
    <3> HIDE DEF new
    <3>3. \A a, b \in Asic : Upto(new, b, 8)[a] \ Swdac = femb.win[a] \ Swdac
      <4> SUFFICES ASSUME NEW a \in Asic, NEW b \in Asic
                   PROVE  Upto(new, b, 8)[a] \ Swdac = femb.win[a] \ Swdac
        OBVIOUS
      <4>1. 0..(32 * 8 + 31) = ChipBits /\ new[a] \cap ChipBits = new[a]
              /\ femb.win[a] \ ChipBits = {}
        BY <1>0, <3>2 DEF ChipBits, Word
      <4>2. Upto(new, b, 8)[a] \in {new[a], femb.win[a]}
        BY <4>1 DEF Upto
      <4> QED BY <3>2, <4>2
    <3>4. \A w : Window(w).win = w /\ Window(w).chip = femb.chip
      BY <1>0 DEF Window, Femb
    <3>5. \A g \in {femb, f} \cup mid :
            g.chip = femb.chip /\ \A a \in Asic : g.win[a] \ Swdac = femb.win[a] \ Swdac
      BY <3>2, <3>3, <3>4
    <3>6. f.win = new
      BY <3>4
    <3> HIDE DEF f, mid
    <3>7. /\ femb' \in {femb, f} \cup mid /\ pc' \in {"program", "idle"}
          /\ out' \in {"none", "failed"}
      BY <3>1, GoSteps
    <3>8. femb'.chip = femb.chip /\ \A a \in Asic : femb'.win[a] \ Swdac = femb.win[a] \ Swdac
      BY <3>5, <3>7
    <3>9. \A a \in Asic : AgreeIn8(vals'[a], femb'.win[a])
      BY <3>1, <3>2, <3>8 DEF AgreeIn8
    <3> QED BY <3>1, <3>2, <3>7, <3>8, <3>9 DEF PulserHeld, Touched
  <2>5. CASE Program
    <3>1. PICK deaf : Writes({}, [femb EXCEPT !.chip =
                       [a \in Asic |-> IF a \in deaf THEN @[a] ELSE femb.win[a]]],
                IF pass = Passes THEN "verify" ELSE "on")
      BY <2>5 DEF Program
    <3> DEFINE f == [femb EXCEPT !.chip =
                       [a \in Asic |-> IF a \in deaf THEN @[a] ELSE femb.win[a]]]
               p == IF pass = Passes THEN "verify" ELSE "on"
    <3>2. /\ f.win = femb.win /\ Writes({}, f, p) /\ pc = "program" /\ out = "none"
          /\ \A a \in Asic : f.chip[a] \in {femb.chip[a], femb.win[a]}
      BY <1>0, <2>5, <3>1 DEF Femb, Program, Control
    <3>3. p = "on" => pass # Passes
      OBVIOUS
    <3> HIDE DEF f, p
    <3>4. /\ femb'.win = femb.win /\ UNCHANGED <<faults, op, pass, vals>> /\ out' # "ok"
          /\ pc' \in {p, "idle"}
          /\ \A a \in Asic : femb'.chip[a] \in {femb.chip[a], femb.win[a]}
      BY <3>2, WritesSteps
    <3> QED BY <1>4, <2>2, <3>2, <3>3, <3>4 DEF PulserHeld, OnlyPulser, Passes
  <2>6. CASE Verify
    <3>1. /\ UNCHANGED <<faults, op, vals, pass, femb>> /\ pc = "verify" /\ out' # "ok"
          /\ pc' = "idle" \/ (pc' = "on" /\ Same)
      BY <1>4, <2>6 DEF Verify, To, Throw, Ends, local, Control, ReadsBack, Accepts, OnlyPulser
    <3>2. Same => \A a \in Asic : femb.chip[a] \cap Register(8) = vals[a] \cap Register(8)
      BY <1>4 DEF Same, Compared, OnlyPulser
    <3> QED BY <1>4, <2>2, <3>1, <3>2 DEF PulserHeld, OnlyPulser
  <2>7. CASE StreamOn
    <3> DEFINE f == Stream(femb, TRUE)
    <3>1. f.win = femb.win /\ f.chip = femb.chip /\ pc = "on" /\ out = "none"
      BY <1>0, <2>7 DEF Stream, Femb, StreamOn, Control
    <3>2. \/ Go({}, f, "off")
          \/ ~(pass < Passes) /\ femb' \in {femb, f} /\ pc' = "idle"
      BY <1>4, <2>7, Zenon DEF StreamOn, Ends, OnlyPulser
    <3> HIDE DEF f
    <3>3. CASE Go({}, f, "off")
      <4>1. /\ femb'.win = femb.win /\ femb'.chip = femb.chip
            /\ out' # "ok" /\ pc' \in {"off", "idle"}
        BY <3>1, <3>3, GoSteps
      <4> QED BY <2>2, <4>1 DEF PulserHeld
    <3>4. CASE ~(pass < Passes) /\ femb' \in {femb, f} /\ pc' = "idle"
      <4>1. pass = Passes
        BY <3>1, <3>4 DEF Control, Passes, TypeOK
      <4>2. femb'.win = femb.win /\ femb'.chip = femb.chip
        BY <3>1, <3>4
      <4>3. ASSUME NEW a \in Asic
            PROVE  /\ AgreeIn8(femb.chip[a], femb.win[a])
                   /\ ShownPulser[Shown(femb.chip[a], SwdacField, 2)] = "external"
        <5>1. /\ vals[a] \cap Swdac = {SwdacField + 1} /\ AgreeIn8(vals[a], femb.win[a])
              /\ femb.chip[a] \cap Register(8) = vals[a] \cap Register(8)
          BY <1>4, <3>1, <4>1 DEF PulserHeld
        <5> QED BY <5>1, ExternalIsShown DEF AgreeIn8
      <4> QED BY <3>4, <4>2, <4>3 DEF PulserHeld, Touched
    <3> QED BY <3>2, <3>3, <3>4
  <2> QED BY <2>1, <2>3, <2>4, <2>5, <2>6, <2>7
<1>5. Proceed => pc # "idle" /\ UNCHANGED <<op, faults>>
  BY StepsAt
<1>6. CASE Done
  BY <1>1, <1>6 DEF Done
<1> QED BY <1>1, <1>2, <1>3, <1>4, <1>5, <1>6 DEF Next

\* In the SPI registers SetupASICPulserBits changes only the source of the test pulse; an
\* ASIC is left as it is or made to hold, in all nine registers but for that source, what
\* its SPI registers have held since before the call; when the call succeeds that source
\* is external and register 8 is as in the SPI registers, in every ASIC.
THEOREM OnlyThePulserChanges == Spec => PulserOnly
<1>1. Init => PulserHeld
  BY DEF Init, PulserHeld
<1>2. Touched => (op.kind = "pulser" /\ pc # "idle" /\ "read" \notin faults =>
       \A a \in Asic :
         /\ femb'.win[a] \ Swdac = femb.win[a] \ Swdac
         /\ femb'.chip[a] # femb.chip[a] => femb'.chip[a] \ Swdac = femb.win[a] \ Swdac
         /\ out' = "ok" =>
              /\ (femb'.chip[a] \cap Register(8)) \ Swdac = (femb'.win[a] \cap Register(8)) \ Swdac
              /\ ShownPulser[Shown(femb'.chip[a], SwdacField, 2)] = "external")
  BY DEF Touched, OnlyPulser, AgreeIn8
<1> QED BY <1>1, <1>2, Controlled, PulserStep, PTL DEF Spec, PulserOnly
-----------------------------------------------------------------------------
(* A call keeps to its abstract specification                               *)

\* A call that goes on after an error has been asked to.
Warned == warn => /\ op.kind = "config"
                  /\ "spi" \in op.cont \/ {"phases", "sync"} \subseteq op.cont

LEMMA WarnedStep == TypeOK /\ Control /\ Warned /\ [Next]_vars => Warned'
<1> SUFFICES ASSUME TypeOK, Control, Warned, [Next]_vars
             PROVE  Warned'
  OBVIOUS
<1>1. ASSUME UNCHANGED <<op, warn>> PROVE Warned'
  BY <1>1 DEF Warned
<1>2. ASSUME NEW o \in Calls, Call(o) PROVE Warned'
  BY <1>2 DEF Call, Warned
<1>3. CASE Early
  BY <1>1, <1>3, EarlySteps
<1>4. CASE Load \/ LoadBits \/ StreamOn
  <2>1. UNCHANGED <<op, warn>>
    <3>1. CASE Load
      BY <3>1 DEF Load
    <3>2. CASE LoadBits
      BY <3>2 DEF LoadBits
    <3>3. CASE StreamOn
      BY <3>3 DEF StreamOn
    <3> QED BY <1>4, <3>1, <3>2, <3>3
  <2> QED BY <1>1, <2>1
<1>5. CASE Program
  BY <1>1, <1>5, WritesSteps DEF Program
<1>6. CASE Verify
  BY <1>6 DEF Verify, To, Throw, Ends, local, Warned
<1>7. CASE Sync
  <2>1. op.kind = "config"
    BY <1>7, OpType DEF Sync, Control, Spi, TypeOK
  <2> QED BY <1>7, <2>1 DEF Sync, To, Throw, Ends, local, Warned
<1>8. CASE Back
  BY <1>1, <1>8 DEF Back, local
<1>9. CASE Done \/ UNCHANGED vars
  BY <1>1, <1>9 DEF Done, vars
<1> QED BY <1>2, <1>3, <1>4, <1>5, <1>6, <1>7, <1>8, <1>9 DEF Next, Proceed, Early

\* The phase of a call, by where it is, now and after a step.
LEMMA Phases ==
  /\ pc = "idle" => PhaseOfCall = "idle"
  /\ pc = "save" => PhaseOfCall = "entered"
  /\ pc \in {"check", "reset"} => PhaseOfCall = "quiet"
  /\ pc = "back" /\ warn => PhaseOfCall = "tolerated"
  /\ pc = "back" /\ ~warn => PhaseOfCall = "written"
  /\ pc \notin {"idle", "save", "check", "reset", "back"} => PhaseOfCall = "writing"
BY DEF PhaseOfCall

LEMMA PhasesNext ==
  /\ pc' = "idle" => PhaseOfCall' = "idle"
  /\ pc' = "save" => PhaseOfCall' = "entered"
  /\ pc' \in {"check", "reset"} => PhaseOfCall' = "quiet"
  /\ pc' = "back" /\ warn' => PhaseOfCall' = "tolerated"
  /\ pc' = "back" /\ ~warn' => PhaseOfCall' = "written"
  /\ pc' \notin {"idle", "save", "check", "reset", "back"} => PhaseOfCall' = "writing"
BY DEF PhaseOfCall

CallInv == TypeOK /\ Control /\ Flag /\ Warned

LEMMA CallInvHolds == Spec => []CallInv
<1>1. Init => Flag /\ Warned
  BY DEF Init, Flag, DndRestored, Pulse, Warned
<1>2. Spec => [](Flag /\ Warned)
  BY <1>1, Controlled, FlagStep, WarnedStep, PTL DEF Spec
<1> QED BY <1>2, Controlled, PTL DEF CallInv

Middle == pc \notin {"idle", "save", "back"}

\* Inside a call, with the flag set, the FEMB is written, or an access fails.
LEMMA MiddleWrites ==
  ASSUME CallInv, TypeOK', Middle, UNCHANGED <<dnd, op, before>>,
         \/ /\ pc' \notin {"idle", "save", "check", "reset"}
            /\ out' = out
            /\ pc' = "back" /\ warn' => OneCall!Tolerant
         \/ pc' = "idle" /\ out' = "failed"
  PROVE  OneCall!Next
<1>1. PhaseOfCall \in {"quiet", "writing"} /\ femb' \in Femb
  BY Phases DEF Middle, TypeOK
<1>2. OneCall!MayBeWritten
  BY <1>1 DEF CallInv, Flag, Middle, OneCall!MayBeWritten
<1>3. CASE pc' = "idle" /\ out' = "failed"
  <2>1. OneCall!Fail
    BY <1>1, <1>2, <1>3, PhasesNext DEF OneCall!Fail, OneCall!Ends
  <2> QED BY <2>1 DEF OneCall!Next
<1>4. CASE /\ pc' \notin {"idle", "save", "check", "reset"}
           /\ out' = out
           /\ pc' = "back" /\ warn' => OneCall!Tolerant
  <2>1. PhaseOfCall' \in {"writing", "written"} \cup (IF OneCall!Tolerant THEN {"tolerated"} ELSE {})
    BY <1>4, PhasesNext
  <2>2. OneCall!Write
    BY <1>1, <1>2, <1>4, <2>1 DEF OneCall!Write
  <2> QED BY <2>2 DEF OneCall!Next
<1> QED BY <1>3, <1>4

LEMMA WritesCall ==
  ASSUME CallInv, TypeOK', Middle, NEW mid, NEW f, NEW p, Writes(mid, f, p),
         p \notin {"idle", "save", "check", "reset"},
         p = "back" => op.kind # "config"
  PROVE  OneCall!Next
<1>1. /\ UNCHANGED <<dnd, op, warn, before>>
      /\ (pc' = p /\ out' = out) \/ (pc' = "idle" /\ out' = "failed")
  BY WritesSteps
<1>2. pc' = "back" => ~warn'
  BY <1>1 DEF CallInv, Warned
<1> QED BY <1>1, <1>2, MiddleWrites

\* Inside a call that changes nothing, an exception that is not tolerated.
LEMMA GivesUp ==
  ASSUME Middle, UNCHANGED <<femb, dnd, op, before>>, pc' = "idle",
         \/ /\ pc = "check"
            /\ out' = "unreadable"
            /\ ~OneCall!Ignores({"read"})
         \/ /\ pc \notin {"check", "reset"}
            /\ \/ out' = "refused" /\ op.kind = "config"
               \/ out' = "mismatch" /\ ~OneCall!Ignores({"spi"})
               \/ out' = "unsynced" /\ ~OneCall!Ignores({"phases", "sync"})
  PROVE  OneCall!Next
<1>1. PhaseOfCall' = "idle"
  BY PhasesNext
<1>2. /\ pc = "check" => PhaseOfCall = "quiet"
      /\ pc \notin {"check", "reset"} => PhaseOfCall = "writing"
  BY Phases DEF Middle
<1>3. OneCall!GiveUp
  BY <1>1, <1>2 DEF OneCall!GiveUp, OneCall!Ends
<1> QED BY <1>3 DEF OneCall!Next

LEMMA CallStep == CallInv /\ TypeOK' /\ [Next]_vars => [OneCall!Next]_(OneCall!vars)
<1> SUFFICES ASSUME CallInv, TypeOK', [Next]_vars
             PROVE  [OneCall!Next]_(OneCall!vars)
  OBVIOUS
<1>0. TypeOK /\ Control /\ Flag /\ Warned /\ op \in Calls
  BY DEF CallInv, TypeOK
<1>1. CASE Done \/ UNCHANGED vars
  BY <1>1 DEF Done, vars, OneCall!vars, PhaseOfCall
<1>2. ASSUME NEW o \in Calls, Call(o) PROVE OneCall!Next
  <2>1. PhaseOfCall = "idle" /\ op' = o /\ before' = dnd /\ UNCHANGED <<femb, dnd>>
    BY <1>2, Phases DEF Call
  <2>2. CASE Bad(o)
    BY <1>2, <2>1, <2>2, PhasesNext DEF Call, Ends, OneCall!Next, OneCall!Enter, OneCall!Ends
  <2>3. CASE ~Bad(o)
    <3>1. pc' = (IF o.kind = "pulser" THEN "off" ELSE "save") /\ out' = "none"
      BY <1>2, <2>3 DEF Call
    <3>2. PhaseOfCall' = (IF o.kind = "pulser" THEN "writing" ELSE "entered")
      BY <3>1, PhasesNext
    <3> QED BY <2>1, <3>1, <3>2 DEF OneCall!Next, OneCall!Enter
  <2> QED BY <2>2, <2>3
<1>3. CASE Save
  <2>1. PhaseOfCall = "entered" /\ UNCHANGED <<femb, op, before>>
    BY <1>3, Phases DEF Save, Throw, local
  <2>2. CASE pc' = "idle" /\ out' = "failed"
    <3>1. dnd' \in {dnd, TRUE}
      BY <1>3 DEF Save, Throw
    <3>2. OneCall!Fail
      BY <2>1, <2>2, <3>1, PhasesNext DEF OneCall!Fail, OneCall!Ends
    <3> QED BY <3>2 DEF OneCall!Next
  <2>3. CASE dnd' = TRUE /\ pc' \in {"check", "reset"} /\ UNCHANGED out
    <3>1. OneCall!Quieten
      BY <2>1, <2>3, PhasesNext DEF OneCall!Quieten
    <3> QED BY <3>1 DEF OneCall!Next
  <2> QED BY <1>3, <2>2, <2>3 DEF Save, Throw, Ends
<1>4. CASE Check
  <2>1. pc = "check" /\ Middle /\ UNCHANGED <<femb, dnd, op, before, warn>>
    BY <1>4 DEF Check, To, Throw, local, Middle
  <2>2. op.kind = "config"
    BY <1>0, <2>1, OpType DEF Control, Spi
  <2>3. CASE To("reset")
    BY <2>1, <2>3 DEF To, PhaseOfCall, OneCall!vars
  <2>4. CASE Throw("failed")
    BY <2>1, <2>4, MiddleWrites DEF Throw, Ends
  <2>5. CASE "read" \in op.cont /\ Throw("skipped")
    <3>1. OneCall!Skip
      BY <2>1, <2>2, <2>5, Phases, PhasesNext
         DEF Throw, Ends, OneCall!Skip, OneCall!Ends, OneCall!Ignores
    <3> QED BY <3>1 DEF OneCall!Next
  <2>6. CASE "read" \notin op.cont /\ Throw("unreadable")
    BY <2>1, <2>6, GivesUp DEF Throw, Ends, OneCall!Ignores
  <2> QED BY <1>4, <2>3, <2>4, <2>5, <2>6 DEF Check
<1>5. CASE Reset
  BY <1>5, WritesCall DEF Reset, AfterReset, Middle
<1>6. CASE Fake
  <2>1. Middle /\ op.kind # "config" /\ \E mid, f : Writes(mid, f, "back")
    <3>1. pc = "fake" /\ \E mid, f : Writes(mid, f, "back")
      BY <1>6, Zenon DEF Fake
    <3> QED BY <1>0, <3>1 DEF Control, Middle
  <2> QED BY <2>1, WritesCall
<1>7. CASE Clock
  <2>1. pc = "clock" /\ \E mid, f : Writes(mid, f, "asic_reset")
    BY <1>7, Zenon DEF Clock
  <2> QED BY <2>1, WritesCall DEF Middle
<1>8. CASE AsicReset
  BY <1>8, WritesCall DEF AsicReset, Middle
<1>9. ASSUME Throw("refused"), pc \in {"pulser", "args"} PROVE OneCall!Next
  <2>1. op.kind = "config"
    BY <1>0, <1>9, OpType DEF Control, Spi
  <2> QED BY <1>9, <2>1, GivesUp DEF Throw, Ends, local, Middle
<1>10. ASSUME NEW p \in {"args", "off"}, To(p), pc \in {"pulser", "args"} PROVE OneCall!Next
  BY <1>10, MiddleWrites DEF To, local, Middle
<1>11. CASE Pulser
  <2>1. CASE InternalTp \/ FpgaTp
    BY <1>11, <2>1, WritesCall DEF Pulser, InternalTp, FpgaTp, Middle
  <2> QED BY <1>9, <1>10, <1>11, <2>1 DEF Pulser
<1>12. CASE Args
  BY <1>9, <1>10, <1>12 DEF Args
<1>13. CASE StreamOff
  <2>1. pc = "off" /\ \E f : Writes({}, f, "load")
    BY <1>13 DEF StreamOff
  <2> QED BY <2>1, WritesCall DEF Middle
<1>14. CASE Load \/ LoadBits
  <2>1. pc = "load" /\ UNCHANGED <<dnd, op, before>>
    <3>1. CASE Load
      BY <3>1 DEF Load
    <3>2. CASE LoadBits
      BY <3>2 DEF LoadBits
    <3> QED BY <1>14, <3>1, <3>2
  <2>2. (pc' = "program" /\ out' = out) \/ (pc' = "idle" /\ out' = "failed")
    <3>1. ASSUME NEW mid, NEW f, Go(mid, f, "program")
          PROVE  (pc' = "program" /\ out' = out) \/ (pc' = "idle" /\ out' = "failed")
      BY <3>1, GoSteps
    <3>2. CASE Load
      BY <3>1, <3>2 DEF Load
    <3>3. CASE LoadBits
      BY <3>1, <3>3 DEF LoadBits
    <3> QED BY <1>14, <3>2, <3>3
  <2> QED BY <2>1, <2>2, MiddleWrites DEF Middle
<1>15. CASE Program
  BY <1>15, WritesCall DEF Program, Middle
<1>16. CASE Verify
  <2>1. pc = "verify" /\ Middle /\ UNCHANGED <<femb, dnd, op, before>>
    BY <1>16 DEF Verify, To, Throw, local, Middle
  <2>2. CASE pc' = "on" /\ out' = out
    BY <2>1, <2>2, MiddleWrites
  <2>3. CASE Throw("failed")
    BY <2>1, <2>3, MiddleWrites DEF Throw, Ends
  <2>4. CASE ~(op.kind = "config" /\ "spi" \in op.cont) /\ Throw("mismatch")
    BY <2>1, <2>4, GivesUp DEF Throw, Ends, OneCall!Ignores
  <2> QED BY <1>16, <2>2, <2>3, <2>4 DEF Verify, To
<1>17. CASE StreamOn
  <2>1. pc = "on" /\ Middle /\ UNCHANGED <<dnd, op, before>>
    BY <1>17 DEF StreamOn, Middle
  <2>2. CASE \E f : Go({}, f, "off") \/ Go({}, f, "sync")
    <3>1. (pc' \in {"off", "sync"} /\ out' = out) \/ (pc' = "idle" /\ out' = "failed")
      BY <2>2, GoSteps
    <3> QED BY <2>1, <3>1, MiddleWrites
  <2>3. CASE Ends("failed")
    BY <2>1, <2>3, MiddleWrites DEF Ends
  <2>4. CASE op.kind = "pulser" /\ Ends("ok")
    <3>1. OneCall!MayBeWritten /\ femb' \in Femb
      BY <2>1, <2>4, Phases DEF OneCall!MayBeWritten, TypeOK
    <3>2. OneCall!WritePulser
      BY <2>1, <2>4, <3>1, PhasesNext DEF Ends, OneCall!WritePulser, OneCall!Ends
    <3> QED BY <3>2 DEF OneCall!Next
  <2> QED BY <1>17, <2>2, <2>3, <2>4 DEF StreamOn
<1>18. CASE Sync
  <2>1. pc = "sync" /\ Middle /\ UNCHANGED <<femb, dnd, op, before>>
    BY <1>18 DEF Sync, To, Throw, local, Middle
  <2>2. op.kind = "config"
    BY <1>0, <2>1, OpType DEF Control, Spi
  <2>3. CASE pc' = "back" /\ out' = out
    <3>1. warn' => OneCall!Tolerant
      BY <1>0, <1>18, <2>2, <2>3
         DEF Sync, To, Throw, Ends, local, Warned, OneCall!Tolerant, OneCall!Ignores
    <3> QED BY <2>1, <2>3, <3>1, MiddleWrites
  <2>4. CASE Throw("failed")
    BY <2>1, <2>4, MiddleWrites DEF Throw, Ends
  <2>5. CASE ~({"phases", "sync"} \subseteq op.cont) /\ Throw("unsynced")
    BY <2>1, <2>5, GivesUp DEF Throw, Ends, OneCall!Ignores
  <2> QED BY <1>18, <2>3, <2>4, <2>5 DEF Sync, To
<1>19. CASE Back
  <2>1. /\ pc = "back" /\ pc' = "idle" /\ UNCHANGED <<femb, op, before>>
        /\ PhaseOfCall = (IF warn THEN "tolerated" ELSE "written") /\ PhaseOfCall' = "idle"
    BY <1>19, Phases, PhasesNext DEF Back, Ends, local
  <2>2. op.kind # "pulser" /\ saved = before
    BY <1>0, <2>1 DEF Control, Spi, Flag
  <2>3. CASE dnd' = saved /\ out' = (IF warn THEN "degraded" ELSE "ok")
    <3>1. OneCall!Restore
      BY <2>1, <2>2, <2>3 DEF OneCall!Restore, OneCall!Ends
    <3> QED BY <3>1 DEF OneCall!Next
  <2>4. CASE dnd' \in {dnd, saved} /\ out' = "failed"
    <3>1. OneCall!Fail
      BY <2>1, <2>2, <2>4 DEF OneCall!Fail, OneCall!Ends
    <3> QED BY <3>1 DEF OneCall!Next
  <2> QED BY <1>19, <2>3, <2>4 DEF Back, Ends
<1> QED BY <1>1, <1>2, <1>3, <1>4, <1>5, <1>6, <1>7, <1>8, <1>11, <1>12, <1>13,
           <1>14, <1>15, <1>16, <1>17, <1>18, <1>19 DEF Next, Proceed

\* ConfigFEMB and its companions implement the steps their callers see: the FEMB is
\* written with the flag set, and every outcome says how far the call came, what was
\* tolerated, and whether the flag is back.
THEOREM CallsKeepToFembCall == Spec => KeepsToCall
<1>1. Init => OneCall!Init
  <2> SUFFICES ASSUME Init PROVE OneCall!Init
    OBVIOUS
  <2>1. PhaseOfCall = "idle" /\ TypeOK
    BY Phases, Start DEF Init
  <2> QED BY <2>1 DEF Init, TypeOK, OneCall!Init
<1> QED BY <1>1, CallStep, CallInvHolds, TypeCorrect, PTL DEF Spec, KeepsToCall, OneCall!Spec

\* Nobody else may disturb a FEMB while ConfigFEMB or ConfigFEMBFakeData writes to it.
THEOREM WrittenUndisturbed ==
  Spec => [][femb' # femb => dnd \/ op.kind = "pulser"]_vars
<1>1. [OneCall!Next]_(OneCall!vars) => (femb' # femb => dnd \/ op.kind = "pulser")
  <2>1. ASSUME OneCall!Next, femb' # femb PROVE dnd \/ op.kind = "pulser"
    BY <2>1 DEF OneCall!Next, OneCall!Enter, OneCall!Quieten, OneCall!Skip, OneCall!Write,
                OneCall!Restore, OneCall!WritePulser, OneCall!GiveUp, OneCall!Fail,
                OneCall!MayBeWritten
  <2>2. ASSUME UNCHANGED OneCall!vars PROVE femb' = femb
    BY <2>2 DEF OneCall!vars
  <2> QED BY <2>1, <2>2
<1>2. CallInv /\ TypeOK' /\ [Next]_vars => [femb' # femb => dnd \/ op.kind = "pulser"]_vars
  BY <1>1, CallStep
<1> QED BY <1>2, CallInvHolds, TypeCorrect, PTL DEF Spec
=============================================================================
