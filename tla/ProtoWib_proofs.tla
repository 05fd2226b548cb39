--------------------------- MODULE ProtoWib_proofs ---------------------------
(* Theorems about ProtoWib, for any number of FEMBs, any settings and any     *)
(* board: what holds whenever the FEMBs are configured (Inv), and what a      *)
(* command that ends well has done (DoneInv, inductive relative to Inv).      *)
EXTENDS ProtoWib, TLAPS

-----------------------------------------------------------------------------
(* Lemmas about the registers of the board                                    *)

\* Setting and clearing bits touches the bits only.
LEMMA BitFields ==
  ASSUME NEW d \in Dev, NEW B \in SUBSET Bits
  PROVE  /\ On(d, B) \in Dev /\ On(d, B) = [d EXCEPT !.bits = d.bits \cup B]
         /\ On(d, B).bits = d.bits \cup B
         /\ On(d, B).link = d.link /\ On(d, B).daq = d.daq /\ On(d, B).fake = d.fake
         /\ On(d, B).femb = d.femb /\ On(d, B).tgrp = d.tgrp /\ On(d, B).src = d.src
         /\ Off(d, B) \in Dev /\ Off(d, B).bits = d.bits \ B
         /\ Off(d, B).link = d.link /\ Off(d, B).daq = d.daq /\ Off(d, B).fake = d.fake
         /\ Off(d, B).femb = d.femb /\ Off(d, B).tgrp = d.tgrp /\ Off(d, B).src = d.src
  BY DEF Dev, On, Off

\* So does halting the converts.
LEMMA HaltFields ==
  ASSUME NEW d \in Dev
  PROVE  /\ On(d, {"halt"}) \in Dev /\ Halted(d) \in Dev
         /\ Halted(d).bits = (d.bits \cup {"halt"}) \ {"convert"}
         /\ Halted(d).link = d.link /\ Halted(d).daq = d.daq /\ Halted(d).fake = d.fake
         /\ Halted(d).femb = d.femb /\ Halted(d).tgrp = d.tgrp
<1>1. {"halt"} \in SUBSET Bits /\ {"convert"} \in SUBSET Bits
  BY DEF Bits
<1>2. QED
  BY <1>1, BitFields DEF Halted

\* Writing one of the other registers touches that register only.
LEMMA LinkField ==
  ASSUME NEW d \in Dev, NEW L \in SUBSET (1..4)
  PROVE  LET e == [d EXCEPT !.link = L]
         IN  /\ e \in Dev /\ e.link = L /\ e.bits = d.bits /\ e.daq = d.daq
             /\ e.fake = d.fake /\ e.femb = d.femb /\ e.tgrp = d.tgrp
  BY DEF Dev

LEMMA DaqField ==
  ASSUME NEW d \in Dev, NEW S \in SUBSET FEMB
  PROVE  LET e == [d EXCEPT !.daq = S]
         IN  /\ e \in Dev /\ e.daq = S /\ e.bits = d.bits /\ e.link = d.link
             /\ e.fake = d.fake /\ e.femb = d.femb /\ e.tgrp = d.tgrp
  BY DEF Dev

LEMMA FakeField ==
  ASSUME NEW d \in Dev, NEW S \in SUBSET FEMB
  PROVE  LET e == [d EXCEPT !.fake = S]
         IN  /\ e \in Dev /\ e.fake = S /\ e.bits = d.bits /\ e.link = d.link
             /\ e.daq = d.daq /\ e.femb = d.femb /\ e.tgrp = d.tgrp
  BY DEF Dev

LEMMA FembField ==
  ASSUME NEW d \in Dev, NEW F \in [FEMB -> FembState]
  PROVE  LET e == [d EXCEPT !.femb = F]
         IN  /\ e \in Dev /\ e.femb = F /\ e.bits = d.bits /\ e.link = d.link
             /\ e.daq = d.daq /\ e.fake = d.fake /\ e.tgrp = d.tgrp
  BY DEF Dev

LEMMA PowerFields ==
  ASSUME NEW d \in Dev, NEW f \in FEMB, NEW s \in FembState
  PROVE  /\ Power(d, f, s) \in Dev /\ Power(d, f, s).femb = [d.femb EXCEPT ![f] = s]
         /\ Power(d, f, s).bits = d.bits /\ Power(d, f, s).link = d.link
         /\ Power(d, f, s).daq = d.daq /\ Power(d, f, s).fake = d.fake
         /\ Power(d, f, s).tgrp = d.tgrp
  BY DEF Dev, Power

LEMMA GroupField ==
  ASSUME NEW d \in Dev, NEW t \in 0..3
  PROVE  LET e == [d EXCEPT !.tgrp = t]
         IN  /\ e \in Dev /\ e.tgrp = t /\ e.bits = d.bits /\ e.link = d.link
             /\ e.daq = d.daq /\ e.fake = d.fake /\ e.femb = d.femb
  BY DEF Dev

LEMMA SourceField ==
  ASSUME NEW d \in Dev, NEW s \in 0..2
  PROVE  LET e == [d EXCEPT !.src = s]
         IN  /\ e \in Dev /\ e.tgrp = d.tgrp /\ e.bits = d.bits /\ e.link = d.link
             /\ e.daq = d.daq /\ e.fake = d.fake /\ e.femb = d.femb
  BY DEF Dev

\* A group that fits its register is not changed.
LEMMA GroupFits ==
  ASSUME NEW n \in 0..16
  PROVE  GroupBits(n) \in 0..3 /\ (n \in 0..3 => GroupBits(n) = n)
  BY DEF GroupBits
-----------------------------------------------------------------------------
(* The invariant                                                              *)

\* The saved flag is TRUE wherever it will be written back.
Saved == \/ pc \in {"reset_rest", "dnd_again", "femb_off", "clock", "align",
                    "clock_select", "dnd_back", "config_write", "config_back",
                    "links_on", "sync", "stream_back"}
         \/ pc = "daq_off" /\ conf.force
QuietInv == QuietWhileConfiguring /\ (Saved => saved)

\* The checked reset disables the links and then the FEMB streams; the full
\* reset does not come this way.
PathInv == /\ dev.link \subseteq Links
           /\ DataPathDown
           /\ pc \in {"check", "links_off"} => ~conf.force
           /\ pc = "daq_off" /\ ~conf.force => dev.link = {}
           /\ pc = "dnd_back" /\ conf.force => dev.daq = {}

\* The clock that the settings ask for, once it is set up or found good.
Clocked == /\ {"cnc", "si5344"} \subseteq dev.bits
           /\ IF conf.local
              THEN {"fake_clock", "local_time", "local_osc"} \subseteq dev.bits
              ELSE /\ "pdts" \in dev.bits /\ "local_osc" \notin dev.bits
                   /\ dev.tgrp = GroupBits(conf.tgrp)
ClockInv ==
  /\ pc \in Configuring \cup {"sync", "stream_back", "dnd_off", "daq_off", "links_off",
                             "dnd_back"} => Clocked
  /\ pc \in {"align", "clock_select"} =>
       /\ ~conf.local
       /\ "si5344" \in dev.bits /\ "local_osc" \notin dev.bits /\ dev.tgrp = GroupBits(conf.tgrp)

\* The loop over the FEMBs starts at the first.
IndexInv == pc \in {"new", "settings", "mode", "check", "reset", "reset_rest",
                    "dnd_again", "femb_off", "clock", "align", "clock_select",
                    "dnd_back", "links_off", "daq_off", "fake_data", "power"} => i = 1

Inv == TypeOK /\ QuietInv /\ PathInv /\ ClockInv /\ IndexInv

\* Between commands the invariant asks for types only.
LEMMA IdleKeeps ==
  ASSUME Inv, dev' \in Dev, dev'.link \subseteq Links, pc' = "idle",
         wib' \in {"null", "up"}, saved' \in BOOLEAN,
         i' = i, UNCHANGED <<board, conf>>,
         out' \in {"none", "configured", "scrapped", "warned", "error", "bad_name",
                   "refused", "crash"}
  PROVE  Inv'
<1>1. TypeOK'
  BY DEF Inv, TypeOK, Phases
<1>2. QuietInv' /\ PathInv' /\ ClockInv' /\ IndexInv'
  BY DEF QuietInv, QuietWhileConfiguring, Disturbable, Saved, PathInv, DataPathDown,
         ClockInv, Configuring, IndexInv, Links
<1>3. QED
  BY <1>1, <1>2 DEF Inv

\* A failing write ends the command, so a step of writes is right when its
\* success is.
LEMMA WritesCases ==
  ASSUME Inv, NEW mid, NEW d, NEW to, Go(mid, d, to), UNCHANGED <<board, wib, conf, i>>,
         saved' \in BOOLEAN,
         \A e \in mid \cup {d} : e \in Dev /\ e.link \subseteq Links
  PROVE  Inv' \/ (dev' = d /\ pc' = to /\ UNCHANGED <<board, wib, conf, i, out>>)
<1>1. CASE dev' \in {dev, d} \cup mid /\ Ends("error")
  <2>1. dev' \in Dev /\ dev'.link \subseteq Links
    BY <1>1 DEF Inv, TypeOK, PathInv
  <2>2. QED
    BY <1>1, <2>1, IdleKeeps DEF Ends, Inv, TypeOK
<1>2. QED
  BY <1>1 DEF Go

LEMMA ThrowKeeps ==
  ASSUME Inv, NEW e \in {"error", "bad_name", "refused"}, Throw(e)
  PROVE  Inv'
  BY IdleKeeps DEF Throw, Ends, Inv, TypeOK, PathInv

\* What a step needs to know of the invariant it starts from, and what a step of
\* successful writes has to establish.
LEMMA InvFacts ==
  ASSUME Inv
  PROVE  /\ dev \in Dev /\ conf \in Conf /\ board \in Board
         /\ dev.link \subseteq Links /\ Links \subseteq 1..4 /\ saved \in BOOLEAN
         /\ StreamLinks \in SUBSET Links
  BY SettingsAssumption, BoardsAssumption
     DEF Inv, TypeOK, PathInv, Links, StreamLinks, Board, Modes
-----------------------------------------------------------------------------
(* Commands                                                                   *)

LEMMA CommandKeeps == Inv /\ Command => Inv'
<1> SUFFICES ASSUME Inv, Command PROVE Inv'
  OBVIOUS
<1> USE InvFacts, FembAssumption
<1>1. ASSUME NEW s \in Settings, NEW first \in {"new", "settings"}, Begin(s, first),
             wib \in {"null", "up"}
      PROVE  Inv'
  <2> DEFINE F == [f \in FEMB |->
               IF dev.femb[f] \in {"ready", "degraded", "fake"} THEN "stale" ELSE dev.femb[f]]
  <2>1. F \in [FEMB -> FembState]
    BY DEF Dev, FembState
  <2> HIDE DEF F
  <2>2. dev' = [dev EXCEPT !.femb = F]
    BY <1>1 DEF Begin, F
  <2>3. dev' \in Dev /\ dev'.link = dev.link
    BY <2>1, <2>2, FembField
  <2>4. TypeOK'
    BY <1>1, <2>3 DEF Begin, Inv, TypeOK, Phases, ScrapTries
  <2>5. QuietInv' /\ PathInv' /\ ClockInv' /\ IndexInv'
    BY <1>1, <2>3
       DEF Begin, QuietInv, QuietWhileConfiguring, Disturbable, Saved, PathInv,
           DataPathDown, ClockInv, Configuring, IndexInv, Links
  <2>6. QED
    BY <2>4, <2>5 DEF Inv
<1>2. ASSUME NEW s \in Settings, SettleNoWib(s)
      PROVE  Inv'
  <2>1. TypeOK'
    BY <1>2 DEF SettleNoWib, Inv, TypeOK
  <2>2. QuietInv' /\ PathInv' /\ ClockInv' /\ IndexInv'
    BY <1>2 DEF SettleNoWib, QuietInv, QuietWhileConfiguring, Disturbable, Saved, PathInv,
           DataPathDown, ClockInv, Configuring, IndexInv, Links
  <2>3. QED
    BY <2>1, <2>2 DEF Inv
<1>3. CASE Scrap
  <2>1. CASE Throw("error")
    BY <2>1, ThrowKeeps
  <2>2. CASE ~Throw("error")
    <3>1. TypeOK'
      BY <1>3, <2>2 DEF Scrap, Inv, TypeOK, Phases, ScrapTries
    <3>2. QuietInv' /\ PathInv' /\ ClockInv' /\ IndexInv'
      BY <1>3, <2>2
         DEF Scrap, QuietInv, QuietWhileConfiguring, Disturbable, Saved, PathInv,
             DataPathDown, ClockInv, Configuring, IndexInv, Links
    <3>3. QED
      BY <3>1, <3>2 DEF Inv
  <2>3. QED
    BY <2>1, <2>2
<1>4. QED
  BY <1>1, <1>2, <1>3 DEF Command, Configure, Settle, Inv, TypeOK

\* Commands do not touch the clock: the steps before the reset.
LEMMA BeforeResetKeeps == Inv /\ (NewWib \/ SetDnd \/ CheckMode \/ Check) => Inv'
<1> SUFFICES ASSUME Inv, NewWib \/ SetDnd \/ CheckMode \/ Check PROVE Inv'
  OBVIOUS
<1> USE InvFacts, FembAssumption
<1>1. CASE NewWib
  <2>1. CASE Throw("error")
    BY <2>1, ThrowKeeps
  <2>2. CASE ~Throw("error")
    <3>1. TypeOK'
      BY <1>1, <2>2 DEF NewWib, Inv, TypeOK, Phases
    <3>2. QuietInv' /\ PathInv' /\ ClockInv' /\ IndexInv'
      BY <1>1, <2>2
         DEF NewWib, Inv, QuietInv, QuietWhileConfiguring, Disturbable, Saved, PathInv,
             DataPathDown, ClockInv, Configuring, IndexInv, Links
    <3>3. QED
      BY <3>1, <3>2 DEF Inv
  <2>3. QED
    BY <2>1, <2>2
<1>2. CASE SetDnd
  <2>1. CASE conf.tgrp > 15
    BY <1>2, <2>1, ThrowKeeps DEF SetDnd
  <2>2. CASE ~(conf.tgrp > 15)
    <3> DEFINE d == On(dev, {"dnd"})
    <3>1. d \in Dev /\ d.link = dev.link /\ "dnd" \in d.bits
      BY BitFields DEF Bits
    <3>2. Go({}, d, "mode") /\ UNCHANGED <<board, wib, conf, saved, i>> /\ pc = "settings"
      BY <1>2, <2>2 DEF SetDnd, Writes
    <3> HIDE DEF d
    <3>3. CASE dev' = d /\ pc' = "mode" /\ UNCHANGED <<board, wib, conf, i, out>>
      <4>1. TypeOK'
        BY <3>1, <3>2, <3>3 DEF Inv, TypeOK, Phases
      <4>2. QuietInv' /\ PathInv' /\ ClockInv' /\ IndexInv'
        BY <3>1, <3>2, <3>3
           DEF Inv, QuietInv, QuietWhileConfiguring, Quiet, Disturbable, Saved, PathInv,
               DataPathDown, ClockInv, Configuring, IndexInv, Links
      <4>3. QED
        BY <4>1, <4>2 DEF Inv
    <3>4. QED
      BY <3>1, <3>2, <3>3, WritesCases
  <2>3. QED
    BY <2>1, <2>2
<1>3. CASE CheckMode
  <2>1. CASE Throw("error")
    BY <2>1, ThrowKeeps
  <2>2. CASE ~Throw("error")
    <3>1. /\ pc' \in {"reset", "check"}
          /\ pc' = "check" => ~conf.force
          /\ pc = "mode" /\ UNCHANGED <<board, dev, wib, conf, saved, i, out>>
      BY <1>3, <2>2 DEF CheckMode
    <3>2. TypeOK'
      BY <3>1 DEF Inv, TypeOK, Phases
    <3>3. QuietInv' /\ PathInv' /\ ClockInv' /\ IndexInv'
      BY <3>1
         DEF Inv, QuietInv, QuietWhileConfiguring, Quiet, Disturbable, Saved, PathInv,
             DataPathDown, ClockInv, Configuring, IndexInv, Links
    <3>4. QED
      BY <3>2, <3>3 DEF Inv
  <2>3. QED
    BY <2>1, <2>2
<1>4. CASE Check
  <2>1. CASE Throw("error") \/ Throw("bad_name")
    BY <2>1, ThrowKeeps
  <2>2. CASE ~(Throw("error") \/ Throw("bad_name"))
    <3>1. /\ \/ pc' = "reset"
             \/ pc' = "links_off" /\ ~conf.local /\ ClockAsAsked
          /\ pc = "check" /\ UNCHANGED <<board, dev, wib, conf, saved, i, out>>
      BY <1>4, <2>2 DEF Check
    <3>2. TypeOK'
      BY <3>1 DEF Inv, TypeOK, Phases
    <3>2a. ClockAsAsked => dev.tgrp = GroupBits(conf.tgrp)
      <4>1. dev.tgrp \in 0..3 /\ conf.tgrp \in 0..16
        BY SettingsAssumption DEF Inv, TypeOK, Dev, Conf
      <4>2. QED
        BY <4>1, GroupFits DEF ClockAsAsked
    <3>3. QuietInv' /\ PathInv' /\ ClockInv' /\ IndexInv'
      BY <3>1, <3>2a
         DEF Inv, QuietInv, QuietWhileConfiguring, Quiet, Disturbable, Saved, PathInv,
             DataPathDown, ClockInv, Clocked, ClockAsAsked, Configuring, IndexInv,
             Links
    <3>4. QED
      BY <3>2, <3>3 DEF Inv
  <2>3. QED
    BY <2>1, <2>2
<1>5. QED
  BY <1>1, <1>2, <1>3, <1>4
-----------------------------------------------------------------------------
(* Reset and clock                                                            *)

\* The control register reset leaves the types of the registers.
LEMMA ClearedFields ==
  ASSUME Inv
  PROVE  Cleared(dev) \in Dev /\ Cleared(dev).link \subseteq Links
<1> USE InvFacts
<1> DEFINE keep(r) == r \notin board.clears
           B == dev.bits \ board.clears
           L == IF keep("link") THEN dev.link ELSE {}
           D == IF keep("daq") THEN dev.daq ELSE {}
           K == IF keep("fake") THEN dev.fake ELSE {}
           F == IF keep("power") THEN dev.femb ELSE PowerUp.femb
<1>1. /\ B \in SUBSET Bits /\ L \in SUBSET (1..4) /\ D \in SUBSET FEMB
      /\ K \in SUBSET FEMB /\ L \subseteq Links
  BY DEF Dev
<1>2. F \in [FEMB -> FembState]
  BY DEF Dev, PowerUp, FembState
<1>3. Cleared(dev) = [dev EXCEPT !.bits = B, !.link = L, !.daq = D, !.fake = K, !.femb = F]
  BY DEF Cleared
<1> HIDE DEF B, L, D, K, F
<1>4. QED
  BY <1>1, <1>2, <1>3 DEF Dev

\* Powering FEMBs off touches nothing else.
LEMMA OffFields ==
  ASSUME Inv, NEW k \in FEMB
  PROVE  /\ OffUpTo(k) \in Dev /\ OffUpTo(k).link = dev.link
         /\ OffUpTo(k).bits = dev.bits /\ OffUpTo(k).daq = dev.daq
         /\ OffUpTo(k).fake = dev.fake
<1> DEFINE F == [f \in FEMB |-> IF f <= k THEN "off" ELSE dev.femb[f]]
<1>1. dev \in Dev /\ F \in [FEMB -> FembState]
  BY InvFacts DEF Dev, FembState
<1>2. OffUpTo(k) = [dev EXCEPT !.femb = F]
  BY DEF OffUpTo
<1> HIDE DEF F
<1>3. QED
  BY <1>1, <1>2, FembField

\* The reset keeps the invariant.
LEMMA ResetKeeps == Inv /\ (ControlReset \/ ResetRest \/ DndAgain \/ FembOff) => Inv'
<1> SUFFICES ASSUME Inv, ControlReset \/ ResetRest \/ DndAgain \/ FembOff PROVE Inv'
  OBVIOUS
<1> USE InvFacts, FembAssumption
<1>1. CASE ControlReset
  <2> DEFINE d == Cleared(dev)
  <2>1. /\ \A e \in {} \cup {d} : e \in Dev /\ e.link \subseteq Links
    BY ClearedFields
  <2>2. /\ pc = "reset" /\ Go({}, d, "reset_rest")
        /\ UNCHANGED <<board, wib, conf, i>>
        /\ saved' = Quiet
    BY <1>1 DEF ControlReset, SavingWrites
  <2>3. saved' \in BOOLEAN
    BY <2>2 DEF Quiet
  <2> HIDE DEF d
  <2>4. CASE dev' = d /\ pc' = "reset_rest" /\ UNCHANGED <<board, wib, conf, i, out>>
    <3>1. TypeOK'
      BY <2>1, <2>2, <2>3, <2>4 DEF Inv, TypeOK, Phases, IndexInv
    <3>2. QuietInv' /\ PathInv' /\ ClockInv' /\ IndexInv'
      BY <2>1, <2>2, <2>4
         DEF Inv, QuietInv, QuietWhileConfiguring, Quiet, Disturbable, Saved, PathInv,
             DataPathDown, ClockInv, Clocked, Configuring, IndexInv, Links
    <3>3. QED
      BY <3>1, <3>2 DEF Inv
  <2>5. QED
    BY <2>1, <2>2, <2>3, <2>4, WritesCases
<1>2. CASE ResetRest
  <2> DEFINE a == IF board.mode = "FELIX" THEN On(dev, {"si5342"}) ELSE dev
             d == Halted(a)
             M == {Off(dev, {"si5342"}), a, On(a, {"halt"})}
  <2>1. /\ \A e \in M \cup {d} : e \in Dev /\ e.link \subseteq Links
        /\ d.link = dev.link
    <3>1. a \in Dev /\ a.link = dev.link
      BY BitFields DEF Bits
    <3> HIDE DEF a
    <3>2. QED
      BY <3>1, BitFields, HaltFields DEF Bits
  <2>2. /\ pc = "reset_rest" /\ Go(M, d, "dnd_again")
        /\ UNCHANGED <<board, wib, conf, i>>
        /\ saved' = saved
    BY <1>2 DEF ResetRest, Writes
  <2>3. saved' \in BOOLEAN
    BY <2>2 DEF Quiet
  <2> HIDE DEF d, M
  <2>4. CASE dev' = d /\ pc' = "dnd_again" /\ UNCHANGED <<board, wib, conf, i, out>>
    <3>1. TypeOK'
      BY <2>1, <2>2, <2>3, <2>4 DEF Inv, TypeOK, Phases, IndexInv
    <3>2. QuietInv' /\ PathInv' /\ ClockInv' /\ IndexInv'
      BY <2>1, <2>2, <2>4
         DEF Inv, QuietInv, QuietWhileConfiguring, Quiet, Disturbable, Saved, PathInv,
             DataPathDown, ClockInv, Clocked, Configuring, IndexInv, Links
    <3>3. QED
      BY <3>1, <3>2 DEF Inv
  <2>5. QED
    BY <2>1, <2>2, <2>3, <2>4, WritesCases
<1>3. CASE DndAgain
  <2> DEFINE d == On(dev, {"dnd"})
  <2>1. /\ \A e \in {} \cup {d} : e \in Dev /\ e.link \subseteq Links
        /\ d.link = dev.link
        /\ "dnd" \in d.bits
    BY BitFields DEF Bits
  <2>2. /\ pc = "dnd_again" /\ Go({}, d, "femb_off")
        /\ UNCHANGED <<board, wib, conf, i>>
        /\ saved' = saved
    BY <1>3 DEF DndAgain, Writes
  <2>3. saved' \in BOOLEAN
    BY <2>2 DEF Quiet
  <2> HIDE DEF d
  <2>4. CASE dev' = d /\ pc' = "femb_off" /\ UNCHANGED <<board, wib, conf, i, out>>
    <3>1. TypeOK'
      BY <2>1, <2>2, <2>3, <2>4 DEF Inv, TypeOK, Phases, IndexInv
    <3>2. QuietInv' /\ PathInv' /\ ClockInv' /\ IndexInv'
      BY <2>1, <2>2, <2>4
         DEF Inv, QuietInv, QuietWhileConfiguring, Quiet, Disturbable, Saved, PathInv,
             DataPathDown, ClockInv, Clocked, Configuring, IndexInv, Links
    <3>3. QED
      BY <3>1, <3>2 DEF Inv
  <2>5. QED
    BY <2>1, <2>2, <2>3, <2>4, WritesCases
<1>4. CASE FembOff
  <2> DEFINE d == Halted(OffUpTo(NumFemb))
             M == {OffUpTo(k) : k \in FEMB}
  <2>1. /\ \A e \in M \cup {d} : e \in Dev /\ e.link \subseteq Links
        /\ d.link = dev.link
        /\ "dnd" \in dev.bits => "dnd" \in d.bits
    <3>1. NumFemb \in FEMB
      BY DEF FEMB
    <3>2. \A k \in FEMB : /\ OffUpTo(k) \in Dev /\ OffUpTo(k).link = dev.link
                          /\ OffUpTo(k).bits = dev.bits
      BY OffFields
    <3>3. QED
      BY <3>1, <3>2, HaltFields
  <2>2. /\ pc = "femb_off" /\ Go(M, d, "clock")
        /\ UNCHANGED <<board, wib, conf, i>>
        /\ saved' = saved
    BY <1>4 DEF FembOff, Writes
  <2>3. saved' \in BOOLEAN
    BY <2>2 DEF Quiet
  <2> HIDE DEF d, M
  <2>4. CASE dev' = d /\ pc' = "clock" /\ UNCHANGED <<board, wib, conf, i, out>>
    <3>1. TypeOK'
      BY <2>1, <2>2, <2>3, <2>4 DEF Inv, TypeOK, Phases, IndexInv
    <3>2. QuietInv' /\ PathInv' /\ ClockInv' /\ IndexInv'
      BY <2>1, <2>2, <2>4
         DEF Inv, QuietInv, QuietWhileConfiguring, Quiet, Disturbable, Saved, PathInv,
             DataPathDown, ClockInv, Clocked, Configuring, IndexInv, Links
    <3>3. QED
      BY <3>1, <3>2 DEF Inv
  <2>5. QED
    BY <2>1, <2>2, <2>3, <2>4, WritesCases
<1>5. QED
  BY <1>1, <1>2, <1>3, <1>4

\* So does setting up the clock.
LEMMA ClockKeeps == Inv /\ (LocalClock \/ TimingClock \/ Align \/ ClockSelect) => Inv'
<1> SUFFICES ASSUME Inv, LocalClock \/ TimingClock \/ Align \/ ClockSelect PROVE Inv'
  OBVIOUS
<1> USE InvFacts, FembAssumption
<1>1. CASE LocalClock
  <2> DEFINE a == Off(dev, {"si5344"})
             b == On(a, {"local_osc"})
             c == On(b, {"si5344"})
             g == On(c, {"fake_clock"})
             h == On(g, {"local_time"})
             d == On(h, {"cnc"})
             M == {a, b, c, g, h}
  <2>1. /\ \A e \in M \cup {d} : e \in Dev /\ e.link \subseteq Links
        /\ d.link = dev.link
        /\ "dnd" \in dev.bits => "dnd" \in d.bits
        /\ {"cnc", "si5344", "fake_clock", "local_time", "local_osc"} \subseteq d.bits
    <3>0. /\ {"si5344"} \in SUBSET Bits /\ {"local_osc"} \in SUBSET Bits
          /\ {"fake_clock"} \in SUBSET Bits /\ {"local_time"} \in SUBSET Bits
          /\ {"cnc"} \in SUBSET Bits
      BY DEF Bits
    <3>1. /\ a \in Dev /\ a.link = dev.link
          /\ "dnd" \in dev.bits => "dnd" \in a.bits
      BY <3>0, BitFields
    <3> HIDE DEF a
    <3>2. /\ b \in Dev /\ b.link = dev.link /\ b.bits = a.bits \cup {"local_osc"}
      BY <3>0, <3>1, BitFields
    <3> HIDE DEF b
    <3>3. /\ c \in Dev /\ c.link = dev.link /\ c.bits = b.bits \cup {"si5344"}
      BY <3>0, <3>2, BitFields
    <3> HIDE DEF c
    <3>4. /\ g \in Dev /\ g.link = dev.link /\ g.bits = c.bits \cup {"fake_clock"}
      BY <3>0, <3>3, BitFields
    <3> HIDE DEF g
    <3>5. /\ h \in Dev /\ h.link = dev.link /\ h.bits = g.bits \cup {"local_time"}
      BY <3>0, <3>4, BitFields
    <3> HIDE DEF h
    <3>6. /\ d \in Dev /\ d.link = dev.link /\ d.bits = h.bits \cup {"cnc"}
      BY <3>0, <3>5, BitFields
    <3> HIDE DEF d
    <3>7. QED
      BY <3>1, <3>2, <3>3, <3>4, <3>5, <3>6
  <2>2. /\ pc = "clock" /\ Go(M, d, IF conf.force THEN "daq_off" ELSE "dnd_back")
        /\ UNCHANGED <<board, wib, conf, i>>
        /\ saved' = saved
        /\ conf.local
    BY <1>1 DEF LocalClock, Writes
  <2>3. saved' \in BOOLEAN
    BY <2>2 DEF Quiet
  <2> HIDE DEF d, M
  <2>4. CASE dev' = d /\ pc' = (IF conf.force THEN "daq_off" ELSE "dnd_back")
             /\ UNCHANGED <<board, wib, conf, i, out>>
    <3>1. TypeOK'
      BY <2>1, <2>2, <2>3, <2>4 DEF Inv, TypeOK, Phases, IndexInv
    <3>2. QuietInv' /\ PathInv' /\ ClockInv' /\ IndexInv'
      BY <2>1, <2>2, <2>4
         DEF Inv, QuietInv, QuietWhileConfiguring, Quiet, Disturbable, Saved, PathInv,
             DataPathDown, ClockInv, Clocked, Configuring, IndexInv, Links
    <3>3. QED
      BY <3>1, <3>2 DEF Inv
  <2>5. QED
    BY <2>1, <2>2, <2>3, <2>4, WritesCases
<1>2. CASE TimingClock
  <2> DEFINE a == [dev EXCEPT !.tgrp = GroupBits(conf.tgrp)]
             p == Off(a, {"pdts"})
             b == Off(a, {"pdts", "si5344"})
             c == [b EXCEPT !.src = conf.src]
             g == Off(c, {"local_osc"})
             d == On(g, {"si5344"})
             M == {a, p, b, c, g}
  <2>1. /\ \A e \in M \cup {d} : e \in Dev /\ e.link \subseteq Links
        /\ d.link = dev.link
        /\ "dnd" \in dev.bits => "dnd" \in d.bits
        /\ "si5344" \in d.bits /\ "local_osc" \notin d.bits
        /\ d.tgrp = GroupBits(conf.tgrp)
    <3>0. /\ {"pdts"} \in SUBSET Bits /\ {"pdts", "si5344"} \in SUBSET Bits
          /\ {"local_osc"} \in SUBSET Bits /\ {"si5344"} \in SUBSET Bits
          /\ GroupBits(conf.tgrp) \in 0..3 /\ conf.src \in 0..2
      BY GroupFits DEF Bits, Conf
    <3>1. a \in Dev /\ a.link = dev.link /\ a.tgrp = GroupBits(conf.tgrp) /\ a.bits = dev.bits
      BY <3>0, GroupField
    <3> HIDE DEF a
    <3>2. /\ p \in Dev /\ p.link = dev.link
          /\ b \in Dev /\ b.link = dev.link /\ b.tgrp = GroupBits(conf.tgrp)
          /\ b.bits = a.bits \ {"pdts", "si5344"}
      BY <3>0, <3>1, BitFields
    <3> HIDE DEF p, b
    <3>3. c \in Dev /\ c.link = dev.link /\ c.tgrp = GroupBits(conf.tgrp) /\ c.bits = b.bits
      BY <3>0, <3>2, SourceField
    <3> HIDE DEF c
    <3>4. /\ g \in Dev /\ g.link = dev.link /\ g.tgrp = GroupBits(conf.tgrp)
          /\ g.bits = c.bits \ {"local_osc"}
      BY <3>0, <3>3, BitFields
    <3> HIDE DEF g
    <3>5. /\ d \in Dev /\ d.link = dev.link /\ d.tgrp = GroupBits(conf.tgrp)
          /\ d.bits = g.bits \cup {"si5344"}
      BY <3>0, <3>4, BitFields
    <3> HIDE DEF d
    <3>6. QED
      BY <3>1, <3>2, <3>3, <3>4, <3>5
  <2>2. /\ pc = "clock" /\ Go(M, d, "align")
        /\ UNCHANGED <<board, wib, conf, i>>
        /\ saved' = saved
        /\ ~conf.local
    BY <1>2 DEF TimingClock, Writes
  <2>3. saved' \in BOOLEAN
    BY <2>2 DEF Quiet
  <2> HIDE DEF d, M
  <2>4. CASE dev' = d /\ pc' = "align" /\ UNCHANGED <<board, wib, conf, i, out>>
    <3>1. TypeOK'
      BY <2>1, <2>2, <2>3, <2>4 DEF Inv, TypeOK, Phases, IndexInv
    <3>2. QuietInv' /\ PathInv' /\ ClockInv' /\ IndexInv'
      BY <2>1, <2>2, <2>4
         DEF Inv, QuietInv, QuietWhileConfiguring, Quiet, Disturbable, Saved, PathInv,
             DataPathDown, ClockInv, Clocked, Configuring, IndexInv, Links
    <3>3. QED
      BY <3>1, <3>2 DEF Inv
  <2>5. QED
    BY <2>1, <2>2, <2>3, <2>4, WritesCases
<1>3. CASE Align
  <2> DEFINE u == On(dev, {"pdts"})
  <2>1. /\ \A e \in {u, Off(u, {"pdts"})} : e \in Dev /\ e.link \subseteq Links
        /\ u.bits = dev.bits \cup {"pdts"} /\ u.link = dev.link /\ u.tgrp = dev.tgrp
        /\ Off(u, {"pdts"}).bits = u.bits \ {"pdts"}
        /\ Off(u, {"pdts"}).link = dev.link /\ Off(u, {"pdts"}).tgrp = dev.tgrp
    <3>1. u \in Dev /\ {"pdts"} \in SUBSET Bits
      BY BitFields DEF Bits
    <3>2. QED
      BY <3>1, BitFields
  <2>2. ASSUME NEW mid \in SUBSET {u}, NEW d \in {u, Off(u, {"pdts"})},
               NEW to \in {"align", "clock_select"}, Writes(mid, d, to)
        PROVE  Inv'
    <3>1. /\ \A e \in mid \cup {d} : e \in Dev /\ e.link \subseteq Links
          /\ d.link = dev.link /\ d.tgrp = dev.tgrp
          /\ \A b \in dev.bits : b # "pdts" => b \in d.bits
          /\ "local_osc" \in d.bits => "local_osc" \in dev.bits
      BY <2>1
    <3>2. /\ pc = "align" /\ Go(mid, d, to) /\ UNCHANGED <<board, wib, conf, saved, i>>
      BY <1>3, <2>2 DEF Align, Writes
    <3>3. CASE dev' = d /\ pc' = to /\ UNCHANGED <<board, wib, conf, i, out>>
      <4>1. TypeOK'
        BY <3>1, <3>2, <3>3 DEF Inv, TypeOK, Phases, IndexInv
      <4>2. QuietInv' /\ PathInv' /\ ClockInv' /\ IndexInv'
        BY <3>1, <3>2, <3>3
           DEF Inv, QuietInv, QuietWhileConfiguring, Quiet, Disturbable, Saved, PathInv,
               DataPathDown, ClockInv, Clocked, Configuring, IndexInv, Links
      <4>3. QED
        BY <4>1, <4>2 DEF Inv
    <3>4. saved' \in BOOLEAN
      BY <3>2
    <3>5. QED
      BY <3>1, <3>2, <3>3, <3>4, WritesCases
  <2>3. {} \in SUBSET {u} /\ {u} \in SUBSET {u}
    OBVIOUS
  <2>4. \/ Writes({}, u, "clock_select") \/ Writes({}, u, "align")
        \/ Writes({u}, Off(u, {"pdts"}), "align")
    BY <1>3 DEF Align
  <2> HIDE DEF u
  <2>5. QED
    BY <2>2, <2>3, <2>4
<1>4. CASE ClockSelect
  <2> DEFINE d == On(dev, {"cnc", "pdts"})
  <2>1. /\ \A e \in {} \cup {d} : e \in Dev /\ e.link \subseteq Links
        /\ d.link = dev.link /\ d.tgrp = dev.tgrp
        /\ d.bits = dev.bits \cup {"cnc", "pdts"}
    BY BitFields DEF Bits
  <2>2. /\ pc = "clock_select" /\ Go({}, d, IF conf.force THEN "daq_off" ELSE "dnd_back")
        /\ UNCHANGED <<board, wib, conf, i>>
        /\ saved' = saved
    BY <1>4 DEF ClockSelect, Writes
  <2>3. saved' \in BOOLEAN
    BY <2>2 DEF Quiet
  <2> HIDE DEF d
  <2>4. CASE dev' = d /\ pc' = (IF conf.force THEN "daq_off" ELSE "dnd_back")
             /\ UNCHANGED <<board, wib, conf, i, out>>
    <3>1. TypeOK'
      BY <2>1, <2>2, <2>3, <2>4 DEF Inv, TypeOK, Phases, IndexInv
    <3>2. QuietInv' /\ PathInv' /\ ClockInv' /\ IndexInv'
      BY <2>1, <2>2, <2>4
         DEF Inv, QuietInv, QuietWhileConfiguring, Quiet, Disturbable, Saved, PathInv,
             DataPathDown, ClockInv, Clocked, Configuring, IndexInv, Links
    <3>3. QED
      BY <3>1, <3>2 DEF Inv
  <2>5. QED
    BY <2>1, <2>2, <2>3, <2>4, WritesCases
<1>5. QED
  BY <1>1, <1>2, <1>3, <1>4
-----------------------------------------------------------------------------
(* FEMBs                                                                      *)

LEMMA FakeFields ==
  ASSUME Inv, NEW k \in FEMB
  PROVE  /\ FakeUpTo(k) \in Dev /\ FakeUpTo(k).link = dev.link
         /\ FakeUpTo(k).bits = dev.bits /\ FakeUpTo(k).daq = dev.daq
         /\ FakeUpTo(k).femb = dev.femb /\ FakeUpTo(k).tgrp = dev.tgrp
         /\ FakeUpTo(k).fake = conf.fake \cap (dev.fake \cup (1..k))
         /\ RealUpTo(k) \in Dev /\ RealUpTo(k).link = dev.link
<1>1. /\ dev \in Dev /\ conf.fake \cap (dev.fake \cup (1..k)) \in SUBSET FEMB
      /\ dev.fake \ ((1..k) \ conf.fake) \in SUBSET FEMB
  BY InvFacts DEF Dev, Conf
<1>2. QED
  BY <1>1, FakeField DEF FakeUpTo, RealUpTo

LEMMA PoweredFields ==
  ASSUME Inv, NEW k \in FEMB
  PROVE  /\ PoweredUpTo(k) \in Dev /\ PoweredUpTo(k).link = dev.link
         /\ PoweredUpTo(k).bits = dev.bits /\ PoweredUpTo(k).daq = dev.daq
         /\ PoweredUpTo(k).fake = dev.fake /\ PoweredUpTo(k).tgrp = dev.tgrp
<1> DEFINE F == [f \in FEMB |->
             IF f <= k /\ Enabled(f) /\ dev.femb[f] = "off" THEN "blank" ELSE dev.femb[f]]
<1>1. dev \in Dev /\ F \in [FEMB -> FembState]
  BY InvFacts DEF Dev, FembState
<1>2. PoweredUpTo(k) = [dev EXCEPT !.femb = F]
  BY DEF PoweredUpTo
<1> HIDE DEF F
<1>3. QED
  BY <1>1, <1>2, FembField

\* The steps from the reset to the loop over the FEMBs.
LEMMA PathsKeep == Inv /\ (DndBack \/ LinksOff \/ DaqOff \/ FakeData \/ PowerOn) => Inv'
<1> SUFFICES ASSUME Inv, DndBack \/ LinksOff \/ DaqOff \/ FakeData \/ PowerOn PROVE Inv'
  OBVIOUS
<1> USE InvFacts, FembAssumption
<1>1. CASE DndBack
  <2> DEFINE d == Restored
  <2>1. /\ \A e \in {} \cup {d} : e \in Dev /\ e.link \subseteq Links
        /\ d.link = dev.link /\ d.tgrp = dev.tgrp /\ d.daq = dev.daq
        /\ saved => "dnd" \in d.bits
        /\ d.bits \ {"dnd"} = dev.bits \ {"dnd"}
    BY BitFields DEF Bits, Restored
  <2>2. /\ pc = "dnd_back" /\ Go({}, d, IF conf.force THEN "fake_data" ELSE "links_off")
        /\ UNCHANGED <<board, wib, conf, i>>
        /\ saved' = saved
    BY <1>1 DEF DndBack, Writes
  <2>3. saved' \in BOOLEAN
    BY <2>2 DEF Quiet
  <2> HIDE DEF d
  <2>4. CASE dev' = d /\ pc' = (IF conf.force THEN "fake_data" ELSE "links_off")
             /\ UNCHANGED <<board, wib, conf, i, out>>
    <3>1. TypeOK'
      BY <2>1, <2>2, <2>3, <2>4 DEF Inv, TypeOK, Phases, IndexInv
    <3>2. QuietInv' /\ PathInv' /\ ClockInv' /\ IndexInv'
      BY <2>1, <2>2, <2>4
         DEF Inv, QuietInv, QuietWhileConfiguring, Quiet, Disturbable, Saved, PathInv,
             DataPathDown, ClockInv, Clocked, Configuring, IndexInv, Links
    <3>3. QED
      BY <3>1, <3>2 DEF Inv
  <2>5. QED
    BY <2>1, <2>2, <2>3, <2>4, WritesCases
<1>2. CASE LinksOff
  <2> DEFINE d == [dev EXCEPT !.link = @ \ Links]
             M == {[dev EXCEPT !.link = @ \ (1..k)] : k \in Links}
  <2>1. /\ \A e \in M \cup {d} : e \in Dev /\ e.link \subseteq Links
        /\ d.link = {} /\ d.tgrp = dev.tgrp /\ d.bits = dev.bits
    <3>1. \A L \in SUBSET (1..4) : dev.link \ L \in SUBSET (1..4)
      BY DEF Dev
    <3>2. \A k \in Links : /\ [dev EXCEPT !.link = @ \ (1..k)] \in Dev
                            /\ [dev EXCEPT !.link = @ \ (1..k)].link \subseteq Links
      BY <3>1, LinkField
    <3>3. d \in Dev /\ d.link = dev.link \ Links /\ d.tgrp = dev.tgrp /\ d.bits = dev.bits
      BY <3>1, LinkField
    <3>4. QED
      BY <3>2, <3>3
  <2>2. /\ pc = "links_off" /\ Go(M, d, "daq_off")
        /\ UNCHANGED <<board, wib, conf, i>>
        /\ saved' = saved
    BY <1>2 DEF LinksOff, Writes
  <2>3. saved' \in BOOLEAN
    BY <2>2 DEF Quiet
  <2> HIDE DEF d, M
  <2>4. CASE dev' = d /\ pc' = "daq_off" /\ UNCHANGED <<board, wib, conf, i, out>>
    <3>1. TypeOK'
      BY <2>1, <2>2, <2>3, <2>4 DEF Inv, TypeOK, Phases, IndexInv
    <3>2. QuietInv' /\ PathInv' /\ ClockInv' /\ IndexInv'
      BY <2>1, <2>2, <2>4
         DEF Inv, QuietInv, QuietWhileConfiguring, Quiet, Disturbable, Saved, PathInv,
             DataPathDown, ClockInv, Clocked, Configuring, IndexInv, Links
    <3>3. QED
      BY <3>1, <3>2 DEF Inv
  <2>5. QED
    BY <2>1, <2>2, <2>3, <2>4, WritesCases
<1>3. CASE DaqOff
  <2> DEFINE d == [dev EXCEPT !.daq = {}]
             M == {[dev EXCEPT !.daq = @ \ (1..k)] : k \in FEMB}
  <2>1. /\ \A e \in M \cup {d} : e \in Dev /\ e.link \subseteq Links
        /\ d.link = dev.link /\ d.daq = {} /\ d.tgrp = dev.tgrp /\ d.bits = dev.bits
    <3>1. \A k \in FEMB : dev.daq \ (1..k) \in SUBSET FEMB
      BY DEF Dev
    <3>2. \A k \in FEMB : /\ [dev EXCEPT !.daq = @ \ (1..k)] \in Dev
                          /\ [dev EXCEPT !.daq = @ \ (1..k)].link = dev.link
      BY <3>1, DaqField
    <3>3. d \in Dev /\ d.link = dev.link /\ d.daq = {} /\ d.tgrp = dev.tgrp /\ d.bits = dev.bits
      BY DaqField
    <3>4. QED
      BY <3>2, <3>3
  <2>2. /\ pc = "daq_off" /\ Go(M, d, IF conf.force THEN "dnd_back" ELSE "fake_data")
        /\ UNCHANGED <<board, wib, conf, i>>
        /\ saved' = saved
    BY <1>3 DEF DaqOff, Writes
  <2>3. saved' \in BOOLEAN
    BY <2>2 DEF Quiet
  <2> HIDE DEF d, M
  <2>4. CASE dev' = d /\ pc' = (IF conf.force THEN "dnd_back" ELSE "fake_data")
             /\ UNCHANGED <<board, wib, conf, i, out>>
    <3>1. TypeOK'
      BY <2>1, <2>2, <2>3, <2>4 DEF Inv, TypeOK, Phases, IndexInv
    <3>2. QuietInv' /\ PathInv' /\ ClockInv' /\ IndexInv'
      BY <2>1, <2>2, <2>4
         DEF Inv, QuietInv, QuietWhileConfiguring, Quiet, Disturbable, Saved, PathInv,
             DataPathDown, ClockInv, Clocked, Configuring, IndexInv, Links
    <3>3. QED
      BY <3>1, <3>2 DEF Inv
  <2>5. QED
    BY <2>1, <2>2, <2>3, <2>4, WritesCases
<1>4. CASE FakeData
  <2>1. CASE Throw("error")
    BY <2>1, ThrowKeeps
  <2>2. CASE ~Throw("error")
    <3> DEFINE d == FakeUpTo(NumFemb)
               M == {RealUpTo(k) : k \in FEMB} \cup {FakeUpTo(k) : k \in FEMB}
    <3>1. \A k \in FEMB : /\ FakeUpTo(k) \in Dev /\ FakeUpTo(k).link = dev.link
                          /\ FakeUpTo(k).bits = dev.bits /\ FakeUpTo(k).tgrp = dev.tgrp
                          /\ FakeUpTo(k).daq = dev.daq
                          /\ RealUpTo(k) \in Dev /\ RealUpTo(k).link = dev.link
      BY FakeFields
    <3>2. NumFemb \in FEMB
      BY DEF FEMB
    <3>3. /\ \A e \in M \cup {d} : e \in Dev /\ e.link \subseteq Links
          /\ d.link = dev.link /\ d.bits = dev.bits /\ d.tgrp = dev.tgrp /\ d.daq = dev.daq
      BY <3>1, <3>2
    <3>4. /\ pc = "fake_data" /\ Go(M, d, "power")
          /\ UNCHANGED <<board, wib, conf, saved, i>>
      BY <1>4, <2>2 DEF FakeData, Writes
    <3>5. saved' \in BOOLEAN
      BY <3>4
    <3> HIDE DEF d, M
    <3>6. CASE dev' = d /\ pc' = "power" /\ UNCHANGED <<board, wib, conf, i, out>>
      <4>1. TypeOK'
        BY <3>3, <3>4, <3>6 DEF Inv, TypeOK, Phases, IndexInv
      <4>2. QuietInv' /\ PathInv' /\ ClockInv' /\ IndexInv'
        BY <3>3, <3>4, <3>6
           DEF Inv, QuietInv, QuietWhileConfiguring, Quiet, Disturbable, Saved, PathInv,
               DataPathDown, ClockInv, Clocked, Configuring, IndexInv, Links
      <4>3. QED
        BY <4>1, <4>2 DEF Inv
    <3>7. QED
      BY <3>3, <3>4, <3>5, <3>6, WritesCases
  <2>3. QED
    BY <2>1, <2>2
<1>5. CASE PowerOn
  <2> DEFINE d == PoweredUpTo(NumFemb)
             M == {PoweredUpTo(k) : k \in FEMB}
  <2>1. /\ \A e \in M \cup {d} : e \in Dev /\ e.link \subseteq Links
        /\ d.link = dev.link /\ d.bits = dev.bits /\ d.tgrp = dev.tgrp /\ d.daq = dev.daq
    <3>1. NumFemb \in FEMB
      BY DEF FEMB
    <3>2. QED
      BY <3>1, PoweredFields
  <2>2. /\ pc = "power" /\ Go(M, d, "setup")
        /\ UNCHANGED <<board, wib, conf, i>>
        /\ saved' = saved
    BY <1>5 DEF PowerOn, Writes
  <2>3. saved' \in BOOLEAN
    BY <2>2 DEF Quiet
  <2> HIDE DEF d, M
  <2>4. CASE dev' = d /\ pc' = "setup" /\ UNCHANGED <<board, wib, conf, i, out>>
    <3>1. TypeOK'
      BY <2>1, <2>2, <2>3, <2>4 DEF Inv, TypeOK, Phases, IndexInv
    <3>2. QuietInv' /\ PathInv' /\ ClockInv' /\ IndexInv'
      BY <2>1, <2>2, <2>4
         DEF Inv, QuietInv, QuietWhileConfiguring, Quiet, Disturbable, Saved, PathInv,
             DataPathDown, ClockInv, Clocked, Configuring, IndexInv, Links
    <3>3. QED
      BY <3>1, <3>2 DEF Inv
  <2>5. QED
    BY <2>1, <2>2, <2>3, <2>4, WritesCases
<1>6. QED
  BY <1>1, <1>2, <1>3, <1>4, <1>5
-----------------------------------------------------------------------------
(* The loop over the FEMBs                                                    *)

\* Within the loop only the FEMBs and the flag of the slow control change; the
\* flag is set, and it is set when it is saved.
LEMMA LoopKeeps ==
  ASSUME Inv, pc \in {"setup", "config", "config_write", "config_back"},
         dev' \in Dev, dev'.link = dev.link, dev'.daq = dev.daq, dev'.tgrp = dev.tgrp,
         dev'.bits \ {"dnd"} = dev.bits \ {"dnd"}, "dnd" \in dev'.bits,
         UNCHANGED <<board, wib, conf, out>>, saved' \in BOOLEAN,
         pc' \in {"setup", "config", "config_write", "config_back", "stream"},
         pc' \in {"config_write", "config_back"} => saved',
         i' \in 1..(NumFemb + ScrapTries), pc' = "setup" => i' <= NumFemb + 1,
         pc' \in {"config", "config_write", "config_back"} => i' <= NumFemb
  PROVE  Inv'
<1>1. TypeOK'
  BY DEF Inv, TypeOK, Phases
<1>2. QuietInv' /\ PathInv' /\ IndexInv'
  BY DEF Inv, QuietInv, QuietWhileConfiguring, Quiet, Disturbable, Saved, PathInv,
         DataPathDown, Configuring, IndexInv, Links
<1>3. ClockInv'
  <2>1. Clocked
    BY DEF Inv, ClockInv, Configuring
  <2>2. \A b \in {"cnc", "si5344", "fake_clock", "local_time", "local_osc", "pdts"} :
           b \in dev'.bits <=> b \in dev.bits
    OBVIOUS
  <2>3. Clocked'
    BY <2>1, <2>2 DEF Clocked
  <2>4. QED
    BY <2>3 DEF ClockInv
<1>4. QED
  BY <1>1, <1>2, <1>3 DEF Inv

\* What holds wherever the loop is.
LEMMA LoopFacts ==
  ASSUME Inv, pc \in {"setup", "config", "config_write", "config_back"}
  PROVE  /\ "dnd" \in dev.bits
         /\ pc \in {"config_write", "config_back"} => saved
         /\ i \in Nat /\ i >= 1
         /\ pc = "setup" => i <= NumFemb + 1
         /\ pc # "setup" => i \in FEMB
  BY FembAssumption
     DEF Inv, TypeOK, QuietInv, QuietWhileConfiguring, Quiet, Disturbable, Saved, FEMB

LEMMA NextFembKeeps ==
  ASSUME Inv, pc \in {"setup", "config_write", "config_back"}, i \in FEMB, NextFemb,
         dev' \in Dev, dev'.link = dev.link, dev'.daq = dev.daq, dev'.tgrp = dev.tgrp,
         dev'.bits \ {"dnd"} = dev.bits \ {"dnd"}, "dnd" \in dev'.bits
  PROVE  Inv'
<1>1. /\ i' \in 1..(NumFemb + ScrapTries) /\ i' <= NumFemb + 1
      /\ pc' = "setup" /\ UNCHANGED <<board, wib, conf, saved, out>>
  BY FembAssumption DEF NextFemb, FEMB, ScrapTries
<1>2. saved' \in BOOLEAN
  BY <1>1, InvFacts
<1>3. QED
  BY <1>1, <1>2, LoopKeeps

LEMMA EndKeeps ==
  ASSUME Inv, NEW e \in {"configured", "error", "refused"}, Ends(e),
         UNCHANGED <<board, wib, conf, saved, i>>,
         dev' \in Dev, dev'.link \subseteq Links
  PROVE  Inv'
  BY IdleKeeps, InvFacts DEF Ends, Inv, TypeOK

\* The steps that end an iteration of the loop without writing the FEMB.
LEMMA SetupKeeps == Inv /\ (SkipFemb \/ Unreadable \/ SetupFemb \/ AllSetUp) => Inv'
<1> SUFFICES ASSUME Inv, SkipFemb \/ Unreadable \/ SetupFemb \/ AllSetUp PROVE Inv'
  OBVIOUS
<1> USE InvFacts, FembAssumption
<1>0. pc = "setup" /\ "dnd" \in dev.bits /\ i \in 1..(NumFemb + ScrapTries)
  BY LoopFacts DEF SkipFemb, Unreadable, SetupFemb, AllSetUp, Inv, TypeOK
<1>1. CASE SkipFemb
  BY <1>0, <1>1, NextFembKeeps DEF SkipFemb
<1>2. CASE Unreadable
  <2> DEFINE d == Power(dev, i, "off")
  <2>1. i \in FEMB
    BY <1>2 DEF Unreadable
  <2>2. d \in Dev /\ d.link = dev.link /\ d.daq = dev.daq /\ d.tgrp = dev.tgrp /\ d.bits = dev.bits
    BY <2>1, PowerFields DEF FembState
  <2>3. \/ /\ dev' \in {dev, d} /\ Ends("error")
           /\ UNCHANGED <<board, wib, conf, saved, i>>
        \/ dev' = d /\ NextFemb
    BY <1>2 DEF Unreadable
  <2> HIDE DEF d
  <2>4. CASE dev' = d /\ NextFemb
    BY <1>0, <2>1, <2>2, <2>4, NextFembKeeps
  <2>5. CASE dev' \in {dev, d} /\ Ends("error") /\ UNCHANGED <<board, wib, conf, saved, i>>
    BY <2>2, <2>5, EndKeeps
  <2>6. QED
    BY <2>3, <2>4, <2>5
<1>3. CASE SetupFemb
  <2>1. CASE Throw("error") \/ Throw("refused")
    BY <2>1, ThrowKeeps
  <2>2. CASE pc' = "config" /\ UNCHANGED <<board, dev, wib, conf, saved, i, out>>
    <3>1. i \in FEMB
      BY <1>3 DEF SetupFemb
    <3>2. saved' \in BOOLEAN
      BY <2>2
    <3>3. i' \in 1..(NumFemb + ScrapTries) /\ i' <= NumFemb
      BY <1>0, <2>2, <3>1 DEF FEMB
    <3>4. QED
      BY <1>0, <2>2, <3>2, <3>3, LoopKeeps
  <2>3. QED
    BY <1>3, <2>1, <2>2 DEF SetupFemb
<1>4. CASE AllSetUp
  <2>1. pc' = "stream" /\ UNCHANGED <<board, dev, wib, conf, saved, i, out>>
    BY <1>4 DEF AllSetUp
  <2>2. saved' \in BOOLEAN /\ i' \in 1..(NumFemb + ScrapTries)
    BY <1>0, <2>1
  <2>3. QED
    BY <1>0, <2>1, <2>2, LoopKeeps
<1>5. QED
  BY <1>1, <1>2, <1>3, <1>4

\* The configuration of one FEMB.
LEMMA ConfigKeeps == Inv /\ (ConfigFemb \/ GiveUpFemb \/ WriteFemb \/ ConfigBack) => Inv'
<1> SUFFICES ASSUME Inv, ConfigFemb \/ GiveUpFemb \/ WriteFemb \/ ConfigBack PROVE Inv'
  OBVIOUS
<1> USE InvFacts, FembAssumption
<1>0. /\ pc \in {"config", "config_write", "config_back"} /\ "dnd" \in dev.bits
      /\ i \in FEMB /\ i \in 1..(NumFemb + ScrapTries) /\ i <= NumFemb
      /\ pc \in {"config_write", "config_back"} => saved
  BY LoopFacts
     DEF ConfigFemb, GiveUpFemb, WriteFemb, Written, ConfigBack, FEMB, Inv, TypeOK
<1>1. CASE ConfigFemb
  <2> DEFINE d == On(dev, {"dnd"})
  <2>1. d \in Dev /\ d.link = dev.link /\ d.daq = dev.daq /\ d.tgrp = dev.tgrp
        /\ d.bits = dev.bits \cup {"dnd"}
    BY BitFields DEF Bits
  <2>2. Go({}, d, "config_write") /\ saved' = Quiet /\ UNCHANGED <<board, wib, conf, i>>
    BY <1>1 DEF ConfigFemb, SavingWrites
  <2>3. saved' = TRUE
    BY <1>0, <2>2 DEF Quiet
  <2>4. \A e \in {} \cup {d} : e \in Dev /\ e.link \subseteq Links
    BY <2>1
  <2> HIDE DEF d
  <2>5. CASE dev' = d /\ pc' = "config_write" /\ UNCHANGED <<board, wib, conf, i, out>>
    BY <1>0, <2>1, <2>3, <2>5, LoopKeeps
  <2>6. QED
    BY <2>2, <2>3, <2>4, <2>5, WritesCases
<1>2. CASE GiveUpFemb
  BY <1>0, <1>2, NextFembKeeps DEF GiveUpFemb
<1>3. CASE WriteFemb
  <2> DEFINE a == Power(dev, i, "partial")
  <2>1. a \in Dev /\ a.link = dev.link
    BY <1>0, PowerFields DEF FembState
  <2>2. ASSUME NEW s \in {"fake", "ready", "degraded"}, Written(s)
        PROVE  Inv'
    <3> DEFINE d == Power(dev, i, s)
    <3>0. s \in FembState
      BY <2>2 DEF FembState
    <3>1. d \in Dev /\ d.link = dev.link /\ d.daq = dev.daq /\ d.tgrp = dev.tgrp
          /\ d.bits = dev.bits
      BY <1>0, <3>0, PowerFields
    <3>2. Go({a}, d, "config_back") /\ UNCHANGED <<board, wib, conf, saved, i>>
      BY <2>2 DEF Written, Writes
    <3>3. saved' \in BOOLEAN
      BY <3>2
    <3>4. \A e \in {a} \cup {d} : e \in Dev /\ e.link \subseteq Links
      BY <2>1, <3>1
    <3>5. pc = "config_write"
      BY <1>3 DEF WriteFemb
    <3> HIDE DEF a, d
    <3>6. CASE dev' = d /\ pc' = "config_back" /\ UNCHANGED <<board, wib, conf, i, out>>
      <4>1. saved'
        BY <1>0, <3>2, <3>5, Zenon
      <4>2. QED
        BY <1>0, <3>1, <3>2, <3>3, <3>5, <3>6, <4>1, LoopKeeps
    <3>7. QED
      BY <3>2, <3>3, <3>4, <3>6, WritesCases
  <2>3. CASE dev' = a /\ Ends("refused") /\ UNCHANGED <<board, wib, conf, saved, i>>
    BY <2>1, <2>3, EndKeeps
  <2>4. QED
    BY <1>3, <2>2, <2>3 DEF WriteFemb
<1>4. CASE ConfigBack
  <2> DEFINE d == On(dev, {"dnd"})
  <2>1. /\ d \in Dev /\ d.link = dev.link /\ d.daq = dev.daq /\ d.tgrp = dev.tgrp
        /\ d.bits = dev.bits \cup {"dnd"}
    BY BitFields DEF Bits
  <2>2. Restored = d /\ pc = "config_back"
    BY <1>0, <1>4 DEF ConfigBack, Restored
  <2> HIDE DEF d
  <2>3. CASE dev' = d /\ NextFemb
    BY <1>0, <2>1, <2>2, <2>3, NextFembKeeps
  <2>4. CASE dev' \in {dev, d} /\ Ends("error") /\ UNCHANGED <<board, wib, conf, saved, i>>
    BY <2>1, <2>4, EndKeeps
  <2>5. QED
    BY <1>4, <2>2, <2>3, <2>4 DEF ConfigBack
<1>5. QED
  BY <1>1, <1>2, <1>3, <1>4
-----------------------------------------------------------------------------
(* The stream to DAQ, scrap and restarts                                      *)

\* Setting dnd after halting changes neither data path nor clock.
LEMMA StreamKeeps == Inv /\ Stream => Inv'
<1> SUFFICES ASSUME Inv, Stream PROVE Inv'
  OBVIOUS
<1> USE InvFacts, FembAssumption
<1> DEFINE h == On(dev, {"halt"})
           g == Halted(dev)
           d == On(g, {"dnd"})
<1>1. /\ h \in Dev /\ h.link = dev.link /\ g \in Dev /\ g.link = dev.link
      /\ g.bits = (dev.bits \cup {"halt"}) \ {"convert"} /\ g.daq = dev.daq
      /\ g.tgrp = dev.tgrp
  BY HaltFields, BitFields DEF Bits
<1>2. {"dnd"} \in SUBSET Bits
  BY DEF Bits
<1> HIDE DEF h, g
<1>3. /\ d \in Dev /\ d.link = dev.link /\ d.bits = g.bits \cup {"dnd"}
      /\ d.daq = dev.daq /\ d.tgrp = dev.tgrp
  BY <1>1, <1>2, BitFields
<1>4. /\ pc = "stream" /\ Go({h, g}, d, "links_on") /\ saved' = Quiet
      /\ UNCHANGED <<board, wib, conf, i>>
  BY DEF Stream, SavingWrites, h, g
<1>5. saved' = TRUE
  BY <1>4 DEF Inv, QuietInv, QuietWhileConfiguring, Disturbable
<1>6. \A e \in {h, g} \cup {d} : e \in Dev /\ e.link \subseteq Links
  BY <1>1, <1>3
<1> HIDE DEF d
<1>7. CASE dev' = d /\ pc' = "links_on" /\ UNCHANGED <<board, wib, conf, i, out>>
  <2>1. TypeOK'
    BY <1>3, <1>4, <1>5, <1>7 DEF Inv, TypeOK, Phases
  <2>2. QuietInv' /\ PathInv' /\ IndexInv'
    BY <1>1, <1>3, <1>4, <1>5, <1>7
       DEF Inv, QuietInv, QuietWhileConfiguring, Quiet, Disturbable, Saved, PathInv,
           DataPathDown, Configuring, IndexInv, Links
  <2>3. ClockInv'
    BY <1>1, <1>3, <1>4, <1>7 DEF Inv, ClockInv, Clocked, Configuring
  <2>4. QED
    BY <2>1, <2>2, <2>3 DEF Inv
<1>8. QED
  BY <1>4, <1>5, <1>6, <1>7, WritesCases

\* Once the links are enabled the data path is no longer down.
LEMMA StartKeeps == Inv /\ (LinksOn \/ Sync \/ StreamBack \/ DndOff) => Inv'
<1> SUFFICES ASSUME Inv, LinksOn \/ Sync \/ StreamBack \/ DndOff PROVE Inv'
  OBVIOUS
<1> USE InvFacts, FembAssumption
<1>1. ASSUME NEW mid, NEW d, NEW to \in {"sync", "stream_back", "dnd_off"},
             Writes(mid, d, to),
             pc \in {"links_on", "sync", "stream_back"},
             to \in {"sync", "stream_back"} => pc \in {"links_on", "sync"},
             \A e \in mid \cup {d} : e \in Dev /\ e.link \subseteq Links,
             dev.bits \ {"halt"} \subseteq d.bits,
             "local_osc" \in d.bits => "local_osc" \in dev.bits,
             d.tgrp = dev.tgrp
      PROVE  Inv'
  <2>1. Go(mid, d, to) /\ UNCHANGED <<board, wib, conf, saved, i>>
    BY <1>1 DEF Writes
  <2>2. saved' \in BOOLEAN
    BY <2>1
  <2>3. CASE dev' = d /\ pc' = to /\ UNCHANGED <<board, wib, conf, i, out>>
    <3>1. TypeOK'
      BY <1>1, <2>1, <2>2, <2>3 DEF Inv, TypeOK, Phases
    <3>2. QuietInv' /\ PathInv' /\ IndexInv'
      BY <1>1, <2>1, <2>3
         DEF Inv, QuietInv, QuietWhileConfiguring, Quiet, Disturbable, Saved, PathInv,
             DataPathDown, Configuring, IndexInv, Links
    <3>3. ClockInv'
      BY <1>1, <2>1, <2>3 DEF Inv, ClockInv, Clocked, Configuring
    <3>4. QED
      BY <3>1, <3>2, <3>3 DEF Inv
  <2>4. QED
    BY <1>1, <2>1, <2>2, <2>3, WritesCases
<1>2. CASE LinksOn
  <2> DEFINE L(S) == [dev EXCEPT !.link = @ \cup S]
             M == {L(StreamLinks \cap (1..k)) : k \in Links}
  <2>1. \A S \in SUBSET Links : /\ L(S) \in Dev /\ L(S).link \subseteq Links
                                /\ L(S).bits = dev.bits /\ L(S).tgrp = dev.tgrp
    <3>1. \A S \in SUBSET Links : dev.link \cup S \in SUBSET (1..4)
      OBVIOUS
    <3>2. QED
      BY <3>1, LinkField
  <2>2. pc = "links_on" /\ Writes(M, L(StreamLinks), "sync")
    BY <1>2 DEF LinksOn
  <2>3. /\ \A k \in Links : StreamLinks \cap (1..k) \in SUBSET Links
        /\ StreamLinks \in SUBSET Links
    OBVIOUS
  <2> HIDE DEF L
  <2>4. \A e \in M \cup {L(StreamLinks)} : e \in Dev /\ e.link \subseteq Links
    BY <2>1, <2>3
  <2> HIDE DEF M
  <2>5. QED
    BY <1>1, <2>1, <2>2, <2>3, <2>4
<1>3. CASE Sync
  <2> DEFINE a == [dev EXCEPT !.daq = FEMB]
             d == On(a, {"dts_cmds"})
             g == Off(d, {"halt"})
             h == On(g, {"convert"})
             M == {[dev EXCEPT !.daq = @ \cup (1..k)] : k \in FEMB}
  <2>1. a \in Dev /\ a.link = dev.link /\ a.bits = dev.bits /\ a.tgrp = dev.tgrp
    BY DaqField
  <2>2. \A e \in M : e \in Dev /\ e.link \subseteq Links
    <3>1. \A k \in FEMB : dev.daq \cup (1..k) \in SUBSET FEMB
      BY DEF Dev, FEMB
    <3>2. \A k \in FEMB : /\ [dev EXCEPT !.daq = @ \cup (1..k)] \in Dev
                          /\ [dev EXCEPT !.daq = @ \cup (1..k)].link = dev.link
      BY <3>1, DaqField
    <3>3. QED
      BY <3>2
  <2>3. {"dts_cmds"} \in SUBSET Bits /\ {"halt"} \in SUBSET Bits /\ {"convert"} \in SUBSET Bits
    BY DEF Bits
  <2>4. pc = "sync" /\ Writes(M \cup {d, g}, h, "stream_back")
    BY <1>3 DEF Sync
  <2> HIDE DEF a, M
  <2>5. d \in Dev /\ d.link = dev.link /\ d.tgrp = dev.tgrp /\ d.bits = dev.bits \cup {"dts_cmds"}
    BY <2>1, <2>3, BitFields
  <2> HIDE DEF d
  <2>6. g \in Dev /\ g.link = dev.link /\ g.tgrp = dev.tgrp /\ g.bits = d.bits \ {"halt"}
    BY <2>3, <2>5, BitFields
  <2> HIDE DEF g
  <2>7. h \in Dev /\ h.link = dev.link /\ h.tgrp = dev.tgrp /\ h.bits = g.bits \cup {"convert"}
    BY <2>3, <2>6, BitFields
  <2> HIDE DEF h
  <2>8. \A e \in (M \cup {d, g}) \cup {h} : e \in Dev /\ e.link \subseteq Links
    BY <2>2, <2>5, <2>6, <2>7
  <2>9. dev.bits \ {"halt"} \subseteq h.bits /\ ("local_osc" \in h.bits => "local_osc" \in dev.bits)
    BY <2>5, <2>6, <2>7
  <2>10. QED
    BY <1>1, <2>4, <2>7, <2>8, <2>9
<1>4. CASE StreamBack
  <2> DEFINE d == On(dev, {"dnd"})
  <2>1. d \in Dev /\ d.link = dev.link /\ d.tgrp = dev.tgrp /\ d.bits = dev.bits \cup {"dnd"}
    BY BitFields DEF Bits
  <2>2. pc = "stream_back" /\ Writes({}, Restored, "dnd_off")
    BY <1>4 DEF StreamBack
  <2>3. Restored = d
    BY <2>2 DEF Restored, Inv, QuietInv, Saved
  <2> HIDE DEF d
  <2>4. QED
    BY <1>1, <2>1, <2>2, <2>3
<1>5. CASE DndOff
  <2>1. Off(dev, {"dnd"}) \in Dev /\ Off(dev, {"dnd"}).link \subseteq Links
    BY BitFields DEF Bits
  <2>2. QED
    BY <1>5, <2>1, EndKeeps DEF DndOff
<1>6. QED
  BY <1>2, <1>3, <1>4, <1>5

\* Scrap and a restart.
LEMMA ScrapKeeps == Inv /\ (ScrapTry \/ Scrapped \/ Crash) => Inv'
<1> SUFFICES ASSUME Inv, ScrapTry \/ Scrapped \/ Crash PROVE Inv'
  OBVIOUS
<1> USE InvFacts, FembAssumption
<1>1. CASE ScrapTry
  <2> DEFINE a == On(dev, {"dnd"})
             b == [a EXCEPT !.link = @ \ {1}]
             c == [b EXCEPT !.link = @ \ {2}]
             stopped == {dev, a, b, c}
  <2>1. \A e \in stopped : e \in Dev /\ e.link \subseteq Links
    <3>1. a \in Dev /\ a.link = dev.link
      BY BitFields DEF Bits
    <3> HIDE DEF a
    <3>2. b \in Dev /\ b.link = a.link \ {1}
      BY <3>1, LinkField
    <3> HIDE DEF b
    <3>3. c \in Dev /\ c.link = b.link \ {2}
      BY <3>1, <3>2, LinkField
    <3> HIDE DEF c
    <3>4. QED
      BY <3>1, <3>2, <3>3
  <2>2. LinksOffPath[1] = a /\ LinksOffPath[2] = b /\ LinksOffPath[3] = c
    BY DEF LinksOffPath
  <2>3. /\ pc = "scrap" /\ UNCHANGED <<board, wib, conf, saved>>
        /\ \/ dev' = c /\ pc' = "scrapped" /\ UNCHANGED <<i, out>>
           \/ /\ dev' \in stopped
              /\ \/ TriesLeft /\ i' = i + 1 /\ UNCHANGED <<pc, out>>
                 \/ ~TriesLeft /\ pc' = "scrapped" /\ out' = "warned" /\ UNCHANGED i
           \/ /\ dev' \in stopped \cup {Off(e, {"dnd"}) : e \in stopped}
              /\ Ends("error") /\ UNCHANGED i
    BY <1>1, <2>2 DEF ScrapTry
  <2> HIDE DEF a, b, c
  <2>4. CASE Ends("error") /\ UNCHANGED i /\ dev' \in stopped \cup {Off(e, {"dnd"}) : e \in stopped}
    <3>1. \A e \in stopped : Off(e, {"dnd"}) \in Dev /\ Off(e, {"dnd"}).link \subseteq Links
      BY <2>1, BitFields DEF Bits
    <3>2. dev' \in Dev /\ dev'.link \subseteq Links
      BY <2>1, <2>4, <3>1
    <3>3. QED
      BY <2>3, <2>4, <3>2, EndKeeps
  <2>5. CASE /\ dev' \in stopped /\ pc' \in {"scrap", "scrapped"} /\ out' \in {out, "warned"}
             /\ i' \in {i, i + 1} /\ i' <= ScrapTries
    <3>1. TypeOK'
      BY <2>1, <2>3, <2>5 DEF Inv, TypeOK, Phases, ScrapTries
    <3>2. QuietInv' /\ PathInv' /\ ClockInv' /\ IndexInv'
      BY <2>1, <2>3, <2>5
         DEF Inv, QuietInv, QuietWhileConfiguring, Quiet, Disturbable, Saved, PathInv,
             DataPathDown, ClockInv, Configuring, IndexInv, Links
    <3>3. QED
      BY <3>1, <3>2 DEF Inv
  <2>6. i \in 1..ScrapTries
    BY <2>3 DEF Inv, TypeOK, ScrapTries
  <2>7. QED
    BY <2>3, <2>4, <2>5, <2>6 DEF TriesLeft, ScrapTries
<1>2. CASE Scrapped
  <2>1. Off(dev, {"dnd"}) \in Dev /\ Off(dev, {"dnd"}).link \subseteq Links
    BY BitFields DEF Bits
  <2>2. /\ dev' \in {dev, Off(dev, {"dnd"})} /\ wib' = "null"
        /\ pc' = "idle" /\ out' \in {"warned", "scrapped"}
        /\ UNCHANGED <<board, conf, saved, i>>
    BY <1>2 DEF Scrapped, Ends
  <2>3. saved' \in BOOLEAN /\ dev' \in Dev /\ dev'.link \subseteq Links
    BY <2>1, <2>2
  <2>4. QED
    BY <2>2, <2>3, IdleKeeps
<1>3. CASE Crash
  <2>1. pc' = "idle" /\ out' = "crash" /\ wib' = "null" /\ UNCHANGED <<board, dev, conf, saved, i>>
    BY <1>3 DEF Crash, Ends
  <2>2. saved' \in BOOLEAN
    BY <2>1
  <2>3. QED
    BY <2>1, <2>2, IdleKeeps
<1>4. QED
  BY <1>1, <1>2, <1>3
-----------------------------------------------------------------------------
(* The theorems                                                               *)

LEMMA InitInv == Init => Inv
<1> SUFFICES ASSUME Init PROVE Inv
  OBVIOUS
<1>1. PowerUp \in Dev /\ PowerUp.link = {}
  BY DEF PowerUp, Dev, FembState
<1>2. TypeOK
  <2>1. i \in 1..(NumFemb + ScrapTries)
    BY FembAssumption DEF Init, ScrapTries
  <2>2. saved \in BOOLEAN
    BY Zenon DEF Init
  <2>3. QED
    BY <1>1, <2>1, <2>2 DEF Init, TypeOK, Phases
<1>3. QuietInv /\ PathInv /\ ClockInv /\ IndexInv
  BY <1>1 DEF Init, QuietInv, QuietWhileConfiguring, Disturbable, Saved, PathInv,
              DataPathDown, ClockInv, Configuring, IndexInv
<1>4. QED
  BY <1>2, <1>3 DEF Inv

LEMMA StepInv == Inv /\ [Next]_vars => Inv'
<1>1. Inv /\ Next => Inv'
  BY CommandKeeps, BeforeResetKeeps, ResetKeeps, ClockKeeps, PathsKeep, SetupKeeps,
     ConfigKeeps, StreamKeeps, StartKeeps, ScrapKeeps
     DEF Next, Step, Reset, Clock, Paths, Fembs, Start
<1>2. Inv /\ UNCHANGED vars => Inv'
  BY DEF vars, Inv, TypeOK, QuietInv, QuietWhileConfiguring, Quiet, Disturbable, Saved,
         PathInv, DataPathDown, ClockInv, Clocked, Configuring, IndexInv, Links
<1>3. QED
  BY <1>1, <1>2

\* Inv is an invariant: no command, failure or restart breaks it.
THEOREM InvHolds == Spec => []Inv
  BY InitInv, StepInv, PTL DEF Spec

\* Every register, flag and index stays in its range, so the loop over the FEMBs
\* never configures a FEMB there is not and do_scrap never tries a sixth time.
THEOREM TypeCorrect == Spec => []TypeOK
<1>1. Inv => TypeOK
  BY DEF Inv
<1>2. QED
  BY <1>1, InvHolds, PTL

\* The slow control is asked not to disturb from the start of do_settings to its
\* end, but for the one moment after CONTROL_REGISTER_RESET: however often the
\* flag is saved and restored on the way, TRUE is what is restored.
THEOREM StaysQuiet == Spec => []QuietWhileConfiguring
<1>1. Inv => QuietWhileConfiguring
  BY DEF Inv, QuietInv
<1>2. QED
  BY <1>1, InvHolds, PTL

\* FEMBs are only configured with their data path down, whatever was streaming
\* before the command.
THEOREM PathStaysDown == Spec => []DataPathDown
<1>1. Inv => DataPathDown
  BY DEF Inv, PathInv
<1>2. QED
  BY <1>1, InvHolds, PTL

\* FEMBs are only configured and streamed with the clock the settings ask for.
THEOREM ClockStaysReady == Spec => []ClockReady
<1>1. Inv => ClockReady
  BY DEF Inv, ClockInv, Clocked, ClockReady
<1>2. QED
  BY <1>1, InvHolds, PTL
-----------------------------------------------------------------------------
(* What a command has done by the time it ends                                *)

\* The steps before the loop over the FEMBs, those of the loop, those after it.
Before   == {"new", "settings", "mode", "check", "reset", "reset_rest", "dnd_again",
             "femb_off", "clock", "align", "clock_select", "dnd_back", "links_off",
             "daq_off", "fake_data", "power"}
Loop     == {"setup", "config", "config_write", "config_back"}
Starting == {"stream", "links_on", "sync", "stream_back", "dnd_off"}

\* The steps between the reset and the power-on, taken by a full reset.
AllOff == {"clock", "align", "clock_select", "dnd_back", "daq_off", "fake_data", "power"}

\* FEMB f is not configured by this command: Begin, the reset and the power-on
\* leave none of the states that configure it, and after a full reset a FEMB
\* that is not enabled stays off.
Fresh(f) == /\ dev.femb[f] \in {"off", "blank", "stale", "partial"}
            /\ pc \in AllOff /\ conf.force => dev.femb[f] = "off"
            /\ pc \in Loop /\ conf.force /\ ~Enabled(f) => dev.femb[f] = "off"

\* The FEMBs that stream and the links, once the stream is started.
Streaming == /\ dev.daq = FEMB
             /\ {"convert", "dts_cmds"} \subseteq dev.bits
             /\ "halt" \notin dev.bits
LinksUp   == /\ StreamLinks \subseteq dev.link
             /\ ~conf.force => dev.link = StreamLinks

\* How far a command is: the FEMBs before the i-th are set up, the others are as
\* the reset and the power-on left them.
FembsDone(f) == IF f < i \/ (f = i /\ pc = "config_back") THEN SetUp(f) ELSE Fresh(f)
DoneInv ==
  /\ pc # "idle" => out = "none" \/ (out = "warned" /\ pc = "scrapped")
  /\ pc \in Before => \A f \in FEMB : Fresh(f)
  /\ pc \in Loop => \A f \in FEMB : FembsDone(f)
  /\ pc \in {"config", "config_write"} => conf.kind[i] \in {"word", "real", "dac63"}
  /\ pc \in Starting => \A f \in FEMB : SetUp(f)
  /\ pc \in {"power"} \cup Loop \cup Starting => dev.fake = conf.fake
  /\ pc \in {"sync", "stream_back", "dnd_off"} => LinksUp
  /\ pc \in {"stream_back", "dnd_off"} => Streaming
  /\ pc = "scrapped" /\ out = "none" /\ board.mode = "FELIX" => dev.link = {}
  /\ SettingsDone
  /\ ScrapDone

\* Whether a FEMB is set up depends on that FEMB and the settings only.
LEMMA SetUpFrame ==
  ASSUME NEW f \in FEMB, dev'.femb[f] = dev.femb[f], conf' = conf
  PROVE  SetUp(f)' <=> SetUp(f)
  BY DEF SetUp, Tolerated

\* A command that fails has nothing to show for itself.
LEMMA EndsDone ==
  ASSUME DoneInv, pc' = "idle", out' \notin {"configured", "scrapped", "warned"}
  PROVE  DoneInv'
  BY DEF DoneInv, Before, Loop, Starting, SettingsDone, ScrapDone

LEMMA ThrowDone ==
  ASSUME DoneInv, NEW e \in {"error", "bad_name", "refused"}, Throw(e)
  PROVE  DoneInv'
  BY EndsDone DEF Throw, Ends

LEMMA WritesDone ==
  ASSUME DoneInv, NEW mid, NEW d, NEW to, Go(mid, d, to)
  PROVE  DoneInv' \/ (dev' = d /\ pc' = to /\ out' = out)
  BY EndsDone DEF Go, Ends

\* The steps before the loop that leave the power of the FEMBs alone.
LEMMA BeforeDone ==
  ASSUME DoneInv, pc \in Before, pc' \in Before, UNCHANGED <<board, conf, out>>,
         \A f \in FEMB : Fresh(f)', pc' = "power" => dev'.fake = conf'.fake
  PROVE  DoneInv'
<1>1. out' = "none"
  BY DEF DoneInv, Before
<1>2. QED
  BY <1>1 DEF DoneInv, Before, Loop, Starting, SettingsDone, ScrapDone

LEMMA SamePowerDone ==
  ASSUME DoneInv, pc \in Before, pc' \in Before, UNCHANGED <<board, conf, out>>,
         dev'.femb = dev.femb, pc' \in AllOff /\ conf.force => pc \in AllOff,
         pc' = "power" => dev'.fake = conf.fake
  PROVE  DoneInv'
<1>1. \A f \in FEMB : Fresh(f)'
  BY DEF DoneInv, Fresh, Before, Loop
<1>2. QED
  BY <1>1, BeforeDone

\* A new command forgets what an earlier one has configured.
LEMMA CommandDone == Inv /\ DoneInv /\ Command => DoneInv'
<1> SUFFICES ASSUME Inv, DoneInv, Command PROVE DoneInv'
  OBVIOUS
<1>1. ASSUME NEW s \in Settings, NEW first \in {"new", "settings"}, Begin(s, first)
      PROVE  DoneInv'
  <2> DEFINE F == [f \in FEMB |->
               IF dev.femb[f] \in {"ready", "degraded", "fake"} THEN "stale" ELSE dev.femb[f]]
  <2>1. F \in [FEMB -> FembState]
    BY InvFacts DEF Dev, FembState
  <2>2. \A f \in FEMB : F[f] \in {"off", "blank", "stale", "partial"}
    BY InvFacts DEF Dev, FembState
  <2> HIDE DEF F
  <2>3. dev' = [dev EXCEPT !.femb = F]
    BY <1>1 DEF Begin, F
  <2>4. dev'.femb = F
    BY <2>1, <2>3, InvFacts, FembField
  <2>5. pc' = first /\ out' = "none"
    BY <1>1 DEF Begin
  <2>6. \A f \in FEMB : Fresh(f)'
    BY <2>2, <2>4, <2>5 DEF Fresh, AllOff, Loop
  <2>7. QED
    BY <2>5, <2>6 DEF DoneInv, Before, Loop, Starting, SettingsDone, ScrapDone
<1>2. ASSUME NEW s \in Settings, SettleNoWib(s)
      PROVE  DoneInv'
  BY <1>2, EndsDone DEF SettleNoWib
<1>3. CASE Scrap
  <2>1. CASE Throw("error")
    BY <2>1, ThrowDone
  <2>2. CASE ~Throw("error")
    BY <1>3, <2>2
       DEF Scrap, DoneInv, Before, Loop, Starting, SettingsDone, ScrapDone
  <2>3. QED
    BY <2>1, <2>2
<1>4. QED
  BY <1>1, <1>2, <1>3 DEF Command, Configure, Settle

\* From the new WIB to the power-on: only the reset and FembOff touch the power
\* of a FEMB, and they only take it away.
LEMMA CheckDone == Inv /\ DoneInv /\ (NewWib \/ SetDnd \/ CheckMode \/ Check) => DoneInv'
<1> SUFFICES ASSUME Inv, DoneInv, NewWib \/ SetDnd \/ CheckMode \/ Check PROVE DoneInv'
  OBVIOUS
<1>1. CASE \E e \in {"error", "bad_name"} : Throw(e)
  BY <1>1, ThrowDone
<1>2. CASE /\ pc \in {"new", "mode", "check"} /\ UNCHANGED <<board, dev, conf, out>>
           /\ pc' \in {"settings", "check", "reset", "links_off"}
  BY <1>2, SamePowerDone DEF Before, AllOff
<1>3. CASE SetDnd /\ Writes({}, On(dev, {"dnd"}), "mode")
  <2>1. On(dev, {"dnd"}).femb = dev.femb
    BY InvFacts, BitFields DEF Bits
  <2>2. pc = "settings" /\ Go({}, On(dev, {"dnd"}), "mode") /\ UNCHANGED <<board, conf>>
    BY <1>3 DEF SetDnd, Writes
  <2>3. CASE dev' = On(dev, {"dnd"}) /\ pc' = "mode" /\ out' = out
    BY <2>1, <2>2, <2>3, SamePowerDone DEF Before, AllOff
  <2>4. QED
    BY <2>2, <2>3, WritesDone
<1>4. QED
  BY <1>1, <1>2, <1>3 DEF NewWib, SetDnd, CheckMode, Check

LEMMA ResetDone ==
  Inv /\ DoneInv /\ (ControlReset \/ ResetRest \/ DndAgain \/ FembOff) => DoneInv'
<1> SUFFICES ASSUME Inv, DoneInv, ControlReset \/ ResetRest \/ DndAgain \/ FembOff
             PROVE  DoneInv'
  OBVIOUS
<1> USE InvFacts, FembAssumption
<1>1. CASE ControlReset
  <2> DEFINE d == Cleared(dev)
  <2>1. \A f \in FEMB : d.femb[f] \in {dev.femb[f], "off"}
    BY DEF Cleared, Dev, PowerUp
  <2>2. pc = "reset" /\ Go({}, d, "reset_rest") /\ UNCHANGED <<board, conf>>
    BY <1>1 DEF ControlReset, SavingWrites
  <2> HIDE DEF d
  <2>3. CASE dev' = d /\ pc' = "reset_rest" /\ out' = out
    <3>1. \A f \in FEMB : Fresh(f)'
      BY <2>1, <2>2, <2>3 DEF DoneInv, Fresh, Before, AllOff, Loop
    <3>2. QED
      BY <2>2, <2>3, <3>1, BeforeDone DEF Before
  <2>4. QED
    BY <2>2, <2>3, WritesDone
<1>2. CASE ResetRest
  <2> DEFINE a == IF board.mode = "FELIX" THEN On(dev, {"si5342"}) ELSE dev
             d == Halted(a)
             M == {Off(dev, {"si5342"}), a, On(a, {"halt"})}
  <2>1. a \in Dev /\ a.femb = dev.femb
    BY BitFields DEF Bits
  <2>2. pc = "reset_rest" /\ Go(M, d, "dnd_again") /\ UNCHANGED <<board, conf>>
    BY <1>2 DEF ResetRest, Writes
  <2> HIDE DEF a, M
  <2>3. d.femb = dev.femb
    BY <2>1, HaltFields
  <2> HIDE DEF d
  <2>4. CASE dev' = d /\ pc' = "dnd_again" /\ out' = out
    BY <2>2, <2>3, <2>4, SamePowerDone DEF Before, AllOff
  <2>5. QED
    BY <2>2, <2>4, WritesDone
<1>3. CASE DndAgain
  <2> DEFINE d == On(dev, {"dnd"})
  <2>1. d.femb = dev.femb
    BY BitFields DEF Bits
  <2>2. pc = "dnd_again" /\ Go({}, d, "femb_off") /\ UNCHANGED <<board, conf>>
    BY <1>3 DEF DndAgain, Writes
  <2> HIDE DEF d
  <2>3. CASE dev' = d /\ pc' = "femb_off" /\ out' = out
    BY <2>1, <2>2, <2>3, SamePowerDone DEF Before, AllOff
  <2>4. QED
    BY <2>2, <2>3, WritesDone
<1>4. CASE FembOff
  <2> DEFINE a == OffUpTo(NumFemb)
             d == Halted(a)
             M == {OffUpTo(k) : k \in FEMB}
  <2>1. a \in Dev
    BY OffFields DEF FEMB
  <2>2. \A f \in FEMB : a.femb[f] = "off"
    BY DEF OffUpTo, Dev, FEMB
  <2>3. pc = "femb_off" /\ Go(M, d, "clock") /\ UNCHANGED <<board, conf>>
    BY <1>4 DEF FembOff, Writes
  <2> HIDE DEF a, M
  <2>4. d.femb = a.femb
    BY <2>1, HaltFields
  <2> HIDE DEF d
  <2>5. CASE dev' = d /\ pc' = "clock" /\ out' = out
    <3>1. \A f \in FEMB : Fresh(f)'
      BY <2>2, <2>4, <2>5 DEF Fresh
    <3>2. QED
      BY <2>3, <2>5, <3>1, BeforeDone DEF Before
  <2>6. QED
    BY <2>3, <2>5, WritesDone
<1>5. QED
  BY <1>1, <1>2, <1>3, <1>4

LEMMA ClockDone ==
  Inv /\ DoneInv /\ (LocalClock \/ TimingClock \/ Align \/ ClockSelect) => DoneInv'
<1> SUFFICES ASSUME Inv, DoneInv, LocalClock \/ TimingClock \/ Align \/ ClockSelect
             PROVE  DoneInv'
  OBVIOUS
<1> USE InvFacts
<1>0. \A B \in {{"si5344"}, {"local_osc"}, {"fake_clock"}, {"local_time"}, {"cnc"}, {"pdts"},
                {"pdts", "si5344"}, {"cnc", "pdts"}} : B \in SUBSET Bits
  BY DEF Bits
<1>1. ASSUME NEW mid, NEW d, NEW to \in {"align", "clock_select", "daq_off", "dnd_back"},
             Go(mid, d, to), pc \in {"clock", "align", "clock_select"}, d.femb = dev.femb,
             UNCHANGED <<board, conf>>
      PROVE  DoneInv'
  <2>1. CASE dev' = d /\ pc' = to /\ out' = out
    BY <1>1, <2>1, SamePowerDone DEF Before, AllOff
  <2>2. QED
    BY <1>1, <2>1, WritesDone
<1>2. CASE LocalClock
  <2> DEFINE a == Off(dev, {"si5344"})
             b == On(a, {"local_osc"})
             c == On(b, {"si5344"})
             g == On(c, {"fake_clock"})
             h == On(g, {"local_time"})
             d == On(h, {"cnc"})
  <2>1. /\ pc = "clock" /\ Go({a, b, c, g, h}, d, IF conf.force THEN "daq_off" ELSE "dnd_back")
        /\ UNCHANGED <<board, conf>>
    BY <1>2 DEF LocalClock, Writes
  <2>2. a \in Dev /\ a.femb = dev.femb
    BY <1>0, BitFields
  <2> HIDE DEF a
  <2>3. b \in Dev /\ b.femb = dev.femb
    BY <1>0, <2>2, BitFields
  <2> HIDE DEF b
  <2>4. c \in Dev /\ c.femb = dev.femb
    BY <1>0, <2>3, BitFields
  <2> HIDE DEF c
  <2>5. g \in Dev /\ g.femb = dev.femb
    BY <1>0, <2>4, BitFields
  <2> HIDE DEF g
  <2>6. h \in Dev /\ h.femb = dev.femb
    BY <1>0, <2>5, BitFields
  <2> HIDE DEF h
  <2>7. d.femb = dev.femb
    BY <1>0, <2>6, BitFields
  <2> HIDE DEF d
  <2>8. QED
    BY <1>1, <2>1, <2>7
<1>3. CASE TimingClock
  <2> DEFINE a == [dev EXCEPT !.tgrp = GroupBits(conf.tgrp)]
             b == Off(a, {"pdts", "si5344"})
             c == [b EXCEPT !.src = conf.src]
             g == Off(c, {"local_osc"})
             d == On(g, {"si5344"})
             M == {a, Off(a, {"pdts"}), b, c, g}
  <2>1. pc = "clock" /\ Go(M, d, "align") /\ UNCHANGED <<board, conf>>
    BY <1>3 DEF TimingClock, Writes
  <2>2. GroupBits(conf.tgrp) \in 0..3 /\ conf.src \in 0..2
    BY GroupFits DEF Conf
  <2> HIDE DEF M
  <2>3. a \in Dev /\ a.femb = dev.femb
    BY <2>2, GroupField
  <2> HIDE DEF a
  <2>4. b \in Dev /\ b.femb = dev.femb
    BY <1>0, <2>3, BitFields
  <2> HIDE DEF b
  <2>5. c \in Dev /\ c.femb = dev.femb
    BY <2>2, <2>4, SourceField
  <2> HIDE DEF c
  <2>6. g \in Dev /\ g.femb = dev.femb
    BY <1>0, <2>5, BitFields
  <2> HIDE DEF g
  <2>7. d.femb = dev.femb
    BY <1>0, <2>6, BitFields
  <2> HIDE DEF d
  <2>8. QED
    BY <1>1, <2>1, <2>7
<1>4. CASE Align
  <2> DEFINE u == On(dev, {"pdts"})
             d == Off(u, {"pdts"})
  <2>1. u \in Dev /\ u.femb = dev.femb
    BY <1>0, BitFields
  <2>2. /\ pc = "align" /\ UNCHANGED <<board, conf>>
        /\ Go({}, u, "clock_select") \/ Go({}, u, "align") \/ Go({u}, d, "align")
    BY <1>4 DEF Align, Writes
  <2> HIDE DEF u
  <2>3. d.femb = dev.femb
    BY <1>0, <2>1, BitFields
  <2> HIDE DEF d
  <2>4. QED
    BY <1>1, <2>1, <2>2, <2>3
<1>5. CASE ClockSelect
  <2> DEFINE d == On(dev, {"cnc", "pdts"})
  <2>1. d.femb = dev.femb
    BY <1>0, BitFields
  <2>2. /\ pc = "clock_select" /\ Go({}, d, IF conf.force THEN "daq_off" ELSE "dnd_back")
        /\ UNCHANGED <<board, conf>>
    BY <1>5 DEF ClockSelect, Writes
  <2> HIDE DEF d
  <2>3. QED
    BY <1>1, <2>1, <2>2
<1>6. QED
  BY <1>2, <1>3, <1>4, <1>5

\* The fake sources are those asked for before the loop starts, and after a full
\* reset only the FEMBs asked for are powered on.
LEMMA PathsDone ==
  Inv /\ DoneInv /\ (DndBack \/ LinksOff \/ DaqOff \/ FakeData \/ PowerOn) => DoneInv'
<1> SUFFICES ASSUME Inv, DoneInv, DndBack \/ LinksOff \/ DaqOff \/ FakeData \/ PowerOn
             PROVE  DoneInv'
  OBVIOUS
<1> USE InvFacts, FembAssumption
<1>1. ASSUME NEW mid, NEW d, NEW to \in {"links_off", "daq_off", "dnd_back", "fake_data", "power"},
             Go(mid, d, to), pc \in {"dnd_back", "links_off", "daq_off", "fake_data"},
             pc = "links_off" => ~conf.force, d.femb = dev.femb,
             to = "power" => d.fake = conf.fake, UNCHANGED <<board, conf>>
      PROVE  DoneInv'
  <2>1. CASE dev' = d /\ pc' = to /\ out' = out
    BY <1>1, <2>1, SamePowerDone DEF Before, AllOff
  <2>2. QED
    BY <1>1, <2>1, WritesDone
<1>2. CASE DndBack
  <2>1. Restored.femb = dev.femb
    BY BitFields DEF Bits, Restored
  <2>2. /\ pc = "dnd_back" /\ UNCHANGED <<board, conf>>
        /\ Go({}, Restored, IF conf.force THEN "fake_data" ELSE "links_off")
    BY <1>2 DEF DndBack, Writes
  <2>3. QED
    BY <1>1, <2>1, <2>2
<1>3. CASE LinksOff
  <2> DEFINE d == [dev EXCEPT !.link = @ \ Links]
             M == {[dev EXCEPT !.link = @ \ (1..k)] : k \in Links}
  <2>1. d.femb = dev.femb
    BY DEF Dev
  <2>2. pc = "links_off" /\ Go(M, d, "daq_off") /\ UNCHANGED <<board, conf>>
    BY <1>3 DEF LinksOff, Writes
  <2>3. ~conf.force
    BY <2>2 DEF Inv, PathInv
  <2> HIDE DEF d, M
  <2>4. QED
    BY <1>1, <2>1, <2>2, <2>3
<1>4. CASE DaqOff
  <2> DEFINE d == [dev EXCEPT !.daq = {}]
             M == {[dev EXCEPT !.daq = @ \ (1..k)] : k \in FEMB}
  <2>1. d.femb = dev.femb
    BY DEF Dev
  <2>2. /\ pc = "daq_off" /\ Go(M, d, IF conf.force THEN "dnd_back" ELSE "fake_data")
        /\ UNCHANGED <<board, conf>>
    BY <1>4 DEF DaqOff, Writes
  <2> HIDE DEF d, M
  <2>3. QED
    BY <1>1, <2>1, <2>2
<1>5. CASE FakeData
  <2>1. CASE Throw("error")
    BY <2>1, ThrowDone
  <2>2. CASE ~Throw("error")
    <3> DEFINE d == FakeUpTo(NumFemb)
               M == {RealUpTo(k) : k \in FEMB} \cup {FakeUpTo(k) : k \in FEMB}
    <3>1. d.femb = dev.femb /\ d.fake = conf.fake \cap (dev.fake \cup (1..NumFemb))
      BY FakeFields DEF FEMB
    <3>2. d.fake = conf.fake
      BY <3>1 DEF Dev, Conf, FEMB
    <3>3. pc = "fake_data" /\ Go(M, d, "power") /\ UNCHANGED <<board, conf>>
      BY <1>5, <2>2 DEF FakeData, Writes
    <3> HIDE DEF d, M
    <3>4. QED
      BY <1>1, <3>1, <3>2, <3>3
  <2>3. QED
    BY <2>1, <2>2
<1>6. CASE PowerOn
  <2> DEFINE d == PoweredUpTo(NumFemb)
             M == {PoweredUpTo(k) : k \in FEMB}
  <2>1. d.fake = dev.fake
    BY PoweredFields DEF FEMB
  <2>2. \A f \in FEMB : d.femb[f] = IF Enabled(f) /\ dev.femb[f] = "off" THEN "blank"
                                                                         ELSE dev.femb[f]
    BY DEF PoweredUpTo, Dev, FEMB
  <2>3. pc = "power" /\ Go(M, d, "setup") /\ UNCHANGED <<board, conf, i>>
    BY <1>6 DEF PowerOn, Writes
  <2>4. i = 1 /\ out = "none" /\ dev.fake = conf.fake
    BY <2>3 DEF Inv, IndexInv, DoneInv
  <2> HIDE DEF d, M
  <2>5. CASE dev' = d /\ pc' = "setup" /\ out' = out
    <3>1. \A f \in FEMB : Fresh(f)'
      BY <2>2, <2>3, <2>5 DEF DoneInv, Fresh, Before, AllOff, Loop, Enabled
    <3>2. \A f \in FEMB : FembsDone(f)'
      BY <2>3, <2>4, <2>5, <3>1 DEF FembsDone, FEMB
    <3>3. QED
      BY <2>1, <2>3, <2>4, <2>5, <3>2
         DEF DoneInv, Before, Loop, Starting, SettingsDone, ScrapDone
  <2>6. QED
    BY <2>3, <2>5, WritesDone
<1>7. QED
  BY <1>2, <1>3, <1>4, <1>5, <1>6

\* Within the loop every step leaves the FEMBs already set up as they are.
LEMMA LoopDone ==
  ASSUME Inv, DoneInv, pc \in Loop, pc' \in Loop, UNCHANGED <<board, conf, out>>,
         dev'.fake = dev.fake, \A f \in FEMB : FembsDone(f)',
         pc' \in {"config", "config_write"} => conf.kind[i'] \in {"word", "real", "dac63"}
  PROVE  DoneInv'
<1>1. out' = "none" /\ dev'.fake = conf'.fake
  BY DEF DoneInv, Loop
<1>2. QED
  BY <1>1 DEF DoneInv, Before, Loop, Starting, SettingsDone, ScrapDone

\* A step that leaves the FEMBs alone.
LEMMA SameFembDone ==
  ASSUME Inv, DoneInv, pc \in Loop, pc' \in Loop \ {"config_back"},
         pc # "config_back", UNCHANGED <<board, conf, i, out>>,
         dev'.femb = dev.femb, dev'.fake = dev.fake,
         pc' \in {"config", "config_write"} => conf.kind[i] \in {"word", "real", "dac63"}
  PROVE  DoneInv'
<1>1. ASSUME NEW f \in FEMB
      PROVE  FembsDone(f)'
  <2>1. FembsDone(f)
    BY DEF DoneInv
  <2>2. SetUp(f)' <=> SetUp(f)
    BY SetUpFrame
  <2>3. Fresh(f) => Fresh(f)'
    BY DEF Fresh, Loop, AllOff, Enabled
  <2>4. QED
    BY <2>1, <2>2, <2>3 DEF FembsDone
<1>2. QED
  BY <1>1, LoopDone

\* The loop goes on to the next FEMB once FEMB i, here k, is set up.
LEMMA NextFembDone ==
  ASSUME Inv, DoneInv, pc \in Loop, NEW k \in FEMB, i = k, NextFemb,
         dev'.fake = dev.fake, \A f \in FEMB \ {k} : dev'.femb[f] = dev.femb[f], SetUp(k)'
  PROVE  DoneInv'
<1>1. pc' = "setup" /\ i' = i + 1 /\ UNCHANGED <<board, conf, out>>
  BY DEF NextFemb
<1>2. ASSUME NEW f \in FEMB
      PROVE  FembsDone(f)'
  <2>1. FembsDone(f)
    BY DEF DoneInv
  <2>2. CASE f = k
    BY <1>1, <2>2 DEF FembsDone, FEMB
  <2>3. CASE f < i
    <3>1. f \in FEMB \ {k} /\ SetUp(f)
      BY <2>1, <2>3 DEF FembsDone, FEMB
    <3>2. SetUp(f)'
      BY <1>1, <3>1, SetUpFrame
    <3>3. QED
      BY <1>1, <2>3, <3>2 DEF FembsDone, FEMB
  <2>4. CASE f > i
    <3>1. f \in FEMB \ {k} /\ Fresh(f)
      BY <2>1, <2>4 DEF FembsDone, FEMB
    <3>2. dev'.femb[f] = dev.femb[f]
      BY <3>1
    <3>3. Fresh(f)'
      BY <1>1, <3>1, <3>2 DEF Fresh, Loop, AllOff, Enabled
    <3>4. QED
      BY <1>1, <2>4, <3>3 DEF FembsDone, FEMB
  <2>5. QED
    BY <2>2, <2>3, <2>4 DEF FEMB
<1>3. QED
  BY <1>1, <1>2, LoopDone DEF Loop

\* FEMB i is fresh until it is written.
LEMMA FreshFemb ==
  ASSUME Inv, DoneInv, pc \in Loop \ {"config_back"}, i \in FEMB
  PROVE  Fresh(i)
<1>1. FembsDone(i) /\ ~(i < i)
  BY DEF DoneInv, FEMB
<1>2. QED
  BY <1>1 DEF FembsDone

LEMMA SetupDone == Inv /\ DoneInv /\ (SkipFemb \/ Unreadable \/ SetupFemb \/ AllSetUp) => DoneInv'
<1> SUFFICES ASSUME Inv, DoneInv, SkipFemb \/ Unreadable \/ SetupFemb \/ AllSetUp
             PROVE  DoneInv'
  OBVIOUS
<1> USE InvFacts, FembAssumption
<1>0. pc = "setup" /\ pc \in Loop
  BY DEF SkipFemb, Unreadable, SetupFemb, AllSetUp, Loop
<1>1. CASE SkipFemb
  <2>1. /\ i \in FEMB /\ conf.kind[i] = "disabled"
        /\ NextFemb /\ UNCHANGED dev
    BY <1>1 DEF SkipFemb, Enabled
  <2>2. PICK k \in FEMB : i = k
    BY <2>1
  <2>3. conf.force => dev.femb[k] = "off"
    BY <1>0, <2>1, <2>2, FreshFemb DEF Fresh, Enabled
  <2>4. conf' = conf
    BY <2>1 DEF NextFemb
  <2>5. SetUp(k)
    BY <2>1, <2>2, <2>3 DEF SetUp
  <2>6. SetUp(k)'
    BY <2>1, <2>4, <2>5, SetUpFrame
  <2>7. QED
    BY <1>0, <2>1, <2>2, <2>6, NextFembDone
<1>2. CASE Unreadable
  <2> DEFINE d == Power(dev, i, "off")
  <2>1. i \in FEMB /\ conf.kind[i] \notin {"disabled", "range"}
    BY <1>2 DEF Unreadable
  <2>2. d.femb = [dev.femb EXCEPT ![i] = "off"] /\ d.fake = dev.fake
    BY <2>1, PowerFields DEF FembState
  <2>3. \/ Ends("error")
        \/ "read" \in conf.cont /\ dev' = d /\ NextFemb
    BY <1>2 DEF Unreadable
  <2> HIDE DEF d
  <2>4. CASE "read" \in conf.cont /\ dev' = d /\ NextFemb
    <3>0. PICK k \in FEMB : i = k
      BY <2>1
    <3>1. dev'.femb[k] = "off" /\ \A f \in FEMB \ {k} : dev'.femb[f] = dev.femb[f]
      BY <2>1, <2>2, <2>4, <3>0 DEF Dev
    <3>2. conf' = conf
      BY <2>4 DEF NextFemb
    <3>3. "off" \in IF "read" \in conf'.cont THEN {"off", "blank", "stale", "partial"} ELSE {}
      BY <2>4, <3>2
    <3>4. SetUp(k)'
      BY <2>1, <3>0, <3>1, <3>2, <3>3 DEF SetUp
    <3>5. QED
      BY <1>0, <2>2, <2>4, <3>0, <3>1, <3>4, NextFembDone
  <2>5. CASE Ends("error")
    BY <2>5, EndsDone DEF Ends
  <2>6. QED
    BY <2>3, <2>4, <2>5
<1>3. CASE SetupFemb
  <2>1. CASE Throw("error") \/ Throw("refused")
    BY <2>1, ThrowDone
  <2>2. CASE /\ conf.kind[i] \in {"word", "real", "dac63"} /\ pc' = "config"
             /\ UNCHANGED <<board, dev, wib, conf, saved, i, out>>
    BY <1>0, <2>2, SameFembDone DEF Loop
  <2>3. QED
    BY <1>3, <2>1, <2>2 DEF SetupFemb
<1>4. CASE AllSetUp
  <2>1. pc' = "stream" /\ i > NumFemb /\ UNCHANGED <<board, dev, conf, i, out>>
    BY <1>4 DEF AllSetUp
  <2>2. ASSUME NEW f \in FEMB
        PROVE  SetUp(f)'
    <3>1. f < i /\ FembsDone(f)
      BY <1>0, <2>1 DEF DoneInv, Inv, TypeOK, FEMB
    <3>2. SetUp(f)
      BY <3>1 DEF FembsDone
    <3>3. QED
      BY <2>1, <3>2, SetUpFrame
  <2>3. out' = "none" /\ dev'.fake = conf'.fake
    BY <1>0, <2>1 DEF DoneInv
  <2>4. QED
    BY <2>1, <2>2, <2>3 DEF DoneInv, Before, Loop, Starting, SettingsDone, ScrapDone
<1>5. QED
  BY <1>1, <1>2, <1>3, <1>4

\* What is written to FEMB i is what its kind asks for, or an error that is
\* tolerated.
LEMMA ConfigDone ==
  Inv /\ DoneInv /\ (ConfigFemb \/ GiveUpFemb \/ WriteFemb \/ ConfigBack) => DoneInv'
<1> SUFFICES ASSUME Inv, DoneInv, ConfigFemb \/ GiveUpFemb \/ WriteFemb \/ ConfigBack
             PROVE  DoneInv'
  OBVIOUS
<1> USE InvFacts, FembAssumption
<1>0. pc \in {"config", "config_write", "config_back"} /\ pc \in Loop /\ i \in FEMB
  <2>1. pc \in {"config", "config_write", "config_back"}
    BY DEF ConfigFemb, GiveUpFemb, WriteFemb, Written, ConfigBack
  <2>2. QED
    BY <2>1, LoopFacts DEF Loop
<1>1. CASE ConfigFemb
  <2> DEFINE d == On(dev, {"dnd"})
  <2>1. d.femb = dev.femb /\ d.fake = dev.fake
    BY BitFields DEF Bits
  <2>2. pc = "config" /\ Go({}, d, "config_write") /\ UNCHANGED <<board, conf, i>>
    BY <1>1 DEF ConfigFemb, SavingWrites
  <2>3. conf.kind[i] \in {"word", "real", "dac63"}
    BY <2>2 DEF DoneInv
  <2> HIDE DEF d
  <2>4. CASE dev' = d /\ pc' = "config_write" /\ out' = out
    BY <1>0, <2>1, <2>2, <2>3, <2>4, SameFembDone DEF Loop
  <2>5. QED
    BY <2>2, <2>4, WritesDone
<1>2. CASE GiveUpFemb
  <2>1. /\ pc = "config_write" /\ conf.kind[i] # "word" /\ "read" \in conf.cont
        /\ NextFemb /\ UNCHANGED dev
    BY <1>2 DEF GiveUpFemb
  <2>2. conf.kind[i] \in {"real", "dac63"} /\ Fresh(i)
    BY <1>0, <2>1, FreshFemb DEF DoneInv
  <2>3. dev.femb[i] \in IF "read" \in conf.cont THEN {"off", "blank", "stale", "partial"} ELSE {}
    BY <2>1, <2>2 DEF Fresh
  <2>4. PICK k \in FEMB : i = k
    BY <1>0
  <2>5. SetUp(k)
    BY <2>2, <2>3, <2>4 DEF SetUp
  <2>6. conf' = conf
    BY <2>1 DEF NextFemb
  <2>7. SetUp(k)'
    BY <2>1, <2>5, <2>6, SetUpFrame
  <2>8. QED
    BY <1>0, <2>1, <2>4, <2>7, NextFembDone
<1>3. CASE WriteFemb
  <2>1. ASSUME NEW s \in {"fake", "ready", "degraded"}, Written(s),
               \/ conf.kind[i] = "word" /\ s = "fake"
               \/ conf.kind[i] = "real" /\ s = "ready"
               \/ conf.kind[i] = "real" /\ Tolerated /\ s = "degraded"
        PROVE  DoneInv'
    <3> DEFINE a == Power(dev, i, "partial")
               d == Power(dev, i, s)
    <3>0. s \in FembState
      BY <2>1 DEF FembState
    <3>1. d.femb = [dev.femb EXCEPT ![i] = s] /\ d.fake = dev.fake
      BY <1>0, <3>0, PowerFields
    <3>2. pc = "config_write" /\ Go({a}, d, "config_back") /\ UNCHANGED <<board, conf, i>>
      BY <1>3, <2>1 DEF WriteFemb, Written, Writes
    <3> HIDE DEF a, d
    <3>3. CASE dev' = d /\ pc' = "config_back" /\ out' = out
      <4>1. dev'.femb[i] = s /\ \A f \in FEMB \ {i} : dev'.femb[f] = dev.femb[f]
        BY <1>0, <3>1, <3>3 DEF Dev
      <4>2. SetUp(i)'
        BY <2>1, <3>2, <4>1 DEF SetUp, Tolerated
      <4>3. ASSUME NEW f \in FEMB
            PROVE  FembsDone(f)'
        <5>1. CASE f = i
          BY <3>3, <3>2, <4>2, <5>1 DEF FembsDone
        <5>2. CASE f # i
          <6>1. f \in FEMB \ {i} /\ FembsDone(f)
            BY <1>0, <5>2 DEF DoneInv
          <6>2. SetUp(f)' <=> SetUp(f)
            BY <3>2, <4>1, <6>1, SetUpFrame
          <6>3. dev'.femb[f] = dev.femb[f]
            BY <4>1, <6>1
          <6>4. Fresh(f) => Fresh(f)'
            BY <1>0, <3>2, <3>3, <6>3 DEF Fresh, Loop, AllOff, Enabled
          <6>5. QED
            BY <3>2, <5>2, <6>1, <6>2, <6>4 DEF FembsDone
        <5>3. QED
          BY <5>1, <5>2
      <4>4. QED
        BY <1>0, <3>1, <3>2, <3>3, <4>3, LoopDone DEF Loop
    <3>4. QED
      BY <3>2, <3>3, WritesDone
  <2>2. CASE Ends("refused")
    BY <2>2, EndsDone DEF Ends
  <2>3. QED
    BY <1>3, <2>1, <2>2 DEF WriteFemb
<1>4. CASE ConfigBack
  <2>1. Restored.femb = dev.femb /\ Restored.fake = dev.fake
    BY BitFields DEF Bits, Restored
  <2>2. (pc = "config_back" /\ dev' = Restored /\ NextFemb) \/ Ends("error")
    BY <1>4 DEF ConfigBack
  <2>3. CASE pc = "config_back" /\ dev' = Restored /\ NextFemb
    <3>1. FembsDone(i)
      BY <1>0 DEF DoneInv
    <3>2. PICK k \in FEMB : i = k
      BY <1>0
    <3>3. SetUp(k)
      BY <2>3, <3>1, <3>2 DEF FembsDone
    <3>4. conf' = conf
      BY <2>3 DEF NextFemb
    <3>5. SetUp(k)'
      BY <2>1, <2>3, <3>3, <3>4, SetUpFrame
    <3>6. QED
      BY <1>0, <2>1, <2>3, <3>2, <3>5, NextFembDone
  <2>4. CASE Ends("error")
    BY <2>4, EndsDone DEF Ends
  <2>5. QED
    BY <2>2, <2>3, <2>4
<1>5. QED
  BY <1>1, <1>2, <1>3, <1>4

\* Starting the stream leaves FEMBs and fake sources alone.
LEMMA StartingDone ==
  ASSUME DoneInv, pc \in Starting, pc' \in Starting \ {"stream"}, UNCHANGED <<board, conf, out>>,
         dev'.femb = dev.femb, dev'.fake = dev.fake,
         pc' \in {"sync", "stream_back", "dnd_off"} => LinksUp',
         pc' \in {"stream_back", "dnd_off"} => Streaming'
  PROVE  DoneInv'
<1>1. out' = "none" /\ dev'.fake = conf'.fake
  BY DEF DoneInv, Starting
<1>2. \A f \in FEMB : SetUp(f)'
  BY SetUpFrame DEF DoneInv
<1>3. QED
  BY <1>1, <1>2 DEF DoneInv, Before, Loop, Starting, SettingsDone, ScrapDone

LEMMA StreamDone ==
  Inv /\ DoneInv /\ (Stream \/ LinksOn \/ Sync \/ StreamBack \/ DndOff) => DoneInv'
<1> SUFFICES ASSUME Inv, DoneInv, Stream \/ LinksOn \/ Sync \/ StreamBack \/ DndOff
             PROVE  DoneInv'
  OBVIOUS
<1> USE InvFacts
<1>0. \A B \in {{"dnd"}, {"halt"}, {"convert"}, {"dts_cmds"}} : B \in SUBSET Bits
  BY DEF Bits
<1>1. CASE Stream
  <2> DEFINE g == Halted(dev)
             d == On(g, {"dnd"})
             M == {On(dev, {"halt"}), g}
  <2>1. g \in Dev /\ g.femb = dev.femb /\ g.fake = dev.fake
    BY HaltFields
  <2>2. pc = "stream" /\ Go(M, d, "links_on") /\ UNCHANGED <<board, conf>>
    BY <1>1 DEF Stream, SavingWrites
  <2> HIDE DEF g, M
  <2>3. d.femb = dev.femb /\ d.fake = dev.fake
    BY <1>0, <2>1, BitFields
  <2> HIDE DEF d
  <2>4. CASE dev' = d /\ pc' = "links_on" /\ out' = out
    BY <2>2, <2>3, <2>4, StartingDone DEF Starting
  <2>5. QED
    BY <2>2, <2>4, WritesDone
<1>2. CASE LinksOn
  <2> DEFINE d == [dev EXCEPT !.link = @ \cup StreamLinks]
             M == {[dev EXCEPT !.link = @ \cup (StreamLinks \cap (1..k))] : k \in Links}
  <2>1. d.femb = dev.femb /\ d.fake = dev.fake /\ d.link = dev.link \cup StreamLinks
    BY DEF Dev
  <2>2. pc = "links_on" /\ Go(M, d, "sync") /\ UNCHANGED <<board, conf>>
    BY <1>2 DEF LinksOn, Writes
  <2>3. ~conf.force => dev.link = {}
    BY <2>2 DEF Inv, PathInv, DataPathDown, Configuring
  <2> HIDE DEF d, M
  <2>4. CASE dev' = d /\ pc' = "sync" /\ out' = out
    <3>1. LinksUp'
      BY <2>1, <2>2, <2>3, <2>4 DEF LinksUp, StreamLinks
    <3>2. QED
      BY <2>1, <2>2, <2>4, <3>1, StartingDone DEF Starting
  <2>5. QED
    BY <2>2, <2>4, WritesDone
<1>3. CASE Sync
  <2> DEFINE a == [dev EXCEPT !.daq = FEMB]
             d == On(a, {"dts_cmds"})
             g == Off(d, {"halt"})
             h == On(g, {"convert"})
             M == {[dev EXCEPT !.daq = @ \cup (1..k)] : k \in FEMB} \cup {d, g}
  <2>1. /\ a \in Dev /\ a.femb = dev.femb /\ a.fake = dev.fake /\ a.link = dev.link
        /\ a.daq = FEMB
    BY DaqField
  <2>2. pc = "sync" /\ Go(M, h, "stream_back") /\ UNCHANGED <<board, conf>>
    BY <1>3 DEF Sync, Writes
  <2> HIDE DEF a, M
  <2>3. /\ d \in Dev /\ d.femb = dev.femb /\ d.fake = dev.fake /\ d.link = dev.link
        /\ d.daq = FEMB /\ "dts_cmds" \in d.bits
    BY <1>0, <2>1, BitFields
  <2> HIDE DEF d
  <2>4. /\ g \in Dev /\ g.femb = dev.femb /\ g.fake = dev.fake /\ g.link = dev.link
        /\ g.daq = FEMB /\ g.bits = d.bits \ {"halt"}
    BY <1>0, <2>3, BitFields
  <2> HIDE DEF g
  <2>5. /\ h.femb = dev.femb /\ h.fake = dev.fake /\ h.link = dev.link
        /\ h.daq = FEMB /\ h.bits = g.bits \cup {"convert"}
    BY <1>0, <2>4, BitFields
  <2> HIDE DEF h
  <2>6. LinksUp
    BY <2>2 DEF DoneInv
  <2>7. CASE dev' = h /\ pc' = "stream_back" /\ out' = out
    <3>1. LinksUp'
      BY <2>2, <2>5, <2>6, <2>7 DEF LinksUp, StreamLinks
    <3>2. Streaming'
      BY <2>3, <2>4, <2>5, <2>7 DEF Streaming
    <3>3. QED
      BY <2>2, <2>5, <2>7, <3>1, <3>2, StartingDone DEF Starting
  <2>8. QED
    BY <2>2, <2>7, WritesDone
<1>4. CASE StreamBack
  <2> DEFINE d == Restored
  <2>1. /\ d.femb = dev.femb /\ d.fake = dev.fake /\ d.link = dev.link /\ d.daq = dev.daq
        /\ d.bits \ {"dnd"} = dev.bits \ {"dnd"}
    BY <1>0, BitFields DEF Restored
  <2>2. pc = "stream_back" /\ Go({}, d, "dnd_off") /\ UNCHANGED <<board, conf>>
    BY <1>4 DEF StreamBack, Writes
  <2>3. LinksUp /\ Streaming
    BY <2>2 DEF DoneInv
  <2> HIDE DEF d
  <2>4. CASE dev' = d /\ pc' = "dnd_off" /\ out' = out
    <3>1. LinksUp' /\ Streaming'
      BY <2>1, <2>2, <2>3, <2>4 DEF LinksUp, Streaming, StreamLinks
    <3>2. QED
      BY <2>1, <2>2, <2>4, <3>1, StartingDone DEF Starting
  <2>5. QED
    BY <2>2, <2>4, WritesDone
<1>5. CASE DndOff
  <2> DEFINE d == Off(dev, {"dnd"})
  <2>1. /\ d.femb = dev.femb /\ d.fake = dev.fake /\ d.link = dev.link /\ d.daq = dev.daq
        /\ d.bits = dev.bits \ {"dnd"}
    BY <1>0, BitFields
  <2>2. /\ pc = "dnd_off" /\ UNCHANGED <<board, conf>> /\ pc' = "idle"
        /\ (dev' = d /\ out' = "configured") \/ out' = "error"
    BY <1>5 DEF DndOff, Ends
  <2>3. /\ LinksUp /\ Streaming /\ dev.fake = conf.fake
        /\ \A f \in FEMB : SetUp(f)
    BY <2>2 DEF DoneInv, Starting
  <2> HIDE DEF d
  <2>4. CASE dev' = d /\ out' = "configured"
    <3>1. LinksUp' /\ Streaming' /\ dev'.fake = conf'.fake
      BY <2>1, <2>2, <2>3, <2>4 DEF LinksUp, Streaming, StreamLinks
    <3>2. \A f \in FEMB : SetUp(f)'
      BY <2>1, <2>2, <2>3, <2>4, SetUpFrame
    <3>3. dev'.bits \cap {"dnd", "halt"} = {}
      BY <2>1, <2>3, <2>4 DEF Streaming
    <3>4. SettingsDone'
      BY <3>1, <3>2, <3>3 DEF SettingsDone, LinksUp, Streaming
    <3>5. QED
      BY <2>2, <2>4, <3>4 DEF DoneInv, Before, Loop, Starting, ScrapDone
  <2>5. QED
    BY <2>2, <2>4, EndsDone
<1>6. QED
  BY <1>1, <1>2, <1>3, <1>4, <1>5

\* do_scrap: the try that is not stopped clears both links, all a FELIX board has.
LEMMA ScrappedDone == Inv /\ DoneInv /\ (ScrapTry \/ Scrapped \/ Crash) => DoneInv'
<1> SUFFICES ASSUME Inv, DoneInv, ScrapTry \/ Scrapped \/ Crash PROVE DoneInv'
  OBVIOUS
<1> USE InvFacts
<1>1. CASE ScrapTry
  <2> DEFINE a == On(dev, {"dnd"})
             b == [a EXCEPT !.link = @ \ {1}]
             c == [b EXCEPT !.link = @ \ {2}]
  <2>1. c.link = (dev.link \ {1}) \ {2}
    <3>1. a \in Dev /\ a.link = dev.link
      BY BitFields DEF Bits
    <3> HIDE DEF a
    <3>2. b \in Dev /\ b.link = a.link \ {1}
      BY <3>1, LinkField
    <3> HIDE DEF b
    <3>3. c.link = b.link \ {2}
      BY <3>2, LinkField
    <3>4. QED
      BY <3>1, <3>2, <3>3
  <2>2. LinksOffPath[3] = c
    BY DEF LinksOffPath
  <2> HIDE DEF c
  <2>3. /\ pc = "scrap" /\ UNCHANGED <<board, wib, conf>>
        /\ \/ dev' = c /\ pc' = "scrapped" /\ out' = out
           \/ pc' = "scrap" /\ out' = out
           \/ pc' = "scrapped" /\ out' = "warned"
           \/ pc' = "idle" /\ out' = "error"
    BY <1>1, <2>2 DEF ScrapTry, Ends
  <2>4. out = "none"
    BY <2>3 DEF DoneInv
  <2>5. board.mode = "FELIX" => c.link = {}
    BY <2>1 DEF Links
  <2>6. QED
    BY <2>3, <2>4, <2>5, EndsDone
       DEF DoneInv, Before, Loop, Starting, SettingsDone, ScrapDone
<1>2. CASE Scrapped
  <2>1. Off(dev, {"dnd"}).link = dev.link
    BY BitFields DEF Bits
  <2>2. /\ pc = "scrapped" /\ dev'.link = dev.link /\ wib' = "null" /\ pc' = "idle"
        /\ out' = IF out = "warned" THEN "warned" ELSE "scrapped"
        /\ UNCHANGED board
    BY <1>2, <2>1 DEF Scrapped, Ends
  <2>3. out = "none" /\ board.mode = "FELIX" => dev.link = {}
    BY <2>2 DEF DoneInv
  <2>4. out \in {"none", "warned"}
    BY <2>2 DEF DoneInv
  <2>5. QED
    BY <2>2, <2>3, <2>4 DEF DoneInv, Before, Loop, Starting, SettingsDone, ScrapDone
<1>3. CASE Crash
  BY <1>3, EndsDone DEF Crash, Ends
<1>4. QED
  BY <1>1, <1>2, <1>3
-----------------------------------------------------------------------------
\* DoneInv is inductive relative to Inv.
LEMMA NextDone == Inv /\ DoneInv /\ [Next]_vars => DoneInv'
<1>1. Inv /\ DoneInv /\ Next => DoneInv'
  BY CommandDone, CheckDone, ResetDone, ClockDone, PathsDone, SetupDone, ConfigDone,
     StreamDone, ScrappedDone
     DEF Next, Step, Reset, Clock, Paths, Fembs, Start
<1>2. DoneInv /\ UNCHANGED vars => DoneInv'
  <2> SUFFICES ASSUME DoneInv, UNCHANGED vars PROVE DoneInv'
    OBVIOUS
  <2>1. UNCHANGED <<board, dev, wib, pc, conf, i, out>>
    BY DEF vars
  <2>2. \A f \in FEMB : SetUp(f)' <=> SetUp(f)
    BY <2>1, SetUpFrame
  <2>3. \A f \in FEMB : Fresh(f)' <=> Fresh(f)
    BY <2>1 DEF Fresh, Enabled
  <2>4. \A f \in FEMB : FembsDone(f) => FembsDone(f)'
    BY <2>1, <2>2, <2>3 DEF FembsDone
  <2>5. (LinksUp => LinksUp') /\ (Streaming => Streaming') /\ (ScrapDone => ScrapDone')
    BY <2>1 DEF LinksUp, Streaming, StreamLinks, ScrapDone
  <2>6. SettingsDone => SettingsDone'
    BY <2>1, <2>2 DEF SettingsDone, StreamLinks, Enabled
  <2>7. QED
    BY <2>1, <2>2, <2>3, <2>4, <2>5, <2>6 DEF DoneInv
<1>3. QED
  BY <1>1, <1>2

\* Every command is as far as its step says.
THEOREM DoneHolds == Spec => []DoneInv
<1>1. Init => DoneInv
  BY DEF Init, DoneInv, Before, Loop, Starting, SettingsDone, ScrapDone
<1>2. QED
  BY <1>1, NextDone, InvHolds, PTL DEF Spec

\* A settings command that reports success has done what its settings say: each
\* FEMB is configured by this command, or its failure is one the settings
\* tolerate, and is read out; the fake sources and the links are those asked for,
\* and the converts are released.
THEOREM SettingsAreDone == Spec => []SettingsDone
<1>1. DoneInv => SettingsDone
  BY DEF DoneInv
<1>2. QED
  BY <1>1, DoneHolds, PTL

\* do_scrap reports success only with both links of a FELIX board disabled, and
\* drops the WIB whether it warns or not.
THEOREM ScrapIsDone == Spec => []ScrapDone
<1>1. DoneInv => ScrapDone
  BY DEF DoneInv
<1>2. QED
  BY <1>1, DoneHolds, PTL
=============================================================================
