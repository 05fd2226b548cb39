------------------------------ MODULE FembPhase ------------------------------
(***************************************************************************)
(* The search of ConfigFEMB (src/WIB1/WIB_FEMB.cpp) for clock phases at     *)
(* which the ADCs of a FEMB synchronise: TryFEMBPhases goes through the     *)
(* list of the settings, HuntFEMBPhase then changes the phase of each ASIC  *)
(* that does not synchronise, WriteFEMBPhase writes a phase and reads it    *)
(* back.  ProtoWib sees the outcome only: synchronised, tolerated or error. *)
(*                                                                         *)
(* A phase is two bytes with one bit for each ASIC.  A byte is the set of   *)
(* ASICs whose bit is 1.                                                    *)
(***************************************************************************)
EXTENDS Naturals, Sequences

CONSTANTS NumAsic,     \* ASICs of a FEMB, 8 in the code
          PhaseTries,  \* tries of each loop of WriteFEMBPhase, 10 in the code
          Lists        \* the lists of clock phases settings may give

Asic  == 1..NumAsic
Byte  == SUBSET Asic
Phase == [d0 : Byte, d1 : Byte]
\* 0xFFFF, tried when the list is empty.
AllOnes == [d0 |-> Asic, d1 |-> Asic]

ASSUME AsicAssumption   == NumAsic \in Nat \ {0}
ASSUME TriesAssumption  == PhaseTries \in Nat \ {0}
ASSUME ListsAssumption  == Lists \subseteq Seq(Phase)

VARIABLES faults,    \* "write": the FEMB may ignore a write the WIB has acknowledged,
                     \* "status": its ADCs gain and lose synchronisation by themselves
          regs,      \* the phase in registers 6 and 15 of the FEMB
          good,      \* the positions of its two bits at which an ASIC synchronises
          phases,    \* clk_phases
          tolerate,  \* continue_if_close_phases_dont_sync, continue_on_femb_sync_error
          pc,
          hunting,   \* HuntFEMBPhase runs
          ip,        \* the phase of the list TryFEMBPhases is at
          clk,       \* clk_phase_data0 and 1: the phase that is written
          loop,      \* the loop of WriteFEMBPhase
          count,     \* its tries
          unread,    \* loops that gave up without the right value read back
          a_cnt,     \* how often the phase of each ASIC has been changed
          out

board == <<faults, good, phases, tolerate>>
vars  == <<faults, regs, good, phases, tolerate, pc, hunting, ip, clk, loop, count, unread,
           a_cnt, out>>

\* ConfigFEMB puts a phase into an empty list.
Init == /\ faults \in SUBSET {"write", "status"}
        /\ regs \in Phase
        /\ good \in IF "status" \in faults THEN {[a \in Asic |-> {}]}
                                            ELSE [Asic -> SUBSET (0..3)]
        /\ phases \in {IF l = <<>> THEN <<AllOnes>> ELSE l : l \in Lists}
        /\ tolerate \in SUBSET {"list", "sync"}
        /\ pc = "try"
        /\ hunting = FALSE
        /\ ip = 1
        /\ clk = phases[1]
        /\ loop = 1
        /\ count = 0
        /\ unread = {}
        /\ a_cnt = [a \in Asic |-> 0]
        /\ out = "none"
-----------------------------------------------------------------------------
\* The position of the two bits of an ASIC.
At(p, a) == (IF a \in p.d0 THEN 2 ELSE 0) + (IF a \in p.d1 THEN 1 ELSE 0)

\* The ASICs that do not synchronise at a phase, and the status bits the FEMB
\* may show in the upper half of register 6.  The code reads them twice and
\* uses the second.
OutOfSync(p) == {a \in Asic : At(p, a) \notin good[a]}
Status       == IF "status" \in faults THEN SUBSET Asic ELSE {OutOfSync(regs)}

Synced     == pc' = "done" /\ out' = "synced"
\* Without the tolerances ConfigFEMB throws FEMB_ADC_SYNC_ERROR.
NotSynced  == pc' = "done" /\ out' = IF {"list", "sync"} \subseteq tolerate
                                     THEN "degraded" ELSE "error"

\* WriteFEMBPhase(p) is called.
Write(p) == /\ pc' = "write"
            /\ clk' = p
            /\ loop' = 1
            /\ count' = 0
            /\ unread' = {}

TryPhase == /\ pc = "try"
            /\ ip <= Len(phases)
            /\ Write(phases[ip])
            /\ UNCHANGED <<board, regs, hunting, ip, a_cnt, out>>

\* No phase of the list does: hunt, from the first phase of the list.
ListFails == /\ pc = "try"
             /\ ip > Len(phases)
             /\ IF "list" \in tolerate
                THEN /\ hunting' = TRUE
                     /\ pc' = "sync"
                     /\ clk' = phases[1]
                     /\ UNCHANGED out
                ELSE NotSynced /\ UNCHANGED <<hunting, clk>>
             /\ UNCHANGED <<board, regs, ip, loop, count, unread, a_cnt>>

\* The loops write the complement of each byte, then the byte.  The last one
\* writes register 15 and reads back register 6.
ReadBack  == IF loop = 2 THEN "d1" ELSE "d0"
Register  == IF loop \in {1, 3} THEN "d0" ELSE "d1"
Data      == IF loop <= 2 THEN Asic \ clk[Register] ELSE clk[Register]
Proceed   == IF loop = 4 THEN pc' = "sync" /\ UNCHANGED loop
                         ELSE loop' = loop + 1 /\ UNCHANGED pc

WriteOnce ==
  /\ pc = "write"
  /\ \/ regs' = [regs EXCEPT ![Register] = Data]
     \/ "write" \in faults /\ UNCHANGED regs
  /\ IF regs'[ReadBack] = Data
     THEN Proceed /\ count' = 0 /\ UNCHANGED unread
     ELSE IF count + 1 < PhaseTries
     THEN count' = count + 1 /\ UNCHANGED <<pc, loop, unread>>
     ELSE Proceed /\ count' = 0 /\ unread' = unread \cup {loop}
  /\ UNCHANGED <<board, hunting, ip, clk, a_cnt, out>>

TrySync == /\ pc = "sync"
           /\ ~hunting
           /\ \E s \in Status :
                IF s = {} THEN Synced /\ UNCHANGED ip
                          ELSE pc' = "try" /\ ip' = ip + 1 /\ UNCHANGED out
           /\ UNCHANGED <<board, regs, hunting, clk, loop, count, unread, a_cnt>>

\* The bits of the ASICs of s are changed: the first time and the third in
\* clk_phase_data0, the second and the fourth in clk_phase_data1.
Flip(byte, S) == (byte \ S) \cup (S \ byte)
Changed(s, cnt) == [d0 |-> Flip(clk.d0, {a \in s : cnt[a] \in {1, 3}}),
                    d1 |-> Flip(clk.d1, {a \in s : cnt[a] \in {2, 4}})]
GivesUpEarly(s, cnt) == \E a \in s : cnt[a] >= 4
GivesUpLate(s, cnt)  == \E a \in s : cnt[a] >= 6
GivesUp(s, cnt)      == \E a \in s : cnt[a] >= 5
NotCounted(s) == a_cnt
Counted(s)    == [a \in Asic |-> IF a \in s THEN a_cnt[a] + 1 ELSE a_cnt[a]]

HuntSync ==
  /\ pc = "sync"
  /\ hunting
  /\ \E s \in Status :
       \/ /\ s = {}
          /\ Synced
          /\ UNCHANGED <<clk, loop, count, unread, a_cnt>>
       \/ /\ s # {}
          /\ a_cnt' = Counted(s)
          /\ IF GivesUp(s, Counted(s))
             THEN NotSynced /\ UNCHANGED <<clk, loop, count, unread>>
             ELSE Write(Changed(s, Counted(s))) /\ UNCHANGED out
  /\ UNCHANGED <<board, regs, hunting, ip>>

\* ConfigFEMB has returned or thrown.
Done == pc = "done" /\ UNCHANGED vars

Next == TryPhase \/ ListFails \/ WriteOnce \/ TrySync \/ HuntSync \/ Done

Spec     == Init /\ [][Next]_vars
\* One thread runs the search to its end.
FairSpec == Spec /\ WF_vars(Next)
-----------------------------------------------------------------------------
TypeOK == /\ faults \in SUBSET {"write", "status"}
          /\ regs \in Phase
          /\ good \in [Asic -> SUBSET (0..3)]
          /\ phases \in Seq(Phase) /\ Len(phases) >= 1
          /\ tolerate \in SUBSET {"list", "sync"}
          /\ pc \in {"try", "write", "sync", "done"}
          /\ hunting \in BOOLEAN
          /\ ip \in 1..(Len(phases) + 1)
          /\ pc \in {"write", "sync"} /\ ~hunting => ip <= Len(phases)
          /\ clk \in Phase
          /\ loop \in 1..4
          /\ count \in 0..(PhaseTries - 1)
          /\ unread \in SUBSET (1..4)
          /\ a_cnt \in [Asic -> 0..5]
          /\ pc # "done" => a_cnt \in [Asic -> 0..4]
          /\ out \in {"none", "synced", "degraded", "error"}

\* On a FEMB that takes every write and whose ADCs keep to their phases, the first
\* phase of the list that works is the one used, and TryFEMBPhases and ConfigFEMB
\* go on to hunt, or fail, only when none does.
FirstThatWorks == faults = {} =>
  /\ \A k \in 1..(ip - 1) : OutOfSync(phases[k]) # {}
  /\ hunting \/ out \in {"degraded", "error"} => ip = Len(phases) + 1

\* On such a FEMB the hunt gives up only if some ASIC synchronises at none of its
\* four positions, although HuntFEMBPhase starts to count with the last phase of
\* the list on the board and the first one in its hands.
HuntFinds == faults = {} =>
  (hunting /\ out \in {"degraded", "error"} => \E a \in Asic : good[a] = {})

\* On such a FEMB success is true: every ASIC synchronises at the phase left in
\* the registers, and that phase is the one printed as found.
SyncedForReal == faults = {} =>
  (out = "synced" => regs = clk /\ OutOfSync(regs) = {})

\* Whatever the FEMB does, a FEMB that is not synchronised is let through only if
\* the settings tolerate both that the list and that the hunt fail.
ToleratedOnly == /\ out = "degraded" => hunting /\ {"list", "sync"} \subseteq tolerate
                 /\ out = "error" => ~({"list", "sync"} \subseteq tolerate)

\* On such a FEMB a loop of WriteFEMBPhase gives up, for want of the value it wrote,
\* only because the last one reads back the wrong register: never for a phase whose
\* two bytes are the same, and never before the last.
OnlyLastUnread == faults = {} => /\ unread \subseteq {4}
                                 /\ pc # "write" /\ unread # {} => regs.d0 # regs.d1

\* Whatever the FEMB does, the search ends.
SearchEnds == <>(pc = "done")
=============================================================================
