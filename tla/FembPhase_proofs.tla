--------------------------- MODULE FembPhase_proofs ---------------------------
(***************************************************************************)
(* The phase search of FembPhase for any number of ASICs, any list of      *)
(* phases and any number of tries.  The core is Tried: the changes the hunt *)
(* makes to the phase of an ASIC lead through all four positions of its two *)
(* bits, each is given up only after the ASIC was seen out of sync there,   *)
(* and the phase that is looked at is the one that was last written.        *)
(***************************************************************************)
EXTENDS FembPhase, TLAPS

\* The position of ASIC a after n changes to the first phase of the list.
Turned(a, n) == (IF (a \in phases[1].d0) # (n \in {1, 2}) THEN 2 ELSE 0)
                + (IF (a \in phases[1].d1) # (n \in {2, 3}) THEN 1 ELSE 0)

\* Where the control is.
Control == /\ pc # "done" <=> out = "none"
           /\ hunting => pc # "try"
           /\ hunting \/ out \in {"degraded", "error"} => ip = Len(phases) + 1
           /\ ~hunting => \A a \in Asic : a_cnt[a] = 0
           /\ ~hunting /\ pc \in {"write", "sync"} => clk = phases[ip]
           /\ hunting /\ pc = "write" => \E a \in Asic : a_cnt[a] # 0
           /\ hunting /\ out \in {"degraded", "error"} => \E a \in Asic : a_cnt[a] = 5

\* What is on the board when the FEMB takes every write.
Written == faults = {} =>
             /\ pc = "write" /\ loop = 4 => regs.d0 = clk.d0
             /\ pc = "sync" /\ (~hunting \/ \E a \in Asic : a_cnt[a] # 0) => regs = clk

\* What is known not to synchronise.
Known == faults = {} =>
           /\ \A k \in 1..(ip - 1) : OutOfSync(phases[k]) # {}
           /\ pc = "try" /\ ip > 1 => OutOfSync(regs) # {}
           /\ pc = "sync" /\ hunting /\ (\A a \in Asic : a_cnt[a] = 0) =>
                OutOfSync(regs) # {}

\* The hunt: where the changes have led each ASIC, and where it was out of sync.
Tried == /\ pc # "done" /\ hunting => \A a \in Asic :
              /\ (a \in clk.d0) <=> ((a \in phases[1].d0) # (a_cnt[a] \in {1, 2}))
              /\ (a \in clk.d1) <=> ((a \in phases[1].d1) # (a_cnt[a] \in {2, 3}))
         /\ faults = {} /\ hunting =>
              \A a \in Asic : \A n \in 1..(a_cnt[a] - 1) : Turned(a, n) \notin good[a]

Inv == TypeOK /\ Control /\ Written /\ Known /\ Tried /\ SyncedForReal /\ ToleratedOnly
-----------------------------------------------------------------------------
(* Operators                                                               *)

LEMMA OutOfSyncIsByte == ASSUME NEW p PROVE OutOfSync(p) \subseteq Asic
  BY DEF OutOfSync

LEMMA ChangedIsPhase ==
  ASSUME TypeOK, NEW s \in SUBSET Asic, NEW cnt PROVE Changed(s, cnt) \in Phase
  BY DEF TypeOK, Changed, Flip, Phase, Byte

LEMMA StatusIsByte == ASSUME NEW s \in Status PROVE s \subseteq Asic
  BY OutOfSyncIsByte DEF Status

LEMMA CountedType ==
  ASSUME TypeOK, pc # "done", NEW s \in SUBSET Asic
  PROVE  /\ Counted(s) \in [Asic -> 0..5]
         /\ ~GivesUp(s, Counted(s)) => Counted(s) \in [Asic -> 0..4]
  BY DEF TypeOK, Counted, GivesUp

\* The four changes go through all positions, so an ASIC that is out of sync at
\* each of them synchronises nowhere.
LEMMA FourPositions ==
  ASSUME NEW a \in Asic, good \in [Asic -> SUBSET (0..3)],
         \A n \in 1..4 : Turned(a, n) \notin good[a]
  PROVE  good[a] = {}
<1>1. good[a] \subseteq 0..3
  OBVIOUS
<1>2. /\ Turned(a, 1) \notin good[a] /\ Turned(a, 2) \notin good[a]
      /\ Turned(a, 3) \notin good[a] /\ Turned(a, 4) \notin good[a]
  OBVIOUS
<1>3. \A x \in 0..3 : x \in {Turned(a, 1), Turned(a, 2), Turned(a, 3), Turned(a, 4)}
  <2>1. CASE a \in phases[1].d0 /\ a \in phases[1].d1
    BY <2>1 DEF Turned
  <2>2. CASE a \in phases[1].d0 /\ a \notin phases[1].d1
    BY <2>2 DEF Turned
  <2>3. CASE a \notin phases[1].d0 /\ a \in phases[1].d1
    BY <2>3 DEF Turned
  <2>4. CASE a \notin phases[1].d0 /\ a \notin phases[1].d1
    BY <2>4 DEF Turned
  <2> QED
    BY <2>1, <2>2, <2>3, <2>4
<1> QED
  BY <1>1, <1>2, <1>3
-----------------------------------------------------------------------------
(* The initial states                                                      *)

LEMMA InitInv == Init => Inv
<1> SUFFICES ASSUME Init PROVE Inv
  OBVIOUS
<1>1. phases \in Seq(Phase) /\ Len(phases) >= 1
  <2>1. PICK l \in Lists : phases = IF l = <<>> THEN <<AllOnes>> ELSE l
    BY DEF Init
  <2>2. AllOnes \in Phase
    BY DEF AllOnes, Phase, Byte
  <2>3. l \in Seq(Phase)
    BY ListsAssumption
  <2>4. CASE l = <<>>
    BY <2>1, <2>2, <2>4
  <2>5. CASE l # <<>>
    BY <2>1, <2>3, <2>5
  <2> QED
    BY <2>4, <2>5
<1>2. phases[1] \in Phase
  BY <1>1
<1>3. good \in [Asic -> SUBSET (0..3)]
  BY DEF Init
<1>4. TypeOK
  <2>1. a_cnt \in [Asic -> 0..4] /\ a_cnt \in [Asic -> 0..5]
    BY DEF Init
  <2>2. count \in 0..(PhaseTries - 1) /\ loop \in 1..4 /\ unread \in SUBSET (1..4)
    BY TriesAssumption DEF Init
  <2>3. ip \in 1..(Len(phases) + 1) /\ ip <= Len(phases)
    BY <1>1 DEF Init
  <2>4. clk \in Phase /\ regs \in Phase
    BY <1>2 DEF Init
  <2> QED
    BY <1>1, <1>3, <2>1, <2>2, <2>3, <2>4 DEF Init, TypeOK
<1>5. Control /\ Written /\ Known /\ Tried /\ SyncedForReal /\ ToleratedOnly
  BY DEF Init, Control, Written, Known, Tried, SyncedForReal, ToleratedOnly
<1> QED
  BY <1>4, <1>5 DEF Inv
-----------------------------------------------------------------------------
(* One lemma for each action                                               *)

LEMMA TryPhaseInv == ASSUME Inv, TryPhase PROVE Inv'
<1> USE DEF Inv, TryPhase, Write, board
<1>1. phases[ip] \in Phase
  BY DEF TypeOK
<1>2. ~hunting
  BY DEF Control
<1>3. TypeOK'
  BY <1>1, <1>2, TriesAssumption DEF TypeOK
<1>4. Control'
  BY <1>2 DEF Control
<1>5. Written' /\ Tried' /\ SyncedForReal' /\ ToleratedOnly'
  BY <1>2 DEF Written, Tried, SyncedForReal, ToleratedOnly, Control
<1>6. Known'
  BY <1>2 DEF Known, OutOfSync, At
<1> QED
  BY <1>3, <1>4, <1>5, <1>6

LEMMA ListFailsInv == ASSUME Inv, ListFails PROVE Inv'
<1> USE DEF Inv, ListFails, board
<1>1. phases[1] \in Phase /\ ip = Len(phases) + 1 /\ ip > 1
  BY DEF TypeOK
<1>2. ~hunting /\ \A a \in Asic : a_cnt[a] = 0
  BY DEF Control
<1>3. CASE "list" \in tolerate
  <2>1. TypeOK'
    BY <1>1, <1>3 DEF TypeOK
  <2>2. Control' /\ Written' /\ SyncedForReal' /\ ToleratedOnly'
    BY <1>1, <1>2, <1>3 DEF Control, Written, SyncedForReal, ToleratedOnly
  <2>3. Known'
    BY <1>1, <1>2, <1>3 DEF Known, OutOfSync, At
  <2>4. Tried'
    BY <1>2, <1>3 DEF Tried
  <2> QED
    BY <2>1, <2>2, <2>3, <2>4
<1>4. CASE "list" \notin tolerate
  <2>1. pc' = "done" /\ out' = "error" /\ UNCHANGED <<hunting, clk>>
    BY <1>4 DEF NotSynced
  <2>2. TypeOK'
    BY <1>1, <2>1 DEF TypeOK
  <2>3. Control' /\ Written' /\ Tried' /\ SyncedForReal' /\ ToleratedOnly'
    BY <1>1, <1>2, <1>4, <2>1 DEF Control, Written, Tried, SyncedForReal, ToleratedOnly
  <2>4. Known'
    BY <2>1 DEF Known, OutOfSync, At
  <2> QED
    BY <2>2, <2>3, <2>4
<1> QED
  BY <1>3, <1>4

\* What one write of the last two loops puts into the registers.
LEMMA Applied ==
  ASSUME TypeOK, regs' = [regs EXCEPT ![Register] = Data]
  PROVE  /\ loop = 3 => regs'.d0 = clk.d0
         /\ loop = 4 => regs'.d0 = regs.d0 /\ regs'.d1 = clk.d1
<1>1. regs \in [d0 : Byte, d1 : Byte] /\ clk \in [d0 : Byte, d1 : Byte]
  BY DEF TypeOK, Phase
<1>2. CASE loop = 3
  <2>1. Register = "d0" /\ Data = clk.d0
    BY <1>2 DEF Register, Data
  <2>2. regs' = [regs EXCEPT !.d0 = clk.d0]
    BY <2>1
  <2> QED
    BY <1>1, <1>2, <2>2
<1>3. CASE loop = 4
  <2>1. Register = "d1" /\ Data = clk.d1
    BY <1>3 DEF Register, Data
  <2>2. regs' = [regs EXCEPT !.d1 = clk.d1]
    BY <2>1
  <2> QED
    BY <1>1, <1>3, <2>2
<1> QED
  BY <1>2, <1>3

LEMMA ProceedType ==
  ASSUME TypeOK, pc = "write", Proceed
  PROVE  /\ loop' \in 1..4 /\ pc' \in {"write", "sync"}
         /\ pc' = "sync" => loop = 4
         /\ pc' = "write" /\ loop' = 4 => loop = 3
  BY DEF TypeOK, Proceed

LEMMA WriteOnceInv == ASSUME Inv, WriteOnce PROVE Inv'
<1> USE DEF Inv, WriteOnce, board
<1>0. TypeOK /\ pc = "write"
  OBVIOUS
<1>1. Register \in {"d0", "d1"} /\ Data \in Byte
  BY DEF TypeOK, Register, Data, Phase, Byte
<1>2. regs' \in Phase
  BY <1>1 DEF TypeOK, Phase
<1>3. /\ loop' \in 1..4
      /\ count' \in 0..(PhaseTries - 1)
      /\ unread' \in SUBSET (1..4)
      /\ pc' \in {"write", "sync"}
      /\ pc' = "sync" => loop = 4
      /\ pc' = "write" /\ loop' = 4 => loop \in {3, 4}
  <2>1. loop \in 1..4 /\ count \in 0..(PhaseTries - 1) /\ unread \in SUBSET (1..4)
    BY DEF TypeOK
  <2>2. \/ Proceed /\ count' = 0 /\ (unread' = unread \/ unread' = unread \cup {loop})
        \/ /\ count + 1 < PhaseTries /\ count' = count + 1
           /\ pc' = pc /\ loop' = loop /\ unread' = unread
    OBVIOUS
  <2> HIDE DEF WriteOnce, Inv
  <2>3. CASE Proceed /\ count' = 0 /\ (unread' = unread \/ unread' = unread \cup {loop})
    <3>1. count' \in 0..(PhaseTries - 1)
      BY <2>3, TriesAssumption
    <3>2. unread' \in SUBSET (1..4)
      BY <2>1, <2>3
    <3> QED
      BY <1>0, <2>3, <3>1, <3>2, ProceedType
  <2>4. CASE /\ count + 1 < PhaseTries /\ count' = count + 1
             /\ pc' = pc /\ loop' = loop /\ unread' = unread
    BY <2>1, <2>4, <1>0, TriesAssumption
  <2> QED
    BY <2>2, <2>3, <2>4
<1>4. TypeOK'
  BY <1>2, <1>3 DEF TypeOK
<1>5. Control'
  BY <1>3 DEF Control
<1>6. ToleratedOnly' /\ SyncedForReal'
  BY <1>3 DEF ToleratedOnly, SyncedForReal, Control
<1>7. Tried'
  BY <1>3 DEF Tried, Turned
<1>8. Written'
  <2> SUFFICES ASSUME faults = {}
               PROVE  /\ pc' = "write" /\ loop' = 4 => regs'.d0 = clk.d0
                      /\ pc' = "sync" => regs' = clk
    BY DEF Written
  <2>1. regs' = [regs EXCEPT ![Register] = Data]
    OBVIOUS
  <2>2. CASE loop = 4
    <3>1. regs'.d0 = regs.d0 /\ regs'.d1 = clk.d1
      BY <2>1, <2>2, Applied
    <3>2. regs.d0 = clk.d0
      BY <2>2 DEF Written
    <3> QED
      BY <1>2, <2>2, <3>1, <3>2 DEF TypeOK, Phase
  <2>3. CASE loop = 3
    <3>1. regs'.d0 = clk.d0
      BY <2>1, <2>3, Applied
    <3> QED
      BY <1>3, <2>3, <3>1
  <2>4. CASE loop \in {1, 2}
    BY <1>3, <2>4
  <2> QED
    BY <2>2, <2>3, <2>4 DEF TypeOK
<1>9. Known'
  <2>1. CASE pc' = "write"
    BY <2>1 DEF Known, OutOfSync, At
  <2>2. CASE pc' = "sync"
    BY <2>2 DEF Known, Control, OutOfSync, At
  <2> QED
    BY <1>3, <2>1, <2>2
<1> QED
  BY <1>4, <1>5, <1>6, <1>7, <1>8, <1>9

LEMMA TrySyncInv == ASSUME Inv, TrySync PROVE Inv'
<1> USE DEF Inv, TrySync, board
<1>1. PICK s \in Status : IF s = {} THEN Synced /\ UNCHANGED ip
                          ELSE pc' = "try" /\ ip' = ip + 1 /\ UNCHANGED out
  OBVIOUS
<1>2. /\ faults = {} => s = OutOfSync(regs) /\ regs = clk
      /\ clk = phases[ip]
      /\ ip \in 1..Len(phases)
  BY DEF Status, Written, Control, TypeOK
<1>3. CASE s = {}
  <2>1. pc' = "done" /\ out' = "synced" /\ UNCHANGED ip
    BY <1>1, <1>3 DEF Synced
  <2>2. TypeOK'
    BY <2>1 DEF TypeOK
  <2>3. Control' /\ Written' /\ Tried' /\ ToleratedOnly'
    BY <2>1 DEF Control, Written, Tried, ToleratedOnly
  <2>4. Known'
    BY <2>1 DEF Known, OutOfSync, At
  <2>5. SyncedForReal'
    BY <1>2, <1>3 DEF SyncedForReal, OutOfSync, At
  <2> QED
    BY <2>2, <2>3, <2>4, <2>5
<1>4. CASE s # {}
  <2>1. pc' = "try" /\ ip' = ip + 1 /\ UNCHANGED out
    BY <1>1, <1>4
  <2>2. TypeOK'
    BY <1>2, <2>1 DEF TypeOK
  <2>3. Control' /\ Written' /\ Tried' /\ ToleratedOnly' /\ SyncedForReal'
    BY <2>1 DEF Control, Written, Tried, ToleratedOnly, SyncedForReal
  <2>4. Known'
    <3> SUFFICES ASSUME faults = {}
                 PROVE  /\ \A k \in 1..ip : OutOfSync(phases[k]) # {}
                        /\ OutOfSync(regs) # {}
      BY <1>2, <2>1 DEF Known, OutOfSync, At
    <3>1. \A k \in 1..(ip - 1) : OutOfSync(phases[k]) # {}
      BY DEF Known
    <3>2. OutOfSync(regs) # {} /\ regs = phases[ip]
      BY <1>2, <1>4
    <3> QED
      BY <1>2, <3>1, <3>2 DEF TypeOK
  <2> QED
    BY <2>2, <2>3, <2>4
<1> QED
  BY <1>3, <1>4

\* What a turn of the hunt does to the count and the phase of each ASIC.
LEMMA ChangedBits ==
  ASSUME Inv, pc = "sync", hunting, NEW s \in SUBSET Asic,
         Counted(s) \in [Asic -> 0..4], NEW a \in Asic
  PROVE  /\ (a \in Changed(s, Counted(s)).d0)
              <=> ((a \in phases[1].d0) # (Counted(s)[a] \in {1, 2}))
         /\ (a \in Changed(s, Counted(s)).d1)
              <=> ((a \in phases[1].d1) # (Counted(s)[a] \in {2, 3}))
<1>1. /\ (a \in clk.d0) <=> ((a \in phases[1].d0) # (a_cnt[a] \in {1, 2}))
      /\ (a \in clk.d1) <=> ((a \in phases[1].d1) # (a_cnt[a] \in {2, 3}))
  BY DEF Inv, Tried
<1>2. a_cnt[a] \in 0..4 /\ Counted(s)[a] \in 0..4
  BY DEF Inv, TypeOK
<1>3. CASE a \notin s
  <2>1. Counted(s)[a] = a_cnt[a]
    BY <1>3 DEF Counted
  <2>2. /\ a \in Changed(s, Counted(s)).d0 <=> a \in clk.d0
        /\ a \in Changed(s, Counted(s)).d1 <=> a \in clk.d1
    BY <1>3 DEF Changed, Flip
  <2> QED
    BY <1>1, <2>1, <2>2
<1>4. CASE a \in s
  <2>1. Counted(s)[a] = a_cnt[a] + 1
    BY <1>4 DEF Counted
  <2>2. /\ (a \in Changed(s, Counted(s)).d0)
             <=> ((a \in clk.d0) # (Counted(s)[a] \in {1, 3}))
        /\ (a \in Changed(s, Counted(s)).d1)
             <=> ((a \in clk.d1) # (Counted(s)[a] \in {2, 4}))
    BY <1>4 DEF Changed, Flip
  <2> QED
    BY <1>1, <1>2, <2>1, <2>2
<1> QED
  BY <1>3, <1>4

\* A turn adds to the positions that are known not to do only the one the ASIC
\* was seen out of sync at.
LEMMA CountedTried ==
  ASSUME Inv, pc = "sync", hunting, faults = {}, NEW s \in Status, NEW a \in Asic,
         NEW n \in 1..(Counted(s)[a] - 1)
  PROVE  Turned(a, n) \notin good[a]
<1>1. s = OutOfSync(regs)
  BY DEF Status
<1>2. a_cnt[a] \in 0..4
  BY DEF Inv, TypeOK
<1>3. \A m \in 1..(a_cnt[a] - 1) : Turned(a, m) \notin good[a]
  BY DEF Inv, Tried
<1>4. CASE n < a_cnt[a]
  BY <1>2, <1>3, <1>4
<1>5. CASE n >= a_cnt[a]
  <2>1. a \in s /\ n = a_cnt[a] /\ a_cnt[a] # 0
    BY <1>2, <1>5 DEF Counted
  <2>2. regs = clk
    BY <2>1 DEF Inv, Written
  <2>3. At(clk, a) \notin good[a]
    BY <1>1, <2>1, <2>2 DEF OutOfSync
  <2>4. At(clk, a) = Turned(a, n)
    BY <2>1 DEF Inv, Tried, At, Turned
  <2> QED
    BY <2>3, <2>4
<1> QED
  BY <1>2, <1>4, <1>5

LEMMA HuntSyncInv == ASSUME Inv, HuntSync PROVE Inv'
<1> USE DEF Inv, HuntSync, board
<1>1. PICK s \in Status :
        \/ s = {} /\ Synced /\ UNCHANGED <<clk, loop, count, unread, a_cnt>>
        \/ /\ s # {}
           /\ a_cnt' = Counted(s)
           /\ IF GivesUp(s, Counted(s))
              THEN NotSynced /\ UNCHANGED <<clk, loop, count, unread>>
              ELSE Write(Changed(s, Counted(s))) /\ UNCHANGED out
  OBVIOUS
<1>2. s \in SUBSET Asic /\ (faults = {} => s = OutOfSync(regs))
  BY StatusIsByte DEF Status
<1>3. /\ Counted(s) \in [Asic -> 0..5]
      /\ ~GivesUp(s, Counted(s)) => Counted(s) \in [Asic -> 0..4]
  BY <1>2, CountedType
<1>4. CASE s = {}
  <2>1. pc' = "done" /\ out' = "synced" /\ UNCHANGED <<clk, loop, count, unread, a_cnt>>
    BY <1>1, <1>4 DEF Synced
  <2>2. TypeOK'
    BY <2>1 DEF TypeOK
  <2>3. Control' /\ Written' /\ ToleratedOnly'
    BY <2>1 DEF Control, Written, ToleratedOnly
  <2>4. Known'
    BY <2>1 DEF Known, OutOfSync, At
  <2>5. Tried'
    BY <2>1 DEF Tried, Turned
  <2>6. SyncedForReal'
    <3> SUFFICES ASSUME faults = {} PROVE regs = clk /\ OutOfSync(regs) = {}
      BY <2>1 DEF SyncedForReal, OutOfSync, At
    <3>1. OutOfSync(regs) = {}
      BY <1>2, <1>4
    <3>2. \E a \in Asic : a_cnt[a] # 0
      BY <3>1 DEF Known
    <3> QED
      BY <3>1, <3>2 DEF Written
  <2> QED
    BY <2>2, <2>3, <2>4, <2>5, <2>6
<1>5. CASE s # {} /\ GivesUp(s, Counted(s))
  <2>1. /\ pc' = "done"
        /\ a_cnt' = Counted(s)
        /\ out' = IF {"list", "sync"} \subseteq tolerate THEN "degraded" ELSE "error"
        /\ UNCHANGED <<clk, loop, count, unread>>
    BY <1>1, <1>5 DEF NotSynced
  <2>2. TypeOK'
    BY <1>3, <2>1 DEF TypeOK
  <2>3. \E a \in Asic : a_cnt'[a] = 5
    BY <1>2, <1>3, <1>5, <2>1 DEF GivesUp
  <2>4. Control'
    BY <2>1, <2>3 DEF Control
  <2>5. Written' /\ ToleratedOnly' /\ SyncedForReal'
    BY <2>1 DEF Written, ToleratedOnly, SyncedForReal
  <2>6. Known'
    BY <2>1 DEF Known, OutOfSync, At
  <2>7. Tried'
    BY <2>1, CountedTried DEF Tried, Turned
  <2> QED
    BY <2>2, <2>4, <2>5, <2>6, <2>7
<1>6. CASE s # {} /\ ~GivesUp(s, Counted(s))
  <2>1. /\ pc' = "write" /\ clk' = Changed(s, Counted(s))
        /\ loop' = 1 /\ count' = 0 /\ unread' = {}
        /\ a_cnt' = Counted(s)
        /\ UNCHANGED out
    BY <1>1, <1>6 DEF Write
  <2>2. clk' \in Phase
    BY <1>2, <2>1, ChangedIsPhase
  <2>3. TypeOK'
    BY <1>3, <1>6, <2>1, <2>2, TriesAssumption DEF TypeOK
  <2>4. \E a \in Asic : a_cnt'[a] # 0
    BY <1>2, <1>6, <2>1 DEF Counted, TypeOK
  <2>5. Control'
    BY <2>1, <2>4 DEF Control
  <2>6. Written' /\ ToleratedOnly' /\ SyncedForReal'
    BY <2>1 DEF Written, ToleratedOnly, SyncedForReal, Control
  <2>7. Known'
    BY <2>1 DEF Known, OutOfSync, At
  <2>8. \A a \in Asic :
          /\ (a \in clk'.d0) <=> ((a \in phases[1].d0) # (a_cnt'[a] \in {1, 2}))
          /\ (a \in clk'.d1) <=> ((a \in phases[1].d1) # (a_cnt'[a] \in {2, 3}))
    BY <1>2, <1>3, <1>6, <2>1, ChangedBits
  <2>9. faults = {} => \A a \in Asic : \A n \in 1..(a_cnt'[a] - 1) :
                         Turned(a, n) \notin good[a]
    BY <2>1, CountedTried
  <2>10. Tried'
    BY <2>8, <2>9 DEF Tried, Turned
  <2> QED
    BY <2>3, <2>5, <2>6, <2>7, <2>10
<1> QED
  BY <1>1, <1>4, <1>5, <1>6

LEMMA StutterInv == ASSUME Inv, UNCHANGED vars PROVE Inv'
<1> USE DEF Inv, vars
<1>1. TypeOK' /\ Control' /\ Written'
  BY DEF TypeOK, Control, Written
<1>2. Known' /\ Tried' /\ SyncedForReal' /\ ToleratedOnly'
  BY DEF Known, Tried, Turned, SyncedForReal, ToleratedOnly, OutOfSync, At
<1> QED
  BY <1>1, <1>2

LEMMA NextInv == Inv /\ [Next]_vars => Inv'
  BY TryPhaseInv, ListFailsInv, WriteOnceInv, TrySyncInv, HuntSyncInv, StutterInv
     DEF Next, Done

\* The inductive invariant holds in every reachable state.
THEOREM InvHolds == Spec => []Inv
  BY InitInv, NextInv, PTL DEF Spec
-----------------------------------------------------------------------------
(* The properties                                                          *)

\* Types: in particular no count of changes passes 5, however the FEMB behaves.
THEOREM TypeCorrect == Spec => []TypeOK
<1>1. Inv => TypeOK
  BY DEF Inv
<1> QED
  BY <1>1, InvHolds, PTL

\* TryFEMBPhases takes the first phase of the list that works.
THEOREM TakesFirstThatWorks == Spec => []FirstThatWorks
<1>1. Inv => FirstThatWorks
  BY DEF Inv, Known, Control, FirstThatWorks
<1> QED
  BY <1>1, InvHolds, PTL

\* HuntFEMBPhase finds a phase for any number of ASICs if each has one.
THEOREM HuntSucceeds == Spec => []HuntFinds
<1>1. Inv => HuntFinds
  <2> SUFFICES ASSUME Inv, faults = {}, hunting, out \in {"degraded", "error"}
               PROVE  \E a \in Asic : good[a] = {}
    BY DEF HuntFinds
  <2>1. PICK a \in Asic : a_cnt[a] = 5
    BY DEF Inv, Control
  <2>2. \A n \in 1..4 : Turned(a, n) \notin good[a]
    BY <2>1 DEF Inv, Tried
  <2>3. good[a] = {}
    BY <2>2, FourPositions DEF Inv, TypeOK
  <2> QED
    BY <2>3
<1> QED
  BY <1>1, InvHolds, PTL

\* Success means that the ADCs synchronise at the phase reported and left behind.
THEOREM SuccessIsReal == Spec => []SyncedForReal
<1>1. Inv => SyncedForReal
  BY DEF Inv
<1> QED
  BY <1>1, InvHolds, PTL

\* A FEMB out of sync passes only under both tolerances, whatever it does.
THEOREM ToleratesAsAsked == Spec => []ToleratedOnly
<1>1. Inv => ToleratedOnly
  BY DEF Inv
<1> QED
  BY <1>1, InvHolds, PTL
-----------------------------------------------------------------------------
(* The loops that give up                                                  *)

Unread == OnlyLastUnread /\ (faults = {} /\ pc = "write" => unread = {})

\* The first three loops read back what they write.
LEMMA ReadBackIsWritten ==
  ASSUME TypeOK, regs' = [regs EXCEPT ![Register] = Data], loop # 4
  PROVE  regs'[ReadBack] = Data
<1>1. regs \in [d0 : Byte, d1 : Byte] /\ loop \in 1..4
  BY DEF TypeOK, Phase
<1>2. ReadBack = Register /\ Register \in {"d0", "d1"}
  BY <1>1 DEF ReadBack, Register
<1> QED
  BY <1>1, <1>2

LEMMA UnreadNext == ASSUME Inv, Unread, Next PROVE Unread'
<1> SUFFICES ASSUME faults = {}
             PROVE  /\ unread' \subseteq {4}
                    /\ pc' # "write" /\ unread' # {} => regs'.d0 # regs'.d1
                    /\ pc' = "write" => unread' = {}
  BY DEF Unread, OnlyLastUnread, Next, TryPhase, ListFails, WriteOnce, TrySync, HuntSync,
         Done, vars, board
<1>1. CASE TryPhase
  BY <1>1 DEF TryPhase, Write
<1>2. CASE ListFails
  BY <1>2 DEF ListFails, NotSynced, Unread, OnlyLastUnread
<1>3. CASE WriteOnce
  <2>1. /\ unread = {} /\ pc = "write" /\ TypeOK
        /\ regs' = [regs EXCEPT ![Register] = Data]
    BY <1>3 DEF WriteOnce, Unread, Inv
  <2>2. CASE regs'[ReadBack] = Data
    BY <1>3, <2>1, <2>2 DEF WriteOnce
  <2>3. CASE regs'[ReadBack] # Data
    <3>1. loop = 4
      BY <2>1, <2>3, ReadBackIsWritten
    <3>2. regs'.d0 = regs.d0 /\ regs'.d1 = clk.d1 /\ regs.d0 = clk.d0
      BY <2>1, <3>1, Applied DEF Inv, Written
    <3>3. ReadBack = "d0" /\ Data = clk.d1
      BY <3>1 DEF ReadBack, Data, Register
    <3>4. regs'.d0 # regs'.d1
      BY <2>3, <3>2, <3>3
    <3>5. \/ pc' = pc /\ unread' = unread
          \/ pc' = "sync" /\ unread' = {4}
      BY <1>3, <2>1, <2>3, <3>1 DEF WriteOnce, Proceed
    <3> QED
      BY <2>1, <3>4, <3>5
  <2> QED
    BY <2>2, <2>3
<1>4. CASE TrySync
  BY <1>4 DEF TrySync, Synced, Unread, OnlyLastUnread
<1>5. CASE HuntSync
  BY <1>5 DEF HuntSync, Synced, NotSynced, Write, Unread, OnlyLastUnread
<1>6. CASE Done
  BY <1>6 DEF Done, vars, Unread, OnlyLastUnread
<1> QED
  BY <1>1, <1>2, <1>3, <1>4, <1>5, <1>6 DEF Next

\* On a faultless FEMB no loop gives up but the last, and only for a phase whose
\* bytes differ: the wrong register it reads back costs time and nothing else.
THEOREM OnlyTheSlipGivesUp == Spec => []OnlyLastUnread
<1>1. Init => Unread
  BY DEF Init, Unread, OnlyLastUnread
<1>2. Inv /\ Unread /\ [Next]_vars => Unread'
  BY UnreadNext DEF vars, Unread, OnlyLastUnread
<1>3. Unread => OnlyLastUnread
  BY DEF Unread
<1> QED
  BY <1>1, <1>2, <1>3, InvHolds, PTL DEF Spec
=============================================================================
