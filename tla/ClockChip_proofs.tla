--------------------------- MODULE ClockChip_proofs ---------------------------
(***************************************************************************)
(* For any list, any bytes and any number of tries: a list reported as     *)
(* loaded is in the chip, and the chip takes nothing but what is due.  The *)
(* argument follows a transaction: the registers of the controller hold    *)
(* what the call asked for when RUN is written (RegsInv), what is at work  *)
(* is that, or the remainder of an earlier load which no longer finds a    *)
(* mixture to write (WorkInv), once DONE reads 1 without ERROR it has been *)
(* carried out (DoneInv), on the right page (PageInv).                     *)
(***************************************************************************)
EXTENDS ClockChip, TLAPS

\* What is carried out, by which call.
OpInv ==
  /\ i = 0 => task = "load" /\ out # "loaded" /\ op = GetPage
  /\ task = "load" /\ 0 < i /\ i <= Len(writes) =>
       page = writes[i].page /\ op \in {SetPage(page), WriteOf(writes[i])}
  /\ task = "load" /\ i > Len(writes) => pc \in {"idle", "align"}
  /\ task = "tune" => i = Len(writes) + 1 /\ op \in {SetPage(0), WriteOf(PostAmble)}
  /\ pc = "align" => i = Len(writes) + 1
  /\ out = "loaded" => i = Len(writes) + 1

Matches(t) == t.rw = op.rw /\ t.addr = op.addr /\ (op.rw = "wr" => t.data = op.data)

\* How far the registers of the controller are set.
RegsInv ==
  /\ pc \in {"addr", "data"} => i2c.rw = op.rw
  /\ pc = "data" => op.rw = "wr" /\ i2c.addr = op.addr
  /\ pc \in {"wait", "run", "poll", "status"} => Matches(i2c)

\* A transaction that can do no harm when the next load begins.
Harmless(t) == t.rw = "wr" /\ t.addr # PageReg =>
                 [page |-> chipPage, reg |-> t.addr, val |-> t.data] \in AllWrites

WorkInv == work # NoWork =>
  /\ i > 0 => pc \in {"idle", "run", "poll"}
  /\ i > 0 \/ pc \in {"run", "poll"} => Matches(work) /\ Matches(i2c)
  /\ i = 0 => Harmless(work) /\ Harmless(i2c)
  /\ i = 0 => pc \in {"idle", "reset", "rw", "addr", "data", "wait", "run", "poll"}
  /\ i > Len(writes) => task = "tune"

\* The page a byte is written on.
PageInv ==
  /\ task = "load" /\ 0 < i /\ i <= Len(writes) /\ op = WriteOf(writes[i]) =>
       chipPage = writes[i].page
  /\ task = "tune" /\ op = WriteOf(PostAmble) => chipPage = 0

\* What a transaction that is done without an error has done.
DoneInv ==
  pc \in {"poll", "status"} /\ work = NoWork /\ ~error =>
    /\ op.rw = "rd" => rd = chipPage
    /\ op.rw = "wr" /\ op.addr = PageReg => chipPage = op.data
    /\ op.rw = "wr" /\ op.addr # PageReg => chip[chipPage][op.addr] = op.data

\* The writes before i are in the chip, but for those a later one replaces.
Holds(w) == \/ chip[w.page][w.reg] = w.val
            \/ /\ SameReg(PostAmble, w)
               /\ chip[PostAmble.page][PostAmble.reg] = PostAmble.val
Good == \A j \in 1..Len(writes) :
  j < i /\ (\A k \in (j + 1)..Len(writes) : k <= i => ~SameReg(writes[k], writes[j])) =>
    Holds(writes[j])

Inv == TypeOK /\ OpInv /\ RegsInv /\ WorkInv /\ PageInv /\ DoneInv /\ Good
-----------------------------------------------------------------------------
(* Facts about the lists                                                   *)

LEMMA EntryType ==
  ASSUME TypeOK, NEW k \in 1..Len(writes)
  PROVE  /\ writes[k] \in Entry
         /\ writes[k].page \in Byte /\ writes[k].val \in Byte
         /\ writes[k].reg \in Byte /\ writes[k].reg # PageReg
         /\ writes[k] \in AllWrites
         /\ writes[k] = [page |-> writes[k].page, reg |-> writes[k].reg, val |-> writes[k].val]
         /\ WriteOf(writes[k]) \in Transaction
         /\ SetPage(writes[k].page) \in Transaction
<1>1. writes \in Seq(Entry) /\ writes \in Lists
  BY ListsAssumption DEF TypeOK
<1>2. writes[k] \in Entry /\ k \in DOMAIN writes
  BY <1>1
<1>3. writes[k] \in AllWrites
  BY <1>1, <1>2 DEF AllWrites
<1>4. /\ writes[k].page \in Byte /\ writes[k].val \in Byte
      /\ writes[k].reg \in Byte /\ writes[k].reg # PageReg
  BY <1>2 DEF Entry
<1>5. writes[k] = [page |-> writes[k].page, reg |-> writes[k].reg, val |-> writes[k].val]
  BY <1>2 DEF Entry
<1>6. WriteOf(writes[k]) \in Transaction /\ SetPage(writes[k].page) \in Transaction
  BY <1>4, ByteAssumption DEF WriteOf, SetPage, Transaction
<1> QED
  BY <1>2, <1>3, <1>4, <1>5, <1>6

LEMMA PostType ==
  /\ PostAmble.page = 0 /\ PostAmble.val \in Byte
  /\ PostAmble.reg \in Byte /\ PostAmble.reg # PageReg
  /\ PostAmble \in AllWrites
  /\ PostAmble = [page |-> PostAmble.page, reg |-> PostAmble.reg, val |-> PostAmble.val]
  /\ WriteOf(PostAmble) \in Transaction /\ SetPage(0) \in Transaction /\ GetPage \in Transaction
  /\ NoWork \notin Transaction
<1>1. /\ PostAmble.page = 0 /\ PostAmble.val \in Byte
      /\ PostAmble.reg \in Byte /\ PostAmble.reg # PageReg
  BY PostAssumption DEF Entry
<1>2. PostAmble = [page |-> PostAmble.page, reg |-> PostAmble.reg, val |-> PostAmble.val]
  BY PostAssumption DEF Entry
<1>3. PostAmble \in AllWrites
  BY DEF AllWrites
<1>4. WriteOf(PostAmble) \in Transaction /\ SetPage(0) \in Transaction /\ GetPage \in Transaction
  BY <1>1, ByteAssumption DEF WriteOf, SetPage, GetPage, Transaction
<1>5. ASSUME NoWork \in Transaction PROVE FALSE
  <2>1. NoWork.rw \in {"rd", "wr"}
    BY <1>5 DEF Transaction
  <2> QED
    BY <2>1 DEF NoWork
<1> QED
  BY <1>1, <1>2, <1>3, <1>4, <1>5

LEMMA LenType == ASSUME TypeOK PROVE Len(writes) \in Nat /\ i \in Nat /\ tries \in Nat
  BY ListsAssumption, TriesAssumption DEF TypeOK

LEMMA LoadedFollows == ASSUME Inv PROVE Loaded
<1> SUFFICES ASSUME out = "loaded", NEW j \in 1..Len(writes), LastOf(j)
             PROVE  Holds(writes[j])
  BY DEF Loaded, Holds
<1>1. j < i
  BY LenType DEF Inv, OpInv
<1> QED
  BY <1>1 DEF Inv, Good, LastOf

\* A WIB at power-up.
THEOREM InitInv == Init => Inv
<1> SUFFICES ASSUME Init PROVE Inv
  OBVIOUS
<1>1. TypeOK
  BY PostType, ByteAssumption, TriesAssumption, ListsAssumption DEF Init, TypeOK, PowerUp
<1>2. Len(writes) \in Nat
  BY <1>1, LenType
<1> QED
  BY <1>1, <1>2 DEF Init, Inv, OpInv, RegsInv, WorkInv, PageInv, DoneInv, Good
-----------------------------------------------------------------------------
(* The controller                                                          *)

\* Good speaks of the list and the chip only.
LEMMA GoodKept ==
  ASSUME Good, UNCHANGED <<chip, writes, i>> PROVE Good'
  BY DEF Good, Holds, SameReg

LEMMA SetsInv == ASSUME Inv, SetRw \/ SetAddr \/ SetData PROVE Inv'
<1> USE DEF Goto, Sets, local, SetRw, SetAddr, SetData
<1>1. op \in Transaction /\ i2c \in Transaction
  BY DEF Inv, TypeOK
<1>2. /\ i2c' \in Transaction /\ sends' = 0
      /\ pc \in {"rw", "addr", "data"} /\ pc' \in {"addr", "data", "wait"}
      /\ UNCHANGED <<chip, chipPage, work, rd, error, op, task, writes, i, page, tries, out>>
  BY <1>1 DEF Transaction
<1>3. TypeOK'
  BY <1>2, TriesAssumption DEF Inv, TypeOK
<1>4. OpInv'
  BY <1>2 DEF Inv, OpInv, GetPage, SetPage, WriteOf
<1>5. RegsInv'
  BY <1>1, <1>2 DEF Inv, RegsInv, Matches, Transaction
<1>6. WorkInv'
  <2>1. CASE work = NoWork
    BY <1>2, <2>1 DEF WorkInv
  <2>2. CASE work # NoWork
    <3>1. i = 0 /\ op.rw = "rd"
      BY <1>2, <2>2, LenType DEF Inv, WorkInv, OpInv, GetPage
    <3>2. i2c'.rw = "rd"
      BY <1>1, <1>2, <3>1 DEF Inv, RegsInv, Transaction
    <3>3. Harmless(work)' /\ Harmless(i2c)'
      BY <1>2, <2>2, <3>1, <3>2 DEF Inv, WorkInv, Harmless, AllWrites
    <3> QED
      BY <1>2, <2>2, <3>1, <3>3, LenType DEF Inv, WorkInv
  <2> QED
    BY <2>1, <2>2
<1>7. PageInv' /\ DoneInv'
  BY <1>2 DEF Inv, PageInv, DoneInv, WriteOf
<1> QED
  BY <1>2, <1>3, <1>4, <1>5, <1>6, <1>7, GoodKept DEF Inv

LEMMA PollsInv == ASSUME Inv, Wait \/ Poll PROVE Inv'
<1> USE DEF Goto, Wait, Poll, board, local
<1>1. /\ work = NoWork /\ sends' = 0
      /\ \/ pc = "wait" /\ pc' = "run"
         \/ pc = "poll" /\ pc' = "status"
      /\ UNCHANGED <<chip, chipPage, i2c, work, rd, error, op, task, writes, i, page, tries, out>>
  OBVIOUS
<1>2. TypeOK'
  BY <1>1, TriesAssumption DEF Inv, TypeOK
<1>3. OpInv' /\ RegsInv' /\ WorkInv'
  BY <1>1 DEF Inv, OpInv, RegsInv, WorkInv, Matches, GetPage, SetPage, WriteOf
<1>4. PageInv' /\ DoneInv'
  BY <1>1 DEF Inv, PageInv, DoneInv, WriteOf
<1> QED
  BY <1>1, <1>2, <1>3, <1>4, GoodKept DEF Inv

LEMMA RunInv == ASSUME Inv, Run PROVE Inv'
<1> USE DEF Run, local
<1>1. /\ pc = "run" /\ pc' \in {"run", "poll"} /\ sends' \in 0..(RetryCount - 1)
      /\ UNCHANGED <<chip, chipPage, i2c, rd, error, op, task, writes, i, page, tries, out>>
  BY TriesAssumption DEF Inv, TypeOK
<1>2. i2c \in Transaction /\ op \in Transaction /\ i2c # NoWork
  BY PostType DEF Inv, TypeOK
<1>3. work' \in Transaction /\ work' # NoWork
  BY <1>2, PostType DEF Inv, TypeOK
<1>4. TypeOK'
  BY <1>1, <1>3 DEF Inv, TypeOK
<1>5. OpInv' /\ RegsInv'
  BY <1>1 DEF Inv, OpInv, RegsInv, Matches, GetPage, SetPage, WriteOf
<1>6. Matches(work') /\ Matches(i2c)
  BY <1>1 DEF Inv, RegsInv, WorkInv
<1>7. WorkInv'
  <2>1. i = 0 => op.rw = "rd"
    BY DEF Inv, OpInv, GetPage
  <2>2. i = 0 => Harmless(work)' /\ Harmless(i2c)'
    BY <1>1, <1>6, <2>1 DEF Matches, Harmless
  <2>3. i > Len(writes) => task = "tune"
    BY <1>1, LenType DEF Inv, OpInv, TypeOK
  <2>4. Matches(work)' /\ Matches(i2c)'
    BY <1>1, <1>6 DEF Matches
  <2> QED
    BY <1>1, <2>2, <2>3, <2>4 DEF WorkInv
<1>8. PageInv' /\ DoneInv'
  BY <1>1, <1>3 DEF Inv, PageInv, DoneInv, WriteOf
<1> QED
  BY <1>1, <1>4, <1>5, <1>7, <1>8, GoodKept DEF Inv

\* The controller is reset while it is idle, or before the first transaction.
LEMMA ResetsInv == ASSUME Inv, Clear \/ ResetFirst PROVE Inv'
<1> USE DEF Goto, Clear, ResetFirst, ResetI2c, local
<1>1. /\ work' \in {work, NoWork} /\ sends' = 0
      /\ \/ pc = "status" /\ pc' = "caught"
         \/ pc = "reset" /\ pc' = "rw"
      /\ UNCHANGED <<chip, chipPage, i2c, rd, error, op, task, writes, i, page, tries, out>>
  OBVIOUS
<1>2. TypeOK'
  BY <1>1, TriesAssumption DEF Inv, TypeOK
<1>3. OpInv' /\ RegsInv'
  BY <1>1 DEF Inv, OpInv, RegsInv, Matches, GetPage, SetPage, WriteOf
<1>4. WorkInv'
  <2>1. CASE work' = NoWork
    BY <2>1 DEF WorkInv
  <2>2. CASE work' # NoWork
    <3>1. work' = work /\ i = 0 /\ pc = "reset"
      BY <1>1, <2>2, LenType DEF Inv, WorkInv
    <3> QED
      BY <1>1, <2>2, <3>1, LenType DEF Inv, WorkInv, Harmless
  <2> QED
    BY <2>1, <2>2
<1>5. PageInv' /\ DoneInv'
  BY <1>1 DEF Inv, PageInv, DoneInv, WriteOf
<1> QED
  BY <1>1, <1>2, <1>3, <1>4, <1>5, GoodKept DEF Inv

\* A call ends, with or without an error.
LEMMA EndsInv == ASSUME Inv, AccessFails \/ NotCaught \/ Aligned PROVE Inv'
<1> USE DEF Goto, AccessFails, NotCaught, Aligned, board, local
<1>1. /\ pc # "idle" /\ pc' = "idle" /\ sends' = 0
      /\ out' = "error" \/ (out' = out /\ pc = "align")
      /\ UNCHANGED <<chip, chipPage, i2c, work, rd, error, op, task, writes, i, page, tries>>
  OBVIOUS
<1>2. TypeOK'
  BY <1>1, TriesAssumption DEF Inv, TypeOK
<1>3. OpInv' /\ RegsInv'
  BY <1>1 DEF Inv, OpInv, RegsInv, GetPage, SetPage, WriteOf
<1>4. WorkInv'
  BY <1>1 DEF Inv, WorkInv, Harmless, Matches
<1>5. PageInv' /\ DoneInv'
  BY <1>1 DEF Inv, PageInv, DoneInv, WriteOf
<1> QED
  BY <1>1, <1>2, <1>3, <1>4, <1>5, GoodKept DEF Inv
-----------------------------------------------------------------------------
(* What is at work                                                         *)

\* A byte the transaction at work can write is due.
LEMMA WriteIsDue ==
  ASSUME Inv, work # NoWork, NEW t \in {work, i2c}, t.rw = "wr", t.addr # PageReg
  PROVE  [page |-> chipPage, reg |-> t.addr, val |-> t.data] \in Due
<1>1. CASE i = 0
  BY <1>1 DEF Inv, WorkInv, Harmless, Due
<1>2. CASE i # 0 /\ task = "tune"
  <2>1. Matches(t)
    BY <1>2, LenType DEF Inv, WorkInv
  <2>2. op = WriteOf(PostAmble)
    BY <1>2, <2>1 DEF Inv, OpInv, Matches, SetPage
  <2>3. chipPage = 0 /\ t.addr = PostAmble.reg /\ t.data = PostAmble.val
    BY <1>2, <2>1, <2>2 DEF Inv, PageInv, Matches, WriteOf
  <2> QED
    BY <1>2, <2>3, PostType DEF Due
<1>3. CASE i # 0 /\ task # "tune"
  <2>1. task = "load" /\ i \in 1..Len(writes) /\ Matches(t)
    BY <1>3, LenType DEF Inv, TypeOK, WorkInv
  <2>2. op = WriteOf(writes[i])
    BY <2>1 DEF Inv, OpInv, Matches, SetPage
  <2>3. chipPage = writes[i].page
    BY <2>1, <2>2 DEF Inv, PageInv
  <2>4. t.addr = writes[i].reg /\ t.data = writes[i].val
    BY <2>1, <2>2 DEF Matches, WriteOf
  <2> QED
    BY <1>3, <2>1, <2>3, <2>4, EntryType DEF Due, Inv
<1> QED
  BY <1>1, <1>2, <1>3

LEMMA LeftIsHarmless ==
  ASSUME Inv, work # NoWork PROVE Harmless(work) /\ Harmless(i2c)
<1> SUFFICES ASSUME NEW t \in {work, i2c}, t.rw = "wr", t.addr # PageReg
             PROVE  [page |-> chipPage, reg |-> t.addr, val |-> t.data] \in AllWrites
  BY DEF Harmless
<1>1. [page |-> chipPage, reg |-> t.addr, val |-> t.data] \in Due
  BY WriteIsDue
<1>2. CASE i = 0 \/ task = "tune"
  BY <1>1, <1>2, PostType DEF Due
<1>3. CASE i # 0 /\ task = "load"
  <2>1. i \in 1..Len(writes)
    BY <1>3, LenType DEF Inv, TypeOK, WorkInv
  <2> QED
    BY <1>1, <1>3, <2>1, EntryType DEF Due, Inv
<1> QED
  BY <1>2, <1>3 DEF Inv, TypeOK

LEMMA LoadInv == ASSUME Inv, NEW l \in Lists, Load(l) PROVE Inv'
<1> USE DEF Load, Goto
<1>1. /\ pc = "idle" /\ pc' = "reset" /\ op' = GetPage /\ task' = "load" /\ writes' = l
      /\ i' = 0 /\ tries' = Tries /\ sends' = 0 /\ out' = "none"
      /\ UNCHANGED <<i2c, rd, error, page>>
      /\ \/ UNCHANGED <<chip, chipPage, work>>
         \/ chip' = PowerUp /\ chipPage' = 0 /\ work' = NoWork
  OBVIOUS
<1>2. l \in Seq(Entry) /\ Len(l) \in Nat
  BY ListsAssumption
<1>3. TypeOK'
  <2>1. chip' \in [Byte -> [Byte -> Byte]] /\ chipPage' \in Byte
    BY <1>1, ByteAssumption DEF Inv, TypeOK, PowerUp
  <2> QED
    BY <1>1, <1>2, <2>1, PostType, TriesAssumption DEF Inv, TypeOK
<1>4. OpInv' /\ RegsInv' /\ PageInv' /\ DoneInv' /\ Good'
  BY <1>1, <1>2 DEF OpInv, RegsInv, PageInv, DoneInv, Good
<1>5. WorkInv'
  <2>1. CASE work' = NoWork
    BY <2>1 DEF WorkInv
  <2>2. CASE work' # NoWork
    <3>1. Harmless(work)' /\ Harmless(i2c)'
      BY <1>1, <2>2, LeftIsHarmless DEF Harmless
    <3> QED
      BY <1>1, <1>2, <3>1 DEF WorkInv
  <2> QED
    BY <2>1, <2>2
<1> QED
  BY <1>3, <1>4, <1>5 DEF Inv

\* A transaction ends: it has no effect, or that of the byte that is due.
LEMMA EffectOnChip ==
  ASSUME Inv, work # NoWork, NEW t \in {work, i2c}, Effect(t),
         NEW p \in Byte, NEW r \in Byte, chip'[p][r] # chip[p][r]
  PROVE  [page |-> p, reg |-> r, val |-> chip'[p][r]] \in Due
<1>1. t \in Transaction /\ chipPage \in Byte /\ chip \in [Byte -> [Byte -> Byte]]
  BY DEF Inv, TypeOK
<1>2. t.rw = "wr" /\ t.addr # PageReg
  BY DEF Effect
<1>3. chip' = [chip EXCEPT ![chipPage][t.addr] = t.data] /\ t.addr \in Byte
  BY <1>1, <1>2 DEF Effect, Transaction
<1>4. p = chipPage /\ r = t.addr /\ chip'[p][r] = t.data
  BY <1>1, <1>3
<1> QED
  BY <1>2, <1>4, WriteIsDue

LEMMA EffectType ==
  ASSUME TypeOK, NEW t \in Transaction, Effect(t)
  PROVE  chip' \in [Byte -> [Byte -> Byte]] /\ chipPage' \in Byte /\ rd' \in Byte
<1>1. /\ t.rw \in {"rd", "wr"} /\ t.addr \in Byte /\ t.data \in Byte
      /\ chipPage \in Byte /\ rd \in Byte /\ chip \in [Byte -> [Byte -> Byte]]
  BY DEF TypeOK, Transaction
<1>2. chip' \in [Byte -> [Byte -> Byte]]
  <2>1. CASE t.rw = "wr" /\ t.addr # PageReg
    BY <1>1, <2>1 DEF Effect
  <2>2. CASE ~(t.rw = "wr" /\ t.addr # PageReg)
    BY <1>1, <2>2 DEF Effect
  <2> QED
    BY <2>1, <2>2
<1>3. chip[chipPage][t.addr] \in Byte
  BY <1>1
<1> QED
  BY <1>1, <1>2, <1>3 DEF Effect

\* The bytes before i survive a change that is due.
LEMMA EffectGood ==
  ASSUME Inv, work # NoWork, NEW t \in {work, i2c}, Effect(t), UNCHANGED <<writes, i>>
  PROVE  Good'
<1> SUFFICES ASSUME NEW j \in 1..Len(writes), j < i,
                    \A k \in (j + 1)..Len(writes) : k <= i => ~SameReg(writes[k], writes[j])
             PROVE  Holds(writes[j])'
  BY DEF Good, SameReg
<1> DEFINE w == writes[j]
<1>1. Holds(w)
  BY DEF Inv, Good
<1>2. w.page \in Byte /\ w.reg \in Byte
  BY EntryType DEF Inv
<1>3. i # 0
  BY LenType DEF Inv
<1>4. CASE chip'[w.page][w.reg] = chip[w.page][w.reg]
  <2>1. CASE chip[w.page][w.reg] = w.val
    BY <1>4, <2>1 DEF Holds
  <2>2. CASE SameReg(PostAmble, w) /\ chip[PostAmble.page][PostAmble.reg] = PostAmble.val
    BY <1>4, <2>2 DEF Holds, SameReg
  <2> QED
    BY <1>1, <2>1, <2>2 DEF Holds
<1>5. CASE chip'[w.page][w.reg] # chip[w.page][w.reg]
  <2>1. [page |-> w.page, reg |-> w.reg, val |-> chip'[w.page][w.reg]] \in Due
    BY <1>2, <1>5, EffectOnChip
  <2>2. CASE task = "tune"
    <3>1. [page |-> w.page, reg |-> w.reg, val |-> chip'[w.page][w.reg]] = PostAmble
      BY <1>3, <2>1, <2>2 DEF Due
    <3>2. PostAmble.page = w.page /\ PostAmble.reg = w.reg
          /\ PostAmble.val = chip'[w.page][w.reg]
      BY <3>1
    <3> QED
      BY <3>2 DEF Holds, SameReg
  <2>3. CASE task # "tune"
    <3>1. [page |-> w.page, reg |-> w.reg, val |-> chip'[w.page][w.reg]] = writes[i]
      BY <1>3, <2>1, <2>3 DEF Due
    <3>2. writes[i].page = w.page /\ writes[i].reg = w.reg
      BY <3>1
    <3>3. i \in (j + 1)..Len(writes)
      BY <2>3, LenType DEF Inv, WorkInv
    <3> QED
      BY <3>2, <3>3, LenType DEF SameReg, Inv
  <2> QED
    BY <2>2, <2>3
<1> QED
  BY <1>4, <1>5

LEMMA TransferInv == ASSUME Inv, Transfer PROVE Inv'
<1> USE DEF Transfer, local
<1>1. /\ work # NoWork /\ work' = NoWork
      /\ UNCHANGED <<i2c, pc, op, task, writes, i, page, tries, sends, out>>
  OBVIOUS
<1>2. OpInv' /\ RegsInv' /\ WorkInv'
  BY <1>1 DEF Inv, OpInv, RegsInv, WorkInv, Matches, GetPage, SetPage, WriteOf
<1>3. CASE error' = TRUE /\ UNCHANGED <<chip, chipPage, rd>>
  <2>1. TypeOK'
    BY <1>1, <1>3 DEF Inv, TypeOK
  <2>2. PageInv' /\ DoneInv'
    BY <1>1, <1>3 DEF Inv, PageInv, DoneInv, WriteOf
  <2> QED
    BY <1>1, <1>2, <1>3, <2>1, <2>2, GoodKept DEF Inv
<1>4. CASE \E t \in {work, i2c} : Effect(t) /\ error' \in BOOLEAN
  <2>1. PICK t \in {work, i2c} : Effect(t) /\ error' \in BOOLEAN
    BY <1>4
  <2>2. t \in Transaction
    BY <1>1 DEF Inv, TypeOK
  <2>3. TypeOK'
    BY <1>1, <2>1, <2>2, EffectType DEF Inv, TypeOK
  <2>4. PageInv'
    <3>1. CASE chipPage' = chipPage
      BY <1>1, <3>1 DEF Inv, PageInv, WriteOf
    <3>2. CASE chipPage' # chipPage
      <4>1. t.addr = PageReg
        BY <2>1, <3>2 DEF Effect
      <4>2. i > 0 => op.addr = PageReg
        BY <1>1, <4>1 DEF Inv, WorkInv, Matches
      <4>3. task = "tune" => i > 0
        BY LenType DEF Inv, OpInv
      <4>4. task = "load" /\ 0 < i /\ i <= Len(writes) => op # WriteOf(writes[i])
        <5>1. SUFFICES ASSUME 0 < i, i <= Len(writes) PROVE op.addr # writes[i].reg
          BY DEF WriteOf
        <5>2. i \in 1..Len(writes)
          BY <5>1, LenType DEF Inv
        <5> QED
          BY <4>2, <5>1, <5>2, EntryType DEF Inv
      <4>5. task = "tune" => op # WriteOf(PostAmble)
        BY <4>2, <4>3, PostType DEF WriteOf
      <4> QED
        BY <1>1, <4>4, <4>5 DEF PageInv, WriteOf
    <3> QED
      BY <3>1, <3>2
  <2>5. DoneInv'
    <3>1. SUFFICES ASSUME pc \in {"poll", "status"}
                   PROVE  /\ op.rw = "rd" => rd' = chipPage'
                          /\ op.rw = "wr" /\ op.addr = PageReg => chipPage' = op.data
                          /\ op.rw = "wr" /\ op.addr # PageReg =>
                               chip'[chipPage'][op.addr] = op.data
      BY <1>1 DEF DoneInv
    <3>2. Matches(t)
      BY <1>1, <3>1, LenType DEF Inv, WorkInv
    <3>3. op.rw = "rd" => op.addr = PageReg
      BY <1>1, LenType DEF Inv, OpInv, WorkInv, TypeOK, GetPage, SetPage, WriteOf
    <3>4. chip \in [Byte -> [Byte -> Byte]] /\ chipPage \in Byte /\ op.addr \in Byte
      BY DEF Inv, TypeOK, Transaction
    <3> QED
      BY <2>1, <3>2, <3>3, <3>4 DEF Matches, Effect
  <2> QED
    BY <1>1, <1>2, <2>1, <2>3, <2>4, <2>5, EffectGood DEF Inv
<1> QED
  BY <1>3, <1>4
-----------------------------------------------------------------------------
(* The call goes on                                                        *)

LEMMA StatusFacts ==
  ASSUME Inv, Succeeds
  PROVE  /\ work = NoWork /\ work' = NoWork
         /\ op.rw = "rd" => rd = chipPage /\ i = 0
         /\ op.rw = "wr" => i > 0
         /\ op.rw = "wr" /\ op.addr = PageReg => chipPage = op.data
         /\ op.rw = "wr" /\ op.addr # PageReg => chip[chipPage][op.addr] = op.data
<1> USE DEF Succeeds, Failed, board
<1>1. work = NoWork
  BY LenType DEF Inv, WorkInv
<1>2. i = 0 \/ (i > 0 /\ op.rw = "wr")
  BY LenType DEF Inv, OpInv, TypeOK, SetPage, WriteOf
<1>3. i = 0 => op.rw = "rd"
  BY DEF Inv, OpInv, GetPage
<1> QED
  BY <1>1, <1>2, <1>3 DEF Inv, DoneInv

\* The call goes on with another byte, or the same one again.
LEMMA SameCall ==
  ASSUME Inv, work' = NoWork, sends' = 0, pc' \in {"rw", "reset"},
         UNCHANGED <<chip, chipPage, i2c, rd, error, task, writes, i, page, out>>,
         op' \in Transaction, tries' \in 1..Tries, OpInv', PageInv'
  PROVE  Inv'
<1>1. TypeOK'
  BY TriesAssumption, PostType DEF Inv, TypeOK
<1>2. RegsInv' /\ WorkInv' /\ DoneInv'
  BY DEF RegsInv, WorkInv, DoneInv
<1> QED
  BY <1>1, <1>2, GoodKept DEF Inv

\* The writes before k are in the chip, but for those the one at k replaces.
GoodUpTo(k) == \A j \in 1..Len(writes) :
  j < k /\ (\A m \in (j + 1)..Len(writes) : m <= k => ~SameReg(writes[m], writes[j])) =>
    Holds(writes[j])

LEMMA NextWriteInv ==
  ASSUME Inv, NEW k \in 1..(Len(writes) + 1), WriteNext(k, chipPage), GoodUpTo(k),
         task = "load", out # "loaded",
         work' = NoWork, sends' = 0,
         UNCHANGED <<chip, chipPage, i2c, rd, error, task, writes>>
  PROVE  Inv'
<1> USE DEF WriteNext
<1>1. Len(writes) \in Nat /\ k \in Nat /\ i' = k /\ tries' = Tries
  BY LenType DEF Inv
<1>2. Good'
  BY <1>1 DEF GoodUpTo, Good, Holds, SameReg
<1>3. CASE k > Len(writes)
  <2>1. k = Len(writes) + 1 /\ pc' = "align" /\ out' = "loaded" /\ page' = chipPage /\ op' = op
    BY <1>1, <1>3
  <2>2. TypeOK'
    BY <1>1, <2>1, TriesAssumption DEF Inv, TypeOK
  <2>3. OpInv' /\ RegsInv' /\ WorkInv' /\ PageInv' /\ DoneInv'
    BY <1>1, <2>1 DEF OpInv, RegsInv, WorkInv, PageInv, DoneInv
  <2> QED
    BY <1>2, <2>2, <2>3 DEF Inv
<1>4. CASE k <= Len(writes)
  <2>1. /\ k \in 1..Len(writes) /\ pc' = "rw" /\ page' = writes[k].page /\ out' = out
        /\ op' = IF SamePage(chipPage, writes[k]) THEN WriteOf(writes[k])
                                                  ELSE SetPage(writes[k].page)
    BY <1>1, <1>4
  <2>2. /\ op' \in {SetPage(page'), WriteOf(writes[k])}
        /\ op' \in Transaction /\ page' \in Byte
    BY <2>1, EntryType DEF Inv
  <2>3. TypeOK'
    BY <1>1, <2>1, <2>2, PostType, TriesAssumption DEF Inv, TypeOK
  <2>4. PageInv'
    <3>1. CASE SamePage(chipPage, writes[k])
      BY <1>1, <2>1, <3>1 DEF PageInv, SamePage
    <3>2. CASE ~SamePage(chipPage, writes[k])
      <4>1. op' # WriteOf(writes[k])
        BY <2>1, <3>2, EntryType DEF SetPage, WriteOf, Inv
      <4> QED
        BY <1>1, <2>1, <4>1 DEF PageInv, WriteOf
    <3> QED
      BY <3>1, <3>2
  <2>5. OpInv'
    BY <1>1, <2>1, <2>2 DEF OpInv, SetPage, WriteOf
  <2>6. RegsInv' /\ WorkInv' /\ DoneInv'
    BY <2>1 DEF RegsInv, WorkInv, DoneInv
  <2> QED
    BY <1>2, <2>3, <2>4, <2>5, <2>6 DEF Inv
<1> QED
  BY <1>1, <1>3, <1>4

LEMMA PageReadInv == ASSUME Inv, PageRead PROVE Inv'
<1> USE DEF PageRead
<1>1. /\ work' = NoWork /\ rd = chipPage /\ i = 0 /\ sends' = 0
      /\ UNCHANGED <<chip, chipPage, i2c, rd, error, task, writes>>
  BY StatusFacts DEF Succeeds, board
<1>2. task = "load" /\ out # "loaded"
  BY <1>1 DEF Inv, OpInv
<1>3. GoodUpTo(1) /\ 1 \in 1..(Len(writes) + 1)
  BY LenType DEF GoodUpTo, Inv
<1>4. WriteNext(1, chipPage)
  BY <1>1
<1> QED
  BY <1>1, <1>2, <1>3, <1>4, NextWriteInv

LEMMA WrittenInv == ASSUME Inv, Written PROVE Inv'
<1> USE DEF Written
<1>1. /\ work' = NoWork /\ sends' = 0 /\ pc = "status"
      /\ chip[chipPage][op.addr] = op.data /\ i > 0
      /\ UNCHANGED <<chip, chipPage, i2c, rd, error, task, writes>>
  BY StatusFacts DEF Succeeds, board
<1>2. task = "load" /\ i \in 1..Len(writes) /\ page = writes[i].page /\ op = WriteOf(writes[i])
  BY <1>1, LenType DEF Inv, OpInv, SetPage
<1>3. chipPage = page /\ out # "loaded"
  BY <1>2, LenType DEF Inv, PageInv, OpInv
<1>4. CASE LastTry
  <2>1. Holds(writes[i])
    BY <1>1, <1>2, <1>3 DEF Holds, WriteOf
  <2>2. GoodUpTo(i + 1)
    <3> SUFFICES ASSUME NEW j \in 1..Len(writes), j < i + 1, j # i,
                        \A m \in (j + 1)..Len(writes) :
                           m <= i + 1 => ~SameReg(writes[m], writes[j])
                 PROVE  Holds(writes[j])
      BY <2>1 DEF GoodUpTo
    <3>1. j < i /\ \A m \in (j + 1)..Len(writes) : m <= i => ~SameReg(writes[m], writes[j])
      BY <1>2, LenType DEF Inv
    <3> QED
      BY <3>1 DEF Inv, Good
  <2>3. i + 1 \in 1..(Len(writes) + 1) /\ WriteNext(i + 1, chipPage)
    BY <1>2, <1>3, <1>4, LenType DEF Inv
  <2> QED
    BY <1>1, <1>2, <1>3, <2>2, <2>3, NextWriteInv
<1>5. CASE ~LastTry
  <2>1. /\ tries' \in 1..Tries /\ pc' = "rw" /\ UNCHANGED <<op, i, page, out>>
    BY <1>5, TriesAssumption DEF Inv, TypeOK, LastTry, Counted
  <2>2. OpInv' /\ PageInv'
    BY <1>1, <1>2, <1>3, <2>1, LenType DEF Inv, OpInv, PageInv, GetPage, SetPage, WriteOf
  <2>3. op' \in Transaction
    BY <2>1 DEF Inv, TypeOK
  <2> QED
    BY <1>1, <2>1, <2>2, <2>3, SameCall
<1> QED
  BY <1>4, <1>5

LEMMA PageSetInv == ASSUME Inv, PageSet PROVE Inv'
<1> USE DEF PageSet
<1>1. /\ work' = NoWork /\ sends' = 0 /\ pc = "status" /\ pc' = "rw" /\ task = "load"
      /\ chipPage = page /\ i > 0 /\ op' = WriteOf(writes[i])
      /\ UNCHANGED <<chip, chipPage, i2c, rd, error, task, writes, i, page, tries, out>>
  BY StatusFacts DEF Succeeds, board, SetPage
<1>2. i \in 1..Len(writes) /\ page = writes[i].page
  BY <1>1, LenType DEF Inv, OpInv
<1>3. op' \in Transaction /\ tries' \in 1..Tries
  BY <1>1, <1>2, EntryType DEF Inv, TypeOK
<1>4. OpInv' /\ PageInv'
  BY <1>1, <1>2, LenType DEF Inv, OpInv, PageInv, SetPage, WriteOf
<1> QED
  BY <1>1, <1>3, <1>4, SameCall

LEMMA TuneInv == ASSUME Inv, Tune PROVE Inv'
<1> USE DEF Tune, Goto, board
<1>1. /\ pc = "align" /\ pc' = "reset" /\ sends' = 0 /\ task' = "tune" /\ op' = SetPage(0)
      /\ UNCHANGED <<chip, chipPage, i2c, work, rd, error, writes, i, page, tries, out>>
  OBVIOUS
<1>2. i = Len(writes) + 1 /\ i > 0 /\ work = NoWork
  BY <1>1, LenType DEF Inv, OpInv, WorkInv
<1>3. TypeOK'
  BY <1>1, PostType, TriesAssumption DEF Inv, TypeOK
<1>4. OpInv'
  BY <1>1, <1>2 DEF Inv, OpInv
<1>5. PageInv'
  <2>1. op' # WriteOf(PostAmble)
    BY <1>1, PostType DEF SetPage, WriteOf
  <2> QED
    BY <1>1, <2>1 DEF PageInv, WriteOf
<1>6. RegsInv' /\ WorkInv' /\ DoneInv'
  BY <1>1, <1>2 DEF RegsInv, WorkInv, DoneInv
<1> QED
  BY <1>1, <1>3, <1>4, <1>5, <1>6, GoodKept DEF Inv

LEMMA TunedInv == ASSUME Inv, Tuned PROVE Inv'
<1> USE DEF Tuned
<1>1. /\ work' = NoWork /\ sends' = 0 /\ pc = "status" /\ task = "tune"
      /\ op = SetPage(0) => chipPage = 0
      /\ UNCHANGED <<chip, chipPage, i2c, rd, error, task, writes, i, page, tries, out>>
  BY StatusFacts DEF Succeeds, board, SetPage
<1>2. i = Len(writes) + 1 /\ op \in {SetPage(0), WriteOf(PostAmble)}
  BY <1>1 DEF Inv, OpInv
<1>3. CASE op = SetPage(0)
  <2>1. op' = WriteOf(PostAmble) /\ pc' = "reset" /\ tries' \in 1..Tries
    BY <1>1, <1>3 DEF Inv, TypeOK
  <2>2. OpInv' /\ PageInv'
    BY <1>1, <1>2, <1>3, <2>1, LenType DEF Inv, OpInv, PageInv, WriteOf
  <2> QED
    BY <1>1, <2>1, <2>2, PostType, SameCall
<1>4. CASE op # SetPage(0)
  <2>1. pc' = "align" /\ op' = op
    BY <1>4
  <2>2. TypeOK'
    BY <1>1, <2>1, TriesAssumption DEF Inv, TypeOK
  <2>3. OpInv' /\ RegsInv' /\ WorkInv' /\ PageInv' /\ DoneInv'
    BY <1>1, <1>2, <2>1, LenType
    DEF Inv, OpInv, RegsInv, WorkInv, PageInv, DoneInv, GetPage, SetPage, WriteOf
  <2> QED
    BY <1>1, <2>2, <2>3, GoodKept DEF Inv
<1> QED
  BY <1>3, <1>4

LEMMA RetryInv == ASSUME Inv, Retry PROVE Inv'
<1> USE DEF Retry, Goto, ResetI2c
<1>1. /\ pc = "caught" /\ sends' = 0 /\ task = "load" /\ op.rw = "wr"
      /\ UNCHANGED <<chip, chipPage, i2c, rd, error, op, task, writes, i, page>>
      /\ \/ LastTry /\ pc' = "idle" /\ out' = "error" /\ UNCHANGED tries
         \/ ~LastTry /\ pc' = "rw" /\ Counted /\ UNCHANGED out
  BY DEF Caught
<1>2. i > 0 /\ i <= Len(writes) /\ work' = NoWork
  BY <1>1, LenType DEF Inv, OpInv, WorkInv, GetPage
<1>3. tries' \in 1..Tries
  BY <1>1, TriesAssumption DEF Inv, TypeOK, LastTry, Counted
<1>4. TypeOK'
  BY <1>1, <1>2, <1>3, PostType, TriesAssumption DEF Inv, TypeOK
<1>5. OpInv' /\ PageInv'
  BY <1>1, <1>2, LenType DEF Inv, OpInv, PageInv, WriteOf, SetPage
<1>6. RegsInv' /\ WorkInv' /\ DoneInv'
  BY <1>1, <1>2 DEF RegsInv, WorkInv, DoneInv
<1> QED
  BY <1>1, <1>4, <1>5, <1>6, GoodKept DEF Inv
-----------------------------------------------------------------------------
(* The theorems                                                            *)

\* Every step of the load, the controller and the chip keeps the invariant.
THEOREM NextInv == Inv /\ [Next]_vars => Inv'
<1> SUFFICES ASSUME Inv, [Next]_vars PROVE Inv'
  OBVIOUS
<1>1. ASSUME NEW l \in Lists, Load(l) PROVE Inv'
  BY <1>1, LoadInv
<1>2. CASE Transact
  BY <1>2, SetsInv, PollsInv, RunInv, ResetsInv DEF Transact
<1>3. CASE Proceed
  BY <1>3, ResetsInv, PageReadInv, PageSetInv, WrittenInv, RetryInv, EndsInv, TunedInv
  DEF Proceed
<1>4. CASE Tune \/ Aligned \/ AccessFails
  BY <1>4, TuneInv, EndsInv
<1>5. CASE Transfer
  BY <1>5, TransferInv
<1>6. CASE UNCHANGED vars
  <2>1. TypeOK' /\ OpInv' /\ RegsInv'
    BY <1>6 DEF vars, Inv, TypeOK, OpInv, RegsInv, Matches, GetPage, SetPage, WriteOf
  <2>2. WorkInv' /\ PageInv' /\ DoneInv'
    BY <1>6 DEF vars, Inv, WorkInv, PageInv, DoneInv, Matches, Harmless, WriteOf
  <2> QED
    BY <1>6, <2>1, <2>2, GoodKept DEF vars, Inv
<1> QED
  BY <1>1, <1>2, <1>3, <1>4, <1>5, <1>6 DEF Next, Step

\* The inductive invariant holds in every state.
THEOREM InvHolds == Spec => []Inv
<1> QED
  BY InitInv, NextInv, PTL DEF Spec

\* The state of the load and of the controller stays in its types, for any list,
\* any bytes and any number of tries.
THEOREM TypeCorrect == Spec => []TypeOK
<1>1. Inv => TypeOK
  BY DEF Inv
<1> QED
  BY <1>1, InvHolds, PTL

\* LoadConfigDTS_SI5344: a list reported as loaded is in the chip, whatever errors
\* it met and whatever an earlier load has left at work.
THEOREM ListIsLoaded == Spec => []Loaded
<1>1. Inv => Loaded
  BY LoadedFollows
<1> QED
  BY <1>1, InvHolds, PTL

\* One step changes the chip by what is due only.
LEMMA StepIsDue ==
  ASSUME Inv, [Next]_vars, NEW p \in Byte, NEW r \in Byte,
         chip'[p][r] # chip[p][r], ~(pc = "idle" /\ pc' = "reset")
  PROVE  [page |-> p, reg |-> r, val |-> chip'[p][r]] \in Due
<1>1. CASE Transfer
  <2>1. work # NoWork /\ \E t \in {work, i2c} : Effect(t)
    BY <1>1 DEF Transfer
  <2> QED
    BY <2>1, EffectOnChip
<1>2. ASSUME NEW l \in Lists, Load(l) PROVE FALSE
  BY <1>2 DEF Load, Goto
<1>3. CASE Transact
  BY <1>3 DEF Transact, SetRw, SetAddr, SetData, Wait, Run, Poll, Clear, Sets, ResetI2c, board
<1>4. CASE Proceed
  BY <1>4 DEF Proceed, ResetFirst, PageRead, PageSet, Written, Retry, NotCaught, Tuned,
              Succeeds, ResetI2c, board
<1>5. CASE Tune \/ Aligned \/ AccessFails
  BY <1>5 DEF Tune, Aligned, AccessFails, board
<1>6. CASE UNCHANGED vars
  BY <1>6 DEF vars
<1> QED
  BY <1>1, <1>2, <1>3, <1>4, <1>5, <1>6 DEF Next, Step

\* The chip takes the bytes of the list in their order and on their pages, and
\* nothing else but the remainder of an earlier load.
THEOREM NothingElse == Spec => OnlyWhatIsDue
<1>1. Inv /\ [Next]_vars =>
        [\A p, r \in Byte :
           chip'[p][r] # chip[p][r] /\ ~(pc = "idle" /\ pc' = "reset") =>
             [page |-> p, reg |-> r, val |-> chip'[p][r]] \in Due]_vars
  BY StepIsDue
<1> QED
  BY <1>1, InvHolds, PTL DEF Spec, OnlyWhatIsDue
=============================================================================
