------------------------------ MODULE ClockChip ------------------------------
(***************************************************************************)
(* Loading a clock chip of the WIB over I2C: LoadConfigDTS_SI5344          *)
(* (src/WIB1/WIB_SI5344.cpp; LoadConfigDAQ_SI5342 is the same code) writes *)
(* a list of bytes, each in a page of the chip, by ReadI2C and WriteI2C    *)
(* (src/WIB1/WIBBase.cpp), and InitializeDTS (src/WIB1/WIB_DTS.cpp) goes   *)
(* on to write one more whenever the timing system does not align.         *)
(*                                                                         *)
(* The I2C controller of the WIB carries out a transaction by itself.  It  *)
(* may keep the registers it was started with or look at them again, may   *)
(* or may not be stopped by its reset, and may report an error although    *)
(* the chip has taken the byte.                                            *)
(***************************************************************************)
EXTENDS Naturals, Sequences

CONSTANTS Byte,       \* addresses, pages and values
          PageReg,    \* the register that selects the page, 0x1
          Lists,      \* the contents of configuration files
          PostAmble,  \* 0x1 into 0x1C of page 0
          Tries,      \* iTries, 10
          RetryCount  \* writes of a register until WriteWithRetry gives up, 10

Entry == [page : Byte, reg : Byte \ {PageReg}, val : Byte]

ASSUME ByteAssumption  == 0 \in Byte /\ PageReg \in Byte
ASSUME ListsAssumption == Lists \subseteq Seq(Entry)
ASSUME PostAssumption  == PostAmble \in Entry /\ PostAmble.page = 0
ASSUME TriesAssumption == Tries \in Nat \ {0} /\ RetryCount \in Nat \ {0}

VARIABLES chip,      \* [page -> [reg -> value]]: the registers of the chip
          chipPage,  \* its page register
          i2c,       \* RW, ADDR, WR_DATA of the controller
          work,      \* the transaction at work: DONE reads 0
          rd, error, \* RD_DATA, ERROR
          pc,
          op,        \* the arguments of ReadI2C or WriteI2C
          task,      \* "load", or "tune": the write in the alignment loop
          writes, i, page, tries,  \* local to LoadConfig; i is 0 until page is read
          sends,     \* writes of RUN that were not acknowledged
          out

board == <<chip, chipPage, i2c, work, rd, error>>
local == <<op, task, writes, i, page, tries>>
vars  == <<chip, chipPage, i2c, work, rd, error, pc, op, task, writes, i, page, tries,
           sends, out>>

Transaction == [rw : {"rd", "wr"}, addr : Byte, data : Byte]
NoWork      == [rw |-> "none"]

\* GetDTS_SI5344Page, SetDTS_SI5344Page and WriteDTS_SI5344.
GetPage    == [rw |-> "rd", addr |-> PageReg, data |-> 0]
SetPage(p) == [rw |-> "wr", addr |-> PageReg, data |-> p]
WriteOf(w) == [rw |-> "wr", addr |-> w.reg, data |-> w.val]

PowerUp == [p \in Byte |-> [r \in Byte |-> 0]]

Init == /\ chip = PowerUp
        /\ chipPage = 0
        /\ i2c = GetPage
        /\ work = NoWork
        /\ rd = 0
        /\ error = FALSE
        /\ pc = "idle"
        /\ op = GetPage
        /\ task = "load"
        /\ writes \in Lists
        /\ i = 0
        /\ page = 0
        /\ tries = Tries
        /\ sends = 0
        /\ out = "none"
-----------------------------------------------------------------------------
(* The controller and the chip                                             *)

\* A transaction that reaches the chip.
Effect(t) ==
  /\ chip' = IF t.rw = "wr" /\ t.addr # PageReg
             THEN [chip EXCEPT ![chipPage][t.addr] = t.data] ELSE chip
  /\ chipPage' = IF t.rw = "wr" /\ t.addr = PageReg THEN t.data ELSE chipPage
  /\ rd' = IF t.rw = "wr" THEN rd
           ELSE IF t.addr = PageReg THEN chipPage ELSE chip[chipPage][t.addr]

Transfer ==
  /\ work # NoWork
  /\ work' = NoWork
  /\ \/ \E t \in {work, i2c} : Effect(t) /\ error' \in BOOLEAN
     \/ error' = TRUE /\ UNCHANGED <<chip, chipPage, rd>>
  /\ UNCHANGED <<i2c, pc, local, sends, out>>

\* I2C.RESET.
ResetI2c == work' \in {work, NoWork} /\ UNCHANGED <<chip, chipPage, i2c, rd, error>>
-----------------------------------------------------------------------------
(* ReadI2C and WriteI2C, called with op from pc = "rw"                     *)

Goto(from, to) == pc = from /\ pc' = to /\ sends' = 0
Sets(field, v) == /\ i2c' = [i2c EXCEPT ![field] = v]
                  /\ UNCHANGED <<chip, chipPage, work, rd, error, local, out>>

SetRw   == Goto("rw", "addr") /\ Sets("rw", op.rw)
SetAddr == Goto("addr", IF op.rw = "wr" THEN "data" ELSE "wait") /\ Sets("addr", op.addr)
SetData == Goto("data", "wait") /\ Sets("data", op.data)

\* The polls of DONE, before and after, have no timeout.
WaitNot == Goto("wait", "run") /\ UNCHANGED <<board, local, out>>
Wait    == work = NoWork /\ Goto("wait", "run") /\ UNCHANGED <<board, local, out>>
Poll    == work = NoWork /\ Goto("poll", "status") /\ UNCHANGED <<board, local, out>>

\* RUN is written until that is acknowledged; a transaction may start each time.
Run == /\ pc = "run"
       /\ work' = IF work = NoWork THEN i2c ELSE work
       /\ \/ pc' = "poll" /\ sends' = 0
          \/ sends + 1 < RetryCount /\ sends' = sends + 1 /\ UNCHANGED pc
       /\ UNCHANGED <<chip, chipPage, i2c, rd, error, local, out>>

IgnoreError == FALSE
Failed      == error

\* ERROR: the controller is reset and WIB_ERROR is thrown.
Clear == /\ Failed
         /\ Goto("status", "caught")
         /\ ResetI2c
         /\ UNCHANGED <<local, out>>
-----------------------------------------------------------------------------
(* LoadConfig and the alignment loop                                       *)

\* InitializeDTS holds the chip in reset for seconds first, the set-up of the
\* local clock does not.
Load(l) == /\ pc = "idle"
           /\ \/ UNCHANGED <<chip, chipPage, work>>
              \/ chip' = PowerUp /\ chipPage' = 0 /\ work' = NoWork
           /\ Goto("idle", "reset")
           /\ op' = GetPage
           /\ task' = "load"
           /\ writes' = l
           /\ i' = 0
           /\ tries' = Tries
           /\ out' = "none"
           /\ UNCHANGED <<i2c, rd, error, page>>

ResetFirst == Goto("reset", "rw") /\ ResetI2c /\ UNCHANGED <<local, out>>

Succeeds == ~Failed /\ pc = "status" /\ sends' = 0 /\ UNCHANGED board

\* The write at k is next, in its page, or all are done.
AnyPage(p, w)  == TRUE
SamePage(p, w) == p = w.page
WriteNext(k, p) ==
  /\ i' = k
  /\ tries' = Tries
  /\ IF k > Len(writes)
     THEN pc' = "align" /\ out' = "loaded" /\ page' = p /\ UNCHANGED op
     ELSE /\ pc' = "rw"
          /\ page' = writes[k].page
          /\ op' = IF SamePage(p, writes[k]) THEN WriteOf(writes[k]) ELSE SetPage(writes[k].page)
          /\ UNCHANGED out

PageRead == /\ Succeeds
            /\ op.rw = "rd"
            /\ WriteNext(1, rd)
            /\ UNCHANGED <<task, writes>>

PageSet == /\ Succeeds
           /\ task = "load"
           /\ op = SetPage(page)
           /\ op' = WriteOf(writes[i])
           /\ pc' = "rw"
           /\ UNCHANGED <<task, writes, i, page, tries, out>>

\* The loop over the tries has no break: each byte is written Tries times.
LastTryLate == tries = 0
LastTry     == tries = 1
NotCounted  == tries' = tries
Counted     == tries' = tries - 1
Written == /\ Succeeds
           /\ task = "load"
           /\ op.rw = "wr" /\ op.addr # PageReg
           /\ IF LastTry THEN WriteNext(i + 1, page)
                         ELSE Counted /\ pc' = "rw" /\ UNCHANGED <<op, i, page, out>>
           /\ UNCHANGED <<task, writes>>

\* WIB_ERROR of a write of the list is caught, the controller reset again.
Caught == task = "load" /\ op.rw = "wr" /\ op.addr # PageReg
Retry == /\ Goto("caught", IF LastTry THEN "idle" ELSE "rw")
         /\ Caught
         /\ ResetI2c
         /\ IF LastTry THEN out' = "error" /\ UNCHANGED tries ELSE Counted /\ UNCHANGED out
         /\ UNCHANGED <<op, task, writes, i, page>>

\* Elsewhere it ends the command.
NotCaught == /\ Goto("caught", "idle")
             /\ ~Caught
             /\ out' = "error"
             /\ UNCHANGED <<board, local>>

\* The timing system does not align: the controller is reset, page 0 selected,
\* the controller is reset, the byte written.
Tune == /\ Goto("align", "reset")
        /\ task' = "tune"
        /\ op' = SetPage(0)
        /\ UNCHANGED <<board, writes, i, page, tries, out>>

Tuned == /\ Succeeds
         /\ task = "tune"
         /\ IF op = SetPage(0) THEN op' = WriteOf(PostAmble) /\ pc' = "reset"
                               ELSE pc' = "align" /\ UNCHANGED op
         /\ UNCHANGED <<task, writes, i, page, tries, out>>

\* The timing system has aligned, or there is no alignment: the local clock.
Aligned == Goto("align", "idle") /\ UNCHANGED <<board, local, out>>

\* A register access fails, or the application dies.  A write that fails may have
\* been applied: this step comes before it or after it.
AccessFails == /\ pc # "idle"
               /\ pc' = "idle"
               /\ sends' = 0
               /\ out' = "error"
               /\ UNCHANGED <<board, local>>
-----------------------------------------------------------------------------
Transact == SetRw \/ SetAddr \/ SetData \/ Wait \/ Run \/ Poll \/ Clear
Proceed  == ResetFirst \/ PageRead \/ PageSet \/ Written \/ Retry \/ NotCaught \/ Tuned
Step == Transact \/ Proceed
Next == \/ \E l \in Lists : Load(l)
        \/ Step \/ Tune \/ Aligned \/ AccessFails \/ Transfer

Spec     == Init /\ [][Next]_vars
\* A call runs on by itself; nothing is assumed of the controller.
FairSpec == Spec /\ WF_vars(Step)
-----------------------------------------------------------------------------
TypeOK == /\ chip \in [Byte -> [Byte -> Byte]]
          /\ chipPage \in Byte
          /\ i2c \in Transaction
          /\ work \in Transaction \cup {NoWork}
          /\ rd \in Byte
          /\ error \in BOOLEAN
          /\ pc \in {"idle", "reset", "rw", "addr", "data", "wait", "run", "poll", "status",
                     "caught", "align"}
          /\ op \in Transaction
          /\ task \in {"load", "tune"}
          /\ writes \in Lists
          /\ i \in 0..(Len(writes) + 1)
          /\ page \in Byte
          /\ tries \in 1..Tries
          /\ sends \in 0..(RetryCount - 1)
          /\ out \in {"none", "loaded", "error"}

\* A list that is reported as loaded is in the chip: each register holds the last
\* value the list gives it, on its own page, whatever page, transaction or errors
\* the load has met.  The write of the alignment loop may come on top.
SameReg(v, w) == v.page = w.page /\ v.reg = w.reg
LastOf(j) == \A k \in (j + 1)..Len(writes) : ~SameReg(writes[k], writes[j])
Loaded == out = "loaded" => \A j \in 1..Len(writes) :
  LastOf(j) => \/ chip[writes[j].page][writes[j].reg] = writes[j].val
               \/ /\ SameReg(PostAmble, writes[j])
                  /\ chip[PostAmble.page][PostAmble.reg] = PostAmble.val

\* The chip takes nothing but the byte that is due, in its page and in the order of
\* the list, also from a transaction that is still at work when a load has failed.
\* What is still at work when the next load begins is a byte of an earlier one, never
\* a mixture of the two.
AllWrites == {PostAmble} \cup UNION {{l[k] : k \in DOMAIN l} : l \in Lists}
Due == IF i = 0 THEN AllWrites
       ELSE IF task = "tune" THEN {PostAmble} ELSE {writes[i]}
OnlyWhatIsDue ==
  [][\A p, r \in Byte :
       chip'[p][r] # chip[p][r] /\ ~(pc = "idle" /\ pc' = "reset") =>
         [page |-> p, reg |-> r, val |-> chip'[p][r]] \in Due]_vars

\* If the controller ends its transactions every load ends: the loop over the tries,
\* which an error does not leave, does not go on for ever.
EndsIfI2cDoes == []<>(work = NoWork) => ((pc # "idle") ~> (pc \in {"idle", "align"}))
=============================================================================
