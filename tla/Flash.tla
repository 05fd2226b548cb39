-------------------------------- MODULE Flash --------------------------------
(***************************************************************************)
(* The configuration flash of the WIB (src/WIB1/WIB_Flash.cpp): ProgramFlash *)
(* erases it, writes an image page by page and reads it back to compare;   *)
(* EraseFlash, CheckFlash and ReadFlash may also be called by themselves.  *)
(*                                                                         *)
(* The flash runs a command by itself once RUN_COMMAND is written, with the *)
(* address, the byte count and the page buffer in the WIB's registers, and *)
(* is BUSY until it is done.  The code polls BUSY; it never looks at the   *)
(* error bits of the flash, and a command of its own may fail or time out  *)
(* and leave the flash at work.  That the firmware reads a page when the    *)
(* code writes 0x5 to RUN_COMMAND is assumed: its address table has another *)
(* number for that (CommandsAsNamed).                                       *)
(***************************************************************************)
EXTENDS Integers, Sequences

CONSTANTS Page,         \* words of the page buffer, 64
          Capacity,     \* words of the flash, 16*1024*1024/4
          Val,          \* words of an image
          Erased, Junk, \* an erased word, a word that was not written properly
          Images,       \* the contents of firmware files
          FlashTimeout, \* FLASH_TIMEOUT, 400
          RetryCount    \* writes of a register until WriteWithRetry gives up, 10

Cell == Val \cup {Erased, Junk}

ASSUME SizeAssumption  == /\ Page \in Nat \ {0}
                          /\ Capacity \in Nat \ {0}
                          /\ Capacity % Page = 0
ASSUME ValueAssumption == Erased \notin Val /\ Junk \notin Val \cup {Erased}
\* firmwareFromIntelHexFile refuses an empty image and fills gaps with 0xFF.
ASSUME ImageAssumption == Images \subseteq Seq(Val \cup {Erased}) \ {<<>>}
ASSUME CountAssumption == FlashTimeout \in Nat /\ RetryCount \in Nat \ {0}

VARIABLES mem,    \* the flash
          busy,   \* the command it executes, or "none"
          addr, size, buf,  \* FLASH.ADDRESS, BYTE_COUNT (in words), DATA00..63
          dnd,    \* SYSTEM.SLOW_CONTROL_DND
          todo,   \* what the call still has to do, <<>> between calls
          pc,
          image,  \* flashData
          idx,    \* currentBlockStartIndex, or iWord
          tries,  \* iTimeout of a poll, register writes of RUN_COMMAND
          dump,   \* what ReadFlash has written to its file
          out     \* how the last call ended

flash == <<mem, busy>>
regs  == <<addr, size, buf>>
call  == <<todo, pc, image, idx, tries, dump, out>>
vars  == <<mem, busy, addr, size, buf, dnd, todo, pc, image, idx, tries, dump, out>>

Init == /\ mem \in [0..(Capacity - 1) -> {Erased, Junk}]
        /\ busy = "none"
        /\ addr = 0
        /\ size = 1
        /\ buf = [k \in 0..(Page - 1) |-> Erased]
        /\ dnd = FALSE
        /\ todo = <<>>
        /\ pc = "begin"
        /\ image \in Images
        /\ idx = 0
        /\ tries = 0
        /\ dump = <<>>
        /\ out = "none"

\* FLASH.ADDRESS has as many bits as the flash needs.
Wrap(a) == IF a < Capacity THEN a ELSE a % Capacity

Stage == Head(todo)
In(s) == todo # <<>> /\ Stage = s
-----------------------------------------------------------------------------
(* The flash                                                               *)

\* Programming clears bits, so only an erased word takes any value.
Programmed(old, new) == CASE old = Erased                  -> new
                          [] new \in {Erased, old}         -> old
                          [] OTHER                         -> Junk
Offset(c)  == IF c >= addr THEN c - addr ELSE c + Capacity - addr
InBlock(c) == Offset(c) < size

\* A command that works.
Worked(m) == CASE busy = "erase" -> [c \in DOMAIN m |-> Erased]
               [] busy = "write" -> [c \in DOMAIN m |->
                     IF InBlock(c) THEN Programmed(m[c], buf[Offset(c)]) ELSE m[c]]
               [] OTHER          -> m
\* One that does not, with an error bit that nobody reads.
Spoilt(m) == [c \in DOMAIN m |-> IF busy = "write" /\ InBlock(c) THEN Junk ELSE m[c]]

FlashDone == /\ busy # "none"
             /\ mem' \in {Worked(mem), Spoilt(mem)}
             /\ buf' = IF busy = "read"
                       THEN [k \in DOMAIN buf |->
                               IF k < size THEN mem[Wrap(addr + k)] ELSE buf[k]]
                       ELSE buf
             /\ busy' = "none"
             /\ UNCHANGED <<addr, size, dnd, call>>

\* A command is ignored while another one runs.
Started(c) == IF busy = "none" THEN c ELSE busy
-----------------------------------------------------------------------------
(* Steps of a call                                                         *)

Ends(e) == /\ todo' = <<>> /\ out' = e
           /\ pc' = "begin" /\ tries' = 0
           /\ UNCHANGED <<image, idx, dump>>
Throws  == Ends("error") /\ UNCHANGED <<flash, regs, dnd>>

\* iTimeout starts anew in each busy loop.
To(p) == pc' = p /\ tries' = (IF p \in {"busy", "wait"} THEN FlashTimeout ELSE 0)

NextStage == /\ todo' = Tail(todo)
             /\ out' = IF Len(todo) = 1 THEN "done" ELSE out
             /\ idx' = 0
             /\ To("begin")

Call(work, img, first) ==
  /\ todo = <<>>
  /\ todo' = work
  /\ image' = img
  /\ To(first)
  /\ idx' = 0
  /\ dump' = <<>>
  /\ out' = "none"
  /\ UNCHANGED <<flash, regs, dnd>>

\* Programming keeps the slow control away.
ProgramFlash(img) == Call(<<"dnd", "erase", "write", "check", "free">>, img, "begin")
EraseFlash        == Call(<<"erase">>, image, "begin")
CheckFlash(img)   == Call(<<"check">>, img, "begin")
ReadFlash         == Call(<<"read">>, image, "size")

\* The flag is set before the file is read, and stays when that throws.
DndOn == /\ In("dnd")
         /\ \/ dnd' = TRUE /\ NextStage /\ UNCHANGED <<image, dump>>
            \/ dnd' \in {dnd, TRUE} /\ Ends("error")
         /\ UNCHANGED <<flash, regs>>

DndOff == /\ In("free")
          /\ \/ dnd' = FALSE /\ NextStage /\ UNCHANGED <<image, dump>>
             \/ dnd' \in {dnd, FALSE} /\ Ends("error")
          /\ UNCHANGED <<flash, regs>>

\* RUN_COMMAND is written until the write is acknowledged; each write may reach
\* the flash.
RunCommand(c, then) ==
  /\ \/ busy' = Started(c) /\ then
     \/ /\ tries + 1 < RetryCount
        /\ busy' \in {busy, Started(c)}
        /\ tries' = tries + 1
        /\ UNCHANGED <<todo, pc, idx, out>>
     \/ /\ busy' \in {busy, Started(c)}
        /\ Ends("error")
  /\ UNCHANGED <<mem, regs, dnd, image, dump>>

\* EraseFlash does not look at BUSY before.
Erase == /\ In("erase") /\ pc = "begin"
         /\ RunCommand("erase", To("wait") /\ UNCHANGED <<todo, idx, out>>)

\* One poll of BUSY in FlashCheckBusy and EraseFlash.  Once iTimeout is 0 the loop
\* throws, also when the last poll has found the flash ready.
CountPoll == tries' = tries - 1
Polled == IF Stage = "erase" THEN NextStage
          ELSE /\ To(IF pc = "busy" THEN "setup" ELSE "take")
               /\ UNCHANGED <<todo, idx, out>>
Poll == /\ todo # <<>> /\ pc \in {"busy", "wait"}
        /\ \/ Throws
           \/ /\ IF busy # "none" /\ tries # 0
                 THEN CountPoll /\ UNCHANGED <<todo, pc, image, idx, dump, out>>
                 ELSE IF tries = 0 THEN Ends("timeout")
                                   ELSE Polled /\ UNCHANGED <<image, dump>>
              /\ UNCHANGED <<flash, regs, dnd>>

\* WriteFlash goes to the end of the image, CheckFlash and ReadFlash to the end
\* of the flash.
MoreOrEqual == IF Stage = "write" THEN idx <= Len(image) ELSE idx < Capacity
More == IF Stage = "write" THEN idx < Len(image) ELSE idx < Capacity
NextUnpolled == /\ todo # <<>> /\ Stage \in {"write", "check", "read"} /\ pc = "begin"
                /\ IF More THEN To("setup") /\ UNCHANGED <<todo, idx, out>> ELSE NextStage
                /\ UNCHANGED <<flash, regs, dnd, image, dump>>
NextBlock == /\ todo # <<>> /\ Stage \in {"write", "check", "read"} /\ pc = "begin"
             /\ IF More THEN To("busy") /\ UNCHANGED <<todo, idx, out>> ELSE NextStage
             /\ UNCHANGED <<flash, regs, dnd, image, dump>>

\* min(64, words left); past the end of the image it is 0, and the byte count of 0
\* words, -1, has eight bits: 256 bytes.
Block == IF Stage = "read" \/ Len(image) - idx > Page THEN Page ELSE Len(image) - idx
ByteCount == IF Block = 0 THEN Page ELSE Block

\* The registers a block needs.
Filled(k) == [j \in DOMAIN buf |-> IF j < k THEN image[idx + j + 1] ELSE buf[j]]
Setup ==
  /\ todo # <<>> /\ pc = "setup"
  /\ LET a == Wrap(idx)
         s == IF Stage = "read" THEN size ELSE ByteCount
         n == IF Stage = "write" THEN Block ELSE 0
     IN  \/ /\ addr' = a /\ size' = s /\ buf' = Filled(n)
            /\ To("run")
            /\ UNCHANGED <<todo, image, idx, dump, out>>
         \/ /\ \/ addr' \in {addr, a} /\ UNCHANGED <<size, buf>>
               \/ addr' = a /\ size' = s /\ buf' \in {Filled(k) : k \in 0..n}
            /\ Ends("error")
  /\ UNCHANGED <<flash, dnd>>

\* ReadFlash sets the byte count once, before it looks at BUSY.
SetSize == /\ In("read") /\ pc = "size"
           /\ \/ size' = Page /\ To("begin") /\ UNCHANGED <<todo, image, idx, dump, out>>
              \/ size' \in {size, Page} /\ Ends("error")
           /\ UNCHANGED <<flash, addr, buf, dnd>>

\* What the code writes to RUN_COMMAND for each command, the run bit included.
RunCode == [write |-> 1, read |-> 5, erase |-> 7]
Run == /\ todo # <<>> /\ pc = "run"
       /\ IF Stage = "write"
          THEN RunCommand("write", idx' = idx + Block /\ To("begin") /\ UNCHANGED <<todo, out>>)
          ELSE RunCommand("read", To("wait") /\ UNCHANGED <<todo, idx, out>>)

\* CheckFlash compares the page with the image, ReadFlash copies it.
FirstWord == Block > 0 => buf[0] = image[idx + 1]
Matches   == \A k \in 0..(Block - 1) : buf[k] = image[idx + k + 1]
Take == /\ todo # <<>> /\ pc = "take"
        /\ \/ Throws
           \/ /\ Stage = "check" /\ ~Matches
              /\ Ends("mismatch")
              /\ UNCHANGED <<flash, regs, dnd>>
           \/ /\ Stage = "check" => Matches
              /\ dump' = IF Stage = "read" THEN dump \o [k \in 1..Page |-> buf[k - 1]] ELSE dump
              /\ idx' = idx + Block
              /\ To("begin")
              /\ UNCHANGED <<flash, regs, dnd, todo, image, out>>

\* The application dies; the flash goes on.
Crash == /\ todo # <<>>
         /\ Ends("crash")
         /\ UNCHANGED <<flash, regs, dnd>>
-----------------------------------------------------------------------------
Calls == \/ \E img \in Images : ProgramFlash(img) \/ CheckFlash(img)
         \/ EraseFlash \/ ReadFlash
Step  == DndOn \/ DndOff \/ Erase \/ Poll \/ NextBlock \/ Setup \/ SetSize \/ Run \/ Take
Next  == Calls \/ Step \/ FlashDone \/ Crash

Spec     == Init /\ [][Next]_vars
\* A call runs on by itself; nothing is assumed of the flash.
FairSpec == Spec /\ WF_vars(Step)
-----------------------------------------------------------------------------
Stages == {"dnd", "erase", "write", "check", "free", "read"}
TypeOK == /\ mem \in [0..(Capacity - 1) -> Cell]
          /\ busy \in {"none", "erase", "write", "read"}
          /\ addr \in 0..(Capacity - 1)
          /\ size \in 1..Page
          /\ buf \in [0..(Page - 1) -> Cell]
          /\ dnd \in BOOLEAN
          /\ todo \in Seq(Stages)
          /\ pc \in {"begin", "size", "busy", "setup", "run", "wait", "take"}
          /\ image \in Images
          /\ idx \in Nat
          /\ tries \in Nat
          /\ dump \in Seq(Cell)
          /\ out \in {"none", "done", "error", "timeout", "mismatch", "crash"}

\* What CheckFlash has been through holds the image, as far as the image goes, and
\* so does the whole flash when ProgramFlash lets the slow control in again:
\* whatever errors of the flash nobody read, whatever an earlier call left running
\* or half done.
Checked   == IF In("check") THEN idx ELSE IF In("free") THEN Capacity ELSE 0
ChecksOut == \A k \in DOMAIN mem :
               k < Checked /\ k < Len(image) => mem[k] = image[k + 1]

\* When ReadFlash returns its file holds the flash.
ReadsAll == out = "done" /\ dump # <<>> =>
  Len(dump) = Capacity /\ \A k \in 0..(Capacity - 1) : dump[k + 1] = mem[k]

\* The flash never finds its address or page buffer changed while a command
\* runs, also one that an earlier call has started and given up.  (The byte count
\* is another matter: ReadFlash sets it before it looks at BUSY.)
BufferHeld == [][busy # "none" /\ busy' = busy => addr' = addr /\ buf' = buf]_vars

\* Every call ends, or has come to check an image that is shorter than the flash,
\* even if the flash never does: each busy loop has a timeout.
EndsUnlessShort == (todo # <<>>) ~>
                     (todo = <<>> \/ (In("check") /\ Len(image) < Capacity))
-----------------------------------------------------------------------------
(* What a comment and an address table say and the code does not do.       *)

\* CheckFlash ends for any image: "usually just 64 (256bytes), but the last one
\* might be smaller".
CheckEnds == (todo # <<>>) ~> (todo = <<>>)

\* A command the code has started is the one its code in RUN_COMMAND stands for in
\* WIB_FLASH.adt: "2..1 specifies command", "00:write 01:read 11:erase".
Named(code) == CASE (code \div 2) % 4 = 0 -> "write" [] (code \div 2) % 4 = 1 -> "read"
                 [] (code \div 2) % 4 = 3 -> "erase" [] OTHER                 -> "none"
CommandsAsNamed == busy # "none" => Named(RunCode[busy]) = busy
=============================================================================
