----------------------------- MODULE Flash_proofs -----------------------------
(***************************************************************************)
(* What CheckFlash compares is what is in the flash, for any sizes, images *)
(* and time-outs: the argument is that no command but its own reads can be *)
(* at work once its first busy loop has ended (Working), and that the page *)
(* buffer then holds the block asked for when BUSY is gone (Fetched).  The *)
(* same argument, for a copy of the flash, is ReadInv.                     *)
(***************************************************************************)
EXTENDS Flash, TLAPS

\* What may be left to do of a call.
Plans == { <<>>, <<"read">>, <<"erase">>, <<"check">>, <<"free">>,
           <<"check", "free">>, <<"write", "check", "free">>,
           <<"erase", "write", "check", "free">>,
           <<"dnd", "erase", "write", "check", "free">> }

Loops == {"write", "check", "read"}

\* Where the control is in a stage.
Control ==
  /\ todo \in Plans
  /\ todo # <<>> =>
       /\ pc \in {"busy", "setup", "run"} => Stage \in Loops
       /\ pc = "take" => Stage \in {"check", "read"}
       /\ pc = "wait" => Stage \in {"erase", "check", "read"}
       /\ pc = "size" => Stage = "read"
       /\ Stage \in {"write", "check"} => idx <= Len(image)
       /\ Stage = "check" /\ pc \in {"busy", "setup", "run", "wait", "take"} =>
            idx < Capacity

\* No write and no erase is at work behind the check.
Working == (\/ In("check") /\ (idx > 0 \/ pc \in {"setup", "run", "wait", "take"})
            \/ In("free"))
           => busy \in {"none", "read"}

\* The read of a block: what is asked for, and what has come when BUSY is gone.
Fetched ==
  In("check") =>
    /\ pc \in {"run", "wait", "take"} => addr = Wrap(idx) /\ size = ByteCount
    /\ pc = "take" => busy = "none"
    /\ pc = "take" \/ (pc = "wait" /\ busy = "none") =>
         \A k \in 0..(size - 1) : buf[k] = mem[Wrap(addr + k)]

Inv == TypeOK /\ Control /\ Working /\ Fetched /\ ChecksOut
-----------------------------------------------------------------------------
(* Operators                                                               *)

LEMMA WrapType == ASSUME NEW a \in Nat PROVE Wrap(a) \in 0..(Capacity - 1)
  BY SizeAssumption DEF Wrap

LEMMA ImageType ==
  ASSUME NEW img \in Images
  PROVE  img \in Seq(Val \cup {Erased}) /\ Len(img) \in Nat \ {0}
<1>1. img \in Seq(Val \cup {Erased}) /\ img # <<>>
  BY ImageAssumption
<1> QED
  BY <1>1

LEMMA OffsetType ==
  ASSUME TypeOK, NEW c \in 0..(Capacity - 1) PROVE Offset(c) \in Nat
  BY SizeAssumption DEF TypeOK, Offset

\* A command leaves cells in the flash, and changes it only if it writes or erases.
LEMMA WorkedType ==
  ASSUME TypeOK
  PROVE  /\ Worked(mem) \in [0..(Capacity - 1) -> Cell]
         /\ Spoilt(mem) \in [0..(Capacity - 1) -> Cell]
         /\ busy \in {"none", "read"} => Worked(mem) = mem /\ Spoilt(mem) = mem
<1>1. mem \in [0..(Capacity - 1) -> Cell] /\ DOMAIN mem = 0..(Capacity - 1)
  BY DEF TypeOK
<1>2. Spoilt(mem) \in [0..(Capacity - 1) -> Cell]
  BY <1>1 DEF Spoilt, Cell
<1>3. Worked(mem) \in [0..(Capacity - 1) -> Cell]
  <2>1. CASE busy = "erase"
    BY <1>1, <2>1 DEF Worked, Cell
  <2>2. CASE busy = "write"
    <3>1. \A c \in 0..(Capacity - 1) :
            InBlock(c) => Programmed(mem[c], buf[Offset(c)]) \in Cell
      <4> SUFFICES ASSUME NEW c \in 0..(Capacity - 1), InBlock(c)
                   PROVE  Programmed(mem[c], buf[Offset(c)]) \in Cell
        OBVIOUS
      <4>1. Offset(c) \in 0..(Page - 1)
        BY OffsetType, SizeAssumption DEF TypeOK, InBlock
      <4>2. buf[Offset(c)] \in Cell /\ mem[c] \in Cell
        BY <1>1, <4>1 DEF TypeOK
      <4> QED
        BY <4>2 DEF Programmed, Cell
    <3> QED
      BY <1>1, <2>2, <3>1 DEF Worked
  <2>3. CASE busy \notin {"erase", "write"}
    BY <1>1, <2>3 DEF Worked
  <2> QED
    BY <2>1, <2>2, <2>3
<1>4. busy \in {"none", "read"} => Worked(mem) = mem /\ Spoilt(mem) = mem
  BY <1>1 DEF Worked, Spoilt
<1> QED
  BY <1>2, <1>3, <1>4

LEMMA BlockType ==
  ASSUME TypeOK, Control, todo # <<>>, Stage \in Loops
  PROVE  /\ Block \in 0..Page
         /\ ByteCount \in 1..Page
         /\ Stage \in {"write", "check"} => idx + Block <= Len(image)
<1>1. Page \in Nat \ {0} /\ idx \in Nat /\ Len(image) \in Nat
  BY SizeAssumption, ImageType DEF TypeOK
<1>2. Stage # "read" => idx <= Len(image)
  BY DEF Control, Loops
<1> QED
  BY <1>1, <1>2 DEF Block, ByteCount

\* The registers filled with the first words of the block.
LEMMA FilledType ==
  ASSUME TypeOK, Control, In("write"), NEW k \in 0..Block
  PROVE  Filled(k) \in [0..(Page - 1) -> Cell]
<1>1. /\ buf \in [0..(Page - 1) -> Cell]
      /\ image \in Seq(Val \cup {Erased}) /\ idx \in Nat
  BY ImageType DEF TypeOK
<1>2. idx + Block <= Len(image) /\ Block \in Nat
  BY BlockType DEF In, Loops
<1>3. \A j \in 0..(Page - 1) : j < k => image[idx + j + 1] \in Cell
  <2> SUFFICES ASSUME NEW j \in 0..(Page - 1), j < k PROVE image[idx + j + 1] \in Cell
    OBVIOUS
  <2>1. idx + j + 1 \in 1..Len(image)
    BY <1>1, <1>2, SizeAssumption
  <2> QED
    BY <1>1, <2>1 DEF Cell
<1> QED
  BY <1>1, <1>3 DEF Filled

LEMMA UnfilledType ==
  ASSUME TypeOK PROVE Filled(0) = buf
  BY SizeAssumption DEF Filled, TypeOK

LEMMA PlanFacts ==
  ASSUME NEW t \in Plans, t # <<>>
  PROVE  /\ Tail(t) \in Plans
         /\ Head(t) \in Stages
         /\ Tail(t) # <<>> /\ Head(Tail(t)) = "free" => Head(t) = "check"
<1>1. CASE t = <<"read">>
  <2>1. Tail(t) = <<>> /\ Head(t) = "read"
    BY <1>1
  <2> QED
    BY <2>1 DEF Plans, Stages
<1>2. CASE t = <<"erase">>
  <2>1. Tail(t) = <<>> /\ Head(t) = "erase"
    BY <1>2
  <2> QED
    BY <2>1 DEF Plans, Stages
<1>3. CASE t = <<"check">>
  <2>1. Tail(t) = <<>> /\ Head(t) = "check"
    BY <1>3
  <2> QED
    BY <2>1 DEF Plans, Stages
<1>4. CASE t = <<"free">>
  <2>1. Tail(t) = <<>> /\ Head(t) = "free"
    BY <1>4
  <2> QED
    BY <2>1 DEF Plans, Stages
<1>5. CASE t = <<"check", "free">>
  <2>1. Tail(t) = <<"free">> /\ Head(t) = "check"
    BY <1>5
  <2>2. Head(<<"free">>) = "free"
    OBVIOUS
  <2> QED
    BY <2>1, <2>2 DEF Plans, Stages
<1>6. CASE t = <<"write", "check", "free">>
  <2>1. Tail(t) = <<"check", "free">> /\ Head(t) = "write"
    BY <1>6
  <2>2. Head(<<"check", "free">>) = "check"
    OBVIOUS
  <2> QED
    BY <2>1, <2>2 DEF Plans, Stages
<1>7. CASE t = <<"erase", "write", "check", "free">>
  <2>1. Tail(t) = <<"write", "check", "free">> /\ Head(t) = "erase"
    BY <1>7
  <2>2. Head(<<"write", "check", "free">>) = "write"
    OBVIOUS
  <2> QED
    BY <2>1, <2>2 DEF Plans, Stages
<1>8. CASE t = <<"dnd", "erase", "write", "check", "free">>
  <2>1. Tail(t) = <<"erase", "write", "check", "free">> /\ Head(t) = "dnd"
    BY <1>8
  <2>2. Head(<<"erase", "write", "check", "free">>) = "erase"
    OBVIOUS
  <2> QED
    BY <2>1, <2>2 DEF Plans, Stages
<1> QED
  BY <1>1, <1>2, <1>3, <1>4, <1>5, <1>6, <1>7, <1>8 DEF Plans
-----------------------------------------------------------------------------
(* The initial states, and ways in which steps end                         *)

LEMMA InitInv == Init => Inv
<1> SUFFICES ASSUME Init PROVE Inv
  OBVIOUS
<1>1. TypeOK
  <2>1. mem \in [0..(Capacity - 1) -> Cell] /\ buf \in [0..(Page - 1) -> Cell]
    BY DEF Init, Cell
  <2>2. addr \in 0..(Capacity - 1) /\ size \in 1..Page
    BY SizeAssumption DEF Init
  <2>3. todo \in Seq(Stages) /\ dump \in Seq(Cell)
    BY DEF Init
  <2> QED
    BY <2>1, <2>2, <2>3 DEF Init, TypeOK
<1>2. Control /\ Working /\ Fetched
  BY DEF Init, Control, Plans, Working, Fetched, In
<1>3. ChecksOut
  BY SizeAssumption DEF Init, ChecksOut, Checked, In
<1> QED
  BY <1>1, <1>2, <1>3 DEF Inv

\* A step that leaves no call to go on with needs only its types.
LEMMA EndInv == ASSUME TypeOK', todo' = <<>> PROVE Inv'
<1>1. Control' /\ Working' /\ Fetched'
  BY DEF Control, Plans, Working, Fetched, In
<1>2. Checked' = 0
  BY DEF Checked, In
<1>3. ChecksOut'
  BY <1>2 DEF ChecksOut, TypeOK
<1> QED
  BY <1>1, <1>3 DEF Inv

\* A call that has failed: only the registers of the board need looking at.
LEMMA FailInv ==
  ASSUME Inv, NEW e \in {"error", "timeout", "mismatch", "crash"}, Ends(e),
         mem' = mem, busy' \in {"none", "erase", "write", "read"},
         addr' \in 0..(Capacity - 1), size' \in 1..Page,
         buf' \in [0..(Page - 1) -> Cell], dnd' \in BOOLEAN
  PROVE  Inv'
<1>1. TypeOK'
  BY DEF Inv, TypeOK, Ends
<1> QED
  BY <1>1, EndInv DEF Ends

LEMMA ThrowsInv ==
  ASSUME Inv, NEW e \in {"error", "timeout", "mismatch", "crash"}, Ends(e),
         UNCHANGED <<flash, regs, dnd>>
  PROVE  Inv'
<1>1. TypeOK
  BY DEF Inv
<1> QED
  BY <1>1, FailInv DEF TypeOK, flash, regs

\* The next stage of a call; only the check leads to the end of programming.
LEMMA StageInv ==
  ASSUME Inv, todo # <<>>, NextStage, UNCHANGED <<flash, regs, image, dump>>,
         dnd' \in BOOLEAN,
         Stage = "check" => pc = "begin" /\ idx >= Capacity
  PROVE  Inv'
<1> USE DEF flash, regs
<1>1. /\ todo' \in Plans /\ Stage \in Stages
      /\ todo' # <<>> /\ Head(todo') = "free" => Stage = "check"
  BY PlanFacts DEF Inv, Control, NextStage, Stage
<1>2. TypeOK'
  <2>1. todo' \in Seq(Stages)
    BY DEF Inv, TypeOK, NextStage
  <2>2. idx' \in Nat /\ tries' \in Nat /\ pc' = "begin"
    BY CountAssumption DEF NextStage, To
  <2>3. out' \in {"none", "done", "error", "timeout", "mismatch", "crash"}
    BY DEF Inv, TypeOK, NextStage
  <2> QED
    BY <2>1, <2>2, <2>3 DEF Inv, TypeOK
<1>3. pc' = "begin" /\ idx' = 0
  BY DEF NextStage, To
<1>4. Len(image) \in Nat
  BY ImageType DEF Inv, TypeOK
<1>5. Control' /\ Fetched'
  BY <1>1, <1>3, <1>4 DEF Control, Fetched, In, Stage
<1>6. CASE In("free")'
  <2>1. Stage = "check" /\ In("check") /\ idx >= Capacity
    BY <1>1, <1>6 DEF In, Stage
  <2>2. busy \in {"none", "read"}
    BY <2>1, SizeAssumption DEF Inv, TypeOK, Working
  <2>3. \A k \in DOMAIN mem : k < Len(image) => mem[k] = image[k + 1]
    <3>1. Checked = idx /\ DOMAIN mem = 0..(Capacity - 1) /\ idx \in Nat
      BY <2>1 DEF Inv, TypeOK, Checked
    <3>2. \A k \in DOMAIN mem : k < Checked
      BY <2>1, <3>1, SizeAssumption
    <3> QED
      BY <3>2 DEF Inv, ChecksOut
  <2>4. Working' /\ ChecksOut'
    BY <2>2, <2>3 DEF Working, ChecksOut
  <2> QED
    BY <1>2, <1>5, <2>4 DEF Inv
<1>7. CASE ~In("free")'
  <2>1. Checked' = 0
    BY <1>3, <1>7 DEF Checked
  <2>2. Working' /\ ChecksOut'
    BY <1>2, <1>3, <1>7, <2>1 DEF Working, ChecksOut, TypeOK
  <2> QED
    BY <1>2, <1>5, <2>2 DEF Inv
<1> QED
  BY <1>6, <1>7

\* A step inside a stage that leaves the flash and the stage as they are.
LEMMA SameStage ==
  ASSUME Inv, UNCHANGED <<mem, todo, image>>, idx' = idx
  PROVE  ChecksOut'
  BY DEF Inv, ChecksOut, Checked, In, Stage
-----------------------------------------------------------------------------
(* One lemma for each action                                               *)

LEMMA CallInv ==
  ASSUME Inv, NEW work \in Plans \ {<<>>}, NEW img \in Images, NEW first,
         \/ first = "begin" /\ Head(work) \in {"dnd", "erase", "check"}
         \/ first = "size" /\ Head(work) = "read",
         work \in Seq(Stages), Call(work, img, first)
  PROVE  Inv'
<1> USE DEF Call, flash, regs
<1>1. tries' \in Nat /\ pc' = first
  BY CountAssumption DEF To
<1>2. TypeOK'
  BY <1>1 DEF Inv, TypeOK
<1>3. Len(img) \in Nat
  BY ImageType
<1>4. Control' /\ Fetched' /\ Working'
  BY <1>1, <1>3 DEF Control, Fetched, Working, In, Stage
<1>5. Checked' = 0
  BY <1>1 DEF Checked, In, Stage
<1>6. ChecksOut'
  BY <1>2, <1>5 DEF ChecksOut, TypeOK
<1> QED
  BY <1>2, <1>4, <1>6 DEF Inv

LEMMA CallsInv == ASSUME Inv, Calls PROVE Inv'
<1>1. image \in Images
  BY DEF Inv, TypeOK
<1>2. ASSUME NEW img \in Images, ProgramFlash(img) PROVE Inv'
  <2>1. <<"dnd", "erase", "write", "check", "free">> \in Seq(Stages)
    BY DEF Stages
  <2>2. Head(<<"dnd", "erase", "write", "check", "free">>) = "dnd"
    OBVIOUS
  <2> QED
    BY <1>2, <2>1, <2>2, CallInv DEF ProgramFlash, Plans
<1>3. ASSUME NEW img \in Images, CheckFlash(img) PROVE Inv'
  <2>1. <<"check">> \in Seq(Stages) /\ Head(<<"check">>) = "check"
    BY DEF Stages
  <2> QED
    BY <1>3, <2>1, CallInv DEF CheckFlash, Plans
<1>4. ASSUME EraseFlash PROVE Inv'
  <2>1. <<"erase">> \in Seq(Stages) /\ Head(<<"erase">>) = "erase"
    BY DEF Stages
  <2> QED
    BY <1>1, <1>4, <2>1, CallInv DEF EraseFlash, Plans
<1>5. ASSUME ReadFlash PROVE Inv'
  <2>1. <<"read">> \in Seq(Stages) /\ Head(<<"read">>) = "read"
    BY DEF Stages
  <2> QED
    BY <1>1, <1>5, <2>1, CallInv DEF ReadFlash, Plans
<1> QED
  BY <1>2, <1>3, <1>4, <1>5 DEF Calls

LEMMA DndInv == ASSUME Inv, DndOn \/ DndOff PROVE Inv'
<1>1. UNCHANGED <<flash, regs>> /\ todo # <<>> /\ Stage # "check"
  BY DEF DndOn, DndOff, In
<1>2. dnd' \in BOOLEAN
  BY DEF Inv, TypeOK, DndOn, DndOff
<1>3. CASE NextStage /\ UNCHANGED <<image, dump>>
  BY <1>1, <1>2, <1>3, StageInv
<1>4. CASE Ends("error")
  BY <1>1, <1>2, <1>4, FailInv DEF Inv, TypeOK, flash, regs
<1> QED
  BY <1>3, <1>4 DEF DndOn, DndOff

LEMMA EraseInv == ASSUME Inv, Erase PROVE Inv'
<1> USE DEF Erase, RunCommand, regs
<1>1. busy' \in {"none", "erase", "write", "read"}
  BY DEF Inv, TypeOK, Started
<1>2. todo # <<>> /\ Stage = "erase" /\ ~In("check") /\ ~In("free")
  BY DEF In
<1>3. CASE Ends("error")
  BY <1>1, <1>3, FailInv DEF Inv, TypeOK
<1>4. CASE \/ To("wait") /\ UNCHANGED <<todo, idx, out>>
           \/ tries' = tries + 1 /\ UNCHANGED <<todo, pc, idx, out>>
  <2>1. tries' \in Nat /\ pc' \in {"wait", "begin"} /\ UNCHANGED <<todo, idx, out>>
    BY <1>4, CountAssumption DEF To, Inv, TypeOK
  <2>2. TypeOK'
    BY <1>1, <2>1 DEF Inv, TypeOK
  <2>3. Control'
    BY <1>2, <2>1 DEF Inv, Control, Stage
  <2>4. Working' /\ Fetched'
    BY <1>2, <2>1 DEF Working, Fetched, In, Stage
  <2>5. ChecksOut'
    BY <2>1, SameStage
  <2> QED
    BY <2>2, <2>3, <2>4, <2>5 DEF Inv
<1> QED
  BY <1>3, <1>4

LEMMA PollInv == ASSUME Inv, Poll PROVE Inv'
<1>1. todo # <<>> /\ pc \in {"busy", "wait"}
  BY DEF Poll
<1>2. CASE Throws
  BY <1>2, ThrowsInv DEF Throws
<1>3. CASE Ends("timeout") /\ UNCHANGED <<flash, regs, dnd>>
  BY <1>3, ThrowsInv
<1>4. CASE /\ busy # "none" /\ tries # 0 /\ CountPoll
           /\ UNCHANGED <<flash, regs, dnd, todo, pc, image, idx, dump, out>>
  <2>1. tries' \in Nat
    BY <1>4 DEF CountPoll, Inv, TypeOK
  <2>2. TypeOK'
    BY <1>4, <2>1 DEF Inv, TypeOK, flash, regs
  <2>3. Control' /\ Working'
    BY <1>4 DEF Inv, Control, Working, In, Stage, flash
  <2>4. Fetched'
    BY <1>4 DEF Inv, Fetched, In, Stage, Block, ByteCount, flash, regs
  <2>5. ChecksOut'
    BY <1>4, SameStage DEF flash
  <2> QED
    BY <2>2, <2>3, <2>4, <2>5 DEF Inv
<1>5. CASE Stage = "erase" /\ NextStage /\ UNCHANGED <<image, dump, flash, regs, dnd>>
  BY <1>1, <1>5, StageInv DEF Inv, TypeOK
<1>6. CASE /\ busy = "none" /\ Stage # "erase"
           /\ To(IF pc = "busy" THEN "setup" ELSE "take")
           /\ UNCHANGED <<todo, idx, out, image, dump, flash, regs, dnd>>
  <2>1. tries' \in Nat /\ pc' = IF pc = "busy" THEN "setup" ELSE "take"
    BY <1>6, CountAssumption DEF To
  <2>2. TypeOK'
    BY <1>6, <2>1 DEF Inv, TypeOK, flash, regs
  <2>3. Control' /\ Working'
    BY <1>1, <1>6, <2>1 DEF Inv, Control, Working, In, Stage, Loops, flash
  <2>4. Fetched'
    BY <1>1, <1>6, <2>1 DEF Inv, Fetched, In, Stage, Block, ByteCount, flash, regs
  <2>5. ChecksOut'
    BY <1>6, SameStage DEF flash
  <2> QED
    BY <2>2, <2>3, <2>4, <2>5 DEF Inv
<1>7. (busy # "none" /\ tries # 0) \/ tries = 0 \/ (busy = "none" /\ tries # 0)
  OBVIOUS
<1> QED
  BY <1>1, <1>2, <1>3, <1>4, <1>5, <1>6, <1>7 DEF Poll, Polled

LEMMA NextBlockInv == ASSUME Inv, NextBlock PROVE Inv'
<1> USE DEF NextBlock
<1>1. todo # <<>> /\ Stage \in Loops /\ pc = "begin"
  BY DEF Loops
<1>2. idx \in Nat /\ Capacity \in Nat
  BY SizeAssumption DEF Inv, TypeOK
<1>3. CASE ~More
  <2>1. NextStage /\ (Stage = "check" => idx >= Capacity)
    BY <1>2, <1>3 DEF More
  <2> QED
    BY <1>1, <2>1, StageInv DEF Inv, TypeOK
<1>4. CASE More
  <2>1. /\ pc' = "busy" /\ tries' \in Nat
        /\ UNCHANGED <<todo, idx, out, flash, regs, dnd, image, dump>>
    BY <1>4, CountAssumption DEF To
  <2>2. TypeOK'
    BY <2>1 DEF Inv, TypeOK, flash, regs
  <2>3. Control'
    BY <1>1, <1>4, <2>1 DEF Inv, Control, Stage, Loops, More
  <2>4. Working' /\ Fetched'
    BY <1>1, <2>1 DEF Inv, Working, Fetched, In, Stage, flash
  <2>5. ChecksOut'
    BY <2>1, SameStage DEF flash
  <2> QED
    BY <2>2, <2>3, <2>4, <2>5 DEF Inv
<1> QED
  BY <1>3, <1>4

LEMMA SetupInv == ASSUME Inv, Setup PROVE Inv'
<1>1. todo # <<>> /\ pc = "setup" /\ Stage \in Loops /\ UNCHANGED <<flash, dnd>>
  BY DEF Setup, Inv, Control
<1> DEFINE a == Wrap(idx)
           s == IF Stage = "read" THEN size ELSE ByteCount
           n == IF Stage = "write" THEN Block ELSE 0
<1>2. a \in 0..(Capacity - 1) /\ s \in 1..Page
  BY <1>1, WrapType, BlockType DEF Inv, TypeOK
<1>3. \A k \in 0..n : Filled(k) \in [0..(Page - 1) -> Cell]
  <2>1. CASE Stage = "write"
    BY <1>1, <2>1, FilledType DEF Inv, In
  <2>2. CASE Stage # "write"
    BY <2>2, UnfilledType DEF Inv, TypeOK
  <2> QED
    BY <2>1, <2>2
<1>4. n \in 0..n
  BY <1>1, BlockType DEF Inv
<1>5. CASE /\ addr' = a /\ size' = s /\ buf' = Filled(n)
           /\ To("run")
           /\ UNCHANGED <<todo, image, idx, dump, out>>
  <2>1. pc' = "run" /\ tries' \in Nat
    BY <1>5 DEF To
  <2>2. buf' \in [0..(Page - 1) -> Cell]
    BY <1>3, <1>4, <1>5
  <2>3. TypeOK'
    BY <1>1, <1>2, <1>5, <2>1, <2>2 DEF Inv, TypeOK, flash
  <2>4. Control' /\ Working'
    BY <1>1, <1>5, <2>1 DEF Inv, Control, Working, In, Stage, flash
  <2>5. Fetched'
    <3> SUFFICES ASSUME In("check") PROVE addr' = Wrap(idx) /\ size' = ByteCount
      BY <1>5, <2>1 DEF Fetched, In, Stage, Block, ByteCount
    <3> QED
      BY <1>5 DEF In
  <2>6. ChecksOut'
    BY <1>1, <1>5, SameStage DEF flash
  <2> QED
    BY <2>3, <2>4, <2>5, <2>6 DEF Inv
<1>6. CASE /\ \/ addr' \in {addr, a} /\ UNCHANGED <<size, buf>>
              \/ addr' = a /\ size' = s /\ buf' \in {Filled(k) : k \in 0..n}
           /\ Ends("error")
  <2>1. addr' \in 0..(Capacity - 1) /\ size' \in 1..Page
    BY <1>2, <1>6 DEF Inv, TypeOK
  <2>2. buf' \in [0..(Page - 1) -> Cell]
    BY <1>3, <1>6 DEF Inv, TypeOK
  <2> QED
    BY <1>1, <1>6, <2>1, <2>2, FailInv DEF Inv, TypeOK, flash
<1> QED
  BY <1>5, <1>6 DEF Setup

LEMMA SetSizeInv == ASSUME Inv, SetSize PROVE Inv'
<1> USE DEF SetSize, flash
<1>1. todo # <<>> /\ Stage = "read" /\ ~In("check") /\ ~In("free")
  BY DEF In
<1>2. size' \in 1..Page
  BY SizeAssumption DEF Inv, TypeOK
<1>3. CASE size' = Page /\ To("begin") /\ UNCHANGED <<todo, image, idx, dump, out>>
  <2>1. pc' = "begin" /\ tries' \in Nat
    BY <1>3 DEF To
  <2>2. TypeOK'
    BY <1>2, <1>3, <2>1 DEF Inv, TypeOK
  <2>3. Control' /\ Working' /\ Fetched'
    BY <1>1, <1>3, <2>1 DEF Inv, Control, Working, Fetched, In, Stage
  <2>4. ChecksOut'
    BY <1>3, SameStage
  <2> QED
    BY <2>2, <2>3, <2>4 DEF Inv
<1>4. CASE Ends("error")
  BY <1>2, <1>4, FailInv DEF Inv, TypeOK
<1> QED
  BY <1>3, <1>4

LEMMA RunInv == ASSUME Inv, Run PROVE Inv'
<1>1. todo # <<>> /\ pc = "run" /\ Stage \in Loops
  BY DEF Run, Inv, Control
<1>2. PICK c \in {"write", "read"} :
        /\ busy' \in {busy, Started(c)}
        /\ Stage = "check" => c = "read"
        /\ UNCHANGED <<mem, regs, dnd, image, dump>>
        /\ \/ Ends("error")
           \/ tries' = tries + 1 /\ UNCHANGED <<todo, pc, idx, out>>
           \/ /\ Stage = "write" /\ idx' = idx + Block
              /\ To("begin") /\ UNCHANGED <<todo, out>>
           \/ /\ Stage # "write" /\ busy' = Started(c)
              /\ To("wait") /\ UNCHANGED <<todo, idx, out>>
  BY <1>1 DEF Run, RunCommand
<1>3. busy' \in {"none", "erase", "write", "read"}
  BY <1>2 DEF Inv, TypeOK, Started
<1>4. CASE Ends("error")
  BY <1>2, <1>3, <1>4, FailInv DEF Inv, TypeOK, regs
<1>5. Stage = "check" => busy' \in {"none", "read"}
  BY <1>1, <1>2 DEF Inv, Working, In, Started
<1>6. CASE tries' = tries + 1 /\ UNCHANGED <<todo, pc, idx, out>>
  <2>1. TypeOK'
    BY <1>2, <1>3, <1>6 DEF Inv, TypeOK, regs
  <2>2. Control' /\ Working'
    BY <1>1, <1>2, <1>5, <1>6 DEF Inv, Control, Working, In, Stage, Loops
  <2>3. Fetched'
    BY <1>1, <1>2, <1>6 DEF Inv, Fetched, In, Stage, Block, ByteCount, regs
  <2>4. ChecksOut'
    BY <1>2, <1>6, SameStage
  <2> QED
    BY <2>1, <2>2, <2>3, <2>4 DEF Inv
<1>7. CASE Stage = "write" /\ idx' = idx + Block /\ To("begin") /\ UNCHANGED <<todo, out>>
  <2>1. pc' = "begin" /\ tries' \in Nat
    BY <1>7 DEF To
  <2>2. idx' \in Nat /\ idx' <= Len(image)
    BY <1>1, <1>7, BlockType DEF Inv, TypeOK
  <2>3. TypeOK'
    BY <1>2, <1>3, <1>7, <2>1, <2>2 DEF Inv, TypeOK, regs
  <2>4. Control' /\ Working' /\ Fetched'
    BY <1>2, <1>7, <2>1, <2>2 DEF Inv, Control, Working, Fetched, In, Stage
  <2>5. Checked' = 0
    BY <1>7 DEF Checked, In, Stage
  <2>6. ChecksOut'
    BY <2>3, <2>5 DEF ChecksOut, TypeOK
  <2> QED
    BY <2>3, <2>4, <2>6 DEF Inv
<1>8. CASE /\ Stage # "write" /\ busy' = Started(c)
           /\ To("wait") /\ UNCHANGED <<todo, idx, out>>
  <2>1. pc' = "wait" /\ tries' \in Nat
    BY <1>8, CountAssumption DEF To
  <2>2. Stage = "check" => busy' = "read"
    BY <1>2, <1>5, <1>8 DEF Started
  <2>3. TypeOK'
    BY <1>2, <1>3, <1>8, <2>1 DEF Inv, TypeOK, regs
  <2>4. Control' /\ Working'
    BY <1>1, <1>2, <1>5, <1>8, <2>1 DEF Inv, Control, Working, In, Stage, Loops
  <2>5. Fetched'
    BY <1>1, <1>2, <1>8, <2>1, <2>2 DEF Inv, Fetched, In, Stage, Block, ByteCount, regs
  <2>6. ChecksOut'
    BY <1>2, <1>8, SameStage
  <2> QED
    BY <2>3, <2>4, <2>5, <2>6 DEF Inv
<1> QED
  BY <1>2, <1>4, <1>6, <1>7, <1>8

\* The words that have been compared are those of the flash.
LEMMA Compared ==
  ASSUME Inv, In("check"), pc = "take", Matches,
         NEW k \in DOMAIN mem, k < idx + Block, k < Len(image)
  PROVE  mem[k] = image[k + 1]
<1>1. /\ k \in 0..(Capacity - 1) /\ Capacity \in Nat
      /\ idx \in Nat /\ idx < Capacity
  BY SizeAssumption DEF Inv, TypeOK, Control, In
<1>2. CASE k < idx
  BY <1>2 DEF Inv, ChecksOut, Checked
<1>3. CASE k >= idx
  <2> DEFINE j == k - idx
  <2>1. Block \in 0..Page /\ ByteCount \in 1..Page /\ (Block # 0 => ByteCount = Block)
    BY BlockType DEF Inv, In, Loops, ByteCount
  <2>2. j \in 0..(Block - 1) /\ idx + j = k
    BY <1>1, <1>3, <2>1
  <2>3. addr = idx /\ size = Block
    BY <1>1, <2>1, <2>2 DEF Inv, Fetched, Wrap
  <2>4. buf[j] = mem[Wrap(addr + j)]
    BY <2>2, <2>3 DEF Inv, Fetched
  <2>5. Wrap(addr + j) = k
    BY <1>1, <2>2, <2>3 DEF Wrap
  <2>6. buf[j] = image[k + 1]
    BY <2>2 DEF Matches
  <2> QED
    BY <2>4, <2>5, <2>6
<1> QED
  BY <1>1, <1>2, <1>3

LEMMA TakeInv == ASSUME Inv, Take PROVE Inv'
<1>1. todo # <<>> /\ pc = "take" /\ Stage \in {"check", "read"}
  BY DEF Take, Inv, Control
<1>2. CASE Throws
  BY <1>2, ThrowsInv DEF Throws
<1>3. CASE Ends("mismatch") /\ UNCHANGED <<flash, regs, dnd>>
  BY <1>3, ThrowsInv
<1>4. CASE /\ Stage = "check" => Matches
           /\ dump' = IF Stage = "read" THEN dump \o [k \in 1..Page |-> buf[k - 1]] ELSE dump
           /\ idx' = idx + Block
           /\ To("begin")
           /\ UNCHANGED <<flash, regs, dnd, todo, image, out>>
  <2>1. pc' = "begin" /\ tries' \in Nat
    BY <1>4 DEF To
  <2>2. dump' \in Seq(Cell)
    <3>1. [k \in 1..Page |-> buf[k - 1]] \in Seq(Cell)
      <4>1. \A k \in 1..Page : buf[k - 1] \in Cell
        BY SizeAssumption DEF Inv, TypeOK
      <4>2. Page \in Nat
        BY SizeAssumption
      <4> QED
        BY <4>1, <4>2
    <3>2. dump \in Seq(Cell)
      BY DEF Inv, TypeOK
    <3>3. dump \o [k \in 1..Page |-> buf[k - 1]] \in Seq(Cell)
      BY <3>1, <3>2
    <3> QED
      BY <1>4, <3>2, <3>3
  <2>3. /\ idx' \in Nat /\ Block \in 0..Page
        /\ Stage = "check" => idx' <= Len(image)
    BY <1>1, <1>4, BlockType DEF Inv, TypeOK, Loops
  <2>4. TypeOK'
    BY <1>4, <2>1, <2>2, <2>3 DEF Inv, TypeOK, flash, regs
  <2>5. Control'
    BY <1>1, <1>4, <2>1, <2>3 DEF Inv, Control, Stage
  <2>6. Working' /\ Fetched'
    BY <1>1, <1>4, <2>1 DEF Inv, Working, Fetched, In, Stage, flash
  <2>7. ChecksOut'
    <3>1. CASE Stage = "check"
      <4>1. In("check") /\ Matches /\ Checked' = idx + Block
        BY <1>1, <1>4, <3>1 DEF In, Checked, Stage
      <4> QED
        BY <1>1, <1>4, <4>1, Compared DEF ChecksOut, flash
    <3>2. CASE Stage = "read"
      <4>1. Checked' = 0
        BY <1>4, <3>2 DEF Checked, In, Stage
      <4> QED
        BY <2>4, <4>1 DEF ChecksOut, TypeOK
    <3> QED
      BY <1>1, <3>1, <3>2
  <2> QED
    BY <2>4, <2>5, <2>6, <2>7 DEF Inv
<1> QED
  BY <1>2, <1>3, <1>4 DEF Take

LEMMA FlashDoneInv == ASSUME Inv, FlashDone PROVE Inv'
<1>1. /\ busy # "none" /\ busy' = "none"
      /\ UNCHANGED <<addr, size, dnd, todo, pc, image, idx, tries, dump, out>>
  BY DEF FlashDone, call
<1>2. mem' \in [0..(Capacity - 1) -> Cell]
  BY WorkedType DEF FlashDone, Inv
<1>3. buf' \in [0..(Page - 1) -> Cell]
  <2>1. \A k \in 0..(Page - 1) : Wrap(addr + k) \in 0..(Capacity - 1)
    <3>1. \A k \in 0..(Page - 1) : addr + k \in Nat
      BY SizeAssumption DEF Inv, TypeOK
    <3> QED
      BY <3>1, WrapType
  <2> QED
    BY <2>1 DEF FlashDone, Inv, TypeOK
<1>4. TypeOK'
  BY <1>1, <1>2, <1>3 DEF Inv, TypeOK
<1>5. Control' /\ Working'
  BY <1>1 DEF Inv, Control, Working, In, Stage
<1>6. busy \in {"none", "read"} => mem' = mem
  BY WorkedType DEF FlashDone, Inv
<1>7. Fetched'
  <2> SUFFICES ASSUME In("check")
               PROVE  /\ pc \in {"run", "wait", "take"} => addr = Wrap(idx) /\ size = ByteCount
                      /\ pc # "take"
                      /\ pc = "wait" => \A k \in 0..(size - 1) : buf'[k] = mem'[Wrap(addr + k)]
    BY <1>1 DEF Fetched, In, Stage, Block, ByteCount, Wrap
  <2>1. pc = "wait" => busy = "read" /\ mem' = mem
    BY <1>1, <1>6 DEF Inv, Working
  <2>2. pc = "wait" => \A k \in 0..(size - 1) : buf'[k] = mem[Wrap(addr + k)]
    BY <2>1, SizeAssumption DEF FlashDone, Inv, TypeOK
  <2> QED
    BY <1>1, <2>1, <2>2 DEF Inv, Fetched
<1>8. ChecksOut'
  <2>1. Checked' = Checked
    BY <1>1 DEF Checked, In, Stage
  <2>2. CASE busy \in {"none", "read"}
    BY <1>1, <1>6, <2>1, <2>2 DEF Inv, ChecksOut
  <2>3. CASE busy \notin {"none", "read"}
    <3>1. Checked = 0
      BY <2>3 DEF Inv, Working, Checked, TypeOK
    <3> QED
      BY <1>4, <2>1, <3>1 DEF ChecksOut, TypeOK
  <2> QED
    BY <2>2, <2>3
<1> QED
  BY <1>4, <1>5, <1>7, <1>8 DEF Inv

LEMMA StutterInv == ASSUME Inv, UNCHANGED vars PROVE Inv'
<1> USE DEF vars
<1>1. TypeOK' /\ Control' /\ Working'
  BY DEF Inv, TypeOK, Control, Working, In, Stage
<1>2. Fetched' /\ ChecksOut'
  BY DEF Inv, Fetched, ChecksOut, Checked, In, Stage, Block, ByteCount, Wrap
<1> QED
  BY <1>1, <1>2 DEF Inv

LEMMA NextInv == Inv /\ [Next]_vars => Inv'
<1> SUFFICES ASSUME Inv, [Next]_vars PROVE Inv'
  OBVIOUS
<1>1. CASE Step
  BY <1>1, DndInv, EraseInv, PollInv, NextBlockInv, SetupInv, SetSizeInv, RunInv, TakeInv
     DEF Step
<1>2. CASE Crash
  BY <1>2, ThrowsInv DEF Crash
<1> QED
  BY <1>1, <1>2, CallsInv, FlashDoneInv, StutterInv DEF Next

\* The inductive invariant holds in every reachable state.
THEOREM InvHolds == Spec => []Inv
  BY InitInv, NextInv, PTL DEF Spec

\* Types: in particular a block never reaches past the image or the page buffer.
THEOREM TypeCorrect == Spec => []TypeOK
<1>1. Inv => TypeOK
  BY DEF Inv
<1> QED
  BY <1>1, InvHolds, PTL

\* What CheckFlash has compared, and ProgramFlash has let pass, is in the flash.
THEOREM CheckIsSound == Spec => []ChecksOut
<1>1. Inv => ChecksOut
  BY DEF Inv
<1> QED
  BY <1>1, InvHolds, PTL
-----------------------------------------------------------------------------
(* What ReadFlash writes to its file.  It polls BUSY before its first read,  *)
(* so nothing an earlier call has left running is at work behind its copy.   *)

\* The address and the page buffer are only written once the flash is idle.
Idle == todo # <<>> /\ pc = "setup" => busy = "none"

\* As Working, Fetched and Checked, for the stage that copies; its byte count stays
\* the one it has set at first.
Copying ==
  In("read") =>
    /\ idx > 0 \/ pc \in {"setup", "run", "wait", "take"} => busy \in {"none", "read"}
    /\ pc # "size" => size = Page
    /\ pc \in {"busy", "setup", "run", "wait", "take"} => idx < Capacity
    /\ pc \in {"run", "wait", "take"} => addr = Wrap(idx)
    /\ pc = "take" => busy = "none"
    /\ pc = "take" \/ (pc = "wait" /\ busy = "none") =>
         \A k \in 0..(Page - 1) : buf[k] = mem[Wrap(addr + k)]
    /\ pc = "size" => idx = 0

\* The file holds the flash as far as the copy has come, in whole pages.
CopiedTo(n) == /\ n <= Capacity /\ n % Page = 0 /\ Len(dump) = n
               /\ \A k \in 0..(n - 1) : dump[k + 1] = mem[k]
Copied ==
  /\ todo # <<>> => out = "none" /\ (IF Stage = "read" THEN CopiedTo(idx) ELSE dump = <<>>)
  /\ todo = <<>> /\ out = "done" /\ dump # <<>> =>
       CopiedTo(Capacity) /\ busy \in {"none", "read"}

ReadInv == Idle /\ Copying /\ Copied

\* The flash and its page buffer are whole numbers of pages.
LEMMA Pages ==
  /\ 0 % Page = 0
  /\ \A n \in Nat : n % Page = 0 /\ n < Capacity =>
       n + Page <= Capacity /\ (n + Page) % Page = 0
<1>1. Page \in Nat \ {0} /\ Capacity \in Nat /\ Capacity % Page = 0
  BY SizeAssumption
<1>2. 0 % Page = 0
  BY <1>1
<1>3. ASSUME NEW n \in Nat, n % Page = 0, n < Capacity
      PROVE  n + Page <= Capacity /\ (n + Page) % Page = 0
  <2> DEFINE q == n \div Page
             r == Capacity \div Page
  <2>1. q \in Nat /\ r \in Nat
    BY <1>1
  <2>2. n = Page * q
    <3>1. n = Page * (n \div Page) + (n % Page)
      BY <1>1
    <3> QED
      BY <1>1, <1>3, <3>1
  <2>3. Capacity = Page * r
    <3>1. Capacity = Page * (Capacity \div Page) + (Capacity % Page)
      BY <1>1
    <3> QED
      BY <1>1, <3>1
  <2> HIDE DEF q, r
  <2>4. q < r
    BY <1>1, <1>3, <2>1, <2>2, <2>3
  <2>5. Page * q + Page <= Page * r
    BY <1>1, <2>1, <2>4
  <2>6. n + Page = Page * (q + 1) + 0
    BY <1>1, <2>1, <2>2
  <2>7. (Page * (q + 1) + 0) % Page = 0
    BY <1>1, <2>1
  <2> QED
    BY <2>2, <2>3, <2>5, <2>6, <2>7
<1> QED
  BY <1>2, <1>3

LEMMA LastStage ==
  ASSUME NEW t \in Plans, t # <<>>
  PROVE  /\ Len(t) = 1 <=> Tail(t) = <<>>
         /\ Head(t) = "read" => Tail(t) = <<>>
         /\ Tail(t) # <<>> => Head(Tail(t)) # "read"
<1>1. CASE t = <<"read">>
  <2>1. /\ Len(t) = 1 /\ Head(t) = "read"
        /\ Tail(t) = <<>>
    BY <1>1
  <2> QED
    BY <2>1
<1>2. CASE t = <<"erase">>
  <2>1. /\ Len(t) = 1 /\ Head(t) = "erase"
        /\ Tail(t) = <<>>
    BY <1>2
  <2> QED
    BY <2>1
<1>3. CASE t = <<"check">>
  <2>1. /\ Len(t) = 1 /\ Head(t) = "check"
        /\ Tail(t) = <<>>
    BY <1>3
  <2> QED
    BY <2>1
<1>4. CASE t = <<"free">>
  <2>1. /\ Len(t) = 1 /\ Head(t) = "free"
        /\ Tail(t) = <<>>
    BY <1>4
  <2> QED
    BY <2>1
<1>5. CASE t = <<"check", "free">>
  <2>1. /\ Len(t) = 2 /\ Head(t) = "check"
        /\ Tail(t) = <<"free">>
    BY <1>5
  <2>2. <<"free">> # <<>> /\ Head(<<"free">>) = "free"
    OBVIOUS
  <2>3. Tail(t) # <<>> /\ Head(Tail(t)) # "read"
    BY <2>1, <2>2
  <2>4. Len(t) # 1 /\ Head(t) # "read"
    BY <2>1
  <2> QED
    BY <2>3, <2>4
<1>6. CASE t = <<"write", "check", "free">>
  <2>1. /\ Len(t) = 3 /\ Head(t) = "write"
        /\ Tail(t) = <<"check", "free">>
    BY <1>6
  <2>2. <<"check", "free">> # <<>> /\ Head(<<"check", "free">>) = "check"
    OBVIOUS
  <2>3. Tail(t) # <<>> /\ Head(Tail(t)) # "read"
    BY <2>1, <2>2
  <2>4. Len(t) # 1 /\ Head(t) # "read"
    BY <2>1
  <2> QED
    BY <2>3, <2>4
<1>7. CASE t = <<"erase", "write", "check", "free">>
  <2>1. /\ Len(t) = 4 /\ Head(t) = "erase"
        /\ Tail(t) = <<"write", "check", "free">>
    BY <1>7
  <2>2. <<"write", "check", "free">> # <<>> /\ Head(<<"write", "check", "free">>) = "write"
    OBVIOUS
  <2>3. Tail(t) # <<>> /\ Head(Tail(t)) # "read"
    BY <2>1, <2>2
  <2>4. Len(t) # 1 /\ Head(t) # "read"
    BY <2>1
  <2> QED
    BY <2>3, <2>4
<1>8. CASE t = <<"dnd", "erase", "write", "check", "free">>
  <2>1. /\ Len(t) = 5 /\ Head(t) = "dnd"
        /\ Tail(t) = <<"erase", "write", "check", "free">>
    BY <1>8
  <2>2. /\ <<"erase", "write", "check", "free">> # <<>>
        /\ Head(<<"erase", "write", "check", "free">>) = "erase"
    OBVIOUS
  <2>3. Tail(t) # <<>> /\ Head(Tail(t)) # "read"
    BY <2>1, <2>2
  <2>4. Len(t) # 1 /\ Head(t) # "read"
    BY <2>1
  <2> QED
    BY <2>3, <2>4
<1> QED
  BY <1>1, <1>2, <1>3, <1>4, <1>5, <1>6, <1>7, <1>8 DEF Plans

\* A call that has failed copies nothing more, and its file does not count.
LEMMA FailRead ==
  ASSUME NEW e \in {"error", "timeout", "mismatch", "crash"}, Ends(e)
  PROVE  ReadInv'
  BY DEF Ends, ReadInv, Idle, Copying, Copied, In

\* When the last page has been copied the file holds the flash.
LEMMA StageRead ==
  ASSUME Inv, ReadInv, todo # <<>>, NextStage, UNCHANGED <<mem, busy, dump>>,
         Stage = "read" => pc = "begin" /\ idx >= Capacity
  PROVE  ReadInv'
<1>1. /\ todo \in Plans /\ todo' = Tail(todo) /\ pc' = "begin" /\ idx' = 0
      /\ out' = IF Len(todo) = 1 THEN "done" ELSE out
  BY DEF Inv, Control, NextStage, To
<1>2. CASE Stage = "read"
  <2>1. todo' = <<>> /\ out' = "done"
    BY <1>1, <1>2, LastStage DEF Stage
  <2>2. idx = Capacity /\ CopiedTo(Capacity) /\ busy \in {"none", "read"}
    <3>1. idx \in Nat /\ Capacity \in Nat \ {0}
      BY SizeAssumption DEF Inv, TypeOK
    <3>2. CopiedTo(idx)
      BY <1>2 DEF ReadInv, Copied
    <3>3. idx = Capacity
      BY <1>2, <3>1, <3>2 DEF CopiedTo
    <3> QED
      BY <1>2, <3>1, <3>2, <3>3 DEF ReadInv, Copying, In
  <2>3. CopiedTo(Capacity)'
    BY <2>2 DEF CopiedTo
  <2> QED
    BY <1>1, <2>1, <2>2, <2>3 DEF ReadInv, Idle, Copying, Copied, In
<1>3. CASE Stage # "read"
  <2>1. dump = <<>> /\ out = "none"
    BY <1>3 DEF ReadInv, Copied
  <2>2. todo' # <<>> => Head(todo') # "read" /\ out' = "none"
    BY <1>1, <2>1, LastStage
  <2> QED
    BY <1>1, <2>1, <2>2 DEF ReadInv, Idle, Copying, Copied, In, Stage
<1> QED
  BY <1>2, <1>3

\* A step of a stage that does not copy.
LEMMA OtherRead ==
  ASSUME Inv, ReadInv, todo # <<>>, Stage # "read", UNCHANGED <<todo, out, dump>>,
         pc' # "setup" \/ busy' = "none"
  PROVE  ReadInv'
  BY DEF ReadInv, Idle, Copying, Copied, In, Stage

LEMMA CallRead ==
  ASSUME NEW work \in Plans \ {<<>>}, NEW img, NEW first,
         \/ first = "begin" /\ Head(work) \in {"dnd", "erase", "check"}
         \/ first = "size" /\ Head(work) = "read",
         Call(work, img, first)
  PROVE  ReadInv'
<1>1. /\ todo' = work /\ pc' = first /\ idx' = 0 /\ dump' = <<>> /\ out' = "none"
      /\ todo' # <<>> /\ Stage' = Head(work)
  BY DEF Call, To, Stage
<1>2. CopiedTo(0)'
  BY <1>1, Pages, SizeAssumption DEF CopiedTo
<1> QED
  BY <1>1, <1>2 DEF ReadInv, Idle, Copying, Copied, In

LEMMA CallsRead == ASSUME Calls PROVE ReadInv'
<1>1. ASSUME NEW img \in Images, ProgramFlash(img) PROVE ReadInv'
  <2>1. Head(<<"dnd", "erase", "write", "check", "free">>) = "dnd"
    OBVIOUS
  <2> QED
    BY <1>1, <2>1, CallRead DEF ProgramFlash, Plans
<1>2. ASSUME NEW img \in Images, CheckFlash(img) PROVE ReadInv'
  <2>1. Head(<<"check">>) = "check"
    OBVIOUS
  <2> QED
    BY <1>2, <2>1, CallRead DEF CheckFlash, Plans
<1>3. ASSUME EraseFlash PROVE ReadInv'
  <2>1. Head(<<"erase">>) = "erase"
    OBVIOUS
  <2> QED
    BY <1>3, <2>1, CallRead DEF EraseFlash, Plans
<1>4. ASSUME ReadFlash PROVE ReadInv'
  <2>1. Head(<<"read">>) = "read"
    OBVIOUS
  <2> QED
    BY <1>4, <2>1, CallRead DEF ReadFlash, Plans
<1> QED
  BY <1>1, <1>2, <1>3, <1>4 DEF Calls

LEMMA DndRead == ASSUME Inv, ReadInv, DndOn \/ DndOff PROVE ReadInv'
<1>1. todo # <<>> /\ Stage # "read" /\ UNCHANGED <<flash, regs>>
  BY DEF DndOn, DndOff, In
<1>2. CASE NextStage /\ UNCHANGED <<image, dump>>
  BY <1>1, <1>2, StageRead DEF flash
<1>3. CASE Ends("error")
  BY <1>3, FailRead
<1> QED
  BY <1>2, <1>3 DEF DndOn, DndOff

LEMMA EraseRead == ASSUME Inv, ReadInv, Erase PROVE ReadInv'
<1>1. todo # <<>> /\ Stage = "erase" /\ pc = "begin"
  BY DEF Erase, In
<1>2. CASE Ends("error")
  BY <1>2, FailRead
<1>3. CASE /\ pc' \in {"begin", "wait"}
           /\ UNCHANGED <<todo, out, dump>>
  BY <1>1, <1>3, OtherRead
<1> QED
  BY <1>1, <1>2, <1>3 DEF Erase, RunCommand, To

\* When BUSY is gone the flash is idle, and the page asked for has come.
LEMMA PollRead == ASSUME Inv, ReadInv, Poll PROVE ReadInv'
<1>1. todo # <<>> /\ pc \in {"busy", "wait"}
  BY DEF Poll
<1>2. ASSUME NEW e \in {"error", "timeout"}, Ends(e) PROVE ReadInv'
  BY <1>2, FailRead
<1>3. CASE /\ CountPoll
           /\ UNCHANGED <<flash, regs, dnd, todo, pc, image, idx, dump, out>>
  BY <1>3 DEF ReadInv, Idle, Copying, Copied, CopiedTo, In, Stage, Wrap, flash, regs
<1>4. CASE Stage = "erase" /\ NextStage /\ UNCHANGED <<image, dump, flash, regs, dnd>>
  BY <1>1, <1>4, StageRead DEF flash
<1>5. CASE /\ busy = "none" /\ Stage # "erase"
           /\ To(IF pc = "busy" THEN "setup" ELSE "take")
           /\ UNCHANGED <<todo, idx, out, image, dump, flash, regs, dnd>>
  <2>1. /\ pc' = IF pc = "busy" THEN "setup" ELSE "take"
        /\ UNCHANGED <<mem, busy, addr, size, buf>>
    BY <1>5 DEF To, flash, regs
  <2>2. Idle'
    BY <1>5, <2>1 DEF Idle
  <2>3. Copying'
    BY <1>1, <1>5, <2>1 DEF ReadInv, Copying, In, Stage, Wrap
  <2>4. Copied'
    BY <1>5, <2>1 DEF ReadInv, Copied, CopiedTo, Stage
  <2> QED
    BY <2>2, <2>3, <2>4 DEF ReadInv
<1> QED
  BY <1>1, <1>2, <1>3, <1>4, <1>5 DEF Poll, Polled, Throws

LEMMA NextBlockRead == ASSUME Inv, ReadInv, NextBlock PROVE ReadInv'
<1>1. /\ todo # <<>> /\ pc = "begin" /\ UNCHANGED <<flash, regs, dnd, image, dump>>
      /\ idx \in Nat /\ Capacity \in Nat
  BY SizeAssumption DEF NextBlock, Inv, TypeOK
<1>2. CASE ~More
  <2>1. NextStage /\ (Stage = "read" => idx >= Capacity)
    BY <1>1, <1>2 DEF NextBlock, More
  <2> QED
    BY <1>1, <2>1, StageRead DEF flash
<1>3. CASE More
  <2>1. pc' = "busy" /\ UNCHANGED <<todo, idx, out, mem, busy, addr, size, buf, dump>>
    BY <1>1, <1>3 DEF NextBlock, To, flash, regs
  <2>2. Stage = "read" => idx < Capacity
    BY <1>3 DEF More
  <2> QED
    BY <1>1, <2>1, <2>2 DEF ReadInv, Idle, Copying, Copied, CopiedTo, In, Stage, Wrap
<1> QED
  BY <1>2, <1>3

LEMMA SetupRead == ASSUME Inv, ReadInv, Setup PROVE ReadInv'
<1>1. todo # <<>> /\ pc = "setup" /\ UNCHANGED <<mem, busy>>
  BY DEF Setup, flash
<1>2. CASE Ends("error")
  BY <1>2, FailRead
<1>3. CASE ~Ends("error")
  <2>1. /\ addr' = Wrap(idx) /\ (Stage = "read" => size' = size)
        /\ pc' = "run" /\ UNCHANGED <<todo, idx, dump, out>>
    BY <1>3 DEF Setup, To
  <2>2. CASE Stage # "read"
    BY <1>1, <2>1, <2>2, OtherRead
  <2>3. CASE Stage = "read"
    BY <1>1, <2>1, <2>3 DEF ReadInv, Idle, Copying, Copied, CopiedTo, In, Stage, Wrap
  <2> QED
    BY <2>2, <2>3
<1> QED
  BY <1>2, <1>3

LEMMA SetSizeRead == ASSUME Inv, ReadInv, SetSize PROVE ReadInv'
<1>1. todo # <<>> /\ Stage = "read" /\ In("read") /\ pc = "size" /\ UNCHANGED <<mem, busy>>
  BY DEF SetSize, In, flash
<1>2. CASE Ends("error")
  BY <1>2, FailRead
<1>3. CASE size' = Page /\ To("begin") /\ UNCHANGED <<todo, image, idx, dump, out>>
  <2>1. pc' = "begin" /\ idx = 0
    BY <1>1, <1>3 DEF To, ReadInv, Copying
  <2> QED
    BY <1>1, <1>3, <2>1 DEF ReadInv, Idle, Copying, Copied, CopiedTo, In, Stage
<1> QED
  BY <1>2, <1>3 DEF SetSize

LEMMA RunRead == ASSUME Inv, ReadInv, Run PROVE ReadInv'
<1>1. todo # <<>> /\ pc = "run" /\ UNCHANGED <<mem, addr, size, buf, dump>>
  BY DEF Run, RunCommand, regs
<1>2. CASE Ends("error")
  BY <1>2, FailRead
<1>3. CASE ~Ends("error")
  <2>1. UNCHANGED <<todo, out>> /\ pc' # "setup"
    BY <1>1, <1>3 DEF Run, RunCommand, To
  <2>2. CASE Stage # "read"
    BY <1>1, <2>1, <2>2, OtherRead
  <2>3. CASE Stage = "read"
    <3>1. busy \in {"none", "read"}
      BY <1>1, <2>3 DEF ReadInv, Copying, In
    <3>2. /\ idx' = idx
          /\ busy' \in {"none", "read"}
          /\ pc' = "run" \/ (pc' = "wait" /\ busy' = "read")
      BY <1>1, <1>3, <2>3, <3>1 DEF Run, RunCommand, To, Started
    <3> QED
      BY <1>1, <2>1, <2>3, <3>2
         DEF ReadInv, Idle, Copying, Copied, CopiedTo, In, Stage, Wrap
  <2> QED
    BY <2>2, <2>3
<1> QED
  BY <1>2, <1>3

\* The page goes where the copy has come to: pages do not wrap.
LEMMA TakeRead == ASSUME Inv, ReadInv, Take PROVE ReadInv'
<1>1. todo # <<>> /\ pc = "take"
  BY DEF Take
<1>2. ASSUME NEW e \in {"error", "mismatch"}, Ends(e) PROVE ReadInv'
  BY <1>2, FailRead
<1>3. CASE /\ dump' = IF Stage = "read" THEN dump \o [k \in 1..Page |-> buf[k - 1]] ELSE dump
           /\ idx' = idx + Block
           /\ To("begin")
           /\ UNCHANGED <<flash, regs, dnd, todo, image, out>>
  <2>1. pc' = "begin" /\ UNCHANGED <<mem, busy, addr, size, buf>>
    BY <1>3 DEF To, flash, regs
  <2>2. CASE Stage # "read"
    BY <1>1, <1>3, <2>1, <2>2, OtherRead
  <2>3. CASE Stage = "read"
    <3>1. /\ Block = Page /\ idx' = idx + Page /\ idx \in Nat /\ idx < Capacity
          /\ Page \in Nat \ {0} /\ Capacity \in Nat
          /\ busy = "none" /\ CopiedTo(idx) /\ addr = idx /\ size = Page /\ out = "none"
          /\ \A k \in 0..(Page - 1) : buf[k] = mem[Wrap(addr + k)]
      BY <1>1, <1>3, <2>3, SizeAssumption
         DEF Inv, TypeOK, ReadInv, Copying, Copied, In, Block, Wrap
    <3>2. idx + Page <= Capacity /\ (idx + Page) % Page = 0
      BY <3>1, Pages DEF CopiedTo
    <3> DEFINE page == [k \in 1..Page |-> buf[k - 1]]
    <3>3. /\ dump \in Seq(Cell) /\ page \in Seq(Cell) /\ Len(page) = Page
          /\ \A k \in 1..Page : page[k] = buf[k - 1]
      <4>1. \A k \in 1..Page : buf[k - 1] \in Cell
        BY SizeAssumption DEF Inv, TypeOK
      <4> QED
        BY <3>1, <4>1 DEF Inv, TypeOK
    <3> HIDE DEF page
    <3>4. /\ Len(dump \o page) = idx + Page
          /\ \A k \in 1..(idx + Page) :
               (dump \o page)[k] = IF k <= idx THEN dump[k] ELSE page[k - idx]
      <4>1. Len(dump) = idx /\ idx \in Nat /\ Page \in Nat
        BY <3>1 DEF CopiedTo
      <4> QED
        BY <3>3, <4>1
    <3>5. \A k \in 0..(idx + Page - 1) : (dump \o page)[k + 1] = mem[k]
      <4> SUFFICES ASSUME NEW k \in 0..(idx + Page - 1)
                   PROVE  (dump \o page)[k + 1] = mem[k]
        OBVIOUS
      <4>1. CASE k < idx
        BY <3>1, <3>4, <4>1 DEF CopiedTo
      <4>2. CASE k >= idx
        <5>1. (dump \o page)[k + 1] = page[(k - idx) + 1] /\ (k - idx) + 1 \in 1..Page
          BY <3>1, <3>4, <4>2
        <5>2. page[(k - idx) + 1] = buf[k - idx] /\ k - idx \in 0..(Page - 1)
          BY <3>1, <3>3, <5>1
        <5>3. buf[k - idx] = mem[k]
          BY <3>1, <3>2, <4>2, <5>2 DEF Wrap
        <5> QED
          BY <5>1, <5>2, <5>3
      <4>3. k < idx \/ k >= idx
        BY <3>1
      <4> QED
        BY <4>1, <4>2, <4>3
    <3>6. dump' = dump \o page
      BY <1>3, <2>3 DEF page
    <3>7. CopiedTo(idx)'
      BY <2>1, <3>1, <3>2, <3>4, <3>5, <3>6 DEF CopiedTo
    <3> QED
      BY <1>1, <1>3, <2>1, <2>3, <3>1, <3>7 DEF ReadInv, Idle, Copying, Copied, In, Stage
  <2> QED
    BY <2>2, <2>3
<1> QED
  BY <1>1, <1>2, <1>3 DEF Take, Throws

\* What the flash does by itself: a read that ends brings the page asked for.
LEMMA FlashDoneRead == ASSUME Inv, ReadInv, FlashDone PROVE ReadInv'
<1>1. /\ busy # "none" /\ busy' = "none"
      /\ UNCHANGED <<addr, size, dnd, todo, pc, image, idx, tries, dump, out>>
  BY DEF FlashDone, call
<1>2. busy \in {"none", "read"} => mem' = mem
  BY WorkedType DEF FlashDone, Inv
<1>3. Idle'
  BY <1>1 DEF Idle
<1>4. Copying'
  <2> SUFFICES ASSUME In("read"), pc = "wait"
               PROVE  \A k \in 0..(Page - 1) : buf'[k] = mem'[Wrap(addr + k)]
    BY <1>1 DEF ReadInv, Copying, In, Stage, Wrap
  <2>1. busy = "read" /\ mem' = mem /\ size = Page
    BY <1>1, <1>2 DEF ReadInv, Copying
  <2> QED
    BY <2>1, SizeAssumption DEF FlashDone, Inv, TypeOK
<1>5. Copied'
  <2>1. CASE busy \in {"none", "read"}
    BY <1>1, <1>2, <2>1 DEF ReadInv, Copied, CopiedTo, Stage
  <2>2. CASE busy \notin {"none", "read"}
    <3>1. In("read") => idx = 0
      BY <2>2 DEF ReadInv, Copying, Inv, TypeOK
    <3> QED
      BY <1>1, <2>2, <3>1 DEF ReadInv, Copied, CopiedTo, In, Stage
  <2> QED
    BY <2>1, <2>2
<1> QED
  BY <1>3, <1>4, <1>5 DEF ReadInv

LEMMA NextReadInv == Inv /\ ReadInv /\ [Next]_vars => ReadInv'
<1> SUFFICES ASSUME Inv, ReadInv, [Next]_vars PROVE ReadInv'
  OBVIOUS
<1>1. CASE Step
  BY <1>1, DndRead, EraseRead, PollRead, NextBlockRead, SetupRead, SetSizeRead, RunRead,
     TakeRead DEF Step
<1>2. CASE Crash
  BY <1>2, FailRead DEF Crash
<1>3. CASE UNCHANGED vars
  BY <1>3 DEF vars, ReadInv, Idle, Copying, Copied, CopiedTo, In, Stage, Wrap
<1> QED
  BY <1>1, <1>2, <1>3, CallsRead, FlashDoneRead DEF Next

\* What has been copied to the file so far is in the flash, in every reachable state.
THEOREM ReadInvHolds == Spec => []ReadInv
<1>1. Init => ReadInv
  BY DEF Init, ReadInv, Idle, Copying, Copied, In
<1> QED
  BY <1>1, NextReadInv, InvHolds, PTL DEF Spec

\* What ReadFlash has written to its file when it returns is what the flash holds,
\* from its first word to its last, whatever was at work in it before.
THEOREM CopyIsWhole == Spec => []ReadsAll
<1>1. Inv /\ ReadInv => ReadsAll
  <2> SUFFICES ASSUME Inv, ReadInv, out = "done", dump # <<>>
               PROVE  /\ Len(dump) = Capacity
                      /\ \A k \in 0..(Capacity - 1) : dump[k + 1] = mem[k]
    BY DEF ReadsAll
  <2>1. todo = <<>>
    BY DEF ReadInv, Copied
  <2> QED
    BY <2>1 DEF ReadInv, Copied, CopiedTo
<1> QED
  BY <1>1, InvHolds, ReadInvHolds, PTL

\* The address and the page buffer stay as they are while the flash is at work, also
\* at the work of a call that has been given up: a later call writes them only after
\* it has seen BUSY gone, and only a call starts the next command.
THEOREM BufferIsHeld == Spec => BufferHeld
<1>1. Inv /\ ReadInv /\ [Next]_vars =>
        [busy # "none" /\ busy' = busy => addr' = addr /\ buf' = buf]_vars
  <2> SUFFICES ASSUME Inv, ReadInv, Next, busy # "none", busy' = busy
               PROVE  addr' = addr /\ buf' = buf
    BY DEF vars
  <2>1. ~FlashDone /\ ~Setup
    BY DEF FlashDone, Setup, ReadInv, Idle
  <2>2. CASE Calls
    BY <2>2 DEF Calls, ProgramFlash, EraseFlash, CheckFlash, ReadFlash, Call, regs
  <2>3. CASE DndOn \/ DndOff \/ Erase \/ NextBlock \/ Run
    BY <2>3 DEF DndOn, DndOff, Erase, NextBlock, Run, RunCommand, regs
  <2>4. CASE Poll \/ Take \/ Crash
    BY <2>4 DEF Poll, Take, Crash, Throws, regs
  <2>5. CASE SetSize
    BY <2>5 DEF SetSize
  <2> QED
    BY <2>1, <2>2, <2>3, <2>4, <2>5 DEF Next, Step
<1> QED
  BY <1>1, InvHolds, ReadInvHolds, PTL DEF Spec, BufferHeld
=============================================================================
