------------------------- MODULE LoadedTable_proofs --------------------------
(***************************************************************************)
(* AddressTable, for any table files, any number of addresses, any register*)
(* width and any requests.                                                 *)
(*                                                                         *)
(* First the accesses: masked writes, block writes and reads do what they  *)
(* are asked and nothing else.  The word to be written is always the       *)
(* wanted one but for bits the board has changed (InHand).                 *)
(*                                                                         *)
(* Then the constructor: the map it makes holds what the files say.  The   *)
(* calls of LoadFile in progress spell a way through the files (Calls),    *)
(* the places before it have been read, and the map holds their items and  *)
(* no others (Holds); each line adds its own place to them (ReadOver,      *)
(* ReadInto, ReadBack).                                                    *)
(***************************************************************************)
EXTENDS LoadedTable, WellFoundedInduction, TLAPS

\* The register call in hand belongs to the word in hand; what it has read is what
\* was there when the operation began, what it writes is what should be there then.
InHand ==
  /\ call # IO!NoCall =>
       /\ call.addr = address
       /\ call.kind = "write" => call.val = building /\ (done => Same(At(i), Goal(i)))
       /\ call.kind = "read" =>
            \A v \in seen : v \ moved[At(i)] = before[At(i)] \ moved[At(i)]
  /\ pc # "idle" => op \in Ops /\ address = At(i) /\ result = Status("none")
  /\ pc = "read" => /\ i = 1
                    /\ op.kind \in {"read", "write"}
                    /\ Same(At(i), before[At(i)])
  /\ pc = "write" => /\ i <= Len(op.vals)
                     /\ op.mask = Bit \/ op.kind = "write"
                     /\ building \ moved[At(i)] = Goal(i) \ moved[At(i)]

Inv == TypeOK /\ InHand /\ AllOrNothing /\ ReadIsCurrent
-----------------------------------------------------------------------------
(* Operators                                                               *)

\* Two words that agree but for some bits agree but for more bits.
LEMMA MoreBits ==
  ASSUME NEW v, NEW w, NEW m, NEW n, v \ m = w \ m, m \subseteq n
  PROVE  v \ n = w \ n
  OBVIOUS

\* They also agree after a masked write or read.
LEMMA MergeAgrees ==
  ASSUME NEW v, NEW w, NEW m, NEW b, NEW x, v \ m = w \ m
  PROVE  /\ Merge(v, b, x) \ m = Merge(w, b, x) \ m
         /\ Field(v, b) \ m = Field(w, b) \ m
  BY DEF Merge, Field

\* A change the board makes is among the bits it has changed.
LEMMA ChangeCounts ==
  ASSUME NEW v, NEW r, NEW m
  PROVE  v \ (m \cup (v \ r) \cup (r \ v)) = r \ (m \cup (v \ r) \cup (r \ v))
  OBVIOUS

\* The operations are those of the class, also the one nobody has asked for yet.
LEMMA OpType ==
  ASSUME NEW o \in Ops \cup {NoOp}
  PROVE  /\ o \in Op /\ o.addr \in Addr /\ o.mask \in Word /\ o.vals \in Seq(Word)
         /\ Len(o.vals) \in 0..Size
         /\ o.kind \in {"read", "write", "block"}
         /\ o.kind = "read" => Len(o.vals) = 0
         /\ o.kind = "write" => Len(o.vals) = 1
         /\ \A k \in 1..Len(o.vals) : o.vals[k] \in Word
<1>1. CASE o \in Ops
  <2>1. o \in Op /\ Len(o.vals) <= Size
    BY <1>1, OpsAssumption
  <2>2. o.vals \in Seq(Word) /\ Len(o.vals) \in Nat
    BY <2>1 DEF Op
  <2> QED
    BY <1>1, <2>1, <2>2, OpsAssumption, SizeAssumption DEF Op
<1>2. CASE o = NoOp
  BY <1>2, SizeAssumption DEF NoOp, Op, Addr, Word
<1> QED
  BY <1>1, <1>2

\* A block goes to different addresses, each the one after the last.
LEMMA AtType ==
  ASSUME op \in Ops \cup {NoOp}
  PROVE  /\ At(1) = op.addr
         /\ \A k \in 1..Size : At(k) \in Addr /\ NextAddress(At(k)) = At(k + 1)
         /\ \A j, k \in 1..Size : At(j) = At(k) => j = k
<1>1. op.addr \in 0..(Size - 1) /\ Size \in Nat \ {0}
  BY OpType, SizeAssumption DEF Addr
<1> QED
  BY <1>1 DEF At, Addr, NextAddress

LEMMA SameOp ==
  ASSUME op' = op, before' = before
  PROVE  \A k : At(k)' = At(k) /\ Goal(k)' = Goal(k)
  BY DEF At, Goal

LEMMA NextType == ASSUME NEW a \in Addr PROVE NextAddress(a) \in Addr
  BY SizeAssumption DEF NextAddress, Addr

LEMMA MergeType ==
  ASSUME NEW w \in Word, NEW m, NEW v \in Word
  PROVE  Merge(w, m, v) \in Word /\ Field(w, m) \in Word
  BY DEF Merge, Field, Word
-----------------------------------------------------------------------------
(* The steps                                                               *)

LEMMA InitInv == Init => Inv
<1> SUFFICES ASSUME Init PROVE Inv
  OBVIOUS
<1> USE DEF Init, IO!Init, Status, Nothing
<1>1. op \in Ops \cup {NoOp} /\ Len(op.vals) = 0 /\ 0 \in Addr /\ {} \in Word
  BY SizeAssumption DEF NoOp, Addr, Word
<1>2. TypeOK
  BY <1>1 DEF TypeOK, IO!NoCall, IO!Calls
<1>3. InHand
  BY DEF InHand
<1>4. AllOrNothing
  BY <1>1 DEF AllOrNothing, Same
<1>5. ReadIsCurrent
  BY DEF ReadIsCurrent
<1> QED
  BY <1>2, <1>3, <1>4, <1>5 DEF Inv

\* No register call is in progress between operations.
LEMMA NoCallWhenIdle == ASSUME TypeOK, pc = "idle" PROVE call = IO!NoCall
  BY DEF TypeOK, IO!Calls

\* A call by a name that is not in the map is refused, whatever operation it would be.
LEMMA BeginInv ==
  ASSUME Inv, NEW o \in Ops \cup {NoOp}, Begin(o),
         o \in Ops \/ result' = Status("refused")
  PROVE  Inv'
<1>1. /\ pc = "idle" /\ call' = IO!NoCall /\ op' = o /\ i' = 1 /\ address' = o.addr
      /\ before' = reg /\ moved' = Nothing /\ reg' = reg /\ seen' = seen /\ done' = done
  BY NoCallWhenIdle DEF Begin, io, Inv
<1>2. /\ o.addr \in Addr /\ o.mask \in Word /\ Len(o.vals) \in 0..Size
      /\ o.kind \in {"read", "write", "block"}
      /\ \A k \in 1..Len(o.vals) : o.vals[k] \in Word
      /\ o.kind = "read" => Len(o.vals) = 0
      /\ o.kind = "write" => Len(o.vals) = 1
  BY OpType
<1>3. \/ /\ pc' = "idle" /\ result' \in {Status("refused"), Status("written")}
         /\ building' = building
         /\ result' = Status("written") => Len(o.vals) = 0
      \/ /\ pc' = "read" /\ result' = Status("none") /\ building' = building
         /\ o.kind \in {"read", "write"}
      \/ /\ pc' = "write" /\ result' = Status("none") /\ 1 <= Len(o.vals)
         /\ o.mask = Bit
         /\ building' = Merge({}, o.mask, o.vals[1])
  BY <1>2 DEF Begin, WriteNext, ReadFirst, Ends, Status
<1>3a. pc' # "idle" => o \in Ops
  BY <1>3 DEF Status
<1>4. reg \in [Addr -> Word] /\ building \in Word /\ {} \in Word
  BY DEF Inv, TypeOK, Word
<1>5. At(1)' = o.addr
  BY <1>1, <1>2, SizeAssumption DEF At, Addr
<1>6. \A a : Same(a, before[a])'
  BY <1>1 DEF Same
<1>7. TypeOK'
  <2>1. building' \in Word
    BY <1>2, <1>3, <1>4, MergeType
  <2>2. result' \in [status : {"none", "refused", "failed", "written"}]
    BY <1>3 DEF Status
  <2>3. seen' \subseteq Word /\ done' \in BOOLEAN /\ moved' \in [Addr -> Word]
    BY <1>1, <1>4 DEF Inv, TypeOK, Nothing
  <2> QED
    BY <1>1, <1>2, <1>3, <1>4, <2>1, <2>2, <2>3, SizeAssumption DEF TypeOK
<1>8. InHand'
  <2>1. pc' = "write" => building' = Goal(1)'
    <3> SUFFICES ASSUME pc' = "write" PROVE building' = Goal(1)'
      OBVIOUS
    <3>1. before'[At(1)'] \subseteq Bit
      BY <1>1, <1>2, <1>4, <1>5 DEF Word
    <3> QED
      BY <1>1, <1>3, <3>1 DEF Goal, Merge
  <2> QED
    BY <1>1, <1>3, <1>3a, <1>5, <1>6, <2>1 DEF InHand, Same
<1>9. AllOrNothing'
  BY <1>1, <1>2, <1>3, <1>6 DEF AllOrNothing, Status
<1>10. ReadIsCurrent'
  BY <1>3 DEF ReadIsCurrent, Status
<1> QED
  BY <1>7, <1>8, <1>9, <1>10 DEF Inv

LEMMA EnterInv == ASSUME Inv, Enters PROVE Inv'
<1>1. /\ pc \in {"read", "write"} /\ UNCHANGED local /\ reg' = reg
      /\ seen' = {} /\ done' = FALSE /\ call' # IO!NoCall /\ call'.addr = address /\ call'.kind = pc
      /\ call' \in IO!Calls
      /\ pc = "write" => call'.val = building
  BY DEF Enters, Enter, IO!Start, IO!Calls, IO!NoCall
<1>2. TypeOK'
  BY <1>1 DEF Inv, TypeOK, local, IO!Calls
<1>3. \A k : At(k)' = At(k) /\ Goal(k)' = Goal(k)
  BY <1>1, SameOp DEF local
<1>4. InHand'
  BY <1>1, <1>3 DEF Inv, InHand, local, Same
<1>5. AllOrNothing' /\ ReadIsCurrent'
  BY <1>1, <1>3 DEF Inv, AllOrNothing, ReadIsCurrent, local, Same
<1> QED
  BY <1>2, <1>4, <1>5 DEF Inv

\* What an attempt sees is what was there before, but for what the board changed.
LEMMA AttemptInv == ASSUME Inv, IO!Attempt, UNCHANGED local PROVE Inv'
<1>1. /\ call # IO!NoCall /\ seen' = {reg[call.addr]} /\ reg' = reg /\ call' = call
      /\ done' = done /\ op' = op /\ before' = before
      /\ pc' = pc /\ i' = i /\ address' = address /\ building' = building
      /\ result' = result /\ moved' = moved
  BY DEF IO!Attempt, local
<1>2. call.addr \in Addr /\ call.kind = pc
  BY <1>1 DEF Inv, TypeOK, IO!Calls
<1>3. TypeOK'
  BY <1>1, <1>2 DEF Inv, TypeOK
<1>4. \A k : At(k)' = At(k) /\ Goal(k)' = Goal(k)
  BY <1>1, SameOp
<1>5. InHand'
  <2>1. call.kind = "read" => \A v \in seen' : v \ moved[At(i)] = before[At(i)] \ moved[At(i)]
    BY <1>1, <1>2 DEF Inv, InHand, Same
  <2> QED
    BY <1>1, <1>4, <2>1 DEF Inv, InHand, Same
<1>6. AllOrNothing' /\ ReadIsCurrent'
  BY <1>1, <1>4 DEF Inv, AllOrNothing, ReadIsCurrent, Same
<1> QED
  BY <1>3, <1>5, <1>6 DEF Inv

\* The write changes the register of the word in hand, and no other.
LEMMA ApplyInv == ASSUME Inv, IO!Apply, UNCHANGED local PROVE Inv'
<1>1. /\ call # IO!NoCall /\ call.kind = "write" /\ call' = call /\ done' = TRUE
      /\ reg' = [reg EXCEPT ![call.addr] = call.val] /\ seen' = seen \cup {call.val}
      /\ op' = op /\ before' = before
      /\ pc' = pc /\ i' = i /\ address' = address /\ building' = building
      /\ result' = result /\ moved' = moved
  BY DEF IO!Apply, local
<1>2. /\ pc = "write" /\ call.addr = At(i) /\ call.val = building
      /\ building \in Word /\ At(i) \in Addr /\ reg \in [Addr -> Word]
      /\ building \ moved[At(i)] = Goal(i) \ moved[At(i)]
      /\ i \in 1..Len(op.vals) /\ Len(op.vals) \in 0..Size
  <2>1. pc = "write" /\ call.addr = At(i) /\ call.addr \in Addr
    BY <1>1 DEF Inv, TypeOK, InHand, IO!Calls
  <2> QED
    BY <1>1, <2>1, OpType DEF Inv, TypeOK, InHand
<1>3. TypeOK'
  BY <1>1, <1>2 DEF Inv, TypeOK
<1>4. \A k : At(k)' = At(k) /\ Goal(k)' = Goal(k)
  BY <1>1, SameOp
<1>5. \A w : Same(At(i), w)' <=> building \ moved[At(i)] = w \ moved[At(i)]
  BY <1>1, <1>2, <1>4 DEF Same
<1>6. \A a \in Addr : \A w : a # At(i) => (Same(a, w)' <=> Same(a, w))
  BY <1>1, <1>2 DEF Same
<1>7. InHand'
  BY <1>1, <1>2, <1>4, <1>5 DEF Inv, InHand, Same
<1>8. AllOrNothing'
  <2>1. \A k \in 1..(i - 1) : At(k) \in Addr /\ At(k) # At(i)
    BY <1>2, AtType, SizeAssumption DEF Inv, TypeOK
  <2>2. \A k \in 1..(i - 1) : Same(At(k), Goal(k))'
    BY <1>1, <1>4, <1>6, <2>1 DEF Inv, AllOrNothing, Same
  <2>3. Same(At(i), Goal(i))'
    BY <1>1, <1>2, <1>4, <1>5 DEF Same
  <2>4. \A a \in Addr : (\A k \in 1..Len(op.vals) : k <= i => a # At(k)) => Same(a, before[a])'
    <3> SUFFICES ASSUME NEW a \in Addr, \A k \in 1..Len(op.vals) : k <= i => a # At(k)
                 PROVE  Same(a, before[a])'
      OBVIOUS
    <3>1. a # At(i) /\ Same(a, before[a])
      BY <1>2 DEF Inv, AllOrNothing
    <3> QED
      BY <1>1, <1>6, <3>1 DEF Same
  <2> QED
    BY <1>1, <1>4, <2>2, <2>3, <2>4 DEF Inv, AllOrNothing
<1>9. ReadIsCurrent'
  BY <1>1 DEF Inv, ReadIsCurrent
<1> QED
  BY <1>3, <1>7, <1>8, <1>9 DEF Inv

\* The bits the board changes by itself count as moved from then on.
LEMMA BoardChangeInv ==
  ASSUME Inv, NEW a \in Addr, NEW v \in Word, BoardChange(a, v) PROVE Inv'
<1> DEFINE More == (v \ reg[a]) \cup (reg[a] \ v)
<1>1. /\ reg' = [reg EXCEPT ![a] = v] /\ moved' = [moved EXCEPT ![a] = moved[a] \cup More]
      /\ seen' = IF call # IO!NoCall /\ call.addr = a THEN seen \cup {v} ELSE seen
      /\ call' = call /\ done' = done /\ op' = op /\ before' = before
      /\ pc' = pc /\ i' = i /\ address' = address /\ building' = building
      /\ result' = result
  BY DEF BoardChange, IO!BoardChange
<1>2. /\ reg \in [Addr -> Word] /\ moved \in [Addr -> Word]
      /\ reg' \in [Addr -> Word] /\ moved' \in [Addr -> Word]
  <2>1. reg \in [Addr -> Word] /\ moved \in [Addr -> Word]
    BY DEF Inv, TypeOK
  <2>2. moved[a] \cup More \in Word
    BY <2>1 DEF Word
  <2> QED
    BY <1>1, <2>1, <2>2
<1>3. TypeOK'
  BY <1>1, <1>2 DEF Inv, TypeOK
<1>4. \A k : At(k)' = At(k) /\ Goal(k)' = Goal(k)
  BY <1>1, SameOp
<1>5. \A b \in Addr : moved[b] \subseteq moved'[b]
  BY <1>1, <1>2
<1>6. reg'[a] = v /\ v \ moved'[a] = reg[a] \ moved'[a]
  <2>1. reg'[a] = v /\ moved'[a] = moved[a] \cup More
    BY <1>1, <1>2
  <2> QED
    BY <2>1
<1>7. \A b \in Addr : \A w, x : x \ moved[b] = w \ moved[b] => x \ moved'[b] = w \ moved'[b]
  BY <1>5, MoreBits
<1>8. \A b \in Addr : \A w : Same(b, w) => Same(b, w)'
  <2> SUFFICES ASSUME NEW b \in Addr, NEW w, Same(b, w) PROVE Same(b, w)'
    OBVIOUS
  <2>1. reg[b] \ moved'[b] = w \ moved'[b]
    BY <1>7 DEF Same
  <2>2. reg'[b] \ moved'[b] = reg[b] \ moved'[b]
    <3>1. CASE b = a
      BY <1>6, <3>1
    <3>2. CASE b # a
      BY <1>1, <1>2, <3>2
    <3> QED
      BY <3>1, <3>2
  <2> QED
    BY <2>1, <2>2 DEF Same
<1>9. /\ op \in Ops \cup {NoOp} /\ i \in Nat /\ Len(op.vals) \in 0..Size
      /\ \A k \in 1..Len(op.vals) : At(k) \in Addr
      /\ At(1) = op.addr /\ At(1) \in Addr
  BY OpType, AtType, SizeAssumption DEF Inv, TypeOK, Addr
<1>10. InHand'
  <2>1. ASSUME call # IO!NoCall, call.kind = "read"
        PROVE  \A x \in seen' : x \ moved'[At(i)] = before[At(i)] \ moved'[At(i)]
    <3>1. pc = "read" /\ call.addr = At(i) /\ Same(At(i), before[At(i)]) /\ At(i) \in Addr
      BY <1>9, <2>1 DEF Inv, TypeOK, InHand, IO!Calls
    <3>2. \A x \in seen : x \ moved'[At(i)] = before[At(i)] \ moved'[At(i)]
      BY <1>7, <2>1, <3>1 DEF Inv, InHand
    <3>3. Same(At(i), before[At(i)])'
      BY <1>1, <1>4, <1>8, <3>1 DEF Same
    <3>4. At(i) = a => v \ moved'[At(i)] = before[At(i)] \ moved'[At(i)]
      BY <1>1, <1>4, <1>6, <3>3 DEF Same
    <3> QED
      BY <1>1, <2>1, <3>1, <3>2, <3>4
  <2>2. ASSUME call # IO!NoCall, call.kind = "write", done
        PROVE  Same(At(i), Goal(i))'
    <3>1. pc = "write" /\ Same(At(i), Goal(i)) /\ i \in 1..Len(op.vals)
      BY <2>2 DEF Inv, TypeOK, InHand, IO!Calls
    <3> QED
      BY <1>1, <1>4, <1>8, <1>9, <3>1 DEF Same
  <2>3. pc = "read" => Same(At(i), before[At(i)])'
    BY <1>1, <1>4, <1>8, <1>9 DEF Inv, InHand, Same
  <2>4. pc = "write" => building \ moved'[At(i)] = Goal(i) \ moved'[At(i)]
    <3> SUFFICES ASSUME pc = "write" PROVE building \ moved'[At(i)] = Goal(i) \ moved'[At(i)]
      OBVIOUS
    <3>1. i \in 1..Len(op.vals) /\ building \ moved[At(i)] = Goal(i) \ moved[At(i)]
      BY DEF Inv, TypeOK, InHand
    <3> QED
      BY <1>7, <1>9, <3>1
  <2> QED
    BY <1>1, <1>4, <2>1, <2>2, <2>3, <2>4 DEF Inv, InHand, Same
<1>11. AllOrNothing'
  <2>1. \A k \in 1..(i - 1) : Same(At(k), Goal(k))'
    <3> SUFFICES ASSUME NEW k \in 1..(i - 1) PROVE Same(At(k), Goal(k))'
      OBVIOUS
    <3>1. k \in 1..Len(op.vals) /\ Same(At(k), Goal(k))
      BY <1>9 DEF Inv, TypeOK, AllOrNothing
    <3> QED
      BY <1>1, <1>4, <1>8, <1>9, <3>1 DEF Same
  <2>2. i <= Len(op.vals) => Same(At(i), before[At(i)])' \/ Same(At(i), Goal(i))'
    <3> SUFFICES ASSUME i <= Len(op.vals)
                 PROVE  Same(At(i), before[At(i)])' \/ Same(At(i), Goal(i))'
      OBVIOUS
    <3>1. At(i) \in Addr /\ (Same(At(i), before[At(i)]) \/ Same(At(i), Goal(i)))
      BY <1>9 DEF Inv, TypeOK, AllOrNothing
    <3> QED
      BY <1>1, <1>4, <1>8, <3>1 DEF Same
  <2>3. \A b \in Addr : (\A k \in 1..Len(op.vals) : k <= i => b # At(k)) => Same(b, before[b])'
    BY <1>1, <1>8 DEF Inv, AllOrNothing, Same
  <2> QED
    BY <1>1, <1>4, <2>1, <2>2, <2>3 DEF Inv, AllOrNothing
<1>12. ReadIsCurrent'
  <2>1. result.status = "read" =>
          result.bits \ moved'[op.addr] = (before[op.addr] \cap op.mask) \ moved'[op.addr]
    <3> DEFINE B == before[op.addr] \cap op.mask
    <3>1. result.status = "read" => result.bits \ moved[op.addr] = B \ moved[op.addr]
      BY DEF Inv, ReadIsCurrent
    <3>2. moved[op.addr] \subseteq moved'[op.addr]
      BY <1>5, <1>9
    <3> HIDE DEF B
    <3>3. result.status = "read" => result.bits \ moved'[op.addr] = B \ moved'[op.addr]
      BY <3>1, <3>2, MoreBits
    <3> QED
      BY <3>3 DEF B
  <2> QED
    BY <1>1, <2>1 DEF ReadIsCurrent
<1> QED
  BY <1>3, <1>10, <1>11, <1>12 DEF Inv

\* What was read is what was there; with the item put in, it is what should be there.
LEMMA ReadReturnsInv == ASSUME Inv, ReadReturns PROVE Inv'
<1>1. /\ call # IO!NoCall /\ call.kind = "read" /\ out'.val \in seen
      /\ call' = IO!NoCall /\ reg' = reg /\ seen' = seen /\ done' = done
      /\ op' = op /\ before' = before /\ i' = i /\ address' = address /\ moved' = moved
  BY DEF ReadReturns, IO!ReturnRead
<1>2. /\ pc = "read" /\ i = 1 /\ op \in Ops /\ address = At(i) /\ out'.val \in Word
      /\ op.kind \in {"read", "write"} /\ Same(At(i), before[At(i)])
      /\ out'.val \ moved[At(i)] = before[At(i)] \ moved[At(i)]
      /\ op.mask \in Word /\ At(i) = op.addr
      /\ result = Status("none")
      /\ op.kind = "read" => Len(op.vals) = 0
      /\ op.kind = "write" => Len(op.vals) = 1 /\ op.vals[1] \in Word
  <2>1. pc = "read" /\ op \in Ops /\ out'.val \in Word
    BY <1>1 DEF Inv, TypeOK, InHand, IO!Calls
  <2> QED
    BY <1>1, <2>1, OpType, AtType DEF Inv, InHand
<1>3. \A k : At(k)' = At(k) /\ Goal(k)' = Goal(k)
  BY <1>1, SameOp
<1>4. CASE op.kind = "read"
  <2>1. /\ pc' = "idle" /\ building' = building
        /\ result' = [status |-> "read", bits |-> Field(out'.val, op.mask)]
    BY <1>4 DEF ReadReturns, Ends
  <2>2. TypeOK'
    <3>1. result' \in [status : {"read"}, bits : Word]
      BY <1>2, <2>1, MergeType
    <3> QED
      BY <1>1, <2>1, <3>1 DEF Inv, TypeOK
  <2>3. InHand'
    BY <1>1, <2>1 DEF InHand
  <2>4. AllOrNothing'
    BY <1>1, <1>3, <2>1 DEF Inv, AllOrNothing, Same
  <2>5. ReadIsCurrent'
    <3>1. Field(out'.val, op.mask) \ moved[op.addr]
            = Field(before[op.addr], op.mask) \ moved[op.addr]
      <4>1. out'.val \ moved[op.addr] = before[op.addr] \ moved[op.addr]
        BY <1>2
      <4> QED
        BY <4>1 DEF Field
    <3> QED
      BY <1>1, <2>1, <3>1 DEF ReadIsCurrent, Field
  <2> QED
    BY <2>2, <2>3, <2>4, <2>5 DEF Inv
<1>5. CASE op.kind = "write"
  <2>1. pc' = "write" /\ result' = result /\ building' = Merge(out'.val, op.mask, op.vals[1])
    BY <1>5 DEF ReadReturns
  <2>2. TypeOK'
    <3>1. building' \in Word
      BY <1>2, <1>5, <2>1, MergeType
    <3> QED
      BY <1>1, <2>1, <3>1 DEF Inv, TypeOK
  <2>3. InHand'
    <3>1. building' \ moved[At(i)] = Goal(i) \ moved[At(i)]
      <4>1. Merge(out'.val, op.mask, op.vals[1]) \ moved[At(i)]
              = Merge(before[At(i)], op.mask, op.vals[1]) \ moved[At(i)]
        BY <1>2 DEF Merge
      <4>2. Goal(i) = Merge(before[At(i)], op.mask, op.vals[1])
        BY <1>2 DEF Goal
      <4> QED
        BY <2>1, <4>1, <4>2
    <3> QED
      BY <1>1, <1>2, <1>3, <1>5, <2>1, <3>1 DEF InHand
  <2>4. AllOrNothing' /\ ReadIsCurrent'
    BY <1>1, <1>3, <2>1 DEF Inv, AllOrNothing, ReadIsCurrent, Same
  <2> QED
    BY <2>2, <2>3, <2>4 DEF Inv
<1> QED
  BY <1>2, <1>4, <1>5

\* The word in hand is written: the next one goes to a register not written yet.
LEMMA WriteReturnsInv == ASSUME Inv, WriteReturns PROVE Inv'
<1>1. /\ call # IO!NoCall /\ call.kind = "write" /\ done
      /\ call' = IO!NoCall /\ reg' = reg /\ seen' = seen /\ done' = done
      /\ op' = op /\ before' = before /\ i' = i + 1 /\ moved' = moved
      /\ address' = NextAddress(address) /\ WriteNext(op, i + 1)
  BY DEF WriteReturns, IO!ReturnWritten
<1>2. /\ pc = "write" /\ op \in Ops /\ address = At(i) /\ Same(At(i), Goal(i))
      /\ i \in 1..Len(op.vals) /\ Len(op.vals) \in 0..Size
      /\ op.mask = Bit \/ op.kind = "write"
      /\ op.mask \in Word
      /\ op.kind = "write" => Len(op.vals) = 1
      /\ \A k \in 1..Len(op.vals) : op.vals[k] \in Word
  <2>1. pc = "write"
    BY <1>1 DEF Inv, TypeOK, IO!Calls
  <2> QED
    BY <1>1, <2>1, OpType DEF Inv, TypeOK, InHand
<1>3. \A k : At(k)' = At(k) /\ Goal(k)' = Goal(k)
  BY <1>1, SameOp
<1>4. \/ /\ i + 1 > Len(op.vals) /\ pc' = "idle" /\ result' = Status("written")
         /\ building' = building
      \/ /\ i + 1 <= Len(op.vals) /\ pc' = "write" /\ result' = Status("none")
         /\ building' = Merge({}, op.mask, op.vals[i + 1])
  BY <1>1, <1>2 DEF WriteNext, Ends
<1>5. \A k \in 1..Size : At(k) \in Addr /\ NextAddress(At(k)) = At(k + 1)
  BY <1>2, AtType
<1>6. \A j, k \in 1..Size : At(j) = At(k) => j = k
  BY <1>2, AtType
<1>7. TypeOK'
  <2>1. building' \in Word
    <3>1. {} \in Word /\ building \in Word
      BY DEF Inv, TypeOK, Word
    <3> QED
      BY <1>2, <1>4, <3>1, MergeType
  <2>2. result' \in [status : {"none", "refused", "failed", "written"}]
    BY <1>4 DEF Status
  <2>3. address' \in Addr
    BY <1>1, NextType DEF Inv, TypeOK
  <2> QED
    BY <1>1, <1>2, <1>4, <2>1, <2>2, <2>3 DEF Inv, TypeOK
<1>8. InHand'
  <2>1. i + 1 <= Len(op.vals) =>
          Merge({}, op.mask, op.vals[i + 1]) = Goal(i + 1) /\ address' = At(i + 1)
    <3> SUFFICES ASSUME i + 1 <= Len(op.vals)
                 PROVE  /\ Merge({}, op.mask, op.vals[i + 1]) = Goal(i + 1)
                        /\ address' = At(i + 1)
      OBVIOUS
    <3>1. op.mask = Bit /\ i + 1 \in 1..Size /\ i \in 1..Size
      <4>1. i \in Nat /\ i >= 1 /\ Len(op.vals) \in Nat /\ Len(op.vals) <= Size
        BY <1>2, SizeAssumption
      <4>2. Len(op.vals) >= 2
        BY <4>1
      <4> QED
        BY <1>2, <4>1, <4>2, SizeAssumption
    <3>2. before[At(i + 1)] \subseteq Bit
      BY <1>5, <3>1 DEF Inv, TypeOK, Word
    <3> QED
      BY <1>1, <1>2, <1>5, <3>1, <3>2 DEF Goal, Merge
  <2> QED
    BY <1>1, <1>2, <1>3, <1>4, <2>1 DEF InHand
<1>9. AllOrNothing'
  <2>1. \A k \in 1..i : Same(At(k), Goal(k))
    <3> SUFFICES ASSUME NEW k \in 1..i PROVE Same(At(k), Goal(k))
      OBVIOUS
    <3>1. CASE k = i
      BY <1>2, <3>1
    <3>2. CASE k \in 1..(i - 1)
      BY <3>2 DEF Inv, AllOrNothing
    <3> QED
      BY <1>2, <3>1, <3>2
  <2>2. i + 1 <= Len(op.vals) => Same(At(i + 1), before[At(i + 1)])
    <3> SUFFICES ASSUME i + 1 <= Len(op.vals) PROVE Same(At(i + 1), before[At(i + 1)])
      OBVIOUS
    <3>1. At(i + 1) \in Addr /\ \A k \in 1..Len(op.vals) : k <= i => At(i + 1) # At(k)
      <4>1. i + 1 \in 1..Size /\ \A k \in 1..Len(op.vals) : k \in 1..Size
        BY <1>2, SizeAssumption
      <4>2. \A k \in 1..Len(op.vals) : k <= i => k # i + 1
        BY <1>2
      <4> QED
        BY <1>5, <1>6, <4>1, <4>2
    <3> QED
      BY <3>1 DEF Inv, AllOrNothing
  <2>3. \A a \in Addr : (\A k \in 1..Len(op.vals) : k <= i + 1 => a # At(k)) => Same(a, before[a])
    <3> SUFFICES ASSUME NEW a \in Addr,
                        \A k \in 1..Len(op.vals) : k <= i + 1 => a # At(k)
                 PROVE  Same(a, before[a])
      OBVIOUS
    <3>1. \A k \in 1..Len(op.vals) : k <= i => a # At(k)
      BY <1>2
    <3> QED
      BY <3>1 DEF Inv, AllOrNothing
  <2>4. \A k \in 1..((i + 1) - 1) : Same(At(k), Goal(k))
    BY <1>2, <2>1
  <2> QED
    BY <1>1, <1>2, <1>3, <1>4, <2>2, <2>3, <2>4 DEF AllOrNothing, Same, Status
<1>10. ReadIsCurrent'
  BY <1>4 DEF ReadIsCurrent, Status
<1> QED
  BY <1>7, <1>8, <1>9, <1>10 DEF Inv

LEMMA CallFailsInv == ASSUME Inv, CallFails PROVE Inv'
<1>1. /\ call' = IO!NoCall /\ reg' = reg /\ seen' = seen /\ done' = done
      /\ op' = op /\ before' = before /\ i' = i /\ address' = address
      /\ building' = building /\ moved' = moved
      /\ pc' = "idle" /\ result' = Status("failed")
  BY DEF CallFails, IO!ReturnFailed, Ends
<1>2. \A k : At(k)' = At(k) /\ Goal(k)' = Goal(k)
  BY <1>1, SameOp
<1>3. TypeOK'
  <2>1. result' \in [status : {"none", "refused", "failed", "written"}]
    BY <1>1 DEF Status
  <2> QED
    BY <1>1, <2>1 DEF Inv, TypeOK
<1>4. InHand'
  BY <1>1 DEF InHand
<1>5. AllOrNothing' /\ ReadIsCurrent'
  BY <1>1, <1>2 DEF Inv, AllOrNothing, ReadIsCurrent, Same, Status
<1> QED
  BY <1>3, <1>4, <1>5 DEF Inv

LEMMA StutterInv == ASSUME Inv, UNCHANGED vars PROVE Inv'
<1>1. \A k : At(k)' = At(k) /\ Goal(k)' = Goal(k)
  BY SameOp DEF vars, local
<1> QED
  BY <1>1 DEF vars, io, local, Inv, TypeOK, InHand, AllOrNothing, ReadIsCurrent, Same
-----------------------------------------------------------------------------
(* The inductive invariant of the masked and block accesses.               *)
THEOREM InvHolds == Spec => []Inv
<1>1. Inv /\ [Next]_vars => Inv'
  <2> SUFFICES ASSUME Inv, [Next]_vars PROVE Inv'
    OBVIOUS
  <2>1. ASSUME NEW o \in Ops, Begin(o) PROVE Inv'
    BY <2>1, BeginInv
  <2>2. CASE Enters
    BY <2>2, EnterInv
  <2>3. CASE CallRuns
    BY <2>3, AttemptInv, ApplyInv DEF CallRuns
  <2>4. CASE ReadReturns
    BY <2>4, ReadReturnsInv
  <2>5. CASE WriteReturns
    BY <2>5, WriteReturnsInv
  <2>6. CASE CallFails
    BY <2>6, CallFailsInv
  <2>7. ASSUME NEW a \in Addr, NEW v \in Word, BoardChange(a, v) PROVE Inv'
    BY <2>7, BoardChangeInv
  <2>8. CASE UNCHANGED vars
    BY <2>8, StutterInv
  <2> QED
    BY <2>1, <2>2, <2>3, <2>4, <2>5, <2>6, <2>7, <2>8 DEF Next
<1> QED
  BY <1>1, InitInv, PTL DEF Spec

(* The address, the word in hand and the results stay in their types for   *)
(* any number of addresses: address++ never leaves the address space.      *)
THEOREM TypeCorrect == Spec => []TypeOK
<1>1. Inv => TypeOK
  BY DEF Inv
<1> QED
  BY <1>1, InvHolds, PTL

(* WriteWithRetry and the block Write change what they are asked to change *)
(* and nothing else, in order, also when a register call fails in between. *)
THEOREM WritesAllOrNothing == Spec => []AllOrNothing
<1>1. Inv => AllOrNothing
  BY DEF Inv
<1> QED
  BY <1>1, InvHolds, PTL

(* Read returns the bits of the item and no stale ones.                    *)
THEOREM ReadsAreCurrent == Spec => []ReadIsCurrent
<1>1. Inv => ReadIsCurrent
  BY DEF Inv
<1> QED
  BY <1>1, InvHolds, PTL
-----------------------------------------------------------------------------
(* Induction and remainders                                                *)

\* Induction on a set of numbers; the theorems of the library that take a predicate
\* are not used.
LEMMA SetInduction ==
  ASSUME NEW T \in SUBSET Nat, 0 \in T, \A n \in T : n + 1 \in T
  PROVE  T = Nat
<1> DEFINE R == OpToRel(<, Nat)
           U == Nat \ T
<1>1. IsWellFoundedOn(R, Nat)
  BY NatLessThanWellFounded
<1>2. \A x, y \in Nat : x < y => <<x, y>> \in R
  BY DEF OpToRel
<1> SUFFICES ASSUME U # {} PROVE FALSE
  OBVIOUS
<1> HIDE DEF R
<1>3. PICK x \in U : \A y \in U : ~(<<y, x>> \in R)
  BY <1>1, WFMin
<1>4. x # 0 /\ x - 1 \in Nat /\ x - 1 < x
  OBVIOUS
<1>5. x - 1 \in T
  BY <1>2, <1>3, <1>4
<1> QED
  BY <1>4, <1>5

\* A remainder taken before an addition makes no difference to the one taken after.
LEMMA QuotientOf ==
  ASSUME NEW P \in Nat \ {0}, NEW a \in Nat
  PROVE  a \div P \in Nat /\ a % P \in 0..(P - 1) /\ a = P * (a \div P) + (a % P)
<1>1. a \div P \in Nat
  OBVIOUS
<1>2. a % P \in 0..(P - 1)
  OBVIOUS
<1>3. a = P * (a \div P) + (a % P)
  OBVIOUS
<1> QED
  BY <1>1, <1>2, <1>3

LEMMA RemainderOf ==
  ASSUME NEW P \in Nat \ {0}, NEW q \in Nat, NEW r \in 0..(P - 1)
  PROVE  (P * q + r) % P = r
  OBVIOUS

LEMMA AddRemainder ==
  ASSUME NEW P \in Nat \ {0}, NEW a \in Nat, NEW b \in Nat
  PROVE  ((a % P) + b) % P = (a + b) % P
<1> DEFINE u == a \div P
           v == ((a % P) + b) \div P
           r == ((a % P) + b) % P
<1>1. u \in Nat /\ a % P \in 0..(P - 1) /\ a = P * u + (a % P)
  BY QuotientOf
<1>2. (a % P) + b \in Nat
  BY <1>1
<1>3. v \in Nat /\ r \in 0..(P - 1) /\ (a % P) + b = P * v + r
  BY <1>2, QuotientOf
<1> HIDE DEF u, v, r
<1>4. a + b = P * u + (P * v + r)
  BY <1>1, <1>3
<1>5. P * u + (P * v + r) = P * (u + v) + r
  BY <1>1, <1>3
<1>6. u + v \in Nat
  BY <1>1, <1>3
<1>7. (P * (u + v) + r) % P = r
  BY <1>3, <1>6, RemainderOf
<1>8. (a + b) % P = r
  BY <1>4, <1>5, <1>7
<1> QED
  BY <1>8 DEF r
-----------------------------------------------------------------------------
(* Names and files                                                         *)

LEMMA UpperType ==
  ASSUME NEW n \in Seq(Part)
  PROVE  /\ L!UpperCase(n) \in Seq(Part) /\ Len(L!UpperCase(n)) = Len(n)
         /\ \A k \in 1..Len(n) : L!UpperCase(n)[k] = Upper[n[k]] /\ n[k] \in Part
         /\ DOMAIN L!UpperCase(n) = 1..Len(n)
<1>1. DOMAIN n = 1..Len(n) /\ Len(n) \in Nat /\ \A k \in 1..Len(n) : n[k] \in Part
  OBVIOUS
<1>2. L!UpperCase(n) \in [1..Len(n) -> Part]
  BY <1>1, TableAssumption DEF L!UpperCase
<1>3. \A k \in 1..Len(n) : L!UpperCase(n)[k] = Upper[n[k]]
  BY <1>1 DEF L!UpperCase
<1>4. L!UpperCase(n) \in Seq(Part) /\ Len(L!UpperCase(n)) = Len(n)
  BY <1>1, <1>2
<1> QED
  BY <1>1, <1>2, <1>3, <1>4

\* A prefix that is in upper case already does not change by it.
LEMMA UpperJoin ==
  ASSUME NEW a \in Seq(Part), NEW b \in Seq(Part)
  PROVE  L!UpperCase(L!UpperCase(a) \o b) = L!UpperCase(a \o b)
<1> DEFINE A == L!UpperCase(a)
           x == A \o b
           y == a \o b
<1>1. A \in Seq(Part) /\ Len(A) = Len(a) /\ \A k \in 1..Len(a) : A[k] = Upper[a[k]] /\ a[k] \in Part
  BY UpperType
<1> HIDE DEF A
<1>2. x \in Seq(Part) /\ y \in Seq(Part) /\ Len(x) = Len(a) + Len(b) /\ Len(y) = Len(a) + Len(b)
  BY <1>1
<1>3. \A k \in 1..Len(y) : Upper[x[k]] = Upper[y[k]]
  <2> SUFFICES ASSUME NEW k \in 1..Len(y) PROVE Upper[x[k]] = Upper[y[k]]
    OBVIOUS
  <2>1. CASE k <= Len(a)
    <3>1. k \in 1..Len(a) /\ x[k] = A[k] /\ y[k] = a[k]
      BY <1>1, <1>2, <2>1
    <3> QED
      BY <1>1, <3>1, TableAssumption
  <2>2. CASE k > Len(a)
    <3>1. x[k] = b[k - Len(a)] /\ y[k] = b[k - Len(a)]
      BY <1>1, <1>2, <2>2
    <3> QED
      BY <3>1
  <2> QED
    BY <1>2, <2>1, <2>2
<1>4. DOMAIN x = 1..Len(y) /\ DOMAIN y = 1..Len(y)
  BY <1>2
<1> HIDE DEF x, y
<1>5. L!UpperCase(x) = L!UpperCase(y)
  BY <1>3, <1>4 DEF L!UpperCase
<1> QED
  BY <1>5 DEF x, y, A

LEMMA LineType ==
  ASSUME NEW l \in L!Line
  PROVE  /\ l.kind \in {"blank", "short", "item", "include"}
         /\ l.name \in Seq(Part) /\ l.addr \in Addr /\ l.mask \in Word
         /\ l.mode \in SUBSET {"r", "w", "a"} /\ l.malformed \in BOOLEAN
         /\ l.file \in File /\ l.long \in BOOLEAN
  BY DEF L!Line, L!Address, Addr, Word

\* A spot is a line of a file.
LEMMA SpotType ==
  ASSUME NEW d \in Disks
  PROVE  /\ \A f \in DOMAIN d : d[f] \in Seq(L!Line)
         /\ \A f \in DOMAIN d : \A k \in 1..Len(d[f]) : <<f, k>> \in L!Spots(d)
         /\ \A s \in L!Spots(d) : /\ s[1] \in DOMAIN d /\ s[2] \in 1..Len(d[s[1]])
                                  /\ L!LineAt(d, s) \in L!Line /\ s = <<s[1], s[2]>>
<1>1. \A f \in DOMAIN d : d[f] \in Seq(L!Line)
  BY TableAssumption
<1>2. \A f \in DOMAIN d : DOMAIN d[f] = 1..Len(d[f]) /\ \A k \in 1..Len(d[f]) : d[f][k] \in L!Line
  BY <1>1
<1>3. \A s \in L!Spots(d) : \E f \in DOMAIN d : \E k \in DOMAIN d[f] : s = <<f, k>>
  BY DEF L!Spots
<1>4. \A f \in DOMAIN d : \A k \in 1..Len(d[f]) : <<f, k>> \in L!Spots(d)
  BY <1>2 DEF L!Spots
<1>5. ASSUME NEW s \in L!Spots(d)
      PROVE  /\ s[1] \in DOMAIN d /\ s[2] \in 1..Len(d[s[1]])
             /\ L!LineAt(d, s) \in L!Line /\ s = <<s[1], s[2]>>
  <2>1. PICK f \in DOMAIN d : \E k \in DOMAIN d[f] : s = <<f, k>>
    BY <1>3
  <2>2. PICK k \in DOMAIN d[f] : s = <<f, k>>
    BY <2>1
  <2> QED
    BY <1>2, <2>2 DEF L!LineAt
<1> QED
  BY <1>1, <1>4, <1>5
-----------------------------------------------------------------------------
(* What the lines along a way add up to                                    *)

\* One line further along.
Further(d, s, w) == [name |-> w.name \o L!LineAt(d, s).name,
                     addr |-> w.addr + L!LineAt(d, s).addr]
Start == [name |-> <<>>, addr |-> 0]
Adds(d, n, p, w) ==
  w = [k \in 0..n |-> IF k = 0 THEN Start ELSE Further(d, p[k], w[k - 1])]

\* A way of n lines is a sequence.
LEMMA WayLen ==
  ASSUME NEW S, NEW n \in Nat, NEW p \in [1..n -> S]
  PROVE  Len(p) = n /\ DOMAIN p = 1..n /\ p \in Seq(S)
  OBVIOUS

\* There is a function that adds up, so Along is one.
LEMMA AlongExists ==
  ASSUME NEW d, NEW n \in Nat, NEW p
  PROVE  \E w : Adds(d, n, p, w)
<1> DEFINE T == {m \in Nat : \E w : Adds(d, m, p, w)}
<1>1. 0 \in T
  <2>1. Adds(d, 0, p, [k \in 0..0 |-> Start])
    BY DEF Adds
  <2> QED
    BY <2>1
<1>2. ASSUME NEW m \in T
      PROVE  m + 1 \in T
  <2>1. m \in Nat /\ \E w : Adds(d, m, p, w)
    OBVIOUS
  <2>2. PICK w : Adds(d, m, p, w)
    BY <2>1
  <2> DEFINE v == [k \in 0..(m + 1) |-> IF k <= m THEN w[k] ELSE Further(d, p[k], w[m])]
  <2>3. \A k \in 0..m : w[k] = IF k = 0 THEN Start ELSE Further(d, p[k], w[k - 1])
    BY <2>2 DEF Adds
  <2>4. \A k \in 0..(m + 1) : v[k] = IF k = 0 THEN Start ELSE Further(d, p[k], v[k - 1])
    <3> SUFFICES ASSUME NEW k \in 0..(m + 1)
                 PROVE  v[k] = IF k = 0 THEN Start ELSE Further(d, p[k], v[k - 1])
      OBVIOUS
    <3>1. k # 0 => k - 1 \in 0..m /\ v[k - 1] = w[k - 1]
      BY <2>1
    <3>2. CASE k <= m
      BY <2>1, <2>3, <3>1, <3>2
    <3>3. CASE k = m + 1
      BY <2>1, <3>1, <3>3
    <3> QED
      BY <2>1, <3>2, <3>3
  <2>5. v = [k \in 0..(m + 1) |-> v[k]]
    OBVIOUS
  <2> HIDE DEF v
  <2>6. v = [k \in 0..(m + 1) |-> IF k = 0 THEN Start ELSE Further(d, p[k], v[k - 1])]
    BY <2>4, <2>5
  <2>7. Adds(d, m + 1, p, v)
    BY <2>6 DEF Adds
  <2> QED
    BY <2>1, <2>7
<1>3. T = Nat
  BY <1>1, <1>2, SetInduction
<1> QED
  BY <1>3

LEMMA AlongStep ==
  ASSUME NEW d, NEW n \in Nat, NEW S, NEW p \in [1..n -> S]
  PROVE  /\ L!Along(d, p)[0] = Start
         /\ \A k \in 1..n : L!Along(d, p)[k] = Further(d, p[k], L!Along(d, p)[k - 1])
<1>1. Len(p) = n
  BY WayLen
<1>2. L!Along(d, p) = CHOOSE w : Adds(d, n, p, w)
  BY <1>1 DEF L!Along, Start, Further, Adds
<1>3. \E w : Adds(d, n, p, w)
  BY AlongExists
<1> DEFINE a == L!Along(d, p)
<1>4. Adds(d, n, p, a)
  BY <1>2, <1>3
<1> HIDE DEF a
<1>5. a[0] = Start /\ \A k \in 1..n : a[k] = Further(d, p[k], a[k - 1])
  BY <1>4 DEF Adds
<1> QED
  BY <1>5 DEF a

LEMMA AlongType ==
  ASSUME NEW d \in Disks, NEW n \in Nat, NEW p \in [1..n -> L!Spots(d)]
  PROVE  \A k \in 0..n : L!Along(d, p)[k].name \in Seq(Part) /\ L!Along(d, p)[k].addr \in Nat
<1> DEFINE a == L!Along(d, p)
           T == {k \in Nat : k <= n => a[k].name \in Seq(Part) /\ a[k].addr \in Nat}
<1>1. a[0] = Start /\ \A k \in 1..n : a[k] = Further(d, p[k], a[k - 1])
  BY AlongStep
<1> HIDE DEF a
<1>2. 0 \in T
  <2>1. a[0].name = <<>> /\ a[0].addr = 0
    BY <1>1 DEF Start
  <2>2. <<>> \in Seq(Part) /\ 0 \in Nat
    OBVIOUS
  <2>3. a[0].name \in Seq(Part)
    BY <2>1, <2>2
  <2>4. a[0].addr \in Nat
    BY <2>1, <2>2
  <2> QED
    BY <2>3, <2>4
<1>3. ASSUME NEW k \in T
      PROVE  k + 1 \in T
  <2> SUFFICES ASSUME k + 1 <= n
               PROVE  a[k + 1].name \in Seq(Part) /\ a[k + 1].addr \in Nat
    BY <1>3
  <2>1. a[k].name \in Seq(Part) /\ a[k].addr \in Nat /\ k + 1 \in 1..n /\ (k + 1) - 1 = k
    BY <1>3
  <2>2. L!LineAt(d, p[k + 1]) \in L!Line
    BY <2>1, SpotType
  <2>3. L!LineAt(d, p[k + 1]).name \in Seq(Part) /\ L!LineAt(d, p[k + 1]).addr \in Nat
    BY <2>2, LineType, SizeAssumption DEF Addr
  <2>4. a[k + 1] = Further(d, p[k + 1], a[k])
    BY <1>1, <2>1
  <2> QED
    BY <2>1, <2>3, <2>4 DEF Further
<1>4. T = Nat
  BY <1>2, <1>3, SetInduction
<1> QED
  BY <1>4 DEF a

\* Ways that begin alike add up alike.
LEMMA AlongPrefix ==
  ASSUME NEW d \in Disks, NEW n \in Nat, NEW p \in [1..n -> L!Spots(d)],
         NEW m \in Nat, NEW q \in [1..m -> L!Spots(d)],
         NEW j \in Nat, j <= n, j <= m, \A k \in 1..j : p[k] = q[k]
  PROVE  L!Along(d, p)[j] = L!Along(d, q)[j]
<1> DEFINE a == L!Along(d, p)
           b == L!Along(d, q)
           T == {k \in Nat : k <= j => a[k] = b[k]}
<1>1. a[0] = Start /\ \A k \in 1..n : a[k] = Further(d, p[k], a[k - 1])
  BY AlongStep
<1>2. b[0] = Start /\ \A k \in 1..m : b[k] = Further(d, q[k], b[k - 1])
  BY AlongStep
<1> HIDE DEF a, b
<1>3. 0 \in T
  BY <1>1, <1>2
<1>4. \A k \in T : k + 1 \in T
  BY <1>1, <1>2
<1>5. T = Nat
  BY <1>3, <1>4, SetInduction
<1> QED
  BY <1>5 DEF a, b
-----------------------------------------------------------------------------
(* The types of the table while it is read                                 *)

\* Every file LoadFile is in is there.
TableInv == /\ L!TypeOK
            /\ status = "loading" => \A j \in 1..Len(stack) : stack[j].file \in DOMAIN disk

\* The line that is read next, what it is a spot of and what it says.
Here == <<L!top.file, L!top.line>>
Name == L!ItemName(L!top, L!Current)
Place == L!ItemAddr(L!top, L!Current)

LEMMA SeqLast ==
  ASSUME NEW S, NEW s \in Seq(S), NEW x \in S, Len(s) >= 1
  PROVE  LET t == [s EXCEPT ![Len(s)] = x]
         IN  /\ t \in Seq(S) /\ Len(t) = Len(s) /\ t[Len(s)] = x
             /\ \A j \in 1..(Len(s) - 1) : t[j] = s[j]
<1> DEFINE t == [s EXCEPT ![Len(s)] = x]
<1>1. t \in [1..Len(s) -> S] /\ Len(s) \in Nat
  OBVIOUS
<1>2. t[Len(s)] = x /\ \A j \in 1..(Len(s) - 1) : t[j] = s[j]
  OBVIOUS
<1> HIDE DEF t
<1>3. t \in Seq(S) /\ Len(t) = Len(s)
  BY <1>1
<1>4. /\ t \in Seq(S) /\ Len(t) = Len(s) /\ t[Len(s)] = x
      /\ \A j \in 1..(Len(s) - 1) : t[j] = s[j]
  BY <1>2, <1>3
<1> QED
  BY <1>4 DEF t

\* All of a sequence but its last element.
LEMMA SeqFront ==
  ASSUME NEW S, NEW s \in Seq(S), Len(s) >= 1
  PROVE  LET t == SubSeq(s, 1, Len(s) - 1)
         IN  /\ t \in Seq(S) /\ Len(t) = Len(s) - 1
             /\ \A j \in 1..(Len(s) - 1) : t[j] = s[j]
<1>1. Len(s) \in Nat /\ \A j \in 1..(Len(s) - 1) : s[j] \in S
  OBVIOUS
<1> DEFINE t == SubSeq(s, 1, Len(s) - 1)
<1>2. t \in Seq(S)
  BY <1>1
<1>3. Len(t) = Len(s) - 1
  <2>1. \A k \in Nat : k <= Len(s) => Len(SubSeq(s, 1, k)) = k
    BY <1>1
  <2>2. Len(s) - 1 \in Nat /\ Len(s) - 1 <= Len(s)
    BY <1>1
  <2> QED
    BY <2>1, <2>2, Zenon
<1>4. \A j \in 1..(Len(s) - 1) : t[j] = s[j]
  BY <1>1
<1> QED
  BY <1>2, <1>3, <1>4

LEMMA FrameType ==
  ASSUME NEW fr \in L!Frame
  PROVE  /\ fr.file \in File /\ fr.line \in Nat /\ fr.prefix \in Seq(Part) /\ fr.offset \in Addr
         /\ \A l : /\ L!NextLine(fr, l) = [fr EXCEPT !.line = IF l.long THEN 0 ELSE fr.line + 1]
                   /\ L!NextLine(fr, l) \in L!Frame /\ L!NextLine(fr, l).file = fr.file
                   /\ L!NextLine(fr, l).prefix = fr.prefix /\ L!NextLine(fr, l).offset = fr.offset
                   /\ L!NextLine(fr, l).line = IF l.long THEN 0 ELSE fr.line + 1
<1>1. fr.file \in File /\ fr.line \in Nat /\ fr.prefix \in Seq(Part) /\ fr.offset \in Addr
  BY DEF L!Frame, L!Address, Addr
<1> QED
  BY <1>1 DEF L!Frame, L!NextLine

LEMMA OpenType ==
  ASSUME NEW f \in File, NEW p \in Seq(Part), NEW a \in Addr
  PROVE  /\ L!Open(f, p, a) \in L!Frame /\ L!Open(f, p, a).file = f
         /\ L!Open(f, p, a).line = 1 /\ L!Open(f, p, a).prefix = p /\ L!Open(f, p, a).offset = a
  BY DEF L!Open, L!Frame, L!Address, Addr

\* What is known while a table is read.
LEMMA LoadingFacts ==
  ASSUME TableInv, status = "loading"
  PROVE  /\ disk \in Disks /\ stack \in Seq(L!Frame) /\ Len(stack) \in Nat /\ Len(stack) >= 1
         /\ fileLevel = Len(stack) - 1 /\ Len(stack) <= MaxFileLevel + 1
         /\ L!top = stack[Len(stack)] /\ L!top \in L!Frame /\ L!top.file \in DOMAIN disk
         /\ disk[L!top.file] \in Seq(L!Line) /\ MaxFileLevel \in Nat
         /\ DOMAIN disk[L!top.file] = 1..Len(disk[L!top.file])
         /\ Len(disk[L!top.file]) \in Nat
<1>1. /\ disk \in Disks /\ stack \in Seq(L!Frame) /\ fileLevel \in 0..MaxFileLevel
      /\ fileLevel = Len(stack) - 1 /\ MaxFileLevel \in Nat /\ Len(stack) \in Nat
  BY TableAssumption DEF TableInv, L!TypeOK
<1>2. Len(stack) >= 1 /\ Len(stack) <= MaxFileLevel + 1
  BY <1>1
<1>3. L!top = stack[Len(stack)] /\ L!top \in L!Frame
  BY <1>1, <1>2 DEF L!top
<1>4. L!top.file \in DOMAIN disk
  BY <1>1, <1>2, <1>3 DEF TableInv
<1>5. disk[L!top.file] \in Seq(L!Line)
  BY <1>1, <1>4, SpotType
<1> QED
  BY <1>1, <1>2, <1>3, <1>4, <1>5

LEMMA HereFacts ==
  ASSUME TableInv, status = "loading", L!top.line \in DOMAIN disk[L!top.file]
  PROVE  /\ Here \in L!Spots(disk) /\ L!LineAt(disk, Here) = L!Current /\ L!Current \in L!Line
         /\ Here[1] = L!top.file /\ Here[2] = L!top.line
         /\ L!top.line \in 1..Len(disk[L!top.file])
         /\ Name \in Seq(Part) /\ Place \in Addr
<1> USE LoadingFacts
<1>1. L!top.line \in 1..Len(disk[L!top.file])
  OBVIOUS
<1>2. Here \in L!Spots(disk) /\ L!LineAt(disk, Here) = L!Current /\ L!Current \in L!Line
  BY <1>1, SpotType DEF Here, L!LineAt, L!Current
<1>3. /\ L!Current.name \in Seq(Part) /\ L!Current.addr \in Addr
      /\ L!top.prefix \in Seq(Part) /\ L!top.offset \in Addr
  BY <1>2, LineType, FrameType
<1>4. Name \in Seq(Part)
  <2>1. L!top.prefix \o L!Current.name \in Seq(Part)
    BY <1>3
  <2> QED
    BY <2>1, UpperType DEF Name, L!ItemName
<1>5. Place \in Addr
  <2>1. L!top.offset + L!Current.addr \in Nat
    BY <1>3, SizeAssumption DEF Addr
  <2>2. (L!top.offset + L!Current.addr) % Size \in 0..(Size - 1)
    BY <2>1, SizeAssumption, QuotientOf
  <2> QED
    BY <2>2 DEF Place, L!ItemAddr, L!Offset, Addr
<1> QED
  BY <1>1, <1>2, <1>4, <1>5 DEF Here

\* The ways a line is processed: it is refused, it says nothing, it is an item, or it
\* includes a file.
WrongHere(e) ==
  \/ e = "INVALID_NAME" /\ L!Current.kind # "blank" /\ Name = <<>>
  \/ /\ L!Current.kind = "include"
     /\ \/ e = "MAX_INCLUDE_FILE_DEPTH" /\ fileLevel + 1 > MaxFileLevel
        \/ /\ e = "BAD_FILE" /\ fileLevel + 1 <= MaxFileLevel
           /\ L!Current.file \notin DOMAIN disk
  \/ /\ L!Current.kind = "item"
     /\ \/ e = "BAD_TOKEN" /\ L!Current.malformed
        \/ e = "BAD_MODE" /\ {"w", "a"} \subseteq L!Current.mode
        \/ e = "NAME_COLLISION" /\ Name \in DOMAIN names
SaysNothing == /\ L!Current.kind = "blank" \/ (L!Current.kind = "short" /\ Name # <<>>)
               /\ L!Continue(L!Current)
               /\ UNCHANGED <<disk, fileLevel, names>>
NewItem == [address |-> Place, mask |-> L!Current.mask, mode |-> L!Current.mode]
AddsItem == /\ L!Current.kind = "item"
            /\ Name # <<>> /\ Name \notin DOMAIN names
            /\ ~L!Current.malformed /\ ~({"w", "a"} \subseteq L!Current.mode)
            /\ names' = [n \in DOMAIN names \cup {Name} |-> IF n = Name THEN NewItem ELSE names[n]]
            /\ L!Continue(L!Current)
            /\ UNCHANGED <<disk, fileLevel>>
IncludesFile ==
  /\ L!Current.kind = "include"
  /\ Name # <<>> /\ fileLevel + 1 <= MaxFileLevel /\ L!Current.file \in DOMAIN disk
  /\ fileLevel' = fileLevel + 1
  /\ stack' = Append([stack EXCEPT ![Len(stack)] = L!NextLine(L!top, L!Current)],
                     L!Open(L!Current.file, Name, Place))
  /\ UNCHANGED <<disk, names, status>>

LEMMA ProcessCases ==
  ASSUME TableInv, L!ProcessLine
  PROVE  /\ status = "loading" /\ L!top.line \in DOMAIN disk[L!top.file]
         /\ \/ \E e \in L!Exceptions : L!Throw(e) /\ WrongHere(e)
            \/ SaysNothing \/ AddsItem \/ IncludesFile
<1>1. status = "loading" /\ L!top.line \in DOMAIN disk[L!top.file]
  BY DEF L!ProcessLine
<1>2. /\ MaxFileLevel \in Nat /\ fileLevel \in Nat /\ stack \in Seq(L!Frame) /\ Len(stack) >= 1
      /\ L!top \in L!Frame
  BY <1>1, LoadingFacts
<1>3. CASE L!Current.kind # "blank" /\ Name = <<>> /\ L!Throw("INVALID_NAME")
  BY <1>1, <1>3 DEF WrongHere, L!Exceptions
<1>4. CASE SaysNothing
  BY <1>1, <1>4
<1>5. CASE L!Current.kind = "include" /\ Name # <<>> /\ L!Include(Name, Place, L!Current.file)
  <2>1. CASE fileLevel + 1 > MaxFileLevel
    BY <1>1, <1>5, <2>1 DEF L!Include, WrongHere, L!Exceptions
  <2>2. CASE fileLevel + 1 <= MaxFileLevel /\ L!Current.file \notin DOMAIN disk
    BY <1>1, <1>2, <1>5, <2>2 DEF L!Include, WrongHere, L!Exceptions
  <2>3. CASE fileLevel + 1 <= MaxFileLevel /\ L!Current.file \in DOMAIN disk
    <3> DEFINE s == [stack EXCEPT ![Len(stack)] = L!NextLine(L!top, L!Current)]
               fr == L!Open(L!Current.file, Name, Place)
    <3>1. /\ fileLevel' = fileLevel + 1 /\ stack' = s \o <<fr>>
          /\ UNCHANGED <<disk, names, status>>
      BY <1>2, <1>5, <2>3 DEF L!Include
    <3>2. s \in Seq(L!Frame) /\ fr \in L!Frame
      <4>1. L!NextLine(L!top, L!Current) \in L!Frame
        BY <1>2, FrameType
      <4>2. L!Current.file \in File /\ Name \in Seq(Part) /\ Place \in Addr
        BY <1>1, HereFacts, LineType
      <4> QED
        BY <1>2, <4>1, <4>2, SeqLast, OpenType
    <3> HIDE DEF s, fr
    <3>3. s \o <<fr>> = Append(s, fr)
      BY <3>2
    <3> QED
      BY <1>1, <1>5, <2>3, <3>1, <3>3 DEF IncludesFile, s, fr
  <2> QED
    BY <1>2, <2>1, <2>2, <2>3
<1>6. CASE /\ L!Current.kind = "item" /\ Name # <<>>
           /\ IF L!Current.malformed THEN L!Throw("BAD_TOKEN") ELSE L!AddEntry(Name, NewItem)
  <2>1. CASE L!Current.malformed
    BY <1>1, <1>6, <2>1 DEF WrongHere, L!Exceptions
  <2>2. CASE ~L!Current.malformed /\ {"w", "a"} \subseteq L!Current.mode
    BY <1>1, <1>6, <2>2 DEF WrongHere, L!Exceptions, L!AddEntry, NewItem
  <2>3. CASE /\ ~L!Current.malformed /\ ~({"w", "a"} \subseteq L!Current.mode)
             /\ Name \in DOMAIN names
    BY <1>1, <1>6, <2>3 DEF WrongHere, L!Exceptions, L!AddEntry, NewItem
  <2>4. CASE /\ ~L!Current.malformed /\ ~({"w", "a"} \subseteq L!Current.mode)
             /\ Name \notin DOMAIN names
    <3>1. ~({"w", "a"} \subseteq NewItem.mode)
      BY <2>4 DEF NewItem
    <3> QED
      BY <1>1, <1>6, <2>4, <3>1 DEF L!AddEntry, AddsItem
  <2> QED
    BY <2>1, <2>2, <2>3, <2>4
<1> QED
  BY <1>3, <1>4, <1>5, <1>6 DEF L!ProcessLine, Name, Place, NewItem, SaysNothing

\* What reading on does to the innermost file.
LEMMA ContinueFacts ==
  ASSUME TableInv, status = "loading", L!top.line \in DOMAIN disk[L!top.file],
         L!Continue(L!Current)
  PROVE  /\ stack' \in Seq(L!Frame) /\ Len(stack') = Len(stack) /\ status' = "loading"
         /\ \A j \in 1..(Len(stack) - 1) : stack'[j] = stack[j]
         /\ stack'[Len(stack)] = L!NextLine(L!top, L!Current)
<1>1. /\ stack \in Seq(L!Frame) /\ Len(stack) >= 1 /\ L!top \in L!Frame
      /\ L!NextLine(L!top, L!Current) \in L!Frame
  BY LoadingFacts, FrameType
<1>2. stack' = [stack EXCEPT ![Len(stack)] = L!NextLine(L!top, L!Current)] /\ status' = "loading"
  BY DEF L!Continue
<1> QED
  BY <1>1, <1>2, SeqLast

\* The calls after a file has been included.
LEMMA IncludeFacts ==
  ASSUME TableInv, status = "loading", L!top.line \in DOMAIN disk[L!top.file], IncludesFile
  PROVE  /\ stack' \in Seq(L!Frame) /\ Len(stack') = Len(stack) + 1 /\ status' = "loading"
         /\ \A j \in 1..(Len(stack) - 1) : stack'[j] = stack[j]
         /\ stack'[Len(stack)] = L!NextLine(L!top, L!Current)
         /\ stack'[Len(stack) + 1] = L!Open(L!Current.file, Name, Place)
<1> DEFINE s == [stack EXCEPT ![Len(stack)] = L!NextLine(L!top, L!Current)]
           fr == L!Open(L!Current.file, Name, Place)
<1>1. /\ stack \in Seq(L!Frame) /\ Len(stack) >= 1 /\ L!NextLine(L!top, L!Current) \in L!Frame
      /\ fr \in L!Frame
  <2>1. L!Current.file \in File /\ Name \in Seq(Part) /\ Place \in Addr
    BY HereFacts, LineType
  <2> QED
    BY <2>1, LoadingFacts, FrameType, OpenType
<1>2. /\ s \in Seq(L!Frame) /\ Len(s) = Len(stack)
      /\ s[Len(stack)] = L!NextLine(L!top, L!Current)
      /\ \A j \in 1..(Len(stack) - 1) : s[j] = stack[j]
  BY <1>1, SeqLast
<1>3. stack' = Append(s, fr) /\ status' = "loading"
  BY DEF IncludesFile
<1> HIDE DEF s, fr
<1>4. /\ stack' \in Seq(L!Frame) /\ Len(stack') = Len(s) + 1
      /\ stack'[Len(s) + 1] = fr /\ \A j \in 1..Len(s) : stack'[j] = s[j]
  BY <1>1, <1>2, <1>3
<1>5. Len(stack) \in 1..Len(s) /\ \A j \in 1..(Len(stack) - 1) : j \in 1..Len(s)
  BY <1>1, <1>2
<1> QED
  BY <1>2, <1>3, <1>4, <1>5 DEF fr

\* The calls after the end of a file.
LEMMA EndFacts ==
  ASSUME TableInv, L!EndOfFile
  PROVE  /\ status = "loading" /\ L!top.line = Len(disk[L!top.file]) + 1
         /\ stack' \in Seq(L!Frame) /\ Len(stack') = Len(stack) - 1
         /\ \A j \in 1..(Len(stack) - 1) : stack'[j] = stack[j]
         /\ Len(stack) = 1 => status' = "loaded" /\ fileLevel' = fileLevel
         /\ Len(stack) # 1 => status' = "loading" /\ fileLevel' = fileLevel - 1
         /\ UNCHANGED <<disk, names>>
<1>1. /\ status = "loading" /\ L!top.line = Len(disk[L!top.file]) + 1
      /\ stack' = SubSeq(stack, 1, Len(stack) - 1)
      /\ UNCHANGED <<disk, names>>
      /\ Len(stack) = 1 => status' = "loaded" /\ fileLevel' = fileLevel
      /\ Len(stack) # 1 => status' = "loading" /\ fileLevel' = fileLevel - 1
  BY DEF L!EndOfFile, L!Front, L!Returned
<1>2. stack \in Seq(L!Frame) /\ Len(stack) \in Nat /\ Len(stack) >= 1
  BY <1>1, LoadingFacts
<1>3. /\ stack' \in Seq(L!Frame) /\ Len(stack') = Len(stack) - 1
      /\ \A j \in 1..(Len(stack) - 1) : stack'[j] = stack[j]
  BY <1>1, <1>2, SeqFront
<1> QED
  BY <1>1, <1>3

\* Without a table there is nothing to have a type.
LEMMA ThrowTable ==
  ASSUME TableInv, NEW e \in L!Exceptions, L!Throw(e)
  PROVE  TableInv'
<1>1. stack' = <<>> /\ names' = <<>> /\ status' = e /\ UNCHANGED <<disk, fileLevel>>
  BY DEF L!Throw
<1>2. e # "loading"
  BY DEF L!Exceptions
<1>3. DOMAIN names' = {} /\ stack' \in Seq(L!Frame)
  BY <1>1
<1>4. L!TypeOK'
  BY <1>1, <1>2, <1>3 DEF TableInv, L!TypeOK
<1> QED
  BY <1>1, <1>2, <1>4 DEF TableInv

LEMMA ProcessTable == ASSUME TableInv, L!ProcessLine PROVE TableInv'
<1>1. status = "loading" /\ L!top.line \in DOMAIN disk[L!top.file]
  BY ProcessCases
<1> DEFINE n == Len(stack)
<1>2. /\ disk \in Disks /\ stack \in Seq(L!Frame) /\ n \in Nat /\ n >= 1 /\ fileLevel = n - 1
      /\ L!top = stack[n] /\ L!top \in L!Frame /\ L!top.file \in DOMAIN disk
      /\ \A j \in 1..n : stack[j].file \in DOMAIN disk
      /\ L!NextLine(L!top, L!Current).file = L!top.file
      /\ MaxFileLevel \in Nat /\ fileLevel \in 0..MaxFileLevel
  BY <1>1, LoadingFacts, FrameType DEF TableInv, L!TypeOK
<1>3. L!Current \in L!Line /\ Name \in Seq(Part) /\ Place \in Addr
  BY <1>1, HereFacts
<1>4. CASE \E e \in L!Exceptions : L!Throw(e) /\ WrongHere(e)
  BY <1>4, ThrowTable
<1>5. ASSUME L!Continue(L!Current), UNCHANGED <<disk, fileLevel>>,
             DOMAIN names' \subseteq Seq(Part), \A m \in DOMAIN names' : names'[m] \in L!Item
      PROVE  TableInv'
  <2>1. /\ stack' \in Seq(L!Frame) /\ Len(stack') = n /\ status' = "loading"
        /\ \A j \in 1..(n - 1) : stack'[j] = stack[j]
        /\ stack'[n] = L!NextLine(L!top, L!Current)
    BY <1>1, <1>5, ContinueFacts
  <2>2. L!TypeOK'
    BY <1>2, <1>5, <2>1 DEF L!TypeOK
  <2>3. \A j \in 1..n : stack'[j].file \in DOMAIN disk'
    BY <1>2, <1>5, <2>1
  <2> QED
    BY <2>1, <2>2, <2>3 DEF TableInv
<1>6. CASE SaysNothing
  BY <1>5, <1>6 DEF SaysNothing, TableInv, L!TypeOK
<1>7. CASE AddsItem
  <2>1. NewItem \in L!Item
    BY <1>3, LineType DEF NewItem, L!Item, L!Address, Addr, Word
  <2>2. /\ DOMAIN names' = DOMAIN names \cup {Name}
        /\ \A m \in DOMAIN names' : names'[m] = IF m = Name THEN NewItem ELSE names[m]
    BY <1>7 DEF AddsItem
  <2>3. DOMAIN names' \subseteq Seq(Part)
    BY <1>3, <2>2 DEF TableInv, L!TypeOK
  <2>4. \A m \in DOMAIN names' : names'[m] \in L!Item
    BY <2>1, <2>2 DEF TableInv, L!TypeOK
  <2> QED
    BY <1>5, <1>7, <2>3, <2>4 DEF AddsItem
<1>8. CASE IncludesFile
  <2>1. /\ stack' \in Seq(L!Frame) /\ Len(stack') = n + 1 /\ status' = "loading"
        /\ \A j \in 1..(n - 1) : stack'[j] = stack[j]
        /\ stack'[n] = L!NextLine(L!top, L!Current)
        /\ stack'[n + 1] = L!Open(L!Current.file, Name, Place)
    BY <1>1, <1>8, IncludeFacts
  <2>2. /\ fileLevel' = fileLevel + 1 /\ fileLevel + 1 <= MaxFileLevel
        /\ L!Current.file \in DOMAIN disk /\ UNCHANGED <<disk, names>>
    BY <1>8 DEF IncludesFile
  <2>3. L!TypeOK'
    BY <1>2, <2>1, <2>2 DEF L!TypeOK, TableInv
  <2>4. stack'[n + 1].file = L!Current.file
    BY <1>3, <2>1, LineType, OpenType
  <2>5. \A j \in 1..(n + 1) : stack'[j].file \in DOMAIN disk'
    BY <1>2, <2>1, <2>2, <2>4
  <2> QED
    BY <2>1, <2>3, <2>5 DEF TableInv
<1> QED
  BY <1>4, <1>6, <1>7, <1>8, ProcessCases

LEMMA EndTable == ASSUME TableInv, L!EndOfFile PROVE TableInv'
<1> DEFINE n == Len(stack)
<1>1. /\ status = "loading" /\ stack' \in Seq(L!Frame) /\ Len(stack') = n - 1
      /\ \A j \in 1..(n - 1) : stack'[j] = stack[j]
      /\ n = 1 => status' = "loaded" /\ fileLevel' = fileLevel
      /\ n # 1 => status' = "loading" /\ fileLevel' = fileLevel - 1
      /\ UNCHANGED <<disk, names>>
  BY EndFacts
<1>2. /\ n \in Nat /\ n >= 1 /\ fileLevel = n - 1 /\ fileLevel \in 0..MaxFileLevel
      /\ MaxFileLevel \in Nat /\ \A j \in 1..n : stack[j].file \in DOMAIN disk
  BY <1>1, LoadingFacts DEF TableInv, L!TypeOK
<1>3. L!TypeOK'
  BY <1>1, <1>2 DEF TableInv, L!TypeOK
<1>4. \A j \in 1..(n - 1) : stack'[j].file \in DOMAIN disk'
  BY <1>1, <1>2
<1> QED
  BY <1>1, <1>3, <1>4 DEF TableInv

LEMMA InitTable == L!Init => TableInv
<1> SUFFICES ASSUME L!Init PROVE TableInv
  OBVIOUS
<1>1. CASE Top \in DOMAIN disk
  <2>1. L!Open(Top, <<>>, 0) \in L!Frame /\ L!Open(Top, <<>>, 0).file = Top
    <3>1. Top \in File
      BY TableAssumption
    <3>2. <<>> \in Seq(Part)
      OBVIOUS
    <3>3. 0 \in Addr
      BY SizeAssumption DEF Addr
    <3>4. \A p \in Seq(Part) : \A a \in Addr : /\ L!Open(Top, p, a) \in L!Frame
                                               /\ L!Open(Top, p, a).file = Top
      BY <3>1, OpenType
    <3> QED
      BY <3>2, <3>3, <3>4, Zenon
  <2>2. stack = <<L!Open(Top, <<>>, 0)>> /\ status = "loading" /\ names = <<>> /\ fileLevel = 0
    BY <1>1 DEF L!Init
  <2>3. stack \in Seq(L!Frame) /\ Len(stack) = 1 /\ stack[1].file = Top
    BY <2>1, <2>2
  <2>4. DOMAIN names = {} /\ MaxFileLevel \in Nat /\ disk \in Disks
    BY <2>2, TableAssumption DEF L!Init
  <2>5. L!TypeOK
    BY <2>2, <2>3, <2>4 DEF L!TypeOK
  <2> QED
    BY <1>1, <2>3, <2>5 DEF TableInv
<1>2. CASE Top \notin DOMAIN disk
  <2>1. stack = <<>> /\ status = "BAD_FILE" /\ names = <<>> /\ fileLevel = 0 /\ disk \in Disks
    BY <1>2 DEF L!Init
  <2>2. DOMAIN names = {} /\ MaxFileLevel \in Nat /\ stack \in Seq(L!Frame)
    BY <2>1, TableAssumption
  <2>3. L!TypeOK
    BY <2>1, <2>2 DEF L!TypeOK, L!Exceptions
  <2> QED
    BY <2>1, <2>3 DEF TableInv
<1> QED
  BY <1>1, <1>2

LEMMA LoadTable == TableInv /\ L!Next => TableInv'
<1>1. TableInv /\ L!Spin => TableInv'
  BY DEF L!Spin, L!vars, TableInv, L!TypeOK
<1> QED
  BY <1>1, ProcessTable, EndTable DEF L!Next
-----------------------------------------------------------------------------
(* Accesses to a table that has been loaded                                *)

\* The table does not change once it is loaded.
LEMMA TableStutter == ASSUME TableInv, UNCHANGED table PROVE TableInv'
  BY DEF table, TableInv, L!TypeOK

\* Whatever item a name is of, the call made for it is an operation.
LEMMA ByNameInv ==
  ASSUME Inv, TableInv, NEW c \in Requests, ByName(c)
  PROVE  Inv' /\ TableInv'
<1>1. TableInv'
  BY TableStutter DEF ByName
<1>2. CASE c.name \in DOMAIN names
  <2> DEFINE o == [kind |-> c.kind, addr |-> names[c.name].address,
                   mask |-> names[c.name].mask, vals |-> c.vals]
  <2>1. Begin(o)
    BY <1>2 DEF ByName
  <2>2. names[c.name] \in L!Item
    BY <1>2 DEF TableInv, L!TypeOK
  <2>3. names[c.name].address \in Addr /\ names[c.name].mask \in Word
    BY <2>2 DEF L!Item, L!Address, Addr, Word
  <2>4. o \in Ops
    BY <2>3, RequestsAssumption
  <2> HIDE DEF o
  <2> QED
    BY <1>1, <2>1, <2>4, BeginInv
<1>3. CASE c.name \notin DOMAIN names
  <2>1. Begin(NoOp) /\ result'.status = "refused"
    BY <1>3 DEF ByName
  <2>2. result' = Status("refused")
    BY <2>1 DEF Begin, Ends, WriteNext, Status
  <2> QED
    BY <1>1, <2>1, <2>2, BeginInv
<1> QED
  BY <1>2, <1>3

LEMMA AccessInv == ASSUME Inv, TableInv, Access PROVE Inv' /\ TableInv'
<1>1. TableInv'
  BY TableStutter DEF Access
<1>2. CASE Enters
  BY <1>1, <1>2, EnterInv
<1>3. CASE CallRuns
  BY <1>1, <1>3, AttemptInv, ApplyInv DEF CallRuns
<1>4. CASE ReadReturns
  BY <1>1, <1>4, ReadReturnsInv
<1>5. CASE WriteReturns
  BY <1>1, <1>5, WriteReturnsInv
<1>6. CASE CallFails
  BY <1>1, <1>6, CallFailsInv
<1>7. ASSUME NEW a \in Addr, NEW v \in Word, BoardChange(a, v) PROVE Inv' /\ TableInv'
  BY <1>1, <1>7, BoardChangeInv
<1> QED
  BY <1>2, <1>3, <1>4, <1>5, <1>6, <1>7 DEF Access

(* The tables' types, and what accesses by name keep, hold of the table as *)
(* it is made from the files and used.                                     *)
THEOREM LoadedHolds == LoadSpec => [](Inv /\ TableInv)
<1>1. LoadInit => Inv /\ TableInv
  BY InitInv, InitTable DEF LoadInit
<1>2. Inv /\ TableInv /\ [LoadNext]_<<vars, table>> => Inv' /\ TableInv'
  <2> SUFFICES ASSUME Inv, TableInv, [LoadNext]_<<vars, table>> PROVE Inv' /\ TableInv'
    OBVIOUS
  <2>1. CASE Load
    BY <2>1, StutterInv, LoadTable DEF Load
  <2>2. ASSUME NEW c \in Requests, ByName(c) PROVE Inv' /\ TableInv'
    BY <2>2, ByNameInv
  <2>3. CASE Access
    BY <2>3, AccessInv
  <2>4. CASE NoTable \/ UNCHANGED <<vars, table>>
    BY <2>4, StutterInv, TableStutter DEF NoTable
  <2> QED
    BY <2>1, <2>2, <2>3, <2>4 DEF LoadNext
<1> QED
  BY <1>1, <1>2, PTL DEF LoadSpec

(* Names, items and addresses stay in their types while the files are read *)
(* and afterwards; files that include each other stop at MAX_FILE_LEVEL.   *)
THEOREM LoadedTypes == LoadSpec => []TableTypeOK
<1>1. Inv /\ TableInv => TableTypeOK
  BY DEF Inv, TableInv, TableTypeOK
<1> QED
  BY <1>1, LoadedHolds, PTL

(* Writes and reads by name, of whatever items the files have given, write *)
(* all of the item and nothing else and read the item as it is.            *)
THEOREM ByNameAllOrNothing == LoadSpec => []AllOrNothing
<1>1. Inv /\ TableInv => AllOrNothing
  BY DEF Inv
<1> QED
  BY <1>1, LoadedHolds, PTL

(* A read by name returns the bits the item has then, and no stale ones.   *)
THEOREM ByNameIsCurrent == LoadSpec => []ReadIsCurrent
<1>1. Inv /\ TableInv => ReadIsCurrent
  BY DEF Inv
<1> QED
  BY <1>1, LoadedHolds, PTL
-----------------------------------------------------------------------------
(* Places, and which of them have been read                                *)

\* q is a way through lines that include one file from another, from Top to f, the n-th.
Leads(d, n, q, f) ==
  /\ n \in 1..(MaxFileLevel + 1)
  /\ q \in [1..(n - 1) -> L!Spots(d)]
  /\ IF n = 1 THEN f = Top ELSE q[1][1] = Top /\ L!LineAt(d, q[n - 1]).file = f
  /\ \A k \in 1..(n - 1) : L!LineAt(d, q[k]).kind = "include"
  /\ \A k \in 2..(n - 1) : L!LineAt(d, q[k - 1]).file = q[k][1]
Extend(n, q, s) == [k \in 1..n |-> IF k < n THEN q[k] ELSE s]

\* Place p is ahead when line k of the n-th file on the way q comes next: it follows q to
\* one of the files and there goes through a line that is not read yet.
Ahead(n, q, k, p) ==
  \E j \in 1..n : /\ j <= Len(p)
                  /\ \A m \in 1..(j - 1) : p[m] = q[m]
                  /\ p[j][2] >= (IF j < n THEN q[j][2] + 1 ELSE k)
Read(d, n, q, k) == {p \in L!Places(d) : ~Ahead(n, q, k, p)}

LEMMA PlaceType ==
  ASSUME NEW d, NEW p \in L!Places(d)
  PROVE  /\ Len(p) \in 1..(MaxFileLevel + 1) /\ p \in [1..Len(p) -> L!Spots(d)]
         /\ p[1][1] = Top
         /\ \A k \in 2..Len(p) : /\ L!LineAt(d, p[k - 1]).kind = "include"
                                 /\ L!LineAt(d, p[k - 1]).file = p[k][1]
<1>1. /\ p \in UNION {[1..n -> L!Spots(d)] : n \in 1..(MaxFileLevel + 1)}
      /\ p[1][1] = Top
      /\ \A k \in 2..Len(p) : /\ L!LineAt(d, p[k - 1]).kind = "include"
                              /\ L!LineAt(d, p[k - 1]).file = p[k][1]
  BY DEF L!Places
<1>2. PICK n \in 1..(MaxFileLevel + 1) : p \in [1..n -> L!Spots(d)]
  BY <1>1
<1>3. Len(p) = n
  BY <1>2, WayLen, TableAssumption
<1> QED
  BY <1>1, <1>2, <1>3

LEMMA IsPlace ==
  ASSUME NEW d, NEW n \in 1..(MaxFileLevel + 1), NEW p \in [1..n -> L!Spots(d)],
         p[1][1] = Top,
         \A k \in 2..n : /\ L!LineAt(d, p[k - 1]).kind = "include"
                         /\ L!LineAt(d, p[k - 1]).file = p[k][1]
  PROVE  p \in L!Places(d) /\ Len(p) = n
<1>1. n \in Nat
  BY TableAssumption
<1>2. Len(p) = n
  BY <1>1, WayLen
<1>3. p \in UNION {[1..m -> L!Spots(d)] : m \in 1..(MaxFileLevel + 1)}
  OBVIOUS
<1> QED
  BY <1>2, <1>3 DEF L!Places

\* A way to a line of f, the n-th file.
LEMMA ExtendIsPlace ==
  ASSUME NEW d, NEW n, NEW q, NEW f, Leads(d, n, q, f), NEW s \in L!Spots(d), s[1] = f
  PROVE  /\ Extend(n, q, s) \in L!Places(d) /\ Len(Extend(n, q, s)) = n
         /\ Extend(n, q, s) \in [1..n -> L!Spots(d)]
         /\ Extend(n, q, s)[n] = s /\ \A k \in 1..(n - 1) : Extend(n, q, s)[k] = q[k]
<1> DEFINE c == Extend(n, q, s)
<1>1. n \in 1..(MaxFileLevel + 1) /\ n \in Nat /\ q \in [1..(n - 1) -> L!Spots(d)]
  BY TableAssumption DEF Leads
<1>2. c[n] = s /\ \A k \in 1..(n - 1) : c[k] = q[k]
  BY <1>1 DEF Extend
<1>3. c \in [1..n -> L!Spots(d)]
  BY <1>1 DEF Extend
<1> HIDE DEF c
<1>4. c[1][1] = Top
  BY <1>1, <1>2 DEF Leads
<1>5. \A k \in 2..n : /\ L!LineAt(d, c[k - 1]).kind = "include"
                      /\ L!LineAt(d, c[k - 1]).file = c[k][1]
  <2> SUFFICES ASSUME NEW k \in 2..n
               PROVE  /\ L!LineAt(d, c[k - 1]).kind = "include"
                      /\ L!LineAt(d, c[k - 1]).file = c[k][1]
    OBVIOUS
  <2>1. k - 1 \in 1..(n - 1) /\ c[k - 1] = q[k - 1]
    BY <1>1, <1>2
  <2>2. L!LineAt(d, q[k - 1]).kind = "include"
    BY <2>1 DEF Leads
  <2>3. CASE k = n
    BY <1>1, <1>2, <2>1, <2>2, <2>3 DEF Leads
  <2>4. CASE k # n
    <3>1. k \in 2..(n - 1) /\ c[k] = q[k]
      BY <1>1, <1>2, <2>4
    <3> QED
      BY <2>1, <2>2, <3>1 DEF Leads
  <2> QED
    BY <2>3, <2>4
<1>6. c \in L!Places(d) /\ Len(c) = n
  BY <1>1, <1>3, <1>4, <1>5, IsPlace
<1> QED
  BY <1>2, <1>3, <1>6 DEF c

\* Every place that follows q is in the file it leads to.
LEMMA FileOf ==
  ASSUME NEW d, NEW n, NEW q, NEW f, Leads(d, n, q, f), NEW p \in L!Places(d), n <= Len(p),
         \A m \in 1..(n - 1) : p[m] = q[m]
  PROVE  p[n][1] = f
<1>1. n \in 1..(MaxFileLevel + 1) /\ n \in Nat
  BY TableAssumption DEF Leads
<1>2. CASE n = 1
  BY <1>2, PlaceType DEF Leads
<1>3. CASE n # 1
  <2>1. n \in 2..Len(p) /\ n - 1 \in 1..(n - 1)
    BY <1>1, <1>3, PlaceType
  <2>2. L!LineAt(d, p[n - 1]).file = p[n][1] /\ p[n - 1] = q[n - 1]
    BY <2>1, PlaceType
  <2> QED
    BY <1>3, <2>2 DEF Leads
<1> QED
  BY <1>2, <1>3

LEMMA LeadsInto ==
  ASSUME NEW d, NEW n, NEW q, NEW f, Leads(d, n, q, f), NEW s \in L!Spots(d), s[1] = f,
         L!LineAt(d, s).kind = "include", n <= MaxFileLevel
  PROVE  Leads(d, n + 1, Extend(n, q, s), L!LineAt(d, s).file)
<1> DEFINE c == Extend(n, q, s)
<1>1. n \in Nat /\ n >= 1 /\ n + 1 \in 1..(MaxFileLevel + 1) /\ (n + 1) - 1 = n
  BY TableAssumption DEF Leads
<1>2. /\ c \in L!Places(d) /\ Len(c) = n /\ c \in [1..n -> L!Spots(d)]
      /\ c[n] = s /\ \A k \in 1..(n - 1) : c[k] = q[k]
  BY ExtendIsPlace
<1> HIDE DEF c
<1>3. c[1][1] = Top /\ \A k \in 2..n : L!LineAt(d, c[k - 1]).file = c[k][1]
  BY <1>2, PlaceType
<1>4. \A k \in 1..n : L!LineAt(d, c[k]).kind = "include"
  <2>1. \A k \in 1..(n - 1) : L!LineAt(d, q[k]).kind = "include"
    BY DEF Leads
  <2> QED
    BY <1>1, <1>2, <2>1
<1>5. Leads(d, n + 1, c, L!LineAt(d, s).file)
  BY <1>1, <1>2, <1>3, <1>4 DEF Leads
<1> QED
  BY <1>5 DEF c

LEMMA LeadsBack ==
  ASSUME NEW d, NEW n, NEW q, NEW f, Leads(d, n, q, f), n # 1,
         NEW r \in [1..(n - 2) -> L!Spots(d)], \A k \in 1..(n - 2) : r[k] = q[k]
  PROVE  Leads(d, n - 1, r, q[n - 1][1])
<1>1. /\ n \in Nat /\ n >= 2 /\ n - 1 \in 1..(MaxFileLevel + 1) /\ (n - 1) - 1 = n - 2
      /\ q \in [1..(n - 1) -> L!Spots(d)] /\ q[1][1] = Top
      /\ \A k \in 1..(n - 1) : L!LineAt(d, q[k]).kind = "include"
      /\ \A k \in 2..(n - 1) : L!LineAt(d, q[k - 1]).file = q[k][1]
  BY TableAssumption DEF Leads
<1>2. r \in [1..(n - 2) -> L!Spots(d)] /\ \A k \in 1..(n - 2) : r[k] = q[k]
  OBVIOUS
<1>3. n - 1 = 1 => q[n - 1][1] = Top
  BY <1>1
<1>4. n - 1 # 1 => r[1][1] = Top /\ L!LineAt(d, r[(n - 1) - 1]).file = q[n - 1][1]
  <2>1. n - 1 # 1 => 1 \in 1..(n - 2) /\ n - 2 \in 1..(n - 2) /\ n - 1 \in 2..(n - 1)
    BY <1>1
  <2> QED
    BY <1>1, <1>2, <2>1
<1>5. \A k \in 1..((n - 1) - 1) : L!LineAt(d, r[k]).kind = "include"
  BY <1>1, <1>2
<1>6. \A k \in 2..((n - 1) - 1) : L!LineAt(d, r[k - 1]).file = r[k][1]
  BY <1>1, <1>2
<1> QED
  BY <1>1, <1>2, <1>3, <1>4, <1>5, <1>6 DEF Leads

LEMMA OneMore ==
  ASSUME NEW n \in Nat, NEW m \in Nat, 1 <= n, n <= m, m # n
  PROVE  n + 1 \in 2..m /\ (n + 1) - 1 = n
  OBVIOUS

\* Places that go through line k of f are all those that begin with the way to it.
LEMMA Through ==
  ASSUME NEW d \in Disks, NEW n, NEW q, NEW f, Leads(d, n, q, f),
         NEW s \in L!Spots(d), s[1] = f,
         NEW p \in L!Places(d), n <= Len(p), \A m \in 1..(n - 1) : p[m] = q[m], p[n][2] = s[2]
  PROVE  /\ \A m \in 1..n : p[m] = Extend(n, q, s)[m]
         /\ Len(p) = n => p = Extend(n, q, s)
         /\ Len(p) # n => L!LineAt(d, s).kind = "include"
<1>1. /\ n \in Nat /\ n >= 1 /\ Len(p) \in Nat /\ p \in [1..Len(p) -> L!Spots(d)]
  BY TableAssumption, PlaceType DEF Leads
<1>2. p[n] \in L!Spots(d) /\ p[n][1] = f
  BY <1>1, FileOf
<1>3. p[n] = s
  BY <1>2, SpotType
<1>4. \A m \in 1..n : p[m] = Extend(n, q, s)[m]
  BY <1>1, <1>3, ExtendIsPlace
<1>5. Len(p) = n => p = Extend(n, q, s)
  <2>1. Extend(n, q, s) \in [1..n -> L!Spots(d)]
    BY ExtendIsPlace
  <2> QED
    BY <1>1, <1>4, <2>1
<1>6. Len(p) # n => L!LineAt(d, s).kind = "include"
  <2> SUFFICES ASSUME Len(p) # n PROVE L!LineAt(d, s).kind = "include"
    OBVIOUS
  <2>1. n + 1 \in 2..Len(p) /\ (n + 1) - 1 = n
    BY <1>1, OneMore
  <2>2. L!LineAt(d, p[(n + 1) - 1]).kind = "include"
    BY <2>1, PlaceType
  <2> QED
    BY <1>3, <2>1, <2>2
<1> QED
  BY <1>4, <1>5, <1>6


\* Reading a line that includes nothing reads its place.
LEMMA ReadOver ==
  ASSUME NEW d \in Disks, NEW n, NEW q, NEW f, Leads(d, n, q, f),
         NEW s \in L!Spots(d), s[1] = f, L!LineAt(d, s).kind # "include"
  PROVE  /\ Read(d, n, q, s[2] + 1) = Read(d, n, q, s[2]) \cup {Extend(n, q, s)}
         /\ Extend(n, q, s) \notin Read(d, n, q, s[2])
<1> DEFINE c == Extend(n, q, s)
           k == s[2]
<1>1. n \in Nat /\ n >= 1 /\ k \in Nat /\ q \in [1..(n - 1) -> L!Spots(d)]
  BY SpotType, TableAssumption DEF Leads
<1>2. c \in L!Places(d) /\ Len(c) = n /\ c[n] = s /\ \A m \in 1..(n - 1) : c[m] = q[m]
  BY ExtendIsPlace
<1>3. \A m \in 1..(n - 1) : q[m][2] \in Nat
  BY <1>1, SpotType
<1> HIDE DEF c
<1>4. Ahead(n, q, k, c)
  <2>1. n \in 1..n /\ n <= Len(c) /\ c[n][2] >= k
    BY <1>1, <1>2
  <2> QED
    BY <1>2, <2>1 DEF Ahead
<1>5. ~Ahead(n, q, k + 1, c)
  <2> SUFFICES ASSUME NEW j \in 1..n, c[j][2] >= (IF j < n THEN q[j][2] + 1 ELSE k + 1)
               PROVE  FALSE
    BY DEF Ahead
  <2>1. CASE j < n
    <3>1. j \in 1..(n - 1)
      BY <1>1, <2>1
    <3>2. c[j][2] = q[j][2] /\ q[j][2] \in Nat
      BY <1>2, <1>3, <3>1
    <3> QED
      BY <2>1, <3>2
  <2>2. CASE j = n
    BY <1>1, <1>2, <2>2
  <2> QED
    BY <1>1, <2>1, <2>2
<1>6. ASSUME NEW p \in L!Places(d), Ahead(n, q, k + 1, p)
      PROVE  Ahead(n, q, k, p)
  <2>1. PICK j \in 1..n : /\ j <= Len(p)
                          /\ \A m \in 1..(j - 1) : p[m] = q[m]
                          /\ p[j][2] >= (IF j < n THEN q[j][2] + 1 ELSE k + 1)
    BY <1>6 DEF Ahead
  <2>2. p[j][2] \in Nat
    <3>1. j \in 1..Len(p)
      BY <1>1, <2>1, PlaceType, TableAssumption
    <3> QED
      BY <3>1, PlaceType, SpotType
  <2>3. p[j][2] >= (IF j < n THEN q[j][2] + 1 ELSE k)
    BY <1>1, <2>1, <2>2
  <2> QED
    BY <2>1, <2>3 DEF Ahead
<1>7. ASSUME NEW p \in L!Places(d), Ahead(n, q, k, p), ~Ahead(n, q, k + 1, p)
      PROVE  p = c
  <2>1. PICK j \in 1..n : /\ j <= Len(p)
                          /\ \A m \in 1..(j - 1) : p[m] = q[m]
                          /\ p[j][2] >= (IF j < n THEN q[j][2] + 1 ELSE k)
    BY <1>7 DEF Ahead
  <2>2. ~(p[j][2] >= (IF j < n THEN q[j][2] + 1 ELSE k + 1))
    BY <1>7, <2>1 DEF Ahead
  <2>3. j = n
    BY <1>1, <2>1, <2>2
  <2>4. p[n][2] \in Nat
    <3>1. n \in 1..Len(p)
      BY <1>1, <2>1, <2>3, PlaceType, TableAssumption
    <3> QED
      BY <3>1, PlaceType, SpotType
  <2>5. p[n][2] = k
    BY <1>1, <2>1, <2>2, <2>3, <2>4
  <2> QED
    BY <2>1, <2>3, <2>5, Through DEF c
<1>8. Read(d, n, q, k + 1) = Read(d, n, q, k) \cup {c}
  BY <1>2, <1>5, <1>6, <1>7 DEF Read
<1>9. c \notin Read(d, n, q, k)
  BY <1>4 DEF Read
<1> QED
  BY <1>8, <1>9 DEF c

\* Reading a line that includes a file reads its place and nothing of the file.
LEMMA ReadInto ==
  ASSUME NEW d \in Disks, NEW n, NEW q, NEW f, Leads(d, n, q, f),
         NEW s \in L!Spots(d), s[1] = f
  PROVE  /\ Read(d, n + 1, Extend(n, q, s), 1) = Read(d, n, q, s[2]) \cup {Extend(n, q, s)}
         /\ Extend(n, q, s) \notin Read(d, n, q, s[2])
<1> DEFINE c == Extend(n, q, s)
           k == s[2]
<1>1. n \in Nat /\ n >= 1 /\ k \in Nat /\ q \in [1..(n - 1) -> L!Spots(d)]
  BY SpotType, TableAssumption DEF Leads
<1>2. c \in L!Places(d) /\ Len(c) = n /\ c[n] = s /\ \A m \in 1..(n - 1) : c[m] = q[m]
  BY ExtendIsPlace
<1>3. \A m \in 1..n : c[m][2] \in Nat
  BY <1>1, <1>2, PlaceType, SpotType
<1>4. \A p \in L!Places(d) : \A j \in 1..Len(p) : p[j][2] \in Nat /\ p[j][2] >= 1
  <2> SUFFICES ASSUME NEW p \in L!Places(d), NEW j \in 1..Len(p)
               PROVE  p[j][2] \in Nat /\ p[j][2] >= 1
    OBVIOUS
  <2>1. p[j] \in L!Spots(d)
    BY PlaceType
  <2>2. p[j][2] \in 1..Len(d[p[j][1]]) /\ d[p[j][1]] \in Seq(L!Line)
    BY <2>1, SpotType
  <2> QED
    BY <2>2
<1>5. \A p \in L!Places(d) : Len(p) \in Nat
  BY PlaceType, TableAssumption
<1> HIDE DEF c
<1>6. Ahead(n, q, k, c)
  <2>1. n \in 1..n /\ n <= Len(c) /\ c[n][2] >= k
    BY <1>1, <1>2
  <2> QED
    BY <1>2, <2>1 DEF Ahead
<1>7. ~Ahead(n + 1, c, 1, c)
  <2> SUFFICES ASSUME NEW j \in 1..(n + 1), j <= Len(c),
                      c[j][2] >= (IF j < n + 1 THEN c[j][2] + 1 ELSE 1)
               PROVE  FALSE
    BY DEF Ahead
  <2>1. j \in 1..n /\ j < n + 1
    BY <1>1, <1>2
  <2> QED
    BY <1>3, <2>1
<1>8. ASSUME NEW p \in L!Places(d), Ahead(n + 1, c, 1, p)
      PROVE  Ahead(n, q, k, p)
  <2>1. PICK j \in 1..(n + 1) : /\ j <= Len(p)
                                /\ \A m \in 1..(j - 1) : p[m] = c[m]
                                /\ p[j][2] >= (IF j < n + 1 THEN c[j][2] + 1 ELSE 1)
    BY <1>8 DEF Ahead
  <2>2. j \in 1..Len(p) /\ p[j][2] \in Nat
    BY <1>1, <1>4, <1>5, <2>1
  <2>3. CASE j < n
    <3>1. j \in 1..(n - 1) /\ j \in 1..n /\ c[j] = q[j] /\ p[j][2] >= q[j][2] + 1
      BY <1>1, <1>2, <2>1, <2>3
    <3>2. \A m \in 1..(j - 1) : p[m] = q[m]
      BY <1>1, <1>2, <2>1, <2>3
    <3> QED
      BY <2>1, <2>3, <3>1, <3>2 DEF Ahead
  <2>4. CASE j = n
    <3>1. p[n][2] >= k + 1 /\ p[n][2] >= k
      BY <1>1, <1>2, <2>1, <2>2, <2>4
    <3>2. \A m \in 1..(n - 1) : p[m] = q[m]
      BY <1>1, <1>2, <2>1, <2>4
    <3>3. n \in 1..n /\ n <= Len(p)
      BY <1>1, <2>1, <2>4
    <3> QED
      BY <3>1, <3>2, <3>3 DEF Ahead
  <2>5. CASE j = n + 1
    <3>1. n \in 1..n /\ n <= Len(p) /\ \A m \in 1..n : p[m] = c[m]
      BY <1>1, <1>5, <2>1, <2>5
    <3>2. p[n][2] >= k
      BY <1>1, <1>2, <3>1
    <3>3. \A m \in 1..(n - 1) : p[m] = q[m]
      BY <1>1, <1>2, <3>1
    <3> QED
      BY <3>1, <3>2, <3>3 DEF Ahead
  <2> QED
    BY <1>1, <2>3, <2>4, <2>5
<1>9. ASSUME NEW p \in L!Places(d), Ahead(n, q, k, p), p # c
      PROVE  Ahead(n + 1, c, 1, p)
  <2>1. PICK j \in 1..n : /\ j <= Len(p)
                          /\ \A m \in 1..(j - 1) : p[m] = q[m]
                          /\ p[j][2] >= (IF j < n THEN q[j][2] + 1 ELSE k)
    BY <1>9 DEF Ahead
  <2>2. j \in 1..Len(p) /\ p[j][2] \in Nat /\ j \in 1..(n + 1) /\ j < n + 1
    BY <1>1, <1>4, <1>5, <2>1
  <2>3. \A m \in 1..(j - 1) : p[m] = c[m]
    BY <1>1, <1>2, <2>1
  <2>4. CASE p[j][2] >= c[j][2] + 1
    BY <2>1, <2>2, <2>3, <2>4 DEF Ahead
  <2>5. CASE ~(p[j][2] >= c[j][2] + 1)
    <3>1. j = n
      <4>1. j < n => c[j] = q[j]
        BY <1>1, <1>2
      <4> QED
        BY <1>1, <2>1, <2>5, <4>1
    <3>2. p[n][2] = k
      BY <1>1, <1>2, <2>1, <2>2, <2>5, <3>1
    <3>3. (\A m \in 1..n : p[m] = c[m]) /\ Len(p) # n
      BY <1>9, <2>1, <3>1, <3>2, Through DEF c
    <3>4. n + 1 \in 1..Len(p) /\ n + 1 \in 1..(n + 1) /\ n + 1 <= Len(p) /\ (n + 1) - 1 = n
      BY <1>1, <1>5, <2>1, <3>1, <3>3
    <3>5. p[n + 1][2] >= (IF n + 1 < n + 1 THEN c[n + 1][2] + 1 ELSE 1)
      BY <1>1, <1>4, <3>4
    <3>6. \A m \in 1..((n + 1) - 1) : p[m] = c[m]
      BY <3>3, <3>4
    <3> QED
      BY <3>4, <3>5, <3>6 DEF Ahead
  <2> QED
    BY <2>4, <2>5
<1>10. Read(d, n + 1, c, 1) = Read(d, n, q, k) \cup {c}
  BY <1>2, <1>7, <1>8, <1>9 DEF Read
<1>11. c \notin Read(d, n, q, k)
  BY <1>6 DEF Read
<1> QED
  BY <1>10, <1>11 DEF c

\* There is nothing left to read of a file at its end.
LEMMA NothingAfter ==
  ASSUME NEW d \in Disks, NEW n, NEW q, NEW f, Leads(d, n, q, f),
         NEW p \in L!Places(d), n <= Len(p), \A m \in 1..(n - 1) : p[m] = q[m]
  PROVE  ~(p[n][2] >= Len(d[f]) + 1)
<1>1. n \in 1..Len(p)
  BY PlaceType, TableAssumption DEF Leads
<1>2. p[n] \in L!Spots(d) /\ p[n][1] = f
  BY <1>1, PlaceType, FileOf
<1>3. f \in DOMAIN d /\ d[f] \in Seq(L!Line) /\ p[n][2] \in 1..Len(d[f])
  BY <1>2, SpotType
<1> QED
  BY <1>3

\* Back in the file that has included it, the line after comes next.
LEMMA ReadBack ==
  ASSUME NEW d \in Disks, NEW n, NEW q, NEW f, Leads(d, n, q, f), n # 1,
         NEW r, \A k \in 1..(n - 2) : r[k] = q[k]
  PROVE  Read(d, n - 1, r, q[n - 1][2] + 1) = Read(d, n, q, Len(d[f]) + 1)
<1>1. n \in Nat /\ n >= 2
  BY TableAssumption DEF Leads
<1>2. \A k \in 1..(n - 2) : r[k] = q[k]
  OBVIOUS
<1>3. ASSUME NEW p \in L!Places(d), Ahead(n - 1, r, q[n - 1][2] + 1, p)
      PROVE  Ahead(n, q, Len(d[f]) + 1, p)
  <2>1. PICK j \in 1..(n - 1) : /\ j <= Len(p)
                                /\ \A m \in 1..(j - 1) : p[m] = r[m]
                                /\ p[j][2] >= (IF j < n - 1 THEN r[j][2] + 1 ELSE q[n - 1][2] + 1)
    BY <1>3 DEF Ahead
  <2>2. j \in 1..n /\ j < n /\ \A m \in 1..(j - 1) : p[m] = q[m]
    BY <1>1, <1>2, <2>1
  <2>3. p[j][2] >= q[j][2] + 1
    <3>1. CASE j < n - 1
      <4>1. r[j] = q[j]
        BY <1>1, <1>2, <3>1
      <4> QED
        BY <2>1, <3>1, <4>1
    <3>2. CASE j = n - 1
      BY <1>1, <2>1, <3>2
    <3> QED
      BY <1>1, <3>1, <3>2
  <2> QED
    BY <2>1, <2>2, <2>3 DEF Ahead
<1>4. ASSUME NEW p \in L!Places(d), Ahead(n, q, Len(d[f]) + 1, p)
      PROVE  Ahead(n - 1, r, q[n - 1][2] + 1, p)
  <2>1. PICK j \in 1..n : /\ j <= Len(p)
                          /\ \A m \in 1..(j - 1) : p[m] = q[m]
                          /\ p[j][2] >= (IF j < n THEN q[j][2] + 1 ELSE Len(d[f]) + 1)
    BY <1>4 DEF Ahead
  <2>2. j # n
    BY <1>1, <2>1, NothingAfter
  <2>3. j \in 1..(n - 1) /\ j < n /\ \A m \in 1..(j - 1) : p[m] = r[m]
    BY <1>1, <1>2, <2>1, <2>2
  <2>4. p[j][2] >= (IF j < n - 1 THEN r[j][2] + 1 ELSE q[n - 1][2] + 1)
    <3>1. CASE j < n - 1
      <4>1. r[j] = q[j]
        BY <1>1, <1>2, <3>1
      <4> QED
        BY <1>1, <2>1, <3>1, <4>1
    <3>2. CASE j = n - 1
      BY <1>1, <2>1, <3>2
    <3> QED
      BY <1>1, <2>3, <3>1, <3>2
  <2> QED
    BY <2>1, <2>3, <2>4 DEF Ahead
<1> QED
  BY <1>3, <1>4 DEF Read

\* Nothing is read at first, everything when Top has been read.
LEMMA ReadEnds ==
  ASSUME NEW d \in Disks, NEW q
  PROVE  /\ Read(d, 1, q, 1) = {}
         /\ Leads(d, 1, q, Top) => Read(d, 1, q, Len(d[Top]) + 1) = L!Places(d)
<1>1. ASSUME NEW p \in L!Places(d)
      PROVE  /\ Ahead(1, q, 1, p)
             /\ Leads(d, 1, q, Top) => ~Ahead(1, q, Len(d[Top]) + 1, p)
  <2>1. 1 \in 1..Len(p) /\ 1 <= Len(p)
    BY PlaceType, TableAssumption
  <2>2. p[1] \in L!Spots(d)
    BY <2>1, PlaceType
  <2>3. p[1][2] \in 1..Len(d[p[1][1]]) /\ d[p[1][1]] \in Seq(L!Line)
    BY <2>2, SpotType
  <2>4. p[1][2] >= 1
    BY <2>3
  <2>5. 1 \in 1..1 /\ (\A m \in 1..(1 - 1) : p[m] = q[m]) /\ ~(1 < 1)
    OBVIOUS
  <2>6. Ahead(1, q, 1, p)
    BY <2>1, <2>4, <2>5 DEF Ahead
  <2>7. Leads(d, 1, q, Top) => ~(p[1][2] >= Len(d[Top]) + 1)
    BY <2>1, <2>5, NothingAfter
  <2>8. \A j \in 1..1 : j = 1
    OBVIOUS
  <2>9. Leads(d, 1, q, Top) => ~Ahead(1, q, Len(d[Top]) + 1, p)
    BY <2>5, <2>7, <2>8 DEF Ahead
  <2> QED
    BY <2>6, <2>9
<1> QED
  BY <1>1 DEF Read
-----------------------------------------------------------------------------
(* The map while files are read                                            *)

\* What place p of the files adds to the map.
ItemAt(p) == [address |-> L!FullAddr(disk, p), mask |-> L!Says(disk, p).mask,
              mode |-> L!Says(disk, p).mode]
NoFault(p) == \A e \in L!Exceptions \ {"NAME_COLLISION"} : ~L!FaultAt(disk, p, e)

\* The map holds the items of the places R and nothing else, and nothing is wrong at
\* any of them.
Holds(R) ==
  /\ \A p \in R : NoFault(p)
  /\ \A p, r \in R : L!IsItem(disk, p) /\ L!IsItem(disk, r) /\
                     L!FullName(disk, p) = L!FullName(disk, r) => p = r
  /\ DOMAIN names = {L!FullName(disk, p) : p \in {r \in R : L!IsItem(disk, r)}}
  /\ \A p \in R : L!IsItem(disk, p) => names[L!FullName(disk, p)] = ItemAt(p)

\* The calls of LoadFile are those q asks for: the j-th file is the one included by the
\* line before, under the prefix and offset of all of them.
Calls(q) ==
  /\ Leads(disk, Len(stack), q, L!top.file)
  /\ \A j \in 1..Len(stack) :
       /\ stack[j].prefix = L!UpperCase(L!Along(disk, q)[j - 1].name)
       /\ stack[j].offset = L!Along(disk, q)[j - 1].addr % Size
  /\ \A j \in 1..(Len(stack) - 1) :
       /\ q[j][1] = stack[j].file
       /\ stack[j].line = IF L!LineAt(disk, q[j]).long THEN 0 ELSE q[j][2] + 1

Way(q) == /\ Calls(q)
          /\ L!top.line # 0 => /\ L!top.line \in 1..(Len(disk[L!top.file]) + 1)
                               /\ Holds(Read(disk, Len(stack), q, L!top.line))
LoadInv == /\ status = "loading" => \E q : Way(q)
           /\ L!AsTheFilesSay

\* The line in hand is at a place, and its name and address are those of the place.
LEMMA HereAdds ==
  ASSUME TableInv, status = "loading", L!top.line \in DOMAIN disk[L!top.file],
         NEW q, Calls(q)
  PROVE  LET n == Len(stack)
             c == Extend(n, q, Here)
         IN  /\ c \in L!Places(disk) /\ Len(c) = n /\ c \in [1..n -> L!Spots(disk)]
             /\ \A k \in 1..(n - 1) : c[k] = q[k]
             /\ c[n] = Here /\ L!Says(disk, c) = L!Current
             /\ Name = L!UpperCase(L!Along(disk, c)[n].name) /\ L!FullName(disk, c) = Name
             /\ Place = L!Along(disk, c)[n].addr % Size /\ L!FullAddr(disk, c) = Place
             /\ \A j \in 0..(n - 1) : L!Along(disk, c)[j] = L!Along(disk, q)[j]
<1> DEFINE n == Len(stack)
           c == Extend(n, q, Here)
           a == L!Along(disk, c)
           b == L!Along(disk, q)
<1>1. /\ Here \in L!Spots(disk) /\ Here[1] = L!top.file /\ L!LineAt(disk, Here) = L!Current
      /\ L!Current \in L!Line /\ L!Current.name \in Seq(Part) /\ L!Current.addr \in Addr
  BY HereFacts, LineType
<1>2. /\ disk \in Disks /\ n \in Nat /\ n >= 1 /\ n - 1 \in Nat /\ L!top = stack[n]
      /\ Leads(disk, n, q, L!top.file) /\ q \in [1..(n - 1) -> L!Spots(disk)]
  BY LoadingFacts DEF Calls, Leads
<1>3. /\ c \in L!Places(disk) /\ Len(c) = n /\ c \in [1..n -> L!Spots(disk)]
      /\ c[n] = Here /\ \A k \in 1..(n - 1) : c[k] = q[k]
  BY <1>1, <1>2, ExtendIsPlace
<1> HIDE DEF c
<1>4. \A j \in 0..(n - 1) : a[j] = b[j]
  <2> SUFFICES ASSUME NEW j \in 0..(n - 1) PROVE a[j] = b[j]
    OBVIOUS
  <2>1. j \in Nat /\ j <= n /\ j <= n - 1 /\ \A k \in 1..j : c[k] = q[k]
    BY <1>2, <1>3
  <2> QED
    BY <1>2, <1>3, <2>1, AlongPrefix
<1>5. a[n] = Further(disk, Here, a[n - 1])
  <2>1. n \in 1..n
    BY <1>2
  <2>2. a[n] = Further(disk, c[n], a[n - 1])
    BY <1>2, <1>3, <2>1, AlongStep
  <2> QED
    BY <1>3, <2>2
<1>6. n - 1 \in 0..(n - 1) /\ n \in 1..n
  BY <1>2
<1>7. b[n - 1].name \in Seq(Part) /\ b[n - 1].addr \in Nat
  BY <1>2, <1>6, AlongType
<1>8. a[n].name = b[n - 1].name \o L!Current.name /\ a[n].addr = b[n - 1].addr + L!Current.addr
  <2>1. a[n] = Further(disk, Here, b[n - 1])
    BY <1>4, <1>5, <1>6
  <2> DEFINE x == b[n - 1].name \o L!Current.name
             y == b[n - 1].addr + L!Current.addr
  <2>2. a[n] = [name |-> x, addr |-> y]
    BY <1>1, <2>1, Zenon DEF Further
  <2> HIDE DEF a, x, y
  <2>3. a[n].name = x /\ a[n].addr = y
    BY <2>2
  <2> QED
    BY <2>3 DEF x, y
<1>9. L!top.prefix = L!UpperCase(b[n - 1].name) /\ L!top.offset = b[n - 1].addr % Size
  BY <1>2, <1>6 DEF Calls
<1>10. Name = L!UpperCase(a[n].name)
  BY <1>1, <1>7, <1>8, <1>9, UpperJoin DEF Name, L!ItemName
<1>11. Place = a[n].addr % Size
  <2>1. L!Current.addr \in Nat /\ Size \in Nat \ {0}
    BY <1>1, SizeAssumption DEF Addr
  <2>2. Place = ((b[n - 1].addr % Size) + L!Current.addr) % Size
    BY <1>9 DEF Place, L!ItemAddr, L!Offset
  <2>3. ((b[n - 1].addr % Size) + L!Current.addr) % Size = (b[n - 1].addr + L!Current.addr) % Size
    BY <1>7, <2>1, AddRemainder
  <2> QED
    BY <1>8, <2>2, <2>3
<1>12. L!FullName(disk, c) = Name
  BY <1>3, <1>10 DEF L!FullName, L!UpperCase
<1>13. L!FullAddr(disk, c) = Place
  BY <1>3, <1>11 DEF L!FullAddr
<1>14. L!Says(disk, c) = L!Current
  BY <1>1, <1>3 DEF L!Says
<1> QED
  BY <1>3, <1>4, <1>10, <1>11, <1>12, <1>13, <1>14 DEF c

\* A line that does not change the calls.
LEMMA CallsOver ==
  ASSUME TableInv, status = "loading", L!top.line \in DOMAIN disk[L!top.file],
         L!Continue(L!Current), disk' = disk, NEW q, Calls(q)
  PROVE  /\ Calls(q)' /\ L!top'.file = L!top.file
         /\ L!top'.line = IF L!Current.long THEN 0 ELSE L!top.line + 1
<1> DEFINE n == Len(stack)
<1>1. /\ Len(stack') = n /\ \A j \in 1..(n - 1) : stack'[j] = stack[j]
      /\ stack'[n] = L!NextLine(L!top, L!Current)
  BY ContinueFacts
<1>2. n \in Nat /\ n >= 1 /\ L!top = stack[n] /\ L!top \in L!Frame
  BY LoadingFacts
<1>3. L!top' = L!NextLine(L!top, L!Current)
  BY <1>1 DEF L!top
<1>4. /\ L!top'.file = L!top.file /\ L!top'.prefix = L!top.prefix /\ L!top'.offset = L!top.offset
      /\ L!top'.line = IF L!Current.long THEN 0 ELSE L!top.line + 1
  BY <1>2, <1>3, FrameType
<1>5. \A j \in 1..n : stack'[j].prefix = stack[j].prefix /\ stack'[j].offset = stack[j].offset
  BY <1>1, <1>2, <1>3, <1>4
<1>6. Leads(disk, n, q, L!top.file)' 
  BY <1>1, <1>4 DEF Calls, Leads, L!Spots, L!LineAt
<1>7. Calls(q)'
  BY <1>1, <1>2, <1>4, <1>5, <1>6 DEF Calls
<1> QED
  BY <1>4, <1>7

\* A file that is included.
LEMMA CallsInto ==
  ASSUME TableInv, status = "loading", L!top.line \in DOMAIN disk[L!top.file],
         IncludesFile, NEW q, Calls(q), NEW c, c = Extend(Len(stack), q, Here)
  PROVE  /\ Calls(c)'
         /\ L!top'.file = L!Current.file /\ L!top'.line = 1
<1> DEFINE n == Len(stack)
           fr == L!Open(L!Current.file, Name, Place)
<1>1. /\ Len(stack') = n + 1 /\ \A j \in 1..(n - 1) : stack'[j] = stack[j]
      /\ stack'[n] = L!NextLine(L!top, L!Current) /\ stack'[n + 1] = fr /\ disk' = disk
  BY IncludeFacts DEF IncludesFile
<1>2. /\ n \in Nat /\ n >= 1 /\ L!top = stack[n] /\ L!top \in L!Frame /\ fileLevel = n - 1
      /\ MaxFileLevel \in Nat
  BY LoadingFacts
<1>3. /\ Here \in L!Spots(disk) /\ L!LineAt(disk, Here) = L!Current /\ L!Current \in L!Line
      /\ Here[1] = L!top.file /\ Here[2] = L!top.line
      /\ Name \in Seq(Part) /\ Place \in Addr /\ L!Current.file \in File
  BY HereFacts, LineType
<1>4. /\ \A k \in 1..(n - 1) : c[k] = q[k]
      /\ c[n] = Here
      /\ Name = L!UpperCase(L!Along(disk, c)[n].name)
      /\ Place = L!Along(disk, c)[n].addr % Size
      /\ \A j \in 0..(n - 1) : L!Along(disk, c)[j] = L!Along(disk, q)[j]
  BY HereAdds
<1>5. Leads(disk, n + 1, c, L!Current.file)
  <2>1. Leads(disk, n, q, L!top.file) /\ L!Current.kind = "include" /\ n <= MaxFileLevel
    BY <1>2 DEF Calls, IncludesFile
  <2> QED
    BY <1>3, <2>1, LeadsInto
<1> HIDE DEF fr
<1>6. L!top' = fr
  BY <1>1 DEF L!top
<1>7. fr.file = L!Current.file /\ fr.line = 1 /\ fr.prefix = Name /\ fr.offset = Place
  BY <1>3, OpenType DEF fr
<1>8. /\ stack'[n].file = L!top.file /\ stack'[n].prefix = L!top.prefix
      /\ stack'[n].offset = L!top.offset
      /\ stack'[n].line = IF L!Current.long THEN 0 ELSE L!top.line + 1
  <2> DEFINE t == L!NextLine(L!top, L!Current)
  <2>1. /\ t.file = L!top.file /\ t.prefix = L!top.prefix /\ t.offset = L!top.offset
        /\ t.line = IF L!Current.long THEN 0 ELSE L!top.line + 1
    BY <1>2, FrameType
  <2> HIDE DEF t
  <2> QED
    BY <1>1, <2>1 DEF t
<1>9. Leads(disk', Len(stack'), c, L!top'.file)
  BY <1>1, <1>5, <1>6, <1>7
<1>10. ASSUME NEW j \in 1..Len(stack')
       PROVE  /\ stack'[j].prefix = L!UpperCase(L!Along(disk', c)[j - 1].name)
              /\ stack'[j].offset = L!Along(disk', c)[j - 1].addr % Size
  <2>1. CASE j = n + 1
    <3>1. j - 1 = n /\ stack'[j] = fr
      BY <1>1, <1>2, <2>1
    <3> QED
      BY <1>1, <1>4, <1>7, <3>1
  <2>2. CASE j # n + 1
    <3>1. j \in 1..n /\ j - 1 \in 0..(n - 1)
      BY <1>1, <1>2, <2>2
    <3>2. stack'[j].prefix = stack[j].prefix /\ stack'[j].offset = stack[j].offset
      BY <1>1, <1>2, <1>8, <3>1
    <3>3. L!Along(disk', c)[j - 1] = L!Along(disk, q)[j - 1]
      BY <1>1, <1>4, <3>1
    <3> QED
      BY <3>1, <3>2, <3>3 DEF Calls
  <2> QED
    BY <2>1, <2>2
<1>11. ASSUME NEW j \in 1..(Len(stack') - 1)
       PROVE  /\ c[j][1] = stack'[j].file
              /\ stack'[j].line = IF L!LineAt(disk', c[j]).long THEN 0 ELSE c[j][2] + 1
  <2>1. CASE j = n
    BY <1>1, <1>3, <1>4, <1>8, <2>1
  <2>2. CASE j # n
    <3>1. j \in 1..(n - 1)
      BY <1>1, <1>2, <2>2
    <3>2. c[j] = q[j] /\ stack'[j] = stack[j]
      BY <1>1, <1>4, <3>1
    <3> QED
      BY <1>1, <3>1, <3>2 DEF Calls
  <2> QED
    BY <2>1, <2>2
<1>12. Calls(c)'
  BY <1>9, <1>10, <1>11 DEF Calls
<1> QED
  BY <1>6, <1>7, <1>12

\* A way without its last line.
LEMMA AlongBack ==
  ASSUME NEW d \in Disks, NEW n \in Nat, n >= 2, NEW q \in [1..(n - 1) -> L!Spots(d)],
         NEW r \in [1..(n - 2) -> L!Spots(d)], \A k \in 1..(n - 2) : r[k] = q[k]
  PROVE  \A j \in 0..(n - 2) : L!Along(d, r)[j] = L!Along(d, q)[j]
<1> DEFINE u == n - 2
           v == n - 1
<1>1. u \in Nat /\ v \in Nat /\ \A j \in 0..u : j \in Nat /\ j <= u /\ j <= v
  OBVIOUS
<1>2. r \in [1..u -> L!Spots(d)] /\ q \in [1..v -> L!Spots(d)] /\ \A k \in 1..u : r[k] = q[k]
  OBVIOUS
<1> HIDE DEF u, v
<1>3. ASSUME NEW j \in 0..u PROVE L!Along(d, r)[j] = L!Along(d, q)[j]
  <2>1. j \in Nat /\ j <= u /\ j <= v
    BY <1>1
  <2>2. \A k \in 1..j : r[k] = q[k]
    BY <1>1, <1>2, <2>1
  <2> QED
    BY <1>1, <1>2, <2>1, <2>2, AlongPrefix
<1> QED
  BY <1>3 DEF u

\* The end of a file that has been included.
LEMMA CallsBack ==
  ASSUME TableInv, L!EndOfFile, NEW n, n = Len(stack), n # 1, NEW q, Calls(q),
         NEW r \in [1..(n - 2) -> L!Spots(disk)], \A k \in 1..(n - 2) : r[k] = q[k]
  PROVE  /\ Calls(r)' /\ L!top'.file = q[n - 1][1] /\ q[n - 1] \in L!Spots(disk)
         /\ L!top'.line = IF L!LineAt(disk, q[n - 1]).long THEN 0 ELSE q[n - 1][2] + 1
<1>1. /\ status = "loading" /\ Len(stack') = n - 1 /\ disk' = disk
      /\ \A j \in 1..(n - 1) : stack'[j] = stack[j]
  BY EndFacts
<1>2. n \in Nat /\ n >= 2 /\ disk \in Disks
  BY <1>1, LoadingFacts
<1>3. /\ Leads(disk, n, q, L!top.file) /\ q \in [1..(n - 1) -> L!Spots(disk)]
      /\ Leads(disk, n - 1, r, q[n - 1][1])
  <2>1. Leads(disk, n, q, L!top.file)
    BY DEF Calls
  <2>2. q \in [1..(n - 1) -> L!Spots(disk)]
    BY <2>1 DEF Leads
  <2>3. Leads(disk, n - 1, r, q[n - 1][1])
    BY <2>1, LeadsBack
  <2> QED
    BY <2>1, <2>2, <2>3
<1>4. r \in [1..(n - 2) -> L!Spots(disk)] /\ \A k \in 1..(n - 2) : r[k] = q[k]
  OBVIOUS
<1>5. \A j \in 0..(n - 2) : L!Along(disk, r)[j] = L!Along(disk, q)[j]
  BY <1>2, <1>3, <1>4, AlongBack
<1>6. /\ n - 1 \in 1..(n - 1) /\ L!top' = stack[n - 1]
      /\ q[n - 1][1] = stack[n - 1].file
      /\ stack[n - 1].line = IF L!LineAt(disk, q[n - 1]).long THEN 0 ELSE q[n - 1][2] + 1
  BY <1>1, <1>2 DEF L!top, Calls
<1>7. Leads(disk', Len(stack'), r, L!top'.file)
  BY <1>1, <1>3, <1>6
<1>8. ASSUME NEW j \in 1..Len(stack')
      PROVE  /\ stack'[j].prefix = L!UpperCase(L!Along(disk', r)[j - 1].name)
             /\ stack'[j].offset = L!Along(disk', r)[j - 1].addr % Size
  <2>1. j \in 1..n /\ j - 1 \in 0..(n - 2)
    BY <1>1, <1>2
  <2> QED
    BY <1>1, <1>5, <2>1 DEF Calls
<1>9. ASSUME NEW j \in 1..(Len(stack') - 1)
      PROVE  /\ r[j][1] = stack'[j].file
             /\ stack'[j].line = IF L!LineAt(disk', r[j]).long THEN 0 ELSE r[j][2] + 1
  <2>1. j \in 1..(n - 1) /\ r[j] = q[j]
    BY <1>1, <1>2, <1>4
  <2> QED
    BY <1>1, <2>1 DEF Calls
<1>10. Calls(r)'
  BY <1>7, <1>8, <1>9 DEF Calls
<1> QED
  BY <1>2, <1>3, <1>6, <1>10


\* One more place that adds nothing.
LEMMA HoldsOver ==
  ASSUME NEW R, Holds(R), NEW c, ~L!IsItem(disk, c), NoFault(c), UNCHANGED <<disk, names>>
  PROVE  Holds(R \cup {c})'
<1>1. \A p \in R \cup {c} : NoFault(p)'
  BY DEF Holds, NoFault
<1>2. \A p, r \in R \cup {c} : L!IsItem(disk, p) /\ L!IsItem(disk, r) /\
                               L!FullName(disk, p) = L!FullName(disk, r) => p = r
  BY DEF Holds
<1>3. {r \in R \cup {c} : L!IsItem(disk, r)} = {r \in R : L!IsItem(disk, r)}
  OBVIOUS
<1>4. DOMAIN names = {L!FullName(disk, p) : p \in {r \in R \cup {c} : L!IsItem(disk, r)}}
  BY <1>3 DEF Holds
<1>5. \A p \in R \cup {c} : L!IsItem(disk, p) => names[L!FullName(disk, p)] = ItemAt(p)
  BY DEF Holds
<1> QED
  BY <1>1, <1>2, <1>4, <1>5 DEF Holds, ItemAt

\* One more item, of a new name.
LEMMA HoldsItem ==
  ASSUME NEW R, Holds(R), NEW c, L!IsItem(disk, c), NoFault(c),
         NEW m, m = L!FullName(disk, c), m \notin DOMAIN names, disk' = disk,
         names' = [n \in DOMAIN names \cup {m} |-> IF n = m THEN ItemAt(c) ELSE names[n]]
  PROVE  Holds(R \cup {c})'
<1>1. \A p \in R \cup {c} : NoFault(p)'
  BY DEF Holds, NoFault
<1>2. DOMAIN names = {L!FullName(disk, p) : p \in {r \in R : L!IsItem(disk, r)}}
  BY DEF Holds
<1>3. \A p \in R : L!IsItem(disk, p) => L!FullName(disk, p) \in DOMAIN names
                                        /\ L!FullName(disk, p) # L!FullName(disk, c)
  BY <1>2
<1>4. \A p, r \in R \cup {c} : L!IsItem(disk, p) /\ L!IsItem(disk, r) /\
                               L!FullName(disk, p) = L!FullName(disk, r) => p = r
  BY <1>3 DEF Holds
<1>5. DOMAIN names' = {L!FullName(disk, p) : p \in {r \in R \cup {c} : L!IsItem(disk, r)}}
  <2>1. DOMAIN names' = DOMAIN names \cup {m}
    OBVIOUS
  <2>2. {L!FullName(disk, p) : p \in {r \in R \cup {c} : L!IsItem(disk, r)}}
          = {L!FullName(disk, p) : p \in {r \in R : L!IsItem(disk, r)}} \cup {m}
    OBVIOUS
  <2> QED
    BY <1>2, <2>1, <2>2
<1>6. \A p \in R \cup {c} : L!IsItem(disk, p) => names'[L!FullName(disk, p)] = ItemAt(p)
  <2>1. \A p \in R : L!IsItem(disk, p) => names[L!FullName(disk, p)] = ItemAt(p)
    BY DEF Holds
  <2>2. \A n \in DOMAIN names : n # m => names'[n] = names[n]
    OBVIOUS
  <2>3. names'[m] = ItemAt(c)
    OBVIOUS
  <2> QED
    BY <1>3, <2>1, <2>2, <2>3
<1> QED
  BY <1>1, <1>4, <1>5, <1>6 DEF Holds, ItemAt

\* What is thrown at a line is wrong with the files.
LEMMA WrongIsFault ==
  ASSUME TableInv, status = "loading", L!top.line \in DOMAIN disk[L!top.file],
         NEW q, Calls(q), NEW c, c = Extend(Len(stack), q, Here),
         NEW R \in SUBSET L!Places(disk), Holds(R), c \notin R,
         NEW e \in L!Exceptions, WrongHere(e)
  PROVE  e \in L!FaultsOf[disk]
<1> DEFINE n == Len(stack)
<1>1. /\ c \in L!Places(disk) /\ Len(c) = n /\ L!Says(disk, c) = L!Current
      /\ L!FullName(disk, c) = Name
  BY HereAdds
<1>2. n \in Nat /\ fileLevel = n - 1 /\ MaxFileLevel \in Nat /\ disk \in Disks
  BY LoadingFacts
<1>3. L!FaultAt(disk, c, e)
  <2>1. CASE e = "NAME_COLLISION" /\ L!Current.kind = "item" /\ Name \in DOMAIN names
    <3>1. PICK r \in R : L!IsItem(disk, r) /\ L!FullName(disk, r) = Name
      BY <2>1 DEF Holds
    <3>2. r \in L!Places(disk) \ {c}
      BY <3>1
    <3> QED
      BY <1>1, <2>1, <3>1, <3>2 DEF L!FaultAt
  <2>2. CASE ~(e = "NAME_COLLISION" /\ L!Current.kind = "item" /\ Name \in DOMAIN names)
    <3>1. fileLevel + 1 = n
      BY <1>2
    <3>2. n > MaxFileLevel <=> fileLevel + 1 > MaxFileLevel
      BY <3>1
    <3>3. n <= MaxFileLevel <=> fileLevel + 1 <= MaxFileLevel
      BY <3>1
    <3> QED
      BY <1>1, <2>2, <3>2, <3>3 DEF L!FaultAt, WrongHere
  <2> QED
    BY <2>1, <2>2
<1>4. e \in L!Faults(disk)
  BY <1>1, <1>3 DEF L!Faults
<1> QED
  BY <1>2, <1>4 DEF L!FaultsOf

\* A line that is not refused has no other fault than, perhaps, that its name comes again.
LEMMA RightIsNoFault ==
  ASSUME TableInv, status = "loading", L!top.line \in DOMAIN disk[L!top.file],
         NEW q, Calls(q), NEW c, c = Extend(Len(stack), q, Here),
         SaysNothing \/ AddsItem \/ IncludesFile
  PROVE  NoFault(c) /\ (L!IsItem(disk, c) <=> L!Current.kind = "item")
<1> DEFINE n == Len(stack)
<1>1. /\ c \in L!Places(disk) /\ Len(c) = n /\ L!Says(disk, c) = L!Current
      /\ L!FullName(disk, c) = Name
  BY HereAdds
<1>2. n \in Nat /\ fileLevel = n - 1 /\ MaxFileLevel \in Nat
  BY LoadingFacts
<1>3. IncludesFile => L!Current.file \in DOMAIN disk /\ ~(n > MaxFileLevel)
  BY <1>2 DEF IncludesFile
<1>4. ASSUME NEW e \in L!Exceptions, e # "NAME_COLLISION", L!FaultAt(disk, c, e)
      PROVE  FALSE
  <2>1. CASE SaysNothing
    BY <1>1, <1>4, <2>1 DEF SaysNothing, L!FaultAt
  <2>2. CASE AddsItem
    BY <1>1, <1>4, <2>2 DEF AddsItem, L!FaultAt
  <2>3. CASE IncludesFile
    BY <1>1, <1>3, <1>4, <2>3 DEF IncludesFile, L!FaultAt
  <2> QED
    BY <2>1, <2>2, <2>3
<1> QED
  BY <1>1, <1>4 DEF NoFault, L!IsItem

LEMMA WayNext ==
  ASSUME NEW q, Calls(q)', NEW S, L!top'.line # 0 => Holds(S)',
         L!top'.line # 0 => /\ S = Read(disk', Len(stack'), q, L!top'.line)
                            /\ L!top'.line \in 1..(Len(disk'[L!top'.file]) + 1)
  PROVE  Way(q)'
<1>1. CASE L!top'.line = 0
  BY <1>1 DEF Way
<1>2. CASE L!top'.line # 0
  <2>1. Holds(Read(disk, Len(stack), q, L!top.line))'
    BY <1>2 DEF Holds
  <2> QED
    BY <1>2, <2>1 DEF Way
<1> QED
  BY <1>1, <1>2

LEMMA ProcessLoad == ASSUME TableInv, LoadInv, L!ProcessLine PROVE LoadInv'
<1> DEFINE n == Len(stack)
           f == L!top.file
<1>1. status = "loading" /\ L!top.line \in DOMAIN disk[f]
  BY ProcessCases
<1>2. PICK q : Way(q)
  BY <1>1 DEF LoadInv
<1>3. PICK c : c = Extend(n, q, Here)
  OBVIOUS
<1>4. PICK R : R = Read(disk, n, q, L!top.line)
  OBVIOUS
<1>5. /\ disk \in Disks /\ n \in Nat /\ n >= 1 /\ f \in DOMAIN disk
      /\ Len(disk[f]) \in Nat /\ DOMAIN disk[f] = 1..Len(disk[f])
      /\ disk[f] \in Seq(L!Line) /\ MaxFileLevel \in Nat /\ fileLevel = n - 1
  BY <1>1, LoadingFacts
<1>6. /\ Here \in L!Spots(disk) /\ L!LineAt(disk, Here) = L!Current /\ L!Current \in L!Line
      /\ Here[1] = f /\ Here[2] = L!top.line
      /\ L!top.line \in 1..Len(disk[f])
  BY <1>1, HereFacts
<1>7. Calls(q) /\ Leads(disk, n, q, f) /\ Holds(R) /\ L!top.line # 0
  <2>1. L!top.line # 0
    BY <1>5, <1>6
  <2> QED
    BY <1>2, <1>4, <2>1 DEF Way, Calls
<1>8. R \in SUBSET L!Places(disk)
  BY <1>4 DEF Read
<1>9. c \notin R
  BY <1>3, <1>4, <1>5, <1>6, <1>7, ReadInto
<1>10. /\ L!Says(disk, c) = L!Current /\ L!FullName(disk, c) = Name
       /\ L!FullAddr(disk, c) = Place
  BY <1>1, <1>3, <1>7, HereAdds
<1>11. CASE \E e \in L!Exceptions : L!Throw(e) /\ WrongHere(e)
  <2>1. PICK e \in L!Exceptions : L!Throw(e) /\ WrongHere(e)
    BY <1>11
  <2>2. e \in L!FaultsOf[disk]
    BY <1>1, <1>3, <1>7, <1>8, <1>9, <2>1, WrongIsFault
  <2>3. status' = e /\ names' = <<>> /\ disk' = disk
    BY <2>1 DEF L!Throw
  <2>4. e # "loading" /\ e # "loaded"
    BY DEF L!Exceptions
  <2> QED
    BY <2>2, <2>3, <2>4 DEF LoadInv, L!AsTheFilesSay
<1>12. ASSUME L!Continue(L!Current), UNCHANGED <<disk, fileLevel>>, L!Current.kind # "include",
              Holds(R \cup {c})'
       PROVE  LoadInv'
  <2>1. /\ Calls(q)' /\ L!top'.file = f
        /\ L!top'.line = IF L!Current.long THEN 0 ELSE L!top.line + 1
    BY <1>1, <1>7, <1>12, CallsOver
  <2>2. Len(stack') = n /\ status' = "loading"
    BY <1>1, <1>12, ContinueFacts
  <2>3. Read(disk, n, q, L!top.line + 1) = R \cup {c}
    BY <1>3, <1>4, <1>5, <1>6, <1>7, <1>12, ReadOver
  <2>4. L!top'.line # 0 => L!top'.line = L!top.line + 1
    BY <2>1
  <2>5. L!top.line + 1 \in 1..(Len(disk[f]) + 1)
    BY <1>5, <1>6
  <2>6. Way(q)'
    BY <1>12, <2>1, <2>2, <2>3, <2>4, <2>5, WayNext
  <2> QED
    BY <2>2, <2>6 DEF LoadInv, L!AsTheFilesSay
<1>13. CASE SaysNothing
  <2>1. NoFault(c) /\ ~L!IsItem(disk, c)
    BY <1>1, <1>3, <1>7, <1>13, RightIsNoFault DEF SaysNothing
  <2>2. Holds(R \cup {c})'
    BY <1>7, <1>13, <2>1, HoldsOver DEF SaysNothing
  <2> QED
    BY <1>12, <1>13, <2>2 DEF SaysNothing
<1>14. CASE AddsItem
  <2>1. NoFault(c) /\ L!IsItem(disk, c)
    BY <1>1, <1>3, <1>7, <1>14, RightIsNoFault DEF AddsItem
  <2>2. ItemAt(c) = NewItem
    BY <1>10 DEF ItemAt, NewItem
  <2>3. PICK m : m = L!FullName(disk, c)
    OBVIOUS
  <2>4. /\ m \notin DOMAIN names /\ disk' = disk
        /\ names' = [k \in DOMAIN names \cup {m} |-> IF k = m THEN ItemAt(c) ELSE names[k]]
    BY <1>10, <1>14, <2>2, <2>3 DEF AddsItem
  <2>5. Holds(R \cup {c})'
    BY <1>7, <2>1, <2>3, <2>4, HoldsItem
  <2> QED
    BY <1>12, <1>14, <2>5 DEF AddsItem
<1>15. CASE IncludesFile
  <2>1. NoFault(c) /\ ~L!IsItem(disk, c)
    BY <1>1, <1>3, <1>7, <1>15, RightIsNoFault DEF IncludesFile
  <2>2. Holds(R \cup {c})'
    BY <1>7, <1>15, <2>1, HoldsOver DEF IncludesFile
  <2>3. /\ Calls(c)' /\ L!top'.file = L!Current.file /\ L!top'.line = 1
    BY <1>1, <1>3, <1>7, <1>15, CallsInto
  <2>4. Len(stack') = n + 1 /\ status' = "loading" /\ disk' = disk /\ L!Current.file \in DOMAIN disk
    BY <1>1, <1>15, IncludeFacts DEF IncludesFile
  <2>5. Read(disk, n + 1, c, 1) = R \cup {c}
    BY <1>3, <1>4, <1>5, <1>6, <1>7, ReadInto
  <2>6. 1 \in 1..(Len(disk[L!Current.file]) + 1)
    <3>1. disk[L!Current.file] \in Seq(L!Line)
      BY <1>5, <2>4, SpotType
    <3> QED
      BY <3>1
  <2>7. Way(c)'
    BY <2>2, <2>3, <2>4, <2>5, <2>6, WayNext
  <2> QED
    BY <2>4, <2>7 DEF LoadInv, L!AsTheFilesSay
<1> QED
  BY <1>11, <1>13, <1>14, <1>15, ProcessCases

\* When everything is read the map holds what the files say.
LEMMA AllRead ==
  ASSUME disk \in Disks, Top \in DOMAIN disk, Holds(L!Places(disk))
  PROVE  L!FaultsOf[disk] = {} /\ {<<m, names[m]>> : m \in DOMAIN names} = L!MeaningOf[disk]
<1> DEFINE P == L!Places(disk)
           I == {p \in P : L!IsItem(disk, p)}
<1>1. \A p \in P : \A e \in L!Exceptions : ~L!FaultAt(disk, p, e)
  <2> SUFFICES ASSUME NEW p \in P, NEW e \in L!Exceptions, L!FaultAt(disk, p, e) PROVE FALSE
    OBVIOUS
  <2>1. e = "NAME_COLLISION"
    BY DEF Holds, NoFault
  <2>2. L!IsItem(disk, p) /\ \E r \in P \ {p} : /\ L!IsItem(disk, r)
                                                /\ L!FullName(disk, r) = L!FullName(disk, p)
    BY <2>1 DEF L!FaultAt, L!IsItem
  <2> QED
    BY <2>2 DEF Holds
<1>2. L!Faults(disk) = {}
  BY <1>1 DEF L!Faults
<1>3. {<<m, names[m]>> : m \in DOMAIN names} = {<<L!FullName(disk, p), ItemAt(p)>> : p \in I}
  <2>1. DOMAIN names = {L!FullName(disk, p) : p \in I}
    BY DEF Holds
  <2>2. \A p \in I : names[L!FullName(disk, p)] = ItemAt(p)
    BY DEF Holds
  <2> HIDE DEF I
  <2> QED
    BY <2>1, <2>2
<1>4. L!Meaning(disk) = {<<L!FullName(disk, p), ItemAt(p)>> : p \in I}
  BY DEF L!Meaning, ItemAt
<1> QED
  BY <1>2, <1>3, <1>4 DEF L!FaultsOf, L!MeaningOf

LEMMA EndLoad == ASSUME TableInv, LoadInv, L!EndOfFile PROVE LoadInv'
<1>1. PICK n : n = Len(stack)
  OBVIOUS
<1> DEFINE f == L!top.file
<1>2. /\ status = "loading" /\ L!top.line = Len(disk[f]) + 1 /\ Len(stack') = n - 1
      /\ n = 1 => status' = "loaded"
      /\ n # 1 => status' = "loading"
      /\ UNCHANGED <<disk, names>>
  BY <1>1, EndFacts
<1>3. PICK q : Way(q)
  BY <1>2 DEF LoadInv
<1>4. disk \in Disks /\ n \in Nat /\ n >= 1 /\ Len(disk[f]) \in Nat /\ f \in DOMAIN disk
  BY <1>1, <1>2, LoadingFacts
<1>5. PICK R : R = Read(disk, n, q, Len(disk[f]) + 1)
  OBVIOUS
<1>6. Calls(q) /\ Leads(disk, n, q, f) /\ Holds(R)
  BY <1>1, <1>2, <1>3, <1>4, <1>5 DEF Way, Calls
<1>7. CASE n = 1
  <2>1. f = Top
    BY <1>6, <1>7 DEF Leads
  <2>2. R = L!Places(disk)
    BY <1>4, <1>5, <1>6, <1>7, <2>1, ReadEnds
  <2>3. Holds(L!Places(disk))
    BY <1>6, <2>2 DEF Holds
  <2>4. L!FaultsOf[disk] = {} /\ {<<m, names[m]>> : m \in DOMAIN names} = L!MeaningOf[disk]
    BY <1>4, <2>1, <2>3, AllRead
  <2> QED
    BY <1>2, <1>7, <2>4 DEF LoadInv, L!AsTheFilesSay
<1>8. CASE n # 1
  <2>1. q \in [1..(n - 1) -> L!Spots(disk)]
    BY <1>6 DEF Leads
  <2>2. PICK r \in [1..(n - 2) -> L!Spots(disk)] : \A k \in 1..(n - 2) : r[k] = q[k]
    <3>1. [k \in 1..(n - 2) |-> q[k]] \in [1..(n - 2) -> L!Spots(disk)]
      BY <1>4, <2>1
    <3> QED
      BY <3>1
  <2>3. /\ Calls(r)' /\ L!top'.file = q[n - 1][1] /\ q[n - 1] \in L!Spots(disk)
        /\ L!top'.line = IF L!LineAt(disk, q[n - 1]).long THEN 0 ELSE q[n - 1][2] + 1
    BY <1>1, <1>6, <1>8, <2>2, CallsBack
  <2>4. Read(disk, n - 1, r, q[n - 1][2] + 1) = R
    BY <1>4, <1>5, <1>6, <1>8, <2>2, ReadBack
  <2>5. q[n - 1][2] + 1 \in 1..(Len(disk[q[n - 1][1]]) + 1)
    <3>1. q[n - 1][2] \in 1..Len(disk[q[n - 1][1]]) /\ disk[q[n - 1][1]] \in Seq(L!Line)
      BY <1>4, <2>3, SpotType
    <3> QED
      BY <3>1
  <2>6. Holds(R)'
    BY <1>2, <1>6 DEF Holds, NoFault, ItemAt
  <2>7. Way(r)'
    BY <1>2, <2>3, <2>4, <2>5, <2>6, WayNext
  <2> QED
    BY <1>2, <1>8, <2>7 DEF LoadInv, L!AsTheFilesSay
<1> QED
  BY <1>7, <1>8

LEMMA InitLoad == L!Init => LoadInv
<1> SUFFICES ASSUME L!Init PROVE LoadInv
  OBVIOUS
<1>1. disk \in Disks /\ names = <<>> /\ Size \in Nat \ {0} /\ MaxFileLevel \in Nat
  BY TableAssumption, SizeAssumption DEF L!Init
<1>2. CASE Top \in DOMAIN disk
  <2> DEFINE q == <<>>
             fr == L!Open(Top, <<>>, 0)
  <2>1. status = "loading" /\ stack = <<fr>>
    BY <1>2 DEF L!Init
  <2>2. fr.file = Top /\ fr.line = 1 /\ fr.prefix = <<>> /\ fr.offset = 0
    BY DEF L!Open
  <2>3. Len(stack) = 1 /\ L!top = fr /\ stack[1] = fr
    BY <2>1 DEF L!top
  <2>4. q \in [1..0 -> L!Spots(disk)]
    OBVIOUS
  <2> HIDE DEF q, fr
  <2>5. Leads(disk, 1, q, Top)
    BY <1>1, <2>4 DEF Leads
  <2>6. L!Along(disk, q)[0] = Start
    BY <2>4, AlongStep
  <2>7. fr.prefix = L!UpperCase(Start.name) /\ fr.offset = Start.addr % Size
    <3>1. Start.name = <<>> /\ Start.addr = 0
      BY DEF Start
    <3>2. L!UpperCase(<<>>) = <<>>
      BY DEF L!UpperCase
    <3>3. 0 % Size = 0
      BY <1>1
    <3> QED
      BY <2>2, <3>1, <3>2, <3>3
  <2>8. Calls(q)
    <3>1. \A j \in 1..1 : j = 1 /\ j - 1 = 0
      OBVIOUS
    <3>2. 1..(1 - 1) = {}
      OBVIOUS
    <3> QED
      BY <2>2, <2>3, <2>5, <2>6, <2>7, <3>1, <3>2 DEF Calls
  <2>9. Read(disk, 1, q, 1) = {}
    BY <1>1, ReadEnds
  <2>10. Holds(Read(disk, 1, q, 1))
    BY <1>1, <2>9 DEF Holds
  <2>11. 1 \in 1..(Len(disk[Top]) + 1)
    <3>1. disk[Top] \in Seq(L!Line)
      BY <1>1, <1>2, SpotType
    <3> QED
      BY <3>1
  <2>12. Way(q)
    BY <2>2, <2>3, <2>8, <2>10, <2>11 DEF Way
  <2> QED
    BY <2>1, <2>12 DEF LoadInv, L!AsTheFilesSay
<1>3. CASE Top \notin DOMAIN disk
  <2>1. status = "BAD_FILE"
    BY <1>3 DEF L!Init
  <2>2. "BAD_FILE" \in L!FaultsOf[disk]
    BY <1>1, <1>3 DEF L!FaultsOf, L!Faults, L!Exceptions
  <2> QED
    BY <1>1, <2>1, <2>2 DEF LoadInv, L!AsTheFilesSay
<1> QED
  BY <1>2, <1>3

LEMMA LoadStutter == ASSUME LoadInv, UNCHANGED table PROVE LoadInv'
<1>1. /\ UNCHANGED <<disk, stack, fileLevel, names, status>> /\ L!top' = L!top
  BY DEF table, L!top
<1>2. L!AsTheFilesSay'
  BY <1>1 DEF LoadInv, L!AsTheFilesSay
<1>3. ASSUME NEW q, Way(q) PROVE Way(q)'
  BY <1>1, <1>3 DEF Way, Calls, Holds, NoFault, ItemAt
<1> QED
  BY <1>1, <1>2, <1>3 DEF LoadInv

(* A table loads if and only if nothing in its files is wrong, and holds   *)
(* then each item of each file once for every way it is included; if not,  *)
(* what is thrown is wrong with one of them and there is no table.         *)
THEOREM TableIsRead == LoadSpec => []AsTheFilesSay
<1>1. LoadInit => LoadInv
  BY InitLoad DEF LoadInit
<1>2. Inv /\ TableInv /\ LoadInv /\ [LoadNext]_<<vars, table>> => LoadInv'
  <2> SUFFICES ASSUME TableInv, LoadInv, [LoadNext]_<<vars, table>> PROVE LoadInv'
    OBVIOUS
  <2>1. CASE Load
    <3>1. L!Spin => UNCHANGED table
      BY DEF L!Spin, L!vars, table
    <3> QED
      BY <2>1, <3>1, ProcessLoad, EndLoad, LoadStutter DEF Load, L!Next
  <2>2. ASSUME UNCHANGED table PROVE LoadInv'
    BY <2>2, LoadStutter
  <2> QED
    BY <2>1, <2>2 DEF LoadNext, ByName, Access, NoTable
<1>3. LoadInv => AsTheFilesSay
  BY DEF LoadInv, AsTheFilesSay
<1> QED
  BY <1>1, <1>2, <1>3, LoadedHolds, PTL DEF LoadSpec
=============================================================================
