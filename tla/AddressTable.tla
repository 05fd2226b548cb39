---------------------------- MODULE AddressTable ----------------------------
(***************************************************************************)
(* src/WIB1/AddressTable_IO.cpp: reads and writes of named items.  An item *)
(* is some bits of a register, so a write of it is a read of the register  *)
(* and then a write of the whole of it, and a block is written register by *)
(* register.  Other items share the register, and the board changes bits   *)
(* of it by itself, also between the read and the write.                   *)
(*                                                                         *)
(* Register calls are those of RegisterIO, which BnlUdp implements, with   *)
(* and without retry.  A word is the set of its bits that are 1; values    *)
(* are given in place, shifted by the offset of the item.                  *)
(***************************************************************************)
EXTENDS Naturals, Sequences

CONSTANTS Size,  \* number of addresses, 2^16: addresses are uint16_t
          Bit,   \* the bits of a register
          Ops    \* the operations a caller may ask for

Addr == 0..(Size - 1)
Word == SUBSET Bit
\* mask is Bit, 0xFFFFFFFF, for calls by address.
Op   == [kind : {"read", "write", "block"}, addr : Addr, mask : Word, vals : Seq(Word)]

ASSUME SizeAssumption == Size \in Nat \ {0}
ASSUME OpsAssumption  ==
  /\ Ops \subseteq Op
  /\ \A o \in Ops : /\ Len(o.vals) <= Size
                    /\ o.kind = "read" => Len(o.vals) = 0
                    /\ o.kind = "write" => Len(o.vals) = 1

VARIABLES reg, call, seen, done, out,  \* see RegisterIO
          pc,        \* "idle", or the register call that comes next or is under way
          op,        \* the operation in progress or last finished
          i,         \* iWrite, from 1
          address,   \* of the word in hand
          building,  \* buildingVal, the word to write
          result,    \* how the operation ended
          before,    \* history: the registers when it began
          moved      \* history: the bits the board has changed by itself since

io    == <<reg, call, seen, done, out>>
local == <<pc, op, i, address, building, result, before, moved>>
vars  == <<io, local>>

IO == INSTANCE RegisterIO WITH Val <- Word

NoOp     == [kind |-> "block", addr |-> 0, mask |-> Bit, vals |-> <<>>]
Nothing  == [a \in Addr |-> {}]
Status(s) == [status |-> s]

Init == /\ IO!Init
        /\ pc = "idle"
        /\ op = NoOp
        /\ i = 1
        /\ address = 0
        /\ building = {}
        /\ result = Status("none")
        /\ before = reg
        /\ moved = Nothing
-----------------------------------------------------------------------------
(* Masks                                                                   *)

\* The bits of the item are taken from v, the others from w.
SetOnly(w, m, v) == w \cup (m \cap v)
Merge(w, m, v)   == (w \ m) \cup (m \cap v)

\* What a read of the item returns.
WholeWord(w, m) == w
Field(w, m)     == w \cap m

\* address++ of a uint16_t.
NextAddress(a) == IF a = Size - 1 THEN 0 ELSE a + 1
-----------------------------------------------------------------------------
(* Operations                                                              *)

Ends(r) == pc' = "idle" /\ result' = r

\* Word k of the operation is next, or all are written.
WriteNext(o, k) ==
  IF k > Len(o.vals)
  THEN Ends(Status("written")) /\ UNCHANGED building
  ELSE /\ pc' = "write"
       /\ building' = Merge({}, o.mask, o.vals[k])
       /\ result' = Status("none")

\* Unless the item is the whole register, that is read first; a block must be
\* whole registers.
ReadFirst(o) == o.kind = "read" \/ (o.kind = "write" /\ o.mask # Bit)
Begin(o) ==
  /\ pc = "idle"
  /\ op' = o
  /\ i' = 1
  /\ address' = o.addr
  /\ before' = reg
  /\ moved' = Nothing
  /\ \/ Ends(Status("refused")) /\ UNCHANGED building \* BAD_BLOCK_WRITE, INVALID_NAME
     \/ ReadFirst(o) /\ pc' = "read" /\ result' = Status("none") /\ UNCHANGED building
     \/ o.kind # "read" /\ o.mask = Bit /\ WriteNext(o, 1)
  /\ UNCHANGED io

\* A register call begins, with or without retry.
Enter(kind, v) == /\ pc = kind
                  /\ IO!Start
                  /\ call' = [kind |-> kind, addr |-> address, val |-> v]
                  /\ UNCHANGED local
Enters == Enter("read", {}) \/ Enter("write", building)

\* Nothing of the word that was read but the item is new in the word to write.
ReadReturns ==
  /\ IO!ReturnRead
  /\ IF op.kind = "read"
     THEN Ends([status |-> "read", bits |-> Field(out'.val, op.mask)]) /\ UNCHANGED building
     ELSE /\ pc' = "write"
          /\ building' = Merge(out'.val, op.mask, op.vals[1])
          /\ UNCHANGED result
  /\ UNCHANGED <<op, i, address, before, moved>>

WriteReturns ==
  /\ IO!ReturnWritten
  /\ i' = i + 1
  /\ address' = NextAddress(address)
  /\ WriteNext(op, i + 1)
  /\ UNCHANGED <<op, before, moved>>

\* The exception of a register call ends the operation.
CallFails == /\ IO!ReturnFailed
             /\ Ends(Status("failed"))
             /\ UNCHANGED <<op, i, address, building, before, moved>>

CallRuns == (IO!Attempt \/ IO!Apply) /\ UNCHANGED local

BoardChange(a, v) ==
  /\ IO!BoardChange(a, v)
  /\ moved' = [moved EXCEPT ![a] = @ \cup (v \ reg[a]) \cup (reg[a] \ v)]
  /\ UNCHANGED <<pc, op, i, address, building, result, before>>

Next == \/ \E o \in Ops : Begin(o)
        \/ Enters \/ CallRuns \/ ReadReturns \/ WriteReturns \/ CallFails
        \/ \E a \in Addr, v \in Word : BoardChange(a, v)

Spec == Init /\ [][Next]_vars
-----------------------------------------------------------------------------
TypeOK == /\ reg \in [Addr -> Word]
          /\ call \in IO!Calls \cup {IO!NoCall}
          /\ seen \subseteq Word
          /\ done \in BOOLEAN
          /\ pc \in {"idle", "read", "write"}
          /\ call # IO!NoCall => call.kind = pc
          /\ op \in Ops \cup {NoOp}
          /\ i \in 1..(Len(op.vals) + 1)
          /\ address \in Addr
          /\ building \in Word
          /\ result \in [status : {"none", "refused", "failed", "written"}]
                          \cup [status : {"read"}, bits : Word]
          /\ before \in [Addr -> Word]
          /\ moved \in [Addr -> Word]

\* Where word k goes, what its register should be then, and whether a register is
\* w but for the bits the board has changed.
At(k)      == LET s == op.addr + k - 1 IN IF s < Size THEN s ELSE s - Size
Goal(k)    == Merge(before[At(k)], op.mask, op.vals[k])
Same(a, w) == reg[a] \ moved[a] = w \ moved[a]

\* An operation changes the bits it is asked to change and no others, in order, and
\* each word wholly or not at all, also when it fails: words before the one in hand
\* are written, that one is or is not, nothing else in any register has changed but
\* what the board has changed by itself.  On success all are written.
AllOrNothing ==
  /\ \A k \in 1..(i - 1) : Same(At(k), Goal(k))
  /\ i <= Len(op.vals) => Same(At(i), before[At(i)]) \/ Same(At(i), Goal(i))
  /\ \A a \in Addr : (\A k \in 1..Len(op.vals) : k <= i => a # At(k)) => Same(a, before[a])
  /\ result.status = "written" => i > Len(op.vals)

\* A read returns the bits of its item, as they were when it began but for those
\* the board has changed since.
ReadIsCurrent ==
  result.status = "read" =>
    result.bits \ moved[op.addr] = (before[op.addr] \cap op.mask) \ moved[op.addr]
=============================================================================
