----------------------------- MODULE RegisterIO -----------------------------
(***************************************************************************)
(* What one register call promises its caller: the abstract specification  *)
(* of BNL_UDP.  There is no network here.  A call is one Read or Write of  *)
(* a board register; the board's own logic may change any register at any  *)
(* time.  A read that succeeds returns a value the register held during    *)
(* the last attempt of the call; a write that succeeds has been applied at *)
(* least once; a call that fails promises nothing about whether its write  *)
(* was applied.                                                            *)
(***************************************************************************)
CONSTANTS Addr,  \* register addresses
          Val    \* register values

VARIABLES reg,   \* [Addr -> Val]: the board's registers
          call,  \* the call in progress, or NoCall
          seen,  \* the values the called register held during this attempt
          done,  \* the write in progress has been applied
          out    \* what the last call returned

vars == <<reg, call, seen, done, out>>

Calls  == [kind : {"read", "write"}, addr : Addr, val : Val]
NoCall == [kind |-> "none"]
Init == /\ reg \in [Addr -> Val]
        /\ call = NoCall
        /\ seen = {}
        /\ done = FALSE
        /\ out = [status |-> "none"]

\* The caller enters Read or Write.
Start == /\ call = NoCall
         /\ call' \in Calls
         /\ seen' = {}
         /\ done' = FALSE
         /\ out' = [status |-> "none"]
         /\ UNCHANGED reg

\* An attempt begins: from now on the register is observed.
Attempt == /\ call # NoCall
           /\ seen' = {reg[call.addr]}
           /\ UNCHANGED <<reg, call, done, out>>

\* The board applies the write in progress; a retry may apply it again.
Apply == /\ call # NoCall
         /\ call.kind = "write"
         /\ reg' = [reg EXCEPT ![call.addr] = call.val]
         /\ seen' = seen \cup {call.val}
         /\ done' = TRUE
         /\ UNCHANGED <<call, out>>

\* The board changes a register by itself.
BoardChange(a, v) ==
  /\ reg' = [reg EXCEPT ![a] = v]
  /\ seen' = IF call # NoCall /\ call.addr = a THEN seen \cup {v} ELSE seen
  /\ UNCHANGED <<call, done, out>>

ReturnRead == /\ call # NoCall
              /\ call.kind = "read"
              /\ \E v \in seen : 
                     out' = [status |-> "read", addr |-> call.addr, val |-> v]
              /\ call' = NoCall
              /\ UNCHANGED <<reg, seen, done>>

ReturnWritten == /\ call # NoCall
                 /\ call.kind = "write"
                 /\ done
                 /\ out' = [status |-> "written"]
                 /\ call' = NoCall
                 /\ UNCHANGED <<reg, seen, done>>

\* BAD_REPLY or SEND_FAILED reaches the caller.
ReturnFailed == /\ call # NoCall
                /\ out' = [status |-> "failed"]
                /\ call' = NoCall
                /\ UNCHANGED <<reg, seen, done>>

Next == \/ Start \/ Attempt \/ Apply
        \/ \E a \in Addr, v \in Val : BoardChange(a, v)
        \/ ReturnRead \/ ReturnWritten \/ ReturnFailed

Spec == Init /\ [][Next]_vars
=============================================================================
