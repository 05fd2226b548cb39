------------------------------ MODULE FembCall ------------------------------
(***************************************************************************)
(* What a caller sees of ConfigFEMB, ConfigFEMBFakeData and                 *)
(* SetupASICPulserBits: the abstract specification of FembConfig, and the  *)
(* steps ProtoWib takes such a call in.  There are no registers here, no   *)
(* passes and no read-back.  The FEMB is written only while nobody may     *)
(* disturb it.  How a call ends says how far it came, what the caller      *)
(* tolerates, and in what state FEMB and flag can be.                      *)
(***************************************************************************)
CONSTANTS Calls,  \* what may be asked: of some kind; "config" with what is tolerated, cont
          Femb    \* the states of a FEMB

VARIABLES femb,
          dnd,    \* "do not disturb"
          phase,  \* of the call: "entered", dnd is set and the FEMB as it was ("quiet"),
                  \* "writing", all is "written" or so with errors ("tolerated")
          op,     \* the call in progress or last made
          kept,   \* the flag when the call began
          out     \* how the call ended

vars == <<femb, dnd, phase, op, kept, out>>

Init == /\ femb \in Femb
        /\ dnd \in BOOLEAN
        /\ phase = "idle"
        /\ op \in Calls
        /\ kept = dnd
        /\ out = "none"

Ignores(e)   == op.kind = "config" /\ e \subseteq op.cont
Tolerant     == Ignores({"spi"}) \/ Ignores({"phases", "sync"})
Ends(e)      == phase' = "idle" /\ out' = e
MayBeWritten == phase \in {"quiet", "writing"} /\ (dnd \/ op.kind = "pulser")

\* SetupASICPulserBits leaves the flag alone.
Enter == /\ phase = "idle"
         /\ op' \in Calls
         /\ kept' = dnd
         /\ \/ phase' = (IF op'.kind = "pulser" THEN "writing" ELSE "entered") /\ out' = "none"
            \/ Ends("refused")
         /\ UNCHANGED <<femb, dnd>>

Quieten == /\ phase = "entered"
           /\ phase' = "quiet"
           /\ dnd' = TRUE
           /\ UNCHANGED <<femb, op, kept, out>>

\* The FEMB cannot be read, and the caller wants to go on: the flag stays set.
Skip == /\ phase = "quiet"
        /\ Ignores({"read"})
        /\ Ends("skipped")
        /\ UNCHANGED <<femb, dnd, op, kept>>

Write == /\ MayBeWritten
         /\ femb' \in Femb
         /\ phase' \in {"writing", "written"} \cup (IF Tolerant THEN {"tolerated"} ELSE {})
         /\ UNCHANGED <<dnd, op, kept, out>>

Restore == /\ \/ phase = "written" /\ Ends("ok")
              \/ phase = "tolerated" /\ Ends("degraded")
           /\ dnd' = kept
           /\ UNCHANGED <<femb, op, kept>>

WritePulser == /\ MayBeWritten
               /\ op.kind = "pulser"
               /\ femb' \in Femb
               /\ Ends("ok")
               /\ UNCHANGED <<dnd, op, kept>>

\* An exception for an argument or for what is read back, unless it is tolerated.
GiveUp == /\ \/ phase = "quiet" /\ ~Ignores({"read"}) /\ Ends("unreadable")
             \/ phase = "writing" /\ op.kind = "config" /\ Ends("refused")
             \/ phase = "writing" /\ ~Ignores({"spi"}) /\ Ends("mismatch")
             \/ phase = "writing" /\ ~Ignores({"phases", "sync"}) /\ Ends("unsynced")
          /\ UNCHANGED <<femb, dnd, op, kept>>

\* An access fails, and it is not known whether its write was applied.
Fail == /\ phase # "idle"
        /\ Ends("failed")
        /\ \/ phase = "entered" /\ dnd' \in {dnd, TRUE} /\ UNCHANGED femb
           \/ phase \in {"written", "tolerated"} /\ dnd' \in {dnd, kept} /\ UNCHANGED femb
           \/ MayBeWritten /\ femb' \in Femb /\ UNCHANGED dnd
        /\ UNCHANGED <<op, kept>>

Next == \/ Enter \/ Quieten \/ Skip \/ Write \/ Restore \/ WritePulser \/ GiveUp \/ Fail
Spec == Init /\ [][Next]_vars
=============================================================================
