----------------------------- MODULE LoadedTable -----------------------------
(***************************************************************************)
(* AddressTable from its constructor on: the items that are read and        *)
(* written by name are those TableLoad has made of the table files.         *)
(***************************************************************************)
EXTENDS AddressTable

CONSTANTS Part, Upper, MaxFileLevel, File, Top, Disks,  \* see TableLoad
          Requests                                      \* what callers may ask for

VARIABLES disk, stack, fileLevel, names, status  \* see TableLoad

table == <<disk, stack, fileLevel, names, status>>

L == INSTANCE TableLoad

ASSUME TableAssumption ==
  /\ MaxFileLevel \in Nat
  /\ Top \in File
  /\ Upper \in [Part -> Part]
  /\ \A x \in Part : Upper[Upper[x]] = Upper[x]
  /\ \A d \in Disks : DOMAIN d \subseteq File /\ \A f \in DOMAIN d : d[f] \in Seq(L!Line)
\* Callers give names as they are in the map, in upper case; the item may have any address
\* and mask.
ASSUME RequestsAssumption ==
  /\ Requests \subseteq [kind : {"read", "write", "block"}, name : Seq(Part), vals : Seq(Word)]
  /\ \A c \in Requests, a \in Addr, m \in Word :
       [kind |-> c.kind, addr |-> a, mask |-> m, vals |-> c.vals] \in Ops
-----------------------------------------------------------------------------
LoadInit == Init /\ L!Init

Load == L!Next /\ UNCHANGED vars

\* A name that is not in the map; a block of an item that is not a whole register.
BadBlock(o) == o.kind = "block" /\ o.mask # Bit
ByName(c) ==
  /\ status = "loaded"
  /\ IF c.name \in DOMAIN names
     THEN LET o == [kind |-> c.kind, addr |-> names[c.name].address,
                    mask |-> names[c.name].mask, vals |-> c.vals]
          IN  Begin(o) /\ (result'.status = "refused" <=> BadBlock(o))
     ELSE Begin(NoOp) /\ result'.status = "refused"
  /\ UNCHANGED table

\* What follows on a call is as in AddressTable.  Between calls the board need not change
\* registers, for they may hold anything at first.
Access == /\ pc # "idle"
          /\ \/ Enters \/ CallRuns \/ ReadReturns \/ WriteReturns \/ CallFails
             \/ \E a \in Addr, v \in Word : BoardChange(a, v)
          /\ UNCHANGED table

NoTable == status \in L!Exceptions /\ UNCHANGED <<vars, table>>

LoadNext == Load \/ (\E c \in Requests : ByName(c)) \/ Access \/ NoTable
LoadSpec == LoadInit /\ [][LoadNext]_<<vars, table>> /\ WF_<<vars, table>>(Load)
-----------------------------------------------------------------------------
TableTypeOK   == TypeOK /\ L!TypeOK
\* See TableLoad.  No operation changes the table: this looks at it before the first one.
AsTheFilesSay == result.status = "none" /\ pc = "idle" => L!AsTheFilesSay
LoadEnds      == L!LoadEnds
=============================================================================
