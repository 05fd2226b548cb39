------------------------------- MODULE BnlUdp -------------------------------
(***************************************************************************)
(* src/src/WIB1/BNL_UDP.cpp: register reads and writes over UDP, with the  *)
(* socket flush before each request, the two second receive timeout, the   *)
(* address check of the reply and the retry loop of ReadWithRetry and      *)
(* WriteWithRetry, against a network that loses, duplicates, delays and    *)
(* reorders datagrams and a board that may change its own registers.       *)
(*                                                                         *)
(* The read and the write socket talk to different ports, so a datagram    *)
(* belongs to one "port".  The unbounded total_retry_count statistic is    *)
(* left out.  Reads and writes without retry are calls with one attempt.   *)
(***************************************************************************)
EXTENDS Naturals, FiniteSets

CONSTANTS Addr,        \* register addresses
          Val,         \* register values
          RetryCount,  \* retry_count, 10 unless the caller says otherwise
          Late,        \* may a datagram outlive the attempt that sent it?
          Capacity     \* bound: datagrams on the wire, replies in the sockets

ASSUME RetryAssumption    == RetryCount \in Nat \ {0}
ASSUME LateAssumption     == Late \in BOOLEAN
ASSUME CapacityAssumption == Capacity \in Nat

VARIABLES reg,   \* [Addr -> Val]: the board's registers
          wire,  \* datagrams in flight
          rx,    \* replies waiting in the two sockets of the client
          pc,    \* "idle", "send" or "recv": where the client is
          call,  \* the call in progress
          left,  \* retry_count of the loop, still to be used
          sent,  \* history: requests sent by this call
          seen,  \* history: values of the called register in this attempt
          done,  \* history: the write of this call has been applied
          held,  \* history: every value each register ever had
          out    \* what the last call returned

vars   == <<reg, wire, rx, pc, call, left, sent, seen, done, held, out>>
client == <<pc, call, left, sent, out>>

Calls    == [kind : {"read", "write"}, addr : Addr, val : Val,
             tries : {1, RetryCount}]
NoCall   == [kind |-> "none"]
Requests == [type : {"req"}, port : {"read", "write"}, addr : Addr, val : Val]
Replies  == [type : {"rep"}, port : {"read", "write"}, addr : Addr, val : Val]
Outs     == [status : {"none", "failed", "written"}]
              \cup [status : {"read"}, addr : Addr, val : Val]

Request(c) == [type |-> "req", port |-> c.kind, addr |-> c.addr, val |-> c.val]
Reply(q, v) == [type |-> "rep", port |-> q.port, addr |-> q.addr, val |-> v]

\* A datagram put into a full network or a full socket buffer is lost.
Put(S, m) == IF Cardinality(S) < Capacity THEN S \cup {m} ELSE S

Init == /\ reg \in [Addr -> Val]
        /\ wire = {}
        /\ rx = {}
        /\ pc = "idle"
        /\ call = NoCall
        /\ left = 0
        /\ sent = 0
        /\ seen = {}
        /\ done = FALSE
        /\ held = [a \in Addr |-> {reg[a]}]
        /\ out = [status |-> "none"]
-----------------------------------------------------------------------------
(* The client                                                              *)

\* ReadWithRetry and WriteWithRetry are entered with retry_count, Read and
\* Write send once.
Start == /\ pc = "idle"
         /\ pc' = "send"
         /\ call' \in Calls
         /\ left' = call'.tries
         /\ sent' = 0
         /\ seen' = {}
         /\ done' = FALSE
         /\ out' = [status |-> "none"]
         /\ UNCHANGED <<reg, wire, rx, held>>

\* FlushSocket: everything already received on the socket of this call goes.
NoFlush(port) == UNCHANGED rx
FlushSocket(port) == rx' = {m \in rx : m.port # port}

Return(o) == /\ pc' = "idle"
             /\ call' = NoCall
             /\ out' = o

\* Flush, then send the request.
Send == /\ pc = "send"
        /\ FlushSocket(call.kind)
        /\ wire' = Put(wire, Request(call))
        /\ pc' = "recv"
        /\ sent' = sent + 1
        /\ seen' = {reg[call.addr]}
        /\ UNCHANGED <<reg, call, left, done, held, out>>

\* send() fails: SEND_FAILED is not caught by the retry loop.
SendFails == /\ pc = "send"
             /\ FlushSocket(call.kind)
             /\ Return([status |-> "failed"])
             /\ UNCHANGED <<reg, wire, left, sent, seen, done, held>>

\* The attempt is over.  Unless datagrams may be late, requests still on the
\* wire are lost; replies on the wire are lost or arrive before the next send.
EndOfAttempt(R) ==
  IF Late THEN /\ wire' = wire
               /\ rx' = R
          ELSE /\ wire' = {}
               /\ \E A \in SUBSET {m \in wire : m.type = "rep"} : rx' = R \cup A

\* BAD_REPLY: caught and retried, except on the last attempt.
OneTooMany == left > 0
MoreTries  == left > 1
CountTry   == left' = left - 1
BadReply(R) ==
  /\ \/ /\ MoreTries
        /\ pc' = "send"
        /\ CountTry
        /\ UNCHANGED <<call, out>>
     \/ /\ ~MoreTries
        /\ Return([status |-> "failed"])
        /\ UNCHANGED left
  /\ EndOfAttempt(R)
  /\ UNCHANGED <<reg, sent, seen, done, held>>

ForThisCall(m) == m.port = call.kind

\* Without SO_RCVTIMEO recv() would wait for ever.
RecvBlocks == FALSE

\* recv() times out after TIMEOUT_SECONDS with nothing to read.
Timeout == /\ pc = "recv"
           /\ \A m \in rx : ~ForThisCall(m)
           /\ BadReply(rx)

AnyAddress(m)     == TRUE
AddressMatches(m) == m.addr = call.addr

\* recv() returns a reply that carries another address.  A reply of the wrong size, or
\* an empty one, is BAD_REPLY as well and no kind of datagram of its own.
WrongReply(m) == /\ pc = "recv"
                 /\ ForThisCall(m)
                 /\ ~AddressMatches(m)
                 /\ BadReply(rx \ {m})

\* recv() returns a reply with the address of the request: the call is over.
GoodReply(m) == /\ pc = "recv"
                /\ ForThisCall(m)
                /\ AddressMatches(m)
                /\ Return(IF call.kind = "read"
                          THEN [status |-> "read", addr |-> call.addr, val |-> m.val]
                          ELSE [status |-> "written"])
                /\ EndOfAttempt(rx \ {m})
                /\ UNCHANGED <<reg, left, sent, seen, done, held>>

Receive == \E m \in rx : WrongReply(m) \/ GoodReply(m)
-----------------------------------------------------------------------------
(* The board and the network                                               *)

\* A register takes a value; the histories follow.
Becomes(a, v) ==
  /\ reg' = [reg EXCEPT ![a] = v]
  /\ seen' = IF pc # "idle" /\ call.addr = a THEN seen \cup {v} ELSE seen
  /\ held' = [held EXCEPT ![a] = @ \cup {v}]

\* A datagram taken off the wire may leave a duplicate of itself behind.
Taken(m) == {wire, wire \ {m}}

\* The board answers a read request.
BoardRead(m) == /\ m.type = "req"
                /\ m.port = "read"
                /\ \E W \in Taken(m) : wire' = Put(W, Reply(m, reg[m.addr]))
                /\ UNCHANGED <<reg, rx, client, seen, done, held>>

\* The board carries out a write request and acknowledges it.
BoardWrite(m) == /\ m.type = "req"
                 /\ m.port = "write"
                 /\ Becomes(m.addr, m.val)
                 /\ done' = (done \/ (pc # "idle" /\ m = Request(call)))
                 /\ \E W \in Taken(m) : wire' = Put(W, Reply(m, m.val))
                 /\ UNCHANGED <<rx, client>>

\* The board changes a register by itself.
BoardChange(a, v) == /\ Becomes(a, v)
                     /\ UNCHANGED <<wire, rx, client, done>>

Arrive(m) == /\ m.type = "rep"
             /\ rx' = Put(rx, m)
             /\ wire' \in Taken(m)
             /\ UNCHANGED <<reg, client, seen, done, held>>

Lose(m) == /\ wire' = wire \ {m}
           /\ UNCHANGED <<reg, rx, client, seen, done, held>>

Network == \E m \in wire : BoardRead(m) \/ BoardWrite(m) \/ Arrive(m) \/ Lose(m)

Client == Send \/ Timeout \/ Receive

Next == \/ Start \/ Client \/ SendFails
        \/ Network
        \/ \E a \in Addr, v \in Val : BoardChange(a, v)

Spec == Init /\ [][Next]_vars

\* The calling thread runs on: a recv() that gets nothing times out.
FairSpec == Spec /\ WF_vars(Client)
-----------------------------------------------------------------------------
TypeOK == /\ reg \in [Addr -> Val]
          /\ wire \subseteq Requests \cup Replies
          /\ rx \subseteq Replies
          /\ pc \in {"idle", "send", "recv"}
          /\ call \in Calls \cup {NoCall}
          /\ (pc = "idle") <=> (call = NoCall)
          /\ left \in 0..RetryCount
          /\ sent \in 0..RetryCount
          /\ seen \subseteq Val
          /\ done \in BOOLEAN
          /\ held \in [Addr -> SUBSET Val]
          /\ out \in Outs

\* A read never reports a value its own register did not have at some time,
\* however late, duplicated or misordered the replies are: the address check of
\* Read is all that keeps a late reply of another register out.
ReadWasHeld == out.status = "read" => out.val \in held[out.addr]

\* Every call ends, whatever the network and the board do: the receive timeout
\* and the bounded retry loops see to it.
CallsEnd == (pc # "idle") ~> (pc = "idle")

\* While no datagram outlives its attempt, the transport keeps the promise of
\* RegisterIO: a read returns a value its register held after the request was
\* sent, an acknowledged write has been applied.
CallOfPromise == IF pc = "idle" THEN NoCall
                 ELSE [kind |-> call.kind, addr |-> call.addr, val |-> call.val]
Promise == INSTANCE RegisterIO WITH call <- CallOfPromise
KeepsPromise == Promise!Spec
=============================================================================
