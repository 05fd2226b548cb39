--------------------------- MODULE BnlUdp_proofs ---------------------------
(* Theorems about BnlUdp, for every set of addresses and values, every retry *)
(* count, every capacity of the network and both choices of Late.            *)
EXTENDS BnlUdp, TLAPS

\* How many requests have been sent is what the loop has used up.
CountInv == /\ pc = "send" => left \in 1..call.tries /\ sent = call.tries - left
            /\ pc = "recv" => left \in 1..call.tries /\ sent = call.tries - left + 1

\* Put adds at most the datagram it is given.
LEMMA PutBounds == ASSUME NEW S, NEW m
                   PROVE  Put(S, m) \subseteq S \cup {m}
  BY DEF Put

\* What the end of an attempt leaves was there before.
LEMMA EndOfAttemptKeeps ==
  ASSUME TypeOK, NEW R \in SUBSET rx, EndOfAttempt(R)
  PROVE  /\ wire' \subseteq wire
         /\ rx' \subseteq Replies
         /\ rx' \subseteq wire \cup rx
  BY LateAssumption DEF EndOfAttempt, TypeOK, Requests, Replies

\* Requests and replies are what their types say.
LEMMA PacketTypes ==
  /\ \A c \in Calls : Request(c) \in Requests
  /\ \A q \in Requests, v \in Val : Reply(q, v) \in Replies
  BY DEF Calls, Requests, Replies, Request, Reply

\* NoCall is not a call.
LEMMA NoCallIsNone == NoCall \notin Calls
  BY DEF NoCall, Calls

\* A call that has returned nothing yet, or has failed, has a legal outcome.
LEMMA PlainOuts == \A s \in {"none", "failed", "written"} : [status |-> s] \in Outs
  BY DEF Outs

\* The state keeps its types: among others, no attempt is sent that the retry
\* count does not allow.
THEOREM TypeCorrect == Spec => [](TypeOK /\ CountInv)
<1> USE RetryAssumption, LateAssumption, CapacityAssumption
<1>1. Init => TypeOK /\ CountInv
  <2> SUFFICES ASSUME Init PROVE TypeOK /\ CountInv
    OBVIOUS
  <2>1. out \in Outs
    BY PlainOuts DEF Init
  <2>2. held \in [Addr -> SUBSET Val]
    BY DEF Init
  <2>3. done \in BOOLEAN
    BY Zenon DEF Init
  <2>4. 0 \in 0..RetryCount
    OBVIOUS
  <2>5. QED
    BY <2>1, <2>2, <2>3, <2>4 DEF Init, TypeOK, CountInv
<1>2. TypeOK /\ CountInv /\ [Next]_vars => (TypeOK /\ CountInv)'
  <2> SUFFICES ASSUME TypeOK, CountInv, [Next]_vars
               PROVE  (TypeOK /\ CountInv)'
    OBVIOUS
  <2> USE NoCallIsNone DEF TypeOK, CountInv
  <2>1. CASE Start
    <3>1. out' \in Outs
      BY <2>1, PlainOuts DEF Start
    <3>2. call' \in Calls /\ call'.tries \in {1, RetryCount}
      BY <2>1 DEF Start, Calls
    <3>3. done' \in BOOLEAN
      BY <2>1, Zenon DEF Start
    <3>4. sent' \in 0..RetryCount /\ left' \in 1..RetryCount
      BY <2>1, <3>2 DEF Start
    <3>5. QED
      BY <2>1, <3>1, <3>2, <3>3, <3>4 DEF Start
  <2>2. CASE Send
    <3>1. call \in Calls
      BY <2>2 DEF Send
    <3>2. wire' \subseteq Requests \cup Replies
      BY <2>2, <3>1, PutBounds, PacketTypes DEF Send
    <3>3. QED
      BY <2>2, <3>1, <3>2 DEF Send, FlushSocket, Calls
  <2>3. CASE SendFails
    BY <2>3 DEF SendFails, FlushSocket, Return, Outs
  <2>4. ASSUME NEW R \in SUBSET rx, pc = "recv", BadReply(R)
        PROVE  (TypeOK /\ CountInv)'
    <3>1. wire' \subseteq wire /\ rx' \subseteq Replies
      BY <2>4, EndOfAttemptKeeps DEF BadReply
    <3>2. call \in Calls
      BY <2>4
    <3>3. CASE MoreTries
      BY <2>4, <3>1, <3>2, <3>3 DEF BadReply, MoreTries, CountTry, Calls
    <3>4. CASE ~MoreTries
      BY <2>4, <3>1, <3>2, <3>4 DEF BadReply, Return, Outs, Calls
    <3>5. QED
      BY <3>3, <3>4
  <2>5. CASE Timeout
    BY <2>5, <2>4 DEF Timeout
  <2>6. ASSUME NEW m \in rx, WrongReply(m)
        PROVE  (TypeOK /\ CountInv)'
    BY <2>6, <2>4 DEF WrongReply
  <2>7. ASSUME NEW m \in rx, GoodReply(m)
        PROVE  (TypeOK /\ CountInv)'
    <3>1. wire' \subseteq wire /\ rx' \subseteq Replies
      BY <2>7, EndOfAttemptKeeps DEF GoodReply
    <3>2. call \in Calls /\ m \in Replies
      BY <2>7 DEF GoodReply
    <3>3. out' \in Outs
      BY <2>7, <3>2 DEF GoodReply, Return, Outs, Calls, Replies
    <3>4. QED
      BY <2>7, <3>1, <3>3 DEF GoodReply, Return
  <2>8. ASSUME NEW m \in wire, BoardRead(m)
        PROVE  (TypeOK /\ CountInv)'
    <3>1. m \in Requests
      BY <2>8 DEF BoardRead, Replies
    <3>2. Reply(m, reg[m.addr]) \in Replies
      BY <3>1, PacketTypes DEF Requests
    <3>3. wire' \subseteq Requests \cup Replies
      BY <2>8, <3>2, PutBounds DEF BoardRead, Taken
    <3>4. QED
      BY <2>8, <3>3 DEF BoardRead, client
  <2>9. ASSUME NEW m \in wire, BoardWrite(m)
        PROVE  (TypeOK /\ CountInv)'
    <3>1. m \in Requests
      BY <2>9 DEF BoardWrite, Replies
    <3>2. m.addr \in Addr /\ m.val \in Val /\ Reply(m, m.val) \in Replies
      BY <3>1, PacketTypes DEF Requests
    <3>3. wire' \subseteq Requests \cup Replies
      BY <2>9, <3>2, PutBounds DEF BoardWrite, Taken
    <3>4. QED
      BY <2>9, <3>2, <3>3 DEF BoardWrite, Becomes, client
  <2>10. ASSUME NEW m \in wire, Arrive(m)
         PROVE  (TypeOK /\ CountInv)'
    <3>1. m \in Replies
      BY <2>10 DEF Arrive, Requests
    <3>2. rx' \subseteq Replies /\ wire' \subseteq wire
      BY <2>10, <3>1, PutBounds DEF Arrive, Taken
    <3>3. QED
      BY <2>10, <3>2 DEF Arrive, client
  <2>11. ASSUME NEW m \in wire, Lose(m)
         PROVE  (TypeOK /\ CountInv)'
    BY <2>11 DEF Lose, client
  <2>12. ASSUME NEW a \in Addr, NEW v \in Val, BoardChange(a, v)
         PROVE  (TypeOK /\ CountInv)'
    BY <2>12 DEF BoardChange, Becomes, client
  <2>13. CASE UNCHANGED vars
    BY <2>13 DEF vars
  <2>14. QED
    BY <2>1, <2>2, <2>3, <2>5, <2>6, <2>7, <2>8, <2>9, <2>10, <2>11, <2>12, <2>13
       DEF Next, Client, Receive, Network
<1>3. QED
  BY <1>1, <1>2, PTL DEF Spec
-----------------------------------------------------------------------------
(* A read returns a value of its own register, in any network.              *)

\* Every value in a register or in a read reply is one the register had.
HeldInv == /\ \A a \in Addr : reg[a] \in held[a]
           /\ \A m \in wire \cup rx :
                m.type = "rep" /\ m.port = "read" => m.val \in held[m.addr]
           /\ ReadWasHeld

\* Fields of the packets built from a request.
LEMMA PacketFields ==
  /\ \A c \in Calls : /\ Request(c).type = "req" /\ Request(c).port = c.kind
                      /\ Request(c).addr = c.addr /\ Request(c).val = c.val
  /\ \A q \in Requests, v \in Val : /\ Reply(q, v).type = "rep"
                                    /\ Reply(q, v).port = q.port
                                    /\ Reply(q, v).addr = q.addr
                                    /\ Reply(q, v).val = v
  BY DEF Request, Reply

\* However late, duplicated or misordered the replies, a read that succeeds
\* reports a value its own register had: the address check is enough for that.
THEOREM ReadsAreHeld == Spec => []ReadWasHeld
<1>1. Init => HeldInv
  BY DEF Init, HeldInv, ReadWasHeld
<1>2. TypeOK /\ HeldInv /\ [Next]_vars => HeldInv'
  <2> SUFFICES ASSUME TypeOK, HeldInv, [Next]_vars
               PROVE  HeldInv'
    OBVIOUS
  <2> USE DEF HeldInv, ReadWasHeld
  <2>1. CASE Start
    BY <2>1 DEF Start
  <2>2. CASE Send
    <3>1. call \in Calls /\ rx' \subseteq rx
      BY <2>2 DEF Send, FlushSocket, TypeOK
    <3>2. Request(call).type = "req"
      BY <3>1, PacketFields
    <3>3. wire' \subseteq wire \cup {Request(call)}
      BY <2>2, PutBounds DEF Send
    <3>4. \A m \in (wire \cup rx)' : m \in wire \cup rx \/ m.type = "req"
      BY <3>1, <3>2, <3>3
    <3>5. QED
      BY <2>2, <3>4 DEF Send
  <2>3. CASE SendFails
    <3>1. rx' \subseteq rx /\ UNCHANGED <<wire, held, reg>>
      BY <2>3 DEF SendFails, FlushSocket
    <3>2. out'.status = "failed"
      BY <2>3 DEF SendFails, Return
    <3>3. QED
      BY <3>1, <3>2
  <2>4. ASSUME NEW R \in SUBSET rx, BadReply(R)
        PROVE  HeldInv'
    <3>1. (wire \cup rx)' \subseteq wire \cup rx
      BY <2>4, EndOfAttemptKeeps DEF BadReply
    <3>2. out' = out \/ out'.status = "failed"
      BY <2>4 DEF BadReply, Return
    <3>3. QED
      BY <2>4, <3>1, <3>2 DEF BadReply
  <2>5. CASE Timeout
    BY <2>5, <2>4 DEF Timeout
  <2>6. ASSUME NEW m \in rx, WrongReply(m)
        PROVE  HeldInv'
    BY <2>6, <2>4 DEF WrongReply
  <2>7. ASSUME NEW m \in rx, GoodReply(m)
        PROVE  HeldInv'
    <3>1. (wire \cup rx)' \subseteq wire \cup rx
      BY <2>7, EndOfAttemptKeeps DEF GoodReply
    <3>2. m \in Replies
      BY DEF TypeOK
    <3>3. ReadWasHeld'
      BY <2>7, <3>2 DEF GoodReply, Return, ForThisCall, AddressMatches, Replies
    <3>4. QED
      BY <2>7, <3>1, <3>3 DEF GoodReply
  <2>8. ASSUME NEW m \in wire, BoardRead(m)
        PROVE  HeldInv'
    <3>1. m \in Requests
      BY <2>8 DEF BoardRead, Replies, TypeOK
    <3> DEFINE r == Reply(m, reg[m.addr])
    <3>2. r.val \in held[r.addr]
      BY <3>1, PacketFields DEF Requests, TypeOK
    <3>3. (wire \cup rx)' \subseteq wire \cup rx \cup {r}
      BY <2>8, PutBounds DEF BoardRead, Taken
    <3> HIDE DEF r
    <3>4. QED
      BY <2>8, <3>2, <3>3 DEF BoardRead, client
  <2>9. ASSUME NEW m \in wire, BoardWrite(m)
        PROVE  HeldInv'
    <3>1. m \in Requests
      BY <2>9 DEF BoardWrite, Replies, TypeOK
    <3> DEFINE r == Reply(m, m.val)
    <3>2. r.port = "write"
      BY <2>9, <3>1, PacketFields DEF BoardWrite, Requests
    <3>3. (wire \cup rx)' \subseteq wire \cup rx \cup {r}
      BY <2>9, PutBounds DEF BoardWrite, Taken
    <3>4. \A a \in Addr : held[a] \subseteq held'[a] /\ reg'[a] \in held'[a]
      BY <2>9, <3>1 DEF BoardWrite, Becomes, TypeOK, Requests
    <3>5. out' = out
      BY <2>9 DEF BoardWrite, client
    <3> HIDE DEF r
    <3>6. \A q \in (wire \cup rx)' :
            q.type = "rep" /\ q.port = "read" => q \in wire \cup rx
      BY <3>2, <3>3
    <3>7. \A q \in wire \cup rx : q.addr \in Addr
      BY DEF TypeOK, Requests, Replies
    <3>8. out.status = "read" => out.addr \in Addr
      BY DEF TypeOK, Outs
    <3>9. QED
      BY <3>4, <3>5, <3>6, <3>7, <3>8
  <2>10. ASSUME NEW m \in wire, Arrive(m)
         PROVE  HeldInv'
    <3>1. (wire \cup rx)' \subseteq wire \cup rx
      BY <2>10, PutBounds DEF Arrive, Taken
    <3>2. QED
      BY <2>10, <3>1 DEF Arrive, client
  <2>11. ASSUME NEW m \in wire, Lose(m)
         PROVE  HeldInv'
    BY <2>11 DEF Lose, client
  <2>12. ASSUME NEW a \in Addr, NEW v \in Val, BoardChange(a, v)
         PROVE  HeldInv'
    <3>1. \A b \in Addr : held[b] \subseteq held'[b] /\ reg'[b] \in held'[b]
      BY <2>12 DEF BoardChange, Becomes, TypeOK
    <3>2. UNCHANGED <<wire, rx, out>>
      BY <2>12 DEF BoardChange, client
    <3>3. \A q \in wire \cup rx : q.addr \in Addr
      BY DEF TypeOK, Requests, Replies
    <3>4. out.status = "read" => out.addr \in Addr
      BY DEF TypeOK, Outs
    <3>5. QED
      BY <3>1, <3>2, <3>3, <3>4
  <2>13. CASE UNCHANGED vars
    BY <2>13 DEF vars
  <2>14. QED
    BY <2>1, <2>2, <2>3, <2>5, <2>6, <2>7, <2>8, <2>9, <2>10, <2>11, <2>12, <2>13
       DEF Next, Client, Receive, Network
<1>3. QED
  BY <1>1, <1>2, TypeCorrect, PTL DEF Spec, HeldInv
-----------------------------------------------------------------------------
(* While no datagram outlives its attempt, the transport is RegisterIO.     *)

\* The reply carries what the call may return.
Answers(m) == /\ m.addr = call.addr
              /\ call.kind = "read" => m.val \in seen
              /\ call.kind = "write" => done

\* Everything on the wire belongs to the attempt in progress, and a reply it
\* can still receive is an answer: the flush and the end of an attempt see to it.
PromiseInv ==
  /\ pc # "recv" => wire = {}
  /\ pc = "recv" => reg[call.addr] \in seen
  /\ \A m \in wire : /\ m.port = call.kind
                     /\ m.type = "req" => m = Request(call)
  /\ pc = "recv" => \A m \in wire \cup rx :
                      m.type = "rep" /\ m.port = call.kind => Answers(m)

\* The invariant of the prompt network.
LEMMA PromiseInvariant == ASSUME ~Late PROVE Spec => []PromiseInv
<1>1. Init => PromiseInv
  BY DEF Init, PromiseInv
<1>2. TypeOK /\ PromiseInv /\ [Next]_vars => PromiseInv'
  <2> SUFFICES ASSUME TypeOK, PromiseInv, [Next]_vars
               PROVE  PromiseInv'
    OBVIOUS
  <2> USE DEF PromiseInv, Answers
  <2>1. CASE Start
    BY <2>1 DEF Start
  <2>2. CASE Send
    <3>1. call \in Calls /\ wire = {}
      BY <2>2 DEF Send, TypeOK
    <3>2. wire' \subseteq {Request(call)} /\ Request(call).type = "req"
          /\ Request(call).port = call.kind
      BY <2>2, <3>1, PutBounds, PacketFields DEF Send
    <3>3. \A m \in rx' : m.port # call.kind
      BY <2>2 DEF Send, FlushSocket
    <3>4. UNCHANGED call /\ pc' = "recv" /\ reg'[call'.addr] \in seen'
      BY <2>2 DEF Send
    <3>5. QED
      BY <3>2, <3>3, <3>4 DEF Request
  <2>3. CASE SendFails
    BY <2>3 DEF SendFails, Return
  <2>4. ASSUME NEW R, EndOfAttempt(R), pc' # "recv"
        PROVE  PromiseInv'
    BY <2>4 DEF EndOfAttempt
  <2>5. CASE Timeout
    BY <2>5, <2>4 DEF Timeout, BadReply, Return
  <2>6. ASSUME NEW m \in rx, WrongReply(m)
        PROVE  PromiseInv'
    BY <2>6, <2>4 DEF WrongReply, BadReply, Return
  <2>7. ASSUME NEW m \in rx, GoodReply(m)
        PROVE  PromiseInv'
    BY <2>7, <2>4 DEF GoodReply, Return
  <2>8. ASSUME NEW m \in wire, BoardRead(m)
        PROVE  PromiseInv'
    <3>1. m \in Requests /\ pc = "recv" /\ call \in Calls /\ m = Request(call)
      BY <2>8 DEF BoardRead, Replies, TypeOK
    <3> DEFINE r == Reply(m, reg[m.addr])
    <3>2. /\ r.type = "rep" /\ r.port = call.kind /\ r.addr = call.addr
          /\ r.val = reg[call.addr] /\ call.kind = "read"
      BY <2>8, <3>1, PacketFields DEF BoardRead, Requests, TypeOK
    <3>3. reg[call.addr] \in seen
      BY <3>1
    <3>4. wire' \subseteq wire \cup {r}
      BY <2>8, PutBounds DEF BoardRead, Taken
    <3> HIDE DEF r
    <3>5. QED
      BY <2>8, <3>1, <3>2, <3>3, <3>4 DEF BoardRead, client
  <2>9. ASSUME NEW m \in wire, BoardWrite(m)
        PROVE  PromiseInv'
    <3>1. m \in Requests /\ pc = "recv" /\ call \in Calls /\ m = Request(call)
      BY <2>9 DEF BoardWrite, Replies, TypeOK
    <3> DEFINE r == Reply(m, m.val)
    <3>2. /\ r.type = "rep" /\ r.port = call.kind /\ r.addr = call.addr
          /\ call.kind = "write" /\ m.addr = call.addr /\ m.val \in Val
      BY <2>9, <3>1, PacketFields DEF BoardWrite, Requests
    <3>3. wire' \subseteq wire \cup {r} /\ UNCHANGED <<rx, call, pc>> /\ done'
      BY <2>9, <3>1, PutBounds DEF BoardWrite, Taken, client
    <3>4. reg'[call.addr] \in seen'
      BY <2>9, <3>1, <3>2 DEF BoardWrite, Becomes, TypeOK, Calls
    <3> HIDE DEF r
    <3>5. QED
      BY <3>1, <3>2, <3>3, <3>4
  <2>10. ASSUME NEW m \in wire, Arrive(m)
         PROVE  PromiseInv'
    <3>1. /\ rx' \subseteq rx \cup {m} /\ wire' \subseteq wire
          /\ UNCHANGED <<reg, pc, call, seen, done>>
      BY <2>10, PutBounds DEF Arrive, Taken, client
    <3>2. QED
      BY <3>1
  <2>11. ASSUME NEW m \in wire, Lose(m)
         PROVE  PromiseInv'
    BY <2>11 DEF Lose, client
  <2>12. ASSUME NEW a \in Addr, NEW v \in Val, BoardChange(a, v)
         PROVE  PromiseInv'
    <3>1. UNCHANGED <<wire, rx, pc, call, done>> /\ seen \subseteq seen'
      BY <2>12 DEF BoardChange, Becomes, client
    <3>2. pc = "recv" => reg'[call.addr] \in seen'
      BY <2>12 DEF BoardChange, Becomes, TypeOK, Calls
    <3>3. QED
      BY <3>1, <3>2
  <2>13. CASE UNCHANGED vars
    BY <2>13 DEF vars
  <2>14. QED
    BY <2>1, <2>2, <2>3, <2>5, <2>6, <2>7, <2>8, <2>9, <2>10, <2>11, <2>12, <2>13
       DEF Next, Client, Receive, Network
<1>3. QED
  BY <1>1, <1>2, TypeCorrect, PTL DEF Spec

\* The transport implements its abstract specification: a read that succeeds
\* returns a value its register held after the request was sent, a write that
\* succeeds has been applied, on the assumption that no datagram is late.
THEOREM TransportKeepsPromise == ASSUME ~Late PROVE Spec => KeepsPromise
<1> USE DEF CallOfPromise
<1>1. Init => Promise!Init
  BY DEF Init, Promise!Init, NoCall, Promise!NoCall
<1>2. TypeOK /\ PromiseInv /\ [Next]_vars => [Promise!Next]_(Promise!vars)
  <2> SUFFICES ASSUME TypeOK, PromiseInv, [Next]_vars
               PROVE  [Promise!Next]_(Promise!vars)
    OBVIOUS
  <2> DEFINE C == CallOfPromise
  <2>0. /\ pc # "idle" => /\ C # Promise!NoCall /\ C.kind = call.kind
                          /\ C.addr = call.addr /\ C.val = call.val
        /\ pc = "idle" => C = Promise!NoCall
        /\ NoCall = Promise!NoCall
    BY DEF TypeOK, NoCall, Promise!NoCall, Calls
  <2>1. CASE Start
    <3>1. CallOfPromise' \in Promise!Calls
      BY <2>1 DEF Start, Calls, Promise!Calls
    <3>2. Promise!Start
      BY <2>0, <2>1, <3>1 DEF Start, Promise!Start
    <3>3. QED
      BY <3>2 DEF Promise!Next
  <2>2. CASE Send
    <3>1. Promise!Attempt
      BY <2>0, <2>2 DEF Send, Promise!Attempt
    <3>2. QED
      BY <3>1 DEF Promise!Next
  <2>3. ASSUME Return([status |-> "failed"]), pc # "idle",
               UNCHANGED <<reg, seen, done>>
        PROVE  Promise!Next
    <3>1. Promise!ReturnFailed
      BY <2>0, <2>3 DEF Return, Promise!ReturnFailed, NoCall, Promise!NoCall
    <3>2. QED
      BY <3>1 DEF Promise!Next
  <2>4. CASE SendFails
    BY <2>3, <2>4 DEF SendFails
  <2>5. ASSUME NEW R, BadReply(R), pc = "recv"
        PROVE  [Promise!Next]_(Promise!vars)
    <3>1. CASE MoreTries
      BY <2>5, <3>1 DEF BadReply, MoreTries, Promise!vars
    <3>2. CASE ~MoreTries
      BY <2>3, <2>5, <3>2 DEF BadReply
    <3>3. QED
      BY <3>1, <3>2
  <2>6. CASE Timeout
    BY <2>5, <2>6 DEF Timeout
  <2>7. ASSUME NEW m \in rx, WrongReply(m)
        PROVE  [Promise!Next]_(Promise!vars)
    BY <2>5, <2>7 DEF WrongReply
  <2>8. ASSUME NEW m \in rx, GoodReply(m)
        PROVE  Promise!Next
    <3>1. Answers(m) /\ pc = "recv" /\ call \in Calls
      BY <2>8 DEF GoodReply, ForThisCall, PromiseInv, TypeOK, Replies
    <3>2. CASE call.kind = "read"
      <4>1. Promise!ReturnRead
        BY <2>0, <2>8, <3>1, <3>2
           DEF GoodReply, Return, Answers, Promise!ReturnRead, Promise!NoCall, NoCall
      <4>2. QED
        BY <4>1 DEF Promise!Next
    <3>3. CASE call.kind = "write"
      <4>1. Promise!ReturnWritten
        BY <2>0, <2>8, <3>1, <3>3
           DEF GoodReply, Return, Answers, Promise!ReturnWritten, Promise!NoCall, NoCall
      <4>2. QED
        BY <4>1 DEF Promise!Next
    <3>4. QED
      BY <3>1, <3>2, <3>3 DEF Calls
  <2>9. ASSUME NEW m \in wire, BoardRead(m) \/ Arrive(m) \/ Lose(m)
        PROVE  UNCHANGED Promise!vars
    BY <2>9 DEF BoardRead, Arrive, Lose, client, Promise!vars
  <2>10. ASSUME NEW m \in wire, BoardWrite(m)
         PROVE  Promise!Next
    <3>1. pc = "recv" /\ call \in Calls /\ m = Request(call)
      BY <2>10 DEF BoardWrite, PromiseInv, TypeOK
    <3>2. m.addr = call.addr /\ m.val = call.val /\ call.kind = "write"
      BY <2>10, <3>1, PacketFields DEF BoardWrite
    <3>3. Promise!Apply
      BY <2>0, <2>10, <3>1, <3>2 DEF BoardWrite, Becomes, client, Promise!Apply
    <3>4. QED
      BY <3>3 DEF Promise!Next
  <2>11. ASSUME NEW a \in Addr, NEW v \in Val, BoardChange(a, v)
         PROVE  Promise!Next
    <3>1. Promise!BoardChange(a, v)
      BY <2>0, <2>11 DEF BoardChange, Becomes, client, Promise!BoardChange
    <3>2. QED
      BY <3>1 DEF Promise!Next
  <2>12. CASE UNCHANGED vars
    BY <2>12 DEF vars, Promise!vars
  <2>13. QED
    BY <2>1, <2>2, <2>4, <2>6, <2>7, <2>8, <2>9, <2>10, <2>11, <2>12
       DEF Next, Client, Receive, Network
<1>3. QED
  BY <1>1, <1>2, TypeCorrect, PromiseInvariant, PTL DEF Spec, KeepsPromise, Promise!Spec
=============================================================================
