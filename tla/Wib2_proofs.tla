----------------------------- MODULE Wib2_proofs -----------------------------
(***************************************************************************)
(* Wib2 for any settings and any number of sockets: types, that a reply     *)
(* answers the request of its command, that settings are sent and reported  *)
(* only around a lock of the timing endpoint, and that a command reported   *)
(* successful has had its settings taken.                                   *)
(***************************************************************************)
EXTENDS Wib2, TLAPS

LEMMA MessageType == ASSUME NEW s \in Settings
                     PROVE  /\ Message(s) \in ConfigureWIB
                            /\ AsksFor(Message(s), s)
<1> USE SettingsAssumption
<1>1. s \in WIBSettings
  OBVIOUS
<1>2. \A i \in 1..4 : FembConfs(s)[i] \in FembConf
  BY <1>1 DEF FembConfs, WIBSettings
<1>3. \A i \in 1..4 : Populated(FembConfs(s)[i]) = FembConfs(s)[i]
  BY <1>2 DEF Populated, FembConf
<1>4. [i \in 1..4 |-> Populated(FembConfs(s)[i])] = FembConfs(s)
  <2>1. [i \in 1..4 |-> Populated(FembConfs(s)[i])] = [i \in 1..4 |-> FembConfs(s)[i]]
    BY <1>3
  <2> QED BY <2>1 DEF FembConfs
<1>5. FembConfs(s) \in Seq(FembConf)
  BY <1>1 DEF FembConfs, WIBSettings
<1>6. Message(s) = [wib |-> s.wib, fembs |-> FembConfs(s)]
  BY <1>4 DEF Message
<1>7. AsksFor(Message(s), s)
  BY <1>6 DEF AsksFor, AsksOne, FembConfs
<1> QED BY <1>1, <1>5, <1>6, <1>7 DEF ConfigureWIB, WIBSettings
-----------------------------------------------------------------------------
LEMMA QueryType == ASSUME NEW n \in 1..Sockets,
                          NEW k \in {"get_timing", "reset_timing", "unparsable"}
                   PROVE  Query(n, k) \in Messages
BY DEF Query, Messages

LEMMA ConfigureType == ASSUME NEW n \in 1..Sockets, NEW c \in ConfigureWIB
                       PROVE  Configure(n, c) \in Messages
BY DEF Configure, Messages

LEMMA TimingType == ASSUME NEW n \in 1..Sockets, NEW b \in BOOLEAN
                    PROVE  Timing(n, b) \in Messages
BY DEF Timing, Messages

LEMMA StatusType == ASSUME NEW n \in 1..Sockets, NEW b \in BOOLEAN
                    PROVE  Status(n, b) \in Messages
BY DEF Status, Messages

LEMMA MessageFields == ASSUME NEW m \in Messages
                       PROVE  /\ m.sock \in 1..Sockets
                              /\ m.kind = "configure" => m.conf \in ConfigureWIB
                              /\ m.kind = "timing" => m.locked \in BOOLEAN
                              /\ m.kind = "status" => m.success \in BOOLEAN
BY DEF Messages

\* What a step does to the wire.
LEMMA SendType == ASSUME TypeOK, NEW n \in Messages, NEW m,
                         wire' = (wire \ {m}) \cup {n} \/ wire' = wire \cup {n}
                  PROVE  wire' \subseteq Messages
BY DEF TypeOK

LEMMA TakeType == ASSUME TypeOK, NEW m, wire' \subseteq wire
                  PROVE  wire' \subseteq Messages
BY DEF TypeOK

LEMMA AnswerType == ASSUME TypeOK, NEW m \in wire, NEW n \in Messages, Answer(m, n)
                    PROVE  wire' \subseteq Messages
BY DEF TypeOK, Answer

LEMMA TypeStep == TypeOK /\ [Next]_vars => TypeOK'
<1> SUFFICES ASSUME TypeOK, [Next]_vars
             PROVE  TypeOK'
  OBVIOUS
<1> USE SocketsAssumption
<1>0. wib = "up" => socks \in 1..Sockets
  BY DEF TypeOK
<1>1. ASSUME NEW s \in Settings, Conf(s)
      PROVE  TypeOK'
  <2>1. CASE socks < Sockets /\ wib' = "up" /\ socks' = socks + 1 /\ Close
    <3>1. socks + 1 \in 1..Sockets /\ socks + 1 # 0
      BY <2>1 DEF TypeOK
    <3>2. /\ cmd' = "conf" /\ asked' = s /\ took' = {} /\ UNCHANGED <<locked, applied>>
          /\ lockSeen' = FALSE /\ disturbed' = FALSE
      BY <1>1 DEF Conf, Begin, server
    <3>3. /\ wib' = "up" /\ socks' = socks + 1 /\ pc' = "closing"
          /\ waiting' = FALSE /\ out' = "none" /\ UNCHANGED <<wire, queued>>
      BY <2>1 DEF Close, net
    <3>4. waiting' \in BOOLEAN /\ ~waiting' /\ lockSeen' \in BOOLEAN /\ disturbed' \in BOOLEAN
      BY <3>2, <3>3
    <3>5. socks' \in 0..Sockets /\ socks' # 0
      BY <3>1, <3>3
    <3> QED BY <3>2, <3>3, <3>4, <3>5 DEF TypeOK
  <2>2. CASE Ends("error") /\ UNCHANGED <<wib, socks, waiting, net>>
    BY <1>1, <2>2 DEF TypeOK, Conf, Begin, Ends, server, net
  <2> QED BY <1>1, <2>1, <2>2 DEF Conf
<1>2. ASSUME NEW s \in Settings, Settle(s)
      PROVE  TypeOK'
  <2>1. CASE wib = "up" /\ CanSend
    <3>1. Send(Configure(socks, Message(s)), "settings")
      BY <1>2, <2>1 DEF Settle
    <3>2. Configure(socks, Message(s)) \in Messages
      BY <1>0, <2>1, MessageType, ConfigureType
    <3>3. wire' \subseteq Messages
      BY <3>1, <3>2, SendType DEF Send
    <3>4. queued' = socks
      BY <3>1 DEF Send, Configure
    <3> QED BY <1>0, <1>2, <2>1, <3>1, <3>3, <3>4 DEF TypeOK, Settle, Begin, Send, server
  <2>2. CASE wib = "null"
    BY <1>2, <2>2 DEF TypeOK, Settle, Begin, Ends, server, net
  <2>3. CASE wib = "up" /\ ~CanSend
    BY <1>2, <2>3 DEF TypeOK, Settle, Begin, Ends, server, net
  <2> QED BY <2>1, <2>2, <2>3 DEF TypeOK
<1>3. CASE Scrap
  BY <1>3 DEF TypeOK, Scrap, Close, net, server, history
<1>4. ASSUME NEW m \in wire, NEW e \in {"ok", "error"}, Over(m, e),
             UNCHANGED <<wib, socks, cmd, asked, server, history>>
      PROVE  TypeOK'
  BY <1>4 DEF TypeOK, Over, Ends, server, history
<1>5. ASSUME NEW m \in wire, NEW n \in Messages, NEW at, Then(m, n, at),
             pc \notin {"idle", "closing"},
             at \in {"timing", "reset", "settings", "timing_after", "reset_after"},
             cmd = "conf", UNCHANGED <<wib, socks, cmd, asked, server, history>>
      PROVE  TypeOK'
  <2>1. wire' \subseteq Messages
    BY <1>5, SendType DEF Then
  <2>2. queued' \in 0..Sockets
    BY <1>5, MessageFields DEF Then
  <2> QED BY <1>5, <2>1, <2>2 DEF TypeOK, Then, server, history
<1>6. pc \notin {"idle", "closing"} => wib = "up"
  BY DEF TypeOK
<1>7. pc \notin {"idle", "closing", "settings"} => cmd = "conf"
  BY DEF TypeOK
<1>8. ASSUME NEW m \in wire, CheckOk(m), pc \notin {"idle", "closing", "settings"},
             UNCHANGED <<wib, socks, cmd, asked, server, history>>
      PROVE  TypeOK'
  <2>1. asked \in Settings
    BY DEF TypeOK
  <2>2. Configure(socks, Message(asked)) \in Messages
    BY <1>0, <1>6, <1>8, <2>1, MessageType, ConfigureType
  <2>3. CASE pc \in {"timing", "reset"}
    BY <1>5, <1>7, <1>8, <2>2, <2>3 DEF CheckOk
  <2>4. CASE pc \notin {"timing", "reset"}
    BY <1>4, <1>8, <2>4 DEF CheckOk
  <2> QED BY <2>3, <2>4
<1>9. \A k \in {"get_timing", "reset_timing", "unparsable"} :
        pc \notin {"idle", "closing"} => Query(socks, k) \in Messages
  BY <1>0, <1>6, QueryType
<1>10. ASSUME NEW m \in wire, TimingReply(m)
       PROVE  TypeOK'
  <2>1. CASE Locked(m)
    BY <1>8, <1>10, <2>1 DEF TimingReply
  <2>2. CASE ~Locked(m)
    <3>1. PICK at \in {"reset", "reset_after"} : Then(m, Query(socks, "reset_timing"), at)
      BY <1>10, <2>2 DEF TimingReply
    <3>2. pc \in {"timing", "timing_after"} /\ UNCHANGED <<wib, socks, cmd, asked, server, history>>
      BY <1>10 DEF TimingReply
    <3> QED BY <1>5, <1>7, <1>9, <3>1, <3>2
  <2> QED BY <2>1, <2>2
<1>11. ASSUME NEW m \in wire, ResetReply(m)
       PROVE  TypeOK'
  BY <1>4, <1>8, <1>11 DEF ResetReply
<1>12. ASSUME NEW m \in wire, SettingsReply(m)
       PROVE  TypeOK'
  <2>1. pc = "settings" /\ cmd \in {"conf", "settings"}
        /\ UNCHANGED <<wib, socks, cmd, asked, server, history>>
    BY <1>12 DEF SettingsReply, TypeOK
  <2>2. CASE Success(m) /\ cmd = "conf"
    BY <1>5, <1>9, <1>12, <2>1, <2>2 DEF SettingsReply
  <2>3. CASE Success(m) /\ cmd = "settings"
    BY <1>4, <1>12, <2>1, <2>3 DEF SettingsReply
  <2>4. CASE ~Success(m)
    BY <1>4, <1>12, <2>1, <2>4 DEF SettingsReply
  <2> QED BY <2>1, <2>2, <2>3, <2>4
<1>13. CASE Interrupted
  BY <1>13 DEF TypeOK, Interrupted, Ends, net, server, history
<1>14. CASE Crash
  <2>1. wire' \subseteq wire /\ queued' \in 0..Sockets
    BY <1>14 DEF Crash
  <2>2. /\ wib' = "null" /\ waiting' = FALSE /\ pc' = "idle" /\ out' = "crash"
        /\ UNCHANGED <<socks, cmd, asked, locked, applied, took, lockSeen, disturbed>>
    BY <1>14 DEF Crash, Ends, server, history
  <2>3. waiting' \in BOOLEAN
    BY <2>2
  <2> QED BY <2>1, <2>2, <2>3 DEF TypeOK
<1>15. ASSUME NEW m \in wire, Serve(m)
       PROVE  TypeOK'
  <2>1. m.sock \in 1..Sockets /\ (m.kind = "configure" => m.conf \in ConfigureWIB)
    BY MessageFields DEF TypeOK
  <2>2. CASE AnswerTiming(m)
    <3>1. Timing(m.sock, locked) \in Messages
      BY <2>1, TimingType DEF TypeOK
    <3>2. wire' \subseteq Messages
      BY <2>2, <3>1, AnswerType DEF AnswerTiming, Tells
    <3> QED BY <1>15, <2>2, <3>2 DEF TypeOK, Serve, AnswerTiming, Tells, client, server
  <2>3. CASE AnswerReset(m)
    <3>1. Timing(m.sock, locked') \in Messages
      BY <2>1, <2>3, TimingType DEF AnswerReset
    <3>2. wire' \subseteq Messages
      BY <2>3, <3>1, AnswerType DEF AnswerReset, Tells
    <3> QED BY <1>15, <2>3, <3>2 DEF TypeOK, Serve, AnswerReset, Tells, client
  <2>4. CASE AnswerConfigure(m)
    <3>1. wire' \subseteq Messages
      BY <2>1, <2>4, StatusType, AnswerType DEF AnswerConfigure
    <3> QED BY <1>15, <2>1, <2>4, <3>1 DEF TypeOK, Serve, AnswerConfigure, client
  <2>5. CASE Refuse(m)
    <3>1. wire' \subseteq Messages
      BY <2>1, <2>5, StatusType, AnswerType DEF Refuse
    <3>2. disturbed' \in BOOLEAN
      BY <2>5 DEF Refuse, TypeOK, Own
    <3> QED BY <1>15, <2>5, <3>1, <3>2 DEF TypeOK, Serve, Refuse, client
  <2>6. CASE NoReply(m)
    <3>1. wire' \subseteq Messages
      BY <2>1, <2>6, QueryType, AnswerType DEF NoReply
    <3> QED BY <1>15, <2>6, <3>1 DEF TypeOK, Serve, NoReply, client, server, history
  <2> QED BY <1>15, <2>2, <2>3, <2>4, <2>5, <2>6 DEF Serve
<1>16. CASE LockChanges \/ Disconnect \/ Restart \/ Leaves
  <2>1. wire' \subseteq wire /\ queued' \in {0, queued} /\ UNCHANGED client
    BY <1>16 DEF LockChanges, Disconnect, Restart, Leaves, Loses, net
  <2>2. /\ locked' \in BOOLEAN /\ lockSeen' = lockSeen /\ disturbed' \in BOOLEAN
        /\ took' = took /\ applied' \subseteq ConfigureWIB
    BY <1>16 DEF TypeOK, LockChanges, Disconnect, Restart, Leaves, server, history
  <2> QED BY <2>1, <2>2 DEF TypeOK, client
<1>17. CASE UNCHANGED vars
  BY <1>17 DEF TypeOK, vars, client, net, server, history
<1>18. CASE Closed
  <2>1. /\ pc = "closing" /\ UNCHANGED <<wib, socks, cmd, asked>>
        /\ UNCHANGED <<locked, applied, took, lockSeen, disturbed>>
    BY <1>18 DEF Closed, server, history
  <2>2. CASE cmd = "conf"
    <3>1. wib = "up" /\ socks \in 1..Sockets
      BY <1>0, <2>1, <2>2 DEF TypeOK
    <3>2. Query(socks, "get_timing") \in Messages /\ Query(socks, "get_timing").sock = socks
      BY <3>1, QueryType DEF Query
    <3>3. Send(Query(socks, "get_timing"), "timing")
      BY <1>18, <2>2 DEF Closed
    <3>4. wire' \subseteq Messages
      BY <3>2, <3>3, SendType DEF Send
    <3>5. queued' = socks /\ pc' = "timing" /\ waiting' = TRUE /\ out' = "none"
      BY <3>2, <3>3 DEF Send
    <3> QED BY <2>1, <2>2, <3>1, <3>4, <3>5 DEF TypeOK
  <2>3. CASE cmd # "conf"
    BY <1>18, <2>1, <2>3 DEF TypeOK, Closed, Ends, net
  <2> QED BY <2>2, <2>3
<1> QED BY <1>1, <1>2, <1>3, <1>10, <1>11, <1>12, <1>13, <1>14, <1>15, <1>16, <1>17, <1>18
        DEF Next, Command, Proceed, Board

LEMMA TypeInit == Init => TypeOK
<1> SUFFICES ASSUME Init PROVE TypeOK
  OBVIOUS
<1>1. waiting \in BOOLEAN /\ lockSeen \in BOOLEAN /\ disturbed \in BOOLEAN
  BY DEF Init
<1>2. socks \in 0..Sockets
  BY SocketsAssumption DEF Init
<1> QED BY <1>1, <1>2 DEF Init, TypeOK

\* TypeOK holds for any settings and any number of sockets.
THEOREM TypeCorrect == Spec => []TypeOK
BY TypeInit, TypeStep, PTL DEF Spec
-----------------------------------------------------------------------------
(* The inductive invariant.                                                *)

\* No socket has messages before it is made, nor while it has no request out.
WireInv == /\ \A m \in wire : m.sock <= socks
           /\ wib = "up" /\ ~waiting => \A m \in wire : m.sock # socks
           /\ OwnReply

\* A command that runs has not ended, and one that ended well received its reply.
OutInv == /\ pc # "idle" => out = "none"
          /\ out = "ok" => pc = "idle" /\ ~(wib = "up" /\ waiting)

\* The settings of the command are taken, and in force unless the server lost them.
Taken == took = {Message(asked)} /\ (~disturbed => applied = took)
TookInv == /\ pc \in {"timing", "reset"} \/ (pc = "closing" /\ cmd = "conf") => took = {}
           /\ pc = "settings" => \A m \in wire :
                m.sock = socks => /\ m.kind = "configure" => took = {}
                                  /\ Success(m) => Taken
           /\ pc \in {"timing_after", "reset_after"} \/ out = "ok" => Taken

\* A report of a lock that is on its way to the command has been noted.
LockInv == /\ pc \in {"timing", "reset", "timing_after", "reset_after"} =>
                \A m \in wire : m.sock = socks /\ Locked(m) => lockSeen
           /\ LockedAround

Inv == TypeOK /\ WireInv /\ OutInv /\ TookInv /\ LockInv

LEMMA Fields == ASSUME NEW n, NEW k, NEW c, NEW b
                PROVE  /\ Query(n, k).sock = n /\ Query(n, k).kind = k
                       /\ Configure(n, c).sock = n /\ Configure(n, c).kind = "configure"
                       /\ Configure(n, c).conf = c
                       /\ Timing(n, b).sock = n /\ Timing(n, b).kind = "timing"
                       /\ Timing(n, b).locked = b
                       /\ Status(n, b).sock = n /\ Status(n, b).kind = "status"
                       /\ Status(n, b).success = b
BY DEF Query, Configure, Timing, Status

\* What a step of the server does to the wire: the request is gone, an answer of the
\* same socket may have come.  The answer fits the request.
Fits(m, r) == /\ r.sock = m.sock
              /\ m.kind \in {"get_timing", "reset_timing"} => r.kind \in {"timing", "unparsable"}
              /\ m.kind = "configure" => r.kind \in {"status", "unparsable"}

LEMMA ServeWire ==
  ASSUME TypeOK, NEW m \in wire, Serve(m)
  PROVE  \E r : /\ Answer(m, r)
                /\ Fits(m, r)
                /\ Locked(r) /\ Own(m) => lockSeen'
                /\ Success(r) => AnswerConfigure(m)
<1> USE DEF Fits
<1>0. m.kind \in Requests
  BY DEF Serve
<1>1. CASE AnswerTiming(m)
  <2>1. Answer(m, Timing(m.sock, locked))
    BY <1>1 DEF AnswerTiming, Tells
  <2>2. Locked(Timing(m.sock, locked)) /\ Own(m) => lockSeen'
    BY <1>1, Fields DEF AnswerTiming, Tells, Locked
  <2> QED BY <1>1, <2>1, <2>2, Fields DEF AnswerTiming, Success
<1>2. CASE AnswerReset(m)
  <2>1. Answer(m, Timing(m.sock, locked'))
    BY <1>2 DEF AnswerReset, Tells
  <2>2. Locked(Timing(m.sock, locked')) /\ Own(m) => lockSeen'
    BY <1>2, Fields DEF AnswerReset, Tells, Locked
  <2> QED BY <1>2, <2>1, <2>2, Fields DEF AnswerReset, Success
<1>3. CASE AnswerConfigure(m)
  <2> DEFINE r == Status(m.sock, TRUE)
  <2>1. r.sock = m.sock /\ r.kind = "status"
    BY DEF Status
  <2>2. m.kind = "configure" /\ Answer(m, r)
    BY <1>3 DEF AnswerConfigure
  <2> HIDE DEF r
  <2> QED BY <1>3, <2>1, <2>2 DEF Locked
<1>4. CASE Refuse(m)
  <2> DEFINE r == Status(m.sock, FALSE)
  <2>1. r.sock = m.sock /\ r.kind = "status" /\ r.success = FALSE
    BY DEF Status
  <2>2. m.kind = "configure" /\ Answer(m, r)
    BY <1>4 DEF Refuse
  <2> HIDE DEF r
  <2> QED BY <2>1, <2>2 DEF Locked, Success
<1>5. CASE NoReply(m)
  BY <1>0, <1>5, Fields DEF NoReply, Locked, Success, Requests
<1> QED BY <1>1, <1>2, <1>3, <1>4, <1>5 DEF Serve

\* The command has sent a request and waits for the reply.
Running == pc \notin {"idle", "closing"}

\* The only message of the command gives way to n, or to none.
LEMMA OnlyMine ==
  ASSUME Inv, Running, NEW m \in wire, m.sock = socks
  PROVE  \A x \in wire \ {m} : x.sock # socks /\ x.sock <= socks
BY DEF Running, Inv, WireInv, OwnReply

LEMMA ThenWire ==
  ASSUME Inv, Running, NEW m \in wire, m.sock = socks, NEW n \in Messages, n.sock = socks,
         NEW at, Then(m, n, at), UNCHANGED <<wib, socks, asked>>,
         at \in {"settings", "timing_after", "reset", "reset_after"},
         at = "settings" => n.kind = "configure" /\ n.conf = Message(asked),
         at = "timing_after" => n.kind = "get_timing",
         at \in {"reset", "reset_after"} => n.kind = "reset_timing"
  PROVE  /\ WireInv'
         /\ \A x \in wire' : x.sock = socks' => x = n
<1>1. /\ pc' = at /\ wire' = (wire \ {m}) \cup {n} /\ waiting' = waiting
      /\ wib' = wib /\ socks' = socks /\ asked' = asked
  BY DEF Then
<1>2. waiting
  BY DEF Running, Inv, TypeOK
<1>3. \A x \in wire' : x.sock <= socks
  BY <1>1, OnlyMine DEF Inv, TypeOK
<1>4. \A x \in wire' : x.sock = socks => x = n
  BY <1>1, OnlyMine
<1>5. n.kind \in Expected'
  BY <1>1 DEF Expected
<1>6. n.kind = "configure" => n.conf = Message(asked)'
  BY <1>1 DEF Message
<1>7. OwnReply'
  BY <1>1, <1>4, <1>5, <1>6 DEF OwnReply
<1> QED BY <1>1, <1>2, <1>3, <1>4, <1>7 DEF WireInv

LEMMA OverWire ==
  ASSUME Inv, Running, NEW m \in wire, m.sock = socks,
         NEW e, Over(m, e), UNCHANGED <<wib, socks>>
  PROVE  WireInv' /\ waiting' = FALSE /\ pc' = "idle" /\ out' = e
<1>1. pc' = "idle" /\ wire' = wire \ {m} /\ waiting' = FALSE /\ wib' = wib /\ socks' = socks
      /\ out' = e
  BY DEF Over, Ends
<1> QED BY <1>1, OnlyMine DEF WireInv, OwnReply

LEMMA ServeKeepsWire ==
  ASSUME Inv, NEW m \in wire, Serve(m)
  PROVE  WireInv'
<1>1. PICK r : Answer(m, r) /\ Fits(m, r)
  BY ServeWire DEF Inv
<1>2. UNCHANGED <<wib, socks, waiting, pc, cmd, asked, out>>
  BY DEF Serve, client
<1>3. wire' \subseteq (wire \ {m}) \cup {r}
  BY <1>1 DEF Answer
<1>4. m.kind \in Requests
  BY DEF Serve
<1>5. \A x \in wire' : x.sock <= socks
  BY <1>1, <1>3 DEF Inv, WireInv, Fits
<1>6. wib = "up" /\ ~waiting => \A x \in wire' : x.sock # socks
  BY <1>1, <1>3 DEF Inv, WireInv, Fits
<1>7. ASSUME Running, NEW x \in wire', x.sock = socks
      PROVE  /\ x.kind \in Expected
             /\ x.kind = "configure" => x.conf = Message(asked)
             /\ \A n \in wire' : n.sock = socks => n = x
  <2>1. CASE m.sock = socks
    <3>1. \A y \in wire' : y.sock = socks => y = r
      BY <1>3, <1>7, <2>1, OnlyMine
    <3>2. m.kind \in Expected
      BY <1>7, <2>1 DEF Running, Inv, WireInv, OwnReply
    <3>3. x.kind \in Expected /\ x.kind # "configure"
      BY <1>1, <1>4, <1>7, <3>1, <3>2 DEF Fits, Expected, Requests
    <3> QED BY <1>7, <3>1, <3>3
  <2>2. CASE m.sock # socks
    <3>1. \A y \in wire' : y.sock = socks => y \in wire
      BY <1>1, <1>3, <2>2 DEF Fits
    <3> QED BY <1>7, <3>1 DEF Running, Inv, WireInv, OwnReply
  <2> QED BY <2>1, <2>2
<1>8. OwnReply'
  BY <1>2, <1>7 DEF Running, OwnReply, Expected, Message
<1> QED BY <1>2, <1>5, <1>6, <1>8 DEF WireInv
-----------------------------------------------------------------------------
(* Each step keeps the invariant.                                          *)

LEMMA ConfInv == ASSUME Inv, NEW s \in Settings, Conf(s), TypeOK'
                 PROVE  Inv'
<1> USE DEF Inv
<1>0. pc = "idle" /\ cmd' = "conf" /\ took' = {} /\ lockSeen' = FALSE
  BY DEF Conf, Begin
<1>1. CASE Ends("error") /\ UNCHANGED <<wib, socks, waiting, net>>
  <2>1. pc' = "idle" /\ out' = "error" /\ wire' = wire
    BY <1>1 DEF Ends, net
  <2> QED BY <1>0, <1>1, <2>1 DEF WireInv, OwnReply, OutInv, TookInv, LockInv, LockedAround
<1>2. CASE socks < Sockets /\ wib' = "up" /\ socks' = socks + 1 /\ Close
  <2>1. pc' = "closing" /\ wire' = wire /\ out' = "none"
    BY <1>2 DEF Close, net
  <2>2. \A x \in wire : x.sock <= socks' /\ x.sock # socks'
    BY <1>2, MessageFields, SocketsAssumption DEF WireInv, TypeOK
  <2>3. WireInv'
    BY <2>1, <2>2 DEF WireInv, OwnReply
  <2> QED BY <1>0, <2>1, <2>3 DEF OutInv, TookInv, LockInv, LockedAround
<1> QED BY <1>1, <1>2 DEF Conf

\* The old socket is closed, and conf sends its first request.
LEMMA ClosedInv == ASSUME Inv, Closed, TypeOK'
                   PROVE  Inv'
<1> USE DEF Inv
<1>0. /\ pc = "closing" /\ UNCHANGED <<wib, socks, cmd, asked, took, lockSeen>>
      /\ cmd = "conf" => wib = "up" /\ ~waiting
  BY DEF Closed, TypeOK, history
<1>1. CASE cmd = "conf"
  <2> DEFINE q == Query(socks, "get_timing")
  <2>1. q.sock = socks /\ q.kind = "get_timing"
    BY DEF Query
  <2>2. pc' = "timing" /\ wire' = wire \cup {q} /\ waiting' = TRUE /\ out' = "none"
    BY <1>1 DEF Closed, Send
  <2> HIDE DEF q
  <2>3. \A x \in wire' : x.sock <= socks'
    BY <1>0, <2>1, <2>2 DEF WireInv, TypeOK
  <2>4. \A x \in wire' : x.sock = socks' => x = q
    BY <1>0, <1>1, <2>1, <2>2 DEF WireInv
  <2>5. WireInv'
    BY <2>1, <2>2, <2>3, <2>4 DEF WireInv, OwnReply, Expected
  <2>6. OutInv' /\ TookInv'
    BY <1>0, <1>1, <2>2 DEF OutInv, TookInv
  <2>7. LockInv'
    BY <2>1, <2>2, <2>4 DEF LockInv, LockedAround, Locked
  <2> QED BY <2>5, <2>6, <2>7
<1>2. CASE cmd # "conf"
  <2>1. pc' = "idle" /\ out' = "scrapped" /\ wire' = wire /\ waiting' = waiting
    BY <1>2 DEF Closed, Ends, net
  <2> QED BY <1>0, <2>1 DEF WireInv, OwnReply, OutInv, TookInv, LockInv, LockedAround
<1> QED BY <1>1, <1>2

LEMMA SettleInv == ASSUME Inv, NEW s \in Settings, Settle(s), TypeOK'
                   PROVE  Inv'
<1> USE DEF Inv
<1>0. /\ pc = "idle" /\ cmd' = "settings" /\ took' = {} /\ lockSeen' = FALSE
      /\ wib' = wib /\ socks' = socks /\ asked' = s
  BY DEF Settle, Begin
<1>1. CASE pc' = "idle" /\ out' \in {"crash", "error"} /\ UNCHANGED <<waiting, net>>
  BY <1>0, <1>1 DEF WireInv, OwnReply, OutInv, TookInv, LockInv, LockedAround, net
<1>2. CASE wib = "up" /\ CanSend
  <2> DEFINE q == Configure(socks, Message(s))
  <2>1. q.sock = socks /\ q.kind = "configure" /\ q.conf = Message(s)
    BY DEF Configure
  <2>2. pc' = "settings" /\ wire' = wire \cup {q} /\ waiting' = TRUE /\ out' = "none"
    BY <1>2 DEF Settle, Send
  <2> HIDE DEF q
  <2>3. \A x \in wire : x.sock # socks
    BY <1>2 DEF WireInv, CanSend
  <2>4. \A x \in wire' : x.sock <= socks'
    BY <1>0, <2>1, <2>2 DEF WireInv, TypeOK
  <2>5. \A x \in wire' : x.sock = socks => x = q
    BY <2>1, <2>2, <2>3
  <2>6. q.conf = Message(asked)'
    BY <1>0, <2>1 DEF Message
  <2>7. q.kind \in Expected'
    BY <2>1, <2>2 DEF Expected
  <2>8. WireInv'
    BY <1>0, <2>2, <2>4, <2>5, <2>6, <2>7 DEF WireInv, OwnReply
  <2>9. OutInv' /\ TookInv'
    BY <1>0, <2>1, <2>2, <2>5 DEF OutInv, TookInv, Success
  <2>10. LockInv'
    BY <1>0, <2>2 DEF LockInv, LockedAround
  <2> QED BY <2>8, <2>9, <2>10
<1> QED BY <1>1, <1>2 DEF Settle, Ends, TypeOK

\* A command that is over: what is left to show is that it may say so.
LEMMA OverInv ==
  ASSUME Inv, Running, NEW m \in wire, m.sock = socks, NEW e \in {"ok", "error"}, Over(m, e),
         UNCHANGED <<wib, socks, cmd, asked, server, history>>, TypeOK',
         e = "ok" => Taken /\ (cmd = "conf" => lockSeen)
  PROVE  Inv'
<1>1. WireInv' /\ waiting' = FALSE /\ pc' = "idle" /\ out' = e
  BY OverWire
<1>2. UNCHANGED <<locked, applied, took, lockSeen, disturbed, asked, cmd>>
  BY DEF server, history
<1>3. OutInv'
  BY <1>1 DEF OutInv
<1>4. TookInv' /\ LockInv'
  BY <1>1, <1>2 DEF TookInv, LockInv, LockedAround, Taken, Message
<1> QED BY <1>1, <1>3, <1>4 DEF Inv

LEMMA CheckOkInv ==
  ASSUME Inv, pc \in {"timing", "reset", "timing_after", "reset_after"}, cmd = "conf",
         NEW m \in wire, m.sock = socks, Locked(m), CheckOk(m),
         UNCHANGED <<wib, socks, cmd, asked, server, history>>, TypeOK'
  PROVE  Inv'
<1>0. lockSeen
  BY DEF Inv, LockInv
<1>1. CASE pc \in {"timing_after", "reset_after"}
  BY <1>0, <1>1, OverInv DEF CheckOk, Inv, TookInv, Running
<1>2. CASE pc \in {"timing", "reset"}
  <2> DEFINE q == Configure(socks, Message(asked))
  <2>1. q.sock = socks /\ q.kind = "configure" /\ q.conf = Message(asked)
    BY DEF Configure
  <2>2. q \in Messages
    BY MessageType, ConfigureType DEF Inv, TypeOK
  <2>3. Then(m, q, "settings")
    BY <1>2 DEF CheckOk
  <2> HIDE DEF q
  <2>4. WireInv' /\ \A x \in wire' : x.sock = socks' => x = q
    BY <1>2, <2>1, <2>2, <2>3, ThenWire DEF Running
  <2>5. pc' = "settings" /\ out' = out /\ took = {} /\ out = "none"
    BY <1>2, <2>3 DEF Then, Inv, TookInv, OutInv
  <2>6. UNCHANGED <<took, lockSeen, disturbed, cmd>>
    BY DEF history
  <2>7. OutInv' /\ LockInv'
    BY <1>0, <2>5, <2>6 DEF OutInv, LockInv, LockedAround
  <2>8. TookInv'
    BY <2>1, <2>4, <2>5, <2>6 DEF TookInv, Success
  <2> QED BY <2>4, <2>7, <2>8 DEF Inv
<1> QED BY <1>1, <1>2

\* The next question about the timing is sent.
LEMMA AskInv ==
  ASSUME Inv, Running, cmd = "conf", NEW m \in wire, m.sock = socks,
         NEW k \in {"get_timing", "reset_timing"},
         NEW at \in {"timing_after", "reset", "reset_after"}, Then(m, Query(socks, k), at),
         UNCHANGED <<wib, socks, cmd, asked, server, history>>, TypeOK',
         k = "get_timing" <=> at = "timing_after",
         at = "reset" => took = {}, at # "reset" => Taken
  PROVE  Inv'
<1> DEFINE q == Query(socks, k)
<1>1. q.sock = socks /\ q.kind = k
  BY DEF Query
<1>2. q \in Messages
  <2>1. socks \in 1..Sockets
    BY SocketsAssumption DEF Inv, TypeOK, Running
  <2> QED BY <2>1, QueryType
<1>3. Then(m, q, at)
  OBVIOUS
<1> HIDE DEF q
<1>4. WireInv' /\ \A x \in wire' : x.sock = socks' => x = q
  BY <1>1, <1>2, <1>3, ThenWire
<1>5. pc' = at /\ out' = out /\ out = "none"
  BY <1>3 DEF Then, Inv, OutInv, Running
<1>6. UNCHANGED <<took, lockSeen, disturbed, cmd, applied, asked>>
  BY DEF history, server
<1>7. OutInv'
  BY <1>5 DEF OutInv
<1>8. LockInv'
  BY <1>1, <1>4, <1>5, <1>6 DEF LockInv, LockedAround, Locked
<1>9. TookInv'
  BY <1>5, <1>6 DEF TookInv, Taken, Message
<1> QED BY <1>4, <1>7, <1>8, <1>9 DEF Inv

LEMMA ReplyInv == ASSUME Inv, Proceed, ~Closed, TypeOK'
                  PROVE  Inv'
<1> USE DEF Inv
<1>1. PICK m \in wire : TimingReply(m) \/ ResetReply(m) \/ SettingsReply(m)
  BY DEF Proceed
<1>2. /\ Running /\ m.sock = socks
      /\ UNCHANGED <<wib, socks, cmd, asked, server, history>>
      /\ pc # "settings" => cmd = "conf"
  BY <1>1 DEF TimingReply, ResetReply, SettingsReply, Received, TypeOK, Running
<1>3. CASE TimingReply(m)
  <2>1. pc \in {"timing", "timing_after"} /\ cmd = "conf"
    BY <1>2, <1>3 DEF TimingReply
  <2>2. CASE Locked(m)
    BY <1>2, <1>3, <2>1, <2>2, CheckOkInv DEF TimingReply
  <2>3. CASE ~Locked(m) /\ pc = "timing"
    <3>1. Then(m, Query(socks, "reset_timing"), "reset")
      BY <1>3, <2>3 DEF TimingReply
    <3>2. took = {}
      BY <2>3 DEF TookInv
    <3> QED BY <1>2, <2>1, <3>1, <3>2, AskInv
  <2>4. CASE ~Locked(m) /\ pc = "timing_after"
    <3>1. Then(m, Query(socks, "reset_timing"), "reset_after")
      BY <1>3, <2>4 DEF TimingReply
    <3>2. Taken
      BY <2>4 DEF TookInv
    <3> QED BY <1>2, <2>1, <3>1, <3>2, AskInv
  <2> QED BY <2>1, <2>2, <2>3, <2>4
<1>4. CASE ResetReply(m)
  <2>1. pc \in {"reset", "reset_after"} /\ cmd = "conf"
    BY <1>2, <1>4 DEF ResetReply
  <2>2. CASE Locked(m)
    BY <1>2, <1>4, <2>1, <2>2, CheckOkInv DEF ResetReply
  <2>3. CASE ~Locked(m)
    BY <1>2, <1>4, <2>3, OverInv DEF ResetReply
  <2> QED BY <2>2, <2>3
<1>5. CASE SettingsReply(m)
  <2>1. pc = "settings" /\ cmd \in {"conf", "settings"}
    BY <1>5 DEF SettingsReply, TypeOK
  <2>2. CASE ~Success(m)
    <3>1. Over(m, "error")
      BY <1>5, <2>2 DEF SettingsReply
    <3> QED BY <1>2, <3>1, OverInv
  <2>3. CASE Success(m)
    <3>1. Taken
      BY <1>2, <2>1, <2>3 DEF TookInv
    <3>2. CASE cmd = "settings"
      <4>1. Over(m, "ok")
        BY <1>5, <2>3, <3>2 DEF SettingsReply
      <4> QED BY <1>2, <3>1, <3>2, <4>1, OverInv
    <3>3. CASE cmd = "conf"
      <4>1. Then(m, Query(socks, "get_timing"), "timing_after")
        BY <1>5, <2>3, <3>3 DEF SettingsReply
      <4> QED BY <1>2, <3>1, <3>3, <4>1, AskInv
    <3> QED BY <2>1, <3>2, <3>3
  <2> QED BY <2>2, <2>3
<1> QED BY <1>1, <1>3, <1>4, <1>5

LEMMA ServeInv == ASSUME Inv, NEW m \in wire, Serve(m), TypeOK'
                  PROVE  Inv'
<1>1. WireInv'
  BY ServeKeepsWire
<1>2. UNCHANGED <<wib, socks, waiting, pc, cmd, asked, out>>
  BY DEF Serve, client
<1>3. OutInv'
  BY <1>2 DEF Inv, OutInv
<1>4. PICK r : Answer(m, r) /\ Fits(m, r) /\ (Locked(r) /\ Own(m) => lockSeen')
                /\ (Success(r) => AnswerConfigure(m))
  BY ServeWire DEF Inv
<1>5. wire' \subseteq (wire \ {m}) \cup {r} /\ (r \in wire' => r \in wire \/ Own(m))
  BY <1>4 DEF Answer
<1>6. Own(m) => m.sock = socks /\ wib = "up" /\ waiting
  BY DEF Own
<1>7. /\ Own(m) => pc # "closing"
      /\ Own(m) /\ pc # "idle" => \A x \in wire : x.sock = socks => x = m
  BY <1>6 DEF Inv, TypeOK, WireInv, OwnReply
<1>8. CASE m.kind = "configure" /\ Own(m)
  <2>1. pc # "idle" => pc = "settings" /\ m.conf = Message(asked)
    BY <1>6, <1>7, <1>8 DEF Inv, TypeOK, WireInv, OwnReply, Expected
  <2>2. out # "ok"
    BY <1>6, <1>8 DEF Inv, OutInv
  <2>3. TookInv'
    <3>1. CASE pc = "settings"
      <4>1. \A x \in wire' : x.sock = socks => x = r
        BY <1>5, <1>7, <1>8, <3>1
      <4>2. r.kind # "configure"
        BY <1>4, <1>8 DEF Fits
      <4>3. AnswerConfigure(m) => Taken'
        BY <1>2, <1>8, <2>1, <3>1 DEF AnswerConfigure, Taken, Message
      <4> QED BY <1>2, <1>4, <2>2, <3>1, <4>1, <4>2, <4>3 DEF TookInv
    <3>2. CASE pc = "idle"
      BY <1>2, <2>2, <3>2 DEF TookInv
    <3> QED BY <2>1, <3>1, <3>2
  <2>4. LockInv'
    <3>1. CASE pc = "settings"
      <4>1. AnswerConfigure(m) => took' # {}
        BY <1>8 DEF AnswerConfigure
      <4>2. ~AnswerConfigure(m) => UNCHANGED <<took, lockSeen>>
        BY <1>8 DEF Serve, AnswerTiming, AnswerReset, Refuse, NoReply, history
      <4> QED BY <1>2, <2>2, <3>1, <4>1, <4>2 DEF Inv, LockInv, LockedAround
    <3>2. CASE pc = "idle"
      BY <1>2, <2>2, <3>2 DEF LockInv, LockedAround
    <3> QED BY <2>1, <3>1, <3>2
  <2> QED BY <1>1, <1>3, <2>3, <2>4 DEF Inv
<1>9. CASE ~(m.kind = "configure" /\ Own(m))
  <2>1. took' = took
    BY <1>9 DEF Serve, AnswerTiming, AnswerReset, AnswerConfigure, Refuse, NoReply, Tells, history
  <2>2. ~disturbed' => ~disturbed /\ applied' = applied
    BY <1>9 DEF Serve, AnswerTiming, AnswerReset, AnswerConfigure, Refuse, NoReply, Tells,
                history, server, Inv, TypeOK
  <2>3. lockSeen => lockSeen'
    BY <1>9 DEF Serve, AnswerTiming, AnswerReset, AnswerConfigure, Refuse, NoReply, Tells,
                history, Inv, TypeOK
  <2>4. Taken => Taken'
    BY <1>2, <2>1, <2>2 DEF Taken, Message
  <2>5. \A x \in wire' : x.sock = socks => x \in wire \/ (x = r /\ Own(m))
    BY <1>5
  <2>6. r.kind # "configure" \/ ~Own(m)
    BY <1>4, <1>9 DEF Fits, Serve, Requests
  <2>7. ~(Own(m) /\ Success(r))
    BY <1>4, <1>9 DEF AnswerConfigure
  <2>8. TookInv'
    BY <1>2, <2>1, <2>4, <2>5, <2>6, <2>7 DEF Inv, TookInv, Success
  <2>9. LockInv'
    BY <1>2, <1>4, <2>1, <2>3, <2>5 DEF Inv, LockInv, LockedAround, Locked
  <2> QED BY <1>1, <1>3, <2>8, <2>9 DEF Inv
<1> QED BY <1>8, <1>9

LEMMA InvStep == Inv /\ [Next]_vars => Inv'
<1> SUFFICES ASSUME Inv, [Next]_vars
             PROVE  Inv'
  OBVIOUS
<1>1. TypeOK'
  BY TypeStep DEF Inv
<1>2. ASSUME wire' \subseteq wire, UNCHANGED client, UNCHANGED took, UNCHANGED lockSeen,
             ~disturbed' => ~disturbed /\ applied' = applied
      PROVE  Inv'
  <2>1. UNCHANGED <<wib, socks, waiting, pc, cmd, asked, out>>
    BY <1>2 DEF client
  <2>2. Taken => Taken'
    BY <1>2, <2>1 DEF Taken, Message
  <2>3. WireInv' /\ OutInv'
    BY <1>2, <2>1 DEF Inv, WireInv, OwnReply, OutInv, Expected, Message
  <2>4. TookInv'
    BY <1>2, <2>1, <2>2 DEF Inv, TookInv, Success
  <2>5. LockInv'
    BY <1>2, <2>1 DEF Inv, LockInv, LockedAround, Locked
  <2> QED BY <1>1, <2>3, <2>4, <2>5 DEF Inv
<1>3. CASE LockChanges
  BY <1>2, <1>3 DEF LockChanges, net, history, Inv, TypeOK
<1>4. CASE Disconnect
  BY <1>2, <1>4 DEF Disconnect, Loses, history, server, Inv, TypeOK
<1>5. CASE Restart
  BY <1>2, <1>5 DEF Restart, Loses
<1>6. CASE UNCHANGED vars \/ Leaves
  BY <1>2, <1>6 DEF vars, Leaves, net, history, server, Inv, TypeOK
<1>7. ASSUME pc' \in {"idle", "closing"}, out' \notin {"none", "ok"} \/ pc' = "closing",
             pc' = "closing" => out' = "none" /\ cmd' = "scrap",
             wire' \subseteq wire, socks' = socks,
             (wib' = wib /\ waiting' = waiting) \/ wib' = "null"
      PROVE  Inv'
  <2>1. wib = "up" /\ ~waiting => \A m \in wire : m.sock # socks
    BY DEF Inv, WireInv
  <2>2. WireInv'
    BY <1>7, <2>1 DEF Inv, WireInv, OwnReply
  <2>3. OutInv' /\ TookInv' /\ LockInv'
    BY <1>7 DEF OutInv, TookInv, LockInv, LockedAround
  <2> QED BY <1>1, <2>2, <2>3 DEF Inv
<1>8. CASE Scrap
  BY <1>7, <1>8 DEF Scrap, Close, net
<1>9. CASE Interrupted
  BY <1>7, <1>9 DEF Interrupted, Ends, net
<1>10. CASE Crash
  BY <1>7, <1>10 DEF Crash, Ends
<1> QED BY <1>1, <1>3, <1>4, <1>5, <1>6, <1>8, <1>9, <1>10, ConfInv, SettleInv, ClosedInv,
           ReplyInv, ServeInv DEF Next, Command, Board

LEMMA InvInductive == Spec => []Inv
<1>1. Init => Inv
  <2> SUFFICES ASSUME Init PROVE Inv
    OBVIOUS
  <2>1. wire = {} /\ pc = "idle" /\ out = "none" /\ wib = "null"
    BY DEF Init
  <2> QED BY <2>1, TypeInit DEF Inv, WireInv, OwnReply, OutInv, TookInv, LockInv, LockedAround
<1> QED BY <1>1, InvStep, PTL DEF Spec

\* A command never takes a message for its reply that answers another request, whatever
\* is interrupted, late or lost.
THEOREM RepliesAreOwn == Spec => []OwnReply
BY InvInductive, PTL DEF Inv, WireInv

\* Settings leave, and conf succeeds, only around a lock of the timing endpoint.
THEOREM LocksAround == Spec => []LockedAround
BY InvInductive, PTL DEF Inv, LockInv

\* A command that reports success has had its own settings taken, FEMB by FEMB.
THEOREM SettingsAreTaken == Spec => []SettingsTaken
<1>1. Inv => SettingsTaken
  <2> SUFFICES ASSUME Inv, pc = "idle", out = "ok"
               PROVE  /\ \E c \in took : AsksFor(c, asked)
                      /\ ~disturbed => applied = took
    BY DEF SettingsTaken
  <2>1. took = {Message(asked)} /\ (~disturbed => applied = took)
    BY DEF Inv, TookInv, Taken
  <2>2. AsksFor(Message(asked), asked)
    BY MessageType DEF Inv, TypeOK
  <2> QED BY <2>1, <2>2
<1> QED BY <1>1, InvInductive, PTL
=============================================================================
