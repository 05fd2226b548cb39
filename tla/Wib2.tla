-------------------------------- MODULE Wib2 --------------------------------
(***************************************************************************)
(* plugins/WIBConfigurator.cpp, which configures a second generation board  *)
(* by requests to the server on it: conf, settings and scrap, the check of  *)
(* the timing endpoint, and send_command of wibmod/WIBCommon.hpp, which     *)
(* sends a request over a ZMQ REQ socket and waits for the reply without a  *)
(* timeout.  The socket refuses a second request before the reply to the    *)
(* first.  conf replaces it and scrap drops it; both wait until a request   *)
(* that has not left the application yet does so.  start and stop only log. *)
(*                                                                         *)
(* The server is not in this repository.  It may answer a request, refuse   *)
(* it, or answer with what the code cannot parse; it may restart and lose   *)
(* messages; the endpoint gains and loses its lock by itself.               *)
(***************************************************************************)
EXTENDS Naturals, Sequences

CONSTANTS WibValue, FembValue,  \* values of the fields of settings
          Settings,             \* the settings commands may carry
          Sockets               \* bound on the sockets conf makes

\* gain_match apart from the other settings of the channels: see GainMatchAsAsked.
FembConf   == [enabled : BOOLEAN, channel : FembValue, strobe : FembValue,
               gain_match : BOOLEAN]
WIBSettings == [wib : WibValue, femb0 : FembConf, femb1 : FembConf,
                femb2 : FembConf, femb3 : FembConf]
ConfigureWIB == [wib : WibValue, fembs : Seq(FembConf)]

ASSUME SettingsAssumption == Settings \subseteq WIBSettings
ASSUME SocketsAssumption  == Sockets \in Nat

VARIABLES wib,      \* the unique_ptr of the module: "null" or "up"
          socks,    \* the sockets made so far; the last one is that of wib
          waiting,  \* it has sent a request and not yet received the reply
          pc,       \* the reply the command waits for, "idle" between commands
          cmd,      \* the command that runs or ran last
          asked,    \* its settings
          wire,     \* the requests and replies on their way
          queued,   \* the socket whose request has not left the application, or 0
          locked,   \* the timing endpoint is in state 8
          applied,  \* the settings the board is programmed with, {} if none or half
          out,      \* how the last command ended
          took,     \* history: the settings the server took from the command
          lockSeen, \* history: it has told the command of a lock since, or before
          disturbed \* history: it lost or replaced settings by itself since

client  == <<wib, socks, waiting, pc, cmd, asked, out>>
server  == <<locked, applied>>
history == <<took, lockSeen, disturbed>>
net     == <<wire, queued>>
vars    == <<client, net, server, history>>

Init == /\ wib = "null"
        /\ socks = 0
        /\ waiting = FALSE
        /\ pc = "idle"
        /\ cmd = "none"
        /\ asked \in Settings
        /\ wire = {}
        /\ queued = 0
        /\ locked \in BOOLEAN
        /\ applied = {}
        /\ out = "none"
        /\ took = {}
        /\ lockSeen = FALSE
        /\ disturbed = FALSE
-----------------------------------------------------------------------------
(* Messages                                                                *)

Query(n, k)     == [sock |-> n, kind |-> k]
Configure(n, c) == [sock |-> n, kind |-> "configure", conf |-> c]
Timing(n, b)    == [sock |-> n, kind |-> "timing", locked |-> b]
Status(n, b)    == [sock |-> n, kind |-> "status", success |-> b]
Requests == {"get_timing", "reset_timing", "configure"}
Replies  == {"timing", "status", "unparsable"}

\* What ParseFromString makes of a reply: an unparsable one leaves the fields at
\* their defaults, endpoint status 0 and no success.
AnyTiming(m) == m.kind = "timing"
Locked(m)  == m.kind = "timing" /\ m.locked
Success(m) == m.kind = "status" /\ m.success

\* The fields of one FEMB, and the FEMBs in the order of add_fembs.
Populated(f) == [enabled |-> f.enabled, channel |-> f.channel, strobe |-> f.strobe,
                 gain_match |-> f.gain_match]
FembsTwice(s) == <<s.femb0, s.femb1, s.femb2, s.femb2>>
FembConfs(s) == <<s.femb0, s.femb1, s.femb2, s.femb3>>
Message(s)   == [wib |-> s.wib, fembs |-> [i \in 1..4 |-> Populated(FembConfs(s)[i])]]
-----------------------------------------------------------------------------
(* The plugin                                                              *)

Ends(e) == pc' = "idle" /\ out' = e

\* socket.send: a socket that waits for a reply throws.
AlwaysSend == TRUE
CanSend    == ~waiting
Send(m, at) == /\ pc' = at
               /\ wire' = wire \cup {m}
               /\ queued' = m.sock
               /\ waiting' = TRUE
               /\ out' = "none"

Begin(c, s) == /\ pc = "idle"
               /\ cmd' = c
               /\ asked' = s
               /\ took' = {}
               /\ lockSeen' = FALSE
               /\ disturbed' = FALSE

\* A socket goes, with whatever it waits for.  Its context ends only when its request
\* has left, however long that takes (ZMQ_LINGER is not set), and no signal ends this.
Close == /\ pc' = "closing"
         /\ waiting' = FALSE
         /\ out' = "none"
         /\ UNCHANGED net

\* A new socket is made and takes the place of the old one.  An address that cannot
\* be used leaves the old one.
Conf(s) == /\ Begin("conf", s)
           /\ \/ /\ socks < Sockets
                 /\ wib' = "up"
                 /\ socks' = socks + 1
                 /\ Close
              \/ Ends("error") /\ UNCHANGED <<wib, socks, waiting, net>>
           /\ UNCHANGED server

\* Without a WIB, the null pointer is used.
Settle(s) == /\ Begin("settings", s)
             /\ CASE wib = "null" -> Ends("crash") /\ UNCHANGED <<waiting, net>>
                  [] wib = "up" /\ CanSend  -> Send(Configure(socks, Message(s)), "settings")
                  [] wib = "up" /\ ~CanSend -> Ends("error") /\ UNCHANGED <<waiting, net>>
             /\ UNCHANGED <<wib, socks, server>>

Scrap == /\ pc = "idle"
         /\ cmd' = "scrap"
         /\ wib' = "null"
         /\ Close
         /\ UNCHANGED <<socks, asked, server, history>>

\* The old socket is closed: conf goes on to check the timing.
Closed == /\ pc = "closing"
          /\ queued = 0
          /\ IF cmd = "conf" THEN Send(Query(socks, "get_timing"), "timing")
                             ELSE Ends("scrapped") /\ UNCHANGED <<waiting, net>>
          /\ UNCHANGED <<wib, socks, cmd, asked, server, history>>

\* The reply the command waits for is received, the socket may be used again.
Received(m) == /\ m \in wire
               /\ m.sock = socks
               /\ m.kind \in Replies

\* The next request is sent, or the command is over.
SendThenFree(m, next, at) == /\ pc' = at
                             /\ wire' = (wire \ {m}) \cup {next}
                             /\ queued' = next.sock
                             /\ waiting' = FALSE
                             /\ UNCHANGED out
Then(m, next, at) == /\ pc' = at
                     /\ wire' = (wire \ {m}) \cup {next}
                     /\ queued' = next.sock
                     /\ UNCHANGED <<waiting, out>>
Over(m, e) == /\ Ends(e)
              /\ wire' = wire \ {m}
              /\ waiting' = FALSE
              /\ UNCHANGED queued

\* check_timing has found the endpoint locked, before the settings or after them.
CheckOk(m) == IF pc \in {"timing", "reset"}
              THEN Then(m, Configure(socks, Message(asked)), "settings")
              ELSE Over(m, "ok")

TimingReply(m) == /\ pc \in {"timing", "timing_after"}
                  /\ Received(m)
                  /\ IF Locked(m) THEN CheckOk(m)
                     ELSE Then(m, Query(socks, "reset_timing"),
                               IF pc = "timing" THEN "reset" ELSE "reset_after")
                  /\ UNCHANGED <<wib, socks, cmd, asked, server, history>>

ResetUntilLocked(m) ==
  /\ pc \in {"reset", "reset_after"}
  /\ Received(m)
  /\ IF Locked(m) THEN CheckOk(m) ELSE Then(m, Query(socks, "reset_timing"), pc)
  /\ UNCHANGED <<wib, socks, cmd, asked, server, history>>

ResetReply(m) == /\ pc \in {"reset", "reset_after"}
                 /\ Received(m)
                 /\ IF Locked(m) THEN CheckOk(m) ELSE Over(m, "error")
                 /\ UNCHANGED <<wib, socks, cmd, asked, server, history>>

SettingsReply(m) ==
  /\ pc = "settings"
  /\ Received(m)
  /\ CASE ~Success(m)                   -> Over(m, "error")
       [] Success(m) /\ cmd = "conf"     -> Then(m, Query(socks, "get_timing"), "timing_after")
       [] Success(m) /\ cmd = "settings" -> Over(m, "ok")
  /\ UNCHANGED <<wib, socks, cmd, asked, server, history>>

\* A signal ends the wait: recv throws, and the request is still out.
Interrupted == /\ pc \notin {"idle", "closing"}
               /\ Ends("error")
               /\ UNCHANGED <<wib, socks, waiting, cmd, asked, net, server, history>>

\* The application dies, with what has not left it, and is started again.
Crash == /\ wib' = "null"
         /\ waiting' = FALSE
         /\ wire' = {m \in wire : m.sock # queued}
         /\ queued' = 0
         /\ Ends("crash")
         /\ UNCHANGED <<socks, cmd, asked, server, history>>
-----------------------------------------------------------------------------
(* The server and the network                                              *)

\* Nobody is left to receive the reply to a socket that has been closed.
Own(m) == m.sock = socks /\ wib = "up" /\ waiting
Answer(m, r) == wire' = (wire \ {m}) \cup (IF Own(m) THEN {r} ELSE {})

Tells(m, b) == /\ Answer(m, Timing(m.sock, b))
               /\ lockSeen' = IF Own(m) /\ b THEN TRUE ELSE lockSeen

AnswerTiming(m) == /\ m.kind = "get_timing"
                   /\ Tells(m, locked)
                   /\ UNCHANGED <<server, took, disturbed>>

AnswerReset(m) == /\ m.kind = "reset_timing"
                  /\ locked' \in BOOLEAN
                  /\ Tells(m, locked')
                  /\ UNCHANGED <<applied, took, disturbed>>

\* Settings of a closed socket may still arrive.
AnswerConfigure(m) ==
  /\ m.kind = "configure"
  /\ Answer(m, Status(m.sock, TRUE))
  /\ applied' = {m.conf}
  /\ IF Own(m) THEN took' = {m.conf} /\ lockSeen' = FALSE /\ UNCHANGED disturbed
               ELSE disturbed' = TRUE /\ UNCHANGED <<took, lockSeen>>
  /\ UNCHANGED locked

\* The server fails, perhaps half way, or sends what is no reply to this request.
Refuse(m) == /\ m.kind = "configure"
             /\ Answer(m, Status(m.sock, FALSE))
             /\ applied' \in {applied, {}}
             /\ disturbed' = (disturbed \/ ~Own(m))
             /\ UNCHANGED <<locked, took, lockSeen>>
NoReply(m) == /\ Answer(m, Query(m.sock, "unparsable"))
              /\ UNCHANGED <<server, history>>

\* A request leaves when there is a connection.
Leaves == /\ queued # 0
          /\ queued' = 0
          /\ UNCHANGED <<client, wire, server, history>>

Serve(m) == /\ m.kind \in Requests
            /\ m.sock # queued
            /\ \/ AnswerTiming(m) \/ AnswerReset(m) \/ AnswerConfigure(m)
               \/ Refuse(m) \/ NoReply(m)
            /\ UNCHANGED <<client, queued>>

LockChanges == locked' = ~locked /\ UNCHANGED <<client, net, applied, history>>

\* The connection breaks: REQ does not send again what was on its way.
Loses == \E lost \in SUBSET {m \in wire : m.sock # queued} : wire' = wire \ lost
Disconnect == Loses /\ UNCHANGED <<client, queued, server, history>>
Restart == /\ Loses
           /\ locked' \in BOOLEAN
           /\ applied' = {}
           /\ disturbed' = TRUE
           /\ UNCHANGED <<client, queued, took, lockSeen>>
-----------------------------------------------------------------------------
Command == (\E s \in Settings : Conf(s) \/ Settle(s)) \/ Scrap
Proceed == Closed \/ \E m \in wire : TimingReply(m) \/ ResetReply(m) \/ SettingsReply(m)
Board   == Leaves \/ (\E m \in wire : Serve(m)) \/ LockChanges \/ Disconnect \/ Restart

Next == Command \/ Proceed \/ Interrupted \/ Crash \/ Board

Spec     == Init /\ [][Next]_vars
\* A command runs on as soon as its reply is there or the old socket is closed.
FairSpec == Spec /\ WF_vars(Proceed)
-----------------------------------------------------------------------------
Messages == [sock : 1..Sockets, kind : {"get_timing", "reset_timing", "unparsable"}]
              \cup [sock : 1..Sockets, kind : {"configure"}, conf : ConfigureWIB]
              \cup [sock : 1..Sockets, kind : {"timing"}, locked : BOOLEAN]
              \cup [sock : 1..Sockets, kind : {"status"}, success : BOOLEAN]

TypeOK == /\ wib \in {"null", "up"}
          /\ socks \in 0..Sockets
          /\ waiting \in BOOLEAN
          /\ pc \in {"idle", "closing", "timing", "reset", "settings", "timing_after",
                     "reset_after"}
          /\ wib = "up" => socks # 0
          /\ pc \notin {"idle", "closing"} => wib = "up" /\ waiting
          /\ cmd \in {"none", "conf", "settings", "scrap"}
          /\ pc = "closing" => cmd \in {"conf", "scrap"} /\ ~waiting
                               /\ (cmd = "conf" => wib = "up")
          /\ pc = "settings" => cmd \in {"conf", "settings"}
          /\ pc \notin {"idle", "closing", "settings"} => cmd = "conf"
          /\ asked \in Settings
          /\ wire \subseteq Messages
          /\ queued \in 0..Sockets
          /\ locked \in BOOLEAN
          /\ applied \subseteq ConfigureWIB
          /\ out \in {"none", "ok", "error", "crash", "scrapped"}
          /\ took \subseteq ConfigureWIB
          /\ lockSeen \in BOOLEAN
          /\ disturbed \in BOOLEAN

\* A settings message that asks for these settings, FEMB by FEMB, gain_match excepted.
AsksOne(c, f) == c.enabled = f.enabled /\ c.channel = f.channel /\ c.strobe = f.strobe
AsksFor(c, s) == /\ c.wib = s.wib
                 /\ AsksOne(c.fembs[1], s.femb0)
                 /\ AsksOne(c.fembs[2], s.femb1)
                 /\ AsksOne(c.fembs[3], s.femb2)
                 /\ AsksOne(c.fembs[4], s.femb3)

\* A command that reports success has had its own settings, each FEMB its own, but for
\* gain_match, taken by the server, and they are what the board is programmed with
\* unless the server restarted or settings of an abandoned socket arrived after it
\* began.
SettingsTaken == pc = "idle" /\ out = "ok" =>
  /\ \E c \in took : AsksFor(c, asked)
  /\ ~disturbed => applied = took

\* conf lets settings go to the server only after that has reported the endpoint
\* locked to this very command, and succeeds only if it has done so again since it
\* took them, whatever replies are late, lost or of no use.
LockedAround ==
  /\ pc = "settings" /\ cmd = "conf" /\ took = {} => lockSeen
  /\ pc = "idle" /\ cmd = "conf" /\ out = "ok" => took # {} /\ lockSeen

\* What a command receives answers the request it has just sent: nothing of an
\* interrupted command, of another socket or of an earlier request can be taken
\* for it, and there is never a second message on its way.
Expected == CASE pc \in {"timing", "timing_after"} -> {"get_timing", "timing", "unparsable"}
              [] pc \in {"reset", "reset_after"}   -> {"reset_timing", "timing", "unparsable"}
              [] OTHER                             -> {"configure", "status", "unparsable"}
OwnReply == pc \notin {"idle", "closing"} =>
  \A m \in wire : m.sock = socks =>
    /\ m.kind \in Expected
    /\ m.kind = "configure" => m.conf = Message(asked)
    /\ \A n \in wire : n.sock = socks => n = m

\* Commands end, with any number of them, unless from some time on a request never
\* leaves the application or is never answered: there is no timeout, neither for the
\* reply nor when the socket is closed; the plugin does not ask for ever.
Unanswered      == pc \notin {"idle", "closing"} /\
                     \A m \in wire : m.sock = socks => m.kind \in Requests
Unsent          == pc = "closing" /\ queued # 0
EndsIfAnswered  == []<>(pc = "idle") \/ <>[](Unanswered \/ Unsent)
-----------------------------------------------------------------------------
(* What the schema and the protocol say of gain_match, which is passed on.  *)

\* To the server "0 is enabled, 1 is disabled".
Matches(c) == ~c.gain_match

\* A command that reports success has asked each FEMB to match the gain of the pulser
\* DAC if and only if the settings say "Enable pulser DAC gain matching".
GainMatchAsAsked == pc = "idle" /\ out = "ok" =>
  \A c \in took : \A i \in 1..4 : Matches(c.fembs[i]) <=> FembConfs(asked)[i].gain_match
=============================================================================
