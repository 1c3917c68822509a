------------------------------- MODULE Socks5 -------------------------------
(***************************************************************************)
(* One connection on its way through the program, up to the relaying of     *)
(* its data: SOCKS5Server.handleConn with handshake, readRequest,           *)
(* handleDirect and socks5Connect (socks5_server.go), and RelayServer.       *)
(* handleConn (relay_server.go), which in relay mode stands before it.      *)
(*                                                                         *)
(* A link is named for the hop that serves it: in[r] flows towards r, out[r] *)
(* back from it.  The hop "up" is what the session manager has dialled:     *)
(* naive, an OwOSS server or, for a direct domain, the destination itself.  *)
(* A message stands for the bytes of one group of ReadFull calls.           *)
(***************************************************************************)
EXTENDS TargetAddr, Integers

CONSTANTS
    None,
    Room,      \* messages the buffers of a link hold: a Write to it blocks then
    MaxData    \* bound: the number of data each end sends

Hops    == {"relay", "server"}
Roles   == Hops \cup {"up"}
NextHop == [relay |-> "server", server |-> "up"]
Ends    == {"app", "far"}

ASSUME DialogueAssumption ==
    /\ None \notin Texts /\ None \notin Hosts
    /\ Room \in Nat \ {0}
    /\ MaxData \in [Ends -> Nat]

VARIABLES
    cfg,      \* [token, owoss, relay]: how the program was started
    app,      \* where the client's side of the dialogue is
    proved,   \* the client has shown the token
    pc,       \* hop -> where its handler is
    in, out,  \* link -> messages under way
    hung,     \* links closed by their client's side
    shut,     \* links closed by the hop that serves them
    late,     \* hops whose 30 s deadline on the client has passed
    dst,      \* hop -> the host of the request it serves
    reached,  \* the text of the destination contacted, or None
    told,     \* what the first hop's reply said: "nothing", "success", "failure"
    sent,     \* end -> number of data it has sent
    got       \* end -> what it has received

links == <<in, out, hung, shut>>
data  == <<sent, got>>
dialogueVars == <<cfg, app, proved, pc, links, late, dst, reached, told, data>>

First == IF cfg.relay THEN "relay" ELSE "server"

BadAtyp == [atyp |-> "bad", host |-> Plain(NoName)]
Unspecified == Wire("ipv4", Plain(NoName))
Methods == SUBSET {"none", "password"}

Greeting(v5, ms)     == [kind |-> "greet", v5 |-> v5, methods |-> ms]
Auth(v1, right)      == [kind |-> "auth", v1 |-> v1, right |-> right]
Request(v5, cmd, wa) == [kind |-> "request", v5 |-> v5, cmd |-> cmd, addr |-> wa]
Method(m)            == [kind |-> "method", method |-> m]
Status(ok)           == [kind |-> "status", ok |-> ok]
Reply(rep)           == [kind |-> "reply", rep |-> rep]
Data(n)              == [kind |-> "data", n |-> n]

Messages ==
    [kind : {"greet"}, v5 : BOOLEAN, methods : Methods]
      \cup [kind : {"auth"}, v1 : BOOLEAN, right : BOOLEAN]
      \cup [kind : {"request"}, v5 : BOOLEAN, cmd : {"connect"}, addr : WireAddrs \cup {BadAtyp}]
      \cup [kind : {"request"}, v5 : BOOLEAN, cmd : {"udp", "bind"}, addr : {BadAtyp, Unspecified}]
      \cup [kind : {"target"}, addr : [atyp : {"ipv4", "ipv6", "domain"}, host : Hosts]]
      \cup [kind : {"method"}, method : {"none", "password", "refused"}]
      \cup [kind : {"status"}, ok : BOOLEAN]
      \cup [kind : {"reply"}, rep : {"success", "command", "address", "net", "host",
                                    "refused", "general"}]
      \cup [kind : {"data"}, n : Nat]

InDialogue == {"greet", "auth", "request", "dial", "method", "status", "reply", "tell"}

DialogueTypeOK ==
    /\ cfg \in [token : BOOLEAN, owoss : BOOLEAN, relay : BOOLEAN]
    /\ app \in {"start", "method", "status", "ready", "reply", "open", "quit"}
    /\ proved \in BOOLEAN
    /\ pc \in [Roles -> InDialogue \cup {"off", "target", "pipe", "udp", "over"}]
    /\ in \in [Roles -> Seq(Messages)] /\ out \in [Roles -> Seq(Messages)]
    /\ hung \subseteq Roles /\ shut \subseteq Roles /\ late \subseteq Hops
    /\ dst \in [Hops -> Hosts \cup {None}]
    /\ reached \in Texts \cup {None}
    /\ told \in {"nothing", "success", "failure"}
    /\ sent \in [Ends -> Nat] /\ \A e \in Ends : sent[e] <= MaxData[e]
    /\ got \in [Ends -> Seq(Messages)]

DialogueInit ==
    /\ cfg \in [token : BOOLEAN, owoss : BOOLEAN, relay : BOOLEAN]
    /\ app = "start" /\ proved = FALSE
    /\ pc = [r \in Roles |-> IF r = First THEN "greet" ELSE "off"]
    /\ in = [r \in Roles |-> <<>>] /\ out = in
    /\ hung = {} /\ shut = {} /\ late = {}
    /\ dst = [r \in Hops |-> None]
    /\ reached = None /\ told = "nothing"
    /\ sent = [e \in Ends |-> 0] /\ got = [e \in Ends |-> <<>>]
-----------------------------------------------------------------------------
Put(q, r, m) == [q EXCEPT ![r] = Append(@, m)]
Drop(q, r)   == [q EXCEPT ![r] = Tail(@)]
Goto(r, l)   == pc' = [pc EXCEPT ![r] = l]

Holds(q, kind) == q # <<>> /\ Head(q).kind = kind

(* The handler returns: its deferred calls close both its connections.      *)
Leave(r) ==
    /\ Goto(r, "over")
    /\ shut' = shut \cup {r}
    /\ hung' = IF pc[NextHop[r]] = "off" THEN hung ELSE hung \cup {NextHop[r]}

(* The handler goes on; the connections stay.                               *)
Stay(r, l) == Goto(r, l) /\ UNCHANGED <<hung, shut>>

(* The hop answers m and goes on to l, or answers it and returns.           *)
AnswerAndStay(r, m, l) == out' = Put(out, r, m) /\ Stay(r, l)
AnswerAndLeave(r, m)   == out' = Put(out, r, m) /\ Leave(r)
LeaveSilently(r)       == Leave(r) /\ UNCHANGED out

Tell(r, outcome) == told' = IF r = First THEN outcome ELSE told

(* r takes a message of this kind from its client before its deadline.      *)
Takes(r, kind) ==
    /\ pc[r] = kind /\ r \notin late
    /\ Holds(in[r], kind)
    /\ in' = Drop(in, r)

(* A name with an underscore is a definition as a plausible mistake would   *)
(* have written it; no action uses it.                                      *)
Chosen_AlwaysNone(r, methods) == IF r = "relay" THEN "none" ELSE
    IF cfg.token THEN IF "password" \in methods THEN "password" ELSE "refused"
    ELSE IF "none" \in methods THEN "none" ELSE "refused"

(* The method a hop chooses.  Without a token the relay does not look at    *)
(* what is offered.                                                         *)
Chosen(r, methods) ==
    CASE cfg.token /\ "password" \in methods                -> "password"
      [] ~cfg.token /\ ("none" \in methods \/ r = "relay") -> "none"
      [] OTHER                                              -> "refused"

Greet(r) ==
    /\ Takes(r, "greet")
    /\ LET g == Head(in[r])
           m == Chosen(r, g.methods)
       IN  \/ ~g.v5 /\ LeaveSilently(r)
           \/ g.v5 /\ m = "refused" /\ AnswerAndLeave(r, Method(m))
           \/ g.v5 /\ m = "password" /\ AnswerAndStay(r, Method(m), "auth")
           \/ g.v5 /\ m = "none" /\ AnswerAndStay(r, Method(m), "request")
    /\ UNCHANGED <<cfg, app, proved, late, dst, reached, told, data>>

Authenticate(r) ==
    /\ Takes(r, "auth")
    /\ LET ok == Head(in[r]).v1 /\ Head(in[r]).right
       IN  /\ proved' = (proved \/ (ok /\ r = First))
           /\ \/ ok /\ AnswerAndStay(r, Status(TRUE), "request")
              \/ ~ok /\ AnswerAndLeave(r, Status(FALSE))
    /\ UNCHANGED <<cfg, app, late, dst, reached, told, data>>

(* The relay looks neither at the version of a request nor, in UDP, beyond  *)
(* saying no.                                                               *)
Commands(r) == IF r = "relay" THEN {"connect"} ELSE {"connect", "udp"}

Refusal(r, q) ==
    CASE r = "server" /\ ~q.v5      -> "silence"
      [] q.cmd \notin Commands(r)   -> "command"
      [] q.addr = BadAtyp           -> "address"
      [] OTHER                      -> "none"

ReadRequest(r) ==
    /\ Takes(r, "request")
    /\ LET q == Head(in[r])
           no == Refusal(r, q)
       IN  \/ /\ no = "silence" /\ LeaveSilently(r)
              /\ UNCHANGED <<dst, told>>
           \/ /\ no \in {"command", "address"}
              /\ AnswerAndLeave(r, Reply(no)) /\ Tell(r, "failure")
              /\ UNCHANGED dst
           \/ /\ no = "none" /\ q.cmd = "udp" /\ Stay(r, "udp")
              /\ UNCHANGED <<out, dst, told>>
           \/ /\ no = "none" /\ q.cmd = "connect" /\ Stay(r, "dial")
              /\ dst' = [dst EXCEPT ![r] = ReadHost(q.addr)]
              /\ UNCHANGED <<out, told>>
    /\ UNCHANGED <<cfg, app, proved, late, reached, data>>

(* A Read fails: the client has closed, or the deadline has passed.         *)
ReadFails(r) ==
    /\ pc[r] \in {"greet", "auth", "request"}
    /\ r \in late \/ (r \in hung /\ in[r] = <<>>)
    /\ LeaveSilently(r)
    /\ UNCHANGED <<cfg, app, proved, in, late, dst, reached, told, data>>

DeadlineApplies_OnlyGreeting(r) == pc[r] = "greet"
DeadlineApplies(r) == pc[r] \in InDialogue

(* conn.SetDeadline(30 s), cleared only when the data phase begins.         *)
Expire(r) ==
    /\ DeadlineApplies(r) /\ r \notin late
    /\ late' = late \cup {r}
    /\ UNCHANGED <<cfg, app, proved, pc, links, dst, reached, told, data>>
-----------------------------------------------------------------------------
(* A failure is told if the deadline still lets the reply out.              *)
Fail(r, rep) ==
    /\ IF r \in late THEN LeaveSilently(r) /\ UNCHANGED told
       ELSE AnswerAndLeave(r, Reply(rep)) /\ Tell(r, "failure")
    /\ UNCHANGED <<cfg, app, proved, late, dst, reached, data>>

Route(h) ==
    CASE IsDirectDomain(h)             -> "direct"
      [] ~IsDirectDomain(h) /\ cfg.owoss -> "owoss"
      [] OTHER                         -> "naive"

(* The connection of hop r to the next one exists; that one is at l.        *)
Dialled(r, l, mine) ==
    /\ pc[r] = "dial"
    /\ pc' = [pc EXCEPT ![r] = mine, ![NextHop[r]] = l]
    /\ UNCHANGED <<cfg, app, proved, out, hung, shut, late, dst, told, data>>

(* socks5Connect begins: it offers one method.                              *)
Hello == Greeting(TRUE, {IF cfg.token THEN "password" ELSE "none"})

DialHop(r) ==
    /\ Dialled(r, "greet", "method")
    /\ r = "server" => Route(dst[r]) = "naive"
    /\ in' = Put(in, NextHop[r], Hello)
    /\ UNCHANGED reached

(* handleDirect: the name is resolved and its address dialled.              *)
DialDirect(r) ==
    /\ r = "server" /\ Dialled(r, "pipe", "tell")
    /\ Route(dst[r]) = "direct"
    /\ reached' = dst[r].text
    /\ UNCHANGED in

(* SSManager.Dial: a stream, with the encoded address as its first bytes.   *)
(* Nothing is awaited from the server.                                      *)
DialOwoss(r) ==
    /\ r = "server" /\ Dialled(r, "target", "tell")
    /\ Route(dst[r]) = "owoss"
    /\ in' = Put(in, "up", [kind |-> "target", addr |-> EncodeTarget(dst[r])])
    /\ UNCHANGED reached

DialFails(r) ==
    /\ pc[r] = "dial"
    /\ \E rep \in {"net", "host", "refused"} :
         /\ rep = "host" => r = "server" /\ Route(dst[r]) = "direct"
         /\ rep = "refused" => r = "server" /\ Route(dst[r]) # "owoss"
         /\ rep = "net" => r = "relay" \/ Route(dst[r]) # "direct"
         /\ Fail(r, rep)
    /\ UNCHANGED in

Dial(r) == DialHop(r) \/ DialDirect(r) \/ DialOwoss(r) \/ DialFails(r)

(* The steps of socks5Connect.  m is what it sends after the answer.        *)
ConnectRequest(r) == Request(TRUE, "connect", ConnectAddr(dst[r]))

Advances(r, answer, m, l) ==
    /\ pc[r] = answer
    /\ Holds(out[NextHop[r]], answer)
    /\ in' = Put(in, NextHop[r], m)
    /\ out' = Drop(out, NextHop[r])
    /\ Stay(r, l)
    /\ UNCHANGED <<cfg, app, proved, late, dst, reached, told, data>>

Answer(r) == Head(out[NextHop[r]])

ConnectMethod(r) ==
    \/ /\ cfg.token /\ Answer(r).method = "password"
       /\ Advances(r, "method", Auth(TRUE, TRUE), "status")
    \/ /\ ~cfg.token /\ Answer(r).method = "none"
       /\ Advances(r, "method", ConnectRequest(r), "reply")

ConnectStatus(r) == Answer(r).ok /\ Advances(r, "status", ConnectRequest(r), "reply")

(* The reply is read to the end of its address.                             *)
ConnectReply_HeaderOnly(r) ==
    /\ Holds(out[NextHop[r]], "reply") /\ Answer(r).rep = "success"
    /\ Stay(r, "tell")
    /\ UNCHANGED <<cfg, app, proved, in, out, late, dst, reached, told, data>>

ConnectReply(r) ==
    /\ Holds(out[NextHop[r]], "reply") /\ Answer(r).rep = "success"
    /\ out' = Drop(out, NextHop[r])
    /\ Stay(r, "tell")
    /\ UNCHANGED <<cfg, app, proved, in, late, dst, reached, told, data>>

Refuses(m) ==
    CASE m.kind = "method" -> m.method = "refused"
      [] m.kind = "status" -> ~m.ok
      [] m.kind = "reply"  -> m.rep # "success"
      [] OTHER             -> FALSE

(* socks5Connect returns an error: refused, or hung up on.  It has no       *)
(* deadline of its own.                                                     *)
ConnectFails(r) ==
    /\ pc[r] \in {"method", "status", "reply"}
    /\ IF out[NextHop[r]] = <<>> THEN NextHop[r] \in shut ELSE Refuses(Answer(r))
    /\ Fail(r, IF r = "relay" THEN "host" ELSE "net")
    /\ UNCHANGED in

Connect(r) ==
    \/ pc[r] = "method" /\ out[NextHop[r]] # <<>> /\ ConnectMethod(r)
    \/ pc[r] = "status" /\ out[NextHop[r]] # <<>> /\ ConnectStatus(r)
    \/ pc[r] = "reply" /\ ConnectReply(r)
    \/ ConnectFails(r)

(* The success reply, and the end of the deadline.                          *)
TellSuccess(r) ==
    /\ pc[r] = "tell"
    /\ \/ r \notin late /\ AnswerAndStay(r, Reply("success"), "pipe") /\ Tell(r, "success")
       \/ r \in late \cup hung /\ LeaveSilently(r) /\ UNCHANGED told
    /\ UNCHANGED <<cfg, app, proved, in, late, dst, reached, data>>

(* The data phase, one message at a time; Pipe has its inside.  What a      *)
(* Write has not got rid of yet counts as still under way on its first link. *)
PipeUp_KeepsHead(r) ==
    /\ pc[r] = "pipe" /\ in[r] # <<>> /\ NextHop[r] \notin shut
    /\ Len(in[NextHop[r]]) < Room
    /\ in' = Put(in, NextHop[r], Head(in[r]))
    /\ UNCHANGED <<cfg, app, proved, pc, out, hung, shut, late, dst, reached, told, data>>

PipeUp(r) ==
    /\ pc[r] = "pipe" /\ in[r] # <<>> /\ NextHop[r] \notin shut
    /\ Len(in[NextHop[r]]) < Room
    /\ in' = [Drop(in, r) EXCEPT ![NextHop[r]] = Append(@, Head(in[r]))]
    /\ UNCHANGED <<cfg, app, proved, pc, out, hung, shut, late, dst, reached, told, data>>

PipeDown(r) ==
    /\ pc[r] = "pipe" /\ out[NextHop[r]] # <<>> /\ r \notin hung
    /\ Len(out[r]) < Room
    /\ out' = [Drop(out, NextHop[r]) EXCEPT ![r] = Append(@, Answer(r))]
    /\ UNCHANGED <<cfg, app, proved, pc, in, hung, shut, late, dst, reached, told, data>>

PipeEnds_OnlyByServer(r) ==
    /\ pc[r] = "pipe" /\ NextHop[r] \in shut
    /\ LeaveSilently(r)
    /\ UNCHANGED <<cfg, app, proved, in, late, dst, reached, told, data>>

(* A direction has ended, by EOF or by a Write that failed.                 *)
PipeEnds(r) ==
    /\ pc[r] = "pipe"
    /\ \/ r \in hung /\ (in[r] = <<>> \/ out[NextHop[r]] # <<>>)
       \/ NextHop[r] \in shut /\ (out[NextHop[r]] = <<>> \/ in[r] # <<>>)
    /\ LeaveSilently(r)
    /\ UNCHANGED <<cfg, app, proved, in, late, dst, reached, told, data>>

(* The volume cap of a naive session, or the idle timeout of an OwOSS       *)
(* stream, has cut it.                                                      *)
CutOff(r) ==
    /\ r = "server" /\ pc[r] = "pipe"
    /\ \/ Route(dst[r]) = "naive" /\ \A e \in Ends : sent[e] > 0
       \/ Route(dst[r]) = "owoss" /\ pc["up"] = "pipe" /\ out["up"] = <<>>
    /\ LeaveSilently(r)
    /\ UNCHANGED <<cfg, app, proved, in, late, dst, reached, told, data>>
-----------------------------------------------------------------------------
(* The client: it keeps to the order of the protocol and may send anything  *)
(* in it, send data before it has an answer, and hang up at any time.       *)
Ask(m, l) ==
    /\ First \notin hung
    /\ in' = Put(in, First, m)
    /\ app' = l

AppGreets ==
    /\ app = "start"
    /\ \E v5 \in BOOLEAN, ms \in Methods : Ask(Greeting(v5, ms), "method")
    /\ UNCHANGED <<cfg, proved, pc, out, hung, shut, late, dst, reached, told, data>>

AppAuthenticates ==
    /\ app = "method" /\ Holds(out[First], "method")
    /\ Head(out[First]).method = "password"
    /\ \E v1, right \in BOOLEAN : Ask(Auth(v1, right), "status")
    /\ out' = Drop(out, First)
    /\ UNCHANGED <<cfg, proved, pc, hung, shut, late, dst, reached, told, data>>

MayAsk ==
    \/ app = "method" /\ Holds(out[First], "method") /\ Head(out[First]).method = "none"
    \/ app = "status" /\ Holds(out[First], "status") /\ Head(out[First]).ok

AppRequests ==
    /\ MayAsk
    /\ \E q \in [v5 : BOOLEAN, cmd : {"connect"}, addr : WireAddrs]
                  \cup [v5 : {TRUE}, cmd : {"connect"}, addr : {BadAtyp}]
                  \cup [v5 : {TRUE}, cmd : {"udp", "bind"}, addr : {BadAtyp, Unspecified}] :
         Ask(Request(q.v5, q.cmd, q.addr), "reply")
    /\ out' = Drop(out, First)
    /\ UNCHANGED <<cfg, proved, pc, hung, shut, late, dst, reached, told, data>>

AppOpens ==
    /\ app = "reply" /\ Holds(out[First], "reply") /\ Head(out[First]).rep = "success"
    /\ out' = Drop(out, First)
    /\ app' = "open"
    /\ UNCHANGED <<cfg, proved, pc, in, hung, shut, late, dst, reached, told, data>>

AppSends ==
    /\ app \in {"reply", "open"} /\ sent["app"] < MaxData["app"] /\ pc[First] # "udp"
    /\ Ask(Data(sent["app"] + 1), app)
    /\ sent' = [sent EXCEPT !["app"] = @ + 1]
    /\ UNCHANGED <<cfg, proved, pc, out, hung, shut, late, dst, reached, told, got>>

AppReceives ==
    /\ app = "open" /\ out[First] # <<>>
    /\ got' = [got EXCEPT !["app"] = Append(@, Head(out[First]))]
    /\ out' = Drop(out, First)
    /\ UNCHANGED <<cfg, app, proved, pc, in, hung, shut, late, dst, reached, told, sent>>

AppHangsUp ==
    /\ app # "quit"
    /\ app' = "quit" /\ hung' = hung \cup {First}
    /\ UNCHANGED <<cfg, proved, pc, in, out, shut, late, dst, reached, told, data>>

Client == AppGreets \/ AppAuthenticates \/ AppRequests \/ AppOpens \/ AppSends
            \/ AppReceives \/ AppHangsUp
-----------------------------------------------------------------------------
(* The far side.  naive, started with the token, asks for it; it and an     *)
(* OwOSS server answer, or refuse, or hang up.                              *)
FarQuits ==
    /\ pc["up"] \notin {"off", "over"}
    /\ Goto("up", "over") /\ shut' = shut \cup {"up"}
    /\ UNCHANGED <<cfg, app, proved, in, out, hung, late, dst, reached, told, data>>

FarTakes(kind) == pc["up"] = kind /\ Holds(in["up"], kind) /\ in' = Drop(in, "up")

FarGreets ==
    /\ FarTakes("greet")
    /\ LET m == IF cfg.token THEN "password" ELSE "none"
       IN  /\ m \in Head(in["up"]).methods
           /\ out' = Put(out, "up", Method(m))
           /\ Goto("up", IF cfg.token THEN "auth" ELSE "request")
    /\ UNCHANGED <<cfg, app, proved, hung, shut, late, dst, reached, told, data>>

FarAuthenticates ==
    /\ FarTakes("auth")
    /\ Head(in["up"]).right
    /\ out' = Put(out, "up", Status(TRUE)) /\ Goto("up", "request")
    /\ UNCHANGED <<cfg, app, proved, hung, shut, late, dst, reached, told, data>>

FarConnects ==
    /\ FarTakes("request")
    /\ LET h == Head(in["up"]).addr.host
       IN  \/ /\ ~h.brackets
              /\ reached' = h.text
              /\ out' = Put(out, "up", Reply("success")) /\ Goto("up", "pipe")
              /\ UNCHANGED shut
           \/ /\ out' = Put(out, "up", Reply("host")) /\ Goto("up", "over")
              /\ shut' = shut \cup {"up"}
              /\ UNCHANGED reached
    /\ UNCHANGED <<cfg, app, proved, hung, late, dst, told, data>>

(* The OwOSS server reads the address of a stream and dials it.             *)
FarReaches ==
    /\ FarTakes("target")
    /\ LET w == Head(in["up"]).addr
       IN  /\ Decodes(w) /\ Dialable(w.host)
           /\ reached' = w.host.text
    /\ Goto("up", "pipe")
    /\ UNCHANGED <<cfg, app, proved, out, hung, shut, late, dst, told, data>>

FarSends ==
    /\ pc["up"] = "pipe" /\ sent["far"] < MaxData["far"]
    /\ out' = Put(out, "up", Data(sent["far"] + 1))
    /\ sent' = [sent EXCEPT !["far"] = @ + 1]
    /\ UNCHANGED <<cfg, app, proved, pc, in, hung, shut, late, dst, reached, told, got>>

FarReceives ==
    /\ pc["up"] = "pipe" /\ in["up"] # <<>>
    /\ got' = [got EXCEPT !["far"] = Append(@, Head(in["up"]))]
    /\ in' = Drop(in, "up")
    /\ UNCHANGED <<cfg, app, proved, pc, out, hung, shut, late, dst, reached, told, sent>>

Far == FarQuits \/ FarGreets \/ FarAuthenticates \/ FarConnects \/ FarReaches
         \/ FarSends \/ FarReceives
-----------------------------------------------------------------------------
Handshake(r) == Greet(r) \/ Authenticate(r) \/ ReadRequest(r) \/ ReadFails(r)
Handler(r)   == Handshake(r) \/ Dial(r) \/ Connect(r) \/ TellSuccess(r)
                  \/ PipeUp(r) \/ PipeDown(r) \/ PipeEnds(r)

DialogueNext == Client \/ Far \/ \E r \in Hops : Handler(r) \/ Expire(r) \/ CutOff(r)

(* Handlers run and deadlines pass.  naive and the OwOSS server answer or   *)
(* hang up as long as the dialogue with them lasts; nothing is asked of the *)
(* client, nor of the far side once data flows.                             *)
FarAnswers == pc["up"] \in {"greet", "auth", "request"} /\ Far

-----------------------------------------------------------------------------
(* Whoever reads a link next finds there what it is waiting for: nobody     *)
(* takes data for a message or a message for data, also when the client has *)
(* sent its data early, and nothing of a dialogue is left when the data     *)
(* phase begins (socks5_server.go:266-391, 411-500, relay_server.go:79-180).*)
Awaited(l, kinds) == IF l \in kinds THEN l ELSE "data"
Caller(r)  == IF r = First THEN app
              ELSE pc[CHOOSE h \in Hops : NextHop[h] = r]

InStep ==
    \A r \in Roles :
      /\ in[r] # <<>> /\ pc[r] \notin {"over", "udp"}
           => Head(in[r]).kind = Awaited(pc[r], {"greet", "auth", "request", "target"})
      /\ out[r] # <<>> /\ Caller(r) \notin {"over", "quit"}
           => Head(out[r]).kind = Awaited(Caller(r), {"method", "status", "reply"})

(* Through both hops, each end receives what the other one sent, from its   *)
(* first byte and in order (socks5_server.go:489-498, 616-680,              *)
(* relay_server.go:219-234).                                                *)
PayloadInOrder ==
    /\ \A i \in DOMAIN got["far"] : got["far"][i] = Data(i) /\ i <= sent["app"]
    /\ \A i \in DOMAIN got["app"] : got["app"][i] = Data(i) /\ i <= sent["far"]

(* A host of the lists, or under one, is reached past naive and OwOSS, also *)
(* when a relay has passed the name on ("this traffic must not go through   *)
(* the proxy chain", domains_direct.go:26-41).                              *)
SensitiveStaysDirect ==
    dst[First] # None /\ Listed(dst[First].text)
      => /\ pc["up"] \in {"off", "pipe", "over"}
         /\ \A i \in DOMAIN in["up"] : in["up"][i].kind = "data"

(* Every hop asks the next one for the address its client asked for, an     *)
(* IPv6 literal as such and without brackets, which naive does not take     *)
(* (socks5_server.go:457-475).                                              *)
AddressesPassOn ==
    \A r \in Roles \ {First} : \A i \in DOMAIN in[r] :
      in[r][i].kind = "request" => in[r][i].addr.host = Plain(dst[First].text)

(* "the inverse operation" (ssaddr.go:80-84): the server can dial what it   *)
(* reads of a literal address, written by ssEncodeTargetAddr.               *)
LiteralsArrive ==
    \A i \in DOMAIN in["up"] :
      LET m == in["up"][i]
      IN  m.kind = "target" /\ m.addr.host.text \in V4 \cup V6
            => Decodes(m.addr) /\ Dialable(m.addr.host)

(* With a token, no hop takes up a request unless the client has shown it:  *)
(* the way round by the relay's port is closed too (relay_server.go:22-24,  *)
(* 73-135, socks5_server.go:291-340).                                       *)
AskedOnlyIfProved == cfg.token => \A r \in Hops : dst[r] # None => proved

(* What makes it inductive.                                                 *)
NotBegun(r) == dst[r] = None /\ pc[r] \in IF r = First THEN {"greet", "auth", "over"} ELSE {"off"}

Unproved ==
    /\ DOMAIN pc = Roles /\ DOMAIN dst = Hops /\ proved \in BOOLEAN
    /\ cfg \in [token : BOOLEAN, owoss : BOOLEAN, relay : BOOLEAN]
    /\ cfg.token /\ ~proved => \A r \in Hops : NotBegun(r)

(* Whatever the client does or leaves undone, its handlers come to the data *)
(* phase or to an end (socks5_server.go:131, relay_server.go:71).           *)
Settled(r) == pc[r] \in {"off", "pipe", "udp", "over"}

DialogueEnds == \A r \in Hops : pc[r] = "greet" ~> Settled(r)

(* When the client leaves, all of the chain is taken down behind it, if the *)
(* far side reads what it is sent, or goes: to one that does not read, a    *)
(* hop would wait in its Write for ever and not notice                      *)
(* (socks5_server.go:659-679, relay_server.go:221-234).                     *)
TakenDown == \A r \in Hops : pc[r] \in {"off", "over"}
FarReads  == in["up"] = <<>> \/ pc["up"] = "over"
ChainTakenDown == []<>FarReads => (app = "quit" ~> TakenDown)

(* To its client the program is a gateway, with or without a relay before   *)
(* the session manager and whatever the route (socks5_server.go:113-227,    *)
(* relay_server.go:65-235).                                                 *)
Asked == IF dst[First] = None THEN None ELSE dst[First].text

AsGateway == INSTANCE Gateway WITH
    Dests <- Texts,
    guarded <- cfg.token,
    optimistic <- dst[First] # None /\ cfg.owoss /\ ~Listed(dst[First].text),
    shown <- proved,
    asked <- Asked

IsGateway == AsGateway!Spec
=============================================================================
