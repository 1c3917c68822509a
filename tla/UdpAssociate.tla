---------------------------- MODULE UdpAssociate ----------------------------
(***************************************************************************)
(* A whole connection of the session manager: the dialogue of Socks5 and,   *)
(* where that asks for it, the UDP association (handleUDPAssociate and       *)
(* udpDialNaive, socks5_server.go:502-614, 753-788).  The association is     *)
(* one loop, a goroutine that watches the control connection, and for each  *)
(* destination a goroutine that passes back what comes from it.             *)
(***************************************************************************)
EXTENDS Socks5

CONSTANTS
    Locals,       \* addresses datagrams come from
    Peers,        \* destinations they name (dstKey)
    MaxDatagrams  \* bound: datagrams received

ASSUME UdpAssumption == None \notin Locals /\ MaxDatagrams \in Nat

VARIABLES
    loop,      \* "idle", "check", "recv", "dial", "send" or "returned"
    control,   \* the watching goroutine: "none", "reading" or "ended" (done is closed)
    job,       \* [from, to] of the datagram last received
    upstream,  \* destination -> the address its goroutine passes replies to, or None
    passing,   \* destinations whose goroutine runs
    received,  \* number of datagrams received
    heard,     \* pairs <<peer, local>>: local has sent to peer
    given,     \* pairs <<peer, local>>: local was given a reply of peer
    after      \* datagrams forwarded since the control connection ended

udpVars == <<loop, control, job, upstream, passing, received, heard, given, after>>
vars == <<dialogueVars, udpVars>>

UdpTypeOK ==
    /\ loop \in {"idle", "check", "recv", "dial", "send", "returned"}
    /\ control \in {"none", "reading", "ended"}
    /\ job \in [from : Locals, to : Peers] \cup {None}
    /\ upstream \in [Peers -> Locals \cup {None}]
    /\ passing \subseteq Peers
    /\ received \in Nat /\ after \in Nat
    /\ heard \subseteq Peers \X Locals /\ given \subseteq Peers \X Locals

TypeOK == DialogueTypeOK /\ UdpTypeOK

Init ==
    /\ DialogueInit
    /\ loop = "idle" /\ control = "none" /\ job = None
    /\ upstream = [p \in Peers |-> None]
    /\ passing = {} /\ heard = {} /\ given = {}
    /\ received = 0 /\ after = 0

DialogueStays == UNCHANGED dialogueVars
FlowStays == UNCHANGED <<upstream, passing, received, heard, given, after>>

(* The relay's socket and the reply that names it; either may fail.         *)
Listen ==
    /\ pc["server"] = "udp" /\ loop = "idle"
    /\ \/ /\ out' = Put(out, "server", Reply("success"))
          /\ loop' = "check" /\ control' = "reading"
       \/ /\ out' = Put(out, "server", Reply("general"))
          /\ loop' = "returned" /\ UNCHANGED control
       \/ loop' = "returned" /\ UNCHANGED <<control, out>>
    /\ UNCHANGED <<cfg, app, proved, pc, in, hung, shut, late, dst, reached, told, data>>
    /\ UNCHANGED job /\ FlowStays

(* A Read of the control connection fails: closed by either side, or        *)
(* silent for 30 s.                                                         *)
ControlEnds ==
    /\ control = "reading"
    /\ control' = "ended"
    /\ UNCHANGED <<loop, job>> /\ FlowStays /\ DialogueStays

(* select { case <-done: return; default: }                                 *)
Check_Once ==
    /\ loop = "check"
    /\ loop' = IF control = "ended" /\ received = 0 THEN "returned" ELSE "recv"
    /\ UNCHANGED <<control, job>> /\ FlowStays /\ DialogueStays

Check ==
    /\ loop = "check"
    /\ loop' = IF control = "ended" THEN "returned" ELSE "recv"
    /\ UNCHANGED <<control, job>> /\ FlowStays /\ DialogueStays

Receive ==
    /\ loop = "recv" /\ received < MaxDatagrams
    /\ received' = received + 1
    /\ \/ \E l \in Locals, p \in Peers :
            /\ job' = [from |-> l, to |-> p]
            /\ heard' = heard \cup {<<p, l>>}
            /\ loop' = IF upstream[p] = None THEN "dial" ELSE "send"
       \/ loop' = "check" /\ UNCHANGED <<job, heard>>     \* udpParseHeader says no
    /\ UNCHANGED <<control, upstream, passing, given, after>> /\ DialogueStays

(* Five minutes without a datagram.                                         *)
ReceiveFails ==
    /\ loop = "recv"
    /\ loop' = "returned"
    /\ UNCHANGED <<control, job>> /\ FlowStays /\ DialogueStays

(* udpDialNaive offers no password: a naive that has one says no.           *)
NaiveLetsIn == ~cfg.token

(* A destination whose dial failed is dialled again at its next datagram.   *)
DialPeer ==
    /\ loop = "dial"
    /\ \/ /\ NaiveLetsIn
          /\ upstream' = [upstream EXCEPT ![job.to] = job.from]
          /\ passing' = passing \cup {job.to}
          /\ loop' = "send"
       \/ loop' = "check" /\ UNCHANGED <<upstream, passing>>
    /\ UNCHANGED <<control, job, received, heard, given, after>> /\ DialogueStays

Forward ==
    /\ loop = "send"
    /\ after' = IF control = "ended" THEN after + 1 ELSE after
    /\ loop' = "check"
    /\ UNCHANGED <<control, job, upstream, passing, received, heard, given>>
    /\ DialogueStays

PassBack_LastSender(p) ==
    /\ p \in passing /\ loop # "returned"
    /\ given' = given \cup {<<p, job.from>>}
    /\ UNCHANGED <<loop, control, job, upstream, passing, received, heard, after>>
    /\ DialogueStays

(* A reply of p, for the address whose datagram made the connection.  The   *)
(* goroutine outlives the association; its writes are lost then.            *)
PassBack(p) ==
    /\ p \in passing /\ loop # "returned"
    /\ given' = given \cup {<<p, upstream[p]>>}
    /\ UNCHANGED <<loop, control, job, upstream, passing, received, heard, after>>
    /\ DialogueStays

(* Five minutes without a reply.  The connection stays in use.              *)
PassingEnds(p) ==
    /\ p \in passing
    /\ passing' = passing \ {p}
    /\ UNCHANGED <<loop, control, job, upstream, received, heard, given, after>>
    /\ DialogueStays

(* The handler returns; the upstream connections stay open.                 *)
Return_LeavesOpen ==
    /\ loop = "returned" /\ pc["server"] = "udp"
    /\ Goto("server", "over")
    /\ UNCHANGED <<cfg, app, proved, in, out, hung, shut, late, dst, reached, told, data, udpVars>>

Return ==
    /\ loop = "returned" /\ pc["server"] = "udp"
    /\ LeaveSilently("server")
    /\ UNCHANGED <<cfg, app, proved, in, late, dst, reached, told, data, udpVars>>

Loop == Listen \/ Check \/ Receive \/ ReceiveFails \/ DialPeer \/ Forward \/ Return

UdpNext == Loop \/ ControlEnds \/ \E p \in Peers : PassBack(p) \/ PassingEnds(p)

Next == (DialogueNext /\ UNCHANGED udpVars) \/ UdpNext

Spec == Init /\ [][Next]_vars

(* The control connection is seen to end when one side has closed it.       *)
ControlIsClosed == "server" \in hung \cup shut

Fairness ==
    /\ \A r \in Hops : /\ WF_vars(Handler(r) /\ UNCHANGED udpVars)
                       /\ WF_vars(Expire(r) /\ UNCHANGED udpVars)
    /\ WF_vars(FarAnswers /\ UNCHANGED udpVars)
    /\ WF_vars(Loop)
    /\ WF_vars(ControlIsClosed /\ ControlEnds)

FairSpec == Spec /\ Fairness
-----------------------------------------------------------------------------
(* What is forwarded once the client has left is at most the one datagram   *)
(* the loop was waiting for (socks5_server.go:541-549).                     *)
AtMostOneAfterEnd == after <= 1

(* A reply goes to an address that has sent to the peer it comes from       *)
(* (socks5_server.go:589-605).                                              *)
RepliesToAsker == given \subseteq heard

(* The goroutine that watches the control connection and the handler end    *)
(* together: neither is left behind by the other (socks5_server.go:503,     *)
(* 519-529, 541-549).                                                       *)
ControlAndLoopEnd ==
    /\ control = "ended" ~> pc["server"] = "over"
    /\ pc["server"] = "over" ~> control # "reading"
-----------------------------------------------------------------------------
(* What makes these inductive.  Whoever a goroutine passes replies to, and  *)
(* whoever the datagram in hand comes from, has been heard;                 *)
HeardOf ==
    /\ \A p \in Peers : upstream[p] # None => <<p, upstream[p]>> \in heard
    /\ \A p \in passing : upstream[p] # None
    /\ loop \in {"dial", "send"} => /\ job \in [from : Locals, to : Peers]
                                 /\ <<job.to, job.from>> \in heard
    /\ RepliesToAsker

(* and after a datagram forwarded too late the loop comes to its test.      *)
LastOne ==
    after = 0 \/ (after = 1 /\ control = "ended" /\ loop \in {"check", "returned"})

UdpInv == UdpTypeOK /\ HeardOf /\ LastOne
-----------------------------------------------------------------------------
(* What makes the promises of the dialogue inductive.  First, where both    *)
(* sides of a link are and what is on it: q from the client, which is at c, *)
(* a back from the server, which is at s.                                   *)
Gone == {"over", "quit"}

AllData(q)      == \A i \in DOMAIN q : q[i].kind = "data"
ThenData(q)     == \A i \in DOMAIN q : i # 1 => q[i].kind = "data"
One(q, kind)    == Len(q) = 1 /\ q[1].kind = kind
Opens(q, kind)  == q # <<>> /\ q[1].kind = kind /\ ThenData(q)
Success(a)      == a # <<>> /\ a[1] = Reply("success") /\ ThenData(a)

Linked(c, s, q, a, idle) ==
    /\ s = "off" => q = <<>> /\ a = <<>>
                    /\ c \in {"off", "greet", "auth", "request", "dial", "udp", "over"}
    /\ c = "off" => s = "off"
    /\ s = "greet" =>
         /\ a = <<>>
         /\ \/ q = <<>> /\ c \in {"start"} \cup Gone
            \/ One(q, "greet") /\ c \in {"method"} \cup Gone
    /\ s = "auth" =>
         \/ q = <<>> /\ a = <<Method("password")>> /\ c \in {"method"} \cup Gone
         \/ One(q, "auth") /\ a = <<>> /\ c \in {"status"} \cup Gone
    /\ s = "request" =>
         \/ q = <<>> /\ a = <<Method("none")>> /\ c \in {"method"} \cup Gone
         \/ q = <<>> /\ a = <<Status(TRUE)>> /\ c \in {"status"} \cup Gone
         \/ Opens(q, "request") /\ a = <<>> /\ c \in {"reply"} \cup Gone
    /\ s \in {"dial", "method", "status", "reply", "tell"} =>
         AllData(q) /\ a = <<>> /\ c \in {"reply"} \cup Gone
    /\ s = "pipe" =>
         /\ AllData(q)
         /\ \/ Success(a) /\ c \in {"reply"} \cup Gone
            \/ AllData(a) /\ c \in {"open", "tell", "pipe"} \cup Gone
    /\ s = "udp" =>
         /\ AllData(q)
         /\ \/ One(a, "reply") /\ ~idle /\ c \in {"reply"} \cup Gone
            \/ a = <<>> /\ c \in {"reply"} \cup Gone
            \/ a = <<>> /\ ~idle /\ c \in {"open", "tell", "pipe"}
    /\ s = "target" => Opens(q, "target") /\ a = <<>> /\ c \in {"tell", "pipe"} \cup Gone
    /\ s = "over" =>
         /\ ThenData(q) /\ ThenData(a)
         /\ \/ c \in Gone
            \/ c = "start" /\ q = <<>> /\ a = <<>>
            \/ c = "method" /\ (a = <<>> \/ (q = <<>> /\ One(a, "method")))
            \/ c = "status" /\ (a = <<>> \/ (q = <<>> /\ One(a, "status")))
            \/ c = "reply" /\ (a = <<>> \/ Opens(a, "reply"))
            \/ c \in {"open", "tell", "pipe"} /\ AllData(a)

Asker(l) == CASE l = First -> app
              [] l = "up"  -> pc["server"]
              [] l = "server" /\ cfg.relay -> pc["relay"]
              [] OTHER     -> "off"

LinksInStep == \A l \in Roles : Linked(Asker(l), pc[l], in[l], out[l], loop = "idle")

(* Second, the data of all links of a direction: numbered through, from the *)
(* first that its end has not received to the last that was sent.           *)
Lead(q) == IF q # <<>> /\ q[1].kind # "data" THEN 1 ELSE 0
Load(q)  == Len(q) - Lead(q)

Follows(q, k) == \A i \in DOMAIN q : i > Lead(q) => q[i] = Data(k + i - Lead(q))

Chain(g, x, y, z, n) ==
    /\ \A i \in DOMAIN g : g[i] = Data(i)
    /\ Follows(x, Len(g))
    /\ Follows(y, Len(g) + Load(x))
    /\ Follows(z, Len(g) + Load(x) + Load(y))
    /\ n = Len(g) + Load(x) + Load(y) + Load(z)

NumberedThrough ==
    /\ Chain(got["far"], in["up"], in["server"], in["relay"], sent["app"])
    /\ Chain(got["app"], out["relay"], out["server"], out["up"], sent["far"])

(* Third, which request the handlers serve and pass on, and what has come   *)
(* of it.                                                                   *)
Waiting == {"off", "greet", "auth", "request"}
Serving == {"dial", "method", "status", "reply", "tell", "pipe"}

ServesAsked ==
    \A r \in Hops :
      /\ pc[r] \in Waiting => dst[r] = None
      /\ pc[r] \in Serving => dst[r] # None
      /\ dst[r] # None => /\ dst[r] = dst[First]
                          /\ dst[r].brackets => dst[r].text \in V4 \cup V6

RelaysNoUdp == (cfg.relay => pc["server"] # "udp") /\ pc["relay"] # "udp"

PassesOnAsked ==
    \A l \in Roles \ {First} : \A i \in DOMAIN in[l] :
      /\ in[l][i].kind = "request" =>
           dst[First] # None /\ in[l][i] = Request(TRUE, "connect", ConnectAddr(dst[First]))
      /\ in[l][i].kind = "target" =>
           dst[First] # None /\ in[l][i].addr = EncodeTarget(dst[First])

OneRequest == ServesAsked /\ RelaysNoUdp /\ PassesOnAsked

Promised ==
    /\ dst[First] # None
    /\ reached = dst[First].text \/ (cfg.owoss /\ ~Listed(dst[First].text))

OneOutcome ==
    /\ pc["up"] \in {"off", "greet", "auth", "request", "target"} => reached = None
    /\ reached # None => dst[First] # None /\ reached = dst[First].text
    /\ told # "nothing" => pc[First] \in {"pipe", "over"}
    /\ \A r \in Hops : pc[r] \in {"tell", "pipe"} => Promised
    /\ \A l \in Roles \ {First} : \A i \in DOMAIN out[l] :
         out[l][i] = Reply("success") => Promised

(* Naive is asked for nothing that is listed.                               *)
AsksForUnlisted ==
    pc["server"] \in {"method", "status", "reply"} => ~Listed(dst["server"].text)

DialogueInv ==
    /\ DialogueTypeOK
    /\ LinksInStep /\ NumberedThrough
    /\ OneRequest /\ OneOutcome
    /\ SensitiveStaysDirect /\ AsksForUnlisted
=============================================================================
