------------------------- MODULE UdpAssociateProofs -------------------------
(* The association keeps its promises whatever else its connection does.    *)
EXTENDS UdpAssociate, TLAPS

LEMMA InitUdpInv == Init => UdpInv
  <1>. SUFFICES ASSUME Init PROVE UdpInv
    OBVIOUS
  <1>1. UdpTypeOK
    BY DEF Init, UdpTypeOK
  <1>2. HeardOf
    BY DEF Init, HeardOf, RepliesToAsker
  <1>3. LastOne
    BY DEF Init, LastOne
  <1>. QED
    BY <1>1, <1>2, <1>3 DEF UdpInv

(* Steps of the dialogue leave the association alone.                       *)
LEMMA StutterUdpInv == UdpInv /\ UNCHANGED udpVars => UdpInv'
  BY DEF UdpInv, UdpTypeOK, HeardOf, LastOne, RepliesToAsker, udpVars

LEMMA LoopUdpInv == UdpInv /\ Loop => UdpInv'
  <1>. SUFFICES ASSUME UdpInv, Loop PROVE UdpInv'
    OBVIOUS
  <1>. USE DEF UdpInv, UdpTypeOK, HeardOf, LastOne, RepliesToAsker
  <1>1. CASE Listen
    BY <1>1 DEF Listen, FlowStays
  <1>2. CASE Check
    BY <1>2 DEF Check, FlowStays
  <1>3. CASE Receive
    <2>1. CASE UNCHANGED <<job, heard>> /\ loop' = "check"
      BY <1>3, <2>1 DEF Receive
    <2>2. ASSUME NEW l \in Locals, NEW p \in Peers,
                 job' = [from |-> l, to |-> p], heard' = heard \cup {<<p, l>>},
                 loop' = IF upstream[p] = None THEN "dial" ELSE "send"
          PROVE  UdpInv'
      <3>1. UdpTypeOK'
        BY <1>3, <2>2 DEF Receive
      <3>2. HeardOf'
        BY <1>3, <2>2 DEF Receive
      <3>3. LastOne'
        BY <1>3, <2>2 DEF Receive
      <3>. QED
        BY <3>1, <3>2, <3>3
    <2>. QED
      BY <1>3, <2>1, <2>2 DEF Receive
  <1>4. CASE ReceiveFails
    BY <1>4 DEF ReceiveFails, FlowStays
  <1>5. CASE DialPeer
    BY <1>5, UdpAssumption DEF DialPeer
  <1>6. CASE Forward
    BY <1>6 DEF Forward
  <1>7. CASE Return
    BY <1>7, StutterUdpInv DEF Return, udpVars
  <1>. QED
    BY <1>1, <1>2, <1>3, <1>4, <1>5, <1>6, <1>7 DEF Loop

LEMMA NextUdpInv == UdpInv /\ [Next]_vars => UdpInv'
  <1>. SUFFICES ASSUME UdpInv, [Next]_vars PROVE UdpInv'
    OBVIOUS
  <1>1. CASE UNCHANGED udpVars
    BY <1>1, StutterUdpInv
  <1>2. CASE Loop
    BY <1>2, LoopUdpInv
  <1>3. CASE ControlEnds
    BY <1>3 DEF ControlEnds, FlowStays, UdpInv, UdpTypeOK, HeardOf, LastOne, RepliesToAsker
  <1>4. ASSUME NEW p \in Peers, PassBack(p) PROVE UdpInv'
    BY <1>4 DEF PassBack, UdpInv, UdpTypeOK, HeardOf, LastOne, RepliesToAsker
  <1>5. ASSUME NEW p \in Peers, PassingEnds(p) PROVE UdpInv'
    BY <1>5 DEF PassingEnds, UdpInv, UdpTypeOK, HeardOf, LastOne, RepliesToAsker
  <1>. QED
    BY <1>1, <1>2, <1>3, <1>4, <1>5 DEF Next, UdpNext, vars

(* The invariant of the association, for any number of local addresses,     *)
(* peers and datagrams.                                                     *)
THEOREM UdpInvariant == Spec => []UdpInv
  BY InitUdpInv, NextUdpInv, PTL DEF Spec

(* At most one datagram is forwarded after the control connection has       *)
(* ended.                                                                   *)
THEOREM OneAfterEnd == Spec => []AtMostOneAfterEnd
  <1>1. UdpInv => AtMostOneAfterEnd
    BY DEF UdpInv, LastOne, AtMostOneAfterEnd
  <1>. QED
    BY <1>1, UdpInvariant, PTL

(* Nobody is given replies from a peer he has not sent to.                  *)
THEOREM RepliesOnlyToAskers == Spec => []RepliesToAsker
  <1>1. UdpInv => RepliesToAsker
    BY DEF UdpInv, HeardOf
  <1>. QED
    BY <1>1, UdpInvariant, PTL
-----------------------------------------------------------------------------
LEMMA InitUnproved == Init => Unproved
  BY DEF Init, DialogueInit, Unproved, NotBegun, First, Hops, Roles

(* A step of nobody's handler but of the handler of a hop that has begun.   *)
LEMMA HandlerUnproved ==
  ASSUME Unproved, NEW r \in Hops, Handler(r)
  PROVE  Unproved'
  <1>. USE DEF Unproved, NotBegun, First, Hops, Roles, Goto, Stay, Leave, NextHop,
               AnswerAndStay, AnswerAndLeave, LeaveSilently
  <1>1. CASE Greet(r)
    BY <1>1 DEF Greet, Takes, Chosen, Greeting, Method
  <1>2. CASE Authenticate(r)
    BY <1>2 DEF Authenticate, Takes
  <1>3. CASE ReadRequest(r)
    BY <1>3 DEF ReadRequest, Takes
  <1>4. CASE ReadFails(r)
    BY <1>4 DEF ReadFails
  <1>5. CASE Dial(r)
    BY <1>5 DEF Dial, DialHop, DialDirect, DialOwoss, DialFails, Dialled, Fail
  <1>6. CASE Connect(r)
    BY <1>6 DEF Connect, ConnectMethod, ConnectStatus, ConnectReply, ConnectFails, Advances, Fail
  <1>7. CASE TellSuccess(r)
    BY <1>7 DEF TellSuccess
  <1>8. CASE PipeUp(r) \/ PipeDown(r) \/ PipeEnds(r)
    BY <1>8 DEF PipeUp, PipeDown, PipeEnds
  <1>. QED
    BY <1>1, <1>2, <1>3, <1>4, <1>5, <1>6, <1>7, <1>8 DEF Handler, Handshake

(* Client and far side move neither a hop's handler nor its request.        *)
LEMMA EnvironmentUnproved ==
  ASSUME Unproved, Client \/ Far
  PROVE  Unproved'
  <1>. USE DEF Unproved, NotBegun, First, Hops, Roles, Goto
  <1>1. CASE Client
    BY <1>1 DEF Client, AppGreets, AppAuthenticates, AppRequests, AppOpens, AppSends,
                AppReceives, AppHangsUp
  <1>2. CASE Far
    BY <1>2 DEF Far, FarQuits, FarGreets, FarAuthenticates, FarConnects, FarReaches,
                FarSends, FarReceives
  <1>. QED
    BY <1>1, <1>2

LEMMA UdpUnproved ==
  ASSUME Unproved, UdpNext
  PROVE  Unproved'
  <1>. USE DEF Unproved, NotBegun, First, Hops, Roles
  <1>1. CASE Listen
    BY <1>1 DEF Listen
  <1>2. CASE Return
    BY <1>2 DEF Return, LeaveSilently, Leave, Goto
  <1>3. CASE DialogueStays
    BY <1>3 DEF DialogueStays, dialogueVars
  <1>4. UdpNext => Listen \/ Return \/ DialogueStays
    BY DEF UdpNext, Loop, Check, Receive, ReceiveFails, DialPeer, Forward, ControlEnds,
           PassBack, PassingEnds
  <1>. QED
    BY <1>1, <1>2, <1>3, <1>4

LEMMA NextUnproved == Unproved /\ [Next]_vars => Unproved'
  <1>. SUFFICES ASSUME Unproved, [Next]_vars PROVE Unproved'
    OBVIOUS
  <1>1. CASE UNCHANGED vars
    BY <1>1 DEF vars, dialogueVars, Unproved, NotBegun, First
  <1>2. ASSUME NEW r \in Hops, Expire(r) PROVE Unproved'
    BY <1>2 DEF Expire, Unproved, NotBegun, First
  <1>3. ASSUME NEW r \in Hops, CutOff(r) PROVE Unproved'
    BY <1>3 DEF CutOff, LeaveSilently, Leave, Goto, Unproved, NotBegun, First, Hops, Roles, NextHop
  <1>. QED
    BY <1>1, <1>2, <1>3, HandlerUnproved, EnvironmentUnproved, UdpUnproved
    DEF Next, DialogueNext

(* With a token nothing is asked for, at either hop, before it is shown.    *)
THEOREM AskedIsProved == Spec => []AskedOnlyIfProved
  <1>1. Unproved => AskedOnlyIfProved
    BY DEF Unproved, NotBegun, AskedOnlyIfProved
  <1>. QED
    BY <1>1, InitUnproved, NextUnproved, PTL DEF Spec
=============================================================================
