----------------------------- MODULE NodeProofs -----------------------------
(* The invariants of the program's life, for any number of handlers,        *)
(* addresses and pings.                                                     *)
EXTENDS Node, TLAPS

-----------------------------------------------------------------------------
(* The table of connections.                                                *)
ConnInv == ConnTypeOK /\ NoStaleEntry

LEMMA ConnStep == ConnInv /\ ConnNext => ConnInv'
  <1>. SUFFICES ASSUME ConnInv, ConnNext PROVE ConnInv'
    OBVIOUS
  <1>. USE ConnAssumption DEF ConnInv, ConnTypeOK, NoStaleEntry
  <1>1. ASSUME NEW h \in Handlers, Enter(h) PROVE ConnInv'
    <2>1. ConnTypeOK'
      BY <1>1 DEF Enter
    <2>2. remote' = remote /\ stage' = [stage EXCEPT ![h] = "serving"]
          /\ active' = [active EXCEPT ![remote[h]] = h]
      BY <1>1 DEF Enter
    <2>3. NoStaleEntry'
      BY <2>2
    <2>. QED
      BY <2>1, <2>3
  <1>2. ASSUME NEW h \in Handlers, ClientCloses(h) PROVE ConnInv'
    BY <1>2 DEF ClientCloses
  <1>3. ASSUME NEW h \in Handlers, Finish(h) PROVE ConnInv'
    BY <1>3 DEF Finish, Deleted
  <1>4. ASSUME NEW h \in Handlers, NEW a \in Addrs, Accept(h, a) PROVE ConnInv'
    BY <1>4 DEF Accept
  <1>. QED
    BY <1>1, <1>2, <1>3, <1>4 DEF ConnNext

LEMMA ConnStutter == ConnInv /\ UNCHANGED connVars => ConnInv'
  BY DEF ConnInv, ConnTypeOK, NoStaleEntry, connVars

LEMMA ConnAlways == Spec => []ConnInv
  <1>1. Init => ConnInv
    BY ConnAssumption DEF Init, ConnInit, ConnInv, ConnTypeOK, NoStaleEntry
  <1>2. ConnInv /\ [Next]_vars => ConnInv'
    <2>1. [Next]_vars => ConnNext \/ UNCHANGED connVars
      BY DEF Next, Main, vars, Initialise, Warm, StartServer, Register, Registered, StartRelay,
             Notify, Shutdown, Unregistered, StopAll, Return, Signal, Die, Listens, Tick, Ping,
             Pinged, LoopEnds, Deliver, DeliverStray, Connections
    <2>. QED
      BY <2>1, ConnStep, ConnStutter
  <1>. QED
    BY <1>1, <1>2, PTL DEF Spec

(* No entry of the table outlives the handler that made it.                 *)
THEOREM EntriesAreLive == Spec => []NoStaleEntry
  <1>1. ConnInv => NoStaleEntry
    BY DEF ConnInv
  <1>. QED
    BY <1>1, ConnAlways, PTL
-----------------------------------------------------------------------------
(* The rest of the node.                                                    *)
Types ==
    /\ relay \in BOOLEAN
    /\ main \in {"init", "warm", "listen", "flags", "register", "relay", "notify",
                 "await", "unregister", "stop", "return", "exited", "killed"}
    /\ tick \in BOOLEAN /\ cancelled \in BOOLEAN
    /\ call \in [Callers -> Requests]
    /\ stray \subseteq Commands
    /\ bot \in Seq(Commands)
    /\ lastPings \in Nat

LifeInv == Types /\ LastTick /\ OnlyRegisters /\ RegisterFirst

LEMMA SendTypes ==
  ASSUME call \in [Callers -> Requests], NEW c \in Callers, NEW cmd \in Commands, Send(c, cmd)
  PROVE  call' \in [Callers -> Requests]
  BY DEF Send, Requests

LEMMA InitLife == Init => LifeInv
  <1>. SUFFICES ASSUME Init PROVE LifeInv
    OBVIOUS
  <1>. USE DEF Init
  <1>1. Types
    <2>1. call \in [Callers -> Requests]
      BY DEF Requests
    <2>2. bot \in Seq(Commands)
      OBVIOUS
    <2>3. stray \subseteq Commands /\ lastPings \in Nat
      OBVIOUS
    <2>. QED
      BY <2>1, <2>2, <2>3 DEF Types
  <1>2. LastTick
    BY DEF LastTick, Closing, Over
  <1>3. OnlyRegisters /\ RegisterFirst
    BY DEF OnlyRegisters, RegisterFirst, Closing, Callers, NoCall
  <1>. QED
    BY <1>1, <1>2, <1>3 DEF LifeInv

LEMMA TypesStep ==
  ASSUME Types, [Next]_vars
  PROVE  Types'
  <1>. USE DEF Types, Callers, Requests, NoCall, Commands, At, Alive, loop, registry
  <1>1. CASE Initialise \/ Warm \/ StartServer
    BY <1>1 DEF Initialise, Warm, StartServer
  <1>2. CASE Register
    BY <1>2 DEF Register, Send
  <1>3. CASE Registered
    BY <1>3 DEF Registered, Acknowledged
  <1>4. CASE StartRelay
    BY <1>4 DEF StartRelay
  <1>5. CASE Notify
    BY <1>5 DEF Notify
  <1>6. CASE Shutdown
    <2>1. call' \in [Callers -> Requests]
      <3>1. CASE relay
        BY <1>6, <3>1, SendTypes, "main" \in Callers, "unregister" \in Commands
           DEF Shutdown, Unregisters
      <3>2. CASE ~relay
        BY <1>6, <3>2 DEF Shutdown
      <3>. QED
        BY <3>1, <3>2
    <2>2. main' \in {"unregister", "stop"} /\ cancelled' \in BOOLEAN /\ lastPings' \in Nat
      <3>1. CASE relay
        BY <1>6, <3>1 DEF Shutdown, Unregisters, Cancel
      <3>2. CASE ~relay
        BY <1>6, <3>2 DEF Shutdown
      <3>. QED
        BY <3>1, <3>2
    <2>. QED
      BY <1>6, <2>1, <2>2 DEF Shutdown
  <1>7. CASE Unregistered
    BY <1>7 DEF Unregistered, Acknowledged, Failed
  <1>8. CASE StopAll \/ Return
    BY <1>8 DEF StopAll, Return
  <1>9. CASE Signal \/ Die \/ \E l \in {"socks", "relay"} : Listens(l)
    BY <1>9 DEF Signal, Die, Listens
  <1>10. CASE Tick \/ LoopEnds
    BY <1>10 DEF Tick, LoopEnds, Done
  <1>11. CASE Ping
    <2>1. call' \in [Callers -> Requests]
      BY <1>11, SendTypes, "pinger" \in Callers, "ping" \in Commands DEF Ping
    <2>2. lastPings' \in Nat
      BY <1>11 DEF Ping
    <2>3. UNCHANGED <<relay, main, cancelled, stray, bot>> /\ tick' = FALSE
      BY <1>11 DEF Ping
    <2>. QED
      BY <2>1, <2>2, <2>3
  <1>12. CASE Pinged
    BY <1>12 DEF Pinged, Acknowledged, Failed
  <1>13. CASE DeliverStray
    BY <1>13 DEF DeliverStray
  <1>14. CASE UNCHANGED nodeVars
    BY <1>14 DEF nodeVars
  <1>15. ASSUME NEW c \in Callers, Deliver(c) PROVE Types'
    BY <1>15 DEF Deliver
  <1>. QED
    BY <1>1, <1>2, <1>3, <1>4, <1>5, <1>6, <1>7, <1>8,
       <1>9, <1>10, <1>11, <1>12, <1>13, <1>14, <1>15 DEF Next, Main, Connections, vars

LEMMA TickStep ==
  ASSUME Types, LastTick, [Next]_vars
  PROVE  LastTick'
  <1>. USE DEF Types, LastTick, Closing, Over, At, Alive, loop, registry
  <1>1. CASE Initialise \/ Warm \/ StartServer
    BY <1>1 DEF Initialise, Warm, StartServer
  <1>2. CASE Register
    BY <1>2 DEF Register, Send
  <1>3. CASE Registered
    BY <1>3 DEF Registered, Acknowledged
  <1>4. CASE StartRelay
    BY <1>4 DEF StartRelay
  <1>5. CASE Notify
    BY <1>5 DEF Notify
  <1>6. CASE Shutdown
    <2>1. CASE relay
      BY <1>6, <2>1 DEF Shutdown, Cancel, Unregisters, Send
    <2>2. CASE ~relay
      BY <1>6, <2>2 DEF Shutdown
    <2>. QED
      BY <2>1, <2>2
  <1>7. CASE Unregistered
    BY <1>7 DEF Unregistered, Acknowledged, Failed
  <1>8. CASE StopAll \/ Return
    BY <1>8 DEF StopAll, Return
  <1>9. CASE Signal \/ Die \/ \E l \in {"socks", "relay"} : Listens(l)
    BY <1>9 DEF Signal, Die, Listens
  <1>10. CASE Tick \/ LoopEnds
    BY <1>10 DEF Tick, LoopEnds, Done
  <1>11. CASE Ping
    BY <1>11 DEF Ping, Send
  <1>12. CASE Pinged
    BY <1>12 DEF Pinged, Acknowledged, Failed
  <1>13. CASE DeliverStray
    BY <1>13 DEF DeliverStray
  <1>14. CASE UNCHANGED nodeVars
    BY <1>14 DEF nodeVars
  <1>15. ASSUME NEW c \in Callers, Deliver(c) PROVE LastTick'
    BY <1>15 DEF Deliver
  <1>. QED
    BY <1>1, <1>2, <1>3, <1>4, <1>5, <1>6, <1>7, <1>8,
       <1>9, <1>10, <1>11, <1>12, <1>13, <1>14, <1>15 DEF Next, Main, Connections, vars

LEMMA RegisterStep ==
  ASSUME Types, LastTick, OnlyRegisters, RegisterFirst, [Next]_vars
  PROVE  OnlyRegisters' /\ RegisterFirst'
  <1>. USE DEF Types, LastTick, OnlyRegisters, RegisterFirst, Closing, Over, Callers, Requests, NoCall, Commands, At, Alive, loop, registry
  <1>1. CASE Initialise \/ Warm \/ StartServer
    <2>1. UNCHANGED registry /\ UNCHANGED loop /\ relay' = relay
      BY <1>1 DEF Initialise, Warm, StartServer
    <2>2. main' \in {"warm", "listen", "flags"} \/ (main' = "notify" /\ ~relay)
      BY <1>1 DEF Initialise, Warm, StartServer
    <2>. QED
      BY <2>1, <2>2
  <1>2. CASE Register
    BY <1>2 DEF Register, Send
  <1>3. CASE Registered
    BY <1>3 DEF Registered, Acknowledged
  <1>4. CASE StartRelay
    BY <1>4 DEF StartRelay
  <1>5. CASE Notify
    BY <1>5 DEF Notify
  <1>6. CASE Shutdown
    BY <1>6 DEF Shutdown, Cancel, Unregisters, Send
  <1>7. CASE Unregistered
    BY <1>7 DEF Unregistered, Acknowledged, Failed
  <1>8. CASE StopAll \/ Return
    <2>1. UNCHANGED registry /\ UNCHANGED loop /\ relay' = relay
      BY <1>8 DEF StopAll, Return
    <2>2. main \in {"stop", "return"} /\ main' \in {"return", "exited"}
      BY <1>8 DEF StopAll, Return
    <2>. QED
      BY <2>1, <2>2
  <1>9. CASE Signal \/ Die \/ \E l \in {"socks", "relay"} : Listens(l)
    <2>1. UNCHANGED registry /\ UNCHANGED loop /\ relay' = relay
      BY <1>9 DEF Signal, Die, Listens
    <2>2. main' = main \/ main' = "killed"
      BY <1>9 DEF Signal, Die, Listens
    <2>. QED
      BY <2>1, <2>2
  <1>10. CASE Tick \/ LoopEnds
    BY <1>10 DEF Tick, LoopEnds, Done
  <1>11. CASE Ping
    BY <1>11 DEF Ping, Send
  <1>12. CASE Pinged
    BY <1>12 DEF Pinged, Acknowledged, Failed
  <1>13. CASE DeliverStray
    BY <1>13 DEF DeliverStray
  <1>14. CASE UNCHANGED nodeVars
    BY <1>14 DEF nodeVars
  <1>15. ASSUME NEW c \in Callers, Deliver(c) PROVE OnlyRegisters' /\ RegisterFirst'
    BY <1>15 DEF Deliver
  <1>. QED
    BY <1>1, <1>2, <1>3, <1>4, <1>5, <1>6, <1>7, <1>8,
       <1>9, <1>10, <1>11, <1>12, <1>13, <1>14, <1>15 DEF Next, Main, Connections, vars

LEMMA LifeAlways == Spec => []LifeInv
  <1>1. LifeInv /\ [Next]_vars => LifeInv'
    BY TypesStep, TickStep, RegisterStep DEF LifeInv
  <1>. QED
    BY InitLife, <1>1, PTL DEF Spec

(* The registry hears of the node first by its registration.                *)
THEOREM RegistersFirst == Spec => []RegisterFirst
  <1>1. LifeInv => RegisterFirst
    BY DEF LifeInv
  <1>. QED
    BY <1>1, LifeAlways, PTL

(* At most one ping is under way or begun once the loop is cancelled.       *)
THEOREM OneLastPing == Spec => []OnePingAfterCancel
  <1>1. LifeInv => OnePingAfterCancel
    BY DEF LifeInv, LastTick, OnePingAfterCancel, Closing
  <1>. QED
    BY <1>1, LifeAlways, PTL
=============================================================================
