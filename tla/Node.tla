-------------------------------- MODULE Node --------------------------------
(***************************************************************************)
(* The life of the program: main (main.go:57-228), the registry of relay     *)
(* nodes behind the VK bot (vk_client.go) with its ping loop, and the        *)
(* connections it serves meanwhile (ConnTable).                             *)
(*                                                                         *)
(* A call of the VK API is a request that is delivered to the bot, once, or *)
(* lost, and a response that may be lost too; after 15 s the caller gives up *)
(* and the request may still be delivered.                                  *)
(***************************************************************************)
EXTENDS ConnTable, Integers, Sequences

CONSTANTS MaxPings   \* bound: pings begun

Callers == {"main", "pinger"}
Command == [main |-> {"register", "unregister"}, pinger |-> {"ping"}]
Commands == {"register", "ping", "unregister"}
NoCall  == [cmd |-> "none", state |-> "none"]

VARIABLES
    relay,      \* --relay
    main,       \* where main is; "exited" or "killed" at the end
    serving,    \* listeners: the subset of {"socks", "relay"} that accepts
    pinger,     \* "none", "select", "calling" or "ended"
    tick,       \* a tick is in the ticker's channel
    cancelled,  \* ctx of the ping loop
    signalled,  \* a signal is in main's channel
    call,       \* caller -> [cmd, state] of its request
    stray,      \* requests given up by their caller, still under way
    bot,        \* the commands delivered to the bot, in order
    pings,      \* pings begun
    lastPings   \* history: pings under way since the loop was cancelled

nodeVars == <<relay, main, serving, pinger, tick, cancelled, signalled,
              call, stray, bot, pings, lastPings>>
vars == <<connVars, nodeVars>>
registry == <<call, stray, bot>>
loop == <<pinger, tick, pings, lastPings>>

Requests == {NoCall} \cup [cmd : Commands, state : {"sent", "delivered"}]
Over == {"exited", "killed"}

TypeOK ==
    /\ ConnTypeOK
    /\ relay \in BOOLEAN
    /\ main \in {"init", "warm", "listen", "flags", "register", "relay", "notify",
                 "await", "unregister", "stop", "return"} \cup Over
    /\ serving \subseteq {"socks", "relay"}
    /\ pinger \in {"none", "select", "calling", "ended"}
    /\ tick \in BOOLEAN /\ cancelled \in BOOLEAN /\ signalled \in BOOLEAN
    /\ call \in [Callers -> Requests]
    /\ \A c \in Callers : call[c].cmd \in Command[c] \cup {"none"}
    /\ stray \subseteq Commands
    /\ bot \in Seq(Commands)
    /\ pings \in Nat /\ lastPings \in Nat

Init ==
    /\ ConnInit
    /\ relay \in BOOLEAN
    /\ main = "init" /\ serving = {}
    /\ pinger = "none" /\ tick = FALSE /\ cancelled = FALSE /\ signalled = FALSE
    /\ call = [c \in Callers |-> NoCall]
    /\ stray = {} /\ bot = <<>>
    /\ pings = 0 /\ lastPings = 0

Alive == main \notin Over

(* main has received its signal, and has not returned.                      *)
Closing == {"unregister", "stop", "return"}
-----------------------------------------------------------------------------
(* Requests and responses.                                                  *)
Send(c, cmd) == call' = [call EXCEPT ![c] = [cmd |-> cmd, state |-> "sent"]]

Deliver(c) ==
    /\ call[c].state = "sent"
    /\ call' = [call EXCEPT ![c].state = "delivered"]
    /\ bot' = Append(bot, call[c].cmd)
    /\ UNCHANGED <<connVars, relay, main, serving, loop, cancelled, signalled, stray>>

DeliverStray ==
    /\ \E cmd \in stray : bot' = Append(bot, cmd) /\ stray' = stray \ {cmd}
    /\ UNCHANGED <<connVars, relay, main, serving, loop, cancelled, signalled, call>>

(* sendCmd returns nil: the response is there.                              *)
Acknowledged(c, cmd) ==
    /\ call[c] = [cmd |-> cmd, state |-> "delivered"]
    /\ call' = [call EXCEPT ![c] = NoCall]
    /\ UNCHANGED <<stray, bot>>

(* sendCmd returns an error: the request or its response is lost, or late.  *)
Failed(c, cmd) ==
    /\ call[c].cmd = cmd
    /\ call' = [call EXCEPT ![c] = NoCall]
    /\ \/ stray' = stray
       \/ call[c].state = "sent" /\ stray' = stray \cup {cmd}
    /\ UNCHANGED bot
-----------------------------------------------------------------------------
(* main                                                                     *)
At(l, next) == main = l /\ main' = next

(* Flags, lists, token and manager; then the instances for IoT are warmed.  *)
Initialise ==
    /\ At("init", "warm")
    /\ UNCHANGED <<connVars, relay, serving, loop, cancelled, signalled, registry>>

Warm ==
    /\ At("warm", "listen")
    /\ UNCHANGED <<connVars, relay, serving, loop, cancelled, signalled, registry>>

(* go server.ListenAndServe()                                               *)
StartServer ==
    /\ At("listen", IF relay THEN "flags" ELSE "notify")
    /\ UNCHANGED <<connVars, relay, serving, loop, cancelled, signalled, registry>>

(* The flags of relay mode are tested only now.                             *)
Register ==
    /\ At("flags", "register")
    /\ Send("main", "register")
    /\ UNCHANGED <<connVars, relay, serving, loop, cancelled, signalled, stray, bot>>

Listens(l) ==
    /\ Alive /\ l \notin serving
    /\ l = "socks" => main \notin {"init", "warm", "listen"}
    /\ l = "relay" => relay /\ main \notin {"init", "warm", "listen", "flags", "register", "relay"}
    /\ serving' = serving \cup {l}
    /\ UNCHANGED <<connVars, relay, main, loop, cancelled, signalled, registry>>

(* A name with an underscore is a definition as a plausible mistake would   *)
(* have written it; no action uses it.                                      *)
Registered_OnError ==
    /\ At("register", "relay")
    /\ Acknowledged("main", "register") \/ Failed("main", "register")
    /\ UNCHANGED <<connVars, relay, serving, loop, cancelled, signalled>>

Registered ==
    /\ At("register", "relay")
    /\ Acknowledged("main", "register")
    /\ UNCHANGED <<connVars, relay, serving, loop, cancelled, signalled>>

(* StartPingLoop, go relaySrv.ListenAndServe()                              *)
StartRelay ==
    /\ At("relay", "notify")
    /\ pinger' = "select"
    /\ UNCHANGED <<connVars, relay, serving, tick, pings, lastPings, cancelled,
                   signalled, registry>>

Notify ==
    /\ At("notify", "await")
    /\ UNCHANGED <<connVars, relay, serving, loop, cancelled, signalled, registry>>

Signal ==
    /\ main = "await" /\ ~signalled
    /\ signalled' = TRUE
    /\ UNCHANGED <<connVars, relay, main, serving, loop, cancelled, registry>>

(* cancelVK()                                                               *)
Cancel ==
    /\ cancelled' = TRUE
    /\ lastPings' = IF pinger = "calling" THEN 1 ELSE 0

Unregisters == main' = "unregister" /\ Send("main", "unregister")

(* <-sig                                                                    *)
Shutdown ==
    /\ main = "await" /\ signalled
    /\ IF relay THEN Cancel /\ Unregisters
       ELSE main' = "stop" /\ UNCHANGED <<cancelled, lastPings, call>>
    /\ UNCHANGED <<connVars, relay, serving, pinger, tick, pings, signalled, stray, bot>>

(* An error is logged, no more.                                             *)
Unregistered_OrWaits ==
    /\ At("unregister", "stop")
    /\ Acknowledged("main", "unregister")
    /\ UNCHANGED <<connVars, relay, serving, loop, cancelled, signalled>>

Unregistered ==
    /\ At("unregister", "stop")
    /\ Acknowledged("main", "unregister") \/ Failed("main", "unregister")
    /\ UNCHANGED <<connVars, relay, serving, loop, cancelled, signalled>>

(* naiveMgr.StopAll(): what it does to the processes is NaiveManager's.  It *)
(* waits for mutexes; connections are served and the loop runs meanwhile.   *)
StopAll ==
    /\ At("stop", "return")
    /\ UNCHANGED <<connVars, relay, serving, loop, cancelled, signalled, registry>>

(* main returns, and with it every goroutine.                               *)
Return ==
    /\ At("return", "exited")
    /\ serving' = {}
    /\ UNCHANGED <<connVars, relay, loop, cancelled, signalled, registry>>

(* log.Fatal in main, a signal before Notify, log.Fatal because a listener  *)
(* could not be opened, or at any time the runtime's, when goroutines of    *)
(* two connections meet in the map of preDNS: nothing is undone.            *)
Die ==
    /\ Alive
    /\ main' = "killed" /\ serving' = {}
    /\ UNCHANGED <<connVars, relay, loop, cancelled, signalled, registry>>
-----------------------------------------------------------------------------
(* The ping loop.  Ticks are 60 s apart and a ping takes 15 s at most, so   *)
(* the loop is back in its select when one comes; it does not stay there    *)
(* for 60 s once its context is done.                                       *)
Done_Unseen == FALSE
Done == cancelled

Tick ==
    /\ Alive /\ pinger = "select" /\ ~tick /\ ~Done
    /\ tick' = TRUE
    /\ UNCHANGED <<connVars, relay, main, serving, pinger, pings, lastPings, cancelled,
                   signalled, registry>>

(* Both cases of the select may be ready: either is taken.                  *)
Ping ==
    /\ Alive /\ pinger = "select" /\ tick /\ pings < MaxPings
    /\ tick' = FALSE /\ pinger' = "calling"
    /\ Send("pinger", "ping")
    /\ pings' = pings + 1
    /\ lastPings' = IF main \in Closing THEN lastPings + 1 ELSE lastPings
    /\ UNCHANGED <<connVars, relay, main, serving, cancelled, signalled, stray, bot>>

Pinged ==
    /\ Alive /\ pinger = "calling"
    /\ Acknowledged("pinger", "ping") \/ Failed("pinger", "ping")
    /\ pinger' = "select"
    /\ UNCHANGED <<connVars, relay, main, serving, tick, pings, lastPings, cancelled, signalled>>

LoopEnds ==
    /\ Alive /\ pinger = "select" /\ Done
    /\ pinger' = "ended"
    /\ UNCHANGED <<connVars, relay, main, serving, tick, pings, lastPings, cancelled,
                   signalled, registry>>
-----------------------------------------------------------------------------
(* Connections are served as long as the program runs, also while it shuts  *)
(* down.                                                                    *)
Connections == Alive /\ "socks" \in serving /\ ConnNext /\ UNCHANGED nodeVars

Main == Initialise \/ Warm \/ StartServer \/ Register \/ Registered \/ StartRelay \/ Notify
          \/ Shutdown \/ Unregistered \/ StopAll \/ Return

Next ==
    \/ Main \/ Signal \/ Die
    \/ \E l \in {"socks", "relay"} : Listens(l)
    \/ Tick \/ Ping \/ Pinged \/ LoopEnds
    \/ \E c \in Callers : Deliver(c)
    \/ DeliverStray
    \/ Connections

Spec == Init /\ [][Next]_vars

(* main runs, its calls end in 15 s and StopAll does (NaiveManager's        *)
(* SweepEnds).                                                              *)
FairSpec == Spec /\ WF_vars(Main)
-----------------------------------------------------------------------------
(* The bot hears of the node by its registration first: nothing is sent     *)
(* before that is acknowledged (main.go:163-171, vk_client.go:107-135).     *)
RegisterFirst == bot # <<>> => bot[1] = "register"

(* At most one ping is under way, or begun, once the node unregisters: the  *)
(* loop may still choose a waiting tick, but only once (main.go:217-224,    *)
(* vk_client.go:165-182).                                                   *)
OnePingAfterCancel == main \in Closing \cup {"exited"} => lastPings <= 1

(* A signal ends the program, whatever the registry does                    *)
(* (main.go:210-228, vk_client.go:54).                                      *)
SignalEnds == signalled ~> ~Alive
-----------------------------------------------------------------------------
(* What makes OnePingAfterCancel inductive: the loop that has been cancelled *)
(* can only use up the tick it had,                                         *)
LastTick ==
    /\ pinger = "calling" => ~tick
    /\ main \in {"flags", "register", "relay"} => relay
    /\ ~relay => pinger = "none"
    /\ main \in Closing /\ relay => cancelled
    /\ main \notin Closing \cup Over => lastPings = 0
    /\ main \in Closing \cup {"exited"} => lastPings = 0 \/ (lastPings = 1 /\ ~tick)

(* and RegisterFirst: until the registration is acknowledged there is no    *)
(* other request, and then it has been delivered.                           *)
OnlyRegisters ==
    \/ bot # <<>>
    \/ /\ pinger = "none" /\ call["pinger"] = NoCall
       /\ call["main"].cmd \in {"none", "register"} /\ call["main"].state # "delivered"
       /\ stray \subseteq {"register"}
       /\ main \in {"relay", "notify", "await"} \cup Closing => ~relay

NodeInv == TypeOK /\ NoStaleEntry /\ LastTick /\ OnlyRegisters /\ RegisterFirst
=============================================================================
