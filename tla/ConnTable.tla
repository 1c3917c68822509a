----------------------------- MODULE ConnTable -----------------------------
(***************************************************************************)
(* SOCKS5Server.activeConns (socks5_server.go:113-130, 682-686): one entry   *)
(* for each remote address.  A handler may outlive its client's socket, and  *)
(* then a new connection may come from the same address.                    *)
(***************************************************************************)
CONSTANTS Handlers, Addrs, Nobody

ASSUME ConnAssumption == Nobody \notin Handlers \cup Addrs

VARIABLES
    open,    \* handlers whose client has its socket open
    remote,  \* handler -> address of its connection, or Nobody
    stage,   \* handler -> "idle", "accepted" or "serving"
    active   \* address -> the handler whose stats are there, or Nobody

connVars == <<open, remote, stage, active>>

ConnTypeOK ==
    /\ open \subseteq Handlers
    /\ remote \in [Handlers -> Addrs \cup {Nobody}]
    /\ stage \in [Handlers -> {"idle", "accepted", "serving"}]
    /\ active \in [Addrs -> Handlers \cup {Nobody}]

ConnInit ==
    /\ open = {}
    /\ remote = [h \in Handlers |-> Nobody]
    /\ stage = [h \in Handlers |-> "idle"]
    /\ active = [a \in Addrs |-> Nobody]

(* ln.Accept, go handleConn                                                 *)
Accept(h, a) ==
    /\ stage[h] = "idle" /\ \A g \in open : remote[g] # a
    /\ open' = open \cup {h}
    /\ remote' = [remote EXCEPT ![h] = a]
    /\ stage' = [stage EXCEPT ![h] = "accepted"]
    /\ UNCHANGED active

Enter(h) ==
    /\ stage[h] = "accepted"
    /\ stage' = [stage EXCEPT ![h] = "serving"]
    /\ active' = [active EXCEPT ![remote[h]] = h]
    /\ UNCHANGED <<open, remote>>

(* The handler need not notice.                                             *)
ClientCloses(h) ==
    /\ h \in open
    /\ open' = open \ {h}
    /\ UNCHANGED <<remote, stage, active>>

(* A name with an underscore is a definition as a plausible mistake would   *)
(* have written it; no action uses it.                                      *)
Deleted_AfterSuccess(h) ==
    IF h \in open THEN [active EXCEPT ![remote[h]] = Nobody] ELSE active

(* delete(s.activeConns, connID), whosever entry it is.                     *)
Deleted(h) == [active EXCEPT ![remote[h]] = Nobody]

Finish(h) ==
    /\ stage[h] = "serving"
    /\ active' = Deleted(h)
    /\ open' = open \ {h}
    /\ stage' = [stage EXCEPT ![h] = "idle"]
    /\ remote' = [remote EXCEPT ![h] = Nobody]

ConnNext ==
    \/ \E h \in Handlers : Enter(h) \/ ClientCloses(h) \/ Finish(h)
    \/ \E h \in Handlers, a \in Addrs : Accept(h, a)

(* An entry is that of a handler that is running at that address, although  *)
(* addresses are used again and a handler deletes what another one has      *)
(* entered: ActiveConns never reports more connections than there are, and  *)
(* none when there are none (socks5_server.go:114-130).                     *)
NoStaleEntry ==
    \A a \in Addrs : active[a] # Nobody => stage[active[a]] = "serving" /\ remote[active[a]] = a
=============================================================================
