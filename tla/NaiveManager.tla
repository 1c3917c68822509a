---------------------------- MODULE NaiveManager ----------------------------
(***************************************************************************)
(* The pool of external "naive" proxy processes (naive_manager.go) with    *)
(* the goroutines that use it: SOCKS5 handlers asking for an upstream, the *)
(* idle collector, the status ticker, shutdown, and one monitor goroutine  *)
(* per process.                                                            *)
(*                                                                         *)
(* An instance is the Go object behind a key (an SNI, or "sni|shardN"); it *)
(* owns a port for ever.  A process is what exec.Cmd started for it; it    *)
(* carries the port and the SNI of the configuration file written for it   *)
(* and survives the manager.  NaiveManager.mu is `mu`; naiveInstance.mu is *)
(* `lock`, recorded only where a goroutine keeps it over several steps,    *)
(* which is while spawnWithApp waits for the port.                         *)
(***************************************************************************)
EXTENDS Integers, FiniteSets

CONSTANTS
    Keys,           \* keys of m.instances
    Snis,           \* decoy names
    SniOf,          \* the SNI of a key: several shard keys may share one
    Callers,        \* handler goroutines
    Insts,          \* naiveInstance objects: bounds how many keys are (re)created
    Procs,          \* operating-system processes the model keeps track of
    None,           \* nil, or "nobody"
    BasePort,       \* --baseport
    Sweeps,         \* which of "gc", "status", "stop" walk the map in this model
    NaiveMayCrash,  \* whether a naive process may exit on its own
    MayFail,        \* whether the manager may die from log.Fatalf or a signal
    MaxRestarts     \* bound on restarts of the manager

ASSUME NaiveAssumption ==
    /\ SniOf \in [Keys -> Snis]
    /\ BasePort \in Nat
    /\ MaxRestarts \in Nat
    /\ Sweeps \subseteq {"gc", "status", "stop"}
    /\ NaiveMayCrash \in BOOLEAN /\ MayFail \in BOOLEAN
    /\ None \notin Keys \cup Snis \cup Callers \cup Insts \cup Procs

VARIABLES
    instances,  \* m.instances: key -> instance or None
    portNext,   \* m.portNext
    mu,         \* holder of m.mu: "free" or the sweep that walks the map
    todo,       \* keys that sweep has not visited yet
    ikey,       \* instance -> the key it was created for, None if not created
    iport,      \* naiveInstance.port
    cmd,        \* naiveInstance.cmd
    ready,      \* naiveInstance.ready
    idle,       \* time.Since(lastUsed) > maxIdle
    lock,       \* naiveInstance.mu, while a caller keeps it
    pstate,     \* process -> "absent", "starting", "listening" or "exited"
    pinst,      \* process -> the instance whose spawn started it
    pport,      \* process -> port of its configuration file
    psni,       \* process -> reality-sni of its configuration file
    killed,     \* process -> Process.Kill was called
    watch,      \* process -> its monitor goroutine: "none", "waiting" in
                \* cmd.Wait, "reaped" (Wait returned), "done" (ready cleared)
    pc,         \* caller -> where it is
    ckey,       \* caller -> key asked for
    cinst,      \* caller -> instance it looked up
    cproc,      \* caller -> process it spawned, then process it is connected to
    phase,      \* "up", "stopped" after StopAll, "gone" after main returned
    restarts    \* how often the manager was started again

mapVars   == <<instances, portNext, mu, todo>>
instVars  == <<ikey, iport, cmd, ready, idle, lock>>
procVars  == <<pstate, pinst, pport, psni, killed, watch>>
callVars  == <<pc, ckey, cinst, cproc>>
lifeVars  == <<phase, restarts>>
vars      == <<mapVars, instVars, procVars, callVars, lifeVars>>

Maybe(S) == S \cup {None}

TypeOK ==
    /\ instances \in [Keys -> Maybe(Insts)]
    /\ portNext \in Nat
    /\ mu \in {"free"} \cup Sweeps
    /\ todo \subseteq Keys
    /\ ikey \in [Insts -> Maybe(Keys)]
    /\ iport \in [Insts -> Nat]
    /\ cmd \in [Insts -> Maybe(Procs)]
    /\ ready \in [Insts -> BOOLEAN]
    /\ idle \in [Insts -> BOOLEAN]
    /\ lock \in [Insts -> Maybe(Callers)]
    /\ pstate \in [Procs -> {"absent", "starting", "listening", "exited"}]
    /\ pinst \in [Procs -> Maybe(Insts)]
    /\ pport \in [Procs -> Nat]
    /\ psni \in [Procs -> Maybe(Snis)]
    /\ killed \in [Procs -> BOOLEAN]
    /\ watch \in [Procs -> {"none", "waiting", "reaped", "done"}]
    /\ pc \in [Callers -> {"idle", "want", "found", "waiting", "got", "connected"}]
    /\ ckey \in [Callers -> Maybe(Keys)]
    /\ cinst \in [Callers -> Maybe(Insts)]
    /\ cproc \in [Callers -> Maybe(Procs)]
    /\ phase \in {"up", "stopped", "gone"}
    /\ restarts \in 0 .. MaxRestarts

Nobody(S) == [x \in S |-> None]
Zeros(S)  == [x \in S |-> 0]
Never(S)  == [x \in S |-> FALSE]

Init ==
    /\ instances = Nobody(Keys) /\ portNext = BasePort
    /\ mu = "free" /\ todo = {}
    /\ ikey = Nobody(Insts) /\ iport = Zeros(Insts) /\ cmd = Nobody(Insts)
    /\ ready = Never(Insts) /\ idle = Never(Insts) /\ lock = Nobody(Insts)
    /\ pstate = [p \in Procs |-> "absent"] /\ pinst = Nobody(Procs)
    /\ pport = Zeros(Procs) /\ psni = Nobody(Procs)
    /\ killed = Never(Procs) /\ watch = [p \in Procs |-> "none"]
    /\ pc = [c \in Callers |-> "idle"] /\ ckey = Nobody(Callers)
    /\ cinst = Nobody(Callers) /\ cproc = Nobody(Callers)
    /\ phase = "up" /\ restarts = 0

Alive == phase # "gone"

Unused == {i \in Insts : ikey[i] = None}

(* A process slot a spawn may take: never used, or exited, reaped or never  *)
(* watched, and no longer referred to by an instance or a caller.           *)
Fresh(p) ==
    \/ pstate[p] = "absent"
    \/ /\ pstate[p] = "exited"
       /\ watch[p] \in {"none", "done"}
       /\ \A i \in Insts : cmd[i] # p
       /\ \A c \in Callers : cproc[c] # p

Listens(p, port) == pstate[p] = "listening" /\ pport[p] = port

PortTaken(port) == \E p \in Procs : Listens(p, port)
-----------------------------------------------------------------------------
(* Callers: GetUpstreamForApp and GetUpstreamForAppShard, which differ only *)
(* in the key, and the handler around them.                                 *)

Call(c, k) ==
    /\ Alive
    /\ pc[c] = "idle"
    /\ pc' = [pc EXCEPT ![c] = "want"]
    /\ ckey' = [ckey EXCEPT ![c] = k]
    /\ UNCHANGED <<mapVars, instVars, procVars, cinst, cproc, lifeVars>>

(* A name with an underscore is a definition as a plausible mistake would   *)
(* have written it; no action uses it.                                      *)
NextPort_Stuck(n) == n
NextPort(n) == n + 1

(* An unknown key gets a new instance.  Its lastUsed is the zero time, so   *)
(* it counts as idle until the caller takes its lock.                       *)
Create(k, i) ==
    /\ i \in Unused
    /\ instances[k] = None
    /\ instances' = [instances EXCEPT ![k] = i]
    /\ portNext' = NextPort(portNext)
    /\ ikey' = [ikey EXCEPT ![i] = k]
    /\ iport' = [iport EXCEPT ![i] = portNext]
    /\ idle' = [idle EXCEPT ![i] = TRUE]

(* The critical section on m.mu: find or create the instance of the key.    *)
Lookup(c) ==
    /\ Alive
    /\ pc[c] = "want"
    /\ mu = "free"
    /\ \E i \in Insts :
         /\ \/ /\ instances[ckey[c]] = i
               /\ UNCHANGED <<instances, portNext, ikey, iport, idle>>
            \/ Create(ckey[c], i)
         /\ cinst' = [cinst EXCEPT ![c] = i]
    /\ pc' = [pc EXCEPT ![c] = "found"]
    /\ UNCHANGED <<mu, todo, cmd, ready, lock, procVars, ckey, cproc, lifeVars>>

HasInst_WithoutLock(c, i) ==
    /\ Alive
    /\ pc[c] = "found"
    /\ i = cinst[c]
HasInst(c, i) ==
    /\ Alive
    /\ pc[c] = "found"
    /\ i = cinst[c]
    /\ lock[i] = None

(* cmd.ProcessState is written by the monitor without inst.mu.  Until the   *)
(* monitor has itself taken inst.mu, a reader may see either value.         *)
MayMissExit(i) == \E p \in Procs : cmd[i] = p /\ watch[p] # "done"
MaySeeExit(i)  == \E p \in Procs : cmd[i] = p /\ watch[p] \in {"reaped", "done"}

(* inst.ready and no exit seen: lastUsed is refreshed, the port returned.   *)
Reuse(c) ==
    \E i \in Insts :
      /\ HasInst(c, i)
      /\ ready[i] /\ MayMissExit(i)
      /\ idle' = [idle EXCEPT ![i] = FALSE]
      /\ pc' = [pc EXCEPT ![c] = "got"]
      /\ UNCHANGED <<mapVars, ikey, iport, cmd, ready, lock, procVars, ckey,
                     cinst, cproc, lifeVars>>

(* The other branch of the test in GetUpstreamForApp.                       *)
MustSpawn(c, i) ==
    /\ HasInst(c, i)
    /\ ~ready[i] \/ cmd[i] = None \/ MaySeeExit(i)

NotReady_Forgotten(i) == UNCHANGED ready
NotReady(i) == ready' = [ready EXCEPT ![i] = FALSE]

(* cmd.Start: process p runs with the configuration written for instance i. *)
StartProcess(p, i) ==
    /\ Fresh(p)
    /\ pstate' = [pstate EXCEPT ![p] = "starting"]
    /\ pinst' = [pinst EXCEPT ![p] = i]
    /\ pport' = [pport EXCEPT ![p] = iport[i]]
    /\ psni' = [psni EXCEPT ![p] = SniOf[ikey[i]]]
    /\ killed' = [killed EXCEPT ![p] = FALSE]
    /\ watch' = [watch EXCEPT ![p] = "none"]

(* spawnWithApp up to waitReady; inst.mu is kept until waitReady returns.   *)
BeginSpawn(c) ==
    \E i \in Insts, p \in Procs :
      /\ MustSpawn(c, i)
      /\ StartProcess(p, i)
      /\ NotReady(i)
      /\ cmd' = [cmd EXCEPT ![i] = p]
      /\ idle' = [idle EXCEPT ![i] = FALSE]
      /\ lock' = [lock EXCEPT ![i] = c]
      /\ pc' = [pc EXCEPT ![c] = "waiting"]
      /\ cproc' = [cproc EXCEPT ![c] = p]
      /\ UNCHANGED <<mapVars, ikey, iport, ckey, cinst, lifeVars>>

(* os.WriteFile or cmd.Start fails: the caller gets the error and the       *)
(* instance keeps its old cmd and ready.                                    *)
SpawnFails(c) ==
    \E i \in Insts :
      /\ MustSpawn(c, i)
      /\ idle' = [idle EXCEPT ![i] = FALSE]
      /\ pc' = [pc EXCEPT ![c] = "idle"]
      /\ ckey' = [ckey EXCEPT ![c] = None]
      /\ cinst' = [cinst EXCEPT ![c] = None]
      /\ UNCHANGED <<mapVars, ikey, iport, cmd, ready, lock, procVars, cproc,
                     lifeVars>>

Unlock_Forgotten(i) == UNCHANGED lock
Unlock(i) == lock' = [lock EXCEPT ![i] = None]

StartMonitor_Forgotten(p) == UNCHANGED watch
StartMonitor(p) == watch' = [watch EXCEPT ![p] = "waiting"]

(* waitReady connected to the port, whichever process listens there; the    *)
(* monitor goroutine starts and the deferred unlock runs.                   *)
WaitOk(c) ==
    LET i == cinst[c] IN
      /\ Alive
      /\ pc[c] = "waiting"
      /\ PortTaken(iport[i])
      /\ ready' = [ready EXCEPT ![i] = TRUE]
      /\ StartMonitor(cproc[c])
      /\ Unlock(i)
      /\ pc' = [pc EXCEPT ![c] = "got"]
      /\ cproc' = [cproc EXCEPT ![c] = None]
      /\ UNCHANGED <<mapVars, ikey, iport, cmd, idle, pstate, pinst, pport,
                     psni, killed, ckey, cinst, lifeVars>>

(* waitReady gave up after 5 s: the process is killed but never waited for. *)
WaitTimeout(c) ==
    LET i == cinst[c] IN
      /\ Alive
      /\ pc[c] = "waiting"
      /\ killed' = [killed EXCEPT ![cproc[c]] = TRUE]
      /\ Unlock(i)
      /\ pc' = [pc EXCEPT ![c] = "idle"]
      /\ ckey' = [ckey EXCEPT ![c] = None]
      /\ cinst' = [cinst EXCEPT ![c] = None]
      /\ cproc' = [cproc EXCEPT ![c] = None]
      /\ UNCHANGED <<mapVars, ikey, iport, cmd, ready, idle, pstate, pinst,
                     pport, psni, watch, lifeVars>>

(* The handler dials the returned 127.0.0.1:port and reaches whoever        *)
(* listens there.                                                           *)
Dial(c) ==
    /\ Alive
    /\ pc[c] = "got"
    /\ \E p \in Procs :
         /\ Listens(p, iport[cinst[c]])
         /\ cproc' = [cproc EXCEPT ![c] = p]
    /\ pc' = [pc EXCEPT ![c] = "connected"]
    /\ cinst' = [cinst EXCEPT ![c] = None]
    /\ UNCHANGED <<mapVars, instVars, procVars, ckey, lifeVars>>

Finish(c) ==
    /\ pc' = [pc EXCEPT ![c] = "idle"]
    /\ ckey' = [ckey EXCEPT ![c] = None]
    /\ cinst' = [cinst EXCEPT ![c] = None]
    /\ cproc' = [cproc EXCEPT ![c] = None]
    /\ UNCHANGED <<mapVars, instVars, procVars, lifeVars>>

(* Nobody listens: the handler answers with a refusal.                      *)
DialFails(c) ==
    /\ Alive
    /\ pc[c] = "got"
    /\ ~PortTaken(iport[cinst[c]])
    /\ Finish(c)

Hangup(c) ==
    /\ Alive
    /\ pc[c] = "connected"
    /\ Finish(c)
-----------------------------------------------------------------------------
(* Processes and their monitor goroutines.                                  *)

Bind(p) ==
    /\ pstate[p] = "starting"
    /\ ~PortTaken(pport[p])
    /\ pstate' = [pstate EXCEPT ![p] = "listening"]
    /\ UNCHANGED <<mapVars, instVars, pinst, pport, psni, killed, watch,
                   callVars, lifeVars>>

Exits(p) ==
    /\ pstate' = [pstate EXCEPT ![p] = "exited"]
    /\ UNCHANGED <<mapVars, instVars, pinst, pport, psni, killed, watch,
                   callVars, lifeVars>>

(* The port is held by another naive: the process gives up.                 *)
BindFails(p) ==
    /\ pstate[p] = "starting"
    /\ PortTaken(pport[p])
    /\ Exits(p)

Die(p) ==
    /\ pstate[p] \in {"starting", "listening"}
    /\ killed[p] \/ NaiveMayCrash
    /\ Exits(p)

(* cmd.Wait returns and sets cmd.ProcessState.                              *)
Reap(p) ==
    /\ Alive
    /\ watch[p] = "waiting"
    /\ pstate[p] = "exited"
    /\ watch' = [watch EXCEPT ![p] = "reaped"]
    /\ UNCHANGED <<mapVars, instVars, pstate, pinst, pport, psni, killed,
                   callVars, lifeVars>>

(* The rest of the monitor: ready is cleared under inst.mu, whichever       *)
(* process the instance has by then.                                        *)
ClearReady(p) ==
    /\ Alive
    /\ watch[p] = "reaped"
    /\ \E i \in Insts :
         /\ i = pinst[p]
         /\ lock[i] = None
         /\ ready' = [ready EXCEPT ![i] = FALSE]
    /\ watch' = [watch EXCEPT ![p] = "done"]
    /\ UNCHANGED <<mapVars, ikey, iport, cmd, idle, lock, pstate, pinst,
                   pport, psni, killed, callVars, lifeVars>>
-----------------------------------------------------------------------------
(* The goroutines that walk the map holding m.mu and take each inst.mu.     *)

Mapped == {k \in Keys : instances[k] # None}

(* A sweep that may empty the map is started only while enough instance     *)
(* objects are left to refill it: the bound Insts.                          *)
BeginSweep(op) ==
    /\ phase = "up" \/ (phase = "stopped" /\ op # "stop")
    /\ mu = "free"
    /\ op = "gc" => Cardinality(Unused) >= Cardinality(Keys)
    /\ mu' = op
    /\ todo' = Mapped
    /\ UNCHANGED <<instances, portNext, instVars, procVars, callVars, lifeVars>>

Visits_WithoutLock(op, k, i) ==
    /\ Alive
    /\ mu = op
    /\ k \in todo
    /\ i = instances[k]
    /\ todo' = todo \ {k}
Visits(op, k, i) ==
    /\ Alive
    /\ mu = op
    /\ k \in todo
    /\ i = instances[k]
    /\ lock[i] = None
    /\ todo' = todo \ {k}

Unmap_Keep(k) == instances' = instances
Unmap(k) == instances' = [instances EXCEPT ![k] = None]

(* One turn of the loop of GCIdleInstances.  ready is left TRUE.            *)
GCVisit(k) ==
    \E i \in Insts :
      /\ Visits("gc", k, i)
      /\ IF ready[i] /\ idle[i]
         THEN Unmap(k) /\ killed' = [killed EXCEPT ![cmd[i]] = TRUE]
         ELSE UNCHANGED <<instances, killed>>
      /\ UNCHANGED <<portNext, mu, instVars, pstate, pinst, pport, psni,
                     watch, callVars, lifeVars>>

(* One turn of the loop of StopAll.                                         *)
StopVisit(k) ==
    \E i \in Insts :
      /\ Visits("stop", k, i)
      /\ killed' = IF cmd[i] # None THEN [killed EXCEPT ![cmd[i]] = TRUE] ELSE killed
      /\ UNCHANGED <<instances, portNext, mu, instVars, pstate, pinst, pport,
                     psni, watch, callVars, lifeVars>>

(* One turn of the loop of Status, which only reads.                        *)
StatusVisit(k) ==
    \E i \in Insts :
      /\ Visits("status", k, i)
      /\ UNCHANGED <<instances, portNext, mu, instVars, procVars, callVars,
                     lifeVars>>

(* The loop is over and m.mu released; StopAll starts a new map first.      *)
EndSweep ==
    /\ Alive
    /\ mu # "free"
    /\ todo = {}
    /\ mu' = "free"
    /\ IF mu = "stop"
       THEN instances' = Nobody(Keys) /\ phase' = "stopped"
       ELSE UNCHANGED <<instances, phase>>
    /\ UNCHANGED <<portNext, todo, instVars, procVars, callVars, restarts>>

(* lastUsed becomes older than maxIdle (5 minutes; waitReady lasts 5 s).    *)
Age(i) ==
    /\ Alive
    /\ ikey[i] # None /\ ~idle[i] /\ lock[i] = None
    /\ idle' = [idle EXCEPT ![i] = TRUE]
    /\ UNCHANGED <<mapVars, ikey, iport, cmd, ready, lock, procVars,
                   callVars, lifeVars>>

(* main returns after StopAll, or log.Fatalf or a signal ends the program:  *)
(* its memory and goroutines are gone, the processes are not.               *)
Exit ==
    /\ Alive
    /\ phase = "stopped" \/ MayFail
    /\ instances' = Nobody(Keys) /\ portNext' = BasePort
    /\ mu' = "free" /\ todo' = {}
    /\ ikey' = Nobody(Insts) /\ iport' = Zeros(Insts) /\ cmd' = Nobody(Insts)
    /\ ready' = Never(Insts) /\ idle' = Never(Insts) /\ lock' = Nobody(Insts)
    /\ pinst' = Nobody(Procs) /\ watch' = [p \in Procs |-> "none"]
    /\ pc' = [c \in Callers |-> "idle"] /\ ckey' = Nobody(Callers)
    /\ cinst' = Nobody(Callers) /\ cproc' = Nobody(Callers)
    /\ phase' = "gone"
    /\ UNCHANGED <<pstate, pport, psni, killed, restarts>>

(* The program is started again on the same --baseport.                     *)
Restart ==
    /\ phase = "gone"
    /\ restarts < MaxRestarts
    /\ phase' = "up"
    /\ restarts' = restarts + 1
    /\ UNCHANGED <<mapVars, instVars, procVars, callVars>>
-----------------------------------------------------------------------------
TakeLock(c) == Reuse(c) \/ BeginSpawn(c) \/ SpawnFails(c)
WaitEnds(c) == WaitOk(c) \/ WaitTimeout(c)
Visit(k)    == GCVisit(k) \/ StopVisit(k) \/ StatusVisit(k)

CallerStep(c) ==
    \/ \E k \in Keys : Call(c, k)
    \/ Lookup(c) \/ TakeLock(c) \/ WaitEnds(c)
    \/ Dial(c) \/ DialFails(c) \/ Hangup(c)

ProcStep(p) == Bind(p) \/ BindFails(p) \/ Die(p) \/ Reap(p) \/ ClearReady(p)

SweepStep ==
    \/ \E op \in Sweeps : BeginSweep(op)
    \/ \E k \in Keys : Visit(k)
    \/ EndSweep

Next ==
    \/ \E c \in Callers : CallerStep(c)
    \/ \E p \in Procs : ProcStep(p)
    \/ SweepStep
    \/ \E i \in Insts : Age(i)
    \/ Exit
    \/ Restart

Spec == Init /\ [][Next]_vars

(* Goroutines keep running; sync.Mutex hands a lock to a waiter that has    *)
(* waited for 1 ms, so whoever wants it again and again gets it (strong     *)
(* fairness); waitReady has a deadline; Wait returns for an exited process. *)
(* Nothing is assumed of processes, clients, the clock or the end.          *)
Fairness ==
    /\ \A c \in Callers : SF_vars(Lookup(c)) /\ SF_vars(TakeLock(c)) /\ WF_vars(WaitEnds(c))
    /\ \A p \in Procs : WF_vars(Reap(p)) /\ SF_vars(ClearReady(p))
    /\ \A k \in Keys : SF_vars(Visit(k))
    /\ WF_vars(EndSweep)

FairSpec == Spec /\ Fairness
-----------------------------------------------------------------------------
(* A handler that asked for a key is connected to a process configured with *)
(* that key's SNI, however ports, respawns, collections and detached        *)
(* instances interleave -- unless the process was left by an earlier run of *)
(* the manager (naive_manager.go:88-118, 154-212).                          *)
ServedByOwnSni ==
    \A c \in Callers :
      pc[c] = "connected" /\ pinst[cproc[c]] # None => psni[cproc[c]] = SniOf[ckey[c]]

(* An instance is never called ready on behalf of a process nobody waits    *)
(* for, so its death will be noticed (naive_manager.go:193-210).            *)
ReadyIsWatched ==
    \A i \in Insts :
      ready[i] => cmd[i] # None /\ watch[cmd[i]] \in {"waiting", "reaped"}

(* While a caller waits for the port, nobody else touches what it spawned:  *)
(* the instance keeps that cmd, is not ready, and the process is not killed *)
(* by a sweep or a second caller (naive_manager.go:105-106, 198-202).       *)
SpawnUndisturbed ==
    \A c \in Callers :
      pc[c] = "waiting" =>
        /\ lock[cinst[c]] = c
        /\ cmd[cinst[c]] = cproc[c]
        /\ ~ready[cinst[c]]
        /\ ~killed[cproc[c]]

(* A key found in the map never leads to a ready instance whose process the *)
(* manager itself has killed, except in the part of the map StopAll has     *)
(* visited before it drops the map (naive_manager.go:237-241, 262-271).     *)
MappedReadyIsUnkilled ==
    \A k \in Keys, i \in Insts :
      /\ instances[k] = i /\ ready[i]
      /\ ~(mu = "stop" /\ k \notin todo)
      => ~killed[cmd[i]]

(* Every GetUpstream call returns: no lost unlock, no cycle between m.mu    *)
(* and the inst.mu that sweeps take under it (naive_manager.go:91-117).     *)
CallReturns ==
    \A c \in Callers : pc[c] = "want" ~> pc[c] \in {"got", "idle"}

(* The death of a ready instance's process is noticed: ready falls or the   *)
(* process is replaced (naive_manager.go:204-210).                          *)
DeadIsNoticed ==
    \A i \in Insts, p \in Procs :
      ready[i] /\ cmd[i] = p /\ pstate[p] = "exited" ~> ~(ready[i] /\ cmd[i] = p)

(* A sweep over the map ends and gives m.mu back although it waits for      *)
(* every inst.mu while callers hold them (naive_manager.go:232-244).        *)
SweepEnds == mu # "free" ~> mu = "free"

(* "One process per SNI" (naive_manager.go:29): two live processes that the *)
(* manager has not killed never carry the same SNI.                         *)
OneProcessPerSni ==
    \A p, q \in Procs :
      /\ {pstate[p], pstate[q]} \subseteq {"starting", "listening"}
      /\ ~killed[p] /\ ~killed[q]
      /\ psni[p] = psni[q]
      => p = q

-----------------------------------------------------------------------------
(* The inductive invariant behind the safety properties, in named parts.    *)

(* What callers refer to exists and is of the key they asked for.           *)
CallerRefs ==
    \A c \in Callers :
      /\ pc[c] # "idle" => ckey[c] \in Keys
      /\ pc[c] \in {"found", "waiting", "got"} =>
           cinst[c] \in Insts /\ ikey[cinst[c]] = ckey[c]
      /\ pc[c] \in {"waiting", "connected"} => cproc[c] \in Procs

(* inst.mu is kept exactly by the callers inside spawnWithApp.              *)
LockHeld ==
    \A i \in Insts, c \in Callers :
      lock[i] = c => pc[c] = "waiting" /\ cinst[c] = i

(* m.instances leads to the instance created for the key.                   *)
MapSound == \A k \in Keys, i \in Insts : instances[k] = i => ikey[i] = k

(* No two instances share a port, and m.portNext is above all of them.      *)
PortsDistinct ==
    /\ \A i \in Insts : ikey[i] # None => iport[i] < portNext
    /\ \A i, j \in Insts : ikey[i] # None /\ ikey[j] # None /\ iport[i] = iport[j] => i = j

(* A process runs with the port and the SNI of the instance that started    *)
(* it, and an instance's cmd was started for that instance.                 *)
ProcsSound ==
    /\ \A p \in Procs, i \in Insts :
         pinst[p] = i => ikey[i] # None /\ pport[p] = iport[i] /\ psni[p] = SniOf[ikey[i]]
    /\ \A p \in Procs, i \in Insts :
         cmd[i] = p => pinst[p] = i /\ pstate[p] # "absent"
    /\ \A c \in Callers : pc[c] = "connected" => pstate[cproc[c]] # "absent"

(* The safety properties with what makes them inductive.                    *)
IInv ==
    /\ TypeOK /\ CallerRefs /\ LockHeld /\ MapSound /\ PortsDistinct /\ ProcsSound
    /\ ServedByOwnSni /\ ReadyIsWatched /\ SpawnUndisturbed /\ MappedReadyIsUnkilled
=============================================================================
