------------------------- MODULE NaiveManagerProofs -------------------------
(* The safety of the naive pool, for any number of keys, callers, processes *)
(* and restarts: one lemma per action, then the theorems.                   *)
EXTENDS NaiveManager, TLAPS

USE NaiveAssumption
USE DEF Maybe, mapVars, instVars, procVars, callVars, lifeVars

(* The state of a program that has just started satisfies the invariant.    *)
LEMMA InitIInv == Init => IInv
  BY DEF Init, Nobody, Zeros, Never, IInv, TypeOK, CallerRefs, LockHeld, MapSound,
     PortsDistinct, ProcsSound, ServedByOwnSni, ReadyIsWatched, SpawnUndisturbed,
     MappedReadyIsUnkilled

(* A handler asks for a key.                                                *)
LEMMA CallKeeps ==
    ASSUME IInv, NEW c \in Callers, NEW k \in Keys, Call(c, k)
    PROVE  IInv'
<1>1. TypeOK'
  BY DEF IInv, TypeOK, Call
<1>2. (MapSound /\ PortsDistinct /\ ReadyIsWatched /\ MappedReadyIsUnkilled)'
  BY DEF IInv, MapSound, PortsDistinct, ReadyIsWatched, MappedReadyIsUnkilled,
     Call
<1>3. CallerRefs'
  BY DEF IInv, TypeOK, CallerRefs, Call
<1>4. LockHeld'
  BY DEF IInv, TypeOK, LockHeld, Call
<1>5. ProcsSound'
  BY DEF IInv, TypeOK, ProcsSound, Call
<1>6. ServedByOwnSni'
  BY DEF IInv, TypeOK, ServedByOwnSni, Call
<1>7. SpawnUndisturbed'
  BY DEF IInv, TypeOK, SpawnUndisturbed, Call
<1> QED BY <1>1, <1>2, <1>3, <1>4, <1>5, <1>6, <1>7 DEF IInv

(* The critical section on m.mu: a created instance is one nobody refers to *)
(* yet, and takes a port above every port in use.                           *)
LEMMA LookupKeeps ==
    ASSUME IInv, NEW c \in Callers, Lookup(c)
    PROVE  IInv'
<1>1. TypeOK'
  <2>1. PICK i \in Insts :
          /\ \/ UNCHANGED <<instances, portNext, ikey, iport, idle>>
             \/ Create(ckey[c], i)
          /\ cinst' = [cinst EXCEPT ![c] = i]
    BY DEF Lookup
  <2>2. portNext \in Nat /\ ckey[c] \in Maybe(Keys)
    BY DEF IInv, TypeOK
  <2>3. CASE UNCHANGED <<instances, portNext, ikey, iport, idle>>
    BY <2>1, <2>3 DEF IInv, TypeOK, Lookup
  <2>4. CASE Create(ckey[c], i)
    <3>1. portNext' \in Nat
      BY <2>2, <2>4 DEF Create, NextPort
    <3>2. /\ instances' \in [Keys -> Maybe(Insts)] /\ ikey' \in [Insts -> Maybe(Keys)]
          /\ iport' \in [Insts -> Nat] /\ idle' \in [Insts -> BOOLEAN]
      BY <2>2, <2>4 DEF IInv, TypeOK, Create
    <3>3. cinst' \in [Callers -> Maybe(Insts)] /\ pc' \in [Callers -> {"idle", "want",
                 "found", "waiting", "got", "connected"}]
      BY <2>1 DEF IInv, TypeOK, Lookup
    <3> QED BY <3>1, <3>2, <3>3 DEF IInv, TypeOK, Lookup
  <2> QED BY <2>1, <2>3, <2>4
<1>2. ReadyIsWatched'
  BY DEF IInv, ReadyIsWatched, Lookup, Create, NextPort, Unused
<1>3. CallerRefs'
  BY DEF IInv, TypeOK, CallerRefs, MapSound, Lookup, Create, NextPort, Unused
<1>4. LockHeld'
  BY DEF IInv, TypeOK, LockHeld, Lookup, Create, NextPort, Unused
<1>5. MapSound'
  BY DEF IInv, TypeOK, MapSound, Lookup, Create, NextPort, Unused
<1>6. PortsDistinct'
  <2>1. PICK i \in Insts : \/ UNCHANGED <<portNext, ikey, iport>>
                           \/ Create(ckey[c], i)
    BY DEF Lookup
  <2>2. CASE UNCHANGED <<portNext, ikey, iport>>
    BY <2>2 DEF IInv, PortsDistinct
  <2>3. CASE Create(ckey[c], i)
    <3>1. portNext \in Nat /\ portNext' = portNext + 1
      BY <2>3 DEF IInv, TypeOK, Create, NextPort
    <3>2. iport \in [Insts -> Nat] /\ iport'[i] = portNext
      BY <2>3 DEF IInv, TypeOK, Create
    <3>3. \A j \in Insts \ {i} : ikey'[j] = ikey[j] /\ iport'[j] = iport[j]
      BY <2>3 DEF IInv, TypeOK, Create
    <3> QED
      BY <3>1, <3>2, <3>3 DEF IInv, PortsDistinct
  <2> QED BY <2>1, <2>2, <2>3
<1>7. ProcsSound'
  BY DEF IInv, TypeOK, ProcsSound, Lookup, Create, NextPort, Unused
<1>8. ServedByOwnSni'
  BY DEF IInv, TypeOK, ServedByOwnSni, Lookup, Create, NextPort, Unused
<1>9. SpawnUndisturbed'
  BY DEF IInv, TypeOK, SpawnUndisturbed, Lookup, Create, NextPort, Unused
<1>10. MappedReadyIsUnkilled'
  BY DEF IInv, TypeOK, MappedReadyIsUnkilled, ProcsSound, ReadyIsWatched,
     Lookup, Create, NextPort, Unused
<1> QED BY <1>1, <1>2, <1>3, <1>4, <1>5, <1>6, <1>7, <1>8, <1>9,
        <1>10 DEF IInv

(* A ready instance is handed out.                                          *)
LEMMA ReuseKeeps ==
    ASSUME IInv, NEW c \in Callers, Reuse(c)
    PROVE  IInv'
<1>1. TypeOK'
  BY DEF IInv, TypeOK, Reuse, HasInst
<1>2. (MapSound /\ PortsDistinct /\ ReadyIsWatched /\ MappedReadyIsUnkilled)'
  BY DEF IInv, MapSound, PortsDistinct, ReadyIsWatched, MappedReadyIsUnkilled,
     Reuse, HasInst
<1>3. CallerRefs'
  BY DEF IInv, TypeOK, CallerRefs, Reuse, HasInst
<1>4. LockHeld'
  BY DEF IInv, TypeOK, LockHeld, Reuse, HasInst
<1>5. ProcsSound'
  BY DEF IInv, TypeOK, ProcsSound, Reuse, HasInst
<1>6. ServedByOwnSni'
  BY DEF IInv, TypeOK, ServedByOwnSni, Reuse, HasInst
<1>7. SpawnUndisturbed'
  BY DEF IInv, TypeOK, SpawnUndisturbed, Reuse, HasInst
<1> QED BY <1>1, <1>2, <1>3, <1>4, <1>5, <1>6, <1>7 DEF IInv

(* A process is started: it is one that no instance, caller or monitor still*)
(* refers to, and the lock keeps the instance to the caller from here on.   *)
LEMMA BeginSpawnKeeps ==
    ASSUME IInv, NEW c \in Callers, BeginSpawn(c)
    PROVE  IInv'
<1>1. TypeOK'
  BY DEF IInv, TypeOK, CallerRefs, BeginSpawn, MustSpawn, HasInst,
     StartProcess, NotReady, Fresh
<1>2. (MapSound /\ PortsDistinct)'
  BY DEF IInv, MapSound, PortsDistinct, BeginSpawn, MustSpawn, HasInst,
     StartProcess, NotReady, Fresh
<1>3. CallerRefs'
  BY DEF IInv, TypeOK, CallerRefs, BeginSpawn, MustSpawn, HasInst,
     StartProcess, NotReady, Fresh
<1>4. LockHeld'
  BY DEF IInv, TypeOK, LockHeld, BeginSpawn, MustSpawn, HasInst, StartProcess,
     NotReady, Fresh
<1>5. ProcsSound'
  BY DEF IInv, TypeOK, ProcsSound, CallerRefs, BeginSpawn, MustSpawn, HasInst,
     StartProcess, NotReady, Fresh
<1>6. ServedByOwnSni'
  BY DEF IInv, TypeOK, ServedByOwnSni, ProcsSound, BeginSpawn, MustSpawn,
     HasInst, StartProcess, NotReady, Fresh
<1>7. ReadyIsWatched'
  BY DEF IInv, TypeOK, ReadyIsWatched, ProcsSound, BeginSpawn, MustSpawn,
     HasInst, StartProcess, NotReady, Fresh
<1>8. SpawnUndisturbed'
  BY DEF IInv, TypeOK, SpawnUndisturbed, BeginSpawn, MustSpawn, HasInst,
     StartProcess, NotReady, Fresh
<1>9. MappedReadyIsUnkilled'
  BY DEF IInv, TypeOK, MappedReadyIsUnkilled, BeginSpawn, MustSpawn, HasInst,
     StartProcess, NotReady, Fresh
<1> QED BY <1>1, <1>2, <1>3, <1>4, <1>5, <1>6, <1>7, <1>8, <1>9 DEF IInv

(* Writing the configuration or starting the process fails.                 *)
LEMMA SpawnFailsKeeps ==
    ASSUME IInv, NEW c \in Callers, SpawnFails(c)
    PROVE  IInv'
<1>1. TypeOK'
  BY DEF IInv, TypeOK, SpawnFails, MustSpawn, HasInst
<1>2. (MapSound /\ PortsDistinct /\ ReadyIsWatched /\ MappedReadyIsUnkilled)'
  BY DEF IInv, MapSound, PortsDistinct, ReadyIsWatched, MappedReadyIsUnkilled,
     SpawnFails, MustSpawn, HasInst
<1>3. CallerRefs'
  BY DEF IInv, TypeOK, CallerRefs, SpawnFails, MustSpawn, HasInst
<1>4. LockHeld'
  BY DEF IInv, TypeOK, LockHeld, SpawnFails, MustSpawn, HasInst
<1>5. ProcsSound'
  BY DEF IInv, TypeOK, ProcsSound, SpawnFails, MustSpawn, HasInst
<1>6. ServedByOwnSni'
  BY DEF IInv, TypeOK, ServedByOwnSni, SpawnFails, MustSpawn, HasInst
<1>7. SpawnUndisturbed'
  BY DEF IInv, TypeOK, SpawnUndisturbed, SpawnFails, MustSpawn, HasInst
<1> QED BY <1>1, <1>2, <1>3, <1>4, <1>5, <1>6, <1>7 DEF IInv

(* The port answers: the process, undisturbed so far, gets its monitor.     *)
LEMMA WaitOkKeeps ==
    ASSUME IInv, NEW c \in Callers, WaitOk(c)
    PROVE  IInv'
<1>1. TypeOK'
  BY DEF IInv, TypeOK, WaitOk, StartMonitor, Unlock
<1>2. (MapSound /\ PortsDistinct)'
  BY DEF IInv, MapSound, PortsDistinct, WaitOk, StartMonitor, Unlock
<1>3. CallerRefs'
  BY DEF IInv, TypeOK, CallerRefs, WaitOk, StartMonitor, Unlock
<1>4. LockHeld'
  BY DEF IInv, TypeOK, LockHeld, WaitOk, StartMonitor, Unlock
<1>5. ProcsSound'
  BY DEF IInv, TypeOK, ProcsSound, WaitOk, StartMonitor, Unlock
<1>6. ServedByOwnSni'
  BY DEF IInv, TypeOK, ServedByOwnSni, WaitOk, StartMonitor, Unlock
<1>7. ReadyIsWatched'
  BY DEF IInv, TypeOK, ReadyIsWatched, CallerRefs, SpawnUndisturbed, WaitOk,
     StartMonitor, Unlock
<1>8. SpawnUndisturbed'
  BY DEF IInv, TypeOK, SpawnUndisturbed, WaitOk, StartMonitor, Unlock
<1>9. MappedReadyIsUnkilled'
  BY DEF IInv, TypeOK, MappedReadyIsUnkilled, SpawnUndisturbed, WaitOk,
     StartMonitor, Unlock
<1> QED BY <1>1, <1>2, <1>3, <1>4, <1>5, <1>6, <1>7, <1>8, <1>9 DEF IInv

(* The port stays silent: what is killed belongs to an instance that is not *)
(* ready, so no ready instance loses its process.                           *)
LEMMA WaitTimeoutKeeps ==
    ASSUME IInv, NEW c \in Callers, WaitTimeout(c)
    PROVE  IInv'
<1>1. TypeOK'
  BY DEF IInv, TypeOK, WaitTimeout, Unlock
<1>2. (MapSound /\ PortsDistinct /\ ReadyIsWatched)'
  BY DEF IInv, MapSound, PortsDistinct, ReadyIsWatched, WaitTimeout, Unlock
<1>3. CallerRefs'
  BY DEF IInv, TypeOK, CallerRefs, WaitTimeout, Unlock
<1>4. LockHeld'
  BY DEF IInv, TypeOK, LockHeld, WaitTimeout, Unlock
<1>5. ProcsSound'
  BY DEF IInv, TypeOK, ProcsSound, WaitTimeout, Unlock
<1>6. ServedByOwnSni'
  BY DEF IInv, TypeOK, ServedByOwnSni, WaitTimeout, Unlock
<1>7. SpawnUndisturbed'
  BY DEF IInv, TypeOK, SpawnUndisturbed, CallerRefs, ProcsSound, WaitTimeout,
     Unlock
<1>8. MappedReadyIsUnkilled'
  BY DEF IInv, TypeOK, MappedReadyIsUnkilled, CallerRefs, ProcsSound,
     SpawnUndisturbed, WaitTimeout, Unlock
<1> QED BY <1>1, <1>2, <1>3, <1>4, <1>5, <1>6, <1>7, <1>8 DEF IInv

(* Whoever listens on the instance's port was started by that instance,     *)
(* because no two instances share a port, or by an earlier manager.         *)
LEMMA DialKeeps ==
    ASSUME IInv, NEW c \in Callers, Dial(c)
    PROVE  IInv'
<1>1. TypeOK'
  BY DEF IInv, TypeOK, Dial, Listens
<1>2. (MapSound /\ PortsDistinct /\ ReadyIsWatched /\ MappedReadyIsUnkilled)'
  BY DEF IInv, MapSound, PortsDistinct, ReadyIsWatched, MappedReadyIsUnkilled,
     Dial, Listens
<1>3. CallerRefs'
  BY DEF IInv, TypeOK, CallerRefs, Dial, Listens
<1>4. LockHeld'
  BY DEF IInv, TypeOK, LockHeld, Dial, Listens
<1>5. ProcsSound'
  BY DEF IInv, TypeOK, ProcsSound, Dial, Listens
<1>6. ServedByOwnSni'
  BY DEF IInv, TypeOK, ServedByOwnSni, CallerRefs, PortsDistinct, ProcsSound,
     Dial, Listens
<1>7. SpawnUndisturbed'
  BY DEF IInv, TypeOK, SpawnUndisturbed, Dial, Listens
<1> QED BY <1>1, <1>2, <1>3, <1>4, <1>5, <1>6, <1>7 DEF IInv

(* A handler is done.                                                       *)
LEMMA FinishKeeps ==
    ASSUME IInv, NEW c \in Callers, pc[c] \in {"got", "connected"}, Finish(c)
    PROVE  IInv'
<1>1. TypeOK'
  BY DEF IInv, TypeOK, Finish
<1>2. (MapSound /\ PortsDistinct /\ ReadyIsWatched /\ MappedReadyIsUnkilled)'
  BY DEF IInv, MapSound, PortsDistinct, ReadyIsWatched, MappedReadyIsUnkilled,
     Finish
<1>3. CallerRefs'
  BY DEF IInv, TypeOK, CallerRefs, Finish
<1>4. LockHeld'
  BY DEF IInv, TypeOK, LockHeld, Finish
<1>5. ProcsSound'
  BY DEF IInv, TypeOK, ProcsSound, Finish
<1>6. ServedByOwnSni'
  BY DEF IInv, TypeOK, ServedByOwnSni, Finish
<1>7. SpawnUndisturbed'
  BY DEF IInv, TypeOK, SpawnUndisturbed, Finish
<1> QED BY <1>1, <1>2, <1>3, <1>4, <1>5, <1>6, <1>7 DEF IInv

(* A process opens its port.                                                *)
LEMMA BindKeeps ==
    ASSUME IInv, NEW p \in Procs, Bind(p)
    PROVE  IInv'
<1>1. TypeOK'
  BY DEF IInv, TypeOK, Bind
<1>2. (CallerRefs /\ LockHeld /\ MapSound /\ PortsDistinct
       /\ ServedByOwnSni /\ ReadyIsWatched /\ SpawnUndisturbed /\ MappedReadyIsUnkilled)'
  BY DEF IInv, CallerRefs, LockHeld, MapSound, PortsDistinct, ServedByOwnSni,
     ReadyIsWatched, SpawnUndisturbed, MappedReadyIsUnkilled, Bind
<1>3. ProcsSound'
  BY DEF IInv, TypeOK, ProcsSound, Bind
<1> QED BY <1>1, <1>2, <1>3 DEF IInv

(* A process ends.                                                          *)
LEMMA ExitsKeeps ==
    ASSUME IInv, NEW p \in Procs, Exits(p)
    PROVE  IInv'
<1>1. TypeOK'
  BY DEF IInv, TypeOK, Exits
<1>2. (CallerRefs /\ LockHeld /\ MapSound /\ PortsDistinct
       /\ ServedByOwnSni /\ ReadyIsWatched /\ SpawnUndisturbed /\ MappedReadyIsUnkilled)'
  BY DEF IInv, CallerRefs, LockHeld, MapSound, PortsDistinct, ServedByOwnSni,
     ReadyIsWatched, SpawnUndisturbed, MappedReadyIsUnkilled, Exits
<1>3. ProcsSound'
  BY DEF IInv, TypeOK, ProcsSound, Exits
<1> QED BY <1>1, <1>2, <1>3 DEF IInv

(* cmd.Wait returns.                                                        *)
LEMMA ReapKeeps ==
    ASSUME IInv, NEW p \in Procs, Reap(p)
    PROVE  IInv'
<1>1. TypeOK'
  BY DEF IInv, TypeOK, Reap
<1>2. (CallerRefs /\ LockHeld /\ MapSound /\ PortsDistinct /\ ProcsSound
       /\ ServedByOwnSni /\ SpawnUndisturbed /\ MappedReadyIsUnkilled)'
  BY DEF IInv, CallerRefs, LockHeld, MapSound, PortsDistinct, ProcsSound,
     ServedByOwnSni, SpawnUndisturbed, MappedReadyIsUnkilled, Reap
<1>3. ReadyIsWatched'
  BY DEF IInv, TypeOK, ReadyIsWatched, Reap
<1> QED BY <1>1, <1>2, <1>3 DEF IInv

(* The monitor clears ready of its own instance.                            *)
LEMMA ClearReadyKeeps ==
    ASSUME IInv, NEW p \in Procs, ClearReady(p)
    PROVE  IInv'
<1>1. TypeOK'
  BY DEF IInv, TypeOK, ClearReady
<1>2. (CallerRefs /\ LockHeld /\ MapSound /\ PortsDistinct /\ ProcsSound
       /\ ServedByOwnSni)'
  BY DEF IInv, CallerRefs, LockHeld, MapSound, PortsDistinct, ProcsSound,
     ServedByOwnSni, ClearReady
<1>3. ReadyIsWatched'
  BY DEF IInv, TypeOK, ReadyIsWatched, ProcsSound, ClearReady
<1>4. SpawnUndisturbed'
  BY DEF IInv, TypeOK, SpawnUndisturbed, ClearReady
<1>5. MappedReadyIsUnkilled'
  BY DEF IInv, TypeOK, MappedReadyIsUnkilled, ClearReady
<1> QED BY <1>1, <1>2, <1>3, <1>4, <1>5 DEF IInv

(* A sweep takes m.mu.                                                      *)
LEMMA BeginSweepKeeps ==
    ASSUME IInv, NEW op \in Sweeps, BeginSweep(op)
    PROVE  IInv'
<1>1. TypeOK'
  BY DEF IInv, TypeOK, BeginSweep, Mapped
<1>2. (CallerRefs /\ LockHeld /\ MapSound /\ PortsDistinct /\ ProcsSound
       /\ ServedByOwnSni /\ ReadyIsWatched /\ SpawnUndisturbed)'
  BY DEF IInv, CallerRefs, LockHeld, MapSound, PortsDistinct, ProcsSound,
     ServedByOwnSni, ReadyIsWatched, SpawnUndisturbed, BeginSweep, Mapped
<1>3. MappedReadyIsUnkilled'
  BY DEF IInv, TypeOK, MappedReadyIsUnkilled, BeginSweep, Mapped
<1> QED BY <1>1, <1>2, <1>3 DEF IInv

(* The collector kills the process of an unlocked instance and unmaps it.   *)
LEMMA GCVisitKeeps ==
    ASSUME IInv, NEW k \in Keys, GCVisit(k)
    PROVE  IInv'
<1>1. TypeOK'
  <2>1. instances' \in [Keys -> Maybe(Insts)] /\ todo' \subseteq Keys
    BY DEF IInv, TypeOK, GCVisit, Visits, Unmap, Maybe
  <2>2. killed' \in [Procs -> BOOLEAN]
    BY DEF IInv, TypeOK, GCVisit
  <2>3. UNCHANGED <<portNext, mu, instVars, pstate, pinst, pport, psni,
                    watch, callVars, lifeVars>>
    BY DEF GCVisit
  <2> QED
    BY <2>1, <2>2, <2>3 DEF IInv, TypeOK, instVars, callVars, lifeVars
<1>2. (CallerRefs /\ LockHeld /\ PortsDistinct /\ ProcsSound
       /\ ServedByOwnSni /\ ReadyIsWatched)'
  BY DEF IInv, CallerRefs, LockHeld, PortsDistinct, ProcsSound,
     ServedByOwnSni, ReadyIsWatched, GCVisit, Visits, Unmap
<1>3. MapSound'
  BY DEF IInv, TypeOK, MapSound, GCVisit, Visits, Unmap
<1>4. SpawnUndisturbed'
  BY DEF IInv, TypeOK, SpawnUndisturbed, CallerRefs, ProcsSound, GCVisit,
     Visits, Unmap
<1>5. MappedReadyIsUnkilled'
  BY DEF IInv, TypeOK, MappedReadyIsUnkilled, MapSound, ProcsSound,
     ReadyIsWatched, GCVisit, Visits, Unmap
<1> QED BY <1>1, <1>2, <1>3, <1>4, <1>5 DEF IInv

(* StopAll kills the process of an unlocked instance.                       *)
LEMMA StopVisitKeeps ==
    ASSUME IInv, NEW k \in Keys, StopVisit(k)
    PROVE  IInv'
<1>1. TypeOK'
  BY DEF IInv, TypeOK, StopVisit, Visits
<1>2. (CallerRefs /\ LockHeld /\ MapSound /\ PortsDistinct /\ ProcsSound
       /\ ServedByOwnSni /\ ReadyIsWatched)'
  BY DEF IInv, CallerRefs, LockHeld, MapSound, PortsDistinct, ProcsSound,
     ServedByOwnSni, ReadyIsWatched, StopVisit, Visits
<1>3. SpawnUndisturbed'
  BY DEF IInv, TypeOK, SpawnUndisturbed, CallerRefs, ProcsSound, StopVisit,
     Visits
<1>4. MappedReadyIsUnkilled'
  BY DEF IInv, TypeOK, MappedReadyIsUnkilled, MapSound, ProcsSound,
     ReadyIsWatched, StopVisit, Visits
<1> QED BY <1>1, <1>2, <1>3, <1>4 DEF IInv

(* Status reads an instance.                                                *)
LEMMA StatusVisitKeeps ==
    ASSUME IInv, NEW k \in Keys, StatusVisit(k)
    PROVE  IInv'
<1>1. TypeOK'
  BY DEF IInv, TypeOK, StatusVisit, Visits
<1>2. (CallerRefs /\ LockHeld /\ MapSound /\ PortsDistinct /\ ProcsSound
       /\ ServedByOwnSni /\ ReadyIsWatched /\ SpawnUndisturbed)'
  BY DEF IInv, CallerRefs, LockHeld, MapSound, PortsDistinct, ProcsSound,
     ServedByOwnSni, ReadyIsWatched, SpawnUndisturbed, StatusVisit, Visits
<1>3. MappedReadyIsUnkilled'
  BY DEF IInv, TypeOK, MappedReadyIsUnkilled, StatusVisit, Visits
<1> QED BY <1>1, <1>2, <1>3 DEF IInv

(* A sweep releases m.mu.                                                   *)
LEMMA EndSweepKeeps ==
    ASSUME IInv, EndSweep
    PROVE  IInv'
<1>1. TypeOK'
  BY DEF IInv, TypeOK, EndSweep, Nobody
<1>2. (CallerRefs /\ LockHeld /\ PortsDistinct /\ ProcsSound
       /\ ServedByOwnSni /\ ReadyIsWatched /\ SpawnUndisturbed)'
  BY DEF IInv, CallerRefs, LockHeld, PortsDistinct, ProcsSound,
     ServedByOwnSni, ReadyIsWatched, SpawnUndisturbed, EndSweep, Nobody
<1>3. MapSound'
  BY DEF IInv, TypeOK, MapSound, EndSweep, Nobody
<1>4. MappedReadyIsUnkilled'
  BY DEF IInv, TypeOK, MappedReadyIsUnkilled, EndSweep, Nobody
<1> QED BY <1>1, <1>2, <1>3, <1>4 DEF IInv

(* Time passes.                                                             *)
LEMMA AgeKeeps ==
    ASSUME IInv, NEW i \in Insts, Age(i)
    PROVE  IInv'
<1>1. TypeOK'
  BY DEF IInv, TypeOK, Age
<1>2. (CallerRefs /\ LockHeld /\ MapSound /\ PortsDistinct /\ ProcsSound
       /\ ServedByOwnSni /\ ReadyIsWatched /\ SpawnUndisturbed /\ MappedReadyIsUnkilled)'
  BY DEF IInv, CallerRefs, LockHeld, MapSound, PortsDistinct, ProcsSound,
     ServedByOwnSni, ReadyIsWatched, SpawnUndisturbed, MappedReadyIsUnkilled,
     Age
<1> QED BY <1>1, <1>2 DEF IInv

(* The manager's memory is gone, the processes are not.                     *)
LEMMA ExitKeeps ==
    ASSUME IInv, Exit
    PROVE  IInv'
<1>1. TypeOK'
  BY DEF IInv, TypeOK, Exit, Nobody, Zeros, Never
<1>2. CallerRefs'
  BY DEF IInv, TypeOK, CallerRefs, Exit, Nobody, Zeros, Never
<1>3. LockHeld'
  BY DEF IInv, TypeOK, LockHeld, Exit, Nobody, Zeros, Never
<1>4. MapSound'
  BY DEF IInv, TypeOK, MapSound, Exit, Nobody, Zeros, Never
<1>5. PortsDistinct'
  BY DEF IInv, TypeOK, PortsDistinct, Exit, Nobody, Zeros, Never
<1>6. ProcsSound'
  BY DEF IInv, TypeOK, ProcsSound, Exit, Nobody, Zeros, Never
<1>7. ServedByOwnSni'
  BY DEF IInv, TypeOK, ServedByOwnSni, Exit, Nobody, Zeros, Never
<1>8. ReadyIsWatched'
  BY DEF IInv, TypeOK, ReadyIsWatched, Exit, Nobody, Zeros, Never
<1>9. SpawnUndisturbed'
  BY DEF IInv, TypeOK, SpawnUndisturbed, Exit, Nobody, Zeros, Never
<1>10. MappedReadyIsUnkilled'
  BY DEF IInv, TypeOK, MappedReadyIsUnkilled, Exit, Nobody, Zeros, Never
<1> QED BY <1>1, <1>2, <1>3, <1>4, <1>5, <1>6, <1>7, <1>8, <1>9,
        <1>10 DEF IInv

(* A new manager starts.                                                    *)
LEMMA RestartKeeps ==
    ASSUME IInv, Restart
    PROVE  IInv'
<1>1. TypeOK'
  BY DEF IInv, TypeOK, Restart
<1>2. (CallerRefs /\ LockHeld /\ MapSound /\ PortsDistinct /\ ProcsSound
       /\ ServedByOwnSni /\ ReadyIsWatched /\ SpawnUndisturbed /\ MappedReadyIsUnkilled)'
  BY DEF IInv, CallerRefs, LockHeld, MapSound, PortsDistinct, ProcsSound,
     ServedByOwnSni, ReadyIsWatched, SpawnUndisturbed, MappedReadyIsUnkilled,
     Restart
<1> QED BY <1>1, <1>2 DEF IInv

(* A step that changes nothing keeps the invariant.                         *)
LEMMA StutterKeeps ==
    ASSUME IInv, UNCHANGED vars
    PROVE  IInv'
  BY DEF vars, IInv, TypeOK, CallerRefs, LockHeld, MapSound, PortsDistinct, ProcsSound,
     ServedByOwnSni, ReadyIsWatched, SpawnUndisturbed, MappedReadyIsUnkilled

(* The invariant is inductive.                                              *)
LEMMA NextKeeps ==
    ASSUME IInv, [Next]_vars
    PROVE  IInv'
<1>1. ASSUME NEW c \in Callers, CallerStep(c) PROVE IInv'
  <2>1. CASE \E k \in Keys : Call(c, k)      BY <2>1, CallKeeps
  <2>2. CASE Lookup(c)                       BY <2>2, LookupKeeps
  <2>3. CASE TakeLock(c)
    BY <2>3, ReuseKeeps, BeginSpawnKeeps, SpawnFailsKeeps DEF TakeLock
  <2>4. CASE WaitEnds(c)                     BY <2>4, WaitOkKeeps, WaitTimeoutKeeps DEF WaitEnds
  <2>5. CASE Dial(c)                         BY <2>5, DialKeeps
  <2>6. CASE DialFails(c)                    BY <2>6, FinishKeeps DEF DialFails
  <2>7. CASE Hangup(c)                       BY <2>7, FinishKeeps DEF Hangup
  <2> QED BY <1>1, <2>1, <2>2, <2>3, <2>4, <2>5, <2>6, <2>7 DEF CallerStep
<1>2. ASSUME NEW p \in Procs, ProcStep(p) PROVE IInv'
  BY <1>2, BindKeeps, ExitsKeeps, ReapKeeps, ClearReadyKeeps DEF ProcStep, BindFails, Die
<1>3. CASE SweepStep
  BY <1>3, BeginSweepKeeps, GCVisitKeeps, StopVisitKeeps, StatusVisitKeeps, EndSweepKeeps
     DEF SweepStep, Visit
<1>4. ASSUME NEW i \in Insts, Age(i) PROVE IInv'
  BY <1>4, AgeKeeps
<1>5. CASE Exit \/ Restart
  BY <1>5, ExitKeeps, RestartKeeps
<1>6. CASE UNCHANGED vars
  BY <1>6, StutterKeeps
<1> QED BY <1>1, <1>2, <1>3, <1>4, <1>5, <1>6 DEF Next

(* The inductive invariant holds in every reachable state, whatever the     *)
(* interleaving of callers, monitors, sweeps, crashes and restarts          *)
(* (naive_manager.go:88-290).                                               *)
THEOREM Invariance == Spec => []IInv
<1>1. Init => IInv
  BY InitIInv
<1>2. IInv /\ [Next]_vars => IInv'
  BY NextKeeps
<1> QED BY <1>1, <1>2, PTL DEF Spec

(* Every variable of the pool keeps its type.                               *)
THEOREM TypeCorrect == Spec => []TypeOK
<1>1. IInv => TypeOK
  BY DEF IInv
<1> QED BY <1>1, Invariance, PTL

(* A connected handler talks to a process configured with the SNI it asked  *)
(* for, unless an earlier run of the manager left that process behind.      *)
THEOREM OwnSniServed == Spec => []ServedByOwnSni
<1>1. IInv => ServedByOwnSni
  BY DEF IInv
<1> QED BY <1>1, Invariance, PTL

(* Every ready instance has a monitor that will notice its process end.     *)
THEOREM ReadyWatched == Spec => []ReadyIsWatched
<1>1. IInv => ReadyIsWatched
  BY DEF IInv
<1> QED BY <1>1, Invariance, PTL

(* Nothing touches a spawn while its caller waits for the port.             *)
THEOREM SpawnsUndisturbed == Spec => []SpawnUndisturbed
<1>1. IInv => SpawnUndisturbed
  BY DEF IInv
<1> QED BY <1>1, Invariance, PTL

(* The map never leads to a ready instance whose process was killed, but    *)
(* for what StopAll is about to drop.                                       *)
THEOREM MappedReadyUnkilled == Spec => []MappedReadyIsUnkilled
<1>1. IInv => MappedReadyIsUnkilled
  BY DEF IInv
<1> QED BY <1>1, Invariance, PTL
=============================================================================
