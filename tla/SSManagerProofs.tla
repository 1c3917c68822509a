-------------------------- MODULE SSManagerProofs --------------------------
(* The safety of the OwOSS client for any number of callers and sessions.   *)
EXTENDS SSManager, FiniteSetTheorems, TLAPS

USE SSAssumption

(* The core invariant holds initially.                                     *)
LEMMA InitCore == Init => Core
  BY DEF Init, Core, TypeOK, DialOnlyWhenDead, RetrySound, RefsSound

(* Taking the lock in ensureSession and in the reset of m.session.          *)
LEMMA LocksKeep ==
    ASSUME Core, NEW c \in Callers, Locks(c)
    PROVE  Core'
<1>1. CASE UseCurrent(c)
  BY <1>1 DEF UseCurrent, Goto, Usable, IsClosed, Core, TypeOK,
     DialOnlyWhenDead, RetrySound, RefsSound
<1>2. CASE BeginDial(c)
  BY <1>2 DEF BeginDial, Goto, Usable, IsClosed, Core, TypeOK, DialOnlyWhenDead,
     RetrySound, RefsSound
<1>3. CASE Reset(c)
  BY <1>3 DEF Reset, ForgetSession, Goto, Usable, Core, TypeOK,
     DialOnlyWhenDead, RetrySound, RefsSound
<1> QED BY <1>1, <1>2, <1>3 DEF Locks

(* The end of dialNewSession: nobody else was dialling, so nobody's view of *)
(* a missing session becomes stale.                                         *)
LEMMA DialEndsKeeps ==
    ASSUME Core, NEW c \in Callers, DialEnds(c)
    PROVE  Core'
<1>1. CASE DialOk(c)
  BY <1>1 DEF DialOk, Release, Goto, Usable, IsClosed, Core, TypeOK,
     DialOnlyWhenDead, RetrySound, RefsSound
<1>2. CASE DialFails(c)
  BY <1>2 DEF DialFails, Release, Return, Goto, Usable, IsClosed, Core, TypeOK,
     DialOnlyWhenDead, RetrySound, RefsSound
<1> QED BY <1>1, <1>2 DEF DialEnds

(* The steps of a caller that do not touch the shared state.                *)
LEMMA LocalKeeps ==
    ASSUME Core, NEW c \in Callers, Dial(c) \/ Proceeds(c) \/ Done(c)
    PROVE  Core'
<1>1. CASE Dial(c)
  BY <1>1 DEF Dial, Goto, Usable, IsClosed, Core, TypeOK, DialOnlyWhenDead,
     RetrySound, RefsSound
<1>2. CASE OpenStreamOk(c)
  BY <1>2 DEF OpenStreamOk, Goto, Usable, IsClosed, Core, TypeOK,
     DialOnlyWhenDead, RetrySound, RefsSound
<1>3. CASE OpenStreamFails(c)
  <2>1. TypeOK'
    BY <1>3 DEF OpenStreamFails, Return, Goto, Core, TypeOK
  <2>2. DialOnlyWhenDead'
    BY <1>3 DEF OpenStreamFails, Return, Goto, TypeOK, Usable, IsClosed, Core,
       DialOnlyWhenDead
  <2>3. RetrySound'
    BY <1>3 DEF OpenStreamFails, Return, Goto, TypeOK, Core, RetrySound
  <2>4. RefsSound'
    BY <1>3 DEF OpenStreamFails, Return, Goto, TypeOK, DialOnlyWhenDead, Core,
       RefsSound
  <2> QED BY <2>1, <2>2, <2>3, <2>4 DEF Core
<1>4. CASE SetupOk(c)
  BY <1>4 DEF SetupOk, Goto, Usable, IsClosed, Core, TypeOK, DialOnlyWhenDead,
     RetrySound, RefsSound
<1>5. CASE SetupFails(c) \/ Done(c)
  <2>1. TypeOK'
    BY <1>5 DEF SetupFails, Done, Return, Goto, Core, TypeOK
  <2>2. DialOnlyWhenDead'
    BY <1>5 DEF SetupFails, Done, Return, Goto, TypeOK, Usable, IsClosed, Core,
       DialOnlyWhenDead
  <2>3. RetrySound'
    BY <1>5 DEF SetupFails, Done, Return, Goto, TypeOK, Core, RetrySound
  <2>4. RefsSound'
    BY <1>5 DEF SetupFails, Done, Return, Goto, TypeOK, DialOnlyWhenDead, Core,
       RefsSound
  <2> QED BY <2>1, <2>2, <2>3, <2>4 DEF Core
<1> QED BY <1>1, <1>2, <1>3, <1>4, <1>5 DEF Proceeds

(* The end of a session, from either side.                                  *)
LEMMA EndsKeep ==
    ASSUME Core, Close \/ \E s \in Sessions : Break(s) \/ Expire(s)
    PROVE  Core'
<1>1. CASE Close
  BY <1>1 DEF Close, Usable, IsClosed, Core, TypeOK, DialOnlyWhenDead,
     RetrySound, RefsSound
<1>2. ASSUME NEW s \in Sessions, Break(s) PROVE Core'
  BY <1>2 DEF Break, Usable, IsClosed, Core, TypeOK, DialOnlyWhenDead,
     RetrySound, RefsSound
<1>3. ASSUME NEW s \in Sessions, Expire(s) PROVE Core'
  BY <1>3 DEF Expire, Usable, IsClosed, Core, TypeOK, DialOnlyWhenDead,
     RetrySound, RefsSound
<1> QED BY <1>1, <1>2, <1>3

(* The core invariant is inductive.                                         *)
LEMMA CoreKept ==
    ASSUME Core, [Next]_vars
    PROVE  Core'
<1>1. CASE Next
  BY <1>1, LocksKeep, DialEndsKeeps, LocalKeeps, EndsKeep DEF Next
<1>2. CASE UNCHANGED vars
  BY <1>2 DEF vars, Usable, IsClosed, Core, TypeOK, DialOnlyWhenDead,
     RetrySound, RefsSound
<1> QED BY <1>1, <1>2

(* As long as no session has failed, every dialled session is the cached    *)
(* one: a dial finds no session at all, and nobody is about to forget it.   *)
LEMMA HealthyKept ==
    ASSUME IInv, [Next]_vars
    PROVE  HealthyShared'
<1>1. CASE UNCHANGED vars
  BY <1>1 DEF vars, IInv, HealthyShared
<1>2. ASSUME NEW c \in Callers, Locks(c) PROVE HealthyShared'
  BY <1>2 DEF Locks, UseCurrent, BeginDial, Reset, Goto, IInv, Core, TypeOK, HealthyShared
<1>3. ASSUME NEW c \in Callers, DialOk(c) PROVE HealthyShared'
  <2> SUFFICES ASSUME \A s \in Sessions : sstate'[s] \in {"unused", "live"}
               PROVE  /\ \A s \in Sessions : sstate'[s] # "unused" => s = session'
                      /\ \A x \in Callers : pc'[x] # "reset"
    BY DEF HealthyShared
  <2>1. PICK n \in Sessions : /\ sstate[n] = "unused" /\ session' = n
                             /\ sstate' = [sstate EXCEPT ![n] = "live"]
    BY <1>3 DEF DialOk
  <2>2. \A s \in Sessions : sstate[s] \in {"unused", "live"}
    BY <2>1 DEF IInv, Core, TypeOK
  <2>3. session = None
    BY <1>3, <2>2 DEF DialOk, Usable, IsClosed, IInv, Core, TypeOK, DialOnlyWhenDead
  <2>4. \A s \in Sessions : sstate[s] = "unused"
    BY <2>2, <2>3 DEF IInv, HealthyShared
  <2>5. \A x \in Callers : pc'[x] # "reset"
    BY <1>3, <2>2 DEF DialOk, Goto, IInv, Core, TypeOK, HealthyShared
  <2> QED BY <2>1, <2>4, <2>5 DEF IInv, Core, TypeOK
<1>4. ASSUME NEW c \in Callers, DialFails(c) \/ Dial(c) \/ Done(c) PROVE HealthyShared'
  BY <1>4 DEF DialFails, Dial, Done, Return, Goto, IInv, Core, TypeOK, HealthyShared
<1>5. ASSUME NEW c \in Callers, Proceeds(c) PROVE HealthyShared'
  BY <1>5 DEF Proceeds, OpenStreamOk, OpenStreamFails, SetupOk, SetupFails, Return,
     Goto, IInv, Core, TypeOK, RetrySound, RefsSound, HealthyShared
<1>6. CASE Close
  BY <1>6 DEF Close, IInv, Core, TypeOK, HealthyShared
<1>7. ASSUME NEW s \in Sessions, Break(s) \/ Expire(s) PROVE HealthyShared'
  BY <1>7 DEF Break, Expire, IInv, Core, TypeOK, HealthyShared
<1> QED BY <1>1, <1>2, <1>3, <1>4, <1>5, <1>6, <1>7 DEF Next, DialEnds

(* A failed session stays failed, so whoever was failed by one still may    *)
(* say so when it comes to forget m.session.                                *)
LEMMA FailedKept ==
    ASSUME IInv, [Next]_vars
    PROVE  FailedBefore'
<1> USE DEF IInv, Core, TypeOK, FailedBefore
<1>1. CASE UNCHANGED vars
  BY <1>1 DEF vars
<1>2. ASSUME NEW c \in Callers, Locks(c) PROVE FailedBefore'
  BY <1>2 DEF Locks, UseCurrent, BeginDial, Reset, Goto
<1>3. ASSUME NEW c \in Callers, DialOk(c) PROVE FailedBefore'
  BY <1>3 DEF DialOk, Goto, RetrySound
<1>4. ASSUME NEW c \in Callers, DialFails(c) \/ Dial(c) \/ Done(c) PROVE FailedBefore'
  BY <1>4 DEF DialFails, Dial, Done, Return, Goto
<1>5. ASSUME NEW c \in Callers, Proceeds(c) PROVE FailedBefore'
  BY <1>5 DEF Proceeds, OpenStreamOk, OpenStreamFails, SetupOk, SetupFails, Return,
     Goto, RetrySound, RefsSound
<1>6. CASE Close
  BY <1>6 DEF Close, RetrySound
<1>7. ASSUME NEW s \in Sessions, Break(s) \/ Expire(s) PROVE FailedBefore'
  BY <1>7 DEF Break, Expire, RetrySound
<1> QED BY <1>1, <1>2, <1>3, <1>4, <1>5, <1>6, <1>7 DEF Next, DialEnds

(* The inductive invariant holds in every reachable state                   *)
(* (ss_manager.go:95-252).                                                  *)
THEOREM Invariance == Spec => []IInv
<1>1. Init => IInv
  BY InitCore DEF Init, IInv, HealthyShared, FailedBefore
<1>2. IInv /\ [Next]_vars => IInv'
  BY CoreKept, HealthyKept, FailedKept DEF IInv
<1> QED BY <1>1, <1>2, PTL DEF Spec

(* One goroutine dials at a time, holding m.mu, and only while there is no  *)
(* usable session.                                                          *)
THEOREM DialsOnlyWhenDead == Spec => []DialOnlyWhenDead
<1>1. IInv => DialOnlyWhenDead
  BY DEF IInv, Core
<1> QED BY <1>1, Invariance, PTL

(* A caller's retry gets another session than the one that failed it.       *)
THEOREM RetriesGetAnother == Spec => RetryGetsAnother
<1>1. ASSUME IInv, [Next]_vars, NEW c \in Callers,
             pc[c] # "open", pc'[c] = "open", retried[c]
      PROVE  sess'[c] # sess[c]
  <2>1. CASE UseCurrent(c)
    BY <1>1, <2>1 DEF UseCurrent, IInv, Core, TypeOK, RetrySound
  <2>2. CASE DialOk(c)
    BY <1>1, <2>2 DEF DialOk, Release, IInv, Core, TypeOK, RetrySound, RefsSound
  <2>3. UseCurrent(c) \/ DialOk(c)
    BY <1>1 DEF Next, vars, Dial, Locks, DialEnds, Proceeds, Done, Close, Break,
       Expire, UseCurrent, BeginDial, Reset, DialOk, DialFails, Release,
       OpenStreamOk, OpenStreamFails, SetupOk, SetupFails, Return, Goto, IInv, Core, TypeOK
  <2> QED BY <2>1, <2>2, <2>3
<1>2. IInv /\ [Next]_vars =>
        [\A c \in Callers :
           pc[c] # "open" /\ pc'[c] = "open" /\ retried[c] => sess'[c] # sess[c]]_vars
  BY <1>1
<1> QED BY <1>2, Invariance, PTL DEF Spec, RetryGetsAnother

(* A session that is alive is dropped only by a caller that another session *)
(* failed, or by Close: a dial replaces none that is usable, and the        *)
(* caller's own session has failed while this one has not.                  *)
THEOREM LiveDroppedByOthers == Spec => LiveDroppedOnlyByOthers
<1> DEFINE Dropped == session # None /\ sstate[session] = "live" /\ session' # session
           ByOther == \/ sstate'[session] = "closed"
                      \/ \E c \in Callers : /\ pc[c] = "reset" /\ pc'[c] = "ensure"
                                            /\ sess[c] # session
<1>1. ASSUME IInv, [Next]_vars, Dropped PROVE ByOther
  <2>1. CASE Close
    BY <1>1, <2>1 DEF Close, IInv, Core, TypeOK
  <2>2. ASSUME NEW c \in Callers, Reset(c) PROVE ByOther
    BY <1>1, <2>2 DEF Reset, Goto, IInv, Core, TypeOK, FailedBefore
  <2>3. ASSUME NEW c \in Callers, DialOk(c) PROVE FALSE
    BY <1>1, <2>3 DEF DialOk, Usable, IsClosed, IInv, Core, DialOnlyWhenDead
  <2>4. Close \/ \E c \in Callers : Reset(c) \/ DialOk(c)
    BY <1>1 DEF Next, vars, Dial, Locks, DialEnds, Proceeds, Done, Break, Expire,
       UseCurrent, BeginDial, DialFails, OpenStreamOk, OpenStreamFails, SetupOk, SetupFails
  <2> QED BY <2>1, <2>2, <2>3, <2>4
<1>2. IInv /\ [Next]_vars =>
        [session # None /\ sstate[session] = "live" /\ session' # session =>
           \/ sstate'[session] = "closed"
           \/ \E c \in Callers : pc[c] = "reset" /\ pc'[c] = "ensure" /\ sess[c] # session]_vars
  BY <1>1
<1> QED BY <1>2, Invariance, PTL DEF Spec, LiveDroppedOnlyByOthers

(* Concurrent Dials share one session until a session fails or is closed.   *)
THEOREM OneSessionShared == Spec => []ShareOneSession
<1>1. ASSUME IInv PROVE ShareOneSession
  <2> DEFINE used == {s \in Sessions : sstate[s] # "unused"}
  <2> SUFFICES ASSUME \A s \in Sessions : sstate[s] \in {"unused", "live"}
               PROVE  Cardinality(used) <= 1
    BY DEF ShareOneSession
  <2>1. used = {} \/ used = {session}
    BY <1>1 DEF IInv, HealthyShared
  <2>2. Cardinality({}) = 0 /\ Cardinality({session}) = 1
    BY FS_EmptySet, FS_Singleton
  <2> QED BY <2>1, <2>2
<1> QED BY <1>1, Invariance, PTL
=============================================================================
