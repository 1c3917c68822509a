------------------------------ MODULE SSManager ------------------------------
(***************************************************************************)
(* The OwOSS client (ss_manager.go): handler goroutines that open streams  *)
(* over one cached smux session, re-establish it when it is found dead,    *)
(* and retry once.  SSManager.mu is held across the whole of               *)
(* dialNewSession and is `mu`; every other critical section is one step.   *)
(*                                                                         *)
(* A session is "live"; "broken" when its socket has failed but            *)
(* IsClosed() is still false (smux reports the error to OpenStream and     *)
(* closes the session only when its keepalive expires); or "closed".       *)
(***************************************************************************)
EXTENDS Integers, FiniteSets

CONSTANTS
    Callers,         \* goroutines that call Dial
    Sessions,        \* smux.Session objects: bounds how many are established
    None,            \* nil, or "nobody"
    SessionsMayDie,  \* whether the network or the server ends a session
    MayClose         \* whether somebody calls Close (the tests do, main does not)

ASSUME SSAssumption ==
    /\ None \notin Callers \cup Sessions
    /\ SessionsMayDie \in BOOLEAN /\ MayClose \in BOOLEAN

VARIABLES
    session,  \* m.session
    mu,       \* m.mu: the caller inside dialNewSession, or None
    sstate,   \* session -> "unused", "live", "broken" or "closed"
    pc,       \* caller -> where it is in Dial
    sess,     \* caller -> the local variable of the same name
    retried   \* caller -> its one retry is under way

vars == <<session, mu, sstate, pc, sess, retried>>

TypeOK ==
    /\ session \in Sessions \cup {None}
    /\ mu \in Callers \cup {None}
    /\ sstate \in [Sessions -> {"unused", "live", "broken", "closed"}]
    /\ pc \in [Callers -> {"idle", "ensure", "dialing", "open", "reset", "setup", "using"}]
    /\ sess \in [Callers -> Sessions \cup {None}]
    /\ retried \in [Callers -> BOOLEAN]

Init ==
    /\ session = None
    /\ mu = None
    /\ sstate = [s \in Sessions |-> "unused"]
    /\ pc = [c \in Callers |-> "idle"]
    /\ sess = [c \in Callers |-> None]
    /\ retried = [c \in Callers |-> FALSE]

IsClosed(s) == sstate[s] = "closed"

(* The test at the head of ensureSession.                                   *)
Usable == session # None /\ ~IsClosed(session)

Goto(c, l) == pc' = [pc EXCEPT ![c] = l]

(* Dial returns: its local variables are gone.                              *)
Return(c) ==
    /\ Goto(c, "idle")
    /\ sess' = [sess EXCEPT ![c] = None]
    /\ retried' = [retried EXCEPT ![c] = FALSE]

Dial(c) ==
    /\ pc[c] = "idle"
    /\ Goto(c, "ensure")
    /\ UNCHANGED <<session, mu, sstate, sess, retried>>

(* ensureSession finds a session it takes for live.                         *)
UseCurrent(c) ==
    /\ pc[c] = "ensure"
    /\ mu = None
    /\ Usable
    /\ sess' = [sess EXCEPT ![c] = session]
    /\ Goto(c, "open")
    /\ UNCHANGED <<session, mu, sstate, retried>>

BeginDial_CheckedEarlier(c) ==
    /\ pc[c] = "ensure"
    /\ ~Usable
    /\ mu' = c
    /\ Goto(c, "dialing")
    /\ UNCHANGED <<session, sstate, sess, retried>>

(* ensureSession finds none and enters dialNewSession holding m.mu.         *)
BeginDial(c) ==
    /\ pc[c] = "ensure"
    /\ mu = None
    /\ ~Usable
    /\ mu' = c
    /\ Goto(c, "dialing")
    /\ UNCHANGED <<session, sstate, sess, retried>>

(* A name with an underscore is a definition as a plausible mistake would   *)
(* have written it; no action uses it.                                      *)
Release_Omitted == UNCHANGED mu
Release == mu' = None

(* TCP, TLS handshake with the signal, mode byte and smux.Client succeed;   *)
(* once all of the bound Sessions are used, only DialFails is left.         *)
DialOk(c) ==
    /\ pc[c] = "dialing"
    /\ \E s \in Sessions :
         /\ sstate[s] = "unused"
         /\ sstate' = [sstate EXCEPT ![s] = "live"]
         /\ session' = s
         /\ sess' = [sess EXCEPT ![c] = s]
    /\ Release
    /\ Goto(c, "open")
    /\ UNCHANGED retried

(* Any of those steps fails: the raw connection is closed, m.session keeps  *)
(* its old value, and Dial returns the error.                               *)
DialFails(c) ==
    /\ pc[c] = "dialing"
    /\ Release
    /\ Return(c)
    /\ UNCHANGED <<session, sstate>>

OpenStreamOk(c) ==
    /\ pc[c] = "open"
    /\ sstate[sess[c]] = "live"
    /\ Goto(c, "setup")
    /\ UNCHANGED <<session, mu, sstate, sess, retried>>

(* OpenStream fails: the first time Dial goes on to drop m.session and      *)
(* retry, the second time it returns the error.                             *)
OpenStreamFails(c) ==
    /\ pc[c] = "open"
    /\ sstate[sess[c]] # "live"
    /\ IF retried[c]
       THEN Return(c)
       ELSE Goto(c, "reset") /\ UNCHANGED <<sess, retried>>
    /\ UNCHANGED <<session, mu, sstate>>

ForgetSession_Omitted == UNCHANGED session
ForgetSession == session' = None

(* m.session = nil under m.mu, whatever session is there by now; the        *)
(* session is not closed.                                                   *)
Reset(c) ==
    /\ pc[c] = "reset"
    /\ mu = None
    /\ ForgetSession
    /\ retried' = [retried EXCEPT ![c] = TRUE]
    /\ Goto(c, "ensure")
    /\ UNCHANGED <<mu, sstate, sess>>

(* The client salt and the target address are written to the stream.        *)
SetupOk(c) ==
    /\ pc[c] = "setup"
    /\ Goto(c, "using")
    /\ UNCHANGED <<session, mu, sstate, sess, retried>>

(* Either write fails, or the target cannot be encoded: the stream is       *)
(* closed and Dial returns the error; there is no retry here.               *)
SetupFails(c) ==
    /\ pc[c] = "setup"
    /\ Return(c)
    /\ UNCHANGED <<session, mu, sstate>>

(* The handler has relayed its connection and closes the stream.            *)
Done(c) ==
    /\ pc[c] = "using"
    /\ Return(c)
    /\ UNCHANGED <<session, mu, sstate>>

(* SSManager.Close.                                                         *)
Close ==
    /\ MayClose
    /\ mu = None
    /\ session # None
    /\ sstate' = [sstate EXCEPT ![session] = "closed"]
    /\ session' = None
    /\ UNCHANGED <<mu, pc, sess, retried>>

(* The socket below a session fails.                                        *)
Break(s) ==
    /\ SessionsMayDie
    /\ sstate[s] = "live"
    /\ sstate' = [sstate EXCEPT ![s] = "broken"]
    /\ UNCHANGED <<session, mu, pc, sess, retried>>

(* smux closes a session: its keepalive expired.                            *)
Expire(s) ==
    /\ SessionsMayDie
    /\ sstate[s] \in {"live", "broken"}
    /\ sstate' = [sstate EXCEPT ![s] = "closed"]
    /\ UNCHANGED <<session, mu, pc, sess, retried>>
-----------------------------------------------------------------------------
Locks(c)    == UseCurrent(c) \/ BeginDial(c) \/ Reset(c)
DialEnds(c) == DialOk(c) \/ DialFails(c)
Proceeds(c) == OpenStreamOk(c) \/ OpenStreamFails(c) \/ SetupOk(c) \/ SetupFails(c)

Next ==
    \/ \E c \in Callers : Dial(c) \/ Locks(c) \/ DialEnds(c) \/ Proceeds(c) \/ Done(c)
    \/ Close
    \/ \E s \in Sessions : Break(s) \/ Expire(s)

Spec == Init /\ [][Next]_vars

(* sync.Mutex is starvation free.  That DialEnds is fair assumes of the     *)
(* server that a TLS handshake it has begun ends: the code gives the TCP    *)
(* connect 10 s and the handshake no deadline.                              *)
Fairness ==
    \A c \in Callers : SF_vars(Locks(c)) /\ WF_vars(DialEnds(c)) /\ WF_vars(Proceeds(c))

FairSpec == Spec /\ Fairness
-----------------------------------------------------------------------------
(* A new session is dialled by one goroutine at a time and only while the   *)
(* cached one is missing or closed, although callers race from ensureSession*)
(* through failed streams and resets (ss_manager.go:95-112, 209-212).       *)
DialOnlyWhenDead ==
    \A c \in Callers : pc[c] = "dialing" => mu = c /\ ~Usable

(* The retry is a real one: it never gets the session whose OpenStream has  *)
(* just failed, which IsClosed() may still call open (ss_manager.go:203-215)*)
RetryGetsAnother ==
    [][ \A c \in Callers :
          pc[c] # "open" /\ pc'[c] = "open" /\ retried[c] => sess'[c] # sess[c] ]_vars

(* A session that is alive is taken out of m.session only by a caller that  *)
(* was failed by another session, or by Close (ss_manager.go:209-211).      *)
LiveDroppedOnlyByOthers ==
    [][ session # None /\ sstate[session] = "live" /\ session' # session =>
          \/ sstate'[session] = "closed"
          \/ \E c \in Callers : pc[c] = "reset" /\ pc'[c] = "ensure" /\ sess[c] # session ]_vars

(* Concurrent Dials share one session: until a session has failed or been   *)
(* closed, at most one was ever dialled (ss_manager_live_test.go:72-112).   *)
ShareOneSession ==
    (\A s \in Sessions : sstate[s] \in {"unused", "live"}) =>
      Cardinality({s \in Sessions : sstate[s] # "unused"}) <= 1

(* Every Dial returns: the one retry does not become a loop and nobody      *)
(* keeps m.mu (ss_manager.go:197-238).                                      *)
DialReturns == \A c \in Callers : pc[c] = "ensure" ~> pc[c] \in {"idle", "using"}

-----------------------------------------------------------------------------
(* What makes these inductive.  A caller that is retrying still has the     *)
(* session that failed it in its local variable, and m.session is another.  *)
RetrySound ==
    \A c \in Callers :
      /\ pc[c] \in {"ensure", "dialing"} /\ retried[c] => sess[c] # None /\ session # sess[c]
      /\ pc[c] \in {"idle", "reset"} => ~retried[c]
      /\ pc[c] \in {"open", "reset", "setup", "using"} => sess[c] # None

(* Whoever holds m.mu is dialling, and sessions referred to were dialled.   *)
RefsSound ==
    /\ \A c \in Callers : mu = c => pc[c] = "dialing"
    /\ session # None => sstate[session] # "unused"
    /\ \A c \in Callers : sess[c] # None => sstate[sess[c]] # "unused"

(* While no session has failed, every session ever dialled is m.session and *)
(* nobody has seen OpenStream fail.                                         *)
HealthyShared ==
    (\A s \in Sessions : sstate[s] \in {"unused", "live"}) =>
      /\ \A s \in Sessions : sstate[s] # "unused" => s = session
      /\ \A c \in Callers : pc[c] # "reset"

(* A caller is about to forget m.session only after its own session failed, *)
(* and a session that has failed never becomes alive again.                 *)
FailedBefore ==
    \A c \in Callers : pc[c] = "reset" => sstate[sess[c]] \in {"broken", "closed"}

Core == TypeOK /\ DialOnlyWhenDead /\ RetrySound /\ RefsSound

IInv == Core /\ HealthyShared /\ FailedBefore
=============================================================================
