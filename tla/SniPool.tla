------------------------------ MODULE SniPool ------------------------------
(***************************************************************************)
(* The choice of the decoy SNI of a connection (sni_pool.go): StickyPool     *)
(* keeps the choice of each application class for a few minutes, SNIPool     *)
(* makes a new one among the candidates of the class, and SNICounter counts  *)
(* the choices of a host in a sliding window.                               *)
(*                                                                         *)
(* StickyPool.mu is held across the whole of PickForApp, so that a call that *)
(* makes a new choice is one step, and one that finds a choice still valid   *)
(* changes nothing.  Weights and the order of the entries only make some     *)
(* choices likely, and are left out.                                        *)
(***************************************************************************)
EXTENDS Integers, Sequences, FiniteSets

CONSTANTS
    Apps, Sni,       \* application classes and decoy hosts
    Entries,         \* pairs <<app, host>> of the pool
    Browser,         \* the class whose entries stand in for missing ones
    Max, Window,     \* maxPerWindow and window of the counter
    MinTtl, MaxTtl,  \* a choice is kept so long (2 to 4 min in the code)
    None,            \* no choice yet
    MaxTime          \* bound: the clock

ASSUME PoolAssumption ==
    /\ Entries \subseteq Apps \X Sni /\ Browser \in Apps
    /\ \E h \in Sni : <<Browser, h>> \in Entries
    /\ Max \in Nat \ {0} /\ Window \in Nat \ {0} /\ MaxTime \in Nat
    /\ MinTtl \in Nat \ {0} /\ MaxTtl \in Nat
    /\ IsFiniteSet(Apps) /\ None \notin [sni : Sni, expiresAt : Nat]

VARIABLES
    now,      \* time.Now()
    counts,   \* SNICounter.counts: host -> times of its choices, as pairs
              \* <<time, number of the choice>> for their order is never used
    current,  \* StickyPool.current: app -> [sni, expiresAt] or None
    log       \* history: every new choice [app, sni, at, allowed]

vars == <<now, counts, current, log>>

TypeOK ==
    /\ now \in 0..MaxTime
    /\ counts \in [Sni -> SUBSET ((0..MaxTime) \X Nat)]
    /\ current \in [Apps -> [sni : Sni, expiresAt : Nat] \cup {None}]
    /\ log \in Seq([app : Apps, sni : Sni, at : 0..MaxTime, allowed : BOOLEAN])

Init ==
    /\ now = 0
    /\ counts = [h \in Sni |-> {}]
    /\ current = [a \in Apps |-> None]
    /\ log = <<>>

Tick ==
    /\ now < MaxTime
    /\ now' = now + 1
    /\ UNCHANGED <<counts, current, log>>

EntriesOf(a)  == {h \in Sni : <<a, h>> \in Entries}

Candidates(a) == IF EntriesOf(a) # {} THEN EntriesOf(a) ELSE EntriesOf(Browser)

(* t.After(now.Add(-window))                                                *)
Fresh(times) == {t \in times : t[1] > now - Window}

RecentCount(h) == Cardinality(Fresh(counts[h]))
Full(h) == RecentCount(h) >= Max

(* Allow drops the old times of every host it is called for.                *)
Cleaned(tried) == [h \in Sni |-> IF h \in tried THEN Fresh(counts[h]) ELSE counts[h]]

(* A name with an underscore is a definition as a plausible mistake would   *)
(* have written it; no action uses it.                                      *)
Registered_Uncleaned(tried, h) == [counts EXCEPT ![h] = {<<now, Len(log) + 1>>}]
Registered(tried, h) ==
    [Cleaned(tried \cup {h}) EXCEPT ![h] = @ \cup {<<now, Len(log) + 1>>}]

Expired_Always(a) == TRUE
Expired(a) == current[a] # None => now >= current[a].expiresAt

Choose(a, h, allowed) ==
    /\ \E ttl \in MinTtl..MaxTtl :
         current' = [current EXCEPT ![a] = [sni |-> h, expiresAt |-> now + ttl]]
    /\ log' = Append(log, [app |-> a, sni |-> h, at |-> now, allowed |-> allowed])
    /\ UNCHANGED now

(* One of the ten draws is allowed, after others were refused.              *)
PickAllowed(a) ==
    /\ Expired(a)
    /\ \E h \in Candidates(a), refused \in SUBSET {g \in Candidates(a) : Full(g)} :
         /\ ~Full(h)
         /\ counts' = Registered(refused, h)
         /\ Choose(a, h, TRUE)

LeastLoaded_Any(hosts) == hosts
LeastLoaded(hosts) == {h \in hosts : \A g \in hosts : RecentCount(h) <= RecentCount(g)}

(* All ten draws fall on hosts at their limit: the least loaded candidate   *)
(* is taken, and not counted.                                               *)
PickForced(a) ==
    /\ Expired(a)
    /\ \E refused \in (SUBSET {g \in Candidates(a) : Full(g)}) \ {{}} :
         counts' = Cleaned(refused)
    /\ \E h \in LeastLoaded(Candidates(a)) : Choose(a, h, FALSE)

Next == Tick \/ \E a \in Apps : PickAllowed(a) \/ PickForced(a)

Spec == Init /\ [][Next]_vars
-----------------------------------------------------------------------------
(* The allowed choices of h before the i-th of the log, within a window of  *)
(* it.                                                                      *)
AllowedBefore(i, h) ==
    {j \in 1..(i - 1) : log[j].allowed /\ log[j].sni = h /\ log[j].at > log[i].at - Window}

(* No host is allowed more often than Max times in any window, however the  *)
(* counter has dropped what it takes for old (sni_pool.go:31-52).           *)
WindowLimit ==
    \A i \in DOMAIN log : log[i].allowed => Cardinality(AllowedBefore(i, log[i].sni)) < Max

(* A choice past the limit is made only when a candidate has reached it,    *)
(* and then falls on one with the fewest choices in the window              *)
(* (sni_pool.go:281-308).                                                   *)
ForcedFairly ==
    \A i \in DOMAIN log : ~log[i].allowed =>
      LET load(h) == Cardinality(AllowedBefore(i, h))
      IN  /\ \E g \in Candidates(log[i].app) : load(g) = Max
          /\ \A g \in Candidates(log[i].app) : load(log[i].sni) <= load(g)

(* What a choice is sticky for: however many connections come, and also     *)
(* past the limit, a host is newly chosen in a window at most once for each *)
(* class that may choose it -- a class keeps its choice for longer than a   *)
(* window (sni_pool.go:329-347).                                            *)
MayChoose(h) == {a \in Apps : h \in Candidates(a)}

DecoyRate ==
    MinTtl >= Window =>
      \A i \in DOMAIN log :
        LET h == log[i].sni
        IN  Cardinality({j \in 1..i : log[j].sni = h /\ log[j].at > log[i].at - Window})
              <= Cardinality(MayChoose(h))
-----------------------------------------------------------------------------
(* What makes these inductive.  The counter holds every allowed choice of    *)
(* the window, and no others than allowed ones;                             *)
Allowed(h) == {j \in DOMAIN log : log[j].allowed /\ log[j].sni = h}

InWindow(j) == log[j].at > now - Window

CountsAllowed ==
    \A h \in Sni :
      /\ \A t \in counts[h] : t[2] \in Allowed(h) /\ t[1] = log[t[2]].at
      /\ \A j \in Allowed(h) : InWindow(j) => <<log[j].at, j>> \in counts[h]

AtMostMax == \A h \in Sni : Cardinality({j \in Allowed(h) : InWindow(j)}) <= Max

(* the log is in the order of the clock;                                    *)
LogInOrder ==
    /\ \A i \in DOMAIN log : log[i].at <= now /\ log[i].sni \in Candidates(log[i].app)
    /\ \A i, j \in DOMAIN log : j <= i => log[j].at <= log[i].at

(* and a class chooses again only when its last choice has expired.         *)
KeptFor ==
    /\ \A i \in DOMAIN log : /\ current[log[i].app] # None
                             /\ current[log[i].app].expiresAt >= log[i].at + MinTtl
    /\ \A i, j \in DOMAIN log :
         j < i /\ log[j].app = log[i].app => log[i].at >= log[j].at + MinTtl

PoolInv == TypeOK /\ CountsAllowed /\ AtMostMax /\ LogInOrder /\ KeptFor
                  /\ WindowLimit /\ ForcedFairly
=============================================================================
