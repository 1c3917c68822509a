--------------------------- MODULE SniPoolProofs ---------------------------
(* The limits the choice of a decoy keeps, for every pool, every limit and   *)
(* every window.                                                            *)
EXTENDS SniPool, SequenceTheorems, FiniteSetTheorems, FunctionTheorems, TLAPS

Recent(h) == {j \in Allowed(h) : InWindow(j)}

LEMMA CandidatesAreHosts ==
  ASSUME NEW a \in Apps
  PROVE  Candidates(a) \subseteq Sni
  BY PoolAssumption DEF Candidates, EntriesOf

LEMMA LogAt ==
  ASSUME TypeOK
  PROVE  /\ Len(log) \in Nat /\ DOMAIN log = 1 .. Len(log)
         /\ \A i \in DOMAIN log : /\ log[i].app \in Apps /\ log[i].sni \in Sni
                                  /\ log[i].at \in Nat /\ log[i].allowed \in BOOLEAN
  <1>1. log \in Seq([app : Apps, sni : Sni, at : 0 .. MaxTime, allowed : BOOLEAN])
    BY DEF TypeOK
  <1>2. Len(log) \in Nat /\ DOMAIN log = 1 .. Len(log)
    BY <1>1, LenProperties
  <1>3. \A i \in DOMAIN log : log[i] \in [app : Apps, sni : Sni, at : 0 .. MaxTime, allowed : BOOLEAN]
    BY <1>1, <1>2, ElementOfSeq
  <1>. QED
    BY <1>2, <1>3, PoolAssumption

LEMMA RecentFinite ==
  ASSUME TypeOK, NEW h \in Sni
  PROVE  IsFiniteSet(Recent(h)) /\ Cardinality(Recent(h)) \in Nat
  <1>1. IsFiniteSet(1 .. Len(log)) /\ Recent(h) \in SUBSET (1 .. Len(log))
    BY LogAt, FS_Interval DEF Recent, Allowed
  <1>. QED
    BY <1>1, FS_Subset, FS_CardinalityType

(* The counter counts the allowed choices of the window.                    *)
LEMMA RecentCounted ==
  ASSUME TypeOK, CountsAllowed, NEW h \in Sni
  PROVE  RecentCount(h) = Cardinality(Recent(h))
  <1>. DEFINE F == Fresh(counts[h])
              f == [j \in Recent(h) |-> <<log[j].at, j>>]
  <1>1. counts[h] \subseteq (0 .. MaxTime) \X Nat
    BY DEF TypeOK
  <1>2. f \in [Recent(h) -> F]
    BY DEF Recent, InWindow, Fresh, CountsAllowed
  <1>3. \A i, j \in Recent(h) : f[i] = f[j] => i = j
    OBVIOUS
  <1>4. \A t \in F : \E j \in Recent(h) : f[j] = t
    <2>. SUFFICES ASSUME NEW t \in F PROVE \E j \in Recent(h) : f[j] = t
      OBVIOUS
    <2>1. t \in counts[h] /\ t[1] > now - Window /\ t = <<t[1], t[2]>>
      BY <1>1 DEF Fresh
    <2>2. t[2] \in Recent(h) /\ t[1] = log[t[2]].at
      BY <2>1 DEF CountsAllowed, Recent, InWindow
    <2>. QED
      BY <2>1, <2>2
  <1>. HIDE DEF f, F
  <1>5. f \in Bijection(Recent(h), F)
    BY <1>2, <1>3, <1>4 DEF Bijection, Injection, Surjection, IsInjective
  <1>6. Cardinality(F) = Cardinality(Recent(h))
    BY <1>5, RecentFinite, FS_Bijection DEF ExistsBijection
  <1>. QED
    BY <1>6 DEF RecentCount, F
-----------------------------------------------------------------------------
(* A choice is added to the log.                                            *)
Entry(a, h, ok) == [app |-> a, sni |-> h, at |-> now, allowed |-> ok]

LEMMA ChooseLogs ==
  ASSUME TypeOK, NEW a \in Apps, NEW h \in Candidates(a), NEW ok \in BOOLEAN, Choose(a, h, ok)
  PROVE  /\ log' \in Seq([app : Apps, sni : Sni, at : 0 .. MaxTime, allowed : BOOLEAN])
         /\ Len(log') = Len(log) + 1 /\ DOMAIN log' = 1 .. Len(log) + 1
         /\ \A i \in 1 .. Len(log) : log'[i] = log[i]
         /\ log'[Len(log) + 1].app = a /\ log'[Len(log) + 1].sni = h
         /\ log'[Len(log) + 1].at = now /\ log'[Len(log) + 1].allowed = ok
         /\ \A i \in DOMAIN log' : i \in DOMAIN log \/ i = Len(log) + 1
         /\ now' = now
  <1>. DEFINE S == [app : Apps, sni : Sni, at : 0 .. MaxTime, allowed : BOOLEAN]
  <1>1. log \in Seq(S) /\ Entry(a, h, ok) \in S
    BY CandidatesAreHosts DEF TypeOK, Entry
  <1>2. log' = Append(log, Entry(a, h, ok)) /\ now' = now
    BY DEF Choose, Entry
  <1>. HIDE DEF S
  <1>3. /\ Append(log, Entry(a, h, ok)) \in Seq(S)
        /\ Len(Append(log, Entry(a, h, ok))) = Len(log) + 1
        /\ \A i \in 1 .. Len(log) : Append(log, Entry(a, h, ok))[i] = log[i]
        /\ Append(log, Entry(a, h, ok))[Len(log) + 1] = Entry(a, h, ok)
    BY <1>1, AppendProperties
  <1>4. DOMAIN log' = 1 .. Len(log) + 1
    BY <1>2, <1>3, LenProperties
  <1>5. \A i \in 1 .. Len(log) + 1 : i \in DOMAIN log \/ i = Len(log) + 1
    BY LogAt
  <1>6. /\ Entry(a, h, ok).app = a /\ Entry(a, h, ok).sni = h
        /\ Entry(a, h, ok).at = now /\ Entry(a, h, ok).allowed = ok
    BY DEF Entry
  <1>. QED
    BY <1>2, <1>3, <1>4, <1>5, <1>6 DEF S

(* AllowedBefore, WindowLimit and ForcedFairly as operators of the log.      *)
Before(lg, i, h) ==
    {j \in 1 .. (i - 1) : lg[j].allowed /\ lg[j].sni = h /\ lg[j].at > lg[i].at - Window}

Limited(lg) ==
    \A i \in DOMAIN lg : lg[i].allowed => Cardinality(Before(lg, i, lg[i].sni)) < Max

Fair(lg) ==
    \A i \in DOMAIN lg : ~lg[i].allowed =>
      /\ \E g \in Candidates(lg[i].app) : Cardinality(Before(lg, i, g)) = Max
      /\ \A g \in Candidates(lg[i].app) :
           Cardinality(Before(lg, i, lg[i].sni)) <= Cardinality(Before(lg, i, g))

LEMMA OfTheLog ==
  /\ WindowLimit <=> Limited(log)
  /\ ForcedFairly <=> Fair(log)
  /\ WindowLimit' <=> Limited(log')
  /\ ForcedFairly' <=> Fair(log')
  BY DEF WindowLimit, ForcedFairly, AllowedBefore, Limited, Fair, Before, Candidates, EntriesOf

(* What the log says of earlier choices does not change, ...                *)
LEMMA BeforeStays ==
  ASSUME TypeOK, NEW a \in Apps, NEW h \in Candidates(a), NEW ok \in BOOLEAN, Choose(a, h, ok),
         NEW i \in DOMAIN log, NEW g
  PROVE  Before(log', i, g) = Before(log, i, g)
  <1>1. i \in 1 .. Len(log) /\ \A j \in 1 .. i - 1 : j \in 1 .. Len(log)
    BY LogAt
  <1>2. \A j \in 1 .. Len(log) : log'[j] = log[j]
    BY ChooseLogs
  <1>. QED
    BY <1>1, <1>2 DEF Before

(* and what it says of a new one is what the counter counted.               *)
LEMMA BeforeNow ==
  ASSUME TypeOK, NEW a \in Apps, NEW h \in Candidates(a), NEW ok \in BOOLEAN, Choose(a, h, ok),
         NEW g
  PROVE  Before(log', Len(log) + 1, g) = Recent(g)
  <1>1. Len(log) \in Nat /\ DOMAIN log = 1 .. Len(log) /\ Len(log) + 1 - 1 = Len(log)
    <2>1. Len(log) \in Nat /\ DOMAIN log = 1 .. Len(log)
      BY LogAt
    <2>. QED
      BY <2>1
  <1>2. log'[Len(log) + 1].at = now /\ \A j \in 1 .. Len(log) : log'[j] = log[j]
    BY ChooseLogs
  <1>3. Before(log', Len(log) + 1, g) =
          {j \in 1 .. Len(log) : log'[j].allowed /\ log'[j].sni = g /\ log'[j].at > now - Window}
    BY <1>1, <1>2 DEF Before
  <1>. QED
    BY <1>1, <1>2, <1>3 DEF Recent, Allowed, InWindow

LEMMA ChooseKeeps ==
  ASSUME TypeOK, LogInOrder, KeptFor, NEW a \in Apps, NEW h \in Candidates(a), NEW ok \in BOOLEAN,
         Choose(a, h, ok), Expired(a)
  PROVE  /\ now' \in 0 .. MaxTime
         /\ current' \in [Apps -> [sni : Sni, expiresAt : Nat] \cup {None}]
         /\ LogInOrder' /\ KeptFor'
  <1>. DEFINE k == Len(log) + 1
  <1>1. /\ DOMAIN log' = 1 .. Len(log) + 1 /\ now' = now
        /\ \A i \in 1 .. Len(log) : log'[i] = log[i]
        /\ log'[k].app = a /\ log'[k].sni = h /\ log'[k].at = now
        /\ \A i \in DOMAIN log' : i \in DOMAIN log \/ i = k
    BY ChooseLogs
  <1>2. /\ k \in Nat /\ DOMAIN log = 1 .. Len(log) /\ \A i \in DOMAIN log : i < k
        /\ \A i \in DOMAIN log : log[i].app \in Apps /\ log[i].at \in Nat
    BY LogAt
  <1>3. PICK ttl \in MinTtl .. MaxTtl :
          current' = [current EXCEPT ![a] = [sni |-> h, expiresAt |-> now + ttl]]
    BY DEF Choose
  <1>. HIDE DEF k
  <1>4. now \in Nat /\ now + ttl \in Nat /\ now + ttl >= now + MinTtl /\ MinTtl \in Nat
    BY PoolAssumption DEF TypeOK
  <1>5. [sni |-> h, expiresAt |-> now + ttl] \in [sni : Sni, expiresAt : Nat]
    BY <1>4, CandidatesAreHosts
  <1>6. /\ current' \in [Apps -> [sni : Sni, expiresAt : Nat] \cup {None}]
        /\ current'[a] # None /\ current'[a].expiresAt = now + ttl
        /\ \A b \in Apps \ {a} : current'[b] = current[b]
    BY <1>3, <1>5, PoolAssumption DEF TypeOK
  <1>7. LogInOrder'
    <2>1. \A i \in DOMAIN log' : log'[i].at <= now' /\ log'[i].sni \in Candidates(log'[i].app)
      BY <1>1, <1>2, <1>4 DEF LogInOrder
    <2>2. ASSUME NEW i \in DOMAIN log', NEW j \in DOMAIN log', j <= i
          PROVE  log'[j].at <= log'[i].at
      <3>1. CASE i \in DOMAIN log
        <4>1. j \in DOMAIN log
          BY <1>1, <1>2, <2>2, <3>1
        <4>. QED
          BY <1>1, <1>2, <2>2, <3>1, <4>1 DEF LogInOrder
      <3>2. CASE i = k
        BY <1>1, <2>1, <3>2
      <3>. QED
        BY <1>1, <3>1, <3>2
    <2>. QED
      BY <2>1, <2>2 DEF LogInOrder, Candidates, EntriesOf
  <1>8. KeptFor'
    (* the choice of a, if it has one, has expired                          *)
    <2>1. ASSUME NEW j \in DOMAIN log, log[j].app = a
          PROVE  now >= log[j].at + MinTtl
      <3>1. current[a] # None /\ current[a].expiresAt >= log[j].at + MinTtl
        BY <2>1 DEF KeptFor
      <3>2. now >= current[a].expiresAt
        BY <3>1 DEF Expired
      <3>3. current[a] \in [sni : Sni, expiresAt : Nat]
        BY <3>1 DEF TypeOK
      <3>4. current[a].expiresAt \in Nat /\ log[j].at \in Nat
        BY <1>2, <3>3
      <3>. QED
        BY <1>4, <3>1, <3>2, <3>4
    <2>2. ASSUME NEW i \in DOMAIN log'
          PROVE  /\ current'[log'[i].app] # None
                 /\ current'[log'[i].app].expiresAt >= log'[i].at + MinTtl
      <3>1. CASE i = k
        BY <1>1, <1>4, <1>6, <3>1
      <3>2. CASE i \in DOMAIN log /\ log[i].app = a
        <4>1. now >= log[i].at + MinTtl /\ log[i].at \in Nat /\ log'[i] = log[i]
          BY <1>1, <1>2, <2>1, <3>2
        <4>2. now + ttl >= log[i].at + MinTtl
          BY <1>4, <4>1
        <4>. QED
          BY <1>6, <3>2, <4>1, <4>2
      <3>3. CASE i \in DOMAIN log /\ log[i].app # a
        BY <1>1, <1>2, <1>6, <3>3 DEF KeptFor
      <3>. QED
        BY <1>1, <3>1, <3>2, <3>3
    <2>3. ASSUME NEW i \in DOMAIN log', NEW j \in DOMAIN log', j < i, log'[j].app = log'[i].app
          PROVE  log'[i].at >= log'[j].at + MinTtl
      <3>1. j \in DOMAIN log
        BY <1>1, <1>2, <2>3
      <3>2. CASE i \in DOMAIN log
        BY <1>1, <1>2, <2>3, <3>1, <3>2 DEF KeptFor
      <3>3. CASE i = k
        BY <1>1, <1>2, <2>1, <2>3, <3>1, <3>3
      <3>. QED
        BY <1>1, <3>2, <3>3
    <2>. QED
      BY <2>2, <2>3 DEF KeptFor
  <1>9. now' \in 0 .. MaxTime
    BY <1>1 DEF TypeOK
  <1>. QED
    BY <1>6, <1>7, <1>8, <1>9

(* What both kinds of choice leave of the properties of the log, given what *)
(* is true of the new entry.                                                *)
LEMMA WindowLimitAppended ==
  ASSUME TypeOK, WindowLimit, NEW a \in Apps, NEW h \in Candidates(a), NEW ok \in BOOLEAN,
         Choose(a, h, ok), ok => Cardinality(Recent(h)) < Max
  PROVE  WindowLimit'
  <1>. SUFFICES ASSUME NEW i \in DOMAIN log', log'[i].allowed
                PROVE  Cardinality(Before(log', i, log'[i].sni)) < Max
    BY OfTheLog DEF Limited
  <1>1. CASE i \in DOMAIN log
    <2>1. log'[i] = log[i]
      BY <1>1, LogAt, ChooseLogs
    <2>2. Before(log', i, log'[i].sni) = Before(log, i, log[i].sni)
      BY <1>1, <2>1, BeforeStays
    <2>. QED
      BY <1>1, <2>1, <2>2, OfTheLog DEF Limited
  <1>2. CASE i = Len(log) + 1
    <2>1. log'[i].sni = h /\ log'[i].allowed = ok
      BY <1>2, ChooseLogs
    <2>2. Before(log', i, h) = Recent(h)
      BY <1>2, BeforeNow
    <2>. QED
      BY <2>1, <2>2
  <1>. QED
    BY <1>1, <1>2, ChooseLogs

LEMMA ForcedFairlyAppended ==
  ASSUME TypeOK, ForcedFairly, NEW a \in Apps, NEW h \in Candidates(a), NEW ok \in BOOLEAN,
         Choose(a, h, ok),
         ~ok => /\ \E g \in Candidates(a) : Cardinality(Recent(g)) = Max
                /\ \A g \in Candidates(a) : Cardinality(Recent(h)) <= Cardinality(Recent(g))
  PROVE  ForcedFairly'
  <1>. SUFFICES ASSUME NEW i \in DOMAIN log', ~log'[i].allowed
                PROVE  /\ \E g \in Candidates(log'[i].app) : Cardinality(Before(log', i, g)) = Max
                       /\ \A g \in Candidates(log'[i].app) :
                            Cardinality(Before(log', i, log'[i].sni)) <= Cardinality(Before(log', i, g))
    BY OfTheLog DEF Fair
  <1>1. CASE i \in DOMAIN log
    <2>1. log'[i] = log[i]
      BY <1>1, LogAt, ChooseLogs
    <2>2. \A g : Before(log', i, g) = Before(log, i, g)
      BY <1>1, BeforeStays
    <2>. QED
      BY <1>1, <2>1, <2>2, OfTheLog DEF Fair
  <1>2. CASE i = Len(log) + 1
    <2>1. log'[i].sni = h /\ log'[i].app = a /\ log'[i].allowed = ok
      BY <1>2, ChooseLogs
    <2>2. \A g : Before(log', i, g) = Recent(g)
      BY <1>2, BeforeNow
    <2>. QED
      BY <2>1, <2>2
  <1>. QED
    BY <1>1, <1>2, ChooseLogs

(* The counter drops only what is older than a window.                      *)
LEMMA CleanedCounts ==
  ASSUME TypeOK, CountsAllowed, NEW tried, NEW g \in Sni
  PROVE  /\ Cleaned(tried)[g] \subseteq counts[g]
         /\ \A t \in Cleaned(tried)[g] : t[2] \in Allowed(g) /\ t[1] = log[t[2]].at
         /\ \A j \in Recent(g) : <<log[j].at, j>> \in Cleaned(tried)[g]
  <1>1. Cleaned(tried)[g] = IF g \in tried THEN Fresh(counts[g]) ELSE counts[g]
    BY DEF Cleaned
  <1>2. Fresh(counts[g]) = {t \in counts[g] : t[1] > now - Window}
    BY DEF Fresh
  <1>3. \A j \in Recent(g) : <<log[j].at, j>> \in counts[g] /\ log[j].at > now - Window
    BY DEF Recent, CountsAllowed, InWindow
  <1>. QED
    BY <1>1, <1>2, <1>3 DEF CountsAllowed

LEMMA PickAllowedKeeps ==
  ASSUME PoolInv, NEW a \in Apps, PickAllowed(a)
  PROVE  PoolInv'
  <1>1. PICK h \in Candidates(a), refused \in SUBSET {g \in Candidates(a) : Full(g)} :
          ~Full(h) /\ counts' = Registered(refused, h) /\ Choose(a, h, TRUE)
    BY DEF PickAllowed
  <1>2. /\ TypeOK /\ CountsAllowed /\ AtMostMax /\ LogInOrder /\ KeptFor /\ WindowLimit
        /\ ForcedFairly /\ Expired(a) /\ h \in Sni
    BY CandidatesAreHosts DEF PoolInv, PickAllowed
  <1>. DEFINE k == Len(log) + 1
              tried == refused \cup {h}
  <1>3. /\ DOMAIN log' = 1 .. Len(log) + 1 /\ now' = now
        /\ log' \in Seq([app : Apps, sni : Sni, at : 0 .. MaxTime, allowed : BOOLEAN])
        /\ \A i \in DOMAIN log : log'[i] = log[i]
        /\ log'[k].sni = h /\ log'[k].at = now /\ log'[k].allowed = TRUE
        /\ \A i \in DOMAIN log' : i \in DOMAIN log \/ i = k
    BY <1>1, <1>2, ChooseLogs, LogAt
  <1>4. k \in Nat /\ DOMAIN log = 1 .. Len(log) /\ k \notin DOMAIN log /\ k \in 1 .. Len(log) + 1
        /\ Len(log) \in Nat
    BY <1>2, LogAt
  <1>5. Cardinality(Recent(h)) < Max
    <2>1. ~(Cardinality(Recent(h)) >= Max)
      BY <1>1, <1>2, RecentCounted DEF Full
    <2>. QED
      BY <1>2, <2>1, RecentFinite, PoolAssumption
  <1>6. /\ now' \in 0 .. MaxTime
        /\ current' \in [Apps -> [sni : Sni, expiresAt : Nat] \cup {None}]
        /\ LogInOrder' /\ KeptFor'
    BY <1>1, <1>2, ChooseKeeps
  <1>7. counts' = [Cleaned(tried) EXCEPT ![h] = @ \cup {<<now, k>>}]
    BY <1>1 DEF Registered
  <1>. HIDE DEF k, tried
  <1>8. /\ counts'[h] = Cleaned(tried)[h] \cup {<<now, k>>}
        /\ \A g \in Sni \ {h} : counts'[g] = Cleaned(tried)[g]
        /\ DOMAIN counts' = Sni /\ counts' = [g \in Sni |-> counts'[g]]
    BY <1>2, <1>7 DEF Cleaned
  <1>9. TypeOK'
    <2>1. \A g \in Sni : Cleaned(tried)[g] \subseteq (0 .. MaxTime) \X Nat
      BY <1>2, CleanedCounts DEF TypeOK
    <2>2. <<now, k>> \in (0 .. MaxTime) \X Nat
      BY <1>2, <1>4 DEF TypeOK
    <2>3. \A g \in Sni : counts'[g] \in SUBSET ((0 .. MaxTime) \X Nat)
      BY <1>8, <2>1, <2>2
    <2>4. counts' \in [Sni -> SUBSET ((0 .. MaxTime) \X Nat)]
      BY <1>8, <2>3
    <2>. QED
      BY <1>3, <1>6, <2>4 DEF TypeOK
  (* the choices of h are one more than before                              *)
  <1>10. /\ Allowed(h)' = Allowed(h) \cup {k}
         /\ \A g \in Sni \ {h} : Allowed(g)' = Allowed(g)
    BY <1>3, <1>4 DEF Allowed
  <1>11. /\ \A g \in Sni \ {h} : {j \in Allowed(g)' : InWindow(j)'} = Recent(g)
         /\ {j \in Allowed(h)' : InWindow(j)'} \subseteq Recent(h) \cup {k}
    BY <1>3, <1>10 DEF Recent, InWindow, Allowed
  <1>12. AtMostMax'
    <2>1. ASSUME NEW g \in Sni
          PROVE  Cardinality({j \in Allowed(g)' : InWindow(j)'}) <= Max
      <3>1. CASE g = h
        <4>1. /\ IsFiniteSet(Recent(h)) /\ Cardinality(Recent(h)) \in Nat
          BY <1>2, RecentFinite
        <4>2. /\ IsFiniteSet(Recent(h) \cup {k})
              /\ Cardinality(Recent(h) \cup {k}) <= Cardinality(Recent(h)) + 1
              /\ Cardinality(Recent(h) \cup {k}) \in Nat
          <5>1. /\ IsFiniteSet(Recent(h) \cup {k})
                /\ Cardinality(Recent(h) \cup {k}) =
                     IF k \in Recent(h) THEN Cardinality(Recent(h)) ELSE Cardinality(Recent(h)) + 1
            BY <4>1, FS_AddElement
          <5>. HIDE DEF Recent
          <5>. QED
            BY <4>1, <5>1
        <4>3. /\ Cardinality({j \in Allowed(h)' : InWindow(j)'}) <= Cardinality(Recent(h) \cup {k})
              /\ Cardinality({j \in Allowed(h)' : InWindow(j)'}) \in Nat
          BY <1>11, <4>2, FS_Subset, FS_CardinalityType
        <4>. QED
          BY <1>5, <3>1, <4>1, <4>2, <4>3, PoolAssumption
      <3>2. CASE g # h
        BY <1>2, <1>11, <3>2 DEF AtMostMax, Recent
      <3>. QED
        BY <3>1, <3>2
    <2>. QED
      BY <2>1 DEF AtMostMax
  <1>13. CountsAllowed'
    <2>1. ASSUME NEW g \in Sni
          PROVE  /\ \A t \in counts'[g] : t[2] \in Allowed(g)' /\ t[1] = log'[t[2]].at
                 /\ \A j \in Allowed(g)' : InWindow(j)' => <<log'[j].at, j>> \in counts'[g]
      <3>1. /\ \A t \in Cleaned(tried)[g] : t[2] \in Allowed(g) /\ t[1] = log[t[2]].at
            /\ \A j \in Recent(g) : <<log[j].at, j>> \in Cleaned(tried)[g]
        BY <1>2, CleanedCounts
      <3>2. \A j \in Allowed(g) : j \in DOMAIN log /\ log'[j] = log[j]
        BY <1>3 DEF Allowed
      <3>3. \A j \in Allowed(g) : InWindow(j)' => j \in Recent(g)
        BY <1>3, <3>2 DEF Recent, InWindow
      <3>4. CASE g = h
        BY <1>3, <1>8, <1>10, <3>1, <3>2, <3>3, <3>4
      <3>5. CASE g # h
        BY <1>8, <1>10, <3>1, <3>2, <3>3, <3>5
      <3>. QED
        BY <3>4, <3>5
    <2>. QED
      BY <2>1 DEF CountsAllowed
  <1>14. WindowLimit'
    BY <1>1, <1>2, <1>5, WindowLimitAppended
  <1>15. ForcedFairly'
    BY <1>1, <1>2, ForcedFairlyAppended
  <1>. QED
    BY <1>6, <1>9, <1>12, <1>13, <1>14, <1>15 DEF PoolInv

LEMMA PickForcedKeeps ==
  ASSUME PoolInv, NEW a \in Apps, PickForced(a)
  PROVE  PoolInv'
  <1>1. PICK refused \in (SUBSET {g \in Candidates(a) : Full(g)}) \ {{}} : counts' = Cleaned(refused)
    BY DEF PickForced
  <1>2. PICK h \in LeastLoaded(Candidates(a)) : Choose(a, h, FALSE)
    BY DEF PickForced
  <1>3. /\ TypeOK /\ CountsAllowed /\ AtMostMax /\ LogInOrder /\ KeptFor /\ WindowLimit
        /\ ForcedFairly /\ Expired(a) /\ Candidates(a) \subseteq Sni /\ h \in Candidates(a)
        /\ \A g \in Candidates(a) : RecentCount(h) <= RecentCount(g)
    BY CandidatesAreHosts DEF PoolInv, PickForced, LeastLoaded
  <1>4. /\ DOMAIN log' = 1 .. Len(log) + 1 /\ now' = now
        /\ log' \in Seq([app : Apps, sni : Sni, at : 0 .. MaxTime, allowed : BOOLEAN])
        /\ \A i \in DOMAIN log : log'[i] = log[i]
        /\ log'[Len(log) + 1].allowed = FALSE
        /\ \A i \in DOMAIN log' : i \in DOMAIN log \/ i = Len(log) + 1
        /\ DOMAIN log \subseteq DOMAIN log'
    <2>1. Len(log) \in Nat /\ DOMAIN log = 1 .. Len(log)
      BY <1>3, LogAt
    <2>2. 1 .. Len(log) \subseteq 1 .. Len(log) + 1
      BY <2>1
    <2>. QED
      BY <1>2, <1>3, <2>1, <2>2, ChooseLogs
  (* a refused candidate has reached the limit, and none can pass it        *)
  <1>5. \A g \in Candidates(a) : RecentCount(g) = Cardinality(Recent(g))
    BY <1>3, RecentCounted
  <1>6. \E g \in Candidates(a) : Cardinality(Recent(g)) = Max
    <2>1. PICK g \in Candidates(a) : Full(g)
      BY <1>1
    <2>2. /\ Cardinality(Recent(g)) >= Max /\ Cardinality(Recent(g)) <= Max
          /\ Cardinality(Recent(g)) \in Nat
      BY <1>3, <1>5, <2>1, RecentFinite DEF Full, AtMostMax, Recent
    <2>. QED
      BY <2>2, PoolAssumption
  <1>7. \A g \in Candidates(a) : Cardinality(Recent(h)) <= Cardinality(Recent(g))
    BY <1>3, <1>5
  <1>8. ForcedFairly'
    BY <1>2, <1>3, <1>6, <1>7, ForcedFairlyAppended
  <1>9. WindowLimit'
    BY <1>2, <1>3, WindowLimitAppended
  <1>10. /\ now' \in 0 .. MaxTime
         /\ current' \in [Apps -> [sni : Sni, expiresAt : Nat] \cup {None}]
         /\ LogInOrder' /\ KeptFor'
    BY <1>2, <1>3, ChooseKeeps
  <1>11. TypeOK'
    <2>1. \A g \in Sni : Cleaned(refused)[g] \subseteq (0 .. MaxTime) \X Nat
      BY <1>3, CleanedCounts DEF TypeOK
    <2>2. counts' \in [Sni -> SUBSET ((0 .. MaxTime) \X Nat)]
      BY <1>1, <2>1 DEF Cleaned
    <2>. QED
      BY <1>4, <1>10, <2>2 DEF TypeOK
  <1>12. \A g \in Sni : Allowed(g)' = Allowed(g) /\ {j \in Allowed(g)' : InWindow(j)'} = Recent(g)
    BY <1>4 DEF Allowed, Recent, InWindow
  <1>13. AtMostMax'
    BY <1>3, <1>12 DEF AtMostMax, Recent
  <1>14. CountsAllowed'
    <2>1. ASSUME NEW g \in Sni
          PROVE  /\ \A t \in counts'[g] : t[2] \in Allowed(g)' /\ t[1] = log'[t[2]].at
                 /\ \A j \in Allowed(g)' : InWindow(j)' => <<log'[j].at, j>> \in counts'[g]
      <3>1. /\ \A t \in counts'[g] : t[2] \in Allowed(g) /\ t[1] = log[t[2]].at
            /\ \A j \in Recent(g) : <<log[j].at, j>> \in counts'[g]
        BY <1>1, <1>3, CleanedCounts
      <3>2. \A j \in Allowed(g) : j \in DOMAIN log /\ log'[j] = log[j]
        BY <1>4 DEF Allowed
      <3>3. \A j \in Allowed(g) : InWindow(j)' => j \in Recent(g)
        BY <1>4, <3>2 DEF Recent, InWindow
      <3>. QED
        BY <1>12, <3>1, <3>2, <3>3
    <2>. QED
      BY <2>1 DEF CountsAllowed
  <1>. QED
    BY <1>8, <1>9, <1>10, <1>11, <1>13, <1>14 DEF PoolInv

(* As time passes choices only leave the window.                            *)
LEMMA TickKeeps == PoolInv /\ Tick => PoolInv'
  <1>. SUFFICES ASSUME PoolInv, Tick PROVE PoolInv'
    OBVIOUS
  <1>1. /\ now \in Nat /\ now' = now + 1 /\ now' \in 0 .. MaxTime
        /\ counts' = counts /\ current' = current /\ log' = log
    BY PoolAssumption DEF PoolInv, TypeOK, Tick
  <1>2. TypeOK'
    BY <1>1 DEF PoolInv, TypeOK
  <1>3. \A i \in DOMAIN log : log[i].at \in Nat
    BY LogAt DEF PoolInv
  <1>4. \A j \in DOMAIN log : InWindow(j)' => InWindow(j)
    BY <1>1, <1>3, PoolAssumption DEF InWindow
  <1>5. \A h \in Sni : Allowed(h)' = Allowed(h) /\ Allowed(h) \subseteq DOMAIN log
    BY <1>1 DEF Allowed
  <1>6. CountsAllowed'
    BY <1>1, <1>4, <1>5 DEF PoolInv, CountsAllowed
  <1>7. AtMostMax'
    <2>1. ASSUME NEW h \in Sni
          PROVE  Cardinality({j \in Allowed(h)' : InWindow(j)'}) <= Max
      <3>. DEFINE T == {j \in Allowed(h)' : InWindow(j)'}
      <3>1. T \in SUBSET Recent(h)
        BY <1>4, <1>5 DEF Recent
      <3>2. IsFiniteSet(Recent(h)) /\ Cardinality(Recent(h)) \in Nat /\ Cardinality(Recent(h)) <= Max
        BY RecentFinite DEF PoolInv, AtMostMax, Recent
      <3>. HIDE DEF T
      <3>3. Cardinality(T) <= Cardinality(Recent(h)) /\ Cardinality(T) \in Nat
        BY <3>1, <3>2, FS_Subset, FS_CardinalityType
      <3>4. Cardinality(T) <= Max
        BY <3>2, <3>3, PoolAssumption
      <3>. QED
        BY <3>4 DEF T
    <2>. QED
      BY <2>1 DEF AtMostMax
  <1>8. LogInOrder'
    <2>1. ASSUME NEW i \in DOMAIN log PROVE log[i].at <= now'
      <3>1. log[i].at <= now /\ log[i].at \in Nat
        BY <1>3 DEF PoolInv, LogInOrder
      <3>. QED
        BY <1>1, <3>1
    <2>. QED
      BY <1>1, <2>1 DEF PoolInv, LogInOrder, Candidates, EntriesOf
  <1>9. KeptFor'
    BY <1>1 DEF PoolInv, KeptFor
  <1>10. WindowLimit' /\ ForcedFairly'
    BY <1>1, OfTheLog DEF PoolInv
  <1>. QED
    BY <1>2, <1>6, <1>7, <1>8, <1>9, <1>10 DEF PoolInv

LEMMA InitPool == Init => PoolInv
  <1>. SUFFICES ASSUME Init PROVE PoolInv
    OBVIOUS
  <1>1. \A S : <<>> \in Seq(S) /\ DOMAIN <<>> = {}
    BY EmptySeq
  <1>2. TypeOK
    BY <1>1, PoolAssumption DEF Init, TypeOK
  <1>3. \A h : Allowed(h) = {} /\ {j \in Allowed(h) : InWindow(j)} = {}
    BY <1>1 DEF Init, Allowed
  <1>4. CountsAllowed
    BY <1>3 DEF Init, CountsAllowed
  <1>5. AtMostMax
    BY <1>3, FS_EmptySet, PoolAssumption DEF AtMostMax
  <1>6. LogInOrder /\ KeptFor /\ WindowLimit /\ ForcedFairly
    BY <1>1 DEF Init, LogInOrder, KeptFor, WindowLimit, ForcedFairly
  <1>. QED
    BY <1>2, <1>4, <1>5, <1>6 DEF PoolInv

(* The inductive invariant holds of every pool.                             *)
THEOREM PoolInvariant == Spec => []PoolInv
  <1>1. PoolInv /\ UNCHANGED vars => PoolInv'
    <2>. SUFFICES ASSUME PoolInv, UNCHANGED vars PROVE PoolInv'
      OBVIOUS
    <2>1. UNCHANGED <<now, counts, current, log>>
      BY DEF vars
    <2>2. TypeOK' /\ KeptFor'
      BY <2>1 DEF PoolInv, TypeOK, KeptFor
    <2>3. CountsAllowed' /\ AtMostMax'
      BY <2>1 DEF PoolInv, CountsAllowed, AtMostMax, Allowed, InWindow
    <2>4. LogInOrder'
      BY <2>1 DEF PoolInv, LogInOrder, Candidates, EntriesOf
    <2>5. WindowLimit' /\ ForcedFairly'
      BY <2>1, OfTheLog DEF PoolInv
    <2>. QED
      BY <2>2, <2>3, <2>4, <2>5 DEF PoolInv
  <1>2. PoolInv /\ [Next]_vars => PoolInv'
    BY <1>1, TickKeeps, PickAllowedKeeps, PickForcedKeeps DEF Next
  <1>. QED
    BY <1>2, InitPool, PTL DEF Spec

(* No host is allowed more often than Max times in any window.              *)
THEOREM LimitKept == Spec => []WindowLimit
  BY PoolInvariant, PTL DEF PoolInv

(* A choice past the limit falls on a least loaded candidate, and only when *)
(* one of them has reached it.                                              *)
THEOREM ForcedIsFair == Spec => []ForcedFairly
  BY PoolInvariant, PTL DEF PoolInv

(* A class chooses a host at most once in a window, so that a host is       *)
(* chosen by as many classes at most as may choose it.                      *)
THEOREM RateKept == Spec => []DecoyRate
  <1>1. PoolInv => DecoyRate
    <2>. SUFFICES ASSUME PoolInv, MinTtl >= Window, NEW i \in DOMAIN log, NEW h, h = log[i].sni
                  PROVE  Cardinality({j \in 1 .. i : log[j].sni = h /\ log[j].at > log[i].at - Window})
                           <= Cardinality(MayChoose(h))
      BY DEF DecoyRate
    <2>. DEFINE W == {j \in 1 .. i : log[j].sni = h /\ log[j].at > log[i].at - Window}
                f == [j \in W |-> log[j].app]
    <2>1. /\ Len(log) \in Nat /\ DOMAIN log = 1 .. Len(log)
          /\ \A j \in DOMAIN log : log[j].app \in Apps /\ log[j].at \in Nat
      BY LogAt DEF PoolInv
    <2>2. \A j \in W : j \in DOMAIN log /\ j <= i /\ log[j].sni = h /\ log[j].at > log[i].at - Window
      BY <2>1
    <2>. HIDE DEF W
    <2>3. f \in [W -> MayChoose(h)]
      BY <2>1, <2>2 DEF MayChoose, PoolInv, LogInOrder
    <2>4. ASSUME NEW j \in W, NEW k \in W, j < k, log[j].app = log[k].app
          PROVE  FALSE
      <3>1. log[k].at >= log[j].at + MinTtl
        BY <2>2, <2>4 DEF PoolInv, KeptFor
      <3>2. log[k].at <= log[i].at /\ log[j].at > log[i].at - Window
        BY <2>2 DEF PoolInv, LogInOrder
      <3>3. log[i].at \in Nat /\ log[j].at \in Nat /\ log[k].at \in Nat
        BY <2>1, <2>2
      <3>. QED
        BY <3>1, <3>2, <3>3, PoolAssumption
    <2>5. \A j, k \in W : f[j] = f[k] => j = k
      <3>. SUFFICES ASSUME NEW j \in W, NEW k \in W, f[j] = f[k], j # k PROVE FALSE
        OBVIOUS
      <3>1. log[j].app = log[k].app /\ (j < k \/ k < j)
        BY <2>1, <2>2
      <3>. QED
        BY <2>4, <3>1
    <2>. HIDE DEF f
    <2>6. f \in Injection(W, MayChoose(h))
      BY <2>3, <2>5 DEF Injection, IsInjective
    <2>7. IsFiniteSet(MayChoose(h))
      BY PoolAssumption, FS_Subset DEF MayChoose
    <2>8. Cardinality(W) <= Cardinality(MayChoose(h))
      BY <2>6, <2>7, FS_Injection
    <2>. QED
      BY <2>8 DEF W
  <1>. QED
    BY <1>1, PoolInvariant, PTL
=============================================================================
