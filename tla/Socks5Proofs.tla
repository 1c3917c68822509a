---------------------------- MODULE Socks5Proofs ----------------------------
(* The dialogue keeps its promises whatever the client and the far side do, *)
(* with or without a relay, whatever the route and the association.         *)
EXTENDS UdpAssociateProofs, SequenceTheorems

(* What the elements of a shortened or lengthened queue are.                *)
LEMMA Appended ==
  ASSUME NEW S, NEW q \in Seq(S), NEW m \in S
  PROVE  /\ Append(q, m) \in Seq(S) /\ Append(q, m) # <<>>
         /\ Len(Append(q, m)) = Len(q) + 1
         /\ \A i \in 1..Len(q) : Append(q, m)[i] = q[i]
         /\ Append(q, m)[Len(q) + 1] = m
  BY AppendProperties

LEMMA Shortened ==
  ASSUME NEW S, NEW q \in Seq(S), q # <<>>
  PROVE  /\ Tail(q) \in Seq(S) /\ Len(Tail(q)) = Len(q) - 1 /\ Len(q) \in Nat \ {0}
         /\ \A i \in 1..(Len(q) - 1) : Tail(q)[i] = q[i + 1]
         /\ Head(q) = q[1] /\ q[1] \in S
  BY HeadTailProperties

LEMMA Domains ==
  ASSUME NEW S, NEW q \in Seq(S)
  PROVE  DOMAIN q = 1..Len(q) /\ Len(q) \in Nat /\ (q = <<>> <=> Len(q) = 0)
         /\ \A i \in 1..Len(q) : q[i] \in S
  BY EmptySeq, LenProperties, ElementOfSeq
-----------------------------------------------------------------------------
(* Queues of messages and data.                                             *)
LEMMA LeadType ==
  ASSUME NEW q \in Seq(Messages)
  PROVE  Lead(q) \in {0, 1} /\ Lead(q) <= Len(q) /\ Load(q) \in Nat
         /\ (q = <<>> => Lead(q) = 0 /\ Load(q) = 0)
         /\ Len(q) = Lead(q) + Load(q)
  BY Domains DEF Lead, Load

LEMMA Nothing == Load(<<>>) = 0 /\ \A k : Follows(<<>>, k)
  <1>1. Len(<<>>) = 0 /\ DOMAIN <<>> = {}
    OBVIOUS
  <1>2. Lead(<<>>) = 0
    BY DEF Lead
  <1>. QED
    BY <1>1, <1>2 DEF Load, Follows

(* A datum is sent: the first or the next.                                  *)
LEMMA Lengthened ==
  ASSUME NEW q \in Seq(Messages), NEW k \in Nat, Follows(q, k),
         NEW m \in Messages, m = Data(k + Load(q) + 1)
  PROVE  Follows(Append(q, m), k) /\ Load(Append(q, m)) = Load(q) + 1
  <1>. DEFINE p == Append(q, m)
  <1>1. m.kind = "data"
    BY DEF Data
  <1>2. p \in Seq(Messages) /\ Len(p) = Len(q) + 1 /\ p # <<>> /\ p[Len(q) + 1] = m
        /\ \A i \in 1..Len(q) : p[i] = q[i]
    BY Appended
  <1>3. Len(q) \in Nat /\ DOMAIN q = 1..Len(q) /\ DOMAIN p = 1..Len(p) /\ (q = <<>> <=> Len(q) = 0)
    BY <1>2, Domains
  <1>. HIDE DEF p
  <1>4. Lead(p) = Lead(q)
    BY <1>1, <1>2, <1>3 DEF Lead
  <1>5. Lead(q) \in {0, 1} /\ Len(q) = Lead(q) + Load(q) /\ Load(q) \in Nat
    BY LeadType
  <1>6. Load(p) = Load(q) + 1
    BY <1>2, <1>3, <1>4, <1>5 DEF Load
  <1>7. ASSUME NEW i \in 1..Len(p), i > Lead(p) PROVE p[i] = Data(k + i - Lead(p))
    <2>1. CASE i \in 1..Len(q)
      BY <2>1, <1>2, <1>3, <1>4, <1>7 DEF Follows
    <2>2. CASE i = Len(q) + 1
      <3>1. k + i - Lead(p) = k + Load(q) + 1
        BY <2>2, <1>3, <1>4, <1>5
      <3>. QED
        BY <3>1, <2>2, <1>2
    <2>. QED
      BY <2>1, <2>2, <1>2, <1>3
  <1>8. Follows(p, k)
    BY <1>7, <1>3 DEF Follows
  <1>. QED
    BY <1>6, <1>8 DEF p

(* The first datum is taken.                                                *)
LEMMA Taken ==
  ASSUME NEW q \in Seq(Messages), NEW k \in Nat, Follows(q, k),
         q # <<>>, q[1].kind = "data"
  PROVE  /\ q[1] = Data(k + 1) /\ Load(q) > 0
         /\ Follows(Tail(q), k + 1) /\ Load(Tail(q)) = Load(q) - 1
  <1>. DEFINE p == Tail(q)
  <1>1. p \in Seq(Messages) /\ Len(p) = Len(q) - 1 /\ Len(q) \in Nat \ {0}
        /\ \A i \in 1..(Len(q) - 1) : p[i] = q[i + 1]
    BY Shortened
  <1>2. DOMAIN q = 1..Len(q) /\ DOMAIN p = 1..Len(p) /\ (p = <<>> <=> Len(p) = 0)
    BY <1>1, Domains
  <1>. HIDE DEF p
  <1>3. Lead(q) = 0
    BY DEF Lead
  <1>4. ASSUME NEW i \in 1..Len(q) PROVE q[i] = Data(k + i)
    <2>1. i > 0 /\ k + i - 0 = k + i
      BY <1>1
    <2>. QED
      BY <2>1, <1>2, <1>3 DEF Follows
  <1>5. \A i \in 1..Len(p) : p[i] = Data(k + 1 + i)
    <2>. TAKE i \in 1..Len(p)
    <2>1. i + 1 \in 1..Len(q) /\ i \in 1..(Len(q) - 1) /\ k + (i + 1) = k + 1 + i
      BY <1>1
    <2>. QED
      BY <2>1, <1>1, <1>4
  <1>6. Lead(p) = 0
    <2>1. CASE p = <<>>
      BY <2>1 DEF Lead
    <2>2. CASE p # <<>>
      <3>1. 1 \in 1..Len(p)
        BY <2>2, <1>1, <1>2
      <3>2. p[1] = Data(k + 1 + 1)
        BY <3>1, <1>5
      <3>3. p[1].kind = "data"
        BY <3>2 DEF Data
      <3>. QED
        BY <3>3 DEF Lead
    <2>. QED
      BY <2>1, <2>2
  <1>7. Follows(p, k + 1)
    <2>1. \A i \in 1..Len(p) : k + 1 + i - 0 = k + 1 + i
      BY <1>1
    <2>. QED
      BY <2>1, <1>5, <1>2, <1>6 DEF Follows
  <1>. QED
    BY <1>1, <1>3, <1>4, <1>6, <1>7 DEF Load, p

(* A queue that changes its first message for none, or none for a message,  *)
(* carries the same data.                                                   *)
Quiet(q, p) ==
    /\ Load(p) = Load(q)
    /\ \A k \in Nat : Follows(q, k) => Follows(p, k)

LEMMA Unchanged == ASSUME NEW q PROVE Quiet(q, q)
  BY DEF Quiet

LEMMA Asked1 ==
  ASSUME NEW m \in Messages, m.kind # "data"
  PROVE  Quiet(<<>>, Append(<<>>, m))
  <1>1. Append(<<>>, m) = <<m>>
    OBVIOUS
  <1>2. <<m>> # <<>> /\ <<m>>[1] = m /\ Len(<<m>>) = 1 /\ DOMAIN <<m>> = 1..1
    OBVIOUS
  <1>3. Lead(<<m>>) = 1 /\ Lead(<<>>) = 0
    BY <1>2 DEF Lead
  <1>. QED
    BY <1>1, <1>2, <1>3 DEF Quiet, Load, Follows

LEMMA Answered ==
  ASSUME NEW q \in Seq(Messages), q # <<>>, q[1].kind # "data", ThenData(q)
  PROVE  Quiet(q, Tail(q))
  <1>. DEFINE p == Tail(q)
  <1>1. p \in Seq(Messages) /\ Len(p) = Len(q) - 1 /\ Len(q) \in Nat \ {0}
        /\ \A i \in 1..(Len(q) - 1) : p[i] = q[i + 1]
    BY Shortened
  <1>2. DOMAIN q = 1..Len(q) /\ DOMAIN p = 1..Len(p) /\ (p = <<>> <=> Len(p) = 0)
    BY <1>1, Domains
  <1>. HIDE DEF p
  <1>3. Lead(q) = 1
    BY DEF Lead
  <1>4. Lead(p) = 0
    <2>1. CASE p = <<>>
      BY <2>1 DEF Lead
    <2>2. CASE p # <<>>
      <3>1. 1 \in 1..(Len(q) - 1) /\ 2 \in DOMAIN q /\ p[1] = q[2]
        BY <2>2, <1>1, <1>2
      <3>. QED
        BY <3>1 DEF Lead, ThenData
    <2>. QED
      BY <2>1, <2>2
  <1>5. Load(p) = Load(q)
    BY <1>1, <1>3, <1>4 DEF Load
  <1>6. ASSUME NEW k \in Nat, Follows(q, k) PROVE Follows(p, k)
    <2>1. ASSUME NEW i \in 1..Len(p) PROVE p[i] = Data(k + i - 0)
      <3>1. i + 1 \in 1..Len(q) /\ i + 1 > 1 /\ k + (i + 1) - 1 = k + i - 0 /\ i \in 1..(Len(q) - 1)
        BY <1>1
      <3>2. q[i + 1] = Data(k + (i + 1) - 1)
        BY <3>1, <1>6, <1>2, <1>3 DEF Follows
      <3>. QED
        BY <3>1, <3>2, <1>1
    <2>. QED
      BY <2>1, <1>2, <1>4 DEF Follows
  <1>. QED
    BY <1>5, <1>6 DEF Quiet, p
-----------------------------------------------------------------------------
(* What steps do to the data of a direction: nothing,                       *)
LEMMA ChainQuiet ==
  ASSUME NEW g \in Seq(Messages), NEW n,
         NEW x \in Seq(Messages), NEW y \in Seq(Messages), NEW z \in Seq(Messages),
         NEW x1, NEW y1, NEW z1, Chain(g, x, y, z, n),
         Quiet(x, x1), Quiet(y, y1), Quiet(z, z1)
  PROVE  Chain(g, x1, y1, z1, n)
  <1>1. Len(g) \in Nat /\ Load(x) \in Nat /\ Load(y) \in Nat
    BY LeadType, Domains
  <1>2. Len(g) + Load(x) \in Nat /\ Len(g) + Load(x) + Load(y) \in Nat
    BY <1>1
  <1>. QED
    BY <1>1, <1>2 DEF Chain, Quiet

(* send the next,                                                           *)
LEMMA ChainSent ==
  ASSUME NEW g \in Seq(Messages), NEW n \in Nat,
         NEW x \in Seq(Messages), NEW y \in Seq(Messages), NEW z \in Seq(Messages),
         NEW m \in Messages, m = Data(n + 1), Chain(g, x, y, z, n)
  PROVE  Chain(g, x, y, Append(z, m), n + 1)
  <1>. DEFINE k == Len(g) + Load(x) + Load(y)
  <1>1. k \in Nat /\ Load(z) \in Nat
    <2>1. Len(g) \in Nat
      BY Domains
    <2>2. Load(x) \in Nat /\ Load(y) \in Nat /\ Load(z) \in Nat
      BY LeadType
    <2>. QED
      BY <2>1, <2>2
  <1>2. Follows(z, k) /\ n = k + Load(z)
    BY DEF Chain
  <1>. HIDE DEF k
  <1>3. Follows(Append(z, m), k) /\ Load(Append(z, m)) = Load(z) + 1
    BY <1>1, <1>2, Lengthened
  <1>4. n + 1 = k + (Load(z) + 1)
    BY <1>1, <1>2
  <1>. QED
    BY <1>3, <1>4 DEF Chain, k

(* also where there is no third link,                                       *)
LEMMA ChainSentNear ==
  ASSUME NEW g \in Seq(Messages), NEW n \in Nat,
         NEW x \in Seq(Messages), NEW y \in Seq(Messages),
         NEW m \in Messages, m = Data(n + 1), Chain(g, x, y, <<>>, n)
  PROVE  Chain(g, x, Append(y, m), <<>>, n + 1)
  <1>. DEFINE k == Len(g) + Load(x)
  <1>1. k \in Nat /\ Load(y) \in Nat /\ Load(<<>>) = 0
    BY LeadType, Domains, Nothing
  <1>2. Follows(y, k) /\ n = k + Load(y)
    BY <1>1 DEF Chain
  <1>. HIDE DEF k
  <1>3. Follows(Append(y, m), k) /\ Load(Append(y, m)) = Load(y) + 1
    BY <1>1, <1>2, Lengthened
  <1>4. n + 1 = k + (Load(y) + 1) + 0
    BY <1>1, <1>2
  <1>5. Follows(<<>>, k + (Load(y) + 1))
    BY DEF Follows
  <1>. QED
    BY <1>1, <1>3, <1>4, <1>5 DEF Chain, k

(* pass one on to the next link,                                            *)
LEMMA ChainMovedFar ==
  ASSUME NEW g \in Seq(Messages), NEW n,
         NEW x \in Seq(Messages), NEW y \in Seq(Messages), NEW z \in Seq(Messages),
         Chain(g, x, y, z, n), z # <<>>, z[1].kind = "data"
  PROVE  Chain(g, x, Append(y, Head(z)), Tail(z), n)
  <1>. DEFINE k == Len(g) + Load(x)
  <1>1. k \in Nat /\ Load(y) \in Nat /\ Load(z) \in Nat
    BY LeadType, Domains
  <1>2. Follows(y, k) /\ Follows(z, k + Load(y)) /\ n = k + Load(y) + Load(z)
    BY DEF Chain
  <1>. HIDE DEF k
  <1>3. Head(z) = z[1] /\ z[1] \in Messages
    BY Shortened
  <1>4. /\ z[1] = Data(k + Load(y) + 1)
        /\ Follows(Tail(z), k + Load(y) + 1) /\ Load(Tail(z)) = Load(z) - 1
    <2>1. k + Load(y) \in Nat
      BY <1>1
    <2>. QED
      BY <1>2, <2>1, Taken
  <1>5. Follows(Append(y, z[1]), k) /\ Load(Append(y, z[1])) = Load(y) + 1
    BY <1>1, <1>2, <1>3, <1>4, Lengthened
  <1>6. k + (Load(y) + 1) = k + Load(y) + 1 /\ n = k + (Load(y) + 1) + (Load(z) - 1)
    BY <1>1, <1>2
  <1>. QED
    BY <1>3, <1>4, <1>5, <1>6 DEF Chain, k

LEMMA ChainMovedNear ==
  ASSUME NEW g \in Seq(Messages), NEW n,
         NEW x \in Seq(Messages), NEW y \in Seq(Messages), NEW z \in Seq(Messages),
         Chain(g, x, y, z, n), y # <<>>, y[1].kind = "data"
  PROVE  Chain(g, Append(x, Head(y)), Tail(y), z, n)
  <1>. DEFINE k == Len(g)
  <1>1. k \in Nat /\ Load(x) \in Nat /\ Load(y) \in Nat /\ Load(z) \in Nat
    BY LeadType, Domains
  <1>2. Follows(x, k) /\ Follows(y, k + Load(x)) /\ Follows(z, k + Load(x) + Load(y))
        /\ n = k + Load(x) + Load(y) + Load(z)
    BY DEF Chain
  <1>. HIDE DEF k
  <1>3. Head(y) = y[1] /\ y[1] \in Messages
    BY Shortened
  <1>4. /\ y[1] = Data(k + Load(x) + 1)
        /\ Follows(Tail(y), k + Load(x) + 1) /\ Load(Tail(y)) = Load(y) - 1
    <2>1. k + Load(x) \in Nat
      BY <1>1
    <2>. QED
      BY <1>2, <2>1, Taken
  <1>5. Follows(Append(x, y[1]), k) /\ Load(Append(x, y[1])) = Load(x) + 1
    BY <1>1, <1>2, <1>3, <1>4, Lengthened
  <1>6. k + (Load(x) + 1) = k + Load(x) + 1
        /\ k + (Load(x) + 1) + (Load(y) - 1) = k + Load(x) + Load(y)
    BY <1>1
  <1>. QED
    BY <1>2, <1>3, <1>4, <1>5, <1>6 DEF Chain, k

(* or hand one over to its end,                                             *)
LEMMA ChainReceived ==
  ASSUME NEW g \in Seq(Messages), NEW n,
         NEW x \in Seq(Messages), NEW y \in Seq(Messages), NEW z \in Seq(Messages),
         Chain(g, x, y, z, n), x # <<>>, x[1].kind = "data"
  PROVE  Chain(Append(g, Head(x)), Tail(x), y, z, n)
  <1>. DEFINE h == Append(g, x[1])
  <1>1. Len(g) \in Nat /\ Load(x) \in Nat /\ Load(y) \in Nat /\ Load(z) \in Nat
    BY LeadType, Domains
  <1>2. Follows(x, Len(g)) /\ \A i \in DOMAIN g : g[i] = Data(i)
    BY DEF Chain
  <1>3. Head(x) = x[1] /\ x[1] \in Messages
    BY Shortened
  <1>4. /\ x[1] = Data(Len(g) + 1)
        /\ Follows(Tail(x), Len(g) + 1) /\ Load(Tail(x)) = Load(x) - 1
    BY <1>1, <1>2, Taken
  <1>5. h \in Seq(Messages) /\ Len(h) = Len(g) + 1 /\ h[Len(g) + 1] = x[1]
        /\ \A i \in 1..Len(g) : h[i] = g[i]
    BY <1>3, Appended
  <1>6. DOMAIN g = 1..Len(g) /\ DOMAIN h = 1..Len(h)
    BY <1>5, Domains
  <1>. HIDE DEF h
  <1>7. \A i \in DOMAIN h : h[i] = Data(i)
    <2>. TAKE i \in DOMAIN h
    <2>1. CASE i \in 1..Len(g)
      BY <2>1, <1>2, <1>5, <1>6
    <2>2. CASE i = Len(g) + 1
      BY <2>2, <1>4, <1>5
    <2>. QED
      BY <2>1, <2>2, <1>1, <1>5, <1>6
  <1>8. /\ Len(g) + 1 + (Load(x) - 1) = Len(g) + Load(x)
        /\ Len(g) + 1 + (Load(x) - 1) + Load(y) = Len(g) + Load(x) + Load(y)
        /\ Len(g) + 1 + (Load(x) - 1) + Load(y) + Load(z) = Len(g) + Load(x) + Load(y) + Load(z)
    BY <1>1
  <1>9. Chain(h, Tail(x), y, z, n)
    BY <1>4, <1>5, <1>7, <1>8 DEF Chain
  <1>. QED
    BY <1>3, <1>9 DEF h

(* also where there is no first link.                                       *)
LEMMA ChainSkipped ==
  ASSUME NEW g, NEW n, NEW y, NEW z \in Seq(Messages), Len(g) \in Nat, Load(y) \in Nat
  PROVE  Chain(g, <<>>, y, z, n) <=> Chain(g, y, <<>>, z, n)
  <1>1. Load(<<>>) = 0 /\ \A k : Follows(<<>>, k)
    BY Nothing
  <1>2. Len(g) + 0 = Len(g) /\ Len(g) + 0 + Load(y) = Len(g) + Load(y) + 0
    OBVIOUS
  <1>. QED
    BY <1>1, <1>2 DEF Chain
-----------------------------------------------------------------------------
(* Which messages a queue holds after a message was taken from it or put    *)
(* into it.                                                                 *)
LEMMA ShapeEmpty == AllData(<<>>) /\ ThenData(<<>>)
  BY DEF AllData, ThenData

LEMMA ShapeFirst ==
  ASSUME NEW m
  PROVE  /\ Append(<<>>, m) = <<m>> /\ <<m>> # <<>> /\ <<m>>[1] = m
         /\ One(<<m>>, m.kind) /\ Opens(<<m>>, m.kind) /\ ThenData(<<m>>)
  <1>1. Append(<<>>, m) = <<m>> /\ <<m>> # <<>> /\ <<m>>[1] = m /\ Len(<<m>>) = 1
        /\ DOMAIN <<m>> = 1..1
    OBVIOUS
  <1>2. ThenData(<<m>>)
    BY <1>1 DEF ThenData
  <1>. QED
    BY <1>1, <1>2 DEF One, Opens

LEMMA ShapeWeaker ==
  ASSUME NEW q \in Seq(Messages), NEW kind
  PROVE  /\ AllData(q) => ThenData(q)
         /\ One(q, kind) => Opens(q, kind)
         /\ Opens(q, kind) => ThenData(q)
         /\ Success(q) => Opens(q, "reply")
  <1>1. DOMAIN q = 1..Len(q) /\ Len(q) \in Nat /\ (q = <<>> <=> Len(q) = 0)
    BY Domains
  <1>2. One(q, kind) => Opens(q, kind)
    BY <1>1 DEF One, Opens, ThenData
  <1>. QED
    BY <1>2 DEF AllData, ThenData, Opens, Success, Reply

LEMMA ShapeTail ==
  ASSUME NEW q \in Seq(Messages), q # <<>>
  PROVE  /\ \A kind : One(q, kind) => Tail(q) = <<>>
         /\ ThenData(q) => AllData(Tail(q))
  <1>1. Tail(q) \in Seq(Messages) /\ Len(Tail(q)) = Len(q) - 1 /\ Len(q) \in Nat \ {0}
        /\ \A i \in 1..(Len(q) - 1) : Tail(q)[i] = q[i + 1]
    BY Shortened
  <1>2. DOMAIN q = 1..Len(q) /\ DOMAIN Tail(q) = 1..(Len(q) - 1)
        /\ (Tail(q) = <<>> <=> Len(q) - 1 = 0)
    BY <1>1, Domains
  <1>3. \A kind : One(q, kind) => Tail(q) = <<>>
    BY <1>2 DEF One
  <1>4. ASSUME ThenData(q), NEW i \in 1..(Len(q) - 1) PROVE Tail(q)[i].kind = "data"
    <2>1. i + 1 \in 1..Len(q) /\ i + 1 # 1
      BY <1>1
    <2>. QED
      BY <2>1, <1>1, <1>2, <1>4 DEF ThenData
  <1>. QED
    BY <1>2, <1>3, <1>4 DEF AllData

LEMMA ShapePut ==
  ASSUME NEW q \in Seq(Messages), NEW m \in Messages, m.kind = "data"
  PROVE  /\ AllData(q) => AllData(Append(q, m))
         /\ ThenData(q) => ThenData(Append(q, m))
         /\ \A kind : Opens(q, kind) => Opens(Append(q, m), kind)
         /\ Success(q) => Success(Append(q, m))
  <1>. DEFINE p == Append(q, m)
  <1>1. p \in Seq(Messages) /\ Len(p) = Len(q) + 1 /\ p # <<>> /\ p[Len(q) + 1] = m
        /\ \A i \in 1..Len(q) : p[i] = q[i]
    BY Appended
  <1>2. Len(q) \in Nat /\ DOMAIN q = 1..Len(q) /\ DOMAIN p = 1..(Len(q) + 1)
        /\ (q = <<>> <=> Len(q) = 0)
    BY <1>1, Domains
  <1>. HIDE DEF p
  <1>3. q # <<>> => 1 \in 1..Len(q) /\ p[1] = q[1]
    BY <1>1, <1>2
  <1>4. \A i \in DOMAIN p : i \in DOMAIN q \/ i = Len(q) + 1
    BY <1>2
  <1>5. AllData(q) => AllData(p)
    BY <1>1, <1>2, <1>4 DEF AllData
  <1>6. ThenData(q) => ThenData(p)
    BY <1>1, <1>2, <1>4 DEF ThenData
  <1>. QED
    BY <1>1, <1>3, <1>5, <1>6 DEF Opens, Success, p

LEMMA HeadOf ==
  ASSUME NEW q \in Seq(Messages), q # <<>>
  PROVE  /\ Head(q) = q[1] /\ Head(q) \in Messages
         /\ AllData(q) => Head(q).kind = "data"
         /\ \A m : q = <<m>> => Head(q) = m
  BY Shortened, Domains DEF AllData
-----------------------------------------------------------------------------
(* The messages.                                                            *)
LEMMA Kinds ==
  /\ \A v5, ms : Greeting(v5, ms).kind = "greet"
  /\ \A v1, right : Auth(v1, right).kind = "auth"
  /\ \A v5, cmd, wa : Request(v5, cmd, wa).kind = "request"
  /\ \A m : Method(m).kind = "method" /\ Method(m).method = m
  /\ \A ok : Status(ok).kind = "status" /\ Status(ok).ok = ok
  /\ \A rep : Reply(rep).kind = "reply" /\ Reply(rep).rep = rep
  /\ \A n : Data(n).kind = "data"
  BY DEF Greeting, Auth, Request, Method, Status, Reply, Data

Reps == {"success", "command", "address", "net", "host", "refused", "general"}

LEMMA MessageTypes ==
  /\ \A v5 \in BOOLEAN, ms \in Methods : Greeting(v5, ms) \in Messages
  /\ \A v1, right \in BOOLEAN : Auth(v1, right) \in Messages
  /\ \A v5 \in BOOLEAN, wa \in WireAddrs \cup {BadAtyp} : Request(v5, "connect", wa) \in Messages
  /\ \A v5 \in BOOLEAN, cmd \in {"udp", "bind"}, wa \in {BadAtyp, Unspecified} :
       Request(v5, cmd, wa) \in Messages
  /\ \A m \in {"none", "password", "refused"} : Method(m) \in Messages
  /\ \A ok \in BOOLEAN : Status(ok) \in Messages
  /\ \A rep \in Reps : Reply(rep) \in Messages
  /\ \A n \in Nat : Data(n) \in Messages
  BY DEF Greeting, Auth, Request, Method, Status, Reply, Data, Messages, Reps

LEMMA MessageFields ==
  ASSUME NEW m \in Messages
  PROVE  /\ m.kind = "request" =>
              /\ m.cmd \in {"connect", "udp", "bind"}
              /\ m.cmd = "connect" => m.addr \in WireAddrs \cup {BadAtyp}
         /\ m.kind = "auth" => m.v1 \in BOOLEAN /\ m.right \in BOOLEAN
         /\ m.kind = "greet" => m.v5 \in BOOLEAN
         /\ m.kind = "method" => m = Method(m.method)
         /\ m.kind = "status" => m = Status(m.ok)
         /\ m.kind = "reply" => m = Reply(m.rep)
  BY DEF Messages, Method, Status, Reply
-----------------------------------------------------------------------------
(* Addresses.  The host of a request has brackets only about a literal.     *)
Proper(h) == h \in Hosts /\ (h.brackets => h.text \in V4 \cup V6)

LEMMA ReadHostOf ==
  ASSUME NEW w \in WireAddrs
  PROVE  Proper(ReadHost(w)) /\ ReadHost(w).text = w.host.text
  <1>1. CASE w.atyp = "ipv6"
    <2>1. w.host.text \in V4 \cup V6
      BY <1>1 DEF WireAddrs, Plain
    <2>2. ReadHost(w) = Bracketed(w.host.text)
      BY <1>1 DEF ReadHost
    <2>. QED
      BY <2>1, <2>2 DEF Proper, Bracketed, Hosts, Texts
  <1>2. CASE w.atyp # "ipv6"
    <2>1. PICK t \in Texts : w.host = Plain(t)
      BY <1>2 DEF WireAddrs, Texts
    <2>2. w.host = [text |-> t, brackets |-> FALSE]
      BY <2>1 DEF Plain
    <2>3. ReadHost(w) = w.host
      BY <1>2 DEF ReadHost
    <2>. QED
      BY <2>2, <2>3 DEF Proper, Hosts
  <1>. QED
    BY <1>1, <1>2

LEMMA WireOf ==
  ASSUME NEW h
  PROVE  \A atyp : Wire(atyp, h).atyp = atyp /\ Wire(atyp, h).host = h
  BY DEF Wire

(* The next hop reads the host that was written.                            *)
LEMMA ConnectAddrOf ==
  ASSUME NEW h, Proper(h)
  PROVE  /\ ConnectAddr(h) \in WireAddrs /\ ConnectAddr(h).host = Plain(h.text)
         /\ ReadHost(ConnectAddr(h)) = h
  <1>1. h \in Hosts /\ h = [text |-> h.text, brackets |-> h.brackets] /\ h.brackets \in BOOLEAN
    BY DEF Proper, Hosts
  <1>2. CASE h.brackets
    <2>1. h.text \in V4 \cup V6 /\ h = Bracketed(h.text)
      BY <1>1, <1>2 DEF Proper, Bracketed
    <2>2. ConnectAddr(h) = Wire("ipv6", Plain(h.text))
      BY <1>2, <2>1 DEF ConnectAddr
    <2>3. Plain(h.text).text = h.text
      BY DEF Plain
    <2>. QED
      BY <2>1, <2>2, <2>3, WireOf DEF ReadHost, WireAddrs, Wire
  <1>3. CASE ~h.brackets
    <2>1. h = Plain(h.text) /\ h.text \in Texts
      BY <1>1, <1>3 DEF Plain, Hosts
    <2>2. ConnectAddr(h) = IF h.text \in V4 THEN Wire("ipv4", h) ELSE Wire("domain", h)
      BY <1>3 DEF ConnectAddr
    <2>3. CASE h.text \in V4
      BY <2>1, <2>2, <2>3, WireOf DEF ReadHost, WireAddrs, Wire
    <2>4. CASE h.text \notin V4
      BY <2>1, <2>2, <2>4, WireOf DEF ReadHost, WireAddrs, Wire
    <2>. QED
      BY <2>3, <2>4
  <1>. QED
    BY <1>1, <1>2, <1>3

LEMMA EncodeTargetOf ==
  ASSUME NEW h \in Hosts
  PROVE  /\ EncodeTarget(h) \in [atyp : {"ipv4", "ipv6", "domain"}, host : Hosts]
         /\ EncodeTarget(h).host = h
  BY DEF EncodeTarget, Wire

LEMMA ListedIsDirect ==
  ASSUME NEW h, Proper(h)
  PROVE  Listed(h.text) => IsDirectDomain(h)
  <1>1. CASE h.brackets
    BY <1>1 DEF Proper, Listed
  <1>2. CASE ~h.brackets
    BY <1>2 DEF IsDirectDomain, Under, Listed
  <1>. QED
    BY <1>1, <1>2

LEMMA RouteOf ==
  ASSUME NEW h, Proper(h)
  PROVE  /\ Listed(h.text) => Route(h) = "direct"
         /\ Route(h) = "owoss" => cfg.owoss
  BY ListedIsDirect DEF Route
-----------------------------------------------------------------------------
(* Queues of queues.                                                        *)
Queues == [Roles -> Seq(Messages)]

LEMMA PutTo ==
  ASSUME NEW q \in Queues, NEW l \in Roles, NEW m \in Messages
  PROVE  /\ Put(q, l, m) \in Queues /\ Put(q, l, m)[l] = Append(q[l], m)
         /\ \A j \in Roles : j # l => Put(q, l, m)[j] = q[j]
  BY Appended DEF Put, Queues

LEMMA DropFrom ==
  ASSUME NEW q \in Queues, NEW l \in Roles, q[l] # <<>>
  PROVE  /\ Drop(q, l) \in Queues /\ Drop(q, l)[l] = Tail(q[l])
         /\ \A j \in Roles : j # l => Drop(q, l)[j] = q[j]
  BY Shortened DEF Drop, Queues
-----------------------------------------------------------------------------
(* Types.                                                                   *)
LEMMA QueuesTyped ==
  ASSUME DialogueTypeOK
  PROVE  /\ in \in Queues /\ out \in Queues
         /\ \A l \in Roles : in[l] \in Seq(Messages) /\ out[l] \in Seq(Messages)
  BY DEF DialogueTypeOK, Queues

LEMMA TakesOne ==
  ASSUME DialogueTypeOK, NEW r \in Hops, NEW kind, Takes(r, kind)
  PROVE  /\ pc[r] = kind /\ r \notin late
         /\ in[r] # <<>> /\ in[r][1].kind = kind /\ in[r][1] \in Messages
         /\ Head(in[r]) = in[r][1]
         /\ in' \in Queues /\ in'[r] = Tail(in[r])
         /\ \A j \in Roles : j # r => in'[j] = in[j]
  <1>1. in \in Queues /\ r \in Roles
    BY DEF DialogueTypeOK, Queues, Roles
  <1>2. in[r] \in Seq(Messages) /\ in[r] # <<>>
    BY <1>1 DEF Queues, Takes, Holds
  <1>. QED
    BY <1>1, <1>2, HeadOf, DropFrom DEF Takes, Holds

LEMMA AnswerType ==
  ASSUME DialogueTypeOK, NEW r \in Roles, NEW m \in Messages, out' = Put(out, r, m)
  PROVE  /\ out' \in Queues /\ out'[r] = Append(out[r], m)
         /\ \A j \in Roles : j # r => out'[j] = out[j]
  <1>1. out \in Queues
    BY QueuesTyped
  <1>. QED
    BY <1>1, PutTo

LEMMA FailQueues ==
  ASSUME DialogueTypeOK, NEW r \in Hops, NEW rep \in Reps, Fail(r, rep)
  PROVE  /\ out' \in Queues
         /\ \A j \in Roles : j # r => out'[j] = out[j]
         /\ Leave(r) /\ UNCHANGED <<cfg, app, proved, late, dst, reached, data>>
         /\ \/ r \in late /\ out'[r] = out[r] /\ told' = told
            \/ out'[r] = Append(out[r], Reply(rep)) /\ Tell(r, "failure")
  <1>1. Reply(rep) \in Messages /\ r \in Roles
    BY MessageTypes DEF Roles
  <1>2. CASE r \in late
    BY <1>2, QueuesTyped DEF Fail, LeaveSilently
  <1>3. CASE r \notin late
    BY <1>1, <1>3, AnswerType DEF Fail, AnswerAndLeave
  <1>. QED
    BY <1>2, <1>3

LEMMA LeaveType ==
  ASSUME DialogueTypeOK, NEW r \in Roles, Leave(r), r \in Hops
  PROVE  /\ pc' = [pc EXCEPT ![r] = "over"]
         /\ hung' \subseteq Roles /\ shut' \subseteq Roles
  <1>1. NextHop[r] \in Roles
    BY DEF NextHop, Hops, Roles
  <1>. QED
    BY <1>1 DEF Leave, Goto, DialogueTypeOK

Labels == InDialogue \cup {"off", "target", "pipe", "udp", "over"}

(* What is left to show of a step once its queues are known.                *)
LEMMA TypeRest ==
  ASSUME DialogueTypeOK, in' \in Queues, out' \in Queues, NEW r \in Roles, NEW l \in Labels,
         pc' = [pc EXCEPT ![r] = l], UNCHANGED <<cfg, app, late, data>>,
         proved' \in BOOLEAN, hung' \subseteq Roles, shut' \subseteq Roles,
         dst' \in [Hops -> Hosts \cup {None}], reached' \in Texts \cup {None},
         told' \in {"nothing", "success", "failure"}
  PROVE  DialogueTypeOK'
  <1>1. pc \in [Roles -> Labels]
    BY DEF DialogueTypeOK, Labels
  <1>2. pc' \in [Roles -> Labels]
    BY <1>1
  <1>3. pc' \in [Roles -> InDialogue \cup {"off", "target", "pipe", "udp", "over"}]
    BY <1>2 DEF Labels
  <1>4. /\ cfg' \in [token : BOOLEAN, owoss : BOOLEAN, relay : BOOLEAN]
        /\ app' \in {"start", "method", "status", "ready", "reply", "open", "quit"}
        /\ late' \subseteq Hops
        /\ sent' \in [Ends -> Nat] /\ \A e \in Ends : sent'[e] <= MaxData[e]
        /\ got' \in [Ends -> Seq(Messages)]
    BY DEF DialogueTypeOK, data
  <1>. QED
    BY <1>3, <1>4 DEF DialogueTypeOK, Queues

LEMMA TellType ==
  ASSUME DialogueTypeOK, NEW r, NEW o \in {"success", "failure"}, Tell(r, o)
  PROVE  told' \in {"nothing", "success", "failure"}
  BY DEF Tell, DialogueTypeOK
-----------------------------------------------------------------------------
(* The two sides of a link.  Its client goes on,                            *)
LEMMA ClientQuits ==
  ASSUME NEW c, NEW s, NEW q \in Seq(Messages), NEW a \in Seq(Messages), NEW idle,
         Linked(c, s, q, a, idle), c # "off"
  PROVE  /\ Linked("over", s, q, a, idle)
         /\ s # "off" => Linked("quit", s, q, a, idle)
  <1>1. /\ AllData(q) => ThenData(q)
        /\ AllData(a) => ThenData(a)
        /\ Success(a) => ThenData(a)
    BY ShapeWeaker
  <1>2. Linked("over", s, q, a, idle)
    BY <1>1, ShapeEmpty DEF Linked, Gone
  <1>3. s # "off" => Linked("quit", s, q, a, idle)
    BY <1>1, ShapeEmpty DEF Linked, Gone
  <1>. QED
    BY <1>2, <1>3

LEMMA ClientEarly ==
  ASSUME NEW c \in {"greet", "auth", "request", "dial", "udp"},
         NEW d \in {"auth", "request", "dial", "udp"},
         NEW s \in Labels, NEW q, NEW a, NEW idle,
         Linked(c, s, q, a, idle)
  PROVE  Linked(d, s, q, a, idle) /\ s = "off" /\ q = <<>> /\ a = <<>>
  BY DEF Linked, Gone, Labels, InDialogue

LEMMA ClientDialled ==
  ASSUME NEW s, NEW q, NEW a, NEW idle, Linked("off", s, q, a, idle)
  PROVE  Linked("greet", s, q, a, idle)
  <1>1. s = "off"
    BY DEF Linked
  <1>. QED
    BY <1>1 DEF Linked

LEMMA ClientPipes ==
  ASSUME NEW s, NEW q, NEW a, NEW idle, Linked("tell", s, q, a, idle)
  PROVE  Linked("pipe", s, q, a, idle)
  BY DEF Linked, Gone

(* The hop at work is the client of the next role.                          *)
LEMMA NextLinked ==
  ASSUME LinksInStep, NEW r \in Hops, pc[r] # "off"
  PROVE  /\ NextHop[r] \in Roles /\ NextHop[r] # r /\ r \in Roles
         /\ r = "relay" => cfg.relay
         /\ Asker(NextHop[r]) = pc[r]
         /\ Linked(pc[r], pc[NextHop[r]], in[NextHop[r]], out[NextHop[r]], loop = "idle")
  <1>1. NextHop[r] \in Roles /\ NextHop[r] # r /\ r \in Roles
    BY DEF NextHop, Roles, Hops
  <1>2. r = "relay" => cfg.relay
    <2>1. Linked(Asker("relay"), pc["relay"], in["relay"], out["relay"], loop = "idle")
      BY DEF LinksInStep, Roles, Hops
    <2>2. ~cfg.relay => Asker("relay") = "off"
      BY DEF Asker, First
    <2>. QED
      BY <2>1, <2>2 DEF Linked
  <1>3. Asker(NextHop[r]) = pc[r]
    <2>1. CASE r = "server"
      BY <2>1 DEF Asker, First, NextHop
    <2>2. CASE r = "relay"
      BY <1>2, <2>2 DEF Asker, First, NextHop
    <2>. QED
      BY <2>1, <2>2 DEF Hops
  <1>. QED
    BY <1>1, <1>2, <1>3 DEF LinksInStep

(* A step of hop r, which serves r and is the client of the next role.      *)
LEMMA HopLinks ==
  ASSUME LinksInStep, NEW r \in Hops, UNCHANGED <<cfg, app, loop>>, pc[r] # "off",
         \A j \in Roles \ {r, NextHop[r]} : pc'[j] = pc[j] /\ in'[j] = in[j] /\ out'[j] = out[j],
         Linked(Asker(r), pc'[r], in'[r], out'[r], loop = "idle"),
         Linked(pc'[r], pc'[NextHop[r]], in'[NextHop[r]], out'[NextHop[r]], loop = "idle"),
         \/ pc'[NextHop[r]] = pc[NextHop[r]]
         \/ r = "relay" /\ pc["server"] = "off" /\ pc'["server"] = "greet"
         \/ r = "server"
  PROVE  LinksInStep'
  <1>1. \A l \in Roles : Linked(Asker(l), pc[l], in[l], out[l], loop = "idle")
    BY DEF LinksInStep
  <1>2. CASE r = "server"
    <2>1. NextHop[r] = "up" /\ Asker("up") = pc["server"] /\ Asker("up")' = pc'["server"]
      BY <1>2 DEF NextHop, Asker, First
    <2>2. pc'["relay"] = pc["relay"] /\ in'["relay"] = in["relay"] /\ out'["relay"] = out["relay"]
      BY <1>2, <2>1 DEF Roles, Hops
    <2>3. Asker("server")' = Asker("server") /\ Asker("relay")' = Asker("relay")
      BY <2>2 DEF Asker, First
    <2>. QED
      BY <1>1, <1>2, <2>1, <2>2, <2>3 DEF LinksInStep, Roles, Hops
  <1>3. CASE r = "relay"
    <2>1. cfg.relay
      BY <1>3, NextLinked
    <2>2. NextHop[r] = "server" /\ Asker("server") = pc["relay"] /\ Asker("server")' = pc'["relay"]
          /\ Asker("relay")' = Asker("relay")
          /\ Asker("up") = pc["server"] /\ Asker("up")' = pc'["server"]
      BY <1>3, <2>1 DEF NextHop, Asker, First
    <2>3. pc'["up"] = pc["up"] /\ in'["up"] = in["up"] /\ out'["up"] = out["up"]
      BY <1>3, <2>2 DEF Roles, Hops
    <2>4. Linked(pc["server"], pc["up"], in["up"], out["up"], loop = "idle")
      BY <1>1, <2>2 DEF Roles
    <2>5. Linked(pc'["server"], pc["up"], in["up"], out["up"], loop = "idle")
      <3>1. CASE pc'["server"] = pc["server"]
        BY <3>1, <2>4
      <3>2. CASE pc["server"] = "off" /\ pc'["server"] = "greet"
        BY <3>2, <2>4, ClientDialled
      <3>. QED
        BY <3>1, <3>2, <1>3, <2>2
    <2>. QED
      BY <1>3, <2>2, <2>3, <2>5 DEF LinksInStep, Roles, Hops
  <1>. QED
    BY <1>2, <1>3 DEF Hops
-----------------------------------------------------------------------------
(* Most steps of a handler take at most one message from its client and     *)
(* answer it at most once.                                                  *)
TakesAtMost(r) ==
    \/ in'[r] = in[r]
    \/ /\ in[r] # <<>> /\ in[r][1].kind # "data" /\ ThenData(in[r])
       /\ in'[r] = Tail(in[r])

AnswersAtMost(r, l) ==
    \/ out'[r] = out[r]
    \/ \E m \in Messages :
         /\ m.kind # "data" /\ out[r] = <<>> /\ out'[r] = <<m>>
         /\ m = Reply("success") => l = "pipe"

Local(r, l) ==
    /\ pc' = [pc EXCEPT ![r] = l]
    /\ in' \in Queues /\ out' \in Queues
    /\ \A j \in Roles : j # r => in'[j] = in[j] /\ out'[j] = out[j]
    /\ UNCHANGED <<cfg, app, reached, data, loop>>
    /\ TakesAtMost(r) /\ AnswersAtMost(r, l)
    /\ Linked(Asker(r), l, in'[r], out'[r], loop = "idle")

LEMMA LocalLinks ==
  ASSUME DialogueTypeOK, LinksInStep, NEW r \in Hops, NEW l, Local(r, l), pc[r] # "off",
         \/ l = "over"
         \/ pc[r] \in {"greet", "auth", "request"} /\ l \in {"auth", "request", "dial", "udp"}
         \/ pc[r] = "tell" /\ l = "pipe"
  PROVE  LinksInStep'
  <1>. DEFINE n == NextHop[r]
  <1>1. n \in Roles /\ n # r /\ r \in Roles
    BY DEF NextHop, Roles, Hops
  <1>2. pc'[r] = l /\ \A j \in Roles \ {r} : pc'[j] = pc[j]
    BY <1>1 DEF Local, DialogueTypeOK
  <1>3. Linked(pc[r], pc[n], in[n], out[n], loop = "idle")
    BY NextLinked
  <1>4. in[n] \in Seq(Messages) /\ out[n] \in Seq(Messages) /\ pc[n] \in Labels
    BY <1>1, QueuesTyped DEF DialogueTypeOK, Labels
  <1>. HIDE DEF n
  <1>5. Linked(l, pc[n], in[n], out[n], loop = "idle")
    <2>1. CASE l = "over"
      BY <2>1, <1>3, <1>4, ClientQuits
    <2>2. CASE pc[r] \in {"greet", "auth", "request"} /\ l \in {"auth", "request", "dial", "udp"}
      BY <2>2, <1>3, <1>4, ClientEarly
    <2>3. CASE pc[r] = "tell" /\ l = "pipe"
      BY <2>3, <1>3, ClientPipes
    <2>. QED
      BY <2>1, <2>2, <2>3
  <1>6. in'[n] = in[n] /\ out'[n] = out[n] /\ pc'[n] = pc[n]
    BY <1>1, <1>2 DEF Local
  <1>7. \A j \in Roles \ {r, n} : pc'[j] = pc[j] /\ in'[j] = in[j] /\ out'[j] = out[j]
    BY <1>2 DEF Local
  <1>8. Linked(Asker(r), pc'[r], in'[r], out'[r], loop = "idle")
    BY <1>2 DEF Local
  <1>9. Linked(pc'[r], pc'[n], in'[n], out'[n], loop = "idle")
    BY <1>2, <1>5, <1>6
  <1>. QED
    BY <1>6, <1>7, <1>8, <1>9, HopLinks DEF n, Local

(* No datum is taken or sent.                                               *)
LEMMA QuietStep ==
  ASSUME DialogueTypeOK, NumberedThrough, UNCHANGED data,
         \A l \in Roles : Quiet(in[l], in'[l]) /\ Quiet(out[l], out'[l])
  PROVE  NumberedThrough'
  <1>1. /\ got["far"] \in Seq(Messages) /\ got["app"] \in Seq(Messages)
        /\ \A l \in Roles : in[l] \in Seq(Messages) /\ out[l] \in Seq(Messages)
        /\ {"up", "server", "relay"} \subseteq Roles
    BY QueuesTyped DEF DialogueTypeOK, Ends, Roles, Hops
  <1>2. Chain(got["far"], in'["up"], in'["server"], in'["relay"], sent["app"])
    BY <1>1, ChainQuiet DEF NumberedThrough
  <1>3. Chain(got["app"], out'["relay"], out'["server"], out'["up"], sent["far"])
    BY <1>1, ChainQuiet DEF NumberedThrough
  <1>. QED
    BY <1>2, <1>3 DEF NumberedThrough, data

LEMMA LocalQuiet ==
  ASSUME DialogueTypeOK, NumberedThrough, NEW r \in Roles, NEW l, Local(r, l)
  PROVE  NumberedThrough'
  <1>1. Quiet(in[r], in'[r])
    BY Answered, Unchanged, QueuesTyped DEF Local, TakesAtMost
  <1>2. Quiet(out[r], out'[r])
    <2>1. CASE out'[r] = out[r]
      BY <2>1, Unchanged
    <2>2. ASSUME NEW m \in Messages, m.kind # "data", out[r] = <<>>, out'[r] = <<m>>
          PROVE  Quiet(out[r], out'[r])
      BY <2>2, Asked1, ShapeFirst
    <2>. QED
      BY <2>1, <2>2 DEF Local, AnswersAtMost
  <1>3. \A j \in Roles : Quiet(in[j], in'[j]) /\ Quiet(out[j], out'[j])
    BY <1>1, <1>2, Unchanged DEF Local
  <1>4. UNCHANGED data
    BY DEF Local
  <1>. QED
    BY <1>3, <1>4, QuietStep

(* What is on a queue after the step was on it before.                      *)
LEMMA TakenFrom ==
  ASSUME DialogueTypeOK, NEW r \in Roles, TakesAtMost(r)
  PROVE  \A i \in DOMAIN in'[r] : \E j \in DOMAIN in[r] : in'[r][i] = in[r][j]
  <1>1. CASE in'[r] = in[r]
    BY <1>1
  <1>2. CASE in[r] # <<>> /\ in'[r] = Tail(in[r])
    <2>1. in[r] \in Seq(Messages)
      BY QueuesTyped
    <2>2. Len(in'[r]) = Len(in[r]) - 1 /\ Len(in[r]) \in Nat
          /\ \A i \in 1..(Len(in[r]) - 1) : in'[r][i] = in[r][i + 1]
      BY <1>2, <2>1, Shortened
    <2>3. DOMAIN in[r] = 1..Len(in[r]) /\ DOMAIN in'[r] = 1..(Len(in[r]) - 1)
      BY <1>2, <2>1, <2>2, Shortened, Domains
    <2>4. \A i \in 1..(Len(in[r]) - 1) : i + 1 \in 1..Len(in[r])
      BY <2>2
    <2>. QED
      BY <2>2, <2>3, <2>4
  <1>. QED
    BY <1>1, <1>2 DEF TakesAtMost

LEMMA LocalRequest ==
  ASSUME DialogueTypeOK, OneRequest, NEW r \in Hops, NEW l, Local(r, l), dst' = dst,
         l \in Waiting => pc[r] \in Waiting,
         l \in Serving => pc[r] \in Serving,
         l = "udp" => r = "server" /\ ~cfg.relay
  PROVE  OneRequest'
  <1>1. r \in Roles /\ First' = First /\ pc'[r] = l /\ \A j \in Roles \ {r} : pc'[j] = pc[j]
    BY DEF Local, DialogueTypeOK, First, Hops, Roles
  <1>2. \A j \in Hops :
          /\ pc'[j] \in Waiting => dst'[j] = None
          /\ pc'[j] \in Serving => dst'[j] # None
          /\ dst'[j] # None => /\ dst'[j] = dst'[First]
                               /\ dst'[j].brackets => dst'[j].text \in V4 \cup V6
    BY <1>1 DEF OneRequest, ServesAsked, Waiting, Serving, Hops, Roles
  <1>3. (cfg.relay => pc'["server"] # "udp") /\ pc'["relay"] # "udp"
    BY <1>1 DEF OneRequest, RelaysNoUdp, Hops, Roles
  <1>4. ASSUME NEW k \in Roles \ {First}, NEW i \in DOMAIN in'[k]
        PROVE  /\ in'[k][i].kind = "request" =>
                    dst[First] # None /\ in'[k][i] = Request(TRUE, "connect", ConnectAddr(dst[First]))
               /\ in'[k][i].kind = "target" =>
                    dst[First] # None /\ in'[k][i].addr = EncodeTarget(dst[First])
    <2>1. PICK j \in DOMAIN in[k] : in'[k][i] = in[k][j]
      BY <1>1, <1>4, TakenFrom DEF Local
    <2>. QED
      BY <2>1 DEF OneRequest, PassesOnAsked
  <1>5. cfg' = cfg
    BY DEF Local
  <1>. QED
    BY <1>1, <1>2, <1>3, <1>4, <1>5 DEF OneRequest, ServesAsked, RelaysNoUdp, PassesOnAsked

LEMMA LocalOutcome ==
  ASSUME DialogueTypeOK, OneOutcome, NEW r \in Hops, NEW l, Local(r, l), dst' = dst,
         told' = told \/ (r = First /\ l \in {"pipe", "over"}),
         pc[r] # "over", pc[r] = "pipe" => l = "over",
         l = "pipe" => pc[r] = "tell", l # "tell"
  PROVE  OneOutcome'
  <1>1. r \in Roles /\ First' = First /\ First \in Roles
        /\ pc'[r] = l /\ \A j \in Roles \ {r} : pc'[j] = pc[j]
    BY DEF Local, DialogueTypeOK, First, Hops, Roles
  <1>2. r # "up" /\ "up" \in Roles
    BY DEF Hops, Roles
  <1>3. UNCHANGED <<cfg, reached>> /\ Promised' = Promised
    BY <1>1 DEF Local, Promised
  <1>4. told' # "nothing" => pc'[First] \in {"pipe", "over"}
    <2>1. CASE First = r /\ told' = told
      <3>1. told # "nothing" => pc[r] \in {"pipe", "over"}
        BY <2>1 DEF OneOutcome
      <3>. QED
        BY <2>1, <3>1, <1>1
    <2>2. CASE First # r /\ told' = told
      BY <2>2, <1>1 DEF OneOutcome
    <2>3. CASE r = First /\ l \in {"pipe", "over"}
      BY <2>3, <1>1
    <2>. QED
      BY <2>1, <2>2, <2>3
  <1>5. \A j \in Hops : pc'[j] \in {"tell", "pipe"} => Promised
    BY <1>1 DEF OneOutcome, Hops, Roles
  <1>6. ASSUME NEW k \in Roles \ {First}, NEW i \in DOMAIN out'[k], out'[k][i] = Reply("success")
        PROVE  Promised
    <2>1. CASE out'[k] = out[k]
      BY <2>1, <1>6 DEF OneOutcome
    <2>2. ASSUME NEW m \in Messages, m = Reply("success") => l = "pipe", out'[k] = <<m>>, k = r
          PROVE  Promised
      <3>1. out'[k][i] = m
        BY <2>2, <1>6
      <3>. QED
        BY <3>1, <1>6, <2>2 DEF OneOutcome
    <2>. QED
      BY <2>1, <2>2 DEF Local, AnswersAtMost
  <1>. QED
    BY <1>1, <1>2, <1>3, <1>4, <1>5, <1>6 DEF OneOutcome

LEMMA LocalDirect ==
  ASSUME DialogueTypeOK, SensitiveStaysDirect, NEW r \in Hops, NEW l, Local(r, l), dst' = dst
  PROVE  SensitiveStaysDirect'
  <1>1. First' = First /\ pc'["up"] = pc["up"] /\ in'["up"] = in["up"]
    BY DEF Local, DialogueTypeOK, First, Hops, Roles
  <1>. QED
    BY <1>1 DEF SensitiveStaysDirect
-----------------------------------------------------------------------------
(* The server of a link goes on: with a greeting,                           *)
LEMMA ServerGreets ==
  ASSUME NEW c, NEW q \in Seq(Messages), NEW a, NEW i, Linked(c, "greet", q, a, i), q # <<>>
  PROVE  /\ One(q, "greet") /\ a = <<>>
         /\ Linked(c, "over", <<>>, <<>>, i)
         /\ \A m : Linked(c, "over", <<>>, <<Method(m)>>, i)
         /\ Linked(c, "auth", <<>>, <<Method("password")>>, i)
         /\ Linked(c, "request", <<>>, <<Method("none")>>, i)
  <1>1. One(q, "greet") /\ a = <<>> /\ c \in {"method"} \cup Gone
    BY DEF Linked
  <1>2. \A m : ThenData(<<Method(m)>>) /\ One(<<Method(m)>>, "method")
    BY ShapeFirst, Kinds
  <1>3. c # "off"
    BY <1>1 DEF Gone
  <1>. QED
    BY <1>1, <1>2, <1>3, ShapeEmpty DEF Linked

(* an authentication,                                                       *)
LEMMA ServerAuthenticates ==
  ASSUME NEW c, NEW q \in Seq(Messages), NEW a, NEW i, Linked(c, "auth", q, a, i), q # <<>>
  PROVE  /\ One(q, "auth") /\ a = <<>>
         /\ Linked(c, "over", <<>>, <<Status(FALSE)>>, i)
         /\ Linked(c, "request", <<>>, <<Status(TRUE)>>, i)
  <1>1. One(q, "auth") /\ a = <<>> /\ c \in {"status"} \cup Gone
    BY DEF Linked
  <1>2. \A ok : ThenData(<<Status(ok)>>) /\ One(<<Status(ok)>>, "status")
    BY ShapeFirst, Kinds
  <1>3. c # "off"
    BY <1>1 DEF Gone
  <1>. QED
    BY <1>1, <1>2, <1>3, ShapeEmpty DEF Linked

(* a request,                                                               *)
LEMMA ServerAsked ==
  ASSUME NEW c, NEW q \in Seq(Messages), NEW a, NEW i, Linked(c, "request", q, a, i), q # <<>>
  PROVE  /\ Opens(q, "request") /\ a = <<>>
         /\ Linked(c, "over", Tail(q), <<>>, i)
         /\ \A rep : Linked(c, "over", Tail(q), <<Reply(rep)>>, i)
         /\ Linked(c, "udp", Tail(q), <<>>, i)
         /\ Linked(c, "dial", Tail(q), <<>>, i)
  <1>1. Opens(q, "request") /\ a = <<>> /\ c \in {"reply"} \cup Gone
    BY DEF Linked
  <1>2. AllData(Tail(q)) /\ ThenData(Tail(q))
    <2>1. Tail(q) \in Seq(Messages)
      BY Shortened
    <2>. QED
      BY <1>1, <2>1, ShapeTail, ShapeWeaker DEF Opens
  <1>3. \A rep : ThenData(<<Reply(rep)>>) /\ Opens(<<Reply(rep)>>, "reply")
    BY ShapeFirst, Kinds
  <1>5. c # "off"
    BY <1>1 DEF Gone
  <1>. QED
    BY <1>1, <1>2, <1>3, <1>5, ShapeEmpty DEF Linked

(* or to its end, with or without a reply to the request,                   *)
LEMMA ServerLeaves ==
  ASSUME NEW c, NEW s \in Labels \ {"off", "target"}, NEW q \in Seq(Messages),
         NEW a \in Seq(Messages), NEW i, Linked(c, s, q, a, i)
  PROVE  Linked(c, "over", q, a, i)
  <1>1. /\ AllData(q) => ThenData(q)
        /\ AllData(a) => ThenData(a)
        /\ Success(a) => Opens(a, "reply")
        /\ \A kind : One(q, kind) => ThenData(q)
        /\ \A kind : One(a, kind) => Opens(a, kind)
        /\ \A kind : Opens(q, kind) => ThenData(q)
        /\ \A kind : Opens(a, kind) => ThenData(a)
    BY ShapeWeaker
  <1>2. \A m : One(<<Method(m)>>, "method") /\ ThenData(<<Method(m)>>)
    BY ShapeFirst, Kinds
  <1>3. \A ok : One(<<Status(ok)>>, "status") /\ ThenData(<<Status(ok)>>)
    BY ShapeFirst, Kinds
  <1>4. c # "off"
    BY DEF Linked
  <1>5. CASE s \in {"greet", "auth", "request"}
    BY <1>1, <1>2, <1>3, <1>4, <1>5, ShapeEmpty DEF Linked, Gone
  <1>6. CASE s \in {"dial", "method", "status", "reply", "tell"}
    BY <1>1, <1>4, <1>6, ShapeEmpty DEF Linked
  <1>7. CASE s \in {"pipe", "udp"}
    BY <1>1, <1>4, <1>7, ShapeEmpty DEF Linked
  <1>8. CASE s = "over"
    BY <1>8
  <1>. QED
    BY <1>5, <1>6, <1>7, <1>8 DEF Labels, InDialogue

Connecting == {"dial", "method", "status", "reply", "tell"}

LEMMA ServerConnects ==
  ASSUME NEW c, NEW s \in Connecting, NEW q \in Seq(Messages), NEW a, NEW i, Linked(c, s, q, a, i)
  PROVE  /\ a = <<>>
         /\ \A rep : Linked(c, "over", q, <<Reply(rep)>>, i)
         /\ \A t \in Connecting : Linked(c, t, q, a, i)
  <1>1. AllData(q) /\ a = <<>> /\ c \in {"reply"} \cup Gone /\ c # "off"
    BY DEF Linked, Connecting, Gone
  <1>2. ThenData(q)
    BY <1>1, ShapeWeaker
  <1>3. \A rep : ThenData(<<Reply(rep)>>) /\ Opens(<<Reply(rep)>>, "reply")
    BY ShapeFirst, Kinds
  <1>5. \A rep : Linked(c, "over", q, <<Reply(rep)>>, i)
    BY <1>1, <1>2, <1>3 DEF Linked
  <1>7. ASSUME NEW t \in Connecting PROVE Linked(c, t, q, a, i)
    BY <1>1 DEF Linked, Connecting
  <1>. QED
    BY <1>1, <1>5, <1>7

LEMMA ServerTells ==
  ASSUME NEW c, NEW q \in Seq(Messages), NEW a, NEW i, Linked(c, "tell", q, a, i)
  PROVE  a = <<>> /\ Linked(c, "pipe", q, <<Reply("success")>>, i)
  <1>1. AllData(q) /\ a = <<>> /\ c \in {"reply"} \cup Gone /\ c # "off"
    BY DEF Linked, Gone
  <1>2. Success(<<Reply("success")>>)
    BY ShapeFirst, Kinds DEF Success
  <1>. QED
    BY <1>1, <1>2 DEF Linked
LEMMA UnlistedKept ==
  ASSUME AsksForUnlisted, dst'["server"] = dst["server"],
         pc'["server"] = pc["server"] \/ pc["server"] \in {"method", "status", "reply"}
                                     \/ pc'["server"] \notin {"method", "status", "reply"}
  PROVE  AsksForUnlisted'
  BY DEF AsksForUnlisted
-----------------------------------------------------------------------------
(* A handler's step that takes at most a message and answers at most once   *)
(* keeps the invariant.                                                     *)
Goes(s, l) ==
    \/ l = "over" /\ s \notin {"off", "over"}
    \/ s \in {"greet", "auth"} /\ l \in {"auth", "request"}
    \/ s = "tell" /\ l = "pipe"
    \/ s = "request" /\ l = "udp"

LEMMA LocalStep ==
  ASSUME DialogueInv, NEW r \in Hops, NEW l \in Labels, Local(r, l), Goes(pc[r], l),
         l = "udp" => r = "server" /\ ~cfg.relay,
         UNCHANGED <<late, dst>>, proved' \in BOOLEAN, hung' \subseteq Roles, shut' \subseteq Roles,
         told' = told \/ (r = First /\ l \in {"pipe", "over"} /\ told' \in {"success", "failure"})
  PROVE  DialogueInv'
  <1>1. r \in Roles /\ DialogueTypeOK /\ LinksInStep /\ NumberedThrough /\ OneRequest /\ OneOutcome
        /\ SensitiveStaysDirect /\ AsksForUnlisted
    BY DEF DialogueInv, Roles
  <1>2. pc[r] \notin {"off", "over"}
    BY DEF Goes
  <1>3. DialogueTypeOK'
    <2>1. /\ in' \in Queues /\ out' \in Queues /\ pc' = [pc EXCEPT ![r] = l]
          /\ UNCHANGED <<cfg, app, reached, data>>
      BY DEF Local
    <2>2. /\ dst' \in [Hops -> Hosts \cup {None}] /\ reached' \in Texts \cup {None}
          /\ told' \in {"nothing", "success", "failure"}
      BY <1>1, <2>1 DEF DialogueTypeOK
    <2>. QED
      BY <1>1, <2>1, <2>2, TypeRest
  <1>4. LinksInStep'
    BY <1>1, <1>2, LocalLinks DEF Goes
  <1>5. NumberedThrough'
    BY <1>1, LocalQuiet
  <1>6. OneRequest'
    BY <1>1, LocalRequest DEF Goes, Waiting, Serving
  <1>7. OneOutcome'
    BY <1>1, LocalOutcome DEF Goes
  <1>8. SensitiveStaysDirect'
    BY <1>1, LocalDirect
  <1>9. AsksForUnlisted'
    <2>1. pc'["server"] = pc["server"] \/ pc'["server"] = l
      BY <1>1 DEF Local, DialogueTypeOK, Roles, Hops
    <2>2. l \notin {"method", "status", "reply"}
      BY DEF Goes
    <2>3. dst'["server"] = dst["server"]
      OBVIOUS
    <2>. QED
      BY <1>1, <2>1, <2>2, <2>3, UnlistedKept
  <1>. QED
    BY <1>3, <1>4, <1>5, <1>6, <1>7, <1>8, <1>9 DEF DialogueInv

LEMMA SilentLocal ==
  ASSUME DialogueTypeOK, NEW r \in Hops, NEW l, pc' = [pc EXCEPT ![r] = l],
         UNCHANGED <<cfg, app, out, reached, data, loop>>,
         in' \in Queues, \A j \in Roles : j # r => in'[j] = in[j], TakesAtMost(r),
         Linked(Asker(r), l, in'[r], out[r], loop = "idle")
  PROVE  Local(r, l)
  <1>1. out' \in Queues
    BY QueuesTyped
  <1>. QED
    BY <1>1 DEF Local, AnswersAtMost

LEMMA AnswerLocal ==
  ASSUME DialogueTypeOK, NEW r \in Hops, NEW l, pc' = [pc EXCEPT ![r] = l],
         UNCHANGED <<cfg, app, reached, data, loop>>,
         in' \in Queues, \A j \in Roles : j # r => in'[j] = in[j], TakesAtMost(r),
         NEW m \in Messages, m.kind # "data", out' = Put(out, r, m), out[r] = <<>>,
         m = Reply("success") => l = "pipe",
         Linked(Asker(r), l, in'[r], <<m>>, loop = "idle")
  PROVE  Local(r, l)
  <1>1. r \in Roles
    BY DEF Roles
  <1>2. out' \in Queues /\ out'[r] = <<m>> /\ \A j \in Roles : j # r => out'[j] = out[j]
    BY <1>1, AnswerType, ShapeFirst
  <1>. QED
    BY <1>2 DEF Local, AnswersAtMost

LEMMA HopLinked ==
  ASSUME DialogueInv, NEW r \in Hops
  PROVE  /\ DialogueTypeOK /\ r \in Roles /\ pc[r] \in Labels
         /\ in \in Queues /\ out \in Queues
         /\ in[r] \in Seq(Messages) /\ out[r] \in Seq(Messages)
         /\ Linked(Asker(r), pc[r], in[r], out[r], loop = "idle")
  <1>1. DialogueTypeOK /\ r \in Roles /\ LinksInStep
    BY DEF DialogueInv, Roles
  <1>2. pc[r] \in Labels
    BY <1>1 DEF DialogueTypeOK, Labels
  <1>. QED
    BY <1>1, <1>2, QueuesTyped DEF LinksInStep

LEMMA GreetStep ==
  ASSUME DialogueInv, NEW r \in Hops, Greet(r), loop' = loop
  PROVE  DialogueInv'
  <1>1. DialogueTypeOK /\ r \in Roles /\ Takes(r, "greet") /\ in[r] \in Seq(Messages)
    BY HopLinked DEF Greet
  <1>2. /\ pc[r] = "greet" /\ in[r] # <<>> /\ Head(in[r]) = in[r][1]
        /\ in' \in Queues /\ in'[r] = Tail(in[r]) /\ \A j \in Roles : j # r => in'[j] = in[j]
    BY <1>1, TakesOne
  <1>3. Linked(Asker(r), "greet", in[r], out[r], loop = "idle")
    BY <1>2, HopLinked
  <1>4. /\ One(in[r], "greet") /\ out[r] = <<>>
        /\ Linked(Asker(r), "over", <<>>, <<>>, loop = "idle")
        /\ \A m : Linked(Asker(r), "over", <<>>, <<Method(m)>>, loop = "idle")
        /\ Linked(Asker(r), "auth", <<>>, <<Method("password")>>, loop = "idle")
        /\ Linked(Asker(r), "request", <<>>, <<Method("none")>>, loop = "idle")
    BY <1>1, <1>2, <1>3, ServerGreets
  <1>5. in'[r] = <<>> /\ TakesAtMost(r)
    BY <1>1, <1>2, <1>4, ShapeTail, ShapeWeaker DEF TakesAtMost, One
  <1>6. /\ UNCHANGED <<cfg, app, proved, late, dst, reached, told, data>>
        /\ proved' \in BOOLEAN
    BY <1>1 DEF Greet, DialogueTypeOK
  <1>7. \A m \in {"refused", "password", "none"} :
          Method(m) \in Messages /\ Method(m).kind # "data" /\ Method(m) # Reply("success")
    BY MessageTypes DEF Method, Reply
  <1>8. CASE LeaveSilently(r)
    <2>1. Leave(r) /\ out' = out
      BY <1>8 DEF LeaveSilently
    <2>2. Local(r, "over")
      BY <1>1, <1>2, <1>4, <1>5, <1>6, <2>1, LeaveType, SilentLocal
    <2>. QED
      BY <1>1, <1>2, <1>6, <2>1, <2>2, LeaveType, LocalStep DEF Goes, Labels
  <1>9. CASE AnswerAndLeave(r, Method("refused"))
    <2>1. Leave(r) /\ out' = Put(out, r, Method("refused"))
      BY <1>9 DEF AnswerAndLeave
    <2>2. pc' = [pc EXCEPT ![r] = "over"]
      BY <1>1, <2>1, LeaveType
    <2>3. Linked(Asker(r), "over", in'[r], <<Method("refused")>>, loop = "idle")
      BY <1>4, <1>5
    <2>4. Local(r, "over")
      BY <1>1, <1>2, <1>4, <1>5, <1>6, <1>7, <2>1, <2>2, <2>3, AnswerLocal
    <2>. QED
      BY <1>1, <1>2, <1>6, <2>1, <2>4, LeaveType, LocalStep DEF Goes, Labels
  <1>10. ASSUME NEW m \in {"password", "none"}, NEW l \in {"auth", "request"},
                AnswerAndStay(r, Method(m), l), l = "auth" <=> m = "password"
         PROVE  DialogueInv'
    <2>1. /\ pc' = [pc EXCEPT ![r] = l] /\ UNCHANGED <<hung, shut>>
          /\ out' = Put(out, r, Method(m))
      BY <1>10 DEF AnswerAndStay, Stay, Goto
    <2>2. Linked(Asker(r), l, in'[r], <<Method(m)>>, loop = "idle")
      BY <1>4, <1>5, <1>10
    <2>3. Local(r, l)
      BY <1>1, <1>2, <1>4, <1>5, <1>6, <1>7, <2>1, <2>2, AnswerLocal
    <2>4. hung' \subseteq Roles /\ shut' \subseteq Roles
      BY <1>1, <2>1 DEF DialogueTypeOK
    <2>5. l \in Labels /\ Goes(pc[r], l)
      BY <1>2 DEF Goes, Labels, InDialogue
    <2>. QED
      BY <1>6, <2>3, <2>4, <2>5, LocalStep
  <1>. QED
    BY <1>8, <1>9, <1>10 DEF Greet

LEMMA AuthenticateStep ==
  ASSUME DialogueInv, NEW r \in Hops, Authenticate(r), loop' = loop
  PROVE  DialogueInv'
  <1>1. DialogueTypeOK /\ r \in Roles /\ Takes(r, "auth") /\ in[r] \in Seq(Messages)
    BY HopLinked DEF Authenticate
  <1>2. /\ pc[r] = "auth" /\ in[r] # <<>> /\ Head(in[r]) = in[r][1]
        /\ in[r][1] \in Messages /\ in[r][1].kind = "auth"
        /\ in' \in Queues /\ in'[r] = Tail(in[r]) /\ \A j \in Roles : j # r => in'[j] = in[j]
    BY <1>1, TakesOne
  <1>3. Linked(Asker(r), "auth", in[r], out[r], loop = "idle")
    BY <1>2, HopLinked
  <1>4. /\ One(in[r], "auth") /\ out[r] = <<>>
        /\ Linked(Asker(r), "over", <<>>, <<Status(FALSE)>>, loop = "idle")
        /\ Linked(Asker(r), "request", <<>>, <<Status(TRUE)>>, loop = "idle")
    <2>1. in[r] \in Seq(Messages) /\ in[r] # <<>>
      BY <1>1, <1>2
    <2>. QED
      <3>1. One(in[r], "auth") /\ out[r] = <<>>
        BY <1>3, <2>1, ServerAuthenticates
      <3>2. Linked(Asker(r), "over", <<>>, <<Status(FALSE)>>, loop = "idle")
        BY <1>3, <2>1, ServerAuthenticates
      <3>3. Linked(Asker(r), "request", <<>>, <<Status(TRUE)>>, loop = "idle")
        BY <1>3, <2>1, ServerAuthenticates
      <3>. QED
        BY <3>1, <3>2, <3>3
  <1>5. in'[r] = <<>> /\ TakesAtMost(r)
    BY <1>1, <1>2, <1>4, ShapeTail, ShapeWeaker DEF TakesAtMost, One
  <1>6. /\ UNCHANGED <<cfg, app, late, dst, reached, told, data>>
        /\ proved' \in BOOLEAN
    BY <1>1, <1>2, MessageFields DEF Authenticate, DialogueTypeOK
  <1>7. \A ok \in BOOLEAN :
          Status(ok) \in Messages /\ Status(ok).kind # "data" /\ Status(ok) # Reply("success")
    BY MessageTypes DEF Status, Reply
  <1>8. CASE AnswerAndLeave(r, Status(FALSE))
    <2>1. Leave(r) /\ out' = Put(out, r, Status(FALSE))
      BY <1>8 DEF AnswerAndLeave
    <2>2. pc' = [pc EXCEPT ![r] = "over"]
      BY <1>1, <2>1, LeaveType
    <2>3. Linked(Asker(r), "over", in'[r], <<Status(FALSE)>>, loop = "idle")
      BY <1>4, <1>5
    <2>4. Local(r, "over")
      BY <1>1, <1>2, <1>4, <1>5, <1>6, <1>7, <2>1, <2>2, <2>3, AnswerLocal
    <2>. QED
      BY <1>1, <1>2, <1>6, <2>1, <2>4, LeaveType, LocalStep DEF Goes, Labels
  <1>9. CASE AnswerAndStay(r, Status(TRUE), "request")
    <2>1. /\ pc' = [pc EXCEPT ![r] = "request"] /\ UNCHANGED <<hung, shut>>
          /\ out' = Put(out, r, Status(TRUE))
      BY <1>9 DEF AnswerAndStay, Stay, Goto
    <2>2. Linked(Asker(r), "request", in'[r], <<Status(TRUE)>>, loop = "idle")
      BY <1>4, <1>5
    <2>3. Local(r, "request")
      BY <1>1, <1>2, <1>4, <1>5, <1>6, <1>7, <2>1, <2>2, AnswerLocal
    <2>4. hung' \subseteq Roles /\ shut' \subseteq Roles
      BY <1>1, <2>1 DEF DialogueTypeOK
    <2>5. "request" \in Labels /\ Goes(pc[r], "request")
      BY <1>2 DEF Goes, Labels, InDialogue
    <2>. QED
      BY <1>6, <2>3, <2>4, <2>5, LocalStep
  <1>. QED
    BY <1>8, <1>9 DEF Authenticate

(* The handler returns without a word.                                      *)
LEMMA SilentStep ==
  ASSUME DialogueInv, NEW r \in Hops, LeaveSilently(r), pc[r] \notin {"off", "target", "over"},
         UNCHANGED <<cfg, app, proved, in, late, dst, reached, told, data, loop>>
  PROVE  DialogueInv'
  <1>1. /\ DialogueTypeOK /\ r \in Roles /\ pc[r] \in Labels
        /\ in \in Queues /\ in[r] \in Seq(Messages) /\ out[r] \in Seq(Messages)
        /\ Linked(Asker(r), pc[r], in[r], out[r], loop = "idle")
    BY HopLinked
  <1>2. Linked(Asker(r), "over", in'[r], out[r], loop = "idle")
    BY <1>1, ServerLeaves
  <1>3. Leave(r) /\ out' = out /\ TakesAtMost(r)
    BY DEF LeaveSilently, TakesAtMost
  <1>4. pc' = [pc EXCEPT ![r] = "over"] /\ hung' \subseteq Roles /\ shut' \subseteq Roles
    BY <1>1, <1>3, LeaveType
  <1>5. Local(r, "over")
    BY <1>1, <1>2, <1>3, <1>4, SilentLocal
  <1>6. proved' \in BOOLEAN /\ Goes(pc[r], "over") /\ "over" \in Labels
    BY <1>1 DEF DialogueTypeOK, Goes, Labels
  <1>. QED
    BY <1>4, <1>5, <1>6, LocalStep

(* Dialling or connecting has failed.                                       *)
LEMMA FailStep ==
  ASSUME DialogueInv, NEW r \in Hops, NEW rep \in Reps, rep # "success", Fail(r, rep),
         pc[r] \in Connecting, in' = in, loop' = loop
  PROVE  DialogueInv'
  <1>1. /\ DialogueTypeOK /\ r \in Roles
        /\ in \in Queues /\ in[r] \in Seq(Messages)
        /\ Linked(Asker(r), pc[r], in[r], out[r], loop = "idle")
    BY HopLinked
  <1>2. UNCHANGED <<cfg, app, proved, late, dst, reached, data>>
    BY DEF Fail
  <1>3. pc[r] \notin {"off", "target", "over"}
    BY DEF Connecting
  <1>4. CASE r \in late
    BY <1>2, <1>3, <1>4, SilentStep DEF Fail
  <1>5. CASE r \notin late
    <2>1. Leave(r) /\ out' = Put(out, r, Reply(rep)) /\ Tell(r, "failure")
      BY <1>5 DEF Fail, AnswerAndLeave
    <2>2. out[r] = <<>> /\ Linked(Asker(r), "over", in'[r], <<Reply(rep)>>, loop = "idle")
      BY <1>1, ServerConnects
    <2>3. Reply(rep) \in Messages /\ Reply(rep).kind # "data" /\ Reply(rep) # Reply("success")
      BY MessageTypes DEF Reply
    <2>4. pc' = [pc EXCEPT ![r] = "over"] /\ hung' \subseteq Roles /\ shut' \subseteq Roles
      BY <1>1, <2>1, LeaveType
    <2>5. Local(r, "over")
      BY <1>1, <1>2, <2>1, <2>2, <2>3, <2>4, AnswerLocal DEF TakesAtMost
    <2>6. told' = told \/ (r = First /\ told' \in {"success", "failure"})
      BY <2>1 DEF Tell
    <2>7. proved' \in BOOLEAN /\ Goes(pc[r], "over") /\ "over" \in Labels
      BY <1>1, <1>2, <1>3 DEF DialogueTypeOK, Goes, Labels
    <2>. QED
      BY <1>2, <2>4, <2>5, <2>6, <2>7, LocalStep
  <1>. QED
    BY <1>4, <1>5

LEMMA TellSuccessStep ==
  ASSUME DialogueInv, NEW r \in Hops, TellSuccess(r), loop' = loop
  PROVE  DialogueInv'
  <1>1. /\ DialogueTypeOK /\ r \in Roles
        /\ in \in Queues /\ in[r] \in Seq(Messages)
        /\ Linked(Asker(r), pc[r], in[r], out[r], loop = "idle")
    BY HopLinked
  <1>2. pc[r] = "tell" /\ UNCHANGED <<cfg, app, proved, in, late, dst, reached, data>>
    BY DEF TellSuccess
  <1>3. CASE LeaveSilently(r) /\ told' = told
    BY <1>2, <1>3, SilentStep
  <1>4. CASE AnswerAndStay(r, Reply("success"), "pipe") /\ Tell(r, "success")
    <2>1. /\ pc' = [pc EXCEPT ![r] = "pipe"] /\ UNCHANGED <<hung, shut>>
          /\ out' = Put(out, r, Reply("success"))
      BY <1>4 DEF AnswerAndStay, Stay, Goto
    <2>2. out[r] = <<>> /\ Linked(Asker(r), "pipe", in'[r], <<Reply("success")>>, loop = "idle")
      <3>1. Linked(Asker(r), "tell", in[r], out[r], loop = "idle")
        BY <1>1, <1>2
      <3>2. out[r] = <<>> /\ Linked(Asker(r), "pipe", in[r], <<Reply("success")>>, loop = "idle")
        BY <1>1, <3>1, ServerTells
      <3>. QED
        BY <1>2, <3>2
    <2>3. Reply("success") \in Messages /\ Reply("success").kind # "data"
      BY MessageTypes, Kinds DEF Reps
    <2>4. Local(r, "pipe")
      <3>1. TakesAtMost(r) /\ in' \in Queues /\ \A j \in Roles : j # r => in'[j] = in[j]
        BY <1>1, <1>2 DEF TakesAtMost
      <3>. QED
        BY <1>1, <1>2, <2>1, <2>2, <2>3, <3>1, AnswerLocal
    <2>5. told' = told \/ (r = First /\ told' \in {"success", "failure"})
      BY <1>4 DEF Tell
    <2>6. /\ proved' \in BOOLEAN /\ hung' \subseteq Roles /\ shut' \subseteq Roles
          /\ Goes(pc[r], "pipe") /\ "pipe" \in Labels
      BY <1>1, <1>2, <2>1 DEF DialogueTypeOK, Goes, Labels
    <2>. QED
      BY <1>2, <2>4, <2>5, <2>6, LocalStep
  <1>. QED
    BY <1>3, <1>4 DEF TellSuccess

(* The handler takes up a request: nothing was asked of anyone before, or   *)
(* it is the one that the relay has taken up.                               *)
LEMMA AskedOf ==
  ASSUME DialogueInv, NEW r \in Hops, pc[r] = "request", in[r] # <<>>,
         in[r][1].kind = "request", in[r][1].cmd = "connect",
         in[r][1].addr \in WireAddrs
  PROVE  /\ Proper(ReadHost(in[r][1].addr))
         /\ r # First => dst[First] # None /\ ReadHost(in[r][1].addr) = dst[First]
  <1>1. Proper(ReadHost(in[r][1].addr))
    BY ReadHostOf
  <1>2. ASSUME r # First PROVE dst[First] # None /\ ReadHost(in[r][1].addr) = dst[First]
    <2>1. 1 \in DOMAIN in[r]
      BY HopLinked, Domains
    <2>2. /\ dst[First] # None
          /\ in[r][1] = Request(TRUE, "connect", ConnectAddr(dst[First]))
      BY <1>2, <2>1 DEF DialogueInv, OneRequest, PassesOnAsked, Roles
    <2>3. in[r][1].addr = ConnectAddr(dst[First])
      BY <2>2 DEF Request
    <2>4. First \in Hops /\ Proper(dst[First])
      BY <2>2 DEF DialogueInv, OneRequest, ServesAsked, DialogueTypeOK, Proper, First, Hops
    <2>. QED
      BY <2>2, <2>3, <2>4, ConnectAddrOf
  <1>. QED
    BY <1>1, <1>2

LEMMA TakeUpRequest ==
  ASSUME DialogueInv, NEW r \in Hops, Local(r, "dial"), pc[r] = "request",
         NEW h, Proper(h), dst' = [dst EXCEPT ![r] = h],
         r # First => dst[First] # None /\ h = dst[First]
  PROVE  OneRequest'
  <1>1. DialogueTypeOK /\ OneRequest /\ r \in Roles /\ First' = First /\ First \in Hops /\ cfg' = cfg
    BY DEF DialogueInv, Local, First, Hops, Roles
  <1>2. pc'[r] = "dial" /\ \A j \in Roles \ {r} : pc'[j] = pc[j]
    BY <1>1 DEF Local, DialogueTypeOK
  <1>3. h # None /\ h \in Hosts /\ (h.brackets => h.text \in V4 \cup V6)
    BY DialogueAssumption DEF Proper
  <1>4. dst'[r] = h /\ \A j \in Hops \ {r} : dst'[j] = dst[j]
    BY <1>1 DEF DialogueTypeOK
  <1>5. r = First => dst[First] = None
    BY <1>1 DEF OneRequest, ServesAsked, Waiting
  <1>6. \A j \in Hops : dst[j] # None => dst[j] = dst[First]
    BY <1>1 DEF OneRequest, ServesAsked
  <1>7. \A j \in Hops :
          /\ pc'[j] \in Waiting => dst'[j] = None
          /\ pc'[j] \in Serving => dst'[j] # None
    BY <1>1, <1>2, <1>3, <1>4 DEF OneRequest, ServesAsked, Waiting, Serving, Hops, Roles
  <1>8. ASSUME NEW j \in Hops, dst'[j] # None
        PROVE  dst'[j] = dst'[First] /\ (dst'[j].brackets => dst'[j].text \in V4 \cup V6)
    <2>1. CASE j = r
      BY <2>1, <1>1, <1>3, <1>4
    <2>2. CASE j # r
      <3>1. dst[j] # None /\ dst[j] = dst[First] /\ (dst[j].brackets => dst[j].text \in V4 \cup V6)
        BY <2>2, <1>1, <1>4, <1>8 DEF OneRequest, ServesAsked
      <3>2. r # First
        BY <3>1, <1>5
      <3>. QED
        BY <2>2, <3>1, <3>2, <1>1, <1>4
    <2>. QED
      BY <2>1, <2>2
  <1>9. (cfg.relay => pc'["server"] # "udp") /\ pc'["relay"] # "udp"
    BY <1>1, <1>2 DEF OneRequest, RelaysNoUdp, Hops, Roles
  <1>10. ASSUME NEW k \in Roles \ {First}, NEW i \in DOMAIN in'[k]
         PROVE  /\ in'[k][i].kind = "request" =>
                     dst'[First] # None
                     /\ in'[k][i] = Request(TRUE, "connect", ConnectAddr(dst'[First]))
                /\ in'[k][i].kind = "target" =>
                     dst'[First] # None /\ in'[k][i].addr = EncodeTarget(dst'[First])
    <2>1. PICK j \in DOMAIN in[k] : in'[k][i] = in[k][j]
      BY <1>1, <1>10, TakenFrom DEF Local
    <2>2. /\ in[k][j].kind = "request" =>
               dst[First] # None /\ in[k][j] = Request(TRUE, "connect", ConnectAddr(dst[First]))
          /\ in[k][j].kind = "target" =>
               dst[First] # None /\ in[k][j].addr = EncodeTarget(dst[First])
      BY <1>1 DEF OneRequest, PassesOnAsked
    <2>3. r # First => dst'[First] = dst[First]
      BY <1>1, <1>4
    <2>. QED
      BY <2>1, <2>2, <2>3, <1>5
  <1>11. \A j \in Hops :
           /\ pc'[j] \in Waiting => dst'[j] = None
           /\ pc'[j] \in Serving => dst'[j] # None
           /\ dst'[j] # None => /\ dst'[j] = dst'[First]
                                /\ dst'[j].brackets => dst'[j].text \in V4 \cup V6
    BY <1>7, <1>8
  <1>12. ServesAsked'
    BY <1>1, <1>11 DEF ServesAsked
  <1>13. PassesOnAsked'
    <2>1. ASSUME NEW k \in Roles \ {First'}, NEW i \in DOMAIN in'[k]
          PROVE  /\ in'[k][i].kind = "request" =>
                      dst'[First'] # None
                      /\ in'[k][i] = Request(TRUE, "connect", ConnectAddr(dst'[First']))
                 /\ in'[k][i].kind = "target" =>
                      dst'[First'] # None /\ in'[k][i].addr = EncodeTarget(dst'[First'])
      BY <1>1, <1>10
    <2>. QED
      BY <2>1 DEF PassesOnAsked
  <1>14. RelaysNoUdp'
    BY <1>1, <1>9 DEF RelaysNoUdp
  <1>. QED
    BY <1>12, <1>13, <1>14 DEF OneRequest

LEMMA TakeUpOutcome ==
  ASSUME DialogueInv, NEW r \in Hops, Local(r, "dial"), pc[r] = "request",
         NEW h, dst' = [dst EXCEPT ![r] = h], told' = told
  PROVE  OneOutcome'
  <1>1. DialogueTypeOK /\ OneRequest /\ OneOutcome /\ r \in Roles /\ First' = First /\ First \in Hops
        /\ UNCHANGED <<cfg, reached>> /\ r # "up" /\ "up" \in Roles
    BY DEF DialogueInv, Local, First, Hops, Roles
  <1>2. pc'[r] = "dial" /\ \A j \in Roles \ {r} : pc'[j] = pc[j]
    BY <1>1 DEF Local, DialogueTypeOK
  <1>3. \A j \in Hops \ {r} : dst'[j] = dst[j]
    BY <1>1 DEF DialogueTypeOK
  <1>4. r = First => dst[First] = None
    BY <1>1 DEF OneRequest, ServesAsked, Waiting
  <1>5. Promised => Promised'
    BY <1>1, <1>3, <1>4 DEF Promised
  <1>6. reached' # None => dst'[First] # None /\ reached' = dst'[First].text
    BY <1>1, <1>3, <1>4 DEF OneOutcome
  <1>7. told' # "nothing" => pc'[First] \in {"pipe", "over"}
    BY <1>1, <1>2 DEF OneOutcome, Hops, Roles
  <1>8. \A j \in Hops : pc'[j] \in {"tell", "pipe"} => Promised
    BY <1>1, <1>2 DEF OneOutcome, Hops, Roles
  <1>9. ASSUME NEW k \in Roles \ {First}, NEW i \in DOMAIN out'[k], out'[k][i] = Reply("success")
        PROVE  Promised
    <2>1. CASE out'[k] = out[k]
      BY <2>1, <1>1, <1>9 DEF OneOutcome
    <2>2. ASSUME NEW m \in Messages, m = Reply("success") => FALSE, out'[k] = <<m>>
          PROVE  Promised
      BY <1>9, <2>2
    <2>. QED
      BY <2>1, <2>2 DEF Local, AnswersAtMost
  <1>. QED
    BY <1>1, <1>2, <1>5, <1>6, <1>7, <1>8, <1>9 DEF OneOutcome

LEMMA TakeUpDirect ==
  ASSUME DialogueInv, NEW r \in Hops, Local(r, "dial"), pc[r] = "request",
         NEW h, dst' = [dst EXCEPT ![r] = h]
  PROVE  SensitiveStaysDirect'
  <1>1. DialogueTypeOK /\ LinksInStep /\ SensitiveStaysDirect /\ First' = First /\ First \in Hops
        /\ pc'["up"] = pc["up"] /\ in'["up"] = in["up"]
    BY DEF DialogueInv, Local, DialogueTypeOK, First, Hops, Roles
  <1>2. CASE r = First
    <2>1. Linked(pc[r], pc[NextHop[r]], in[NextHop[r]], out[NextHop[r]], loop = "idle")
          /\ NextHop[r] \in Roles
      BY <1>1, NextLinked
    <2>2. pc[NextHop[r]] \in Labels
      BY <1>1, <2>1 DEF DialogueTypeOK, Labels
    <2>3. pc[NextHop[r]] = "off" /\ in[NextHop[r]] = <<>>
      BY <2>1, <2>2, ClientEarly
    <2>4. pc["up"] = "off" /\ in["up"] = <<>>
      <3>1. CASE r = "server"
        BY <2>3, <3>1 DEF NextHop
      <3>2. CASE r = "relay"
        <4>1. pc["server"] = "off"
          BY <2>3, <3>2 DEF NextHop
        <4>2. Linked(pc["server"], pc["up"], in["up"], out["up"], loop = "idle")
          BY <1>1 DEF LinksInStep, Asker, First, Roles
        <4>. QED
          BY <4>1, <4>2 DEF Linked
      <3>. QED
        BY <3>1, <3>2 DEF Hops
    <2>. QED
      BY <2>4, <1>1 DEF SensitiveStaysDirect
  <1>3. CASE r # First
    <2>1. dst'[First] = dst[First]
      BY <1>1, <1>3 DEF DialogueTypeOK
    <2>. QED
      BY <2>1, <1>1 DEF SensitiveStaysDirect
  <1>. QED
    BY <1>2, <1>3

LEMMA TakeUpStep ==
  ASSUME DialogueInv, NEW r \in Hops, Local(r, "dial"), pc[r] = "request",
         NEW h, Proper(h), dst' = [dst EXCEPT ![r] = h],
         r # First => dst[First] # None /\ h = dst[First],
         UNCHANGED <<late, hung, shut, proved, told>>
  PROVE  DialogueInv'
  <1>1. r \in Roles /\ DialogueTypeOK /\ LinksInStep /\ NumberedThrough
    BY DEF DialogueInv, Roles
  <1>2. DialogueTypeOK'
    <2>1. /\ in' \in Queues /\ out' \in Queues /\ pc' = [pc EXCEPT ![r] = "dial"]
          /\ UNCHANGED <<cfg, app, reached, data>> /\ "dial" \in Labels
      BY DEF Local, Labels, InDialogue
    <2>2. h \in Hosts
      BY DEF Proper
    <2>3. /\ dst' \in [Hops -> Hosts \cup {None}] /\ reached' \in Texts \cup {None}
          /\ told' \in {"nothing", "success", "failure"} /\ proved' \in BOOLEAN
          /\ hung' \subseteq Roles /\ shut' \subseteq Roles
      BY <1>1, <2>1, <2>2 DEF DialogueTypeOK
    <2>. QED
      BY <1>1, <2>1, <2>3, TypeRest
  <1>3. LinksInStep'
    BY <1>1, LocalLinks
  <1>4. NumberedThrough'
    BY <1>1, LocalQuiet
  <1>5. OneRequest' /\ OneOutcome' /\ SensitiveStaysDirect'
    BY TakeUpRequest, TakeUpOutcome, TakeUpDirect
  <1>6. AsksForUnlisted'
    <2>1. CASE r = "server"
      BY <2>1 DEF Local, DialogueInv, DialogueTypeOK, AsksForUnlisted, Roles, Hops
    <2>2. CASE r = "relay"
      <3>1. pc'["server"] = pc["server"] /\ dst'["server"] = dst["server"]
        BY <2>2, <1>1 DEF Local, DialogueTypeOK, Roles, Hops
      <3>. QED
        BY <3>1, UnlistedKept DEF DialogueInv
    <2>. QED
      BY <2>1, <2>2 DEF Hops
  <1>. QED
    BY <1>2, <1>3, <1>4, <1>5, <1>6 DEF DialogueInv

(* Only the server takes UDP, and only where no relay stands before it.     *)
LEMMA UdpNotRelayed ==
  ASSUME DialogueInv, NEW r \in Hops, pc[r] = "request", in[r] # <<>>,
         in[r][1].kind = "request", in[r][1].cmd = "udp", in[r][1].cmd \in Commands(r)
  PROVE  r = "server" /\ ~cfg.relay
  <1>1. r = "server"
    BY DEF Commands, Hops
  <1>2. ASSUME cfg.relay PROVE FALSE
    <2>1. 1 \in DOMAIN in[r]
      BY HopLinked, Domains
    <2>2. r \in Roles \ {First}
      BY <1>1, <1>2 DEF First, Roles, Hops
    <2>3. in[r][1] = Request(TRUE, "connect", ConnectAddr(dst[First]))
      BY <2>1, <2>2 DEF DialogueInv, OneRequest, PassesOnAsked
    <2>. QED
      BY <2>3 DEF Request
  <1>. QED
    BY <1>1, <1>2

LEMMA ReadRequestStep ==
  ASSUME DialogueInv, NEW r \in Hops, ReadRequest(r), loop' = loop
  PROVE  DialogueInv'
  <1>. DEFINE q == Head(in[r])
              no == Refusal(r, q)
  <1>1. DialogueTypeOK /\ r \in Roles /\ Takes(r, "request") /\ in[r] \in Seq(Messages)
    BY HopLinked DEF ReadRequest
  <1>2. /\ pc[r] = "request" /\ in[r] # <<>> /\ q = in[r][1]
        /\ q \in Messages /\ q.kind = "request"
        /\ in' \in Queues /\ in'[r] = Tail(in[r]) /\ \A j \in Roles : j # r => in'[j] = in[j]
    BY <1>1, TakesOne
  <1>3. Linked(Asker(r), "request", in[r], out[r], loop = "idle")
    BY <1>2, HopLinked
  <1>4. /\ Opens(in[r], "request") /\ out[r] = <<>>
        /\ Linked(Asker(r), "over", in'[r], <<>>, loop = "idle")
        /\ \A rep : Linked(Asker(r), "over", in'[r], <<Reply(rep)>>, loop = "idle")
        /\ Linked(Asker(r), "udp", in'[r], <<>>, loop = "idle")
        /\ Linked(Asker(r), "dial", in'[r], <<>>, loop = "idle")
    <2>1. /\ Opens(in[r], "request") /\ out[r] = <<>>
          /\ Linked(Asker(r), "over", Tail(in[r]), <<>>, loop = "idle")
          /\ \A rep : Linked(Asker(r), "over", Tail(in[r]), <<Reply(rep)>>, loop = "idle")
          /\ Linked(Asker(r), "udp", Tail(in[r]), <<>>, loop = "idle")
          /\ Linked(Asker(r), "dial", Tail(in[r]), <<>>, loop = "idle")
      <3>. HIDE DEF q, no
      <3>1. in[r] \in Seq(Messages) /\ in[r] # <<>>
        BY <1>1, <1>2
      <3>2. Opens(in[r], "request") /\ out[r] = <<>>
        BY <1>3, <3>1, ServerAsked
      <3>3. Linked(Asker(r), "over", Tail(in[r]), <<>>, loop = "idle")
        BY <1>3, <3>1, ServerAsked
      <3>4. Linked(Asker(r), "udp", Tail(in[r]), <<>>, loop = "idle")
        BY <1>3, <3>1, ServerAsked
      <3>5. Linked(Asker(r), "dial", Tail(in[r]), <<>>, loop = "idle")
        BY <1>3, <3>1, ServerAsked
      <3>6. \A rep : Linked(Asker(r), "over", Tail(in[r]), <<Reply(rep)>>, loop = "idle")
        BY <1>3, <3>1, ServerAsked
      <3>. QED
        BY <3>2, <3>3, <3>4, <3>5, <3>6
    <2>. QED
      BY <1>2, <2>1
  <1>5. TakesAtMost(r)
    BY <1>2, <1>4 DEF TakesAtMost, Opens
  <1>6. /\ UNCHANGED <<cfg, app, proved, late, reached, data>>
        /\ proved' \in BOOLEAN
    BY <1>1 DEF ReadRequest, DialogueTypeOK
  <1>7. Goes(pc[r], "over") /\ "over" \in Labels /\ Goes(pc[r], "udp") /\ "udp" \in Labels
    BY <1>2 DEF Goes, Labels
  <1>8. CASE LeaveSilently(r) /\ UNCHANGED <<dst, told>>
    <2>1. Leave(r) /\ out' = out
      BY <1>8 DEF LeaveSilently
    <2>2. pc' = [pc EXCEPT ![r] = "over"] /\ hung' \subseteq Roles /\ shut' \subseteq Roles
      BY <1>1, <2>1, LeaveType
    <2>3. Local(r, "over")
      BY <1>1, <1>2, <1>4, <1>5, <1>6, <2>1, <2>2, SilentLocal
    <2>. QED
      BY <1>6, <1>7, <1>8, <2>2, <2>3, LocalStep
  <1>9. CASE /\ no \in {"command", "address"}
             /\ AnswerAndLeave(r, Reply(no)) /\ Tell(r, "failure")
             /\ UNCHANGED dst
    <2>1. Leave(r) /\ out' = Put(out, r, Reply(no))
      BY <1>9 DEF AnswerAndLeave
    <2>2. pc' = [pc EXCEPT ![r] = "over"] /\ hung' \subseteq Roles /\ shut' \subseteq Roles
      BY <1>1, <2>1, LeaveType
    <2>3. /\ Reply(no) \in Messages /\ Reply(no).kind # "data" /\ Reply(no) # Reply("success")
          /\ Linked(Asker(r), "over", in'[r], <<Reply(no)>>, loop = "idle")
      BY <1>4, <1>9, MessageTypes DEF Reps, Reply
    <2>. HIDE DEF no, q
    <2>4. Local(r, "over")
      BY <1>1, <1>2, <1>4, <1>5, <1>6, <2>1, <2>2, <2>3, AnswerLocal
    <2>5. told' = told \/ (r = First /\ told' \in {"success", "failure"})
      BY <1>9 DEF Tell
    <2>. QED
      BY <1>6, <1>7, <1>9, <2>2, <2>4, <2>5, LocalStep
  <1>10. CASE no = "none" /\ q.cmd = "udp" /\ Stay(r, "udp") /\ UNCHANGED <<out, dst, told>>
    <2>1. pc' = [pc EXCEPT ![r] = "udp"] /\ UNCHANGED <<hung, shut>>
      BY <1>10 DEF Stay, Goto
    <2>2. q.cmd \in Commands(r)
      BY <1>10 DEF Refusal
    <2>3. r = "server" /\ ~cfg.relay
      BY <1>2, <1>10, <2>2, UdpNotRelayed
    <2>. HIDE DEF no, q
    <2>4. Local(r, "udp")
      BY <1>1, <1>2, <1>4, <1>5, <1>6, <1>10, <2>1, SilentLocal
    <2>5. hung' \subseteq Roles /\ shut' \subseteq Roles
      BY <1>1, <2>1 DEF DialogueTypeOK
    <2>. QED
      BY <1>6, <1>7, <1>10, <2>3, <2>4, <2>5, LocalStep
  <1>11. CASE /\ no = "none" /\ q.cmd = "connect" /\ Stay(r, "dial")
              /\ dst' = [dst EXCEPT ![r] = ReadHost(q.addr)]
              /\ UNCHANGED <<out, told>>
    <2>1. pc' = [pc EXCEPT ![r] = "dial"] /\ UNCHANGED <<hung, shut>>
      BY <1>11 DEF Stay, Goto
    <2>2. q.addr \in WireAddrs
      <3>1. q.addr \in WireAddrs \cup {BadAtyp}
        BY <1>2, <1>11, MessageFields
      <3>2. q.addr # BadAtyp
        BY <1>11 DEF Refusal
      <3>. QED
        BY <3>1, <3>2
    <2>3. /\ Proper(ReadHost(q.addr))
          /\ r # First => dst[First] # None /\ ReadHost(q.addr) = dst[First]
      BY <1>2, <1>11, <2>2, AskedOf
    <2>. HIDE DEF no, q
    <2>4. Local(r, "dial")
      BY <1>1, <1>2, <1>4, <1>5, <1>6, <1>11, <2>1, SilentLocal
    <2>. QED
      BY <1>2, <1>6, <1>11, <2>1, <2>3, <2>4, TakeUpStep
  <1>. QED
    BY <1>8, <1>9, <1>10, <1>11 DEF ReadRequest
-----------------------------------------------------------------------------
(* The hop dials.  Nothing is there yet of the connection to the next role. *)
LEMMA DialFacts ==
  ASSUME DialogueInv, NEW r \in Hops, pc[r] = "dial"
  PROVE  /\ NextHop[r] \in Roles /\ NextHop[r] # r /\ r \in Roles
         /\ pc[NextHop[r]] = "off" /\ in[NextHop[r]] = <<>> /\ out[NextHop[r]] = <<>>
         /\ Proper(dst[r]) /\ dst[First] # None /\ dst[r] = dst[First]
         /\ \A l \in Connecting : Linked(Asker(r), l, in[r], out[r], loop = "idle")
  <1>1. DialogueTypeOK /\ LinksInStep /\ ServesAsked
    BY DEF DialogueInv, OneRequest
  <1>2. /\ NextHop[r] \in Roles /\ NextHop[r] # r /\ r \in Roles
        /\ Linked("dial", pc[NextHop[r]], in[NextHop[r]], out[NextHop[r]], loop = "idle")
    BY <1>1, NextLinked
  <1>3. pc[NextHop[r]] \in Labels
    BY <1>1, <1>2 DEF DialogueTypeOK, Labels
  <1>4. pc[NextHop[r]] = "off" /\ in[NextHop[r]] = <<>> /\ out[NextHop[r]] = <<>>
    BY <1>2, <1>3, ClientEarly
  <1>5. dst[r] # None /\ dst[r] \in Hosts
    BY <1>1 DEF ServesAsked, Serving, DialogueTypeOK
  <1>6. Proper(dst[r]) /\ dst[First] # None /\ dst[r] = dst[First]
    BY <1>1, <1>5 DEF ServesAsked, Proper
  <1>7. in[r] \in Seq(Messages) /\ Linked(Asker(r), "dial", in[r], out[r], loop = "idle")
    BY HopLinked
  <1>8. \A l \in Connecting : Linked(Asker(r), l, in[r], out[r], loop = "idle")
    BY <1>7, ServerConnects DEF Connecting
  <1>. QED
    BY <1>2, <1>4, <1>6, <1>8

Connects(r, mine, l) ==
    /\ pc[r] = "dial" /\ mine \in {"method", "tell"} /\ l \in {"greet", "pipe", "target"}
    /\ mine = "tell" => r = "server"
    /\ pc' = [pc EXCEPT ![r] = mine, ![NextHop[r]] = l]
    /\ UNCHANGED <<cfg, app, proved, out, hung, shut, late, dst, told, data, loop>>
    /\ in' \in Queues /\ \A j \in Roles : j # NextHop[r] => in'[j] = in[j]
    /\ Linked(mine, l, in'[NextHop[r]], <<>>, loop = "idle")
    /\ Quiet(<<>>, in'[NextHop[r]])
    /\ l = "greet" \/ r = "server"

LEMMA ConnectsTypes ==
  ASSUME DialogueInv, NEW r \in Hops, NEW mine, NEW l, Connects(r, mine, l)
  PROVE  /\ pc'[r] = mine /\ pc'[NextHop[r]] = l
         /\ \A j \in Roles \ {r, NextHop[r]} : pc'[j] = pc[j]
         /\ reached' \in Texts \cup {None} => DialogueTypeOK'
  <1>1. DialogueTypeOK /\ r \in Roles /\ NextHop[r] \in Roles /\ NextHop[r] # r
    BY DialFacts DEF DialogueInv, Connects
  <1>2. mine \in Labels /\ l \in Labels /\ pc \in [Roles -> Labels]
    BY <1>1 DEF Connects, Labels, InDialogue, DialogueTypeOK
  <1>3. /\ pc' = [pc EXCEPT ![r] = mine, ![NextHop[r]] = l]
        /\ UNCHANGED <<cfg, app, proved, out, hung, shut, late, dst, told, data>>
        /\ in' \in Queues
    BY DEF Connects
  <1>4. /\ pc'[r] = mine /\ pc'[NextHop[r]] = l
        /\ \A j \in Roles \ {r, NextHop[r]} : pc'[j] = pc[j]
    BY <1>1, <1>2, <1>3
  <1>5. pc' \in [Roles -> Labels]
    BY <1>1, <1>2, <1>3
  <1>6. pc' \in [Roles -> InDialogue \cup {"off", "target", "pipe", "udp", "over"}]
    BY <1>5 DEF Labels
  <1>7. ASSUME reached' \in Texts \cup {None} PROVE DialogueTypeOK'
    BY <1>1, <1>3, <1>6, <1>7 DEF DialogueTypeOK, Queues, data
  <1>. QED
    BY <1>4, <1>7

LEMMA ConnectsLinks ==
  ASSUME DialogueInv, NEW r \in Hops, NEW mine, NEW l, Connects(r, mine, l)
  PROVE  LinksInStep' /\ NumberedThrough'
  <1>1. /\ DialogueTypeOK /\ LinksInStep /\ NumberedThrough
        /\ pc[r] = "dial" /\ mine \in Connecting
        /\ UNCHANGED <<cfg, app, out, loop, data>>
    BY DEF DialogueInv, Connects, Connecting
  <1>2. /\ r \in Roles /\ NextHop[r] \in Roles /\ NextHop[r] # r
        /\ pc[NextHop[r]] = "off" /\ in[NextHop[r]] = <<>> /\ out[NextHop[r]] = <<>>
        /\ Linked(Asker(r), mine, in[r], out[r], loop = "idle")
    BY <1>1, DialFacts
  <1>3. /\ pc'[r] = mine /\ pc'[NextHop[r]] = l
        /\ \A j \in Roles \ {r, NextHop[r]} : pc'[j] = pc[j]
    BY ConnectsTypes
  <1>4. /\ \A j \in Roles : j # NextHop[r] => in'[j] = in[j]
        /\ Linked(mine, l, in'[NextHop[r]], <<>>, loop = "idle")
        /\ Quiet(<<>>, in'[NextHop[r]])
        /\ l = "greet" \/ r = "server"
    BY DEF Connects
  <1>5. /\ \A j \in Roles \ {r, NextHop[r]} :
             pc'[j] = pc[j] /\ in'[j] = in[j] /\ out'[j] = out[j]
        /\ Linked(Asker(r), pc'[r], in'[r], out'[r], loop = "idle")
        /\ Linked(pc'[r], pc'[NextHop[r]], in'[NextHop[r]], out'[NextHop[r]], loop = "idle")
    BY <1>1, <1>2, <1>3, <1>4
  <1>6. r = "relay" => pc["server"] = "off" /\ pc'["server"] = "greet"
    BY <1>2, <1>3, <1>4 DEF NextHop
  <1>7. LinksInStep'
    BY <1>1, <1>5, <1>6, HopLinks DEF Hops
  <1>8. \A j \in Roles : Quiet(in[j], in'[j]) /\ Quiet(out[j], out'[j])
    BY <1>1, <1>2, <1>4, Unchanged
  <1>9. NumberedThrough'
    BY <1>1, <1>8, QuietStep
  <1>. QED
    BY <1>7, <1>9

LEMMA ConnectsRequest ==
  ASSUME DialogueInv, NEW r \in Hops, NEW mine, NEW l, Connects(r, mine, l),
         \A i \in DOMAIN in'[NextHop[r]] :
           /\ in'[NextHop[r]][i].kind # "request"
           /\ in'[NextHop[r]][i].kind = "target" =>
                in'[NextHop[r]][i].addr = EncodeTarget(dst[First])
  PROVE  OneRequest'
  <1>1. /\ ServesAsked /\ RelaysNoUdp /\ PassesOnAsked
        /\ UNCHANGED <<cfg, dst>> /\ First' = First
        /\ mine \in {"method", "tell"} /\ l \in {"greet", "pipe", "target"}
        /\ l = "greet" \/ r = "server"
        /\ \A j \in Roles : j # NextHop[r] => in'[j] = in[j]
    BY DEF DialogueInv, OneRequest, Connects, First
  <1>2. /\ pc'[r] = mine /\ pc'[NextHop[r]] = l
        /\ \A j \in Roles \ {r, NextHop[r]} : pc'[j] = pc[j]
    BY ConnectsTypes
  <1>3. /\ r \in Roles /\ NextHop[r] # r /\ pc[NextHop[r]] = "off"
        /\ dst[First] # None /\ pc[r] = "dial"
    BY DialFacts DEF Connects
  <1>4. ASSUME NEW j \in Hops
        PROVE  /\ pc'[j] \in Waiting => dst[j] = None
               /\ pc'[j] \in Serving => dst[j] # None
    <2>1. CASE j = r
      BY <2>1, <1>1, <1>2, <1>3 DEF ServesAsked, Waiting, Serving
    <2>2. CASE j = NextHop[r]
      <3>1. r = "relay" /\ j = "server"
        BY <2>2 DEF NextHop, Hops
      <3>2. l = "greet" /\ dst[j] = None
        BY <2>2, <3>1, <1>1, <1>3 DEF ServesAsked, Waiting
      <3>. QED
        BY <2>2, <3>2, <1>2 DEF Serving
    <2>3. CASE j \notin {r, NextHop[r]}
      <3>1. pc'[j] = pc[j]
        BY <2>3, <1>2 DEF Roles
      <3>. QED
        BY <3>1, <1>1 DEF ServesAsked
    <2>. QED
      BY <2>1, <2>2, <2>3
  <1>5. ServesAsked'
    BY <1>1, <1>4 DEF ServesAsked
  <1>6. RelaysNoUdp'
    <2>1. \A j \in Roles : pc'[j] = pc[j] \/ pc'[j] # "udp"
      BY <1>1, <1>2
    <2>. QED
      BY <2>1, <1>1 DEF RelaysNoUdp, Roles, Hops
  <1>7. PassesOnAsked'
    <2>1. ASSUME NEW k \in Roles \ {First}, NEW i \in DOMAIN in'[k]
          PROVE  /\ in'[k][i].kind = "request" =>
                      in'[k][i] = Request(TRUE, "connect", ConnectAddr(dst[First]))
                 /\ in'[k][i].kind = "target" => in'[k][i].addr = EncodeTarget(dst[First])
      <3>1. CASE k = NextHop[r]
        BY <3>1, <2>1
      <3>2. CASE k # NextHop[r]
        <4>1. k \in Roles /\ in'[k] = in[k] /\ i \in DOMAIN in[k]
          BY <3>2, <2>1, <1>1
        <4>. QED
          BY <4>1, <1>1 DEF PassesOnAsked
      <3>. QED
        BY <3>1, <3>2
    <2>. QED
      BY <2>1, <1>1, <1>3 DEF PassesOnAsked
  <1>. QED
    BY <1>5, <1>6, <1>7 DEF OneRequest

(* What of the promises a step keeps that it does not touch.                *)
From(p, q)      == \A i \in DOMAIN p : \E j \in DOMAIN q : p[i] = q[j]
FromOr(p, q, m) == \A i \in DOMAIN p : p[i] = m \/ \E j \in DOMAIN q : p[i] = q[j]

LEMMA Sources ==
  ASSUME NEW q \in Seq(Messages)
  PROVE  /\ From(q, q) /\ \A m : FromOr(q, q, m)
         /\ \A m \in Messages : FromOr(Append(q, m), q, m)
         /\ q # <<>> => From(Tail(q), q) /\ \A m : FromOr(Tail(q), q, m)
  <1>1. DOMAIN q = 1..Len(q) /\ Len(q) \in Nat
    BY Domains
  <1>2. From(q, q) /\ \A m : FromOr(q, q, m)
    BY DEF From, FromOr
  <1>3. ASSUME NEW m \in Messages PROVE FromOr(Append(q, m), q, m)
    <2>. DEFINE p == Append(q, m)
    <2>1. p \in Seq(Messages) /\ Len(p) = Len(q) + 1 /\ p[Len(q) + 1] = m
          /\ \A i \in 1..Len(q) : p[i] = q[i]
      BY Appended
    <2>2. DOMAIN p = 1..(Len(q) + 1)
      BY <2>1, Domains
    <2>. HIDE DEF p
    <2>3. \A i \in DOMAIN p : i \in 1..Len(q) \/ i = Len(q) + 1
      BY <1>1, <2>2
    <2>4. FromOr(p, q, m)
      BY <1>1, <2>1, <2>3 DEF FromOr
    <2>. QED
      BY <2>4 DEF p
  <1>4. ASSUME q # <<>> PROVE From(Tail(q), q)
    <2>1. Tail(q) \in Seq(Messages) /\ Len(Tail(q)) = Len(q) - 1
          /\ \A i \in 1..(Len(q) - 1) : Tail(q)[i] = q[i + 1]
      BY <1>4, Shortened
    <2>2. DOMAIN Tail(q) = 1..(Len(q) - 1)
      BY <2>1, Domains
    <2>3. \A i \in 1..(Len(q) - 1) : i + 1 \in 1..Len(q)
      BY <1>1
    <2>. QED
      BY <1>1, <2>1, <2>2, <2>3 DEF From
  <1>5. From(Tail(q), q) => \A m : FromOr(Tail(q), q, m)
    BY DEF From, FromOr
  <1>. QED
    BY <1>2, <1>3, <1>4, <1>5

LEMMA DirectStays ==
  ASSUME dst' = dst, First' = First,
         dst[First] # None /\ Listed(dst[First].text)
           => /\ pc'["up"] \in {"off", "pipe", "over"}
              /\ \A i \in DOMAIN in'["up"] : in'["up"][i].kind = "data"
  PROVE  SensitiveStaysDirect'
  <1>1. dst'[First'] = dst[First]
    OBVIOUS
  <1>. QED
    BY <1>1 DEF SensitiveStaysDirect

LEMMA DirectKept ==
  ASSUME SensitiveStaysDirect, dst' = dst, First' = First,
         \/ pc'["up"] = pc["up"]
         \/ pc'["up"] \in {"pipe", "over"}
         \/ pc["up"] \notin {"off", "pipe", "over"},
         NEW m, FromOr(in'["up"], in["up"], m),
         \/ m.kind = "data"
         \/ pc["up"] \notin {"off", "pipe", "over"}
  PROVE  SensitiveStaysDirect'
  <1>1. ASSUME dst[First] # None, Listed(dst[First].text)
        PROVE  /\ pc'["up"] \in {"off", "pipe", "over"}
               /\ \A i \in DOMAIN in'["up"] : in'["up"][i].kind = "data"
    <2>1. /\ pc["up"] \in {"off", "pipe", "over"}
          /\ \A i \in DOMAIN in["up"] : in["up"][i].kind = "data"
      BY <1>1 DEF SensitiveStaysDirect
    <2>2. m.kind = "data"
      BY <2>1
    <2>3. \A i \in DOMAIN in'["up"] : in'["up"][i].kind = "data"
      BY <2>1, <2>2 DEF FromOr
    <2>. QED
      BY <2>1, <2>3
  <1>. QED
    BY <1>1, DirectStays

LEMMA ConnectsOutcome ==
  ASSUME DialogueInv, NEW r \in Hops, NEW mine, NEW l, Connects(r, mine, l),
         reached' = reached \/ (r = "server" /\ l = "pipe" /\ reached' = dst[First].text),
         mine = "tell" => Promised',
         r = "server" /\ Listed(dst[First].text) => l = "pipe" /\ in'["up"] = <<>>
  PROVE  OneOutcome' /\ SensitiveStaysDirect'
  <1>1. /\ OneOutcome /\ SensitiveStaysDirect /\ LinksInStep
        /\ UNCHANGED <<cfg, dst, told, out>> /\ First' = First /\ First \in Hops
        /\ mine \in {"method", "tell"} /\ l \in {"greet", "pipe", "target"}
        /\ l = "greet" \/ r = "server"
        /\ mine = "tell" => r = "server"
        /\ \A j \in Roles : j # NextHop[r] => in'[j] = in[j]
    BY DEF DialogueInv, Connects, First, Hops
  <1>2. /\ pc'[r] = mine /\ pc'[NextHop[r]] = l
        /\ \A j \in Roles \ {r, NextHop[r]} : pc'[j] = pc[j]
    BY ConnectsTypes
  <1>3. /\ r \in Roles /\ NextHop[r] # r /\ pc[NextHop[r]] = "off"
        /\ dst[First] # None /\ pc[r] = "dial" /\ "up" \in Roles /\ "up" # r
    BY DialFacts DEF Connects, Roles, Hops
  <1>4. Promised => Promised'
    BY <1>1 DEF Promised
  <1>5. NextHop[r] \in Hops => l = "greet"
    BY <1>1 DEF NextHop, Hops
  <1>6. pc'["up"] \in {"off", "greet", "auth", "request", "target"} => reached' = None
    <2>1. CASE r = "server"
      BY <2>1, <1>1, <1>2, <1>3 DEF OneOutcome, NextHop
    <2>2. CASE r = "relay"
      BY <2>2, <1>1, <1>2, <1>3 DEF OneOutcome, NextHop
    <2>. QED
      BY <2>1, <2>2 DEF Hops
  <1>7. reached' # None => dst[First] # None /\ reached' = dst[First].text
    BY <1>1, <1>3 DEF OneOutcome
  <1>8. told' # "nothing" => pc'[First] \in {"pipe", "over"}
    <2>1. told # "nothing" => pc[First] \in {"pipe", "over"}
      BY <1>1 DEF OneOutcome
    <2>2. pc[First] \in {"pipe", "over"} => First \notin {r, NextHop[r]} /\ First \in Roles
      BY <1>1, <1>3 DEF Roles
    <2>. QED
      BY <2>1, <2>2, <1>1, <1>2
  <1>9. ASSUME NEW j \in Hops, pc'[j] \in {"tell", "pipe"} PROVE Promised'
    <2>1. CASE j = r
      BY <2>1, <1>9, <1>1, <1>2
    <2>2. CASE j = NextHop[r]
      BY <2>2, <1>9, <1>2, <1>5
    <2>3. CASE j \notin {r, NextHop[r]}
      <3>1. pc[j] \in {"tell", "pipe"}
        BY <2>3, <1>9, <1>2 DEF Roles
      <3>. QED
        BY <3>1, <1>1, <1>4 DEF OneOutcome
    <2>. QED
      BY <2>1, <2>2, <2>3
  <1>10. \A k \in Roles \ {First} : \A i \in DOMAIN out'[k] :
           out'[k][i] = Reply("success") => Promised'
    BY <1>1, <1>4 DEF OneOutcome
  <1>11. OneOutcome'
    BY <1>1, <1>6, <1>7, <1>8, <1>9, <1>10 DEF OneOutcome
  <1>12. First' = First /\ dst' = dst
    BY <1>1
  <1>13. ASSUME dst[First] # None, Listed(dst[First].text)
         PROVE  /\ pc'["up"] \in {"off", "pipe", "over"}
                /\ \A i \in DOMAIN in'["up"] : in'["up"][i].kind = "data"
    <2>1. CASE r = "server"
      <3>1. NextHop[r] = "up"
        BY <2>1 DEF NextHop
      <3>2. pc'["up"] = "pipe" /\ in'["up"] = <<>>
        BY <2>1, <3>1, <1>2, <1>13
      <3>. QED
        BY <3>2
    <2>2. CASE r = "relay"
      <3>1. pc'["up"] = pc["up"] /\ in'["up"] = in["up"]
        BY <1>1, <1>2, <1>3, <2>2 DEF NextHop
      <3>. QED
        BY <3>1, <1>1, <1>13 DEF SensitiveStaysDirect
    <2>. QED
      BY <2>1, <2>2 DEF Hops
  <1>14. SensitiveStaysDirect'
    BY <1>12, <1>13, DirectStays
  <1>. QED
    BY <1>11, <1>14

LEMMA ConnectsStep ==
  ASSUME DialogueInv, NEW r \in Hops, NEW mine, NEW l, Connects(r, mine, l),
         reached' = reached \/ (r = "server" /\ l = "pipe" /\ reached' = dst[First].text),
         mine = "tell" => Promised',
         r = "server" /\ Listed(dst[First].text) => l = "pipe" /\ in'["up"] = <<>>,
         mine = "tell" \/ l = "greet",
         \A i \in DOMAIN in'[NextHop[r]] :
           /\ in'[NextHop[r]][i].kind # "request"
           /\ in'[NextHop[r]][i].kind = "target" =>
                in'[NextHop[r]][i].addr = EncodeTarget(dst[First])
  PROVE  DialogueInv'
  <1>1. reached' \in Texts \cup {None}
    <2>1. reached \in Texts \cup {None}
      BY DEF DialogueInv, DialogueTypeOK
    <2>2. dst[First].text \in Texts
      BY DialFacts DEF Connects, Proper, Hosts
    <2>. QED
      BY <2>1, <2>2
  <1>2. DialogueTypeOK'
    BY <1>1, ConnectsTypes
  <1>3. LinksInStep' /\ NumberedThrough'
    BY ConnectsLinks
  <1>4. OneRequest'
    BY ConnectsRequest
  <1>5. OneOutcome' /\ SensitiveStaysDirect'
    BY ConnectsOutcome
  <1>6. AsksForUnlisted'
    <2>1. /\ pc'[r] = mine /\ pc'[NextHop[r]] = l
          /\ \A j \in Roles \ {r, NextHop[r]} : pc'[j] = pc[j]
          /\ dst' = dst /\ mine \in {"method", "tell"} /\ AsksForUnlisted
      BY ConnectsTypes DEF Connects, DialogueInv
    <2>2. CASE r = "server"
      <3>1. mine = "method" => ~Listed(dst["server"].text)
        BY <2>2, DialFacts DEF Connects
      <3>. QED
        BY <2>1, <2>2, <3>1 DEF AsksForUnlisted
    <2>3. CASE r = "relay"
      <3>1. pc'["server"] = l /\ l \notin {"method", "status", "reply"}
        BY <2>1, <2>3 DEF NextHop, Connects
      <3>. QED
        BY <3>1 DEF AsksForUnlisted
    <2>. QED
      BY <2>2, <2>3 DEF Hops
  <1>. QED
    BY <1>2, <1>3, <1>4, <1>5, <1>6 DEF DialogueInv

(* The first message to the next hop.                                       *)
LEMMA FirstMessage ==
  ASSUME DialogueTypeOK, NEW n \in Roles, in[n] = <<>>, NEW m \in Messages, m.kind # "data",
         in' = Put(in, n, m)
  PROVE  /\ in' \in Queues /\ in'[n] = <<m>> /\ \A j \in Roles : j # n => in'[j] = in[j]
         /\ Quiet(<<>>, in'[n])
         /\ \A i \in DOMAIN in'[n] : in'[n][i] = m
  <1>1. /\ in' \in Queues /\ in'[n] = Append(<<>>, m) /\ \A j \in Roles : j # n => in'[j] = in[j]
    BY QueuesTyped, PutTo
  <1>2. in'[n] = <<m>>
    BY <1>1, ShapeFirst
  <1>3. Quiet(<<>>, in'[n])
    BY <1>1, Asked1
  <1>4. \A i \in DOMAIN <<m>> : <<m>>[i] = m
    OBVIOUS
  <1>. QED
    BY <1>1, <1>2, <1>3, <1>4

LEMMA DialHopStep ==
  ASSUME DialogueInv, NEW r \in Hops, DialHop(r), loop' = loop
  PROVE  DialogueInv'
  <1>. DEFINE n == NextHop[r]
  <1>1. /\ DialogueTypeOK /\ pc[r] = "dial" /\ Dialled(r, "greet", "method")
        /\ r = "server" => Route(dst[r]) = "naive"
        /\ in' = Put(in, n, Hello) /\ reached' = reached
    BY DEF DialogueInv, DialHop, Dialled
  <1>2. n \in Roles /\ in[n] = <<>> /\ Proper(dst[r]) /\ dst[r] = dst[First]
    BY <1>1, DialFacts
  <1>3. Hello \in Messages /\ Hello.kind = "greet"
    <2>1. {IF cfg.token THEN "password" ELSE "none"} \in Methods
      BY DEF Methods
    <2>2. \A ms \in Methods : Greeting(TRUE, ms) \in Messages /\ Greeting(TRUE, ms).kind = "greet"
      BY DEF Messages, Greeting
    <2>. QED
      BY <2>1, <2>2 DEF Hello
  <1>4. /\ in' \in Queues /\ in'[n] = <<Hello>> /\ \A j \in Roles : j # n => in'[j] = in[j]
        /\ Quiet(<<>>, in'[n]) /\ \A i \in DOMAIN in'[n] : in'[n][i] = Hello
    BY <1>1, <1>2, <1>3, FirstMessage
  <1>5. Linked("method", "greet", <<Hello>>, <<>>, loop = "idle")
    <2>1. One(<<Hello>>, "greet")
      BY <1>3, ShapeFirst
    <2>. QED
      BY <2>1 DEF Linked
  <1>6. Connects(r, "method", "greet")
    BY <1>1, <1>4, <1>5 DEF Connects, Dialled
  <1>7. r = "server" => ~Listed(dst[First].text)
    BY <1>1, <1>2, RouteOf
  <1>8. \A i \in DOMAIN in'[n] : in'[n][i].kind = "greet"
    BY <1>3, <1>4
  <1>. QED
    BY <1>1, <1>6, <1>7, <1>8, ConnectsStep

LEMMA DialDirectStep ==
  ASSUME DialogueInv, NEW r \in Hops, DialDirect(r), loop' = loop
  PROVE  DialogueInv'
  <1>. DEFINE n == NextHop[r]
  <1>1. /\ DialogueTypeOK /\ pc[r] = "dial" /\ Dialled(r, "pipe", "tell") /\ r = "server"
        /\ in' = in /\ reached' = dst[r].text
    BY DEF DialogueInv, DialDirect, Dialled
  <1>2. /\ n \in Roles /\ in[n] = <<>> /\ dst[First] # None /\ dst[r] = dst[First]
        /\ in \in Queues
    BY <1>1, DialFacts, QueuesTyped
  <1>3. Linked("tell", "pipe", <<>>, <<>>, loop = "idle")
    BY ShapeEmpty DEF Linked
  <1>4. Connects(r, "tell", "pipe")
    BY <1>1, <1>2, <1>3, Unchanged DEF Connects, Dialled
  <1>5. dst' = dst /\ First' = First
    BY <1>1 DEF Dialled, First
  <1>6. Promised'
    BY <1>1, <1>2, <1>5 DEF Promised
  <1>7. n = "up" /\ DOMAIN in'[n] = {}
    BY <1>1, <1>2 DEF NextHop
  <1>8. reached' = dst[First].text
    BY <1>1, <1>2
  <1>9. in'["up"] = <<>>
    BY <1>1, <1>2, <1>7
  <1>. QED
    <2>1. \A i \in DOMAIN in'[n] :
            /\ in'[n][i].kind # "request"
            /\ in'[n][i].kind = "target" => in'[n][i].addr = EncodeTarget(dst[First])
      BY <1>7
    <2>. HIDE DEF n
    <2>2. n = NextHop[r]
      BY DEF n
    <2>. QED
      BY <1>1, <1>4, <1>6, <1>8, <1>9, <2>1, <2>2, ConnectsStep

LEMMA DialOwossStep ==
  ASSUME DialogueInv, NEW r \in Hops, DialOwoss(r), loop' = loop
  PROVE  DialogueInv'
  <1>. DEFINE n == NextHop[r]
              m == [kind |-> "target", addr |-> EncodeTarget(dst[r])]
  <1>1. /\ DialogueTypeOK /\ pc[r] = "dial" /\ Dialled(r, "target", "tell") /\ r = "server"
        /\ in' = Put(in, "up", m) /\ reached' = reached /\ Route(dst[r]) = "owoss"
    BY DEF DialogueInv, DialOwoss, Dialled
  <1>2. /\ n \in Roles /\ in[n] = <<>> /\ dst[First] # None /\ dst[r] = dst[First]
        /\ Proper(dst[r]) /\ n = "up"
    BY <1>1, DialFacts DEF NextHop
  <1>3. m \in Messages /\ m.kind = "target" /\ m.addr = EncodeTarget(dst[First])
    BY <1>2, EncodeTargetOf DEF Messages, Proper
  <1>. HIDE DEF m
  <1>4. /\ in' \in Queues /\ in'[n] = <<m>> /\ \A j \in Roles : j # n => in'[j] = in[j]
        /\ Quiet(<<>>, in'[n]) /\ \A i \in DOMAIN in'[n] : in'[n][i] = m
    BY <1>1, <1>2, <1>3, FirstMessage
  <1>5. Linked("tell", "target", <<m>>, <<>>, loop = "idle")
    <2>1. Opens(<<m>>, "target")
      BY <1>3, ShapeFirst
    <2>. QED
      BY <2>1 DEF Linked
  <1>6. Connects(r, "tell", "target")
    BY <1>1, <1>4, <1>5 DEF Connects, Dialled
  <1>7. ~Listed(dst[First].text) /\ cfg.owoss
    BY <1>1, <1>2, RouteOf
  <1>8. UNCHANGED <<dst, cfg>> /\ First' = First
    BY <1>1 DEF Dialled, First
  <1>9. Promised'
    BY <1>2, <1>7, <1>8 DEF Promised
  <1>10. \A i \in DOMAIN in'[n] : in'[n][i].kind = "target"
                                  /\ in'[n][i].addr = EncodeTarget(dst[First])
    BY <1>3, <1>4
  <1>. QED
    BY <1>1, <1>6, <1>7, <1>9, <1>10, ConnectsStep

LEMMA DialStep ==
  ASSUME DialogueInv, NEW r \in Hops, Dial(r), loop' = loop
  PROVE  DialogueInv'
  <1>1. CASE DialFails(r)
    <2>1. PICK rep \in {"net", "host", "refused"} : Fail(r, rep)
      BY <1>1 DEF DialFails
    <2>2. rep \in Reps /\ rep # "success" /\ pc[r] \in Connecting /\ in' = in
      BY <1>1 DEF DialFails, Reps, Connecting
    <2>. QED
      BY <2>1, <2>2, FailStep
  <1>. QED
    BY <1>1, DialHopStep, DialDirectStep, DialOwossStep DEF Dial
-----------------------------------------------------------------------------
(* The client of a link goes on: it greets,                                 *)
LEMMA ClientGreets ==
  ASSUME NEW s \in Labels, NEW q, NEW a, NEW i, Linked("start", s, q, a, i)
  PROVE  /\ q = <<>> /\ a = <<>>
         /\ \A m : m.kind = "greet" => Linked("method", s, <<m>>, <<>>, i)
  <1>1. ThenData(<<>>) /\ \A m : ThenData(<<m>>) /\ (m.kind = "greet" => One(<<m>>, "greet"))
    BY ShapeFirst, ShapeEmpty
  <1>2. q = <<>> /\ a = <<>> /\ s \in {"greet", "over"}
    BY DEF Linked, Gone, Labels, InDialogue
  <1>. QED
    BY <1>1, <1>2 DEF Linked

(* authenticates,                                                           *)
LEMMA ClientAuthenticates ==
  ASSUME NEW s \in Labels, NEW q, NEW a \in Seq(Messages), NEW i, Linked("method", s, q, a, i),
         a # <<>>, a[1].kind = "method", a[1].method = "password"
  PROVE  /\ q = <<>> /\ Tail(a) = <<>> /\ ThenData(a)
         /\ \A m : m.kind = "auth" => Linked("status", s, <<m>>, <<>>, i)
  <1>1. ThenData(<<>>) /\ \A m : ThenData(<<m>>) /\ (m.kind = "auth" => One(<<m>>, "auth"))
    BY ShapeFirst, ShapeEmpty
  <1>2. <<Method("none")>>[1].method = "none" /\ One(<<Method("password")>>, "method")
    BY ShapeFirst, Kinds
  <1>3. q = <<>> /\ One(a, "method") /\ s \in {"auth", "over"}
    BY <1>2 DEF Linked, Gone, Labels, InDialogue
  <1>4. Tail(a) = <<>> /\ ThenData(a)
    BY <1>3, ShapeTail, ShapeWeaker
  <1>. QED
    BY <1>1, <1>3, <1>4 DEF Linked

(* requests,                                                                *)
LEMMA ClientRequests ==
  ASSUME NEW s \in Labels, NEW q, NEW a \in Seq(Messages), NEW i, NEW c,
         Linked(c, s, q, a, i), a # <<>>,
         \/ c = "method" /\ a[1].kind = "method" /\ a[1].method = "none"
         \/ c = "status" /\ a[1].kind = "status" /\ a[1].ok
  PROVE  /\ q = <<>> /\ Tail(a) = <<>> /\ ThenData(a)
         /\ \A m : m.kind = "request" => Linked("reply", s, <<m>>, <<>>, i)
  <1>1. ThenData(<<>>) /\ \A m : ThenData(<<m>>) /\ (m.kind = "request" => Opens(<<m>>, "request"))
    BY ShapeFirst, ShapeEmpty
  <1>2. /\ <<Method("password")>>[1].method = "password"
        /\ \A k : One(<<Method(k)>>, "method")
        /\ \A ok : One(<<Status(ok)>>, "status")
    BY ShapeFirst, Kinds
  <1>3. q = <<>> /\ (One(a, "method") \/ One(a, "status")) /\ s \in {"request", "over"}
    BY <1>2 DEF Linked, Gone, Labels, InDialogue
  <1>4. Tail(a) = <<>> /\ ThenData(a)
    BY <1>3, ShapeTail, ShapeWeaker
  <1>. QED
    BY <1>1, <1>3, <1>4 DEF Linked

(* is told of success,                                                      *)
LEMMA ClientOpens ==
  ASSUME NEW s \in Labels, NEW q, NEW a \in Seq(Messages), NEW i,
         Linked("reply", s, q, a, i), a # <<>>, a[1].kind = "reply",
         NEW c \in {"open", "tell"}
  PROVE  ThenData(a) /\ Linked(c, s, q, Tail(a), i)
  <1>1. /\ ThenData(a) => AllData(Tail(a))
        /\ One(a, "reply") => Tail(a) = <<>> /\ ThenData(a)
        /\ Opens(a, "reply") => ThenData(a)
        /\ Success(a) => ThenData(a)
    BY ShapeTail, ShapeWeaker
  <1>2. AllData(a) => a[1].kind = "data"
    BY HeadOf
  <1>3. /\ s \in {"pipe", "udp", "over"} /\ ThenData(a) /\ AllData(Tail(a))
        /\ s \in {"pipe", "udp"} => AllData(q)
        /\ s = "udp" => Tail(a) = <<>> /\ ~i
        /\ s = "over" => ThenData(q)
    BY <1>1, <1>2 DEF Linked, Gone, Labels, InDialogue
  <1>4. ThenData(Tail(a))
    BY <1>3 DEF AllData, ThenData
  <1>. QED
    BY <1>3, <1>4 DEF Linked

(* sends                                                                    *)
LEMMA ClientSends ==
  ASSUME NEW c \in {"reply", "open", "pipe"}, NEW s \in Labels, NEW q \in Seq(Messages),
         NEW a, NEW i, Linked(c, s, q, a, i), NEW m \in Messages, m.kind = "data"
  PROVE  Linked(c, s, Append(q, m), a, i)
  <1>1. /\ AllData(q) => AllData(Append(q, m))
        /\ ThenData(q) => ThenData(Append(q, m))
        /\ \A kind : Opens(q, kind) => Opens(Append(q, m), kind)
    BY ShapePut
  <1>2. s \in {"request", "dial", "method", "status", "reply", "tell", "pipe", "udp", "target", "over"}
    BY DEF Linked, Gone, Labels, InDialogue
  <1>3. CASE s = "request"
    BY <1>1, <1>3 DEF Linked, Gone
  <1>4. CASE s \in {"dial", "method", "status", "reply", "tell"}
    BY <1>1, <1>4 DEF Linked, Gone
  <1>5. CASE s \in {"pipe", "udp", "target"}
    BY <1>1, <1>5 DEF Linked, Gone
  <1>6. CASE s = "over"
    BY <1>1, <1>6 DEF Linked, Gone
  <1>. QED
    BY <1>2, <1>3, <1>4, <1>5, <1>6

(* and receives.                                                            *)
LEMMA ClientReceives ==
  ASSUME NEW c \in {"open", "pipe"}, NEW s \in Labels, NEW q, NEW a \in Seq(Messages), NEW i,
         Linked(c, s, q, a, i), a # <<>>
  PROVE  a[1].kind = "data" /\ Linked(c, s, q, Tail(a), i)
  <1>1. AllData(a) => a[1].kind = "data"
    BY HeadOf
  <1>2. AllData(a) => ThenData(a) /\ AllData(Tail(a))
    BY ShapeTail, ShapeWeaker
  <1>3. s \in {"pipe", "over"} /\ AllData(a)
    BY DEF Linked, Gone, Labels, InDialogue
  <1>4. AllData(Tail(a)) /\ ThenData(Tail(a))
    BY <1>2, <1>3 DEF AllData, ThenData
  <1>. QED
    BY <1>1, <1>3, <1>4 DEF Linked, Gone

(* The server of a link sends and receives,                                 *)
LEMMA ServerSends ==
  ASSUME NEW c, NEW q, NEW a \in Seq(Messages), NEW i,
         Linked(c, "pipe", q, a, i), NEW m \in Messages, m.kind = "data"
  PROVE  Linked(c, "pipe", q, Append(a, m), i)
  <1>1. /\ AllData(a) => AllData(Append(a, m))
        /\ Success(a) => Success(Append(a, m))
    BY ShapePut
  <1>. QED
    BY <1>1 DEF Linked, Gone

LEMMA ServerReceives ==
  ASSUME NEW c, NEW q \in Seq(Messages), NEW a, NEW i,
         Linked(c, "pipe", q, a, i), q # <<>>
  PROVE  q[1].kind = "data" /\ Linked(c, "pipe", Tail(q), a, i)
  <1>1. AllData(q)
    BY DEF Linked
  <1>2. q[1].kind = "data" /\ AllData(Tail(q))
    BY <1>1, HeadOf, ShapeTail, ShapeWeaker
  <1>. QED
    BY <1>2 DEF Linked, Gone

(* is through to the destination,                                           *)
LEMMA ServerReaches ==
  ASSUME NEW c, NEW q \in Seq(Messages), NEW a, NEW i
  PROVE  /\ Linked(c, "request", q, a, i) /\ q # <<>> =>
              a = <<>> /\ ThenData(q) /\ q[1].kind = "request"
              /\ Linked(c, "pipe", Tail(q), <<Reply("success")>>, i)
         /\ Linked(c, "target", q, a, i) =>
              a = <<>> /\ q # <<>> /\ ThenData(q) /\ q[1].kind = "target"
              /\ Linked(c, "pipe", Tail(q), a, i)
  <1>1. Success(<<Reply("success")>>) /\ AllData(<<>>)
    BY ShapeFirst, ShapeEmpty DEF Success
  <1>2. \A kind : Opens(q, kind) => ThenData(q) /\ AllData(Tail(q)) /\ q[1].kind = kind /\ q # <<>>
    BY ShapeTail, ShapeWeaker DEF Opens
  <1>3. ASSUME Linked(c, "request", q, a, i), q # <<>>
        PROVE  a = <<>> /\ ThenData(q) /\ q[1].kind = "request"
               /\ Linked(c, "pipe", Tail(q), <<Reply("success")>>, i)
    <2>1. Opens(q, "request") /\ a = <<>> /\ c \in {"reply"} \cup Gone
      BY <1>3 DEF Linked
    <2>2. AllData(Tail(q)) /\ c # "off"
      BY <2>1, <1>2 DEF Gone
    <2>. QED
      BY <1>1, <1>2, <2>1, <2>2 DEF Linked
  <1>4. ASSUME Linked(c, "target", q, a, i)
        PROVE  a = <<>> /\ q # <<>> /\ ThenData(q) /\ q[1].kind = "target"
               /\ Linked(c, "pipe", Tail(q), a, i)
    <2>1. Opens(q, "target") /\ a = <<>> /\ c \in {"tell", "pipe"} \cup Gone
      BY <1>4 DEF Linked
    <2>2. AllData(Tail(q)) /\ c # "off"
      BY <2>1, <1>2 DEF Gone
    <2>. QED
      BY <1>1, <1>2, <2>1, <2>2 DEF Linked
  <1>. QED
    BY <1>3, <1>4

(* or hangs up.                                                             *)
LEMMA ServerQuits ==
  ASSUME NEW c, NEW s \in Labels \ {"off"}, NEW q \in Seq(Messages), NEW a \in Seq(Messages),
         NEW i, Linked(c, s, q, a, i)
  PROVE  Linked(c, "over", q, a, i)
  <1>1. CASE s = "target"
    <2>1. Opens(q, "target") /\ a = <<>> /\ c \in {"tell", "pipe"} \cup Gone
      BY <1>1 DEF Linked
    <2>2. ThenData(q) /\ AllData(a) /\ ThenData(a) /\ c # "off"
      BY <2>1, ShapeEmpty DEF Gone, Opens
    <2>. QED
      BY <2>1, <2>2 DEF Linked
  <1>. QED
    BY <1>1, ServerLeaves
-----------------------------------------------------------------------------
(* A step at one end of the chain disturbs one link.                        *)
LEMMA FirstLinks ==
  ASSUME LinksInStep, UNCHANGED <<cfg, pc, loop>>,
         \A j \in Roles : j # First => in'[j] = in[j] /\ out'[j] = out[j],
         Linked(app', pc[First], in'[First], out'[First], loop = "idle")
  PROVE  LinksInStep'
  <1>1. First' = First /\ First \in Roles /\ First # "up"
    BY DEF First, Roles, Hops
  <1>2. Asker(First)' = app'
    BY DEF Asker, First
  <1>3. ASSUME NEW j \in Roles, j # First PROVE Asker(j)' = Asker(j)
    BY <1>1, <1>3 DEF Asker
  <1>4. ASSUME NEW j \in Roles
        PROVE  Linked(Asker(j)', pc'[j], in'[j], out'[j], loop' = "idle")
    <2>1. CASE j = First
      BY <2>1, <1>1, <1>2
    <2>2. CASE j # First
      BY <2>2, <1>3 DEF LinksInStep
    <2>. QED
      BY <2>1, <2>2
  <1>. QED
    BY <1>4 DEF LinksInStep

LEMMA UpLinks ==
  ASSUME LinksInStep, UNCHANGED <<cfg, app, loop>>,
         \A j \in Roles : j # "up" => pc'[j] = pc[j] /\ in'[j] = in[j] /\ out'[j] = out[j],
         Linked(pc["server"], pc'["up"], in'["up"], out'["up"], loop = "idle")
  PROVE  LinksInStep'
  <1>1. /\ First' = First /\ First # "up" /\ "up" \in Roles
        /\ pc'["server"] = pc["server"] /\ pc'["relay"] = pc["relay"]
    BY DEF First, Roles, Hops
  <1>2. Asker("up")' = pc["server"] /\ \A j \in Roles : Asker(j)' = Asker(j)
    BY <1>1 DEF Asker
  <1>3. ASSUME NEW j \in Roles
        PROVE  Linked(Asker(j)', pc'[j], in'[j], out'[j], loop' = "idle")
    <2>1. CASE j = "up"
      BY <2>1, <1>1, <1>2
    <2>2. CASE j # "up"
      BY <2>2, <1>2 DEF LinksInStep
    <2>. QED
      BY <2>1, <2>2
  <1>. QED
    BY <1>3 DEF LinksInStep

(* The links at the two ends of the chain.                                  *)
LEMMA FirstLinked ==
  ASSUME DialogueInv
  PROVE  /\ DialogueTypeOK /\ First \in Hops /\ First \in Roles /\ First # "up"
         /\ pc[First] \in Labels
         /\ in \in Queues /\ out \in Queues
         /\ in[First] \in Seq(Messages) /\ out[First] \in Seq(Messages)
         /\ Linked(app, pc[First], in[First], out[First], loop = "idle")
  <1>1. /\ DialogueTypeOK /\ LinksInStep /\ First \in Hops /\ First \in Roles /\ First # "up"
    BY DEF DialogueInv, First, Hops, Roles
  <1>2. Asker(First) = app
    BY DEF Asker, First
  <1>3. pc[First] \in Labels
    BY <1>1 DEF DialogueTypeOK, Labels
  <1>. QED
    BY <1>1, <1>2, <1>3, QueuesTyped DEF LinksInStep

LEMMA UpLinked ==
  ASSUME DialogueInv
  PROVE  /\ DialogueTypeOK /\ "up" \in Roles \ {First} /\ pc["up"] \in Labels
         /\ in \in Queues /\ out \in Queues
         /\ in["up"] \in Seq(Messages) /\ out["up"] \in Seq(Messages)
         /\ Linked(pc["server"], pc["up"], in["up"], out["up"], loop = "idle")
  <1>1. /\ DialogueTypeOK /\ LinksInStep /\ "up" \in Roles /\ First # "up"
    BY DEF DialogueInv, First, Hops, Roles
  <1>2. Asker("up") = pc["server"]
    BY <1>1 DEF Asker
  <1>3. pc["up"] \in Labels
    BY <1>1 DEF DialogueTypeOK, Labels
  <1>. QED
    BY <1>1, <1>2, <1>3, QueuesTyped DEF LinksInStep

(* No handler takes up a request, and no message asks for another one.      *)
LEMMA RequestKept ==
  ASSUME OneRequest, UNCHANGED <<cfg, dst>>,
         \A j \in Hops : /\ pc'[j] \in Waiting => pc[j] \in Waiting
                         /\ pc'[j] \in Serving => pc[j] \in Serving
                         /\ pc'[j] = "udp" => pc[j] = "udp",
         NEW m,
         \/ m.kind \notin {"request", "target"}
         \/ dst[First] # None /\ m = Request(TRUE, "connect", ConnectAddr(dst[First])),
         \A k \in Roles \ {First} : FromOr(in'[k], in[k], m)
  PROVE  OneRequest'
  <1>1. First' = First /\ ServesAsked /\ RelaysNoUdp /\ PassesOnAsked
    BY DEF First, OneRequest
  <1>2. ServesAsked'
    BY <1>1 DEF ServesAsked
  <1>3. RelaysNoUdp'
    BY <1>1 DEF RelaysNoUdp, Hops
  <1>4. \A wa : Request(TRUE, "connect", wa).kind = "request"
    BY DEF Request
  <1>5. ASSUME NEW k \in Roles \ {First}, NEW i \in DOMAIN in'[k]
        PROVE  /\ in'[k][i].kind = "request" =>
                    dst[First] # None /\ in'[k][i] = Request(TRUE, "connect", ConnectAddr(dst[First]))
               /\ in'[k][i].kind = "target" =>
                    dst[First] # None /\ in'[k][i].addr = EncodeTarget(dst[First])
    <2>1. CASE in'[k][i] = m
      BY <2>1, <1>4
    <2>2. ASSUME NEW j \in DOMAIN in[k], in'[k][i] = in[k][j]
          PROVE  /\ in'[k][i].kind = "request" =>
                      dst[First] # None
                      /\ in'[k][i] = Request(TRUE, "connect", ConnectAddr(dst[First]))
                 /\ in'[k][i].kind = "target" =>
                      dst[First] # None /\ in'[k][i].addr = EncodeTarget(dst[First])
      BY <2>2, <1>1 DEF PassesOnAsked
    <2>. QED
      BY <2>1, <2>2 DEF FromOr
  <1>6. PassesOnAsked'
    BY <1>1, <1>5 DEF PassesOnAsked
  <1>. QED
    BY <1>2, <1>3, <1>6 DEF OneRequest

(* Nothing is contacted but what was asked for, and success is promised     *)
(* only where it may be.                                                    *)
LEMMA OutcomeKept ==
  ASSUME OneOutcome, UNCHANGED <<cfg, dst, told>>,
         \/ reached' = reached
         \/ dst[First] # None /\ reached' = dst[First].text,
         pc'["up"] \in {"off", "greet", "auth", "request", "target"}
           => pc["up"] \in {"off", "greet", "auth", "request", "target"} /\ reached' = reached,
         pc[First] \in {"pipe", "over"} => pc'[First] \in {"pipe", "over"},
         \A j \in Hops : pc'[j] \in {"tell", "pipe"} => pc[j] \in {"tell", "pipe"} \/ Promised',
         NEW m, m = Reply("success") => Promised',
         \A k \in Roles \ {First} : FromOr(out'[k], out[k], m)
  PROVE  OneOutcome'
  <1>1. First' = First
    BY DEF First
  <1>2. Promised => Promised'
    BY <1>1 DEF Promised
  <1>3. pc'["up"] \in {"off", "greet", "auth", "request", "target"} => reached' = None
    BY DEF OneOutcome
  <1>4. reached' # None => dst[First] # None /\ reached' = dst[First].text
    BY DEF OneOutcome
  <1>5. told' # "nothing" => pc'[First] \in {"pipe", "over"}
    BY DEF OneOutcome
  <1>6. \A j \in Hops : pc'[j] \in {"tell", "pipe"} => Promised'
    BY <1>2 DEF OneOutcome
  <1>7. ASSUME NEW k \in Roles \ {First}, NEW i \in DOMAIN out'[k], out'[k][i] = Reply("success")
        PROVE  Promised'
    <2>1. CASE out'[k][i] = m
      BY <2>1, <1>7
    <2>2. ASSUME NEW j \in DOMAIN out[k], out'[k][i] = out[k][j]
          PROVE  Promised'
      BY <2>2, <1>7, <1>2 DEF OneOutcome
    <2>. QED
      BY <2>1, <2>2 DEF FromOr
  <1>. QED
    BY <1>1, <1>3, <1>4, <1>5, <1>6, <1>7 DEF OneOutcome
-----------------------------------------------------------------------------
(* The hop goes through the dialogue with the next one.                     *)
LEMMA ConnectFacts ==
  ASSUME DialogueInv, NEW r \in Hops, pc[r] \in {"method", "status", "reply"}
  PROVE  /\ NextHop[r] \in Roles \ {First} /\ NextHop[r] # r /\ r \in Roles
         /\ DialogueTypeOK /\ pc[NextHop[r]] \in Labels
         /\ in[NextHop[r]] \in Seq(Messages) /\ out[NextHop[r]] \in Seq(Messages)
         /\ Linked(pc[r], pc[NextHop[r]], in[NextHop[r]], out[NextHop[r]], loop = "idle")
         /\ Proper(dst[r]) /\ dst[First] # None /\ dst[r] = dst[First]
         /\ \A l \in Connecting : Linked(Asker(r), l, in[r], out[r], loop = "idle")
         /\ r = "server" => ~Listed(dst[First].text)
  <1>1. DialogueTypeOK /\ LinksInStep /\ ServesAsked /\ AsksForUnlisted
    BY DEF DialogueInv, OneRequest
  <1>2. /\ NextHop[r] \in Roles /\ NextHop[r] # r /\ r \in Roles
        /\ r = "relay" => cfg.relay
        /\ Linked(pc[r], pc[NextHop[r]], in[NextHop[r]], out[NextHop[r]], loop = "idle")
    BY <1>1, NextLinked
  <1>3. NextHop[r] # First
    <2>1. CASE r = "server"
      BY <2>1 DEF NextHop, First
    <2>2. CASE r = "relay"
      BY <2>2, <1>2 DEF NextHop, First
    <2>. QED
      BY <2>1, <2>2 DEF Hops
  <1>4. pc[NextHop[r]] \in Labels
    BY <1>1, <1>2 DEF DialogueTypeOK, Labels
  <1>5. dst[r] # None /\ dst[r] \in Hosts
    BY <1>1 DEF ServesAsked, Serving, DialogueTypeOK
  <1>6. Proper(dst[r]) /\ dst[First] # None /\ dst[r] = dst[First]
    BY <1>1, <1>5 DEF ServesAsked, Proper
  <1>7. pc[r] \in Connecting /\ in[r] \in Seq(Messages)
        /\ Linked(Asker(r), pc[r], in[r], out[r], loop = "idle")
    BY HopLinked DEF Connecting
  <1>8. \A l \in Connecting : Linked(Asker(r), l, in[r], out[r], loop = "idle")
    BY <1>7, ServerConnects
  <1>9. r = "server" => ~Listed(dst[First].text)
    BY <1>1, <1>6 DEF AsksForUnlisted
  <1>10. in[NextHop[r]] \in Seq(Messages) /\ out[NextHop[r]] \in Seq(Messages)
    BY <1>1, <1>2, QueuesTyped
  <1>. QED
    BY <1>1, <1>2, <1>3, <1>4, <1>6, <1>8, <1>9, <1>10

(* It takes the answer, and sends m or nothing.                             *)
GoesOn(r, l, m) ==
    /\ pc[r] \in {"method", "status", "reply"} /\ l \in {"status", "reply", "tell"}
    /\ pc' = [pc EXCEPT ![r] = l]
    /\ in' \in Queues /\ out' \in Queues
    /\ \A j \in Roles : j # NextHop[r] => in'[j] = in[j] /\ out'[j] = out[j]
    /\ UNCHANGED <<cfg, app, proved, hung, shut, late, dst, reached, told, data, loop>>
    /\ Linked(l, pc[NextHop[r]], in'[NextHop[r]], out'[NextHop[r]], loop = "idle")
    /\ Quiet(in[NextHop[r]], in'[NextHop[r]])
    /\ Quiet(out[NextHop[r]], out'[NextHop[r]])
    /\ FromOr(in'[NextHop[r]], in[NextHop[r]], m)
    /\ From(out'[NextHop[r]], out[NextHop[r]])
    /\ \/ m.kind \notin {"request", "target"}
       \/ m = Request(TRUE, "connect", ConnectAddr(dst[First]))
    /\ l = "tell" => Promised

LEMMA GoesOnLinks ==
  ASSUME DialogueInv, NEW r \in Hops, NEW l, NEW m, GoesOn(r, l, m)
  PROVE  LinksInStep' /\ NumberedThrough'
  <1>. DEFINE n == NextHop[r]
  <1>1. /\ LinksInStep /\ NumberedThrough /\ DialogueTypeOK
        /\ UNCHANGED <<cfg, app, loop, data>> /\ pc[r] # "off"
        /\ l \in Connecting
    BY DEF DialogueInv, GoesOn, Connecting
  <1>2. /\ n \in Roles /\ n # r /\ r \in Roles
        /\ Linked(Asker(r), l, in[r], out[r], loop = "idle")
    BY <1>1, ConnectFacts DEF GoesOn
  <1>3. pc'[r] = l /\ \A j \in Roles \ {r} : pc'[j] = pc[j]
    BY <1>1, <1>2 DEF GoesOn, DialogueTypeOK
  <1>. HIDE DEF n
  <1>4. /\ \A j \in Roles : j # n => in'[j] = in[j] /\ out'[j] = out[j]
        /\ Linked(l, pc[n], in'[n], out'[n], loop = "idle")
        /\ Quiet(in[n], in'[n]) /\ Quiet(out[n], out'[n])
    BY DEF GoesOn, n
  <1>5. /\ \A j \in Roles \ {r, n} : pc'[j] = pc[j] /\ in'[j] = in[j] /\ out'[j] = out[j]
        /\ Linked(Asker(r), pc'[r], in'[r], out'[r], loop = "idle")
        /\ Linked(pc'[r], pc'[n], in'[n], out'[n], loop = "idle")
        /\ pc'[n] = pc[n]
    BY <1>2, <1>3, <1>4
  <1>6. LinksInStep'
    BY <1>1, <1>5, HopLinks DEF n
  <1>7. \A j \in Roles : Quiet(in[j], in'[j]) /\ Quiet(out[j], out'[j])
    BY <1>4, Unchanged
  <1>8. NumberedThrough'
    BY <1>1, <1>7, QuietStep
  <1>. QED
    BY <1>6, <1>8

LEMMA GoesOnPromises ==
  ASSUME DialogueInv, NEW r \in Hops, NEW l, NEW m, GoesOn(r, l, m)
  PROVE  OneRequest' /\ OneOutcome' /\ SensitiveStaysDirect' /\ AsksForUnlisted'
  <1>. DEFINE n == NextHop[r]
  <1>1. /\ DialogueTypeOK /\ OneRequest /\ OneOutcome /\ SensitiveStaysDirect /\ AsksForUnlisted
        /\ UNCHANGED <<cfg, dst, told, reached>> /\ First' = First
        /\ pc[r] \in {"method", "status", "reply"} /\ l \in {"status", "reply", "tell"}
    BY DEF DialogueInv, GoesOn, First
  <1>2. /\ n \in Roles \ {First} /\ n # r /\ r \in Roles /\ dst[First] # None
        /\ r = "server" => ~Listed(dst[First].text)
        /\ \A j \in Roles : in[j] \in Seq(Messages) /\ out[j] \in Seq(Messages)
    BY <1>1, ConnectFacts, QueuesTyped
  <1>3. pc'[r] = l /\ \A j \in Roles \ {r} : pc'[j] = pc[j]
    BY <1>1, <1>2 DEF GoesOn, DialogueTypeOK
  <1>. HIDE DEF n
  <1>4. /\ \A j \in Roles : j # n => in'[j] = in[j] /\ out'[j] = out[j]
        /\ FromOr(in'[n], in[n], m) /\ From(out'[n], out[n])
        /\ \/ m.kind \notin {"request", "target"}
           \/ m = Request(TRUE, "connect", ConnectAddr(dst[First]))
        /\ l = "tell" => Promised
    BY DEF GoesOn, n
  <1>5. /\ \A k \in Roles : FromOr(in'[k], in[k], m)
        /\ \A k \in Roles : From(out'[k], out[k])
    BY <1>2, <1>4, Sources
  <1>6. OneRequest'
    <2>1. \A j \in Hops : /\ pc'[j] \in Waiting => pc[j] \in Waiting
                          /\ pc'[j] \in Serving => pc[j] \in Serving
                          /\ pc'[j] = "udp" => pc[j] = "udp"
      BY <1>1, <1>2, <1>3 DEF Waiting, Serving, Hops, Roles
    <2>. QED
      BY <2>1, <1>1, <1>2, <1>4, <1>5, RequestKept
  <1>7. OneOutcome'
    <2>1. \A k \in Roles \ {First} : FromOr(out'[k], out[k], Data(0))
      BY <1>5 DEF From, FromOr
    <2>2. Data(0) # Reply("success")
      BY Kinds
    <2>3. Promised => Promised'
      BY <1>1 DEF Promised
    <2>4. /\ pc'["up"] = pc["up"]
          /\ pc[First] \in {"pipe", "over"} => pc'[First] \in {"pipe", "over"}
          /\ \A j \in Hops : pc'[j] \in {"tell", "pipe"} => pc[j] \in {"tell", "pipe"} \/ Promised'
      BY <1>1, <1>2, <1>3, <1>4, <2>3 DEF Hops, Roles, First
    <2>. QED
      BY <1>1, <2>1, <2>2, <2>4, OutcomeKept
  <1>8. SensitiveStaysDirect'
    <2>1. CASE r = "server"
      BY <2>1, <1>1, <1>2, DirectStays
    <2>2. CASE r = "relay"
      <3>1. pc'["up"] = pc["up"] /\ in'["up"] = in["up"]
        BY <2>2, <1>3, <1>4 DEF n, NextHop, Roles, Hops
      <3>. QED
        BY <3>1, <1>1, DirectStays DEF SensitiveStaysDirect
    <2>. QED
      BY <2>1, <2>2 DEF Hops
  <1>9. AsksForUnlisted'
    <2>1. pc'["server"] = pc["server"] \/ pc["server"] \in {"method", "status", "reply"}
      BY <1>1, <1>3 DEF Roles, Hops
    <2>2. dst'["server"] = dst["server"]
      BY <1>1
    <2>. QED
      BY <1>1, <2>1, <2>2, UnlistedKept
  <1>. QED
    BY <1>6, <1>7, <1>8, <1>9

LEMMA GoesOnStep ==
  ASSUME DialogueInv, NEW r \in Hops, NEW l, NEW m, GoesOn(r, l, m)
  PROVE  DialogueInv'
  <1>1. /\ DialogueTypeOK /\ r \in Roles /\ l \in Labels
        /\ in' \in Queues /\ out' \in Queues /\ pc' = [pc EXCEPT ![r] = l]
        /\ UNCHANGED <<cfg, app, proved, hung, shut, late, dst, reached, told, data>>
    BY DEF DialogueInv, GoesOn, Labels, InDialogue, Roles
  <1>2. /\ dst' \in [Hops -> Hosts \cup {None}] /\ reached' \in Texts \cup {None}
        /\ told' \in {"nothing", "success", "failure"} /\ proved' \in BOOLEAN
        /\ hung' \subseteq Roles /\ shut' \subseteq Roles
    BY <1>1 DEF DialogueTypeOK
  <1>3. DialogueTypeOK'
    BY <1>1, <1>2, TypeRest
  <1>. QED
    BY <1>3, GoesOnLinks, GoesOnPromises DEF DialogueInv

(* The next hop takes the place of the application in its dialogue.         *)
LEMMA AdvancesStep ==
  ASSUME DialogueInv, NEW r \in Hops, NEW answer \in {"method", "status"},
         NEW l \in {"status", "reply"}, NEW m \in Messages, Advances(r, answer, m, l),
         loop' = loop,
         \/ m.kind = "auth"
         \/ m.kind = "request" /\ m = Request(TRUE, "connect", ConnectAddr(dst[First])),
         in[NextHop[r]] = <<>>, Tail(out[NextHop[r]]) = <<>>, ThenData(out[NextHop[r]]),
         Linked(l, pc[NextHop[r]], <<m>>, <<>>, loop = "idle")
  PROVE  DialogueInv'
  <1>. DEFINE n == NextHop[r]
  <1>1. /\ pc[r] = answer /\ Holds(out[n], answer) /\ in' = Put(in, n, m) /\ out' = Drop(out, n)
        /\ pc' = [pc EXCEPT ![r] = l]
        /\ UNCHANGED <<cfg, app, proved, hung, shut, late, dst, reached, told, data>>
    BY DEF Advances, Stay, Goto
  <1>2. n \in Roles /\ DialogueTypeOK /\ out[n] \in Seq(Messages)
    BY <1>1, ConnectFacts
  <1>3. m.kind # "data" /\ m.kind # "target" /\ out[n] # <<>>
    BY <1>1 DEF Holds
  <1>4. out[n][1].kind # "data"
    BY <1>1, <1>2, <1>3, HeadOf DEF Holds
  <1>. HIDE DEF n
  <1>5. in[n] = <<>> /\ Tail(out[n]) = <<>> /\ ThenData(out[n])
        /\ Linked(l, pc[n], <<m>>, <<>>, loop = "idle")
    BY DEF n
  <1>6. /\ in' \in Queues /\ in'[n] = <<m>> /\ \A j \in Roles : j # n => in'[j] = in[j]
        /\ Quiet(in[n], in'[n]) /\ \A i \in DOMAIN in'[n] : in'[n][i] = m
    BY <1>1, <1>2, <1>3, <1>5, FirstMessage
  <1>7. /\ out' \in Queues /\ out'[n] = Tail(out[n]) /\ \A j \in Roles : j # n => out'[j] = out[j]
    BY <1>1, <1>2, <1>3, QueuesTyped, DropFrom
  <1>8. Quiet(out[n], out'[n]) /\ From(out'[n], out[n])
    BY <1>2, <1>3, <1>4, <1>5, <1>7, Answered, Sources
  <1>9. FromOr(in'[n], in[n], m)
    BY <1>6 DEF FromOr
  <1>10. /\ \A j \in Roles : j # n => in'[j] = in[j] /\ out'[j] = out[j]
         /\ Linked(l, pc[n], in'[n], out'[n], loop = "idle")
    BY <1>5, <1>6, <1>7
  <1>11. \/ m.kind \notin {"request", "target"}
         \/ m = Request(TRUE, "connect", ConnectAddr(dst[First]))
    BY <1>3
  <1>12. GoesOn(r, l, m)
    BY <1>1, <1>6, <1>7, <1>8, <1>9, <1>10, <1>11 DEF GoesOn, n
  <1>. QED
    BY <1>12, GoesOnStep

LEMMA ConnectReplyStep ==
  ASSUME DialogueInv, NEW r \in Hops, pc[r] = "reply", ConnectReply(r), loop' = loop
  PROVE  DialogueInv'
  <1>. DEFINE n == NextHop[r]
  <1>1. /\ Holds(out[n], "reply") /\ Head(out[n]).rep = "success" /\ out' = Drop(out, n)
        /\ pc' = [pc EXCEPT ![r] = "tell"]
        /\ UNCHANGED <<cfg, app, proved, in, hung, shut, late, dst, reached, told, data>>
    BY DEF ConnectReply, Stay, Goto, Answer
  <1>2. /\ n \in Roles \ {First} /\ DialogueTypeOK /\ pc[n] \in Labels
        /\ in[n] \in Seq(Messages) /\ out[n] \in Seq(Messages)
        /\ Linked("reply", pc[n], in[n], out[n], loop = "idle")
    BY ConnectFacts
  <1>3. /\ out[n] # <<>> /\ out[n][1].kind = "reply" /\ out[n][1].rep = "success"
        /\ out[n][1] \in Messages
    BY <1>1, <1>2, HeadOf DEF Holds
  <1>4. ThenData(out[n]) /\ Linked("tell", pc[n], in[n], Tail(out[n]), loop = "idle")
    BY <1>2, <1>3, ClientOpens
  <1>5. Promised
    <2>1. out[n][1] = Reply("success")
      BY <1>3, MessageFields
    <2>2. 1 \in DOMAIN out[n]
      BY <1>2, <1>3, Domains
    <2>. QED
      BY <1>2, <2>1, <2>2 DEF DialogueInv, OneOutcome
  <1>. HIDE DEF n
  <1>6. /\ out' \in Queues /\ out'[n] = Tail(out[n]) /\ \A j \in Roles : j # n => out'[j] = out[j]
        /\ in' \in Queues
    BY <1>1, <1>2, <1>3, QueuesTyped, DropFrom
  <1>7. Quiet(out[n], out'[n]) /\ From(out'[n], out[n])
    BY <1>2, <1>3, <1>4, <1>6, Answered, Sources
  <1>8. Quiet(in[n], in'[n]) /\ FromOr(in'[n], in[n], Data(0))
    BY <1>1, <1>2, Unchanged, Sources
  <1>9. /\ \A j \in Roles : j # n => in'[j] = in[j] /\ out'[j] = out[j]
        /\ Linked("tell", pc[n], in'[n], out'[n], loop = "idle")
    BY <1>1, <1>4, <1>6
  <1>10. Data(0).kind \notin {"request", "target"}
    BY Kinds
  <1>11. GoesOn(r, "tell", Data(0))
    BY <1>1, <1>5, <1>6, <1>7, <1>8, <1>9, <1>10 DEF GoesOn, n
  <1>. QED
    BY <1>11, GoesOnStep

LEMMA ConnectStep ==
  ASSUME DialogueInv, NEW r \in Hops, Connect(r), loop' = loop
  PROVE  DialogueInv'
  <1>. DEFINE n == NextHop[r]
  <1>1. CASE pc[r] \in {"method", "status", "reply"} /\ ConnectFails(r)
    <2>1. PICK rep \in {"host", "net"} : Fail(r, rep)
      BY <1>1 DEF ConnectFails
    <2>2. rep \in Reps /\ rep # "success" /\ pc[r] \in Connecting /\ in' = in
      BY <1>1 DEF ConnectFails, Reps, Connecting
    <2>. QED
      BY <2>1, <2>2, FailStep
  <1>2. ASSUME pc[r] \in {"method", "status"}, out[n] # <<>>
        PROVE  /\ n \in Roles /\ DialogueTypeOK /\ pc[n] \in Labels
               /\ in[n] \in Seq(Messages) /\ out[n] \in Seq(Messages)
               /\ Linked(pc[r], pc[n], in[n], out[n], loop = "idle")
               /\ Answer(r) = out[n][1]
               /\ ConnectRequest(r) \in Messages /\ ConnectRequest(r).kind = "request"
               /\ ConnectRequest(r) = Request(TRUE, "connect", ConnectAddr(dst[First]))
    <2>1. /\ n \in Roles /\ DialogueTypeOK /\ pc[n] \in Labels
          /\ in[n] \in Seq(Messages) /\ out[n] \in Seq(Messages)
          /\ Linked(pc[r], pc[n], in[n], out[n], loop = "idle")
          /\ Proper(dst[r]) /\ dst[r] = dst[First]
      BY <1>2, ConnectFacts
    <2>2. Answer(r) = out[n][1]
      BY <1>2, <2>1, HeadOf DEF Answer
    <2>3. ConnectAddr(dst[r]) \in WireAddrs
      BY <2>1, ConnectAddrOf
    <2>4. \A wa \in WireAddrs : /\ Request(TRUE, "connect", wa) \in Messages
                                /\ Request(TRUE, "connect", wa).kind = "request"
      BY DEF Messages, Request
    <2>. QED
      BY <2>1, <2>2, <2>3, <2>4 DEF ConnectRequest
  <1>3. CASE pc[r] = "method" /\ out[n] # <<>> /\ ConnectMethod(r)
    <2>1. CASE Answer(r).method = "password" /\ Advances(r, "method", Auth(TRUE, TRUE), "status")
      <3>1. out[n][1].kind = "method" /\ out[n][1].method = "password"
        BY <1>2, <1>3, <2>1 DEF Advances, Holds, Answer
      <3>. DEFINE m == Auth(TRUE, TRUE)
      <3>2. m \in Messages /\ m.kind = "auth"
        BY DEF Messages, Auth
      <3>3. /\ Linked("method", pc[n], in[n], out[n], loop = "idle")
            /\ pc[n] \in Labels /\ out[n] \in Seq(Messages) /\ out[n] # <<>>
        BY <1>2, <1>3
      <3>4. Advances(r, "method", m, "status")
        BY <2>1
      <3>. HIDE DEF m, n
      <3>5. /\ in[n] = <<>> /\ Tail(out[n]) = <<>> /\ ThenData(out[n])
            /\ Linked("status", pc[n], <<m>>, <<>>, loop = "idle")
        BY <3>1, <3>2, <3>3, ClientAuthenticates
      <3>. QED
        BY <3>2, <3>4, <3>5, AdvancesStep DEF n
    <2>2. CASE Answer(r).method = "none" /\ Advances(r, "method", ConnectRequest(r), "reply")
      <3>1. out[n][1].kind = "method" /\ out[n][1].method = "none"
        BY <1>2, <1>3, <2>2 DEF Advances, Holds, Answer
      <3>2. /\ in[n] = <<>> /\ Tail(out[n]) = <<>> /\ ThenData(out[n])
            /\ Linked("reply", pc[n], <<ConnectRequest(r)>>, <<>>, loop = "idle")
        <4>1. /\ Linked("method", pc[n], in[n], out[n], loop = "idle")
              /\ pc[n] \in Labels /\ out[n] \in Seq(Messages) /\ out[n] # <<>>
              /\ ConnectRequest(r).kind = "request"
          BY <1>2, <1>3
        <4>. HIDE DEF n
        <4>. QED
          BY <3>1, <4>1, ClientRequests
      <3>. QED
        BY <1>2, <1>3, <2>2, <3>2, AdvancesStep
    <2>. QED
      BY <1>3, <2>1, <2>2 DEF ConnectMethod
  <1>4. CASE pc[r] = "status" /\ out[n] # <<>> /\ ConnectStatus(r)
    <2>1. Answer(r).ok /\ Advances(r, "status", ConnectRequest(r), "reply")
      BY <1>4 DEF ConnectStatus
    <2>2. out[n][1].kind = "status" /\ out[n][1].ok
      BY <1>2, <1>4, <2>1 DEF Advances, Holds, Answer
    <2>3. /\ in[n] = <<>> /\ Tail(out[n]) = <<>> /\ ThenData(out[n])
          /\ Linked("reply", pc[n], <<ConnectRequest(r)>>, <<>>, loop = "idle")
      <3>1. /\ Linked("status", pc[n], in[n], out[n], loop = "idle")
            /\ pc[n] \in Labels /\ out[n] \in Seq(Messages) /\ out[n] # <<>>
            /\ ConnectRequest(r).kind = "request"
        BY <1>2, <1>4
      <3>. HIDE DEF n
      <3>. QED
        BY <2>2, <3>1, ClientRequests
    <2>. QED
      BY <1>2, <1>4, <2>1, <2>3, AdvancesStep
  <1>5. CASE pc[r] = "reply" /\ ConnectReply(r)
    BY <1>5, ConnectReplyStep
  <1>6. ConnectFails(r) => pc[r] \in {"method", "status", "reply"}
    BY DEF ConnectFails
  <1>. QED
    BY <1>1, <1>3, <1>4, <1>5, <1>6 DEF Connect
-----------------------------------------------------------------------------
(* Steps at which no handler moves.                                         *)
LEMMA HandlersStay ==
  ASSUME DialogueInv, UNCHANGED <<cfg, pc, dst, reached, told>>,
         NEW m, m.kind = "data",
         \A k \in Roles \ {First} : FromOr(in'[k], in[k], m) /\ FromOr(out'[k], out[k], m)
  PROVE  OneRequest' /\ OneOutcome' /\ SensitiveStaysDirect' /\ AsksForUnlisted'
  <1>1. /\ OneRequest /\ OneOutcome /\ SensitiveStaysDirect /\ AsksForUnlisted
        /\ First' = First /\ "up" \in Roles \ {First}
    BY DEF DialogueInv, First, Roles, Hops
  <1>2. m # Reply("success")
    BY Kinds
  <1>3. OneRequest'
    BY <1>1, RequestKept
  <1>4. OneOutcome'
    BY <1>1, <1>2, OutcomeKept
  <1>5. SensitiveStaysDirect'
    BY <1>1, DirectKept
  <1>6. AsksForUnlisted'
    BY <1>1, UnlistedKept
  <1>. QED
    BY <1>3, <1>4, <1>5, <1>6

LEMMA TypeStay ==
  ASSUME DialogueTypeOK, UNCHANGED <<cfg, proved, pc, late, dst, reached, told>>,
         app' \in {"start", "method", "status", "ready", "reply", "open", "quit"},
         in' \in Queues, out' \in Queues, hung' \subseteq Roles, shut' \subseteq Roles,
         sent' \in [Ends -> Nat], \A e \in Ends : sent'[e] <= MaxData[e],
         got' \in [Ends -> Seq(Messages)]
  PROVE  DialogueTypeOK'
  BY DEF DialogueTypeOK, Queues

(* A datum goes on.                                                         *)
Moves(q, l, k) == [Drop(q, l) EXCEPT ![k] = Append(@, Head(q[l]))]

LEMMA MovesTo ==
  ASSUME NEW q \in Queues, NEW l \in Roles, NEW k \in Roles, l # k, q[l] # <<>>
  PROVE  /\ Moves(q, l, k) \in Queues
         /\ Moves(q, l, k)[l] = Tail(q[l])
         /\ Moves(q, l, k)[k] = Append(q[k], q[l][1])
         /\ \A j \in Roles \ {l, k} : Moves(q, l, k)[j] = q[j]
         /\ \A j \in Roles : FromOr(Moves(q, l, k)[j], q[j], q[l][1])
         /\ q[l][1] \in Messages
  <1>. DEFINE d == Drop(q, l)
              m == q[l][1]
  <1>1. /\ q[l] \in Seq(Messages) /\ q[k] \in Seq(Messages)
        /\ \A j \in Roles : q[j] \in Seq(Messages)
    BY DEF Queues
  <1>2. d \in Queues /\ d[l] = Tail(q[l]) /\ \A j \in Roles : j # l => d[j] = q[j]
    BY DropFrom
  <1>3. Head(q[l]) = m /\ m \in Messages
    BY <1>1, HeadOf
  <1>4. Moves(q, l, k) = Put(d, k, m)
    BY <1>3 DEF Moves, Put
  <1>. HIDE DEF d, m
  <1>5. /\ Moves(q, l, k) \in Queues
        /\ Moves(q, l, k)[k] = Append(q[k], m) /\ Moves(q, l, k)[l] = Tail(q[l])
        /\ \A j \in Roles \ {l, k} : Moves(q, l, k)[j] = q[j]
    <2>1. /\ Put(d, k, m) \in Queues /\ Put(d, k, m)[k] = Append(d[k], m)
          /\ \A j \in Roles : j # k => Put(d, k, m)[j] = d[j]
      BY <1>2, <1>3, PutTo
    <2>. QED
      BY <1>2, <1>4, <2>1
  <1>6. ASSUME NEW j \in Roles PROVE FromOr(Moves(q, l, k)[j], q[j], m)
    <2>1. CASE j = l
      BY <2>1, <1>1, <1>5, Sources
    <2>2. CASE j = k
      BY <2>2, <1>1, <1>3, <1>5, Sources
    <2>3. CASE j \notin {l, k}
      BY <2>3, <1>1, <1>5, Sources
    <2>. QED
      BY <2>1, <2>2, <2>3
  <1>. QED
    BY <1>3, <1>5, <1>6 DEF m

LEMMA PipesFacts ==
  ASSUME DialogueInv, NEW r \in Hops, pc[r] = "pipe"
  PROVE  /\ NextHop[r] \in Roles \ {First} /\ NextHop[r] # r /\ r \in Roles
         /\ DialogueTypeOK /\ pc[NextHop[r]] \in Labels
         /\ in[NextHop[r]] \in Seq(Messages) /\ out[NextHop[r]] \in Seq(Messages)
         /\ in[r] \in Seq(Messages) /\ out[r] \in Seq(Messages)
         /\ in \in Queues /\ out \in Queues
         /\ Linked(Asker(r), "pipe", in[r], out[r], loop = "idle")
         /\ Linked("pipe", pc[NextHop[r]], in[NextHop[r]], out[NextHop[r]], loop = "idle")
  <1>1. DialogueTypeOK /\ LinksInStep
    BY DEF DialogueInv
  <1>2. /\ NextHop[r] \in Roles /\ NextHop[r] # r /\ r \in Roles
        /\ r = "relay" => cfg.relay
        /\ Linked("pipe", pc[NextHop[r]], in[NextHop[r]], out[NextHop[r]], loop = "idle")
    BY <1>1, NextLinked
  <1>3. NextHop[r] # First
    <2>1. CASE r = "server"
      BY <2>1 DEF NextHop, First
    <2>2. CASE r = "relay"
      BY <2>2, <1>2 DEF NextHop, First
    <2>. QED
      BY <2>1, <2>2 DEF Hops
  <1>4. pc[NextHop[r]] \in Labels
    BY <1>1, <1>2 DEF DialogueTypeOK, Labels
  <1>. QED
    BY <1>1, <1>2, <1>3, <1>4, HopLinked, QueuesTyped

LEMMA PipeUpStep ==
  ASSUME DialogueInv, NEW r \in Hops, PipeUp(r), loop' = loop
  PROVE  DialogueInv'
  <1>. DEFINE n == NextHop[r]
              m == in[r][1]
  <1>1. /\ pc[r] = "pipe" /\ in[r] # <<>> /\ in' = Moves(in, r, n)
        /\ UNCHANGED <<cfg, app, proved, pc, out, hung, shut, late, dst, reached, told, data>>
    BY DEF PipeUp, Moves
  <1>2. /\ n \in Roles \ {First} /\ n # r /\ r \in Roles
        /\ DialogueTypeOK /\ pc[n] \in Labels
        /\ in[n] \in Seq(Messages) /\ in[r] \in Seq(Messages)
        /\ in \in Queues /\ out \in Queues
        /\ Linked(Asker(r), "pipe", in[r], out[r], loop = "idle")
        /\ Linked("pipe", pc[n], in[n], out[n], loop = "idle")
    BY <1>1, PipesFacts
  <1>3. /\ in' \in Queues /\ in'[r] = Tail(in[r]) /\ in'[n] = Append(in[n], m)
        /\ \A j \in Roles \ {r, n} : in'[j] = in[j]
        /\ \A j \in Roles : FromOr(in'[j], in[j], m)
        /\ m \in Messages
    BY <1>1, <1>2, MovesTo
  <1>4. m.kind = "data" /\ Linked(Asker(r), "pipe", Tail(in[r]), out[r], loop = "idle")
    BY <1>1, <1>2, ServerReceives
  <1>. HIDE DEF m
  <1>5. Linked("pipe", pc[n], Append(in[n], m), out[n], loop = "idle")
    BY <1>2, <1>3, <1>4, ClientSends
  <1>6. DialogueTypeOK'
    BY <1>1, <1>2, <1>3, TypeStay DEF DialogueTypeOK, data
  <1>7. LinksInStep'
    <2>1. /\ \A j \in Roles \ {r, n} : pc'[j] = pc[j] /\ in'[j] = in[j] /\ out'[j] = out[j]
          /\ Linked(Asker(r), pc'[r], in'[r], out'[r], loop = "idle")
          /\ Linked(pc'[r], pc'[n], in'[n], out'[n], loop = "idle")
          /\ pc'[n] = pc[n] /\ pc[r] # "off" /\ UNCHANGED <<cfg, app, loop>>
      BY <1>1, <1>3, <1>4, <1>5
    <2>. QED
      BY <2>1, HopLinks DEF DialogueInv
  <1>8. NumberedThrough'
    <2>1. /\ got["far"] \in Seq(Messages) /\ in["up"] \in Seq(Messages)
          /\ in["server"] \in Seq(Messages) /\ in["relay"] \in Seq(Messages)
          /\ Chain(got["far"], in["up"], in["server"], in["relay"], sent["app"])
          /\ Chain(got["app"], out["relay"], out["server"], out["up"], sent["far"])
      BY <1>2, QueuesTyped DEF DialogueInv, NumberedThrough, DialogueTypeOK, Ends, Roles, Hops
    <2>2. Head(in[r]) = m /\ m = in[r][1]
      BY <1>1, <1>2, HeadOf DEF m
    <2>3. Chain(got["far"], in'["up"], in'["server"], in'["relay"], sent["app"])
      <3>1. CASE r = "server"
        <4>1. /\ in'["server"] = Tail(in["server"]) /\ in'["relay"] = in["relay"]
              /\ in'["up"] = Append(in["up"], Head(in["server"]))
          BY <3>1, <1>3, <2>2 DEF NextHop, Roles, Hops
        <4>. QED
          BY <3>1, <4>1, <1>1, <1>4, <2>1, <2>2, ChainMovedNear
      <3>2. CASE r = "relay"
        <4>1. /\ in'["relay"] = Tail(in["relay"]) /\ in'["up"] = in["up"]
              /\ in'["server"] = Append(in["server"], Head(in["relay"]))
          BY <3>2, <1>3, <2>2 DEF NextHop, Roles, Hops
        <4>. QED
          BY <3>2, <4>1, <1>1, <1>4, <2>1, <2>2, ChainMovedFar
      <3>. QED
        BY <3>1, <3>2 DEF Hops
    <2>. QED
      BY <1>1, <2>1, <2>3 DEF NumberedThrough, data
  <1>9. OneRequest' /\ OneOutcome' /\ SensitiveStaysDirect' /\ AsksForUnlisted'
    <2>1. \A k \in Roles \ {First} : FromOr(in'[k], in[k], m) /\ FromOr(out'[k], out[k], m)
      BY <1>1, <1>2, <1>3, QueuesTyped, Sources
    <2>. QED
      BY <1>1, <1>4, <2>1, HandlersStay
  <1>. QED
    BY <1>6, <1>7, <1>8, <1>9 DEF DialogueInv

LEMMA PipeDownStep ==
  ASSUME DialogueInv, NEW r \in Hops, PipeDown(r), loop' = loop
  PROVE  DialogueInv'
  <1>. DEFINE n == NextHop[r]
              m == out[n][1]
  <1>1. /\ pc[r] = "pipe" /\ out[n] # <<>> /\ out' = Moves(out, n, r)
        /\ UNCHANGED <<cfg, app, proved, pc, in, hung, shut, late, dst, reached, told, data>>
    BY DEF PipeDown, Moves, Answer
  <1>2. /\ n \in Roles \ {First} /\ n # r /\ r \in Roles
        /\ DialogueTypeOK /\ pc[n] \in Labels
        /\ out[n] \in Seq(Messages) /\ out[r] \in Seq(Messages)
        /\ in \in Queues /\ out \in Queues
        /\ Linked(Asker(r), "pipe", in[r], out[r], loop = "idle")
        /\ Linked("pipe", pc[n], in[n], out[n], loop = "idle")
    BY <1>1, PipesFacts
  <1>3. /\ out' \in Queues /\ out'[n] = Tail(out[n]) /\ out'[r] = Append(out[r], m)
        /\ \A j \in Roles \ {r, n} : out'[j] = out[j]
        /\ \A j \in Roles : FromOr(out'[j], out[j], m)
        /\ m \in Messages
    BY <1>1, <1>2, MovesTo
  <1>4. m.kind = "data" /\ Linked("pipe", pc[n], in[n], Tail(out[n]), loop = "idle")
    BY <1>1, <1>2, ClientReceives
  <1>. HIDE DEF m
  <1>5. Linked(Asker(r), "pipe", in[r], Append(out[r], m), loop = "idle")
    BY <1>2, <1>3, <1>4, ServerSends
  <1>6. DialogueTypeOK'
    BY <1>1, <1>2, <1>3, TypeStay DEF DialogueTypeOK, data
  <1>7. LinksInStep'
    <2>1. /\ \A j \in Roles \ {r, n} : pc'[j] = pc[j] /\ in'[j] = in[j] /\ out'[j] = out[j]
          /\ Linked(Asker(r), pc'[r], in'[r], out'[r], loop = "idle")
          /\ Linked(pc'[r], pc'[n], in'[n], out'[n], loop = "idle")
          /\ pc'[n] = pc[n] /\ pc[r] # "off" /\ UNCHANGED <<cfg, app, loop>>
      BY <1>1, <1>3, <1>4, <1>5
    <2>. QED
      BY <2>1, HopLinks DEF DialogueInv
  <1>8. NumberedThrough'
    <2>1. /\ got["app"] \in Seq(Messages) /\ out["up"] \in Seq(Messages)
          /\ out["server"] \in Seq(Messages) /\ out["relay"] \in Seq(Messages)
          /\ Chain(got["far"], in["up"], in["server"], in["relay"], sent["app"])
          /\ Chain(got["app"], out["relay"], out["server"], out["up"], sent["far"])
      BY <1>2, QueuesTyped DEF DialogueInv, NumberedThrough, DialogueTypeOK, Ends, Roles, Hops
    <2>2. Head(out[n]) = m /\ m = out[n][1]
      BY <1>1, <1>2, HeadOf DEF m
    <2>3. Chain(got["app"], out'["relay"], out'["server"], out'["up"], sent["far"])
      <3>1. CASE r = "server"
        <4>1. /\ out'["up"] = Tail(out["up"]) /\ out'["relay"] = out["relay"] /\ n = "up"
              /\ out'["server"] = Append(out["server"], Head(out["up"]))
          BY <3>1, <1>3, <2>2 DEF NextHop, Roles, Hops
        <4>. QED
          BY <4>1, <1>1, <1>4, <2>1, <2>2, ChainMovedFar
      <3>2. CASE r = "relay"
        <4>1. /\ out'["server"] = Tail(out["server"]) /\ out'["up"] = out["up"] /\ n = "server"
              /\ out'["relay"] = Append(out["relay"], Head(out["server"]))
          BY <3>2, <1>3, <2>2 DEF NextHop, Roles, Hops
        <4>. QED
          BY <4>1, <1>1, <1>4, <2>1, <2>2, ChainMovedNear
      <3>. QED
        BY <3>1, <3>2 DEF Hops
    <2>. QED
      BY <1>1, <2>1, <2>3 DEF NumberedThrough, data
  <1>9. OneRequest' /\ OneOutcome' /\ SensitiveStaysDirect' /\ AsksForUnlisted'
    <2>1. \A k \in Roles \ {First} : FromOr(in'[k], in[k], m) /\ FromOr(out'[k], out[k], m)
      BY <1>1, <1>2, <1>3, QueuesTyped, Sources
    <2>. QED
      BY <1>1, <1>4, <2>1, HandlersStay
  <1>. QED
    BY <1>6, <1>7, <1>8, <1>9 DEF DialogueInv

LEMMA HandlerStep ==
  ASSUME DialogueInv, NEW r \in Hops, Handler(r), loop' = loop
  PROVE  DialogueInv'
  <1>1. CASE ReadFails(r)
    <2>1. /\ LeaveSilently(r) /\ pc[r] \notin {"off", "target", "over"}
          /\ UNCHANGED <<cfg, app, proved, in, late, dst, reached, told, data>>
      BY <1>1 DEF ReadFails
    <2>. QED
      BY <2>1, SilentStep
  <1>2. CASE PipeEnds(r)
    <2>1. /\ LeaveSilently(r) /\ pc[r] \notin {"off", "target", "over"}
          /\ UNCHANGED <<cfg, app, proved, in, late, dst, reached, told, data>>
      BY <1>2 DEF PipeEnds
    <2>. QED
      BY <2>1, SilentStep
  <1>3. CASE Greet(r) \/ Authenticate(r) \/ ReadRequest(r)
    BY <1>3, GreetStep, AuthenticateStep, ReadRequestStep
  <1>4. CASE Dial(r) \/ Connect(r) \/ TellSuccess(r)
    BY <1>4, DialStep, ConnectStep, TellSuccessStep
  <1>5. CASE PipeUp(r) \/ PipeDown(r)
    BY <1>5, PipeUpStep, PipeDownStep
  <1>. QED
    BY <1>1, <1>2, <1>3, <1>4, <1>5 DEF Handler, Handshake
-----------------------------------------------------------------------------
(* The client goes on.                                                      *)
AppMoves ==
    /\ UNCHANGED <<cfg, proved, pc, shut, late, dst, reached, told, loop>>
    /\ app' \in {"start", "method", "status", "ready", "reply", "open", "quit"}
    /\ in' \in Queues /\ out' \in Queues /\ hung' \subseteq Roles
    /\ \A j \in Roles : j # First => in'[j] = in[j] /\ out'[j] = out[j]
    /\ Linked(app', pc[First], in'[First], out'[First], loop = "idle")

LEMMA AppStep ==
  ASSUME DialogueInv, AppMoves, NumberedThrough',
         sent' \in [Ends -> Nat], \A e \in Ends : sent'[e] <= MaxData[e],
         got' \in [Ends -> Seq(Messages)]
  PROVE  DialogueInv'
  <1>1. DialogueTypeOK /\ LinksInStep /\ First' = First /\ shut' \subseteq Roles
    BY DEF DialogueInv, DialogueTypeOK, AppMoves, First
  <1>2. DialogueTypeOK'
    BY <1>1, TypeStay DEF AppMoves
  <1>3. LinksInStep'
    BY <1>1, FirstLinks DEF AppMoves
  <1>4. OneRequest' /\ OneOutcome' /\ SensitiveStaysDirect' /\ AsksForUnlisted'
    <2>1. \A k \in Roles \ {First} :
            FromOr(in'[k], in[k], Data(0)) /\ FromOr(out'[k], out[k], Data(0))
      BY <1>1, QueuesTyped, Sources DEF AppMoves
    <2>2. Data(0).kind = "data"
      BY Kinds
    <2>. QED
      BY <2>1, <2>2, HandlersStay DEF AppMoves
  <1>. QED
    BY <1>2, <1>3, <1>4 DEF DialogueInv

LEMMA AppQuiet ==
  ASSUME DialogueInv, AppMoves, UNCHANGED data,
         Quiet(in[First], in'[First]), Quiet(out[First], out'[First])
  PROVE  DialogueInv'
  <1>1. DialogueTypeOK /\ NumberedThrough
    BY DEF DialogueInv
  <1>2. \A j \in Roles : Quiet(in[j], in'[j]) /\ Quiet(out[j], out'[j])
    BY Unchanged DEF AppMoves
  <1>3. NumberedThrough'
    BY <1>1, <1>2, QuietStep
  <1>4. /\ sent' \in [Ends -> Nat] /\ \A e \in Ends : sent'[e] <= MaxData[e]
        /\ got' \in [Ends -> Seq(Messages)]
    BY <1>1 DEF DialogueTypeOK, data
  <1>. QED
    BY <1>3, <1>4, AppStep

(* It takes an answer, if it waits for one, and asks for something.         *)
LEMMA AppAsks ==
  ASSUME DialogueInv, NEW m \in Messages, m.kind # "data", in[First] = <<>>,
         NEW l \in {"method", "status", "reply"}, app' = l, in' = Put(in, First, m),
         UNCHANGED <<cfg, proved, pc, hung, shut, late, dst, reached, told, data, loop>>,
         \/ out' = out /\ out[First] = <<>>
         \/ /\ out' = Drop(out, First) /\ out[First] # <<>> /\ out[First][1].kind # "data"
            /\ Tail(out[First]) = <<>> /\ ThenData(out[First]),
         Linked(l, pc[First], <<m>>, <<>>, loop = "idle")
  PROVE  DialogueInv'
  <1>1. DialogueTypeOK /\ First \in Roles /\ in \in Queues /\ out \in Queues
        /\ out[First] \in Seq(Messages)
    BY FirstLinked
  <1>2. /\ in' \in Queues /\ in'[First] = <<m>> /\ \A j \in Roles : j # First => in'[j] = in[j]
        /\ Quiet(in[First], in'[First])
    BY <1>1, FirstMessage
  <1>3. /\ out' \in Queues /\ out'[First] = <<>>
        /\ \A j \in Roles : j # First => out'[j] = out[j]
        /\ Quiet(out[First], out'[First])
    <2>1. CASE out' = out /\ out[First] = <<>>
      BY <2>1, <1>1, Unchanged
    <2>2. CASE /\ out' = Drop(out, First) /\ out[First] # <<>> /\ out[First][1].kind # "data"
               /\ Tail(out[First]) = <<>> /\ ThenData(out[First])
      BY <2>2, <1>1, DropFrom, Answered
    <2>. QED
      BY <2>1, <2>2
  <1>4. hung' \subseteq Roles
    BY <1>1 DEF DialogueTypeOK
  <1>5. Linked(app', pc[First], in'[First], out'[First], loop = "idle")
    BY <1>2, <1>3
  <1>6. AppMoves
    BY <1>2, <1>3, <1>4, <1>5 DEF AppMoves
  <1>. QED
    BY <1>2, <1>3, <1>6, AppQuiet

LEMMA AppGreetsStep ==
  ASSUME DialogueInv, AppGreets, loop' = loop
  PROVE  DialogueInv'
  <1>1. PICK m \in Messages : m.kind = "greet" /\ Ask(m, "method")
    <2>1. PICK v5 \in BOOLEAN, ms \in Methods : Ask(Greeting(v5, ms), "method")
      BY DEF AppGreets
    <2>2. Greeting(v5, ms) \in Messages /\ Greeting(v5, ms).kind = "greet"
      BY MessageTypes, Kinds
    <2>. QED
      BY <2>1, <2>2
  <1>2. /\ app = "start" /\ app' = "method" /\ in' = Put(in, First, m)
        /\ UNCHANGED <<cfg, proved, pc, out, hung, shut, late, dst, reached, told, data>>
    BY <1>1 DEF AppGreets, Ask
  <1>3. Linked("start", pc[First], in[First], out[First], loop = "idle") /\ pc[First] \in Labels
    BY <1>2, FirstLinked
  <1>4. /\ in[First] = <<>> /\ out[First] = <<>>
        /\ Linked("method", pc[First], <<m>>, <<>>, loop = "idle")
    BY <1>1, <1>3, ClientGreets
  <1>. QED
    BY <1>1, <1>2, <1>4, AppAsks

LEMMA AppAuthenticatesStep ==
  ASSUME DialogueInv, AppAuthenticates, loop' = loop
  PROVE  DialogueInv'
  <1>1. PICK m \in Messages : m.kind = "auth" /\ Ask(m, "status")
    <2>1. PICK v1 \in BOOLEAN, right \in BOOLEAN : Ask(Auth(v1, right), "status")
      BY DEF AppAuthenticates
    <2>2. Auth(v1, right) \in Messages /\ Auth(v1, right).kind = "auth"
      BY MessageTypes, Kinds
    <2>. QED
      BY <2>1, <2>2
  <1>2. /\ app = "method" /\ app' = "status" /\ in' = Put(in, First, m) /\ out' = Drop(out, First)
        /\ Holds(out[First], "method") /\ Head(out[First]).method = "password"
        /\ UNCHANGED <<cfg, proved, pc, hung, shut, late, dst, reached, told, data>>
    BY <1>1 DEF AppAuthenticates, Ask
  <1>3. /\ Linked("method", pc[First], in[First], out[First], loop = "idle")
        /\ pc[First] \in Labels /\ out[First] \in Seq(Messages)
    BY <1>2, FirstLinked
  <1>4. out[First] # <<>> /\ out[First][1].kind = "method" /\ out[First][1].method = "password"
    BY <1>2, <1>3, HeadOf DEF Holds
  <1>5. /\ in[First] = <<>> /\ Tail(out[First]) = <<>> /\ ThenData(out[First])
        /\ Linked("status", pc[First], <<m>>, <<>>, loop = "idle")
    BY <1>1, <1>3, <1>4, ClientAuthenticates
  <1>. QED
    BY <1>1, <1>2, <1>4, <1>5, AppAsks

LEMMA AppRequestsStep ==
  ASSUME DialogueInv, AppRequests, loop' = loop
  PROVE  DialogueInv'
  <1>1. PICK m \in Messages : m.kind = "request" /\ Ask(m, "reply")
    <2>1. PICK q \in [v5 : BOOLEAN, cmd : {"connect"}, addr : WireAddrs]
                       \cup [v5 : {TRUE}, cmd : {"connect"}, addr : {BadAtyp}]
                       \cup [v5 : {TRUE}, cmd : {"udp", "bind"}, addr : {BadAtyp, Unspecified}] :
                 Ask(Request(q.v5, q.cmd, q.addr), "reply")
      BY DEF AppRequests
    <2>2. Request(q.v5, q.cmd, q.addr) \in Messages
      BY DEF Request, Messages
    <2>3. Request(q.v5, q.cmd, q.addr).kind = "request"
      BY DEF Request
    <2>. QED
      BY <2>1, <2>2, <2>3
  <1>2. /\ MayAsk /\ app' = "reply" /\ in' = Put(in, First, m) /\ out' = Drop(out, First)
        /\ UNCHANGED <<cfg, proved, pc, hung, shut, late, dst, reached, told, data>>
    BY <1>1 DEF AppRequests, Ask
  <1>3. /\ Linked(app, pc[First], in[First], out[First], loop = "idle")
        /\ pc[First] \in Labels /\ out[First] \in Seq(Messages)
    BY FirstLinked
  <1>4. /\ out[First] # <<>> /\ Head(out[First]) = out[First][1]
        /\ \/ app = "method" /\ out[First][1].kind = "method" /\ out[First][1].method = "none"
           \/ app = "status" /\ out[First][1].kind = "status" /\ out[First][1].ok
    BY <1>2, <1>3, HeadOf DEF Holds, MayAsk
  <1>5. /\ in[First] = <<>> /\ Tail(out[First]) = <<>> /\ ThenData(out[First])
        /\ Linked("reply", pc[First], <<m>>, <<>>, loop = "idle")
    BY <1>1, <1>3, <1>4, ClientRequests
  <1>. QED
    BY <1>1, <1>2, <1>4, <1>5, AppAsks

LEMMA AppOpensStep ==
  ASSUME DialogueInv, AppOpens, loop' = loop
  PROVE  DialogueInv'
  <1>1. /\ app = "reply" /\ app' = "open" /\ out' = Drop(out, First) /\ Holds(out[First], "reply")
        /\ UNCHANGED <<cfg, proved, pc, in, hung, shut, late, dst, reached, told, data>>
    BY DEF AppOpens
  <1>2. /\ Linked("reply", pc[First], in[First], out[First], loop = "idle")
        /\ pc[First] \in Labels /\ out[First] \in Seq(Messages) /\ in[First] \in Seq(Messages)
        /\ DialogueTypeOK /\ First \in Roles /\ in \in Queues /\ out \in Queues
    BY <1>1, FirstLinked
  <1>3. out[First] # <<>> /\ out[First][1].kind = "reply"
    BY <1>1, <1>2, HeadOf DEF Holds
  <1>4. ThenData(out[First]) /\ Linked("open", pc[First], in[First], Tail(out[First]), loop = "idle")
    BY <1>2, <1>3, ClientOpens
  <1>5. /\ out' \in Queues /\ out'[First] = Tail(out[First])
        /\ \A j \in Roles : j # First => out'[j] = out[j]
        /\ Quiet(out[First], out'[First]) /\ Quiet(in[First], in'[First])
    BY <1>1, <1>2, <1>3, <1>4, DropFrom, Answered, Unchanged
  <1>6. Linked(app', pc[First], in'[First], out'[First], loop = "idle")
    BY <1>1, <1>4, <1>5
  <1>7. hung' \subseteq Roles
    BY <1>1, <1>2 DEF DialogueTypeOK
  <1>8. AppMoves
    BY <1>1, <1>2, <1>5, <1>6, <1>7 DEF AppMoves
  <1>. QED
    BY <1>1, <1>5, <1>8, AppQuiet

LEMMA AppHangsUpStep ==
  ASSUME DialogueInv, AppHangsUp, loop' = loop
  PROVE  DialogueInv'
  <1>1. /\ app' = "quit" /\ hung' = hung \cup {First}
        /\ UNCHANGED <<cfg, proved, pc, in, out, shut, late, dst, reached, told, data>>
    BY DEF AppHangsUp
  <1>2. /\ Linked(app, pc[First], in[First], out[First], loop = "idle")
        /\ out[First] \in Seq(Messages) /\ in[First] \in Seq(Messages)
        /\ DialogueTypeOK /\ First \in Roles /\ in \in Queues /\ out \in Queues
        /\ app \in {"start", "method", "status", "ready", "reply", "open", "quit"}
    BY FirstLinked DEF DialogueTypeOK
  <1>3. pc[First] # "off"
    BY <1>2 DEF Linked
  <1>4. Linked("quit", pc[First], in[First], out[First], loop = "idle")
    BY <1>2, <1>3, ClientQuits
  <1>5. hung' \subseteq Roles
    BY <1>1, <1>2 DEF DialogueTypeOK
  <1>6. Linked(app', pc[First], in'[First], out'[First], loop = "idle")
    BY <1>1, <1>4
  <1>7. AppMoves
    BY <1>1, <1>2, <1>5, <1>6 DEF AppMoves
  <1>. QED
    BY <1>1, <1>7, Unchanged, AppQuiet

(* Without a relay its link is not in use.                                  *)
LEMMA NoRelay ==
  ASSUME DialogueInv, ~cfg.relay
  PROVE  in["relay"] = <<>> /\ out["relay"] = <<>>
  <1>1. Linked(Asker("relay"), pc["relay"], in["relay"], out["relay"], loop = "idle")
    BY DEF DialogueInv, LinksInStep, Roles, Hops
  <1>2. Asker("relay") = "off"
    BY DEF Asker, First
  <1>. QED
    BY <1>1, <1>2 DEF Linked

LEMMA NumberedTyped ==
  ASSUME DialogueInv
  PROVE  /\ got["far"] \in Seq(Messages) /\ got["app"] \in Seq(Messages)
         /\ sent["far"] \in Nat /\ sent["app"] \in Nat
         /\ \A l \in {"up", "server", "relay"} : in[l] \in Seq(Messages) /\ out[l] \in Seq(Messages)
         /\ Chain(got["far"], in["up"], in["server"], in["relay"], sent["app"])
         /\ Chain(got["app"], out["relay"], out["server"], out["up"], sent["far"])
  BY QueuesTyped DEF DialogueInv, NumberedThrough, DialogueTypeOK, Ends, Roles, Hops

LEMMA AppSendsStep ==
  ASSUME DialogueInv, AppSends, loop' = loop
  PROVE  DialogueInv'
  <1>. DEFINE m == Data(sent["app"] + 1)
  <1>1. /\ app \in {"reply", "open"} /\ app' = app /\ in' = Put(in, First, m)
        /\ sent["app"] < MaxData["app"] /\ sent' = [sent EXCEPT !["app"] = sent["app"] + 1]
        /\ UNCHANGED <<cfg, proved, pc, out, hung, shut, late, dst, reached, told, got>>
    BY DEF AppSends, Ask
  <1>2. /\ Linked(app, pc[First], in[First], out[First], loop = "idle")
        /\ pc[First] \in Labels /\ in[First] \in Seq(Messages)
        /\ DialogueTypeOK /\ First \in Roles /\ in \in Queues /\ out \in Queues
    BY FirstLinked
  <1>3. m \in Messages /\ m.kind = "data" /\ m = Data(sent["app"] + 1)
    BY NumberedTyped, MessageTypes, Kinds
  <1>. HIDE DEF m
  <1>4. /\ in' \in Queues /\ in'[First] = Append(in[First], m)
        /\ \A j \in Roles : j # First => in'[j] = in[j]
    BY <1>1, <1>2, <1>3, PutTo
  <1>5. Linked(app, pc[First], Append(in[First], m), out[First], loop = "idle")
    BY <1>1, <1>2, <1>3, ClientSends
  <1>6. Linked(app', pc[First], in'[First], out'[First], loop = "idle")
    BY <1>1, <1>4, <1>5
  <1>7. AppMoves
    BY <1>1, <1>2, <1>4, <1>6 DEF AppMoves, DialogueTypeOK
  <1>8. /\ sent' \in [Ends -> Nat] /\ got' \in [Ends -> Seq(Messages)]
        /\ sent'["app"] = sent["app"] + 1 /\ sent'["far"] = sent["far"]
    BY <1>1, <1>2 DEF DialogueTypeOK, Ends
  <1>9. \A e \in Ends : sent'[e] <= MaxData[e]
    <2>1. sent["app"] + 1 <= MaxData["app"]
      BY <1>1, NumberedTyped, DialogueAssumption DEF Ends
    <2>. QED
      BY <1>2, <1>8, <2>1 DEF DialogueTypeOK, Ends
  <1>10. NumberedThrough'
    <2>1. Chain(got["far"], in'["up"], in'["server"], in'["relay"], sent["app"] + 1)
      <3>1. CASE cfg.relay
        <4>1. First = "relay"
          BY <3>1 DEF First
        <4>2. /\ in'["relay"] = Append(in["relay"], m) /\ in'["up"] = in["up"]
              /\ in'["server"] = in["server"]
          BY <4>1, <1>4 DEF Roles, Hops
        <4>3. Chain(got["far"], in["up"], in["server"], Append(in["relay"], m), sent["app"] + 1)
          BY <1>3, NumberedTyped, ChainSent
        <4>. QED
          BY <4>2, <4>3
      <3>2. CASE ~cfg.relay
        <4>1. First = "server" /\ in["relay"] = <<>>
          BY <3>2, NoRelay DEF First
        <4>2. /\ in'["server"] = Append(in["server"], m) /\ in'["up"] = in["up"]
              /\ in'["relay"] = <<>>
          BY <4>1, <1>4 DEF Roles, Hops
        <4>3. Chain(got["far"], in["up"], in["server"], <<>>, sent["app"])
          BY <4>1, NumberedTyped
        <4>. QED
          BY <4>2, <4>3, <1>3, NumberedTyped, ChainSentNear
      <3>. QED
        BY <3>1, <3>2
    <2>2. Chain(got["app"], out["relay"], out["server"], out["up"], sent["far"])
      BY NumberedTyped
    <2>. QED
      BY <1>1, <1>8, <2>1, <2>2 DEF NumberedThrough
  <1>. QED
    BY <1>7, <1>8, <1>9, <1>10, AppStep

LEMMA AppReceivesStep ==
  ASSUME DialogueInv, AppReceives, loop' = loop
  PROVE  DialogueInv'
  <1>1. /\ app = "open" /\ app' = "open" /\ out[First] # <<>> /\ out' = Drop(out, First)
        /\ got' = [got EXCEPT !["app"] = Append(got["app"], Head(out[First]))]
        /\ UNCHANGED <<cfg, proved, pc, in, hung, shut, late, dst, reached, told, sent>>
    BY DEF AppReceives
  <1>2. /\ Linked("open", pc[First], in[First], out[First], loop = "idle")
        /\ pc[First] \in Labels /\ in[First] \in Seq(Messages) /\ out[First] \in Seq(Messages)
        /\ DialogueTypeOK /\ First \in Roles /\ in \in Queues /\ out \in Queues
    BY <1>1, FirstLinked
  <1>3. /\ out' \in Queues /\ out'[First] = Tail(out[First])
        /\ \A j \in Roles : j # First => out'[j] = out[j]
    BY <1>1, <1>2, DropFrom
  <1>4. out[First][1].kind = "data"
        /\ Linked("open", pc[First], in[First], Tail(out[First]), loop = "idle")
    <2>1. out[First] \in Seq(Messages) /\ out[First] # <<>>
          /\ Linked("open", pc[First], in[First], out[First], loop = "idle")
          /\ pc[First] \in Labels /\ "open" \in {"open", "pipe"}
      BY <1>1, <1>2
    <2>2. out[First][1].kind = "data"
      BY <2>1, ClientReceives
    <2>3. Linked("open", pc[First], in[First], Tail(out[First]), loop = "idle")
      BY <2>1, ClientReceives
    <2>. QED
      BY <2>2, <2>3
  <1>5. Linked(app', pc[First], in'[First], out'[First], loop = "idle")
    BY <1>1, <1>3, <1>4
  <1>6. AppMoves
    BY <1>1, <1>2, <1>3, <1>5 DEF AppMoves, DialogueTypeOK
  <1>7. /\ Head(out[First]) \in Messages
        /\ Append(got["app"], Head(out[First])) \in Seq(Messages)
    BY <1>1, <1>2, HeadOf, NumberedTyped, Appended
  <1>8. /\ sent' \in [Ends -> Nat] /\ got' \in [Ends -> Seq(Messages)]
        /\ \A e \in Ends : sent'[e] <= MaxData[e]
        /\ got'["app"] = Append(got["app"], Head(out[First])) /\ got'["far"] = got["far"]
    BY <1>1, <1>2, <1>7 DEF DialogueTypeOK, Ends
  <1>9. Chain(got'["app"], out'["relay"], out'["server"], out'["up"], sent["far"])
    <2>1. CASE cfg.relay
      <3>1. First = "relay"
        BY <2>1 DEF First
      <3>2. /\ out'["relay"] = Tail(out["relay"]) /\ out'["up"] = out["up"]
            /\ out'["server"] = out["server"] /\ out["relay"] # <<>>
            /\ out["relay"][1].kind = "data"
            /\ got'["app"] = Append(got["app"], Head(out["relay"]))
        BY <3>1, <1>1, <1>3, <1>4, <1>8 DEF Roles, Hops
      <3>. QED
        <4>1. /\ Chain(got["app"], out["relay"], out["server"], out["up"], sent["far"])
              /\ got["app"] \in Seq(Messages) /\ out["relay"] \in Seq(Messages)
              /\ out["server"] \in Seq(Messages) /\ out["up"] \in Seq(Messages)
          BY NumberedTyped
        <4>2. Chain(Append(got["app"], Head(out["relay"])), Tail(out["relay"]), out["server"],
                    out["up"], sent["far"])
          BY <3>2, <4>1, ChainReceived
        <4>. QED
          BY <3>2, <4>2
    <2>2. CASE ~cfg.relay
      <3>1. First = "server" /\ out["relay"] = <<>>
        BY <2>2, NoRelay DEF First
      <3>2. /\ out'["server"] = Tail(out["server"]) /\ out'["up"] = out["up"]
            /\ out'["relay"] = <<>> /\ out["server"] # <<>> /\ out["server"][1].kind = "data"
            /\ got'["app"] = Append(got["app"], Head(out["server"]))
        BY <3>1, <1>1, <1>3, <1>4, <1>8 DEF Roles, Hops
      <3>3. Chain(got["app"], out["server"], <<>>, out["up"], sent["far"])
        <4>1. Chain(got["app"], <<>>, out["server"], out["up"], sent["far"])
          BY <3>1, NumberedTyped
        <4>2. Len(got["app"]) \in Nat /\ Load(out["server"]) \in Nat
              /\ out["up"] \in Seq(Messages)
          BY NumberedTyped, Domains, LeadType
        <4>. QED
          BY <4>1, <4>2, ChainSkipped
      <3>4. <<>> \in Seq(Messages)
        OBVIOUS
      <3>5. Chain(got'["app"], Tail(out["server"]), <<>>, out["up"], sent["far"])
        <4>1. /\ got["app"] \in Seq(Messages) /\ out["server"] \in Seq(Messages)
              /\ out["up"] \in Seq(Messages)
          BY NumberedTyped
        <4>2. Chain(Append(got["app"], Head(out["server"])), Tail(out["server"]), <<>>,
                    out["up"], sent["far"])
          BY <3>2, <3>3, <3>4, <4>1, ChainReceived
        <4>. QED
          BY <3>2, <4>2
      <3>6. Len(got'["app"]) \in Nat /\ Load(out'["server"]) \in Nat
        <4>1. got'["app"] \in Seq(Messages)
          BY <1>7, <1>8
        <4>2. out'["server"] \in Seq(Messages)
          BY <3>2, NumberedTyped, Shortened
        <4>. QED
          BY <4>1, <4>2, Domains, LeadType
      <3>. QED
        BY <3>2, <3>5, <3>6, NumberedTyped, ChainSkipped
    <2>. QED
      BY <2>1, <2>2
  <1>10. NumberedThrough'
    <2>1. Chain(got["far"], in["up"], in["server"], in["relay"], sent["app"])
      BY NumberedTyped
    <2>. QED
      BY <1>1, <1>8, <1>9, <2>1 DEF NumberedThrough
  <1>. QED
    BY <1>6, <1>8, <1>10, AppStep

LEMMA ClientStep ==
  ASSUME DialogueInv, Client, loop' = loop
  PROVE  DialogueInv'
  BY AppGreetsStep, AppAuthenticatesStep, AppRequestsStep, AppOpensStep, AppSendsStep,
     AppReceivesStep, AppHangsUpStep DEF Client
-----------------------------------------------------------------------------
(* The far side goes on.                                                    *)
FarMoves(l, m) ==
    /\ pc["up"] # "off" /\ l \in Labels \ {"off"}
    /\ pc' = [pc EXCEPT !["up"] = l]
    /\ UNCHANGED <<cfg, app, proved, hung, late, dst, told, loop>>
    /\ in' \in Queues /\ out' \in Queues /\ shut' \subseteq Roles
    /\ \A j \in Roles : j # "up" => in'[j] = in[j] /\ out'[j] = out[j]
    /\ Linked(pc["server"], l, in'["up"], out'["up"], loop = "idle")
    /\ From(in'["up"], in["up"]) /\ FromOr(out'["up"], out["up"], m)
    /\ l = pc["up"] \/ l = "over" \/ pc["up"] \in {"greet", "auth", "request", "target"}
    /\ l \in {"greet", "auth", "request", "target"} => pc["up"] \in {"greet", "auth"}
    /\ \/ reached' = reached
       \/ l = "pipe" /\ dst[First] # None /\ reached' = dst[First].text
    /\ m = Reply("success") => Promised'

LEMMA FarStep ==
  ASSUME DialogueInv, NEW l, NEW m, FarMoves(l, m), NumberedThrough',
         sent' \in [Ends -> Nat], \A e \in Ends : sent'[e] <= MaxData[e],
         got' \in [Ends -> Seq(Messages)]
  PROVE  DialogueInv'
  <1>1. /\ DialogueTypeOK /\ LinksInStep /\ First' = First /\ First \in Hops /\ "up" \in Roles
        /\ OneRequest /\ OneOutcome /\ SensitiveStaysDirect /\ AsksForUnlisted
        /\ UNCHANGED <<cfg, app, proved, hung, late, dst, told, loop>>
    BY DEF DialogueInv, FarMoves, First, Roles, Hops
  <1>2. pc'["up"] = l /\ \A j \in Roles : j # "up" => pc'[j] = pc[j]
    BY <1>1 DEF FarMoves, DialogueTypeOK
  <1>3. DialogueTypeOK'
    <2>1. pc' \in [Roles -> Labels]
      BY <1>1 DEF FarMoves, DialogueTypeOK, Labels
    <2>2. dst[First] \in Hosts \cup {None} /\ (dst[First] # None => dst[First].text \in Texts)
      BY <1>1 DEF DialogueTypeOK, Hosts
    <2>3. reached' \in Texts \cup {None}
      BY <1>1, <2>2 DEF FarMoves, DialogueTypeOK
    <2>4. in' \in Queues /\ out' \in Queues /\ shut' \subseteq Roles
      BY DEF FarMoves
    <2>. QED
      BY <1>1, <2>1, <2>3, <2>4 DEF DialogueTypeOK, Queues, Labels
  <1>4. LinksInStep'
    BY <1>1, <1>2, UpLinks DEF FarMoves
  <1>5. \A k \in Roles \ {First} : FromOr(in'[k], in[k], Data(0)) /\ FromOr(out'[k], out[k], m)
    <2>1. \A j \in Roles : From(in'[j], in[j]) /\ FromOr(out'[j], out[j], m)
      BY <1>1, QueuesTyped, Sources DEF FarMoves
    <2>2. \A j \in Roles : FromOr(in'[j], in[j], Data(0))
      BY <2>1 DEF From, FromOr
    <2>. QED
      BY <2>1, <2>2
  <1>6. Data(0).kind = "data"
    BY Kinds
  <1>7. \A j \in Hops : pc'[j] = pc[j]
    BY <1>2 DEF Roles, Hops
  <1>8. OneRequest'
    BY <1>1, <1>5, <1>6, <1>7, RequestKept
  <1>9. OneOutcome'
    <2>1. \/ reached' = reached
          \/ dst[First] # None /\ reached' = dst[First].text
      BY DEF FarMoves
    <2>2. pc'["up"] \in {"off", "greet", "auth", "request", "target"}
            => pc["up"] \in {"off", "greet", "auth", "request", "target"} /\ reached' = reached
      BY <1>2 DEF FarMoves
    <2>3. m = Reply("success") => Promised'
      BY DEF FarMoves
    <2>. QED
      BY <1>1, <1>5, <1>7, <2>1, <2>2, <2>3, OutcomeKept
  <1>10. SensitiveStaysDirect'
    <2>1. \/ pc'["up"] = pc["up"]
          \/ pc'["up"] \in {"pipe", "over"}
          \/ pc["up"] \notin {"off", "pipe", "over"}
      BY <1>2 DEF FarMoves
    <2>2. FromOr(in'["up"], in["up"], Data(0))
      BY <1>1, <1>5 DEF Hops
    <2>. QED
      BY <1>1, <1>6, <2>1, <2>2, DirectKept
  <1>11. AsksForUnlisted'
    BY <1>1, <1>7, UnlistedKept DEF Hops
  <1>. QED
    BY <1>3, <1>4, <1>8, <1>9, <1>10, <1>11 DEF DialogueInv

LEMMA FarQuiet ==
  ASSUME DialogueInv, NEW l, NEW m, FarMoves(l, m), UNCHANGED data,
         Quiet(in["up"], in'["up"]), Quiet(out["up"], out'["up"])
  PROVE  DialogueInv'
  <1>1. DialogueTypeOK /\ NumberedThrough
    BY DEF DialogueInv
  <1>2. \A j \in Roles : Quiet(in[j], in'[j]) /\ Quiet(out[j], out'[j])
    BY Unchanged DEF FarMoves
  <1>3. NumberedThrough'
    BY <1>1, <1>2, QuietStep
  <1>4. /\ sent' \in [Ends -> Nat] /\ \A e \in Ends : sent'[e] <= MaxData[e]
        /\ got' \in [Ends -> Seq(Messages)]
    BY <1>1 DEF DialogueTypeOK, data
  <1>. QED
    BY <1>3, <1>4, FarStep

LEMMA FarTakesOne ==
  ASSUME DialogueInv, NEW kind, kind # "data", FarTakes(kind), ThenData(in["up"])
  PROVE  /\ in' \in Queues /\ in'["up"] = Tail(in["up"])
         /\ \A j \in Roles : j # "up" => in'[j] = in[j]
         /\ Quiet(in["up"], in'["up"]) /\ From(in'["up"], in["up"])
  <1>1. /\ in["up"] # <<>> /\ Head(in["up"]).kind = kind /\ in' = Drop(in, "up")
        /\ in["up"] \in Seq(Messages) /\ in \in Queues /\ "up" \in Roles
    BY UpLinked DEF FarTakes, Holds
  <1>2. in["up"][1].kind # "data"
    BY <1>1, HeadOf
  <1>. QED
    BY <1>1, <1>2, DropFrom, Answered, Sources

LEMMA FarAnswersOne ==
  ASSUME DialogueInv, NEW m \in Messages, m.kind # "data", out["up"] = <<>>,
         out' = Put(out, "up", m)
  PROVE  /\ out' \in Queues /\ out'["up"] = <<m>>
         /\ \A j \in Roles : j # "up" => out'[j] = out[j]
         /\ Quiet(out["up"], out'["up"]) /\ FromOr(out'["up"], out["up"], m)
  <1>1. /\ "up" \in Roles /\ out \in Queues /\ Append(<<>>, m) = <<m>>
    BY UpLinked, ShapeFirst
  <1>2. /\ out' \in Queues /\ out'["up"] = <<m>>
        /\ \A j \in Roles : j # "up" => out'[j] = out[j]
    BY <1>1, PutTo
  <1>3. Quiet(out["up"], out'["up"])
    BY <1>1, <1>2, Asked1
  <1>4. \A i \in DOMAIN <<m>> : <<m>>[i] = m
    OBVIOUS
  <1>. QED
    BY <1>2, <1>3, <1>4 DEF FromOr

LEMMA FarQuitsStep ==
  ASSUME DialogueInv, FarQuits, loop' = loop
  PROVE  DialogueInv'
  <1>1. /\ pc["up"] \notin {"off", "over"} /\ pc' = [pc EXCEPT !["up"] = "over"]
        /\ shut' = shut \cup {"up"}
        /\ UNCHANGED <<cfg, app, proved, in, out, hung, late, dst, reached, told, data>>
    BY DEF FarQuits, Goto
  <1>2. /\ DialogueTypeOK /\ "up" \in Roles /\ pc["up"] \in Labels /\ in \in Queues /\ out \in Queues
        /\ in["up"] \in Seq(Messages) /\ out["up"] \in Seq(Messages)
        /\ Linked(pc["server"], pc["up"], in["up"], out["up"], loop = "idle")
    BY UpLinked
  <1>3. Linked(pc["server"], "over", in["up"], out["up"], loop = "idle")
    BY <1>1, <1>2, ServerQuits
  <1>4. shut' \subseteq Roles /\ "over" \in Labels \ {"off"}
    BY <1>1, <1>2 DEF DialogueTypeOK, Labels
  <1>5. Data(0) # Reply("success")
    BY Kinds
  <1>6. From(in["up"], in["up"]) /\ FromOr(out["up"], out["up"], Data(0))
    BY <1>2, Sources
  <1>7. FarMoves("over", Data(0))
    BY <1>1, <1>2, <1>3, <1>4, <1>5, <1>6 DEF FarMoves
  <1>. QED
    BY <1>1, <1>7, Unchanged, FarQuiet

LEMMA FarGreetsStep ==
  ASSUME DialogueInv, FarGreets, loop' = loop
  PROVE  DialogueInv'
  <1>. DEFINE k == IF cfg.token THEN "password" ELSE "none"
              m == Method(k)
              l == IF cfg.token THEN "auth" ELSE "request"
  <1>1. /\ pc["up"] = "greet" /\ FarTakes("greet") /\ in["up"] # <<>>
        /\ out' = Put(out, "up", m) /\ pc' = [pc EXCEPT !["up"] = l]
        /\ UNCHANGED <<cfg, app, proved, hung, shut, late, dst, reached, told, data>>
    BY DEF FarGreets, FarTakes, Holds, Goto
  <1>2. /\ DialogueTypeOK /\ in["up"] \in Seq(Messages) /\ out["up"] \in Seq(Messages)
        /\ Linked(pc["server"], "greet", in["up"], out["up"], loop = "idle")
    BY <1>1, UpLinked
  <1>3. /\ One(in["up"], "greet") /\ out["up"] = <<>>
        /\ Linked(pc["server"], "auth", <<>>, <<Method("password")>>, loop = "idle")
        /\ Linked(pc["server"], "request", <<>>, <<Method("none")>>, loop = "idle")
    BY <1>1, <1>2, ServerGreets
  <1>4. Tail(in["up"]) = <<>> /\ ThenData(in["up"])
    BY <1>1, <1>2, <1>3, ShapeTail, ShapeWeaker
  <1>5. m \in Messages /\ m.kind # "data" /\ m # Reply("success")
    BY MessageTypes, Kinds
  <1>6. Linked(pc["server"], l, <<>>, <<m>>, loop = "idle")
    BY <1>3
  <1>7. l \in {"auth", "request"}
    OBVIOUS
  <1>. HIDE DEF k, m, l
  <1>8. /\ in' \in Queues /\ in'["up"] = <<>> /\ \A j \in Roles : j # "up" => in'[j] = in[j]
        /\ Quiet(in["up"], in'["up"]) /\ From(in'["up"], in["up"])
    BY <1>1, <1>4, FarTakesOne
  <1>9. /\ out' \in Queues /\ out'["up"] = <<m>> /\ \A j \in Roles : j # "up" => out'[j] = out[j]
        /\ Quiet(out["up"], out'["up"]) /\ FromOr(out'["up"], out["up"], m)
    BY <1>1, <1>3, <1>5, FarAnswersOne
  <1>10. shut' \subseteq Roles /\ l \in Labels \ {"off"}
    BY <1>1, <1>2, <1>7 DEF DialogueTypeOK, Labels, InDialogue
  <1>11. Linked(pc["server"], l, in'["up"], out'["up"], loop = "idle")
    BY <1>6, <1>8, <1>9
  <1>12. FarMoves(l, m)
    BY <1>1, <1>5, <1>7, <1>8, <1>9, <1>10, <1>11 DEF FarMoves
  <1>. QED
    BY <1>1, <1>8, <1>9, <1>12, FarQuiet

LEMMA FarAuthenticatesStep ==
  ASSUME DialogueInv, FarAuthenticates, loop' = loop
  PROVE  DialogueInv'
  <1>. DEFINE m == Status(TRUE)
  <1>1. /\ pc["up"] = "auth" /\ FarTakes("auth") /\ in["up"] # <<>>
        /\ out' = Put(out, "up", m) /\ pc' = [pc EXCEPT !["up"] = "request"]
        /\ UNCHANGED <<cfg, app, proved, hung, shut, late, dst, reached, told, data>>
    BY DEF FarAuthenticates, FarTakes, Holds, Goto
  <1>2. /\ DialogueTypeOK /\ in["up"] \in Seq(Messages) /\ out["up"] \in Seq(Messages)
        /\ Linked(pc["server"], "auth", in["up"], out["up"], loop = "idle")
    BY <1>1, UpLinked
  <1>3. /\ One(in["up"], "auth") /\ out["up"] = <<>>
        /\ Linked(pc["server"], "request", <<>>, <<m>>, loop = "idle")
    BY <1>1, <1>2, ServerAuthenticates
  <1>4. Tail(in["up"]) = <<>> /\ ThenData(in["up"])
    BY <1>1, <1>2, <1>3, ShapeTail, ShapeWeaker
  <1>5. m \in Messages /\ m.kind # "data" /\ m # Reply("success")
    BY DEF Messages, Status, Reply
  <1>. HIDE DEF m
  <1>6. /\ in' \in Queues /\ in'["up"] = <<>> /\ \A j \in Roles : j # "up" => in'[j] = in[j]
        /\ Quiet(in["up"], in'["up"]) /\ From(in'["up"], in["up"])
    BY <1>1, <1>4, FarTakesOne
  <1>7. /\ out' \in Queues /\ out'["up"] = <<m>> /\ \A j \in Roles : j # "up" => out'[j] = out[j]
        /\ Quiet(out["up"], out'["up"]) /\ FromOr(out'["up"], out["up"], m)
    BY <1>1, <1>3, <1>5, FarAnswersOne
  <1>8. shut' \subseteq Roles /\ "request" \in Labels \ {"off"}
    BY <1>1, <1>2 DEF DialogueTypeOK, Labels, InDialogue
  <1>9. Linked(pc["server"], "request", in'["up"], out'["up"], loop = "idle")
    BY <1>3, <1>6, <1>7
  <1>10. FarMoves("request", m)
    BY <1>1, <1>5, <1>6, <1>7, <1>8, <1>9 DEF FarMoves
  <1>. QED
    BY <1>1, <1>6, <1>7, <1>10, FarQuiet

LEMMA FarConnectsStep ==
  ASSUME DialogueInv, FarConnects, loop' = loop
  PROVE  DialogueInv'
  <1>. DEFINE h == Head(in["up"]).addr.host
  <1>1. /\ pc["up"] = "request" /\ FarTakes("request") /\ in["up"] # <<>>
        /\ Head(in["up"]).kind = "request"
        /\ UNCHANGED <<cfg, app, proved, hung, late, dst, told, data>>
    BY DEF FarConnects, FarTakes, Holds
  <1>2. /\ DialogueTypeOK /\ in["up"] \in Seq(Messages) /\ out["up"] \in Seq(Messages)
        /\ "up" \in Roles \ {First}
        /\ Linked(pc["server"], "request", in["up"], out["up"], loop = "idle")
    BY <1>1, UpLinked
  <1>3. Opens(in["up"], "request") /\ out["up"] = <<>>
        /\ \A rep : Linked(pc["server"], "over", Tail(in["up"]), <<Reply(rep)>>, loop = "idle")
    <2>1. Opens(in["up"], "request") /\ out["up"] = <<>>
      BY <1>1, <1>2 DEF Linked
    <2>2. \A rep : Linked(pc["server"], "over", Tail(in["up"]), <<Reply(rep)>>, loop = "idle")
      BY <1>1, <1>2, ServerAsked
    <2>. QED
      BY <2>1, <2>2
  <1>4. ThenData(in["up"])
        /\ Linked(pc["server"], "pipe", Tail(in["up"]), <<Reply("success")>>, loop = "idle")
    BY <1>1, <1>2, ServerReaches
  <1>5. dst[First] # None /\ h = Plain(dst[First].text)
    <2>1. Head(in["up"]) = in["up"][1] /\ 1 \in DOMAIN in["up"]
      BY <1>1, <1>2, HeadOf, Domains
    <2>2. /\ dst[First] # None
          /\ Head(in["up"]) = Request(TRUE, "connect", ConnectAddr(dst[First]))
      BY <1>1, <1>2, <2>1 DEF DialogueInv, OneRequest, PassesOnAsked
    <2>3. Proper(dst[First])
      BY <2>2 DEF DialogueInv, DialogueTypeOK, OneRequest, ServesAsked, Proper, First, Hops
    <2>4. Head(in["up"]).addr = ConnectAddr(dst[First])
      BY <2>2 DEF Request
    <2>. QED
      BY <2>2, <2>3, <2>4, ConnectAddrOf
  <1>6. h.text = dst[First].text
    BY <1>5 DEF Plain
  <1>7. \A rep \in {"success", "host"} : Reply(rep) \in Messages /\ Reply(rep).kind # "data"
    BY MessageTypes, Kinds DEF Reps
  <1>. HIDE DEF h
  <1>8. /\ in' \in Queues /\ in'["up"] = Tail(in["up"]) /\ \A j \in Roles : j # "up" => in'[j] = in[j]
        /\ Quiet(in["up"], in'["up"]) /\ From(in'["up"], in["up"])
    BY <1>1, <1>4, FarTakesOne
  <1>9. ASSUME NEW rep \in {"success", "host"}, out' = Put(out, "up", Reply(rep))
        PROVE  /\ out' \in Queues /\ out'["up"] = <<Reply(rep)>>
               /\ \A j \in Roles : j # "up" => out'[j] = out[j]
               /\ Quiet(out["up"], out'["up"]) /\ FromOr(out'["up"], out["up"], Reply(rep))
    BY <1>3, <1>7, <1>9, FarAnswersOne
  <1>10. "pipe" \in Labels \ {"off"} /\ "over" \in Labels \ {"off"}
    BY DEF Labels
  <1>11. CASE /\ reached' = h.text /\ out' = Put(out, "up", Reply("success"))
              /\ Goto("up", "pipe") /\ UNCHANGED shut
    <2>1. Promised'
      BY <1>1, <1>5, <1>6, <1>11 DEF Promised, First
    <2>2. Linked(pc["server"], "pipe", in'["up"], out'["up"], loop = "idle")
      BY <1>4, <1>8, <1>9, <1>11
    <2>3. shut' \subseteq Roles
      BY <1>2, <1>11 DEF DialogueTypeOK
    <2>4. FarMoves("pipe", Reply("success"))
      BY <1>1, <1>5, <1>6, <1>8, <1>9, <1>10, <1>11, <2>1, <2>2, <2>3 DEF FarMoves, Goto
    <2>. QED
      BY <1>1, <1>8, <1>9, <1>11, <2>4, FarQuiet
  <1>12. CASE /\ out' = Put(out, "up", Reply("host")) /\ Goto("up", "over")
              /\ shut' = shut \cup {"up"} /\ UNCHANGED reached
    <2>1. Reply("host") # Reply("success")
      BY Kinds
    <2>2. Linked(pc["server"], "over", in'["up"], out'["up"], loop = "idle")
      BY <1>3, <1>8, <1>9, <1>12
    <2>3. shut' \subseteq Roles
      BY <1>2, <1>12 DEF DialogueTypeOK
    <2>4. FarMoves("over", Reply("host"))
      BY <1>1, <1>8, <1>9, <1>10, <1>12, <2>1, <2>2, <2>3 DEF FarMoves, Goto
    <2>. QED
      BY <1>1, <1>8, <1>9, <1>12, <2>4, FarQuiet
  <1>. QED
    BY <1>11, <1>12 DEF FarConnects, h

LEMMA FarReachesStep ==
  ASSUME DialogueInv, FarReaches, loop' = loop
  PROVE  DialogueInv'
  <1>. DEFINE w == Head(in["up"]).addr
  <1>1. /\ pc["up"] = "target" /\ FarTakes("target") /\ in["up"] # <<>>
        /\ Head(in["up"]).kind = "target" /\ reached' = w.host.text
        /\ pc' = [pc EXCEPT !["up"] = "pipe"]
        /\ UNCHANGED <<cfg, app, proved, out, hung, shut, late, dst, told, data>>
    BY DEF FarReaches, FarTakes, Holds, Goto
  <1>2. /\ DialogueTypeOK /\ in["up"] \in Seq(Messages) /\ out["up"] \in Seq(Messages)
        /\ "up" \in Roles \ {First} /\ out \in Queues
        /\ Linked(pc["server"], "target", in["up"], out["up"], loop = "idle")
    BY <1>1, UpLinked
  <1>3. ThenData(in["up"]) /\ Linked(pc["server"], "pipe", Tail(in["up"]), out["up"], loop = "idle")
    BY <1>1, <1>2, ServerReaches
  <1>4. dst[First] # None /\ w.host.text = dst[First].text
    <2>1. Head(in["up"]) = in["up"][1] /\ 1 \in DOMAIN in["up"]
      BY <1>1, <1>2, HeadOf, Domains
    <2>2. dst[First] # None /\ w = EncodeTarget(dst[First])
      BY <1>1, <1>2, <2>1 DEF DialogueInv, OneRequest, PassesOnAsked
    <2>3. dst[First] \in Hosts
      BY <2>2 DEF DialogueInv, DialogueTypeOK, First, Hops
    <2>. QED
      BY <2>2, <2>3, EncodeTargetOf
  <1>. HIDE DEF w
  <1>5. /\ in' \in Queues /\ in'["up"] = Tail(in["up"]) /\ \A j \in Roles : j # "up" => in'[j] = in[j]
        /\ Quiet(in["up"], in'["up"]) /\ From(in'["up"], in["up"])
    BY <1>1, <1>3, FarTakesOne
  <1>6. "pipe" \in Labels \ {"off"} /\ shut' \subseteq Roles
    BY <1>1, <1>2 DEF Labels, DialogueTypeOK
  <1>7. Data(0) # Reply("success")
    BY Kinds
  <1>8. FromOr(out["up"], out["up"], Data(0))
    BY <1>2, Sources
  <1>9. FarMoves("pipe", Data(0))
    BY <1>1, <1>2, <1>3, <1>4, <1>5, <1>6, <1>7, <1>8 DEF FarMoves
  <1>. QED
    BY <1>1, <1>5, <1>9, Unchanged, FarQuiet

LEMMA FarSendsStep ==
  ASSUME DialogueInv, FarSends, loop' = loop
  PROVE  DialogueInv'
  <1>. DEFINE m == Data(sent["far"] + 1)
  <1>1. /\ pc["up"] = "pipe" /\ sent["far"] < MaxData["far"] /\ out' = Put(out, "up", m)
        /\ sent' = [sent EXCEPT !["far"] = sent["far"] + 1]
        /\ UNCHANGED <<cfg, app, proved, pc, in, hung, shut, late, dst, reached, told, got>>
    BY DEF FarSends
  <1>2. /\ DialogueTypeOK /\ in["up"] \in Seq(Messages) /\ out["up"] \in Seq(Messages)
        /\ "up" \in Roles /\ in \in Queues /\ out \in Queues
        /\ Linked(pc["server"], "pipe", in["up"], out["up"], loop = "idle")
    BY <1>1, UpLinked
  <1>3. m \in Messages /\ m.kind = "data" /\ m = Data(sent["far"] + 1) /\ m # Reply("success")
    BY NumberedTyped, MessageTypes, Kinds
  <1>. HIDE DEF m
  <1>4. /\ out' \in Queues /\ out'["up"] = Append(out["up"], m)
        /\ \A j \in Roles : j # "up" => out'[j] = out[j]
    BY <1>1, <1>2, <1>3, PutTo
  <1>5. Linked(pc["server"], "pipe", in'["up"], out'["up"], loop = "idle")
    <2>1. Linked(pc["server"], "pipe", in["up"], Append(out["up"], m), loop = "idle")
      BY <1>2, <1>3, ServerSends
    <2>. QED
      BY <2>1, <1>1, <1>4
  <1>6. From(in["up"], in["up"]) /\ FromOr(out'["up"], out["up"], m)
    BY <1>2, <1>3, <1>4, Sources
  <1>7. "pipe" \in Labels \ {"off"} /\ shut' \subseteq Roles /\ pc' = [pc EXCEPT !["up"] = "pipe"]
    BY <1>1, <1>2 DEF Labels, DialogueTypeOK
  <1>8. FarMoves("pipe", m)
    BY <1>1, <1>2, <1>3, <1>4, <1>5, <1>6, <1>7 DEF FarMoves
  <1>9. /\ sent' \in [Ends -> Nat] /\ got' \in [Ends -> Seq(Messages)]
        /\ sent'["far"] = sent["far"] + 1 /\ sent'["app"] = sent["app"]
    BY <1>1, <1>2 DEF DialogueTypeOK, Ends
  <1>10. \A e \in Ends : sent'[e] <= MaxData[e]
    <2>1. sent["far"] + 1 <= MaxData["far"]
      BY <1>1, NumberedTyped, DialogueAssumption DEF Ends
    <2>. QED
      BY <1>2, <1>9, <2>1 DEF DialogueTypeOK, Ends
  <1>11. NumberedThrough'
    <2>1. Chain(got["app"], out["relay"], out["server"], Append(out["up"], m), sent["far"] + 1)
      BY <1>3, NumberedTyped, ChainSent
    <2>2. out'["relay"] = out["relay"] /\ out'["server"] = out["server"]
      BY <1>4 DEF Roles, Hops
    <2>3. Chain(got["far"], in["up"], in["server"], in["relay"], sent["app"])
      BY NumberedTyped
    <2>. QED
      BY <1>1, <1>4, <1>9, <2>1, <2>2, <2>3 DEF NumberedThrough
  <1>. QED
    BY <1>8, <1>9, <1>10, <1>11, FarStep

LEMMA FarReceivesStep ==
  ASSUME DialogueInv, FarReceives, loop' = loop
  PROVE  DialogueInv'
  <1>1. /\ pc["up"] = "pipe" /\ in["up"] # <<>> /\ in' = Drop(in, "up")
        /\ got' = [got EXCEPT !["far"] = Append(got["far"], Head(in["up"]))]
        /\ UNCHANGED <<cfg, app, proved, pc, out, hung, shut, late, dst, reached, told, sent>>
    BY DEF FarReceives
  <1>2. /\ DialogueTypeOK /\ in["up"] \in Seq(Messages) /\ out["up"] \in Seq(Messages)
        /\ "up" \in Roles /\ in \in Queues /\ out \in Queues
        /\ Linked(pc["server"], "pipe", in["up"], out["up"], loop = "idle")
    BY <1>1, UpLinked
  <1>3. /\ in' \in Queues /\ in'["up"] = Tail(in["up"])
        /\ \A j \in Roles : j # "up" => in'[j] = in[j]
    BY <1>1, <1>2, DropFrom
  <1>4. in["up"][1].kind = "data"
        /\ Linked(pc["server"], "pipe", Tail(in["up"]), out["up"], loop = "idle")
    BY <1>1, <1>2, ServerReceives
  <1>5. Data(0) # Reply("success")
    BY Kinds
  <1>6. From(in'["up"], in["up"]) /\ FromOr(out["up"], out["up"], Data(0))
    BY <1>1, <1>2, <1>3, Sources
  <1>7. "pipe" \in Labels \ {"off"} /\ shut' \subseteq Roles /\ pc' = [pc EXCEPT !["up"] = "pipe"]
    BY <1>1, <1>2 DEF Labels, DialogueTypeOK
  <1>8. FarMoves("pipe", Data(0))
    BY <1>1, <1>2, <1>3, <1>4, <1>5, <1>6, <1>7 DEF FarMoves
  <1>9. Append(got["far"], Head(in["up"])) \in Seq(Messages)
    BY <1>1, <1>2, HeadOf, NumberedTyped, Appended
  <1>10. /\ sent' \in [Ends -> Nat] /\ got' \in [Ends -> Seq(Messages)]
         /\ \A e \in Ends : sent'[e] <= MaxData[e]
         /\ got'["far"] = Append(got["far"], Head(in["up"])) /\ got'["app"] = got["app"]
    BY <1>1, <1>2, <1>9 DEF DialogueTypeOK, Ends
  <1>11. NumberedThrough'
    <2>1. Chain(Append(got["far"], Head(in["up"])), Tail(in["up"]), in["server"], in["relay"], sent["app"])
      BY <1>1, <1>4, NumberedTyped, ChainReceived
    <2>2. in'["relay"] = in["relay"] /\ in'["server"] = in["server"]
      BY <1>3 DEF Roles, Hops
    <2>3. Chain(got["app"], out["relay"], out["server"], out["up"], sent["far"])
      BY NumberedTyped
    <2>. QED
      BY <1>1, <1>3, <1>10, <2>1, <2>2, <2>3 DEF NumberedThrough
  <1>. QED
    BY <1>8, <1>10, <1>11, FarStep

LEMMA FarNextStep ==
  ASSUME DialogueInv, Far, loop' = loop
  PROVE  DialogueInv'
  BY FarQuitsStep, FarGreetsStep, FarAuthenticatesStep, FarConnectsStep, FarReachesStep,
     FarSendsStep, FarReceivesStep DEF Far
-----------------------------------------------------------------------------
(* Steps of the association, and the passing of a deadline.                 *)
LEMMA IdleKept ==
  ASSUME LinksInStep, UNCHANGED <<cfg, app, pc, in, out>>, loop = "idle" <=> loop' = "idle"
  PROVE  LinksInStep'
  <1>1. \A l \in Roles : Asker(l)' = Asker(l)
    BY DEF Asker, First
  <1>2. ASSUME NEW l \in Roles
        PROVE  Linked(Asker(l), pc[l], in[l], out[l], loop' = "idle")
    <2>1. Linked(Asker(l), pc[l], in[l], out[l], loop = "idle")
      BY DEF LinksInStep
    <2>. QED
      BY <2>1 DEF Linked
  <1>. QED
    BY <1>1, <1>2 DEF LinksInStep

LEMMA StayedStep ==
  ASSUME DialogueInv, UNCHANGED <<cfg, app, proved, pc, links, dst, reached, told, data>>,
         late' \subseteq Hops, loop = "idle" <=> loop' = "idle"
  PROVE  DialogueInv'
  <1>1. /\ UNCHANGED <<in, out, hung, shut, sent, got>> /\ First' = First
        /\ DialogueTypeOK /\ LinksInStep /\ NumberedThrough /\ OneRequest /\ OneOutcome
        /\ SensitiveStaysDirect /\ AsksForUnlisted
    BY DEF DialogueInv, links, data, First
  <1>2. DialogueTypeOK'
    BY <1>1 DEF DialogueTypeOK
  <1>3. LinksInStep'
    BY <1>1, IdleKept
  <1>4. NumberedThrough'
    BY <1>1 DEF NumberedThrough
  <1>5. OneRequest'
    BY <1>1 DEF OneRequest, ServesAsked, RelaysNoUdp, PassesOnAsked
  <1>6. OneOutcome'
    BY <1>1 DEF OneOutcome, Promised
  <1>7. SensitiveStaysDirect' /\ AsksForUnlisted'
    BY <1>1 DEF SensitiveStaysDirect, AsksForUnlisted
  <1>. QED
    BY <1>2, <1>3, <1>4, <1>5, <1>6, <1>7 DEF DialogueInv

LEMMA ExpireStep ==
  ASSUME DialogueInv, NEW r \in Hops, Expire(r), loop' = loop
  PROVE  DialogueInv'
  <1>1. late' \subseteq Hops
    BY DEF Expire, DialogueInv, DialogueTypeOK
  <1>. QED
    BY <1>1, StayedStep DEF Expire

LEMMA CutOffStep ==
  ASSUME DialogueInv, NEW r \in Hops, CutOff(r), loop' = loop
  PROVE  DialogueInv'
  <1>1. /\ LeaveSilently(r) /\ pc[r] \notin {"off", "target", "over"}
        /\ UNCHANGED <<cfg, app, proved, in, late, dst, reached, told, data>>
    BY DEF CutOff
  <1>. QED
    BY <1>1, SilentStep

(* The one link that knows of the association.                              *)
LEMMA ListenLinks ==
  ASSUME LinksInStep, RelaysNoUdp, pc["server"] = "udp", loop = "idle", loop' # "idle",
         UNCHANGED <<cfg, app, pc, in>>,
         \A j \in Roles : j # "server" => out'[j] = out[j],
         out'["server"] = out["server"] \/ One(out'["server"], "reply")
  PROVE  LinksInStep'
  <1>1. First = "server" /\ \A l \in Roles : Asker(l)' = Asker(l)
    BY DEF RelaysNoUdp, Asker, First
  <1>2. Linked(Asker("server"), "udp", in["server"], out["server"], loop = "idle")
    BY DEF LinksInStep, Roles, Hops
  <1>3. AllData(in["server"]) /\ out["server"] = <<>> /\ Asker("server") \in {"reply"} \cup Gone
    BY <1>2 DEF Linked
  <1>4. Linked(Asker("server"), "udp", in["server"], out'["server"], loop' = "idle")
    BY <1>3 DEF Linked, Gone
  <1>5. ASSUME NEW j \in Roles, j # "server"
        PROVE  Linked(Asker(j), pc[j], in[j], out[j], loop' = "idle")
    <2>1. Linked(Asker(j), pc[j], in[j], out[j], loop = "idle")
      BY DEF LinksInStep
    <2>2. pc[j] # "udp"
      <3>1. CASE j = "relay"
        BY <3>1 DEF RelaysNoUdp
      <3>2. CASE j = "up"
        <4>1. Asker(j) = "udp"
          BY <3>2, <1>1 DEF Asker
        <4>. QED
          BY <4>1, <2>1 DEF Linked, Gone
      <3>. QED
        BY <3>1, <3>2, <1>5 DEF Roles, Hops
    <2>. QED
      BY <2>1, <2>2 DEF Linked
  <1>. QED
    BY <1>1, <1>4, <1>5 DEF LinksInStep

LEMMA ListenStep ==
  ASSUME DialogueInv, Listen
  PROVE  DialogueInv'
  <1>1. /\ pc["server"] = "udp" /\ loop = "idle" /\ loop' # "idle"
        /\ UNCHANGED <<cfg, app, proved, pc, in, hung, shut, late, dst, reached, told, data>>
    BY DEF Listen
  <1>2. /\ DialogueTypeOK /\ LinksInStep /\ NumberedThrough /\ RelaysNoUdp
        /\ in \in Queues /\ out \in Queues /\ "server" \in Roles
    BY QueuesTyped DEF DialogueInv, OneRequest, Roles, Hops
  <1>3. First = "server"
    BY <1>1, <1>2 DEF RelaysNoUdp, First
  <1>4. out["server"] = <<>>
    <2>1. Linked(app, "udp", in["server"], out["server"], loop = "idle")
      BY <1>1, <1>3, FirstLinked
    <2>. QED
      BY <2>1, <1>1 DEF Linked, Gone
  <1>5. \/ out' = out
        \/ \E m \in Messages : m.kind = "reply" /\ out' = Put(out, "server", m)
    <2>1. Reply("success") \in Messages /\ Reply("general") \in Messages
          /\ Reply("success").kind = "reply" /\ Reply("general").kind = "reply"
      BY MessageTypes, Kinds DEF Reps
    <2>. QED
      BY <2>1 DEF Listen
  <1>6. /\ out' \in Queues /\ \A j \in Roles : j # "server" => out'[j] = out[j]
        /\ out'["server"] = out["server"] \/ One(out'["server"], "reply")
        /\ Quiet(out["server"], out'["server"])
    <2>1. CASE out' = out
      BY <2>1, <1>2, Unchanged
    <2>2. ASSUME NEW m \in Messages, m.kind = "reply", out' = Put(out, "server", m)
          PROVE  /\ out' \in Queues /\ \A j \in Roles : j # "server" => out'[j] = out[j]
                 /\ One(out'["server"], "reply") /\ Quiet(out["server"], out'["server"])
      <3>1. /\ out' \in Queues /\ out'["server"] = Append(out["server"], m)
            /\ \A j \in Roles : j # "server" => out'[j] = out[j]
        BY <1>2, <2>2, PutTo
      <3>2. out'["server"] = <<m>> /\ One(<<m>>, "reply")
        BY <3>1, <1>4, <2>2, ShapeFirst
      <3>3. Quiet(out["server"], <<m>>)
        BY <1>4, <2>2, Asked1
      <3>. QED
        BY <3>1, <3>2, <3>3
    <2>. QED
      BY <2>1, <2>2, <1>5
  <1>7. LinksInStep'
    BY <1>1, <1>2, <1>6, ListenLinks
  <1>8. NumberedThrough'
    <2>1. \A j \in Roles : Quiet(in[j], in'[j]) /\ Quiet(out[j], out'[j])
      BY <1>1, <1>6, Unchanged
    <2>. QED
      BY <2>1, <1>1, <1>2, QuietStep
  <1>9. DialogueTypeOK'
    BY <1>1, <1>2, <1>6, TypeStay DEF DialogueTypeOK, data
  <1>10. OneRequest' /\ OneOutcome' /\ SensitiveStaysDirect' /\ AsksForUnlisted'
    <2>1. \A k \in Roles \ {First} : in'[k] = in[k] /\ out'[k] = out[k]
      BY <1>1, <1>3, <1>6
    <2>2. \A k \in Roles \ {First} :
            FromOr(in'[k], in[k], Data(0)) /\ FromOr(out'[k], out[k], Data(0))
      BY <2>1, <1>2, QueuesTyped, Sources
    <2>3. Data(0).kind = "data"
      BY Kinds
    <2>. QED
      BY <2>2, <2>3, <1>1, HandlersStay
  <1>. QED
    BY <1>7, <1>8, <1>9, <1>10 DEF DialogueInv

LEMMA UdpStep ==
  ASSUME DialogueInv, UdpNext
  PROVE  DialogueInv'
  <1>1. CASE Listen
    BY <1>1, ListenStep
  <1>2. CASE Return
    <2>1. /\ LeaveSilently("server") /\ pc["server"] \notin {"off", "target", "over"}
          /\ UNCHANGED <<cfg, app, proved, in, late, dst, reached, told, data, loop>>
      BY <1>2 DEF Return, udpVars
    <2>. QED
      BY <2>1, SilentStep DEF Hops
  <1>3. CASE DialogueStays /\ loop # "idle" /\ loop' # "idle"
    <2>1. /\ UNCHANGED <<cfg, app, proved, pc, links, dst, reached, told, data>>
          /\ late' \subseteq Hops
      BY <1>3 DEF DialogueStays, dialogueVars, DialogueInv, DialogueTypeOK
    <2>. QED
      BY <1>3, <2>1, StayedStep
  <1>4. CASE DialogueStays /\ loop' = loop
    <2>1. /\ UNCHANGED <<cfg, app, proved, pc, links, dst, reached, told, data>>
          /\ late' \subseteq Hops
      BY <1>4 DEF DialogueStays, dialogueVars, DialogueInv, DialogueTypeOK
    <2>. QED
      BY <1>4, <2>1, StayedStep
  <1>5. Check \/ Receive \/ ReceiveFails \/ DialPeer \/ Forward
          => DialogueStays /\ loop # "idle" /\ loop' # "idle"
    BY DEF Check, Receive, ReceiveFails, DialPeer, Forward
  <1>6. ControlEnds \/ (\E p \in Peers : PassBack(p) \/ PassingEnds(p))
          => DialogueStays /\ loop' = loop
    BY DEF ControlEnds, PassBack, PassingEnds
  <1>. QED
    BY <1>1, <1>2, <1>3, <1>4, <1>5, <1>6 DEF UdpNext, Loop
-----------------------------------------------------------------------------
LEMMA InitDialogueInv == Init => DialogueInv
  <1>. SUFFICES ASSUME Init PROVE DialogueInv
    OBVIOUS
  <1>1. /\ cfg \in [token : BOOLEAN, owoss : BOOLEAN, relay : BOOLEAN]
        /\ app = "start" /\ proved = FALSE
        /\ pc = [r \in Roles |-> IF r = First THEN "greet" ELSE "off"]
        /\ in = [r \in Roles |-> <<>>] /\ out = [r \in Roles |-> <<>>]
        /\ hung = {} /\ shut = {} /\ late = {} /\ dst = [r \in Hops |-> None]
        /\ reached = None /\ told = "nothing"
        /\ sent = [e \in Ends |-> 0] /\ got = [e \in Ends |-> <<>>] /\ loop = "idle"
    BY DEF Init, DialogueInit
  <1>2. <<>> \in Seq(Messages) /\ DOMAIN <<>> = {} /\ Len(<<>>) = 0
    OBVIOUS
  <1>3. First \in Hops /\ First \in Roles /\ First # "up"
    BY DEF First, Hops, Roles
  <1>4. \A r \in Roles : in[r] = <<>> /\ out[r] = <<>> /\ pc[r] = IF r = First THEN "greet" ELSE "off"
    BY <1>1
  <1>5. DialogueTypeOK
    <2>1. pc \in [Roles -> InDialogue \cup {"off", "target", "pipe", "udp", "over"}]
      BY <1>1 DEF InDialogue
    <2>2. in \in [Roles -> Seq(Messages)] /\ out \in [Roles -> Seq(Messages)]
          /\ got \in [Ends -> Seq(Messages)]
      BY <1>1, <1>2
    <2>3. sent \in [Ends -> Nat] /\ \A e \in Ends : sent[e] <= MaxData[e]
      BY <1>1, DialogueAssumption
    <2>. QED
      BY <1>1, <2>1, <2>2, <2>3 DEF DialogueTypeOK
  <1>6. LinksInStep
    <2>1. ASSUME NEW l \in Roles PROVE Linked(Asker(l), pc[l], <<>>, <<>>, loop = "idle")
      <3>1. CASE l = First
        <4>1. Asker(l) = "start" /\ pc[l] = "greet"
          BY <3>1, <1>1, <1>4 DEF Asker, First
        <4>. QED
          BY <4>1 DEF Linked
      <3>2. CASE l # First
        <4>1. pc[l] = "off"
          BY <3>2, <1>4
        <4>2. Asker(l) \in {"off", "greet"}
          BY <3>2, <1>3, <1>4 DEF Asker, Roles, Hops, First
        <4>. QED
          BY <4>1, <4>2 DEF Linked
      <3>. QED
        BY <3>1, <3>2
    <2>. QED
      BY <2>1, <1>4 DEF LinksInStep
  <1>7. NumberedThrough
    <2>1. Chain(<<>>, <<>>, <<>>, <<>>, 0)
      BY <1>2, Nothing DEF Chain
    <2>2. /\ got["far"] = <<>> /\ got["app"] = <<>> /\ sent["far"] = 0 /\ sent["app"] = 0
          /\ \A r \in {"up", "server", "relay"} : in[r] = <<>> /\ out[r] = <<>>
      BY <1>1, <1>4 DEF Ends, Roles, Hops
    <2>. QED
      BY <2>1, <2>2 DEF NumberedThrough
  <1>8. OneRequest
    <2>1. \A r \in Hops : dst[r] = None /\ pc[r] \in {"greet", "off"}
      BY <1>1, <1>4 DEF Roles
    <2>2. ServesAsked
      BY <2>1 DEF ServesAsked, Serving
    <2>3. RelaysNoUdp
      BY <2>1 DEF RelaysNoUdp, Hops
    <2>4. PassesOnAsked
      BY <1>2, <1>4 DEF PassesOnAsked
    <2>. QED
      BY <2>2, <2>3, <2>4 DEF OneRequest
  <1>9. OneOutcome
    <2>1. \A r \in Hops : pc[r] \notin {"tell", "pipe"}
      BY <1>4 DEF Roles
    <2>. QED
      BY <2>1, <1>1, <1>2, <1>4 DEF OneOutcome
  <1>10. SensitiveStaysDirect /\ AsksForUnlisted
    <2>1. dst[First] = None /\ pc["server"] \in {"greet", "off"}
      BY <1>1, <1>3, <1>4 DEF Roles, Hops
    <2>. QED
      BY <2>1 DEF SensitiveStaysDirect, AsksForUnlisted
  <1>. QED
    BY <1>5, <1>6, <1>7, <1>8, <1>9, <1>10 DEF DialogueInv

LEMMA NextDialogueInv == DialogueInv /\ [Next]_vars => DialogueInv'
  <1>. SUFFICES ASSUME DialogueInv, [Next]_vars PROVE DialogueInv'
    OBVIOUS
  <1>1. CASE UNCHANGED vars
    <2>1. /\ UNCHANGED <<cfg, app, proved, pc, links, dst, reached, told, data>>
          /\ late' \subseteq Hops /\ loop' = loop
      BY <1>1 DEF vars, dialogueVars, udpVars, DialogueInv, DialogueTypeOK
    <2>. QED
      BY <2>1, StayedStep
  <1>2. CASE DialogueNext /\ loop' = loop
    BY <1>2, ClientStep, FarNextStep, HandlerStep, ExpireStep, CutOffStep DEF DialogueNext
  <1>3. CASE UdpNext
    BY <1>3, UdpStep
  <1>. QED
    BY <1>1, <1>2, <1>3 DEF Next, udpVars

(* The invariant of the dialogue: of every link both sides are where what   *)
(* is on it says, its data are numbered through from end to end, and there  *)
(* is one request and one outcome of it, for any addresses, any lists and   *)
(* any amount of data.                                                      *)
THEOREM DialogueInvariant == Spec => []DialogueInv
  BY InitDialogueInv, NextDialogueInv, PTL DEF Spec
-----------------------------------------------------------------------------
LEMMA CallerAsks ==
  ASSUME DialogueInv, NEW r \in Roles, out[r] # <<>>
  PROVE  Caller(r) = Asker(r)
  <1>. DEFINE c == CHOOSE h \in Hops : NextHop[h] = r
  <1>1. CASE r = First
    BY <1>1 DEF Caller, Asker, First
  <1>2. CASE r = "up"
    <2>1. r # First
      BY <1>2 DEF First
    <2>2. "server" \in Hops /\ \A h \in Hops : NextHop[h] = r <=> h = "server"
      BY <1>2 DEF NextHop, Hops
    <2>3. c \in Hops /\ NextHop[c] = r
      BY <2>2
    <2>4. c = "server"
      BY <2>2, <2>3
    <2>. QED
      <3>1. Caller(r) = pc[c]
        BY <2>1 DEF Caller
      <3>2. Asker(r) = pc["server"]
        BY <1>2, <2>1 DEF Asker
      <3>. QED
        BY <2>4, <3>1, <3>2
  <1>3. CASE r = "server" /\ cfg.relay
    <2>1. r # First
      BY <1>3 DEF First
    <2>2. "relay" \in Hops /\ \A h \in Hops : NextHop[h] = r <=> h = "relay"
      BY <1>3 DEF NextHop, Hops
    <2>3. c \in Hops /\ NextHop[c] = r
      BY <2>2
    <2>4. c = "relay"
      BY <2>2, <2>3
    <2>. QED
      <3>1. Caller(r) = pc[c]
        BY <2>1 DEF Caller
      <3>2. Asker(r) = pc["relay"]
        BY <1>3, <2>1 DEF Asker
      <3>. QED
        BY <2>4, <3>1, <3>2
  <1>4. CASE r = "relay" /\ ~cfg.relay
    BY <1>4, NoRelay
  <1>. QED
    BY <1>1, <1>2, <1>3, <1>4 DEF First, Roles, Hops

(* On a link whose sides are in step the next message is the one its reader *)
(* waits for.                                                               *)
ServedInTurn(s, q) ==
    q # <<>> /\ s \notin {"over", "udp"}
      => q[1].kind = Awaited(s, {"greet", "auth", "request", "target"})

AnsweredInTurn(c, a) ==
    a # <<>> /\ c \notin {"over", "quit"}
      => a[1].kind = Awaited(c, {"method", "status", "reply"})

LEMMA InStepOf ==
  ASSUME NEW c, NEW s \in Labels, NEW q \in Seq(Messages), NEW a \in Seq(Messages),
         NEW idle, Linked(c, s, q, a, idle)
  PROVE  ServedInTurn(s, q) /\ AnsweredInTurn(c, a)
  <1>1. \A kind : /\ One(q, kind) => q # <<>> /\ q[1].kind = kind
                  /\ One(a, kind) => a # <<>> /\ a[1].kind = kind
    BY Domains DEF One
  <1>2. \A kind : /\ Opens(q, kind) => q # <<>> /\ q[1].kind = kind
                  /\ Opens(a, kind) => a # <<>> /\ a[1].kind = kind
    BY DEF Opens
  <1>3. /\ q # <<>> /\ AllData(q) => q[1].kind = "data"
        /\ a # <<>> /\ AllData(a) => a[1].kind = "data"
    BY Domains DEF AllData
  <1>4. Success(a) => a[1].kind = "reply"
    BY Kinds DEF Success
  <1>5. /\ \A m : a = <<Method(m)>> => a[1].kind = "method"
        /\ \A ok : a = <<Status(ok)>> => a[1].kind = "status"
    BY Kinds
  <1>6. s = "off" \/ s = "greet" \/ s = "auth" \/ s = "request" \/ s = "target" \/ s = "pipe"
        \/ s = "udp" \/ s = "over" \/ s \in {"dial", "method", "status", "reply", "tell"}
    BY DEF Labels, InDialogue
  <1>7. q # <<>> /\ s \notin {"over", "udp"}
          => q[1].kind = Awaited(s, {"greet", "auth", "request", "target"})
    <2>1. CASE s = "off" \/ s = "greet" \/ s = "auth"
      BY <2>1, <1>1 DEF Linked, Awaited
    <2>2. CASE s = "request" \/ s = "target"
      BY <2>2, <1>2 DEF Linked, Awaited
    <2>3. CASE s = "pipe" \/ s \in {"dial", "method", "status", "reply", "tell"}
      BY <2>3, <1>3 DEF Linked, Awaited
    <2>. QED
      BY <1>6, <2>1, <2>2, <2>3
  <1>8. a # <<>> /\ c \notin {"over", "quit"}
          => a[1].kind = Awaited(c, {"method", "status", "reply"})
    <2>1. CASE s = "off" \/ s = "greet" \/ s \in {"dial", "method", "status", "reply", "tell"}
               \/ s = "target"
      BY <2>1 DEF Linked
    <2>2. CASE s = "auth"
      BY <2>2, <1>5 DEF Linked, Awaited, Gone
    <2>3. CASE s = "request"
      BY <2>3, <1>5 DEF Linked, Awaited, Gone
    <2>4. CASE s = "pipe"
      BY <2>4, <1>3, <1>4 DEF Linked, Awaited, Gone
    <2>5. CASE s = "udp"
      BY <2>5, <1>1 DEF Linked, Awaited, Gone
    <2>6. CASE s = "over"
      BY <2>6, <1>1, <1>2, <1>3 DEF Linked, Awaited, Gone
    <2>. QED
      BY <1>6, <2>1, <2>2, <2>3, <2>4, <2>5, <2>6
  <1>. QED
    BY <1>7, <1>8 DEF ServedInTurn, AnsweredInTurn

(* Nobody takes data for a message of the dialogue or a message for data.   *)
THEOREM EverybodyInStep == Spec => []InStep
  <1>1. ASSUME DialogueInv PROVE InStep
    <2>1. ASSUME NEW r \in Roles
          PROVE  /\ in[r] # <<>> /\ pc[r] \notin {"over", "udp"}
                      => Head(in[r]).kind = Awaited(pc[r], {"greet", "auth", "request", "target"})
                 /\ out[r] # <<>> /\ Caller(r) \notin {"over", "quit"}
                      => Head(out[r]).kind = Awaited(Caller(r), {"method", "status", "reply"})
      <3>1. /\ in[r] \in Seq(Messages) /\ out[r] \in Seq(Messages) /\ pc[r] \in Labels
            /\ Linked(Asker(r), pc[r], in[r], out[r], loop = "idle")
        BY <1>1, QueuesTyped DEF DialogueInv, DialogueTypeOK, Labels, LinksInStep
      <3>2. /\ in[r] # <<>> => Head(in[r]) = in[r][1]
            /\ out[r] # <<>> => Head(out[r]) = out[r][1] /\ Caller(r) = Asker(r)
        BY <1>1, <3>1, HeadOf, CallerAsks
      <3>3. /\ in[r] # <<>> /\ pc[r] \notin {"over", "udp"}
                 => in[r][1].kind = Awaited(pc[r], {"greet", "auth", "request", "target"})
            /\ out[r] # <<>> /\ Asker(r) \notin {"over", "quit"}
                 => out[r][1].kind = Awaited(Asker(r), {"method", "status", "reply"})
        <4>1. ServedInTurn(pc[r], in[r])
          BY <3>1, InStepOf
        <4>2. AnsweredInTurn(Asker(r), out[r])
          BY <3>1, InStepOf
        <4>. QED
          BY <4>1, <4>2 DEF ServedInTurn, AnsweredInTurn
      <3>4. in[r] # <<>> /\ pc[r] \notin {"over", "udp"}
              => Head(in[r]).kind = Awaited(pc[r], {"greet", "auth", "request", "target"})
        BY <3>2, <3>3
      <3>5. out[r] # <<>> /\ Caller(r) \notin {"over", "quit"}
              => Head(out[r]).kind = Awaited(Caller(r), {"method", "status", "reply"})
        BY <3>2, <3>3
      <3>. QED
        BY <3>4, <3>5
    <2>. QED
      BY <2>1 DEF InStep
  <1>. QED
    BY <1>1, DialogueInvariant, PTL

(* Each end receives what the other one sent, from its first byte and in    *)
(* order, through one hop or both.                                          *)
THEOREM PayloadArrivesInOrder == Spec => []PayloadInOrder
  <1>1. ASSUME NEW g \in Seq(Messages), NEW x \in Seq(Messages), NEW y \in Seq(Messages),
               NEW z \in Seq(Messages), NEW n \in Nat, Chain(g, x, y, z, n)
        PROVE  \A i \in DOMAIN g : g[i] = Data(i) /\ i <= n
    <2>1. Load(x) \in Nat /\ Load(y) \in Nat /\ Load(z) \in Nat
      BY LeadType
    <2>2. DOMAIN g = 1..Len(g) /\ Len(g) \in Nat
      BY Domains
    <2>3. n = Len(g) + Load(x) + Load(y) + Load(z) /\ \A i \in DOMAIN g : g[i] = Data(i)
      BY <1>1 DEF Chain
    <2>. QED
      BY <2>1, <2>2, <2>3
  <1>2. ASSUME DialogueInv PROVE PayloadInOrder
    BY <1>1, <1>2, NumberedTyped DEF PayloadInOrder
  <1>. QED
    BY <1>2, DialogueInvariant, PTL

(* A listed host is reached past naive and OwOSS.                           *)
THEOREM ListedStaysDirect == Spec => []SensitiveStaysDirect
  <1>1. DialogueInv => SensitiveStaysDirect
    BY DEF DialogueInv
  <1>. QED
    BY <1>1, DialogueInvariant, PTL

(* Every hop asks the next one for the address its client asked for.        *)
THEOREM AddressesArePassedOn == Spec => []AddressesPassOn
  <1>1. ASSUME DialogueInv PROVE AddressesPassOn
    <2>1. ASSUME NEW r \in Roles \ {First}, NEW i \in DOMAIN in[r], in[r][i].kind = "request"
          PROVE  in[r][i].addr.host = Plain(dst[First].text)
      <3>1. dst[First] # None /\ in[r][i] = Request(TRUE, "connect", ConnectAddr(dst[First]))
        BY <1>1, <2>1 DEF DialogueInv, OneRequest, PassesOnAsked
      <3>2. First \in Hops /\ ServesAsked /\ dst[First] \in Hosts
        BY <1>1, <3>1 DEF DialogueInv, OneRequest, DialogueTypeOK, First, Hops
      <3>3. Proper(dst[First])
        BY <3>1, <3>2 DEF ServesAsked, Proper
      <3>4. ConnectAddr(dst[First]).host = Plain(dst[First].text)
        BY <3>3, ConnectAddrOf
      <3>. QED
        BY <3>1, <3>4 DEF Request
    <2>. QED
      BY <2>1 DEF AddressesPassOn
  <1>. QED
    BY <1>1, DialogueInvariant, PTL
-----------------------------------------------------------------------------
(* Each step of the chain is a step of the gateway, or none.                *)
GatewayStep == [AsGateway!Next]_AsGateway!vars

AsksSame == cfg' = cfg /\ dst'[First] = dst[First]

LEMMA SameAsked ==
  ASSUME AsksSame
  PROVE  /\ First' = First /\ Asked' = Asked
         /\ (dst[First] # None /\ cfg.owoss /\ ~Listed(dst[First].text))'
              = (dst[First] # None /\ cfg.owoss /\ ~Listed(dst[First].text))
  BY DEF AsksSame, First, Asked

LEMMA GatewayStutters ==
  ASSUME AsksSame, UNCHANGED <<proved, reached, told>>
  PROVE  GatewayStep
  <1>1. UNCHANGED AsGateway!vars
    BY SameAsked DEF AsksSame, AsGateway!vars
  <1>. QED
    BY <1>1 DEF GatewayStep

LEMMA GatewayShows ==
  ASSUME AsksSame, proved' = TRUE, UNCHANGED <<reached, told>>
  PROVE  GatewayStep
  <1>1. AsGateway!Show
    BY SameAsked DEF AsksSame, AsGateway!Show
  <1>. QED
    BY <1>1 DEF GatewayStep, AsGateway!Next

LEMMA GatewayRefuses ==
  ASSUME AsksSame, told = "nothing", told' = "failure", UNCHANGED <<proved, reached>>
  PROVE  GatewayStep
  <1>1. AsGateway!Refuse
    BY SameAsked DEF AsksSame, AsGateway!Refuse
  <1>. QED
    BY <1>1 DEF GatewayStep, AsGateway!Next

LEMMA AskedText ==
  ASSUME dst[First] # None
  PROVE  Asked = dst[First].text
  BY DEF Asked

LEMMA TextIsSome ==
  ASSUME NEW h \in Hosts
  PROVE  h # None /\ h.text \in Texts /\ h.text # None
  BY DialogueAssumption DEF Hosts

LEMMA GatewayAccepts ==
  ASSUME AsksSame, Promised, dst[First] \in Hosts, told = "nothing", told' = "success",
         UNCHANGED <<proved, reached>>
  PROVE  GatewayStep
  <1>1. Asked = dst[First].text /\ Asked # None
    BY AskedText, TextIsSome DEF Promised
  <1>2. reached = Asked \/ (dst[First] # None /\ cfg.owoss /\ ~Listed(dst[First].text))
    BY <1>1 DEF Promised
  <1>3. AsGateway!Accept
    BY <1>1, <1>2, SameAsked DEF AsksSame, AsGateway!Accept
  <1>. QED
    BY <1>3 DEF GatewayStep, AsGateway!Next

LEMMA GatewayReaches ==
  ASSUME AsksSame, dst[First] \in Hosts, reached = None, reached' = dst[First].text,
         UNCHANGED <<proved, told>>
  PROVE  GatewayStep
  <1>1. Asked = dst[First].text /\ Asked # None
    BY AskedText, TextIsSome
  <1>2. AsGateway!Reach
    BY <1>1, SameAsked DEF AsksSame, AsGateway!Reach
  <1>. QED
    BY <1>2 DEF GatewayStep, AsGateway!Next

LEMMA GatewayAsks ==
  ASSUME cfg' = cfg, dst[First] = None, dst'[First] \in Hosts, told = "nothing",
         cfg.token => proved, UNCHANGED <<proved, reached, told>>
  PROVE  GatewayStep
  <1>1. First' = First
    BY DEF First
  <1>2. Asked = None /\ Asked' = dst'[First].text /\ Asked' \in Texts
    BY <1>1, TextIsSome DEF Asked
  <1>3. AsGateway!Ask
    BY <1>2 DEF AsGateway!Ask
  <1>. QED
    BY <1>3 DEF GatewayStep, AsGateway!Next

(* Before the data phase nothing has been told.                             *)
LEMMA NothingTold ==
  ASSUME DialogueInv, pc[First] \notin {"pipe", "over"}
  PROVE  told = "nothing"
  BY DEF DialogueInv, OneOutcome

LEMMA FailIsGateway ==
  ASSUME DialogueInv, NEW r \in Hops, NEW rep, Fail(r, rep), pc[r] \notin {"pipe", "over"}
  PROVE  GatewayStep
  <1>1. AsksSame /\ UNCHANGED <<proved, reached>>
    BY DEF Fail, AsksSame
  <1>2. told' = told \/ (r = First /\ told' = "failure")
    BY DEF Fail, Tell
  <1>. QED
    BY <1>1, <1>2, NothingTold, GatewayStutters, GatewayRefuses

LEMMA ReadRequestIsGateway ==
  ASSUME DialogueInv, Unproved, NEW r \in Hops, ReadRequest(r)
  PROVE  GatewayStep
  <1>. DEFINE q == Head(in[r])
              no == Refusal(r, q)
  <1>1. /\ pc[r] = "request" /\ in[r] # <<>> /\ q.kind = "request" /\ q \in Messages
        /\ UNCHANGED <<cfg, proved, reached>>
    BY HopLinked, HeadOf DEF ReadRequest, Takes, Holds
  <1>2. ASSUME dst' = dst, told' = told PROVE GatewayStep
    BY <1>1, <1>2, GatewayStutters DEF AsksSame
  <1>3. ASSUME dst' = dst, Tell(r, "failure") PROVE GatewayStep
    <2>1. told' = told \/ (r = First /\ told' = "failure")
      BY <1>3 DEF Tell
    <2>. QED
      BY <1>1, <1>3, <2>1, NothingTold, GatewayStutters, GatewayRefuses DEF AsksSame
  <1>4. ASSUME no = "none", q.cmd = "connect", dst' = [dst EXCEPT ![r] = ReadHost(q.addr)], told' = told
        PROVE  GatewayStep
    <2>1. DialogueTypeOK /\ First \in Hops
      BY FirstLinked
    <2>2. CASE r # First
      <3>1. dst'[First] = dst[First]
        BY <1>4, <2>1, <2>2 DEF DialogueTypeOK
      <3>. QED
        BY <1>1, <1>4, <3>1, GatewayStutters DEF AsksSame
    <2>3. CASE r = First
      <3>1. q.addr \in WireAddrs
        <4>1. q.addr # BadAtyp
          BY <1>4 DEF Refusal, Commands
        <4>. QED
          BY <1>1, <1>4, <4>1, MessageFields
      <3>2. dst'[First] \in Hosts
        BY <1>4, <2>1, <2>3, <3>1, ReadHostOf DEF DialogueTypeOK, Proper
      <3>3. dst[First] = None
        BY <1>1, <2>3 DEF DialogueInv, OneRequest, ServesAsked, Waiting
      <3>4. cfg.token => proved
        BY <1>1, <2>3 DEF Unproved, NotBegun
      <3>5. told = "nothing"
        BY <1>1, <2>3, NothingTold
      <3>. QED
        BY <1>1, <1>4, <3>2, <3>3, <3>4, <3>5, GatewayAsks
    <2>. QED
      BY <2>2, <2>3
  <1>. QED
    BY <1>2, <1>3, <1>4 DEF ReadRequest

LEMMA DialIsGateway ==
  ASSUME DialogueInv, NEW r \in Hops, Dial(r)
  PROVE  GatewayStep
  <1>1. CASE DialHop(r) \/ DialOwoss(r)
    BY <1>1, GatewayStutters DEF DialHop, DialOwoss, Dialled, AsksSame
  <1>2. CASE DialDirect(r)
    <2>1. /\ pc[r] = "dial" /\ r = "server" /\ reached' = dst[r].text
          /\ AsksSame /\ UNCHANGED <<proved, told>>
      BY <1>2 DEF DialDirect, Dialled, AsksSame
    <2>2. Proper(dst[r]) /\ dst[r] = dst[First] /\ pc[NextHop[r]] = "off"
      BY <2>1, DialFacts
    <2>3. reached = None
      BY <2>1, <2>2 DEF DialogueInv, OneOutcome, NextHop
    <2>. QED
      BY <2>1, <2>2, <2>3, GatewayReaches DEF Proper
  <1>3. CASE DialFails(r)
    <2>1. pc[r] \notin {"pipe", "over"} /\ \E rep : Fail(r, rep)
      BY <1>3 DEF DialFails
    <2>. QED
      BY <2>1, FailIsGateway
  <1>. QED
    BY <1>1, <1>2, <1>3 DEF Dial

LEMMA ConnectIsGateway ==
  ASSUME DialogueInv, NEW r \in Hops, Connect(r)
  PROVE  GatewayStep
  <1>1. CASE ConnectFails(r)
    <2>1. pc[r] \notin {"pipe", "over"} /\ \E rep : Fail(r, rep)
      BY <1>1 DEF ConnectFails
    <2>. QED
      BY <2>1, FailIsGateway
  <1>2. CASE ConnectMethod(r) \/ ConnectStatus(r) \/ ConnectReply(r)
    BY <1>2, GatewayStutters
    DEF ConnectMethod, ConnectStatus, ConnectReply, Advances, AsksSame
  <1>. QED
    BY <1>1, <1>2 DEF Connect

LEMMA TellSuccessIsGateway ==
  ASSUME DialogueInv, NEW r \in Hops, TellSuccess(r)
  PROVE  GatewayStep
  <1>1. pc[r] = "tell" /\ AsksSame /\ UNCHANGED <<proved, reached>>
    BY DEF TellSuccess, AsksSame
  <1>2. told' = told \/ (r = First /\ told' = "success")
    BY DEF TellSuccess, Tell
  <1>3. CASE r = First /\ told' = "success"
    <2>1. Promised /\ told = "nothing"
      BY <1>1, <1>3, NothingTold DEF DialogueInv, OneOutcome
    <2>2. dst[First] \in Hosts
      BY <2>1, <1>3 DEF Promised, DialogueInv, DialogueTypeOK
    <2>. QED
      BY <1>1, <1>3, <2>1, <2>2, GatewayAccepts
  <1>. QED
    BY <1>1, <1>2, <1>3, GatewayStutters

LEMMA HandlerIsGateway ==
  ASSUME DialogueInv, Unproved, NEW r \in Hops, Handler(r)
  PROVE  GatewayStep
  <1>1. CASE Greet(r) \/ ReadFails(r) \/ PipeUp(r) \/ PipeDown(r) \/ PipeEnds(r)
    BY <1>1, GatewayStutters DEF Greet, ReadFails, PipeUp, PipeDown, PipeEnds, AsksSame
  <1>2. CASE Authenticate(r)
    <2>1. AsksSame /\ UNCHANGED <<reached, told>> /\ (proved' = proved \/ proved' = TRUE)
      BY <1>2 DEF Authenticate, AsksSame, Unproved
    <2>. QED
      BY <2>1, GatewayStutters, GatewayShows
  <1>. QED
    BY <1>1, <1>2, ReadRequestIsGateway, DialIsGateway, ConnectIsGateway, TellSuccessIsGateway
    DEF Handler, Handshake

(* The host the far side is asked for is the one the client asked for.      *)
LEMMA FarIsGateway ==
  ASSUME DialogueInv, Far
  PROVE  GatewayStep
  <1>. DEFINE m == Head(in["up"])
  <1>1. CASE FarQuits \/ FarGreets \/ FarAuthenticates \/ FarSends \/ FarReceives
    BY <1>1, GatewayStutters
    DEF FarQuits, FarGreets, FarAuthenticates, FarSends, FarReceives, AsksSame
  <1>2. ASSUME in["up"] # <<>>, pc["up"] \in {"request", "target"}, m.kind \in {"request", "target"},
               AsksSame, UNCHANGED <<proved, told>>, reached' = reached \/ reached' = m.addr.host.text
        PROVE  GatewayStep
    <2>1. in["up"] \in Seq(Messages) /\ "up" \in Roles \ {First}
      BY UpLinked
    <2>2. m = in["up"][1] /\ 1 \in DOMAIN in["up"]
      BY <1>2, <2>1, HeadOf, Domains
    <2>3. /\ dst[First] # None
          /\ m.kind = "request" => m = Request(TRUE, "connect", ConnectAddr(dst[First]))
          /\ m.kind = "target" => m.addr = EncodeTarget(dst[First])
      BY <1>2, <2>1, <2>2 DEF DialogueInv, OneRequest, PassesOnAsked
    <2>4. Proper(dst[First])
      BY <2>3 DEF DialogueInv, DialogueTypeOK, OneRequest, ServesAsked, Proper, First, Hops
    <2>5. m.addr.host.text = dst[First].text
      <3>1. CASE m.kind = "request"
        <4>1. m.addr = ConnectAddr(dst[First])
          BY <2>3, <3>1 DEF Request
        <4>2. Plain(dst[First].text).text = dst[First].text
          BY DEF Plain
        <4>. QED
          BY <2>4, <4>1, <4>2, ConnectAddrOf
      <3>2. CASE m.kind = "target"
        BY <2>3, <2>4, <3>2, EncodeTargetOf DEF Proper
      <3>. QED
        BY <3>1, <3>2, <1>2
    <2>6. reached = None
      BY <1>2 DEF DialogueInv, OneOutcome
    <2>. QED
      BY <1>2, <2>4, <2>5, <2>6, GatewayStutters, GatewayReaches DEF Proper
  <1>3. CASE FarConnects
    BY <1>2, <1>3 DEF FarConnects, FarTakes, Holds, AsksSame
  <1>4. CASE FarReaches
    BY <1>2, <1>4 DEF FarReaches, FarTakes, Holds, AsksSame
  <1>. QED
    BY <1>1, <1>3, <1>4 DEF Far

LEMMA NextIsGateway == DialogueInv /\ Unproved /\ [Next]_vars => GatewayStep
  <1>. SUFFICES ASSUME DialogueInv, Unproved, [Next]_vars PROVE GatewayStep
    OBVIOUS
  <1>1. CASE UNCHANGED vars
    BY <1>1, GatewayStutters DEF vars, dialogueVars, AsksSame
  <1>2. CASE Client
    BY <1>2, GatewayStutters
    DEF Client, AppGreets, AppAuthenticates, AppRequests, AppOpens, AppSends, AppReceives,
        AppHangsUp, AsksSame
  <1>3. ASSUME NEW r \in Hops, Expire(r) \/ CutOff(r) PROVE GatewayStep
    BY <1>3, GatewayStutters DEF Expire, CutOff, AsksSame
  <1>4. CASE UdpNext
    <2>1. CASE Listen \/ Return
      BY <2>1, GatewayStutters DEF Listen, Return, AsksSame
    <2>2. CASE DialogueStays
      BY <2>2, GatewayStutters DEF DialogueStays, dialogueVars, AsksSame
    <2>3. UdpNext => Listen \/ Return \/ DialogueStays
      BY DEF UdpNext, Loop, Check, Receive, ReceiveFails, DialPeer, Forward, ControlEnds,
             PassBack, PassingEnds
    <2>. QED
      BY <1>4, <2>1, <2>2, <2>3
  <1>. QED
    BY <1>1, <1>2, <1>3, <1>4, HandlerIsGateway, FarIsGateway DEF Next, DialogueNext

LEMMA InitIsGateway == Init => AsGateway!Init
  BY DEF Init, DialogueInit, AsGateway!Init, Asked, First, Hops

(* To its client the chain is a gateway: nothing is contacted but what was  *)
(* asked for by one who has shown the token, and success is told once, of a *)
(* destination that was reached, unless the route is OwOSS.                 *)
THEOREM ChainIsGateway == Spec => IsGateway
  <1>1. DialogueInv /\ Unproved /\ [Next]_vars => [AsGateway!Next]_AsGateway!vars
    BY NextIsGateway DEF GatewayStep
  <1>2. Spec => []Unproved
    BY InitUnproved, NextUnproved, PTL DEF Spec
  <1>. QED
    BY <1>1, <1>2, InitIsGateway, DialogueInvariant, PTL DEF Spec, IsGateway, AsGateway!Spec
=============================================================================
