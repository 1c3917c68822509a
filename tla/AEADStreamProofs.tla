-------------------------- MODULE AEADStreamProofs --------------------------
(* The encrypted stream is safe, and a byte stream in each direction, for   *)
(* every size of chunks, buffers and writes.                                *)
EXTENDS AEADStream, SequenceTheorems, TLAPS

(* What an Append and a Tail leave where.                                   *)
LEMMA AppendAt ==
  ASSUME NEW S, NEW s \in Seq(S), NEW x \in S
  PROVE  /\ Append(s, x) \in Seq(S)
         /\ Len(Append(s, x)) = Len(s) + 1 /\ DOMAIN Append(s, x) = 1 .. Len(s) + 1
         /\ \A i \in 1 .. Len(s) : Append(s, x)[i] = s[i]
         /\ Append(s, x)[Len(s) + 1] = x
  BY AppendProperties, LenProperties

LEMMA TailAt ==
  ASSUME NEW S, NEW s \in Seq(S), s # <<>>
  PROVE  /\ Tail(s) \in Seq(S) /\ Len(s) \in Nat \ {0} /\ DOMAIN s = 1 .. Len(s)
         /\ Len(Tail(s)) = Len(s) - 1 /\ DOMAIN Tail(s) = 1 .. Len(s) - 1
         /\ \A i \in 1 .. Len(s) - 1 : Tail(s)[i] = s[i + 1]
         /\ Head(s) = s[1] /\ Head(s) \in S
  BY HeadTailProperties, LenProperties, EmptySeq

(* Lengths and payloads alternate.                                          *)
LEMMA KindNext ==
  ASSUME NEW k \in Nat
  PROVE  /\ k % 2 \in {0, 1} /\ (k + 1) % 2 = 1 - (k % 2) /\ (k + 2) % 2 = k % 2
         /\ Kind(k) = "salt" <=> k = 0
         /\ Kind(k) = "len" <=> k % 2 = 1
         /\ Kind(k + 1) = "len" <=> k % 2 = 0
         /\ Kind(k + 1) = "payload" <=> k % 2 = 1
  BY DEF Kind

LEMMA WireAt ==
  ASSUME TypeOK, NEW d \in Dirs
  PROVE  /\ wire[d] \in Seq(Item) /\ Len(wire[d]) \in Nat /\ DOMAIN wire[d] = 1 .. Len(wire[d])
         /\ \A i \in DOMAIN wire[d] : /\ wire[d][i] \in Item
                                      /\ Len(wire[d][i].bytes) \in Nat
                                      /\ DOMAIN wire[d][i].bytes = 1 .. Len(wire[d][i].bytes)
                                      /\ wire[d][i].n \in Nat
  <1>1. wire[d] \in Seq(Item)
    BY DEF TypeOK
  <1>2. Len(wire[d]) \in Nat /\ DOMAIN wire[d] = 1 .. Len(wire[d])
    BY <1>1, LenProperties
  <1>3. ASSUME NEW i \in DOMAIN wire[d]
        PROVE  wire[d][i] \in Item
    BY <1>1, <1>2, ElementOfSeq
  <1>4. ASSUME NEW i \in DOMAIN wire[d]
        PROVE  /\ Len(wire[d][i].bytes) \in Nat
               /\ DOMAIN wire[d][i].bytes = 1 .. Len(wire[d][i].bytes)
               /\ wire[d][i].n \in Nat
    BY <1>3, LenProperties DEF Item
  <1>. QED
    BY <1>1, <1>2, <1>3, <1>4
-----------------------------------------------------------------------------
(* A direction that does not move keeps its invariant.                      *)
Still(d) ==
    /\ wire'[d] = wire[d] /\ writer'[d] = writer[d] /\ written'[d] = written[d]
    /\ rest'[d] = rest[d] /\ writeNonce'[d] = writeNonce[d]
    /\ reader'[d] = reader[d] /\ readNonce'[d] = readNonce[d] /\ expect'[d] = expect[d]
    /\ readBuf'[d] = readBuf[d] /\ delivered'[d] = delivered[d]

LEMMA StillKeeps ==
  ASSUME NEW d \in Dirs, DirInv(d), Still(d)
  PROVE  DirInv(d)'
  <1>1. Numbered(d)'
    BY DEF DirInv, Still, Numbered, NextWritten, NextRead
  <1>2. Counters(d)' /\ Rests(d)' /\ InOrder(d)'
    BY DEF DirInv, Still, Counters, Rests, InOrder
  <1>3. Sized(d)'
    BY DEF DirInv, Still, Sized, ChunkSize
  <1>4. Offsets(d)'
    BY DEF DirInv, Still, Offsets
  <1>. QED
    BY <1>1, <1>2, <1>3, <1>4 DEF DirInv

(* An item is put on the wire.                                              *)
LEMMA OffsetsPut ==
  ASSUME NEW items \in Seq(Item), NEW from, NEW to \in Nat, BytesFromTo(items, from, to),
         NEW item \in Item, \A j \in DOMAIN item.bytes : item.bytes[j] = to + j
  PROVE  BytesFromTo(Append(items, item), from, to + Len(item.bytes))
  <1>. DEFINE L == Len(items)
              m == to + Len(item.bytes)
              more == Append(items, item)
  <1>1. L \in Nat /\ DOMAIN items = 1 .. L
    BY LenProperties
  <1>2. /\ Len(more) = L + 1 /\ DOMAIN more = 1 .. L + 1
        /\ \A i \in 1 .. L : more[i] = items[i]
        /\ more[L + 1] = item
    BY AppendAt
  <1>3. m \in Nat /\ to <= m
    BY LenProperties DEF Item
  <1>4. PICK at \in [1 .. Len(items) + 1 -> 0 .. to] : Cuts(at, items, from, to)
    BY DEF BytesFromTo
  <1>5. /\ at \in [1 .. L + 1 -> 0 .. to]
        /\ at[1] = from /\ at[L + 1] = to
        /\ \A i \in 1 .. L :
             /\ at[i + 1] = at[i] + Len(items[i].bytes)
             /\ \A j \in DOMAIN items[i].bytes : items[i].bytes[j] = at[i] + j
    BY <1>1, <1>4 DEF Cuts
  <1>. DEFINE at2 == [k \in 1 .. Len(more) + 1 |-> IF k = L + 2 THEN m ELSE at[k]]
  <1>6. at2 \in [1 .. Len(more) + 1 -> 0 .. m]
    BY <1>1, <1>2, <1>3, <1>5
  <1>7. at2[L + 2] = m /\ \A k \in 1 .. L + 1 : at2[k] = at[k]
    BY <1>1, <1>2
  <1>. HIDE DEF at2, m, more, L
  <1>8. ASSUME NEW i \in 1 .. L
        PROVE  /\ at2[i + 1] = at2[i] + Len(more[i].bytes)
               /\ \A j \in DOMAIN more[i].bytes : more[i].bytes[j] = at2[i] + j
    <2>1. i \in 1 .. L + 1 /\ i + 1 \in 1 .. L + 1
      BY <1>1
    <2>2. at2[i] = at[i] /\ at2[i + 1] = at[i + 1] /\ more[i] = items[i]
      BY <1>2, <1>7, <2>1
    <2>. QED
      BY <1>5, <2>2
  <1>9. /\ at2[L + 2] = at2[L + 1] + Len(more[L + 1].bytes)
        /\ \A j \in DOMAIN more[L + 1].bytes : more[L + 1].bytes[j] = at2[L + 1] + j
    BY <1>1, <1>2, <1>5, <1>7 DEF m
  <1>10. Cuts(at2, more, from, m)
    <2>1. at2[1] = from /\ at2[Len(more) + 1] = m
      BY <1>1, <1>2, <1>5, <1>7
    <2>2. ASSUME NEW i \in DOMAIN more
          PROVE  /\ at2[i + 1] = at2[i] + Len(more[i].bytes)
                 /\ \A j \in DOMAIN more[i].bytes : more[i].bytes[j] = at2[i] + j
      <3>1. i \in 1 .. L \/ i = L + 1
        BY <1>1, <1>2
      <3>2. L + 1 + 1 = L + 2
        BY <1>1
      <3>. QED
        BY <1>8, <1>9, <3>1, <3>2
    <2>. QED
      BY <2>1, <2>2 DEF Cuts
  <1>11. BytesFromTo(more, from, m)
    BY <1>6, <1>10 DEF BytesFromTo
  <1>. QED
    BY <1>11 DEF more, m

(* An item is taken from it.                                                *)
LEMMA OffsetsTake ==
  ASSUME NEW items \in Seq(Item), items # <<>>, NEW from, NEW to \in Nat,
         BytesFromTo(items, from, to)
  PROVE  /\ BytesFromTo(Tail(items), from + Len(items[1].bytes), to)
         /\ \A j \in DOMAIN items[1].bytes : items[1].bytes[j] = from + j
         /\ from + Len(items[1].bytes) <= to
  <1>. DEFINE L == Len(items)
              less == Tail(items)
              f == from + Len(items[1].bytes)
  <1>1. /\ L \in Nat \ {0} /\ DOMAIN items = 1 .. L
        /\ Len(less) = L - 1 /\ DOMAIN less = 1 .. L - 1
        /\ \A i \in 1 .. L - 1 : less[i] = items[i + 1]
    BY TailAt
  <1>2. PICK at \in [1 .. Len(items) + 1 -> 0 .. to] : Cuts(at, items, from, to)
    BY DEF BytesFromTo
  <1>3. /\ at \in [1 .. L + 1 -> 0 .. to]
        /\ at[1] = from /\ at[L + 1] = to
        /\ \A i \in 1 .. L :
             /\ at[i + 1] = at[i] + Len(items[i].bytes)
             /\ \A j \in DOMAIN items[i].bytes : items[i].bytes[j] = at[i] + j
    BY <1>1, <1>2 DEF Cuts
  <1>. DEFINE at2 == [k \in 1 .. Len(less) + 1 |-> at[k + 1]]
  <1>4. at2 \in [1 .. Len(less) + 1 -> 0 .. to]
    BY <1>1, <1>3
  <1>5. \A k \in 1 .. L : at2[k] = at[k + 1]
    BY <1>1
  <1>. HIDE DEF at2, less, L
  <1>6. at2[1] = f /\ at2[Len(less) + 1] = to
    BY <1>1, <1>3, <1>5
  <1>7. ASSUME NEW i \in DOMAIN less
        PROVE  /\ at2[i + 1] = at2[i] + Len(less[i].bytes)
               /\ \A j \in DOMAIN less[i].bytes : less[i].bytes[j] = at2[i] + j
    <2>1. i \in 1 .. L /\ i + 1 \in 1 .. L /\ i \in 1 .. L - 1
      BY <1>1
    <2>2. at2[i] = at[i + 1] /\ at2[i + 1] = at[i + 1 + 1] /\ less[i] = items[i + 1]
      BY <1>1, <1>5, <2>1
    <2>. QED
      BY <1>3, <2>1, <2>2
  <1>. HIDE DEF f
  <1>8. Cuts(at2, less, f, to)
    BY <1>6, <1>7 DEF Cuts
  <1>9. BytesFromTo(less, f, to)
    BY <1>4, <1>8 DEF BytesFromTo
  <1>10. /\ \A j \in DOMAIN items[1].bytes : items[1].bytes[j] = from + j
         /\ f <= to
    <2>1. 1 \in 1 .. L /\ 2 \in 1 .. L + 1
      BY <1>1
    <2>. QED
      BY <1>3, <2>1 DEF f
  <1>. QED
    BY <1>9, <1>10 DEF less, f

LEMMA NumberedPut ==
  ASSUME NEW items \in Seq(Item), NEW b \in Nat, NumberedFrom(items, b),
         NEW item \in Item, Is(item, b + Len(items))
  PROVE  NumberedFrom(Append(items, item), b)
  <1>1. Len(items) \in Nat /\ DOMAIN items = 1 .. Len(items)
    BY LenProperties
  <1>2. \A i \in 1 .. Len(items) + 1 : i \in 1 .. Len(items) \/ i = Len(items) + 1
    BY <1>1
  <1>3. b + (Len(items) + 1) - 1 = b + Len(items)
    BY <1>1
  <1>. QED
    BY <1>1, <1>2, <1>3, AppendAt DEF NumberedFrom

LEMMA NumberedTake ==
  ASSUME NEW items \in Seq(Item), items # <<>>, NEW b \in Nat, NumberedFrom(items, b)
  PROVE  NumberedFrom(Tail(items), b + 1) /\ Is(items[1], b)
  <1>1. /\ Len(items) \in Nat \ {0} /\ DOMAIN items = 1 .. Len(items)
        /\ DOMAIN Tail(items) = 1 .. Len(items) - 1
        /\ \A i \in 1 .. Len(items) - 1 : Tail(items)[i] = items[i + 1]
    BY TailAt
  <1>2. ASSUME NEW i \in DOMAIN Tail(items)
        PROVE  Is(Tail(items)[i], b + 1 + i - 1)
    <2>1. i + 1 \in DOMAIN items /\ b + (i + 1) - 1 = b + 1 + i - 1 /\ Tail(items)[i] = items[i + 1]
      BY <1>1
    <2>. QED
      BY <2>1 DEF NumberedFrom
  <1>3. 1 \in DOMAIN items /\ b + 1 - 1 = b
    BY <1>1
  <1>. QED
    BY <1>2, <1>3 DEF NumberedFrom
-----------------------------------------------------------------------------
(* What Put and Take do to the wire.                                        *)
LEMMA PutAt ==
  ASSUME TypeOK, NEW d \in Dirs, NEW item \in Item, Put(d, item)
  PROVE  /\ wire' \in [Dirs -> Seq(Item)] /\ wire'[d] = Append(wire[d], item)
         /\ \A e \in Dirs \ {d} : wire'[e] = wire[e]
         /\ Len(wire'[d]) = Len(wire[d]) + 1 /\ DOMAIN wire'[d] = 1 .. Len(wire[d]) + 1
         /\ \A i \in 1 .. Len(wire[d]) : wire'[d][i] = wire[d][i]
         /\ wire'[d][Len(wire[d]) + 1] = item /\ wire'[d] # <<>>
         /\ wire[d] = <<>> <=> Len(wire[d]) = 0
  <1>1. wire[d] \in Seq(Item) /\ wire'[d] = Append(wire[d], item)
        /\ \A e \in Dirs \ {d} : wire'[e] = wire[e]
    BY DEF TypeOK, Put
  <1>2. /\ Append(wire[d], item) \in Seq(Item)
        /\ Len(wire'[d]) = Len(wire[d]) + 1 /\ DOMAIN wire'[d] = 1 .. Len(wire[d]) + 1
        /\ \A i \in 1 .. Len(wire[d]) : wire'[d][i] = wire[d][i]
        /\ wire'[d][Len(wire[d]) + 1] = item
    BY <1>1, AppendAt
  <1>3. wire' \in [Dirs -> Seq(Item)]
    BY <1>2 DEF TypeOK, Put
  <1>4. wire[d] = <<>> <=> Len(wire[d]) = 0
    BY <1>1, EmptySeq
  <1>5. wire'[d] # <<>>
    BY <1>1, AppendProperties
  <1>. QED
    BY <1>1, <1>2, <1>3, <1>4, <1>5

LEMMA TakeAt ==
  ASSUME TypeOK, NEW d \in Dirs, wire[d] # <<>>, Take(d)
  PROVE  /\ wire' \in [Dirs -> Seq(Item)] /\ wire'[d] = Tail(wire[d])
         /\ \A e \in Dirs \ {d} : wire'[e] = wire[e]
         /\ Len(wire[d]) \in Nat \ {0} /\ DOMAIN wire[d] = 1 .. Len(wire[d])
         /\ Len(wire'[d]) = Len(wire[d]) - 1 /\ DOMAIN wire'[d] = 1 .. Len(wire[d]) - 1
         /\ \A i \in 1 .. Len(wire[d]) - 1 : wire'[d][i] = wire[d][i + 1]
         /\ Head(wire[d]) = wire[d][1] /\ wire[d][1] \in Item
         /\ wire'[d] = <<>> <=> Len(wire[d]) = 1
  <1>1. wire[d] \in Seq(Item) /\ wire'[d] = Tail(wire[d])
        /\ \A e \in Dirs \ {d} : wire'[e] = wire[e]
    BY DEF TypeOK, Take
  <1>2. /\ Tail(wire[d]) \in Seq(Item)
        /\ Len(wire[d]) \in Nat \ {0} /\ DOMAIN wire[d] = 1 .. Len(wire[d])
        /\ Len(wire'[d]) = Len(wire[d]) - 1 /\ DOMAIN wire'[d] = 1 .. Len(wire[d]) - 1
        /\ \A i \in 1 .. Len(wire[d]) - 1 : wire'[d][i] = wire[d][i + 1]
        /\ Head(wire[d]) = wire[d][1] /\ wire[d][1] \in Item
    BY <1>1, TailAt
  <1>3. wire' \in [Dirs -> Seq(Item)]
    BY <1>2 DEF TypeOK, Take
  <1>4. wire'[d] = <<>> <=> Len(wire[d]) = 1
    <2>1. wire'[d] \in Seq(Item)
      BY <1>1, <1>2
    <2>2. wire'[d] = <<>> <=> Len(wire'[d]) = 0
      BY <2>1, EmptySeq
    <2>. QED
      BY <1>2, <2>2
  <1>. QED
    BY <1>1, <1>2, <1>3, <1>4

(* What Deliver hands out and keeps goes on where delivered ended.          *)
LEMMA DeliverAt ==
  ASSUME NEW del \in Seq(Nat), NEW buf \in Seq(Nat),
         \A i \in DOMAIN del : del[i] = i,
         \A i \in DOMAIN buf : buf[i] = Len(del) + i
  PROVE  LET n == Least(ReadSize, Len(buf))
             out == del \o SubSeq(buf, 1, n)
             kept == SubSeq(buf, n + 1, Len(buf))
         IN  /\ out \in Seq(Nat) /\ kept \in Seq(Nat)
             /\ Len(out) + Len(kept) = Len(del) + Len(buf)
             /\ Len(out) = Len(del) + n
             /\ \A i \in DOMAIN out : out[i] = i
             /\ \A i \in DOMAIN kept : kept[i] = Len(out) + i
  <1>. DEFINE n == Least(ReadSize, Len(buf))
              out == del \o SubSeq(buf, 1, n)
              kept == SubSeq(buf, n + 1, Len(buf))
  <1>1. /\ Len(del) \in Nat /\ DOMAIN del = 1 .. Len(del)
        /\ Len(buf) \in Nat /\ DOMAIN buf = 1 .. Len(buf)
        /\ \A i \in 1 .. Len(buf) : buf[i] \in Nat
    BY LenProperties
  <1>2. n \in 0 .. Len(buf)
    BY <1>1, AEADAssumption DEF Least
  <1>. HIDE DEF n
  <1>3. /\ SubSeq(buf, 1, n) \in Seq(Nat) /\ Len(SubSeq(buf, 1, n)) = n
        /\ \A i \in 1 .. n : SubSeq(buf, 1, n)[i] = buf[i]
    <2>1. \A i \in 1 .. n : buf[i] \in Nat
      BY <1>1, <1>2
    <2>2. /\ SubSeq(buf, 1, n) \in Seq(Nat)
          /\ Len(SubSeq(buf, 1, n)) = IF 1 <= n THEN n - 1 + 1 ELSE 0
          /\ \A i \in 1 .. n - 1 + 1 : SubSeq(buf, 1, n)[i] = buf[1 + i - 1]
      BY <1>2, <2>1, SubSeqProperties
    <2>. QED
      BY <1>2, <2>2
  <1>4. /\ kept \in Seq(Nat) /\ Len(kept) = Len(buf) - n
        /\ \A i \in 1 .. Len(buf) - n : kept[i] = buf[n + i]
    <2>1. \A i \in n + 1 .. Len(buf) : buf[i] \in Nat
      BY <1>1, <1>2
    <2>2. /\ kept \in Seq(Nat)
          /\ Len(kept) = IF n + 1 <= Len(buf) THEN Len(buf) - (n + 1) + 1 ELSE 0
          /\ \A i \in 1 .. Len(buf) - (n + 1) + 1 : kept[i] = buf[n + 1 + i - 1]
      BY <1>1, <1>2, <2>1, SubSeqProperties
    <2>. HIDE DEF kept
    <2>3. /\ (IF n + 1 <= Len(buf) THEN Len(buf) - (n + 1) + 1 ELSE 0) = Len(buf) - n
          /\ Len(buf) - (n + 1) + 1 = Len(buf) - n
          /\ \A i \in 1 .. Len(buf) - n : n + 1 + i - 1 = n + i
      <3>1. \A m \in Nat : \A k \in 0 .. m :
              /\ (IF k + 1 <= m THEN m - (k + 1) + 1 ELSE 0) = m - k
              /\ m - (k + 1) + 1 = m - k
              /\ \A i \in 1 .. m - k : k + 1 + i - 1 = k + i
        OBVIOUS
      <3>. QED
        BY <1>1, <1>2, <3>1
    <2>. QED
      BY <2>2, <2>3
  <1>5. /\ out \in Seq(Nat) /\ Len(out) = Len(del) + n
        /\ \A i \in 1 .. Len(del) + n :
             out[i] = IF i <= Len(del) THEN del[i] ELSE SubSeq(buf, 1, n)[i - Len(del)]
    BY <1>3, ConcatProperties
  <1>. HIDE DEF out, kept
  <1>6. ASSUME NEW i \in DOMAIN out PROVE out[i] = i
    <2>1. i \in 1 .. Len(del) + n
      BY <1>5, LenProperties
    <2>2. CASE i <= Len(del)
      BY <1>1, <1>5, <2>1, <2>2
    <2>3. CASE i > Len(del)
      <3>1. i - Len(del) \in 1 .. n /\ i - Len(del) \in 1 .. Len(buf)
        BY <1>1, <1>2, <2>1, <2>3
      <3>2. out[i] = SubSeq(buf, 1, n)[i - Len(del)]
        <4>1. ~(i <= Len(del))
          BY <1>1, <1>2, <2>1, <2>3
        <4>. QED
          BY <1>5, <2>1, <4>1
      <3>3. out[i] = buf[i - Len(del)]
        BY <1>3, <3>1, <3>2
      <3>4. buf[i - Len(del)] = Len(del) + (i - Len(del))
        BY <1>1, <3>1
      <3>. QED
        BY <1>1, <2>1, <3>3, <3>4
    <2>. QED
      BY <1>1, <2>1, <2>2, <2>3
  <1>7. ASSUME NEW i \in DOMAIN kept PROVE kept[i] = Len(out) + i
    <2>0. DOMAIN kept = 1 .. Len(buf) - n
      BY <1>4, LenProperties
    <2>1. i \in 1 .. Len(buf) - n /\ n + i \in 1 .. Len(buf)
      BY <1>1, <1>2, <2>0
    <2>2. kept[i] = buf[n + i] /\ buf[n + i] = Len(del) + (n + i)
      BY <1>1, <1>4, <2>1
    <2>. QED
      BY <1>1, <1>2, <1>5, <2>1, <2>2
  <1>8. Len(out) + Len(kept) = Len(del) + Len(buf)
    BY <1>1, <1>2, <1>4, <1>5
  <1>. QED
    BY <1>4, <1>5, <1>6, <1>7, <1>8 DEF n, out, kept
-----------------------------------------------------------------------------
(* The writer's steps.                                                      *)
LEMMA WriteSaltKeeps ==
  ASSUME TypeOK, NEW d \in Dirs, DirInv(d), WriteSalt(d)
  PROVE  TypeOK' /\ DirInv(d)'
  <1>. DEFINE salt == [kind |-> "salt", nonce |-> 0, bytes |-> <<>>, n |-> 0]
  <1>1. /\ salt \in Item /\ salt.kind = "salt" /\ salt.bytes = <<>> /\ Len(salt.bytes) = 0
        /\ DOMAIN salt.bytes = {}
    BY EmptySeq DEF Item
  <1>2. /\ writer[d] = "salt" /\ writer' = [writer EXCEPT ![d] = "idle"] /\ Put(d, salt)
        /\ UNCHANGED <<alive, written, rest, writeNonce, reader, readNonce, expect, readBuf, delivered>>
    BY DEF WriteSalt, WriterAt, rvars
  <1>. HIDE DEF salt
  <1>3. /\ wire' \in [Dirs -> Seq(Item)] /\ wire'[d] = Append(wire[d], salt)
        /\ Len(wire'[d]) = Len(wire[d]) + 1 /\ DOMAIN wire'[d] = 1 .. Len(wire[d]) + 1
        /\ wire'[d][Len(wire[d]) + 1] = salt /\ wire'[d] # <<>>
        /\ wire[d] = <<>> <=> Len(wire[d]) = 0
    BY <1>1, <1>2, PutAt
  <1>4. TypeOK'
    BY <1>2, <1>3 DEF TypeOK
  <1>5. wire[d] \in Seq(Item) /\ Len(wire[d]) \in Nat /\ writer'[d] = "idle"
    BY <1>2, LenProperties DEF TypeOK
  <1>6. PICK b \in 0 .. writeNonce[d] + 1 :
          /\ NumberedFrom(wire[d], b)
          /\ b + Len(wire[d]) = NextWritten(d)
          /\ reader[d] # "failed" => b = NextRead(d)
    BY <1>2 DEF DirInv, Numbered
  <1>7. writeNonce[d] = 0 /\ b = 0 /\ Len(wire[d]) = 0
    BY <1>2, <1>5, <1>6 DEF DirInv, Counters, NextWritten
  <1>8. Numbered(d)'
    <2>1. Is(salt, b + Len(wire[d]))
      BY <1>1, <1>7 DEF Is, Kind
    <2>2. NumberedFrom(wire'[d], b)
      BY <1>1, <1>3, <1>5, <1>6, <2>1, NumberedPut
    <2>3. NextWritten(d)' = 1 /\ NextRead(d)' = NextRead(d)
      BY <1>2, <1>5, <1>7 DEF NextWritten, NextRead
    <2>. QED
      BY <1>2, <1>3, <1>6, <1>7, <2>2, <2>3 DEF Numbered
  <1>9. Counters(d)' /\ Rests(d)' /\ InOrder(d)'
    BY <1>2, <1>5, <1>7 DEF DirInv, Counters, Rests, InOrder
  <1>10. Sized(d)'
    <2>1. reader[d] # "payload"
      BY <1>6, <1>7 DEF DirInv, Counters, NextRead, TypeOK
    <2>. QED
      BY <1>1, <1>2, <1>3, <1>5, <1>7, <2>1 DEF Sized
  <1>11. Offsets(d)'
    <2>1. written[d] - rest[d] \in Nat
      BY DEF DirInv, Rests, TypeOK
    <2>2. BytesFromTo(wire'[d], Len(delivered[d]) + Len(readBuf[d]), written[d] - rest[d] + 0)
      BY <1>1, <1>3, <1>5, <2>1, OffsetsPut DEF DirInv, Offsets
    <2>3. written[d] - rest[d] + 0 = written'[d] - rest'[d]
      BY <1>2, <2>1
    <2>. QED
      BY <1>2, <2>2, <2>3 DEF Offsets
  <1>. QED
    BY <1>4, <1>8, <1>9, <1>10, <1>11 DEF DirInv

LEMMA WriteKeeps ==
  ASSUME TypeOK, NEW d \in Dirs, DirInv(d), Write(d)
  PROVE  TypeOK' /\ DirInv(d)'
  <1>1. PICK n \in 1 .. MaxWrite :
          /\ written' = [written EXCEPT ![d] = @ + n]
          /\ rest' = [rest EXCEPT ![d] = n]
    BY DEF Write
  <1>2. /\ writer[d] = "idle" /\ writer' = [writer EXCEPT ![d] = "chunk"]
        /\ UNCHANGED <<alive, wire, writeNonce, reader, readNonce, expect, readBuf, delivered>>
    BY DEF Write, WriterAt, rvars
  <1>3. n \in Nat \ {0}
    BY AEADAssumption
  <1>4. TypeOK'
    <2>1. written[d] + n \in Nat /\ n \in Nat
      BY <1>3 DEF TypeOK
    <2>. QED
      BY <1>1, <1>2, <2>1 DEF TypeOK
  <1>5. /\ writer'[d] = "chunk" /\ written'[d] = written[d] + n /\ rest'[d] = n
        /\ written[d] \in Nat /\ rest[d] = 0
    BY <1>1, <1>2 DEF TypeOK, DirInv, Rests
  <1>6. NextWritten(d)' = NextWritten(d) /\ NextRead(d)' = NextRead(d)
    BY <1>2, <1>5 DEF NextWritten, NextRead
  <1>7. Numbered(d)'
    BY <1>2, <1>5, <1>6 DEF DirInv, Numbered
  <1>8. Counters(d)' /\ Rests(d)' /\ InOrder(d)'
    BY <1>2, <1>3, <1>5 DEF DirInv, Counters, Rests, InOrder
  <1>9. Sized(d)'
    BY <1>2, <1>5 DEF DirInv, Sized
  <1>10. Offsets(d)'
    <2>1. written'[d] - rest'[d] = written[d] - rest[d]
      BY <1>3, <1>5
    <2>. QED
      BY <1>2, <2>1 DEF DirInv, Offsets
  <1>. QED
    BY <1>4, <1>7, <1>8, <1>9, <1>10 DEF DirInv

LEMMA WriteLengthKeeps ==
  ASSUME TypeOK, NEW d \in Dirs, DirInv(d), WriteLength(d)
  PROVE  TypeOK' /\ DirInv(d)'
  <1>. DEFINE item == [kind |-> "len", nonce |-> writeNonce[d], bytes |-> <<>>, n |-> ChunkSize(d)]
  <1>1. ChunkSize(d) \in Nat /\ writeNonce[d] \in Nat
    BY AEADAssumption DEF ChunkSize, TypeOK
  <1>2. /\ item \in Item /\ item.kind = "len" /\ item.bytes = <<>> /\ Len(item.bytes) = 0
        /\ DOMAIN item.bytes = {} /\ item.nonce = writeNonce[d] /\ item.n = ChunkSize(d)
    BY <1>1, EmptySeq DEF Item
  <1>3. /\ writer[d] = "chunk" /\ writer' = [writer EXCEPT ![d] = "payload"] /\ Put(d, item)
        /\ writeNonce' = [writeNonce EXCEPT ![d] = @ + 2]
        /\ UNCHANGED <<alive, written, rest, reader, readNonce, expect, readBuf, delivered>>
    BY DEF WriteLength, WriterAt, rvars
  <1>. HIDE DEF item
  <1>4. /\ wire' \in [Dirs -> Seq(Item)] /\ wire'[d] = Append(wire[d], item)
        /\ Len(wire'[d]) = Len(wire[d]) + 1 /\ DOMAIN wire'[d] = 1 .. Len(wire[d]) + 1
        /\ \A i \in 1 .. Len(wire[d]) : wire'[d][i] = wire[d][i]
        /\ wire'[d][Len(wire[d]) + 1] = item /\ wire'[d] # <<>>
        /\ wire[d] = <<>> <=> Len(wire[d]) = 0
    BY <1>2, <1>3, PutAt
  <1>5. TypeOK'
    <2>1. wire' \in [Dirs -> Seq(Item)] /\ writeNonce[d] + 2 \in Nat
      BY <1>1, <1>4
    <2>. QED
      BY <1>3, <2>1 DEF TypeOK
  <1>6. /\ wire[d] \in Seq(Item) /\ Len(wire[d]) \in Nat /\ DOMAIN wire[d] = 1 .. Len(wire[d])
        /\ writer'[d] = "payload" /\ writeNonce'[d] = writeNonce[d] + 2 /\ writeNonce[d] % 2 = 0
    BY <1>3, LenProperties DEF TypeOK, DirInv, Counters
  <1>7. PICK b \in 0 .. writeNonce[d] + 1 :
          /\ NumberedFrom(wire[d], b)
          /\ b + Len(wire[d]) = NextWritten(d)
          /\ reader[d] # "failed" => b = NextRead(d)
    BY <1>3 DEF DirInv, Numbered
  <1>8. b \in Nat /\ b + Len(wire[d]) = writeNonce[d] + 1
    BY <1>1, <1>3, <1>7 DEF NextWritten
  <1>9. Numbered(d)'
    <2>1. Is(item, writeNonce[d] + 1)
      <3>1. Kind(writeNonce[d] + 1) = "len"
        BY <1>1, <1>6, KindNext
      <3>. QED
        BY <1>1, <1>2, <3>1 DEF Is
    <2>2. NumberedFrom(wire'[d], b)
      <3>1. Is(item, b + Len(wire[d]))
        BY <1>8, <2>1
      <3>2. wire[d] \in Seq(Item) /\ item \in Item /\ b \in Nat /\ NumberedFrom(wire[d], b)
        BY <1>2, <1>6, <1>7, <1>8
      <3>3. NumberedFrom(Append(wire[d], item), b)
        BY <3>1, <3>2, NumberedPut
      <3>. QED
        BY <1>4, <3>3
    <2>3. NextWritten(d)' = writeNonce[d] + 2 /\ NextRead(d)' = NextRead(d)
      BY <1>3, <1>6 DEF NextWritten, NextRead
    <2>4. /\ b + Len(wire'[d]) = writeNonce[d] + 2
          /\ b + Len(wire'[d]) <= writeNonce'[d] + 1 /\ b \in 0 .. writeNonce'[d] + 1
      <3>1. \A x, k, l \in Nat : k + l = x + 1 =>
              k + (l + 1) = x + 2 /\ k + (l + 1) <= x + 2 + 1 /\ k \in 0 .. x + 2 + 1
        OBVIOUS
      <3>2. b + (Len(wire[d]) + 1) = writeNonce[d] + 2
            /\ b + (Len(wire[d]) + 1) <= writeNonce[d] + 2 + 1 /\ b \in 0 .. writeNonce[d] + 2 + 1
        BY <1>1, <1>6, <1>8, <3>1
      <3>. QED
        BY <1>4, <1>6, <3>2
    <2>. QED
      BY <1>3, <1>7, <2>2, <2>3, <2>4 DEF Numbered
  <1>10. Counters(d)' /\ Rests(d)' /\ InOrder(d)'
    <2>1. writeNonce'[d] > 0 /\ writeNonce'[d] % 2 = 0
      <3>1. writeNonce[d] + 2 > 0 /\ (writeNonce[d] + 2) % 2 = 0
        <4>1. (writeNonce[d] + 2) % 2 = writeNonce[d] % 2
          BY <1>1, KindNext
        <4>2. writeNonce[d] + 2 > 0
          BY <1>1
        <4>. QED
          BY <1>6, <4>1, <4>2
      <3>. QED
        BY <1>6, <3>1
    <2>. QED
      BY <1>3, <1>6, <2>1 DEF DirInv, Counters, Rests, InOrder
  <1>11. Sized(d)'
    <2>1. ASSUME NEW i \in DOMAIN wire'[d]
          PROVE  (wire'[d][i].bytes # <<>>) <=> (wire'[d][i].kind = "payload")
      <3>1. i \in 1 .. Len(wire[d]) \/ i = Len(wire[d]) + 1
        BY <1>4, <1>6
      <3>. QED
        BY <1>2, <1>4, <1>6, <3>1 DEF DirInv, Sized
    <2>2. ASSUME NEW i \in 1 .. Len(wire'[d]) - 1, wire'[d][i].kind = "len"
          PROVE  wire'[d][i].n = Len(wire'[d][i + 1].bytes)
      <3>1. i \in 1 .. Len(wire[d])
        BY <1>4, <1>6
      <3>2. CASE i = Len(wire[d])
        <4>1. Is(wire[d][i], writeNonce[d])
          <5>1. b + i - 1 = writeNonce[d]
            <6>1. b \in Nat /\ i \in Nat /\ b + i = writeNonce[d] + 1
              BY <1>6, <1>8, <3>2
            <6>. QED
              BY <1>1, <6>1
          <5>. QED
            BY <1>6, <1>7, <3>1, <5>1 DEF NumberedFrom
        <4>2. Kind(writeNonce[d]) # "len"
          BY <1>1, <1>6, KindNext
        <4>3. wire[d][i].kind = "len"
          BY <1>4, <2>2, <3>1
        <4>. QED
          BY <4>1, <4>2, <4>3 DEF Is
      <3>3. CASE i # Len(wire[d])
        <4>1. i \in 1 .. Len(wire[d]) - 1 /\ i + 1 \in 1 .. Len(wire[d])
          BY <1>6, <3>1, <3>3
        <4>. QED
          BY <1>4, <2>2, <3>1, <4>1 DEF DirInv, Sized
      <3>. QED
        BY <3>2, <3>3
    <2>3. wire'[d][Len(wire'[d])].n = ChunkSize(d)'
      BY <1>2, <1>3, <1>4 DEF ChunkSize
    <2>4. ASSUME reader[d] = "payload"
          PROVE  expect[d] = Len(wire'[d][1].bytes)
      <3>1. wire[d] # <<>>
        <4>1. b = readNonce[d] + 1 /\ readNonce[d] % 2 = 1 /\ readNonce[d] \in Nat
          BY <1>7, <2>4 DEF NextRead, DirInv, Counters, TypeOK
        <4>2. Len(wire[d]) = 0 => readNonce[d] = writeNonce[d]
          BY <1>1, <1>8, <4>1
        <4>. QED
          BY <1>4, <1>6, <4>1, <4>2
      <3>2. 1 \in 1 .. Len(wire[d])
        BY <1>4, <1>6, <3>1
      <3>. QED
        BY <1>4, <2>4, <3>1, <3>2 DEF DirInv, Sized
    <2>. QED
      BY <1>3, <1>4, <2>1, <2>2, <2>3, <2>4 DEF Sized
  <1>12. Offsets(d)'
    <2>1. written[d] - rest[d] \in Nat
      BY DEF DirInv, Rests, TypeOK
    <2>2. BytesFromTo(wire[d], Len(delivered[d]) + Len(readBuf[d]), written[d] - rest[d])
      BY DEF DirInv, Offsets
    <2>3. \A j \in DOMAIN item.bytes : item.bytes[j] = written[d] - rest[d] + j
      BY <1>2
    <2>4. wire[d] \in Seq(Item) /\ item \in Item
      BY <1>2, <1>6
    <2>5. BytesFromTo(Append(wire[d], item), Len(delivered[d]) + Len(readBuf[d]),
                      written[d] - rest[d] + Len(item.bytes))
      BY <2>1, <2>2, <2>3, <2>4, OffsetsPut
    <2>6. written[d] - rest[d] + Len(item.bytes) = written'[d] - rest'[d]
      BY <1>2, <1>3, <2>1
    <2>. QED
      BY <1>3, <1>4, <2>5, <2>6 DEF Offsets
  <1>. QED
    BY <1>5, <1>9, <1>10, <1>11, <1>12 DEF DirInv

LEMMA WritePayloadKeeps ==
  ASSUME TypeOK, NEW d \in Dirs, DirInv(d), WritePayload(d)
  PROVE  TypeOK' /\ DirInv(d)'
  <1>. DEFINE from == written[d] - rest[d]
              size == ChunkSize(d)
              item == [kind |-> "payload", nonce |-> PayloadNonce(d), n |-> 0,
                       bytes |-> [i \in 1 .. size |-> from + i]]
  <1>1. /\ writer[d] = "payload" /\ Put(d, item)
        /\ writer' = [writer EXCEPT ![d] = IF rest[d] > MaxChunk THEN "chunk" ELSE "idle"]
        /\ rest' = [rest EXCEPT ![d] = @ - size]
        /\ UNCHANGED <<alive, written, writeNonce, reader, readNonce, expect, readBuf, delivered>>
    BY DEF WritePayload, WriterAt, rvars
  <1>2. /\ written[d] \in Nat /\ rest[d] \in Nat \ {0} /\ rest[d] <= written[d]
        /\ writeNonce[d] \in Nat \ {0} /\ writeNonce[d] % 2 = 0
    BY <1>1 DEF TypeOK, DirInv, Rests, Counters
  <1>3. /\ from \in Nat /\ size \in Nat \ {0} /\ size <= rest[d]
        /\ rest[d] > MaxChunk <=> rest[d] - size > 0
    BY <1>2, AEADAssumption DEF ChunkSize
  <1>. HIDE DEF from, size
  <1>4. /\ item \in Item /\ item.kind = "payload" /\ Len(item.bytes) = size /\ item.bytes # <<>>
        /\ \A j \in DOMAIN item.bytes : item.bytes[j] = from + j
        /\ item.nonce = writeNonce[d] - 1
    <2>. DEFINE bytes == [i \in 1 .. size |-> from + i]
    <2>1. bytes \in [1 .. size -> Nat]
      BY <1>3
    <2>2. bytes \in Seq(Nat)
      BY <1>3, <2>1, SeqDef
    <2>3. Len(bytes) = size
      BY <1>3, <2>1, <2>2, LenProperties
    <2>4. bytes # <<>>
      BY <1>3, <2>2, <2>3, EmptySeq
    <2>5. \A j \in DOMAIN bytes : bytes[j] = from + j
      OBVIOUS
    <2>6. PayloadNonce(d) \in Nat /\ PayloadNonce(d) = writeNonce[d] - 1
      BY <1>2 DEF PayloadNonce
    <2>. HIDE DEF bytes
    <2>7. item = [kind |-> "payload", nonce |-> PayloadNonce(d), n |-> 0, bytes |-> bytes]
      BY DEF bytes
    <2>. HIDE DEF item
    <2>. QED
      BY <2>2, <2>3, <2>4, <2>5, <2>6, <2>7 DEF Item
  <1>. HIDE DEF item
  <1>5. /\ wire' \in [Dirs -> Seq(Item)] /\ wire'[d] = Append(wire[d], item)
        /\ Len(wire'[d]) = Len(wire[d]) + 1 /\ DOMAIN wire'[d] = 1 .. Len(wire[d]) + 1
        /\ \A i \in 1 .. Len(wire[d]) : wire'[d][i] = wire[d][i]
        /\ wire'[d][Len(wire[d]) + 1] = item /\ wire'[d] # <<>>
        /\ wire[d] = <<>> <=> Len(wire[d]) = 0
    BY <1>1, <1>4, PutAt
  <1>6. TypeOK'
    <2>1. rest[d] - size \in Nat
      BY <1>2, <1>3
    <2>2. wire' \in [Dirs -> Seq(Item)]
      BY <1>5
    <2>. QED
      BY <1>1, <2>1, <2>2 DEF TypeOK
  <1>7. /\ wire[d] \in Seq(Item) /\ Len(wire[d]) \in Nat /\ DOMAIN wire[d] = 1 .. Len(wire[d])
        /\ writer'[d] = IF rest[d] > MaxChunk THEN "chunk" ELSE "idle"
        /\ rest'[d] = rest[d] - size
    BY <1>1, LenProperties DEF TypeOK
  <1>8. PICK b \in 0 .. writeNonce[d] + 1 :
          /\ NumberedFrom(wire[d], b)
          /\ b + Len(wire[d]) = writeNonce[d]
          /\ reader[d] # "failed" => b = NextRead(d)
    BY <1>1 DEF DirInv, Numbered, NextWritten
  <1>9. Numbered(d)'
    <2>1. Is(item, writeNonce[d])
      <3>1. Kind(writeNonce[d]) = "payload"
        BY <1>2 DEF Kind
      <3>. QED
        BY <1>4, <3>1 DEF Is
    <2>2. NumberedFrom(wire'[d], b)
      <3>1. Is(item, b + Len(wire[d]))
        BY <1>8, <2>1
      <3>2. wire[d] \in Seq(Item) /\ item \in Item /\ b \in Nat /\ NumberedFrom(wire[d], b)
        BY <1>2, <1>4, <1>7, <1>8
      <3>3. NumberedFrom(Append(wire[d], item), b)
        BY <3>1, <3>2, NumberedPut
      <3>. QED
        BY <1>5, <3>3
    <2>3. NextWritten(d)' = writeNonce[d] + 1 /\ NextRead(d)' = NextRead(d)
      BY <1>1, <1>7 DEF NextWritten, NextRead
    <2>4. b + Len(wire'[d]) = writeNonce[d] + 1 /\ b \in 0 .. writeNonce[d] + 1
      <3>1. b \in Nat /\ Len(wire[d]) \in Nat /\ b + Len(wire[d]) = writeNonce[d]
        BY <1>2, <1>7, <1>8
      <3>2. b + (Len(wire[d]) + 1) = writeNonce[d] + 1
        BY <3>1
      <3>. QED
        BY <1>5, <1>8, <3>2
    <2>5. writeNonce[d] + 1 <= writeNonce[d] + 1
      BY <1>2
    <2>. QED
      BY <1>1, <1>8, <2>2, <2>3, <2>4, <2>5 DEF Numbered
  <1>10. Counters(d)' /\ Rests(d)' /\ InOrder(d)'
    <2>1. /\ rest[d] - size <= written[d]
          /\ rest[d] > MaxChunk => rest[d] - size > 0
          /\ ~(rest[d] > MaxChunk) => rest[d] - size = 0
      BY <1>2, <1>3
    <2>2. Rests(d)'
      BY <1>1, <1>7, <2>1 DEF Rests
    <2>3. Counters(d)' /\ InOrder(d)'
      BY <1>1, <1>7 DEF DirInv, Counters, InOrder
    <2>. QED
      BY <2>2, <2>3
  <1>11. Sized(d)'
    <2>1. ASSUME NEW i \in DOMAIN wire'[d]
          PROVE  (wire'[d][i].bytes # <<>>) <=> (wire'[d][i].kind = "payload")
      <3>1. i \in 1 .. Len(wire[d]) \/ i = Len(wire[d]) + 1
        BY <1>5, <1>7
      <3>. QED
        BY <1>4, <1>5, <1>7, <3>1 DEF DirInv, Sized
    <2>2. ASSUME NEW i \in 1 .. Len(wire'[d]) - 1, wire'[d][i].kind = "len"
          PROVE  wire'[d][i].n = Len(wire'[d][i + 1].bytes)
      <3>1. i \in 1 .. Len(wire[d])
        BY <1>5, <1>7
      <3>2. CASE i = Len(wire[d])
        <4>1. wire[d] # <<>>
          BY <1>5, <1>7, <3>1
        <4>2. wire[d][i].n = size
          BY <1>1, <3>2, <4>1 DEF DirInv, Sized, size
        <4>. QED
          BY <1>4, <1>5, <3>1, <3>2, <4>2
      <3>3. CASE i # Len(wire[d])
        <4>1. i \in 1 .. Len(wire[d]) - 1 /\ i + 1 \in 1 .. Len(wire[d])
          BY <1>7, <3>1, <3>3
        <4>. QED
          BY <1>5, <2>2, <3>1, <4>1 DEF DirInv, Sized
      <3>. QED
        BY <3>2, <3>3
    <2>3. ASSUME reader[d] = "payload"
          PROVE  expect[d] = Len(wire'[d][1].bytes)
      <3>1. CASE wire[d] = <<>>
        <4>1. expect[d] = size
          BY <1>1, <2>3, <3>1 DEF DirInv, Sized, size
        <4>2. wire'[d][1] = item
          BY <1>5, <3>1
        <4>. QED
          BY <1>4, <4>1, <4>2
      <3>2. CASE wire[d] # <<>>
        <4>1. 1 \in 1 .. Len(wire[d])
          BY <1>5, <1>7, <3>2
        <4>. QED
          BY <1>5, <2>3, <3>2, <4>1 DEF DirInv, Sized
      <3>. QED
        BY <3>1, <3>2
    <2>4. writer'[d] # "payload"
      BY <1>7
    <2>. QED
      BY <1>1, <1>5, <2>1, <2>2, <2>3, <2>4 DEF Sized
  <1>12. Offsets(d)'
    <2>1. from \in Nat
      BY <1>3
    <2>2. BytesFromTo(wire[d], Len(delivered[d]) + Len(readBuf[d]), from)
      BY DEF DirInv, Offsets, from
    <2>3. \A j \in DOMAIN item.bytes : item.bytes[j] = from + j
      BY <1>4
    <2>4. wire[d] \in Seq(Item) /\ item \in Item
      BY <1>4, <1>7
    <2>5. BytesFromTo(Append(wire[d], item), Len(delivered[d]) + Len(readBuf[d]),
                      from + Len(item.bytes))
      BY <2>1, <2>2, <2>3, <2>4, OffsetsPut
    <2>6. from + Len(item.bytes) = written'[d] - rest'[d]
      <3>1. written[d] \in Nat /\ rest[d] \in Nat /\ size \in Nat
        BY <1>2, <1>3
      <3>2. written[d] - rest[d] + size = written[d] - (rest[d] - size)
        BY <3>1
      <3>3. written'[d] = written[d] /\ rest'[d] = rest[d] - size /\ Len(item.bytes) = size
        BY <1>1, <1>4, <1>7
      <3>. QED
        BY <3>2, <3>3 DEF from
    <2>. QED
      BY <1>1, <1>5, <2>5, <2>6 DEF Offsets
  <1>. QED
    BY <1>6, <1>9, <1>10, <1>11, <1>12 DEF DirInv

LEMMA WriteFailsKeeps ==
  ASSUME TypeOK, NEW d \in Dirs, DirInv(d), WriteFails(d)
  PROVE  TypeOK' /\ DirInv(d)'
  <1>1. /\ writer[d] # "failed" /\ writer' = [writer EXCEPT ![d] = "failed"]
        /\ UNCHANGED <<alive, wire, written, rest, writeNonce, reader, readNonce, expect,
                       readBuf, delivered>>
    BY DEF WriteFails, WriterAt, rvars
  <1>2. TypeOK' /\ writer'[d] = "failed"
    BY <1>1 DEF TypeOK
  <1>3. Numbered(d)'
    BY <1>1, <1>2 DEF DirInv, Numbered, NextRead
  <1>4. Counters(d)' /\ Rests(d)' /\ InOrder(d)'
    BY <1>1, <1>2 DEF DirInv, Counters, Rests, InOrder
  <1>5. Sized(d)' /\ Offsets(d)'
    BY <1>1, <1>2 DEF DirInv, Sized, Offsets
  <1>. QED
    BY <1>2, <1>3, <1>4, <1>5 DEF DirInv
-----------------------------------------------------------------------------
(* The reader's steps that leave the wire alone.                            *)
LEMMA ReadKeeps ==
  ASSUME TypeOK, NEW d \in Dirs, DirInv(d), Read(d)
  PROVE  TypeOK' /\ DirInv(d)'
  <1>1. /\ reader[d] \in {"new", "idle"} /\ readBuf[d] = <<>>
        /\ reader' = [reader EXCEPT ![d] = IF reader[d] = "new" THEN "salt" ELSE "len"]
        /\ UNCHANGED <<alive, wire, writer, written, rest, writeNonce, readNonce, expect,
                       readBuf, delivered>>
    BY DEF Read, ReaderAt, wvars
  <1>2. TypeOK' /\ reader'[d] = IF reader[d] = "new" THEN "salt" ELSE "len"
    BY <1>1 DEF TypeOK
  <1>3. NextRead(d)' = NextRead(d) /\ NextWritten(d)' = NextWritten(d)
    BY <1>1, <1>2 DEF NextRead, NextWritten
  <1>4. Numbered(d)'
    BY <1>1, <1>2, <1>3 DEF DirInv, Numbered
  <1>5. Counters(d)' /\ Rests(d)' /\ InOrder(d)'
    BY <1>1, <1>2 DEF DirInv, Counters, Rests, InOrder
  <1>6. Sized(d)'
    BY <1>1, <1>2 DEF DirInv, Sized, ChunkSize
  <1>7. Offsets(d)'
    BY <1>1 DEF DirInv, Offsets
  <1>. QED
    BY <1>2, <1>4, <1>5, <1>6, <1>7 DEF DirInv

LEMMA StopsKeeps ==
  ASSUME TypeOK, NEW d \in Dirs, DirInv(d), ReaderAt(d, "failed"),
         UNCHANGED <<alive, wire, wvars, readNonce, expect, readBuf, delivered>>
  PROVE  TypeOK' /\ DirInv(d)'
  <1>1. /\ reader' = [reader EXCEPT ![d] = "failed"]
        /\ UNCHANGED <<alive, wire, writer, written, rest, writeNonce, readNonce, expect,
                       readBuf, delivered>>
    BY DEF ReaderAt, wvars
  <1>2. TypeOK' /\ reader'[d] = "failed"
    BY <1>1 DEF TypeOK
  <1>3. Numbered(d)'
    BY <1>1, <1>2 DEF DirInv, Numbered, NextWritten
  <1>4. Counters(d)' /\ Rests(d)' /\ InOrder(d)'
    BY <1>1, <1>2 DEF DirInv, Counters, Rests, InOrder
  <1>5. Sized(d)' /\ Offsets(d)'
    BY <1>1, <1>2 DEF DirInv, Sized, Offsets, ChunkSize
  <1>. QED
    BY <1>2, <1>3, <1>4, <1>5 DEF DirInv

(* Deliver keeps the order, and the number of bytes that have been read.    *)
LEMMA DeliverKeeps ==
  ASSUME TypeOK, NEW d \in Dirs, NEW buf \in Seq(Nat), Deliver(d, buf),
         \A i \in DOMAIN delivered[d] : delivered[d][i] = i,
         \A i \in DOMAIN buf : buf[i] = Len(delivered[d]) + i
  PROVE  /\ delivered' \in [Dirs -> Seq(Nat)] /\ readBuf' \in [Dirs -> Seq(Nat)]
         /\ \A i \in DOMAIN delivered'[d] : delivered'[d][i] = i
         /\ \A i \in DOMAIN readBuf'[d] : readBuf'[d][i] = Len(delivered'[d]) + i
         /\ Len(delivered'[d]) + Len(readBuf'[d]) = Len(delivered[d]) + Len(buf)
         /\ Len(delivered'[d]) = Len(delivered[d]) + Least(ReadSize, Len(buf))
         /\ \A e \in Dirs \ {d} : delivered'[e] = delivered[e] /\ readBuf'[e] = readBuf[e]
  <1>. DEFINE n == Least(ReadSize, Len(buf))
              out == delivered[d] \o SubSeq(buf, 1, n)
              kept == SubSeq(buf, n + 1, Len(buf))
  <1>1. delivered' = [delivered EXCEPT ![d] = out] /\ readBuf' = [readBuf EXCEPT ![d] = kept]
    BY DEF Deliver
  <1>2. delivered[d] \in Seq(Nat)
    BY DEF TypeOK
  <1>3. /\ out \in Seq(Nat) /\ kept \in Seq(Nat)
        /\ Len(out) + Len(kept) = Len(delivered[d]) + Len(buf)
        /\ Len(out) = Len(delivered[d]) + n
        /\ \A i \in DOMAIN out : out[i] = i
        /\ \A i \in DOMAIN kept : kept[i] = Len(out) + i
    BY <1>2, DeliverAt
  <1>. HIDE DEF n, out, kept
  <1>4. /\ delivered' \in [Dirs -> Seq(Nat)] /\ readBuf' \in [Dirs -> Seq(Nat)]
        /\ delivered'[d] = out /\ readBuf'[d] = kept
        /\ \A e \in Dirs \ {d} : delivered'[e] = delivered[e] /\ readBuf'[e] = readBuf[e]
    BY <1>1, <1>3 DEF TypeOK
  <1>. QED
    BY <1>3, <1>4 DEF n

LEMMA ReadLeftoverKeeps ==
  ASSUME TypeOK, NEW d \in Dirs, DirInv(d), ReadLeftover(d)
  PROVE  TypeOK' /\ DirInv(d)'
  <1>1. /\ reader[d] = "idle" /\ Deliver(d, readBuf[d])
        /\ UNCHANGED <<alive, wire, writer, written, rest, writeNonce, reader, readNonce, expect>>
    BY DEF ReadLeftover, wvars
  <1>2. readBuf[d] \in Seq(Nat)
    BY DEF TypeOK
  <1>3. /\ delivered' \in [Dirs -> Seq(Nat)] /\ readBuf' \in [Dirs -> Seq(Nat)]
        /\ \A i \in DOMAIN delivered'[d] : delivered'[d][i] = i
        /\ \A i \in DOMAIN readBuf'[d] : readBuf'[d][i] = Len(delivered'[d]) + i
        /\ Len(delivered'[d]) + Len(readBuf'[d]) = Len(delivered[d]) + Len(readBuf[d])
    BY <1>1, <1>2, DeliverKeeps DEF DirInv, InOrder
  <1>4. TypeOK'
    BY <1>1, <1>3 DEF TypeOK
  <1>5. Numbered(d)'
    BY <1>1 DEF DirInv, Numbered, NextWritten, NextRead
  <1>6. Counters(d)' /\ Rests(d)' /\ Sized(d)'
    BY <1>1 DEF DirInv, Counters, Rests, Sized, ChunkSize
  <1>7. InOrder(d)'
    BY <1>1, <1>3 DEF InOrder
  <1>8. Offsets(d)'
    BY <1>1, <1>3 DEF DirInv, Offsets
  <1>. QED
    BY <1>4, <1>5, <1>6, <1>7, <1>8 DEF DirInv
-----------------------------------------------------------------------------
(* The reader's steps that take an item from the wire.                      *)
LEMMA SizedTake ==
  ASSUME TypeOK, NEW d \in Dirs, Sized(d), wire[d] # <<>>, Take(d), UNCHANGED <<writer, rest>>
  PROVE  /\ \A i \in DOMAIN wire'[d] : (wire'[d][i].bytes # <<>>) <=> (wire'[d][i].kind = "payload")
         /\ \A i \in 1 .. Len(wire'[d]) - 1 :
              wire'[d][i].kind = "len" => wire'[d][i].n = Len(wire'[d][i + 1].bytes)
         /\ writer'[d] = "payload" /\ wire'[d] # <<>> => wire'[d][Len(wire'[d])].n = ChunkSize(d)'
  <1>. DEFINE L == Len(wire[d])
  <1>1. /\ L \in Nat \ {0} /\ DOMAIN wire[d] = 1 .. L
        /\ Len(wire'[d]) = L - 1 /\ DOMAIN wire'[d] = 1 .. L - 1
        /\ \A i \in 1 .. L - 1 : wire'[d][i] = wire[d][i + 1]
        /\ wire'[d] = <<>> <=> L = 1
    BY TakeAt
  <1>2. /\ \A i \in 1 .. L : (wire[d][i].bytes # <<>>) <=> (wire[d][i].kind = "payload")
        /\ \A i \in 1 .. L - 1 : wire[d][i].kind = "len" => wire[d][i].n = Len(wire[d][i + 1].bytes)
        /\ writer[d] = "payload" => wire[d][L].n = ChunkSize(d)
    BY <1>1 DEF Sized
  <1>. HIDE DEF L
  <1>3. ASSUME NEW i \in DOMAIN wire'[d]
        PROVE  (wire'[d][i].bytes # <<>>) <=> (wire'[d][i].kind = "payload")
    <2>1. i + 1 \in 1 .. L /\ wire'[d][i] = wire[d][i + 1]
      BY <1>1
    <2>. QED
      BY <1>2, <2>1
  <1>4. ASSUME NEW i \in 1 .. Len(wire'[d]) - 1, wire'[d][i].kind = "len"
        PROVE  wire'[d][i].n = Len(wire'[d][i + 1].bytes)
    <2>1. i \in 1 .. L - 1 /\ i + 1 \in 1 .. L - 1
      BY <1>1
    <2>2. wire'[d][i] = wire[d][i + 1] /\ wire'[d][i + 1] = wire[d][i + 1 + 1]
      BY <1>1, <2>1
    <2>. QED
      BY <1>2, <1>4, <2>1, <2>2
  <1>5. ASSUME writer'[d] = "payload", wire'[d] # <<>>
        PROVE  wire'[d][Len(wire'[d])].n = ChunkSize(d)'
    <2>1. L - 1 \in 1 .. L - 1 /\ L - 1 + 1 = L
      BY <1>1, <1>5
    <2>2. wire'[d][Len(wire'[d])] = wire[d][L]
      BY <1>1, <2>1
    <2>. QED
      BY <1>2, <1>5, <2>2 DEF ChunkSize
  <1>. QED
    BY <1>3, <1>4, <1>5

(* What is read next is what the wire begins with.                          *)
LEMMA NumberedHead ==
  ASSUME TypeOK, NEW d \in Dirs, DirInv(d), wire[d] # <<>>, reader[d] # "failed", Take(d),
         writer' = writer, writeNonce' = writeNonce,
         reader'[d] # "failed" => NextRead(d)' = NextRead(d) + 1
  PROVE  Is(Head(wire[d]), NextRead(d)) /\ Numbered(d)' /\ NextRead(d) \in Nat
  <1>1. PICK b \in 0 .. writeNonce[d] + 1 :
          /\ NumberedFrom(wire[d], b)
          /\ b + Len(wire[d]) <= writeNonce[d] + 1
          /\ writer[d] # "failed" => b + Len(wire[d]) = NextWritten(d)
          /\ b = NextRead(d)
    BY DEF DirInv, Numbered
  <1>2. writeNonce[d] \in Nat /\ b \in Nat /\ wire[d] \in Seq(Item)
    BY DEF TypeOK
  <1>3. /\ Len(wire[d]) \in Nat \ {0} /\ Len(wire'[d]) = Len(wire[d]) - 1
        /\ wire'[d] = Tail(wire[d]) /\ Head(wire[d]) = wire[d][1]
    BY TakeAt
  <1>4. NumberedFrom(wire'[d], b + 1) /\ Is(Head(wire[d]), b)
    BY <1>1, <1>2, <1>3, NumberedTake
  <1>5. b + 1 + Len(wire'[d]) = b + Len(wire[d]) /\ b + 1 \in 0 .. writeNonce[d] + 1
    BY <1>1, <1>2, <1>3
  <1>6. NextWritten(d)' = NextWritten(d)
    BY DEF NextWritten
  <1>. QED
    BY <1>1, <1>2, <1>4, <1>5, <1>6 DEF Numbered

(* What Offsets says of the item taken.                                     *)
LEMMA OffsetsHead ==
  ASSUME TypeOK, NEW d \in Dirs, DirInv(d), wire[d] # <<>>, Take(d),
         written' = written, rest' = rest
  PROVE  /\ BytesFromTo(wire'[d], Len(delivered[d]) + Len(readBuf[d]) + Len(Head(wire[d]).bytes),
                        written'[d] - rest'[d])
         /\ \A j \in DOMAIN Head(wire[d]).bytes :
              Head(wire[d]).bytes[j] = Len(delivered[d]) + Len(readBuf[d]) + j
         /\ Len(delivered[d]) + Len(readBuf[d]) + Len(Head(wire[d]).bytes) <= written[d] - rest[d]
  <1>1. written[d] - rest[d] \in Nat /\ wire[d] \in Seq(Item)
    BY DEF DirInv, Rests, TypeOK
  <1>2. wire'[d] = Tail(wire[d]) /\ Head(wire[d]) = wire[d][1]
    BY TakeAt
  <1>3. BytesFromTo(wire[d], Len(delivered[d]) + Len(readBuf[d]), written[d] - rest[d])
    BY DEF DirInv, Offsets
  <1>4. /\ BytesFromTo(Tail(wire[d]), Len(delivered[d]) + Len(readBuf[d]) + Len(wire[d][1].bytes),
                       written[d] - rest[d])
        /\ \A j \in DOMAIN wire[d][1].bytes :
             wire[d][1].bytes[j] = Len(delivered[d]) + Len(readBuf[d]) + j
        /\ Len(delivered[d]) + Len(readBuf[d]) + Len(wire[d][1].bytes) <= written[d] - rest[d]
    BY <1>1, <1>3, OffsetsTake
  <1>. QED
    BY <1>2, <1>4

LEMMA ReadSaltKeeps ==
  ASSUME TypeOK, NEW d \in Dirs, DirInv(d), ReadSalt(d)
  PROVE  TypeOK' /\ DirInv(d)'
  <1>1. /\ reader[d] = "salt" /\ wire[d] # <<>> /\ Head(wire[d]).kind = "salt" /\ Take(d)
        /\ reader' = [reader EXCEPT ![d] = "len"]
        /\ UNCHANGED <<alive, writer, written, rest, writeNonce, readNonce, expect, readBuf, delivered>>
    BY DEF ReadSalt, Arrives, ReaderAt, wvars
  <1>2. wire' \in [Dirs -> Seq(Item)]
    BY <1>1, TakeAt
  <1>3. TypeOK' /\ reader'[d] = "len"
    BY <1>1, <1>2 DEF TypeOK
  <1>4. readNonce[d] = 0
    BY <1>1 DEF DirInv, Counters
  <1>5. NextRead(d)' = NextRead(d) + 1
    BY <1>1, <1>3, <1>4 DEF NextRead
  <1>6. Numbered(d)'
    BY <1>1, <1>5, NumberedHead
  <1>7. Counters(d)' /\ Rests(d)' /\ InOrder(d)'
    BY <1>1, <1>3, <1>4 DEF DirInv, Counters, Rests, InOrder
  <1>8. Sized(d)'
    <2>1. Sized(d)
      BY DEF DirInv
    <2>. QED
      BY <1>1, <1>3, <2>1, SizedTake DEF Sized
  <1>9. Offsets(d)'
    <2>1. Len(Head(wire[d]).bytes) = 0
      <3>1. 1 \in DOMAIN wire[d] /\ Head(wire[d]) = wire[d][1]
        BY <1>1, TakeAt
      <3>2. Head(wire[d]).bytes = <<>>
        BY <1>1, <3>1 DEF DirInv, Sized
      <3>. QED
        BY <3>2, EmptySeq
    <2>2. Len(delivered[d]) + Len(readBuf[d]) + 0 = Len(delivered'[d]) + Len(readBuf'[d])
      BY <1>1, LenProperties DEF TypeOK
    <2>. QED
      BY <1>1, <2>1, <2>2, OffsetsHead DEF Offsets
  <1>. QED
    BY <1>3, <1>6, <1>7, <1>8, <1>9 DEF DirInv

LEMMA ReadLengthKeeps ==
  ASSUME TypeOK, NEW d \in Dirs, DirInv(d), ReadLength(d)
  PROVE  TypeOK' /\ DirInv(d)'
  <1>1. /\ reader[d] = "len" /\ wire[d] # <<>> /\ Take(d)
        /\ readNonce' = [readNonce EXCEPT ![d] = @ + 1]
        /\ UNCHANGED <<alive, writer, written, rest, writeNonce, readBuf, delivered>>
    BY DEF ReadLength, UseReadNonce, wvars
  <1>2. /\ readNonce[d] \in Nat /\ readNonce'[d] = readNonce[d] + 1 /\ readNonce[d] % 2 = 0
        /\ (readNonce[d] + 1) % 2 = 1 /\ NextRead(d) = readNonce[d] + 1
    <2>1. readNonce[d] \in Nat /\ readNonce'[d] = readNonce[d] + 1 /\ readNonce[d] % 2 = 0
      BY <1>1 DEF TypeOK, DirInv, Counters
    <2>. QED
      BY <1>1, <2>1, KindNext DEF NextRead
  (* whichever branch is taken, the reader neither fails nor starts again   *)
  <1>3. reader'[d] \in {"payload", "forged"}
    BY <1>1 DEF ReadLength, ReaderAt, TypeOK
  <1>4. NextRead(d)' = NextRead(d) + 1
    BY <1>2, <1>3 DEF NextRead
  <1>5. Is(Head(wire[d]), readNonce[d] + 1) /\ Numbered(d)'
    BY <1>1, <1>2, <1>4, NumberedHead
  <1>6. Arrives(d, "len") /\ Opens(d)
    <2>1. Kind(readNonce[d] + 1) = "len"
      BY <1>2, KindNext
    <2>. QED
      BY <1>1, <1>2, <1>5, <2>1 DEF Is, Arrives, Opens
  <1>7. /\ reader' = [reader EXCEPT ![d] = "payload"]
        /\ expect' = [expect EXCEPT ![d] = Head(wire[d]).n]
    BY <1>6 DEF ReadLength, ReaderAt
  <1>8. /\ wire' \in [Dirs -> Seq(Item)] /\ Head(wire[d]) = wire[d][1] /\ wire[d][1] \in Item
        /\ Len(wire[d]) \in Nat \ {0} /\ DOMAIN wire[d] = 1 .. Len(wire[d])
        /\ \A i \in 1 .. Len(wire[d]) - 1 : wire'[d][i] = wire[d][i + 1]
        /\ wire'[d] = <<>> <=> Len(wire[d]) = 1
    BY <1>1, TakeAt
  <1>9. TypeOK'
    <2>1. readNonce[d] + 1 \in Nat /\ Head(wire[d]).n \in Nat
      <3>1. readNonce[d] + 1 \in Nat
        BY <1>2
      <3>2. Head(wire[d]).n \in Nat
        BY <1>8 DEF Item
      <3>. QED
        BY <3>1, <3>2
    <2>. QED
      BY <1>1, <1>7, <1>8, <2>1 DEF TypeOK
  <1>10. reader'[d] = "payload" /\ expect'[d] = Head(wire[d]).n
    BY <1>7 DEF TypeOK
  <1>11. Counters(d)' /\ Rests(d)' /\ InOrder(d)'
    BY <1>1, <1>2, <1>10 DEF DirInv, Counters, Rests, InOrder
  <1>12. Sized(d)'
    <2>1. Sized(d) /\ ChunkSize(d)' = ChunkSize(d)
      BY <1>1 DEF DirInv, ChunkSize
    <2>2. CASE Len(wire[d]) = 1
      <3>1. writer[d] = "payload" => expect'[d] = ChunkSize(d)
        BY <1>1, <1>8, <1>10, <2>1, <2>2 DEF Sized
      <3>. QED
        BY <1>1, <1>8, <2>1, <2>2, <3>1, SizedTake DEF Sized
    <2>3. CASE Len(wire[d]) # 1
      <3>1. 1 \in 1 .. Len(wire[d]) - 1 /\ 1 + 1 = 2
        <4>1. \A l \in Nat \ {0} : l # 1 => 1 \in 1 .. l - 1 /\ 1 + 1 = 2
          OBVIOUS
        <4>2. Len(wire[d]) \in Nat \ {0}
          BY <1>8
        <4>. QED
          BY <2>3, <4>1, <4>2
      <3>2. wire'[d][1] = wire[d][2]
        BY <1>8, <3>1
      <3>3. wire[d][1].kind = "len"
        BY <1>6, <1>8 DEF Arrives
      <3>4. expect'[d] = Len(wire'[d][1].bytes)
        BY <1>8, <1>10, <2>1, <3>1, <3>2, <3>3 DEF Sized
      <3>. QED
        BY <1>1, <1>8, <2>1, <2>3, <3>4, SizedTake DEF Sized
    <2>. QED
      BY <2>2, <2>3
  <1>13. Offsets(d)'
    <2>1. Len(Head(wire[d]).bytes) = 0
      <3>1. 1 \in DOMAIN wire[d]
        BY <1>8
      <3>2. Head(wire[d]).bytes = <<>>
        BY <1>6, <1>8, <3>1 DEF DirInv, Sized, Arrives
      <3>. QED
        BY <3>2, EmptySeq
    <2>2. Len(delivered[d]) + Len(readBuf[d]) + 0 = Len(delivered'[d]) + Len(readBuf'[d])
      BY <1>1, LenProperties DEF TypeOK
    <2>. QED
      BY <1>1, <2>1, <2>2, OffsetsHead DEF Offsets
  <1>. QED
    BY <1>5, <1>9, <1>11, <1>12, <1>13 DEF DirInv

(* A payload that is read is the one expected, and opens.                   *)
LEMMA PayloadOpens ==
  ASSUME TypeOK, NEW d \in Dirs, DirInv(d), ReadPayload(d)
  PROVE  /\ reader' = [reader EXCEPT ![d] = "idle"] /\ Deliver(d, Head(wire[d]).bytes)
         /\ Numbered(d)' /\ readNonce'[d] = readNonce[d] + 1 /\ readNonce'[d] % 2 = 0
  <1>1. /\ reader[d] = "payload" /\ wire[d] # <<>> /\ Take(d)
        /\ readNonce' = [readNonce EXCEPT ![d] = @ + 1]
        /\ UNCHANGED <<alive, writer, written, rest, writeNonce, expect>>
    BY DEF ReadPayload, UseReadNonce, wvars
  <1>2. /\ readNonce[d] \in Nat /\ readNonce'[d] = readNonce[d] + 1 /\ readNonce[d] % 2 = 1
        /\ (readNonce[d] + 1) % 2 = 0 /\ NextRead(d) = readNonce[d] + 1
    <2>1. readNonce[d] \in Nat /\ readNonce'[d] = readNonce[d] + 1 /\ readNonce[d] % 2 = 1
      BY <1>1 DEF TypeOK, DirInv, Counters
    <2>. QED
      BY <1>1, <2>1, KindNext DEF NextRead
  <1>3. reader'[d] \in {"idle", "forged"}
    BY <1>1 DEF ReadPayload, ReaderAt, TypeOK
  <1>4. NextRead(d)' = NextRead(d) + 1
    BY <1>2, <1>3 DEF NextRead
  <1>5. Is(Head(wire[d]), readNonce[d] + 1) /\ Numbered(d)'
    BY <1>1, <1>2, <1>4, NumberedHead
  <1>6. Arrives(d, "payload") /\ Opens(d)
    <2>1. Kind(readNonce[d] + 1) = "payload"
      BY <1>2, KindNext
    <2>. QED
      BY <1>1, <1>2, <1>5, <2>1 DEF Is, Arrives, Opens
  <1>7. Len(Head(wire[d]).bytes) = expect[d]
    BY <1>1, TakeAt DEF DirInv, Sized
  <1>8. reader' = [reader EXCEPT ![d] = "idle"] /\ Deliver(d, Head(wire[d]).bytes)
    BY <1>6, <1>7 DEF ReadPayload, ReaderAt
  <1>. QED
    BY <1>2, <1>5, <1>8

LEMMA ReadPayloadKeeps ==
  ASSUME TypeOK, NEW d \in Dirs, DirInv(d), ReadPayload(d)
  PROVE  TypeOK' /\ DirInv(d)'
  <1>. DEFINE bytes == Head(wire[d]).bytes
  <1>1. /\ reader[d] = "payload" /\ wire[d] # <<>> /\ Take(d)
        /\ readNonce' = [readNonce EXCEPT ![d] = @ + 1]
        /\ UNCHANGED <<alive, writer, written, rest, writeNonce, expect>>
    BY DEF ReadPayload, UseReadNonce, wvars
  <1>2. /\ reader' = [reader EXCEPT ![d] = "idle"] /\ Deliver(d, bytes)
        /\ Numbered(d)' /\ readNonce'[d] = readNonce[d] + 1 /\ readNonce'[d] % 2 = 0
    BY PayloadOpens
  <1>3. wire' \in [Dirs -> Seq(Item)] /\ bytes \in Seq(Nat) /\ Len(bytes) \in Nat
    BY <1>1, TakeAt, LenProperties DEF Item
  <1>4. /\ readBuf[d] = <<>> /\ Len(readBuf[d]) = 0 /\ Len(delivered[d]) \in Nat
        /\ \A i \in DOMAIN delivered[d] : delivered[d][i] = i
    <2>1. readBuf[d] = <<>> /\ \A i \in DOMAIN delivered[d] : delivered[d][i] = i
      BY <1>1 DEF DirInv, InOrder
    <2>. QED
      BY <2>1, LenProperties, EmptySeq DEF TypeOK
  <1>5. /\ BytesFromTo(wire'[d], Len(delivered[d]) + Len(readBuf[d]) + Len(bytes), written'[d] - rest'[d])
        /\ \A j \in DOMAIN bytes : bytes[j] = Len(delivered[d]) + Len(readBuf[d]) + j
    BY <1>1, OffsetsHead
  <1>. HIDE DEF bytes
  <1>6. Len(delivered[d]) + Len(readBuf[d]) = Len(delivered[d])
    BY <1>4
  <1>7. \A j \in DOMAIN bytes : bytes[j] = Len(delivered[d]) + j
    BY <1>5, <1>6
  <1>8. /\ delivered' \in [Dirs -> Seq(Nat)] /\ readBuf' \in [Dirs -> Seq(Nat)]
        /\ \A i \in DOMAIN delivered'[d] : delivered'[d][i] = i
        /\ \A i \in DOMAIN readBuf'[d] : readBuf'[d][i] = Len(delivered'[d]) + i
        /\ Len(delivered'[d]) + Len(readBuf'[d]) = Len(delivered[d]) + Len(bytes)
    BY <1>2, <1>3, <1>4, <1>7, DeliverKeeps
  <1>9. TypeOK'
    <2>1. readNonce[d] + 1 \in Nat
      BY DEF TypeOK
    <2>. QED
      BY <1>1, <1>2, <1>3, <1>8, <2>1 DEF TypeOK
  <1>10. reader'[d] = "idle"
    BY <1>2 DEF TypeOK
  <1>11. Counters(d)' /\ Rests(d)'
    BY <1>1, <1>2, <1>10 DEF DirInv, Counters, Rests
  <1>12. InOrder(d)'
    BY <1>8, <1>10 DEF InOrder
  <1>13. Sized(d)'
    <2>1. Sized(d)
      BY DEF DirInv
    <2>. QED
      BY <1>1, <1>10, <2>1, SizedTake DEF Sized
  <1>14. Offsets(d)'
    BY <1>5, <1>6, <1>8 DEF Offsets
  <1>. QED
    BY <1>2, <1>9, <1>11, <1>12, <1>13, <1>14 DEF DirInv
-----------------------------------------------------------------------------
LEMMA InitStream == Init => StreamInv
  <1>. SUFFICES ASSUME Init PROVE StreamInv
    OBVIOUS
  <1>1. \A S : <<>> \in Seq(S) /\ Len(<<>>) = 0 /\ DOMAIN <<>> = {}
    BY EmptySeq
  <1>2. TypeOK
    BY <1>1 DEF Init, TypeOK, Each
  <1>3. ASSUME NEW d \in Dirs PROVE DirInv(d)
    <2>1. /\ wire[d] = <<>> /\ writer[d] = "salt" /\ written[d] = 0 /\ rest[d] = 0
          /\ writeNonce[d] = 0 /\ reader[d] = "new" /\ readNonce[d] = 0
          /\ readBuf[d] = <<>> /\ delivered[d] = <<>>
      BY DEF Init, Each
    <2>2. Numbered(d)
      <3>1. NumberedFrom(wire[d], 0) /\ NextWritten(d) = 0 /\ NextRead(d) = 0
        BY <1>1, <2>1 DEF NumberedFrom, NextWritten, NextRead
      <3>2. 0 \in 0 .. writeNonce[d] + 1 /\ 0 + Len(wire[d]) = 0
        BY <1>1, <2>1
      <3>. QED
        BY <1>1, <2>1, <3>1, <3>2 DEF Numbered
    <2>3. Counters(d) /\ Rests(d) /\ Sized(d) /\ InOrder(d)
      BY <1>1, <2>1 DEF Counters, Rests, Sized, InOrder
    <2>4. Offsets(d)
      <3>. DEFINE at == [k \in 1 .. Len(wire[d]) + 1 |-> 0]
      <3>1. at \in [1 .. Len(wire[d]) + 1 -> 0 .. 0] /\ Cuts(at, wire[d], 0, 0)
        BY <1>1, <2>1 DEF Cuts
      <3>2. BytesFromTo(wire[d], 0, 0)
        BY <3>1 DEF BytesFromTo
      <3>. QED
        BY <1>1, <2>1, <3>2 DEF Offsets
    <2>. QED
      BY <2>2, <2>3, <2>4 DEF DirInv
  <1>. QED
    BY <1>2, <1>3 DEF StreamInv

(* A step of one direction leaves the other one alone.                      *)
Moves(d) == WriteSalt(d) \/ Write(d) \/ Writes(d) \/ Reads(d)

LEMMA OnlyOneMoves ==
  ASSUME TypeOK, NEW d \in Dirs, NEW e \in Dirs, e # d, Moves(d)
  PROVE  Still(e)
  <1>. USE DEF Still, TypeOK, WriterAt, ReaderAt, Put, Take, UseReadNonce, wvars, rvars
  <1>1. CASE WriteSalt(d) \/ Write(d)
    BY <1>1 DEF WriteSalt, Write
  <1>2. CASE Writes(d)
    BY <1>2 DEF Writes, WriteLength, WritePayload, WriteFails
  <1>3. CASE Read(d) \/ ReadSalt(d) \/ ReadFails(d)
    BY <1>3 DEF Read, ReadSalt, ReadFails
  <1>4. CASE ReadLeftover(d)
    BY <1>4 DEF ReadLeftover, Deliver
  <1>5. CASE ReadLength(d)
    BY <1>5 DEF ReadLength
  <1>6. CASE ReadPayload(d)
    BY <1>6 DEF ReadPayload, Deliver
  <1>. QED
    BY <1>1, <1>2, <1>3, <1>4, <1>5, <1>6 DEF Moves, Reads

LEMMA StepStream == StreamInv /\ [Next]_vars => StreamInv'
  <1>. SUFFICES ASSUME StreamInv, [Next]_vars PROVE StreamInv'
    OBVIOUS
  <1>0. TypeOK /\ \A d \in Dirs : DirInv(d)
    BY DEF StreamInv
  <1>1. ASSUME NEW d \in Dirs, Moves(d) PROVE StreamInv'
    <2>1. TypeOK' /\ DirInv(d)'
      BY <1>0, <1>1, WriteSaltKeeps, WriteKeeps, WriteLengthKeeps, WritePayloadKeeps,
         WriteFailsKeeps, ReadKeeps, ReadLeftoverKeeps, ReadSaltKeeps, ReadLengthKeeps,
         ReadPayloadKeeps, StopsKeeps DEF Moves, Writes, Reads, ReadFails
    <2>2. ASSUME NEW e \in Dirs, e # d PROVE DirInv(e)'
      BY <1>0, <1>1, <2>2, OnlyOneMoves, StillKeeps
    <2>. QED
      BY <2>1, <2>2 DEF StreamInv
  <1>2. CASE TimesOut
    <2>1. TypeOK' /\ DirInv("down")'
      BY <1>0, <1>2, StopsKeeps DEF TimesOut, Dirs
    <2>2. Still("up")
      BY <1>0, <1>2 DEF TimesOut, Still, ReaderAt, TypeOK, wvars, Dirs
    <2>3. DirInv("up")'
      BY <1>0, <2>2, StillKeeps DEF Dirs
    <2>. QED
      BY <2>1, <2>3 DEF StreamInv, Dirs
  <1>3. CASE End \/ UNCHANGED vars
    <2>1. TypeOK' /\ \A d \in Dirs : Still(d)
      BY <1>0, <1>3 DEF End, vars, wvars, rvars, Still, TypeOK
    <2>. QED
      BY <1>0, <2>1, StillKeeps DEF StreamInv
  <1>. QED
    BY <1>1, <1>2, <1>3 DEF Next, Ended, Moves

(* The inductive invariant holds whatever the sizes of chunks, buffers and   *)
(* writes, wherever the stream ends and whichever goroutine is ahead.       *)
THEOREM StreamInvariant == Spec => []StreamInv
  BY InitStream, StepStream, PTL DEF Spec

(* Neither side ever fails to decrypt what the other has sent.              *)
THEOREM NothingIsForged == Spec => []NothingForged
  <1>1. StreamInv => NothingForged
    BY DEF StreamInv, DirInv, Counters, NothingForged
  <1>. QED
    BY <1>1, StreamInvariant, PTL

(* No nonce seals two items of one direction, and none on the wire is used  *)
(* again.                                                                   *)
THEOREM NoncesAreOnce == Spec => []NoncesOnce
  <1>1. ASSUME StreamInv, NEW d \in Dirs,
               NEW i \in DOMAIN wire[d], wire[d][i].kind # "salt"
        PROVE  /\ wire[d][i].nonce < writeNonce[d]
               /\ \A j \in DOMAIN wire[d] :
                    wire[d][j].kind # "salt" /\ i < j => wire[d][i].nonce < wire[d][j].nonce
    <2>1. PICK b \in 0 .. writeNonce[d] + 1 :
            NumberedFrom(wire[d], b) /\ b + Len(wire[d]) <= writeNonce[d] + 1
      BY <1>1 DEF StreamInv, DirInv, Numbered
    <2>2. /\ Len(wire[d]) \in Nat /\ DOMAIN wire[d] = 1 .. Len(wire[d])
          /\ writeNonce[d] \in Nat /\ b \in Nat
      BY <1>1, WireAt DEF StreamInv, TypeOK
    <2>3. ASSUME NEW k \in DOMAIN wire[d], wire[d][k].kind # "salt"
          PROVE  wire[d][k].nonce = b + k - 2
      <3>1. Is(wire[d][k], b + k - 1) /\ b + k - 1 \in Nat
        BY <2>1, <2>2 DEF NumberedFrom
      <3>2. b + k - 1 # 0
        BY <2>3, <3>1 DEF Is, Kind
      <3>. QED
        BY <2>2, <3>1, <3>2 DEF Is
    <2>. QED
      BY <1>1, <2>1, <2>2, <2>3
  <1>2. StreamInv => NoncesOnce
    BY <1>1 DEF NoncesOnce
  <1>. QED
    BY <1>2, StreamInvariant, PTL
-----------------------------------------------------------------------------
(* What a step of the stream is to the users of direction d.                *)
Sends(d) == written'[d] > written[d] /\ delivered'[d] = delivered[d]

Delivers(d) ==
    /\ \E n \in 1 .. written[d] - Len(delivered[d]) :
         delivered'[d] = delivered[d] \o [i \in 1 .. n |-> Len(delivered[d]) + i]
    /\ written'[d] = written[d]

Stutters(d) == written'[d] = written[d] /\ delivered'[d] = delivered[d]

(* Bytes that come out in order, more than before and no more than went in. *)
LEMMA InOrderDelivers ==
  ASSUME NEW d \in Dirs, NEW before \in Seq(Nat), NEW after \in Seq(Nat), NEW n \in Nat,
         \A i \in DOMAIN after : after[i] = i, \A i \in DOMAIN before : before[i] = i,
         Len(after) = Len(before) + n
  PROVE  after = before \o [i \in 1 .. n |-> Len(before) + i]
  <1>. DEFINE more == [i \in 1 .. n |-> Len(before) + i]
  <1>1. /\ Len(before) \in Nat /\ DOMAIN before = 1 .. Len(before)
        /\ DOMAIN after = 1 .. Len(before) + n
    BY LenProperties
  <1>2. more \in [1 .. n -> Nat]
    BY <1>1
  <1>3. more \in Seq(Nat)
    BY <1>2, SeqDef
  <1>4. Len(more) = n
    BY <1>2, <1>3, LenProperties
  <1>5. \A i \in 1 .. n : more[i] = Len(before) + i
    OBVIOUS
  <1>. HIDE DEF more
  <1>6. /\ before \o more \in Seq(Nat) /\ Len(before \o more) = Len(before) + n
        /\ \A i \in 1 .. Len(before) + n :
             (before \o more)[i] = IF i <= Len(before) THEN before[i] ELSE more[i - Len(before)]
    BY <1>3, <1>4, ConcatProperties
  <1>7. ASSUME NEW i \in 1 .. Len(before) + n
        PROVE  (before \o more)[i] = i
    <2>1. CASE i <= Len(before)
      <3>1. i \in DOMAIN before
        BY <1>1, <2>1
      <3>2. (before \o more)[i] = before[i]
        BY <1>6, <2>1
      <3>. QED
        BY <3>1, <3>2
    <2>2. CASE ~(i <= Len(before))
      <3>1. i - Len(before) \in 1 .. n /\ Len(before) + (i - Len(before)) = i
        BY <1>1, <2>2
      <3>. QED
        BY <1>5, <1>6, <2>2, <3>1
    <2>. QED
      BY <2>1, <2>2
  <1>8. \A i \in 1 .. Len(after) : after[i] = (before \o more)[i]
    <2>1. 1 .. Len(after) = DOMAIN after /\ DOMAIN after = 1 .. Len(before) + n
      BY <1>1
    <2>. SUFFICES ASSUME NEW i \in 1 .. Len(after) PROVE after[i] = (before \o more)[i]
      OBVIOUS
    <2>2. i \in DOMAIN after /\ i \in 1 .. Len(before) + n
      BY <2>1, Zenon
    <2>3. after[i] = i /\ (before \o more)[i] = i
      BY <1>7, <2>2
    <2>. QED
      BY <2>3
  <1>9. after = before \o more
    BY <1>6, <1>8, SeqEqual
  <1>. QED
    BY <1>9 DEF more

(* Deliver hands out a byte at least, and none that was not written.        *)
LEMMA DeliverDelivers ==
  ASSUME StreamInv, StreamInv', NEW d \in Dirs, NEW buf \in Seq(Nat), buf # <<>>, Deliver(d, buf),
         \A i \in DOMAIN buf : buf[i] = Len(delivered[d]) + i,
         Len(delivered[d]) + Len(buf) <= written[d], written' = written
  PROVE  Delivers(d)
  <1>. DEFINE n == Least(ReadSize, Len(buf))
  <1>1. /\ delivered[d] \in Seq(Nat) /\ delivered'[d] \in Seq(Nat) /\ written[d] \in Nat
        /\ \A i \in DOMAIN delivered[d] : delivered[d][i] = i
        /\ \A i \in DOMAIN delivered'[d] : delivered'[d][i] = i
    BY DEF StreamInv, TypeOK, DirInv, InOrder
  <1>2. Len(buf) \in Nat \ {0} /\ Len(delivered[d]) \in Nat
    BY <1>1, EmptySeq, LenProperties
  <1>3. n \in Nat \ {0} /\ n <= Len(buf)
    BY <1>2, AEADAssumption DEF Least
  <1>4. Len(delivered'[d]) = Len(delivered[d]) + n
    BY <1>1, DeliverKeeps DEF StreamInv
  <1>. HIDE DEF n
  <1>5. delivered'[d] = delivered[d] \o [i \in 1 .. n |-> Len(delivered[d]) + i]
    BY <1>1, <1>3, <1>4, InOrderDelivers
  <1>6. n \in 1 .. written[d] - Len(delivered[d])
    BY <1>1, <1>2, <1>3
  <1>. QED
    BY <1>5, <1>6 DEF Delivers

LEMMA StepRefines ==
  ASSUME StreamInv, StreamInv', [Next]_vars, NEW d \in Dirs
  PROVE  Sends(d) \/ Delivers(d) \/ Stutters(d)
  <1>0. TypeOK /\ DirInv(d)
    BY DEF StreamInv
  <1>1. ASSUME NEW e \in Dirs, e # d, Moves(e) PROVE Stutters(d)
    BY <1>0, <1>1, OnlyOneMoves DEF Still, Stutters
  <1>2. CASE Write(d)
    <2>1. PICK n \in 1 .. MaxWrite : written' = [written EXCEPT ![d] = @ + n]
      BY <1>2 DEF Write
    <2>2. written[d] \in Nat /\ n \in Nat \ {0} /\ written'[d] = written[d] + n
      BY <1>0, <2>1, AEADAssumption DEF TypeOK
    <2>3. written'[d] > written[d]
      BY <2>2
    <2>. QED
      BY <1>2, <2>3 DEF Write, rvars, Sends
  <1>3. CASE ReadLeftover(d)
    <2>1. readBuf[d] \in Seq(Nat) /\ Len(readBuf[d]) \in Nat /\ Len(delivered[d]) \in Nat
      BY <1>0, LenProperties DEF TypeOK
    <2>2. Len(delivered[d]) + Len(readBuf[d]) <= written[d]
      <3>1. written[d] \in Nat /\ rest[d] \in Nat /\ rest[d] <= written[d]
        BY <1>0 DEF TypeOK, DirInv, Rests
      <3>2. PICK at \in [1 .. Len(wire[d]) + 1 -> 0 .. written[d] - rest[d]] :
              Cuts(at, wire[d], Len(delivered[d]) + Len(readBuf[d]), written[d] - rest[d])
        BY <1>0 DEF DirInv, Offsets, BytesFromTo
      <3>3. Len(wire[d]) \in Nat
        BY <1>0, WireAt
      <3>4. at[1] \in 0 .. written[d] - rest[d]
        BY <3>3
      <3>5. at[1] = Len(delivered[d]) + Len(readBuf[d])
        BY <3>2 DEF Cuts
      <3>6. \A a \in 0 .. written[d] - rest[d] : a <= written[d]
        BY <3>1
      <3>. QED
        BY <3>4, <3>5, <3>6
    <2>. QED
      BY <1>0, <1>3, <2>1, <2>2, DeliverDelivers DEF ReadLeftover, wvars, DirInv, InOrder
  <1>4. CASE ReadPayload(d)
    <2>. DEFINE bytes == Head(wire[d]).bytes
    <2>1. /\ reader[d] = "payload" /\ wire[d] # <<>> /\ Take(d)
          /\ written' = written /\ rest' = rest
      BY <1>4 DEF ReadPayload, wvars
    <2>2. Deliver(d, bytes)
      BY <1>0, <1>4, PayloadOpens
    <2>3. bytes \in Seq(Nat) /\ bytes # <<>>
      <3>1. /\ Head(wire[d]) = wire[d][1] /\ wire[d][1] \in Item
            /\ 1 \in DOMAIN wire[d]
        BY <1>0, <2>1, TakeAt
      <3>2. Len(bytes) = expect[d] /\ Head(wire[d]).kind = "payload"
        <4>1. StreamInv' => reader'[d] # "forged"
          BY DEF StreamInv, DirInv, Counters
        <4>. QED
          BY <1>0, <1>4, <4>1 DEF ReadPayload, ReaderAt, Arrives, TypeOK
      <3>. QED
        BY <1>0, <3>1, <3>2 DEF Item, DirInv, Sized
    <2>4. /\ Len(delivered[d]) + Len(readBuf[d]) = Len(delivered[d])
          /\ Len(delivered[d]) \in Nat /\ Len(bytes) \in Nat
      <3>1. Len(readBuf[d]) = 0
        BY <1>0, <2>1, EmptySeq DEF DirInv, InOrder
      <3>2. Len(delivered[d]) \in Nat
        BY <1>0, LenProperties DEF TypeOK
      <3>. QED
        BY <2>3, <3>1, <3>2, LenProperties
    <2>5. /\ \A j \in DOMAIN bytes : bytes[j] = Len(delivered[d]) + Len(readBuf[d]) + j
          /\ Len(delivered[d]) + Len(readBuf[d]) + Len(bytes) <= written[d] - rest[d]
      BY <1>0, <2>1, OffsetsHead
    <2>. HIDE DEF bytes
    <2>6. /\ \A j \in DOMAIN bytes : bytes[j] = Len(delivered[d]) + j
          /\ Len(delivered[d]) + Len(bytes) <= written[d]
      <3>1. written[d] \in Nat /\ rest[d] \in Nat
        BY <1>0 DEF TypeOK
      <3>2. \A j \in DOMAIN bytes : bytes[j] = Len(delivered[d]) + j
        BY <2>4, <2>5
      <3>3. Len(delivered[d]) + Len(bytes) <= written[d] - rest[d]
        BY <2>4, <2>5
      <3>4. Len(delivered[d]) + Len(bytes) <= written[d]
        BY <2>4, <3>1, <3>3
      <3>. QED
        BY <3>2, <3>4
    <2>. QED
      BY <2>1, <2>2, <2>3, <2>6, DeliverDelivers
  <1>5. CASE \/ WriteSalt(d) \/ Writes(d) \/ Read(d) \/ ReadSalt(d) \/ ReadLength(d) \/ ReadFails(d)
    BY <1>5 DEF WriteSalt, Writes, WriteLength, WritePayload, WriteFails, Read, ReadSalt, ReadLength,
                ReadFails, wvars, rvars, Stutters
  <1>6. CASE TimesOut \/ End \/ UNCHANGED vars
    BY <1>6 DEF TimesOut, End, vars, wvars, rvars, Stutters
  <1>. QED
    BY <1>1, <1>2, <1>3, <1>4, <1>5, <1>6 DEF Next, Ended, Moves, Reads

(* Each direction is a byte stream: the chunks, the salts and the buffers   *)
(* are not seen by those who Write and Read.                                *)
THEOREM StreamsAreByteStreams == Spec => ByteStreams
  <1>1. Init => Up!Init /\ Down!Init
    BY DEF Init, Each, Dirs, Up!Init, Down!Init
  <1>2. StreamInv /\ StreamInv' /\ [Next]_vars => [Up!Send \/ Up!Deliver]_<<written["up"], delivered["up"]>>
    BY StepRefines DEF Sends, Delivers, Stutters, Up!Send, Up!Deliver, Dirs
  <1>3. StreamInv /\ StreamInv' /\ [Next]_vars => [Down!Send \/ Down!Deliver]_<<written["down"], delivered["down"]>>
    BY StepRefines DEF Sends, Delivers, Stutters, Down!Send, Down!Deliver, Dirs
  <1>. QED
    BY <1>1, <1>2, <1>3, StreamInvariant, PTL
       DEF Spec, ByteStreams, Up!Spec, Down!Spec, Up!bytes, Down!bytes
=============================================================================
