----------------------------- MODULE AEADStream -----------------------------
(***************************************************************************)
(* The encrypted stream of the OwOSS client (aead.go) over one smux stream,*)
(* from the Dial that opens it (ss_manager.go:222-236) to the end of the   *)
(* relay, with the server's half of it (owo-ss-backend, not in this        *)
(* repository) as aead.go describes it: the same chunks, and a salt that   *)
(* is sent only when the first chunk, the target address, has been         *)
(* decrypted.                                                              *)
(*                                                                         *)
(* Direction "up" is written by the client and read by the server, "down"  *)
(* the reverse.  io.ReadFull takes one salt, length or payload whole, so   *)
(* these are the items of the wire.  A sealed item can be opened under the *)
(* nonce it was sealed with; the keys of the directions differ (their      *)
(* salts do).  Write and Read are called by different goroutines.          *)
(***************************************************************************)
EXTENDS Integers, Sequences

CONSTANTS
    MaxChunk,  \* maxChunkPlain: 65535 bytes in the code
    ReadSize,  \* bytes the buffer passed to Read has room for
    MaxWrite,  \* bytes passed to one Write
    MaxSent    \* bound: direction -> bytes written

Dirs == {"up", "down"}

ASSUME AEADAssumption ==
    /\ MaxChunk \in Nat \ {0} /\ ReadSize \in Nat \ {0} /\ MaxWrite \in Nat \ {0}
    /\ MaxSent \in [Dirs -> Nat]

VARIABLES
    alive,      \* the smux stream is open
    wire,       \* direction -> items written and not yet read
    writer,     \* direction -> where its writer is
    written,    \* direction -> bytes passed to Write so far
    rest,       \* direction -> of these, the bytes not yet in a payload written
    writeNonce, \* direction -> writeNonce.counter
    reader,     \* direction -> where its reader is
    readNonce,  \* direction -> readNonce.counter
    expect,     \* direction -> payloadLen
    readBuf,    \* direction -> readBuf
    delivered   \* direction -> the bytes Read has returned

vars  == <<alive, wire, writer, written, rest, writeNonce, reader, readNonce, expect, readBuf, delivered>>
wvars == <<writer, written, rest, writeNonce>>
rvars == <<reader, readNonce, expect, readBuf, delivered>>

Item == [kind : {"salt", "len", "payload"}, nonce : Nat, bytes : Seq(Nat), n : Nat]

TypeOK ==
    /\ alive \in BOOLEAN
    /\ wire \in [Dirs -> Seq(Item)]
    /\ writer \in [Dirs -> {"salt", "idle", "chunk", "payload", "failed"}]
    /\ written \in [Dirs -> Nat] /\ rest \in [Dirs -> Nat] /\ writeNonce \in [Dirs -> Nat]
    /\ reader \in [Dirs -> {"new", "salt", "idle", "len", "payload", "failed", "forged"}]
    /\ readNonce \in [Dirs -> Nat] /\ expect \in [Dirs -> Nat]
    /\ readBuf \in [Dirs -> Seq(Nat)]
    /\ delivered \in [Dirs -> Seq(Nat)]

Each(x) == [d \in Dirs |-> x]

Init ==
    /\ alive = TRUE
    /\ wire = Each(<<>>) /\ writer = Each("salt")
    /\ written = Each(0) /\ rest = Each(0) /\ writeNonce = Each(0)
    /\ reader = Each("new") /\ readNonce = Each(0) /\ expect = Each(0)
    /\ readBuf = Each(<<>>) /\ delivered = Each(<<>>)

WriterAt(d, l) == writer' = [writer EXCEPT ![d] = l]
ReaderAt(d, l) == reader' = [reader EXCEPT ![d] = l]
Put(d, item)   == wire' = [wire EXCEPT ![d] = Append(@, item)]

(* The target address has been written: Dial returns, and the relay begins. *)
Dialed == written["up"] > 0 /\ written["up"] - rest["up"] > 0

(* A name with an underscore is a definition as a plausible mistake would   *)
(* have written it; no action uses it.  This one reads the server's salt in *)
(* the constructor.                                                         *)
MayWrite_SaltReadFirst(d) == d = "up" => reader["down"] \notin {"new", "salt"}
MayWrite(d) == TRUE

(* newAEADClientStream; the server waits for the first chunk.               *)
WriteSalt(d) ==
    /\ alive
    /\ writer[d] = "salt"
    /\ d = "down" => delivered["up"] # <<>>
    /\ Put(d, [kind |-> "salt", nonce |-> 0, bytes |-> <<>>, n |-> 0])
    /\ WriterAt(d, "idle")
    /\ UNCHANGED <<alive, written, rest, writeNonce, rvars>>

(* Write is called: for the target address, whose length does not matter    *)
(* here, and then for what the relay has read.                              *)
Write(d) ==
    /\ alive
    /\ writer[d] = "idle"
    /\ MayWrite(d)
    /\ \E n \in 1..MaxWrite :
         /\ written[d] + n <= MaxSent[d]
         /\ d = "up" /\ written[d] = 0 => n = 1
         /\ written' = [written EXCEPT ![d] = @ + n]
         /\ rest' = [rest EXCEPT ![d] = n]
    /\ WriterAt(d, "chunk")
    /\ UNCHANGED <<alive, wire, writeNonce, rvars>>

ChunkSize(d) == IF rest[d] > MaxChunk THEN MaxChunk ELSE rest[d]

(* The length and the payload of a chunk are sealed, under two nonces, and  *)
(* the length is written.                                                   *)
WriteLength(d) ==
    /\ alive
    /\ writer[d] = "chunk"
    /\ Put(d, [kind |-> "len", nonce |-> writeNonce[d], bytes |-> <<>>, n |-> ChunkSize(d)])
    /\ writeNonce' = [writeNonce EXCEPT ![d] = @ + 2]
    /\ WriterAt(d, "payload")
    /\ UNCHANGED <<alive, written, rest, rvars>>

PayloadNonce_OfLength(d) == writeNonce[d] - 2
PayloadNonce(d) == writeNonce[d] - 1

(* The sealed payload follows; Write goes on to the next chunk or returns.  *)
WritePayload(d) ==
    /\ alive
    /\ writer[d] = "payload"
    /\ LET from == written[d] - rest[d]
       IN  Put(d, [kind |-> "payload", nonce |-> PayloadNonce(d), n |-> 0,
                   bytes |-> [i \in 1..ChunkSize(d) |-> from + i]])
    /\ rest' = [rest EXCEPT ![d] = @ - ChunkSize(d)]
    /\ WriterAt(d, IF rest[d] > MaxChunk THEN "chunk" ELSE "idle")
    /\ UNCHANGED <<alive, written, writeNonce, rvars>>

(* A write to the stream fails; the relay writes no more.                   *)
WriteFails(d) ==
    /\ ~alive
    /\ writer[d] # "failed"
    /\ WriterAt(d, "failed")
    /\ UNCHANGED <<alive, wire, written, rest, writeNonce, rvars>>

(* Read is called with nothing left in readBuf.                             *)
Read(d) ==
    /\ d = "down" => Dialed
    /\ reader[d] \in {"new", "idle"}
    /\ readBuf[d] = <<>>
    /\ ReaderAt(d, IF reader[d] = "new" THEN "salt" ELSE "len")
    /\ UNCHANGED <<alive, wire, wvars, readNonce, expect, readBuf, delivered>>

Least(m, n) == IF m <= n THEN m ELSE n

Deliver_Rest(d, buf) ==
    /\ delivered' = [delivered EXCEPT ![d] = @ \o SubSeq(buf, 1, Least(ReadSize, Len(buf)))]
    /\ readBuf' = [readBuf EXCEPT ![d] = <<>>]

(* copy(p, s.readBuf)                                                       *)
Deliver(d, buf) ==
    LET n == Least(ReadSize, Len(buf))
    IN  /\ delivered' = [delivered EXCEPT ![d] = @ \o SubSeq(buf, 1, n)]
        /\ readBuf' = [readBuf EXCEPT ![d] = SubSeq(buf, n + 1, Len(buf))]

(* Read is called and returns from readBuf.                                 *)
ReadLeftover(d) ==
    /\ reader[d] = "idle"
    /\ readBuf[d] # <<>>
    /\ Deliver(d, readBuf[d])
    /\ UNCHANGED <<alive, wire, wvars, reader, readNonce, expect>>

Arrives(d, kind) == wire[d] # <<>> /\ Head(wire[d]).kind = kind
Take(d) == wire' = [wire EXCEPT ![d] = Tail(@)]

(* readInit, and on to the first chunk in the same Read.                    *)
ReadSalt(d) ==
    /\ reader[d] = "salt"
    /\ Arrives(d, "salt")
    /\ Take(d)
    /\ ReaderAt(d, "len")
    /\ UNCHANGED <<alive, wvars, readNonce, expect, readBuf, delivered>>

(* The nonce is used up whether or not Open succeeds.                       *)
Opens(d) == Head(wire[d]).nonce = readNonce[d]
UseReadNonce(d) == readNonce' = [readNonce EXCEPT ![d] = @ + 1]

(* readNextChunk: the length, ...                                           *)
ReadLength(d) ==
    /\ reader[d] = "len"
    /\ wire[d] # <<>>
    /\ Take(d)
    /\ UseReadNonce(d)
    /\ IF Arrives(d, "len") /\ Opens(d)
       THEN ReaderAt(d, "payload") /\ expect' = [expect EXCEPT ![d] = Head(wire[d]).n]
       ELSE ReaderAt(d, "forged") /\ UNCHANGED expect
    /\ UNCHANGED <<alive, wvars, readBuf, delivered>>

(* ... and the payload of the chunk.                                        *)
ReadPayload(d) ==
    /\ reader[d] = "payload"
    /\ wire[d] # <<>>
    /\ Take(d)
    /\ UseReadNonce(d)
    /\ IF Arrives(d, "payload") /\ Len(Head(wire[d]).bytes) = expect[d] /\ Opens(d)
       THEN ReaderAt(d, "idle") /\ Deliver(d, Head(wire[d]).bytes)
       ELSE ReaderAt(d, "forged") /\ UNCHANGED <<readBuf, delivered>>
    /\ UNCHANGED <<alive, wvars, expect>>

(* io.ReadFull fails: the stream has ended, with or without its last items. *)
ReadFails(d) ==
    /\ ~alive
    /\ reader[d] \in {"salt", "len", "payload"}
    /\ ReaderAt(d, "failed")
    /\ UNCHANGED <<alive, wire, wvars, readNonce, expect, readBuf, delivered>>

(* aeadIdleTimeout: readNextChunk has set a read deadline, readInit has not.*)
TimesOut ==
    /\ reader["down"] \in {"len", "payload"}
    /\ ReaderAt("down", "failed")
    /\ UNCHANGED <<alive, wire, wvars, readNonce, expect, readBuf, delivered>>

(* The stream is closed at either end, or its session dies.                 *)
End ==
    /\ alive
    /\ alive' = FALSE
    /\ UNCHANGED <<wire, wvars, rvars>>
-----------------------------------------------------------------------------
Writes(d) == WriteLength(d) \/ WritePayload(d) \/ WriteFails(d)
Reads(d)  == Read(d) \/ ReadLeftover(d) \/ ReadSalt(d) \/ ReadLength(d) \/ ReadPayload(d) \/ ReadFails(d)
Ended     == ~alive /\ UNCHANGED vars

Next ==
    \/ \E d \in Dirs : WriteSalt(d) \/ Write(d) \/ Writes(d) \/ Reads(d)
    \/ TimesOut \/ End \/ Ended

Spec == Init /\ [][Next]_vars

(* The goroutines of the relay run, the client's Dial goes on from the salt *)
(* to the address, and the server reads; the server need not write.         *)
Fairness ==
    /\ WF_vars(WriteSalt("up")) /\ WF_vars(Write("up") /\ ~Dialed)
    /\ WF_vars(TimesOut)
    /\ \A d \in Dirs : WF_vars(Writes(d)) /\ WF_vars(Reads(d))

FairSpec == Spec /\ Fairness
-----------------------------------------------------------------------------
(* Neither side ever fails to decrypt what the other has sent: the nonce    *)
(* counters stay in step across chunks and failures, and every item is read *)
(* as what it is (aead.go:74-80, 180-191, 236-255).                         *)
NothingForged == \A d \in Dirs : reader[d] # "forged"

(* No nonce is used twice under one key, whatever fails in a Write: what is *)
(* on the wire is sealed in counter order and below the counter             *)
(* (aead.go:65-80, 180-184).                                                *)
NoncesOnce ==
    \A d \in Dirs : \A i, j \in {k \in DOMAIN wire[d] : wire[d][k].kind # "salt"} :
      /\ i < j => wire[d][i].nonce < wire[d][j].nonce
      /\ wire[d][i].nonce < writeNonce[d]

Up   == INSTANCE ByteStream WITH sent <- written["up"], delivered <- delivered["up"]
Down == INSTANCE ByteStream WITH sent <- written["down"], delivered <- delivered["down"]

(* Whatever the sizes of chunks and buffers, each direction is a byte       *)
(* stream: what Write splits and Read hands out piecemeal is put together   *)
(* again in order, without gap or repetition (aead.go:165-216).             *)
ByteStreams == Up!Spec /\ Down!Spec

(* Dial does not wait for a server that waits for Dial: the target address  *)
(* is sent, unless the stream ends (aead.go:98-108).                       *)
DialReturns == <>(Dialed \/ ~alive)

(* "if the peer has not sent a byte for longer than this, we take the       *)
(* connection for dead and interrupt the blocking Read() ourselves"         *)
(* (aead.go:218-220).                                                       *)
SilentPeerNoticed ==
    reader["down"] \in {"salt", "len", "payload"} ~> reader["down"] \notin {"salt", "len", "payload"}
-----------------------------------------------------------------------------
(* What makes NothingForged and NoncesOnce inductive, and the refinement     *)
(* provable.  The items of a direction are the salt, number 0, and then in   *)
(* turn lengths and payloads, number k sealed under nonce k - 1.             *)
Kind(k) == IF k = 0 THEN "salt" ELSE IF k % 2 = 1 THEN "len" ELSE "payload"

NextWritten(d) ==
    CASE writer[d] = "salt"    -> 0
      [] writer[d] = "payload" -> writeNonce[d]
      [] OTHER                 -> writeNonce[d] + 1

NextRead(d) == IF reader[d] \in {"new", "salt"} THEN 0 ELSE readNonce[d] + 1

(* The wire is a stretch of them, between what is read next and what is     *)
(* written next.                                                            *)
Is(item, k) == item.kind = Kind(k) /\ (k # 0 => item.nonce = k - 1)

NumberedFrom(items, b) == \A i \in DOMAIN items : Is(items[i], b + i - 1)

Numbered(d) ==
    \E b \in 0 .. writeNonce[d] + 1 :
      /\ NumberedFrom(wire[d], b)
      /\ b + Len(wire[d]) <= writeNonce[d] + 1
      /\ writer[d] # "failed" => b + Len(wire[d]) = NextWritten(d)
      /\ reader[d] # "failed" => b = NextRead(d)

Counters(d) ==
    /\ writeNonce[d] % 2 = 0
    /\ writer[d] = "salt" => writeNonce[d] = 0
    /\ writer[d] = "payload" => writeNonce[d] > 0
    /\ reader[d] \in {"new", "salt"} => readNonce[d] = 0
    /\ reader[d] \in {"idle", "len"} => readNonce[d] % 2 = 0
    /\ reader[d] = "payload" => readNonce[d] % 2 = 1
    /\ reader[d] # "forged"

Rests(d) ==
    /\ rest[d] <= written[d]
    /\ writer[d] \in {"salt", "idle"} => rest[d] = 0
    /\ writer[d] \in {"chunk", "payload"} => rest[d] > 0

(* A length announces the payload after it.                                 *)
Sized(d) ==
    /\ \A i \in DOMAIN wire[d] : (wire[d][i].bytes # <<>>) <=> (wire[d][i].kind = "payload")
    /\ \A i \in 1 .. Len(wire[d]) - 1 :
         wire[d][i].kind = "len" => wire[d][i].n = Len(wire[d][i + 1].bytes)
    /\ writer[d] = "payload" /\ wire[d] # <<>> => wire[d][Len(wire[d])].n = ChunkSize(d)
    /\ reader[d] = "payload" =>
         IF wire[d] = <<>> THEN writer[d] = "payload" => expect[d] = ChunkSize(d)
         ELSE expect[d] = Len(wire[d][1].bytes)

(* The bytes read and those left over are the first ones, in order;         *)
InOrder(d) ==
    /\ \A i \in DOMAIN delivered[d] : delivered[d][i] = i
    /\ \A i \in DOMAIN readBuf[d] : readBuf[d][i] = Len(delivered[d]) + i
    /\ reader[d] \in {"new", "salt", "len", "payload"} => readBuf[d] = <<>>

(* those on the wire are the ones between them and what is still to be      *)
(* written: at[i] bytes come before item i.                                 *)
Cuts(at, items, from, to) ==
    /\ at[1] = from /\ at[Len(items) + 1] = to
    /\ \A i \in DOMAIN items :
         /\ at[i + 1] = at[i] + Len(items[i].bytes)
         /\ \A j \in DOMAIN items[i].bytes : items[i].bytes[j] = at[i] + j

BytesFromTo(items, from, to) ==
    \E at \in [1 .. Len(items) + 1 -> 0 .. to] : Cuts(at, items, from, to)

Offsets(d) ==
    BytesFromTo(wire[d], Len(delivered[d]) + Len(readBuf[d]), written[d] - rest[d])

DirInv(d) == Numbered(d) /\ Counters(d) /\ Rests(d) /\ Sized(d) /\ InOrder(d) /\ Offsets(d)

StreamInv == TypeOK /\ \A d \in Dirs : DirInv(d)
=============================================================================
