-------------------------------- MODULE Pipe --------------------------------
(***************************************************************************)
(* SOCKS5Server.pipe (socks5_server.go:616-680): two goroutines copy the    *)
(* bytes of one connection in each direction; when the first of them ends, *)
(* pipe closes both connections and waits for the second.  RelayServer     *)
(* ends its handler with the same loop and no cap (MaxBytes = 0).          *)
(*                                                                         *)
(* On the OwOSS route upstream is an aeadStream (aead.go), whose Read gives *)
(* up after 90 s without a chunk and which is relayed without a cap.        *)
(*                                                                         *)
(* Bytes are counted, not represented.  Each connection is named for the   *)
(* end it leads to, and a direction is "down" (to the client) or "up".     *)
(* What is written to a connection is what the kernel has accepted.        *)
(***************************************************************************)
EXTENDS Integers

CONSTANTS
    Buf,       \* size of the buffer of one Read (256 KiB in the code)
    MaxBytes,  \* profile.MaxBytes; 0 is no limit
    Share,     \* an upload is heavy from one byte in Share on (20 in the code)
    MaxSent    \* bound: bytes an end sends

ASSUME PipeAssumption ==
    /\ Buf \in Nat \ {0} /\ MaxBytes \in Nat /\ Share \in Nat \ {0} /\ MaxSent \in Nat

Ends == {"client", "server"}
Dirs == {"down", "up"}
Src  == [down |-> "server", up |-> "client"]
Dst  == [down |-> "client", up |-> "server"]

VARIABLES
    upstream,  \* "conn" or, on the OwOSS route, "aead": an aeadStream
    end,       \* end -> "open", "fin" (it has stopped sending) or "gone"
    sent,      \* direction -> bytes its source has sent
    pc,        \* direction -> where its goroutine is; see Ended
    chunk,     \* direction -> n of the last Read, until it is counted
    got,       \* direction -> bytes read
    put,       \* direction -> bytes written
    cnt,       \* direction -> stats.BytesDown, stats.BytesUp
    closed,    \* the connections pipe has closed
    wait       \* pipe awaits the "first" or the "second" goroutine, or has "returned"

vars == <<upstream, end, sent, pc, chunk, got, put, cnt, closed, wait>>
peers == <<upstream, end, sent>>
data  == <<chunk, got, put, cnt>>

Ended(d) == pc[d] \in {"eof", "failed", "cut", "silent"}

IsAead == upstream = "aead"

(* The cap of this relay: SessionProfile{MaxBytes: 0} for an aeadStream.    *)
Cap == IF IsAead THEN 0 ELSE MaxBytes

TypeOK ==
    /\ upstream \in {"conn", "aead"}
    /\ end \in [Ends -> {"open", "fin", "gone"}]
    /\ sent \in [Dirs -> Nat]
    /\ pc \in [Dirs -> {"salt", "read", "write", "count", "cap", "ratio",
                      "eof", "failed", "cut", "silent"}]
    /\ chunk \in [Dirs -> Nat] /\ got \in [Dirs -> Nat]
    /\ put \in [Dirs -> Nat] /\ cnt \in [Dirs -> Nat]
    /\ closed \subseteq Ends
    /\ wait \in {"first", "second", "returned"}

Zero == [d \in Dirs |-> 0]

Init ==
    /\ upstream \in {"conn", "aead"}
    /\ end = [e \in Ends |-> "open"]
    /\ sent = Zero /\ chunk = Zero /\ got = Zero /\ put = Zero /\ cnt = Zero
    /\ pc = [d \in Dirs |-> IF d = "down" /\ IsAead THEN "salt" ELSE "read"]
    /\ closed = {}
    /\ wait = "first"

Goto(d, l) == pc' = [pc EXCEPT ![d] = l]
Add(f, d, n) == [f EXCEPT ![d] = @ + n]

(* The first Read of an aeadStream takes the server's salt, when it comes.  *)
ReadSalt ==
    /\ pc["down"] = "salt"
    /\ "server" \notin closed
    /\ Goto("down", "read")
    /\ UNCHANGED <<peers, data, closed, wait>>

(* Read returns data.                                                       *)
ReadData(d) ==
    /\ pc[d] = "read"
    /\ Src[d] \notin closed
    /\ \E n \in 1..Buf :
         /\ got[d] + n <= sent[d]
         /\ chunk' = [chunk EXCEPT ![d] = n]
         /\ got' = Add(got, d, n)
    /\ Goto(d, "write")
    /\ UNCHANGED <<peers, put, cnt, closed, wait>>

(* A name with an underscore is a definition as a plausible mistake would   *)
(* have written it; no action uses it.                                      *)
NoMoreData_Yet(d) == got[d] = sent[d]
NoMoreData(d) == got[d] = sent[d] /\ end[Src[d]] # "open"

(* Read returns io.EOF: all is read and the source sends no more.           *)
ReadEof(d) ==
    /\ pc[d] = "read"
    /\ Src[d] \notin closed
    /\ NoMoreData(d)
    /\ Goto(d, "eof")
    /\ UNCHANGED <<peers, data, closed, wait>>

(* Read fails: the connection was reset, with what it still held, or closed *)
(* here, or an aeadStream ends within its salt or a chunk.                  *)
ReadFails(d) ==
    /\ pc[d] \in {"salt", "read"}
    /\ \/ Src[d] \in closed \/ end[Src[d]] = "gone"
       \/ d = "down" /\ IsAead /\ end["server"] = "fin"
    /\ Goto(d, "failed")
    /\ UNCHANGED <<peers, data, closed, wait>>

(* aeadIdleTimeout: no whole chunk has come for 90 s.  The wait for the salt *)
(* has no deadline.                                                         *)
ReadTimesOut_Never == FALSE
ReadTimesOut ==
    /\ IsAead /\ pc["down"] = "read"
    /\ "server" \notin closed
    /\ Goto("down", "silent")
    /\ UNCHANGED <<peers, data, closed, wait>>

(* Write has room for the whole chunk.                                      *)
WriteOk(d) ==
    /\ pc[d] = "write"
    /\ Dst[d] \notin closed
    /\ put' = Add(put, d, chunk[d])
    /\ Goto(d, "count")
    /\ UNCHANGED <<peers, chunk, got, cnt, closed, wait>>

(* Write fails, perhaps in the middle of the chunk; nothing of it is        *)
(* counted.                                                                 *)
WriteFails(d) ==
    /\ pc[d] = "write"
    /\ Dst[d] \in closed \/ end[Dst[d]] = "gone"
    /\ \E n \in 0..(Buf - 1) : n < chunk[d] /\ put' = Add(put, d, n)
    /\ Goto(d, "failed")
    /\ UNCHANGED <<peers, chunk, got, cnt, closed, wait>>

Counted_WholeBuffer(d) == Buf
Counted(d) == chunk[d]

(* atomic.AddInt64; the upload is never held against the cap.               *)
Count(d) ==
    /\ pc[d] = "count"
    /\ cnt' = Add(cnt, d, Counted(d))
    /\ chunk' = [chunk EXCEPT ![d] = 0]
    /\ Goto(d, IF d = "down" /\ Cap > 0 THEN "cap" ELSE "read")
    /\ UNCHANGED <<peers, got, put, closed, wait>>

OverCap == cnt["down"] + cnt["up"] > Cap

(* upRatio >= 0.05                                                          *)
HeavyUpload == Share * cnt["up"] >= cnt["down"] + cnt["up"] + 1

(* BytesUp is loaded twice, and may have grown in between: once for the cap *)
CapTest ==
    /\ pc["down"] = "cap"
    /\ Goto("down", IF OverCap THEN "ratio" ELSE "read")
    /\ UNCHANGED <<peers, data, closed, wait>>

RatioTest_Unconditional ==
    /\ pc["down"] = "ratio"
    /\ Goto("down", "cut") /\ closed' = Ends
    /\ UNCHANGED <<peers, data, wait>>

(* and once for the ratio.                                                  *)
RatioTest ==
    /\ pc["down"] = "ratio"
    /\ IF HeavyUpload
       THEN Goto("down", "cut") /\ closed' = Ends
       ELSE Goto("down", "read") /\ UNCHANGED closed
    /\ UNCHANGED <<peers, data, wait>>

CloseBoth_ConnOnly == closed' = closed \cup {"client"}
CloseBoth == closed' = Ends

(* <-done, conn.Close(), upstream.Close()                                   *)
FirstDone ==
    /\ wait = "first"
    /\ \E d \in Dirs : Ended(d)
    /\ CloseBoth
    /\ wait' = "second"
    /\ UNCHANGED <<peers, pc, data>>

BothDone_OneIsEnough == \E d \in Dirs : Ended(d)
BothDone == \A d \in Dirs : Ended(d)

(* <-done, and pipe returns.                                                *)
SecondDone ==
    /\ wait = "second"
    /\ BothDone
    /\ wait' = "returned"
    /\ UNCHANGED <<peers, pc, data, closed>>

(* The ends: the client, and whatever upstream leads to.                    *)
Send(d) ==
    /\ end[Src[d]] = "open" /\ sent[d] < MaxSent
    /\ sent' = Add(sent, d, 1)
    /\ UNCHANGED <<upstream, end, pc, data, closed, wait>>

Fin(e) ==
    /\ end[e] = "open"
    /\ end' = [end EXCEPT ![e] = "fin"]
    /\ UNCHANGED <<upstream, sent, pc, data, closed, wait>>

Vanish(e) ==
    /\ end[e] # "gone"
    /\ end' = [end EXCEPT ![e] = "gone"]
    /\ UNCHANGED <<upstream, sent, pc, data, closed, wait>>
-----------------------------------------------------------------------------
Reads(d)   == ReadData(d) \/ ReadEof(d) \/ ReadFails(d) \/ (d = "down" /\ ReadTimesOut)
Peers(e)   == Fin(e) \/ Vanish(e)
Returned   == wait = "returned" /\ UNCHANGED vars

Next ==
    \/ \E d \in Dirs : Reads(d) \/ WriteOk(d) \/ WriteFails(d) \/ Count(d) \/ Send(d)
    \/ ReadSalt \/ CapTest \/ RatioTest \/ FirstDone \/ SecondDone \/ Returned
    \/ \E e \in Ends : Peers(e)

Spec == Init /\ [][Next]_vars

(* Goroutines run, and calls on a connection that is closed or reset return.*)
(* A Write to an open connection may block for ever: its end need not read. *)
(* The only deadline during the relay is that of an aeadStream, once it has *)
(* its salt, which need not come.                                           *)
Fairness ==
    /\ \A d \in Dirs : WF_vars(Reads(d)) /\ WF_vars(WriteFails(d)) /\ WF_vars(Count(d))
    /\ WF_vars(CapTest) /\ WF_vars(RatioTest) /\ WF_vars(FirstDone) /\ WF_vars(SecondDone)

FairSpec == Spec /\ Fairness
-----------------------------------------------------------------------------
(* A download with little upload is not cut off by the volume cap, although *)
(* the upload goes on while the two tests are made: whoever was cut had     *)
(* passed the cap and uploaded a twentieth (socks5_server.go:636-653).      *)
CutOnlyHeavyUpload ==
    pc["down"] = "cut" => Cap > 0 /\ OverCap /\ HeavyUpload

(* A relay between two ends that are there is ended from here by the cap or *)
(* by the idle timeout only, and by the one of them its route has: silence  *)
(* ends no direct or naive connection, volume no OwOSS one                  *)
(* (socks5_server.go:176-182, 648-651, 676-678, aead.go:218-231).           *)
HangsUpOnlyAfterEnd ==
    closed # {} =>
      \/ ~IsAead /\ pc["down"] = "cut"
      \/ IsAead /\ pc["down"] = "silent"
      \/ \E e \in Ends : end[e] # "open"

(* Every byte read is written before it is counted, and counted unless a    *)
(* Write failed; an EOF ends a direction only when all of it was written    *)
(* (socks5_server.go:631-636, 664-669).                                     *)
Accounted ==
    \A d \in Dirs :
      /\ pc[d] = "write" => cnt[d] = put[d] /\ got[d] = put[d] + chunk[d]
      /\ pc[d] = "count" => put[d] = cnt[d] + chunk[d] /\ got[d] = put[d]
      /\ pc[d] \notin {"write", "count", "failed"} => cnt[d] = put[d] /\ got[d] = put[d]
      /\ pc[d] = "failed" => cnt[d] <= put[d] /\ put[d] <= got[d]
      /\ pc[d] = "eof" => put[d] = sent[d]

(* Once pipe has returned nobody writes to the connections or to stats any  *)
(* more: handleConn logs final numbers (socks5_server.go:124-131, 676-679). *)
QuietAfterReturn == [][ wait = "returned" => UNCHANGED <<put, cnt>> ]_vars

(* When one direction ends, so does the other, and pipe returns, even if    *)
(* the other end is silent or does not read (socks5_server.go:676-679).     *)
PipeReturns == (\E d \in Dirs : Ended(d)) ~> wait = "returned"

(* The idle timeout of an OwOSS stream frees the relay of a client that is  *)
(* gone, although the upload is blocked on a server that neither reads nor  *)
(* sends; only a server that never sent its salt keeps it (aead.go:139-145, *)
(* 210-226).                                                                *)
GoneClientNoticed ==
    IsAead /\ end["client"] = "gone" /\ pc["down"] # "salt" ~> wait = "returned"

-----------------------------------------------------------------------------
(* What makes these inductive: the download alone is tested and cut, and    *)
(* pipe closes connections only after a goroutine has ended.             *)
EndedForAReason ==
    /\ \A d \in Dirs : got[d] <= sent[d]
    /\ pc["up"] \notin {"salt", "cap", "ratio", "cut", "silent"}
    /\ pc["down"] \in {"salt", "silent"} => IsAead
    /\ pc["down"] \in {"cap", "ratio", "cut"} => Cap > 0
    /\ pc["down"] = "ratio" => OverCap
    /\ \A d \in Dirs : pc[d] = "eof" => end[Src[d]] # "open"
    /\ \A d \in Dirs : pc[d] = "failed" => closed # {} \/ \E e \in Ends : end[e] # "open"
    /\ wait = "returned" => BothDone
    /\ pc["down"] = "cut" => closed # {}

IInv == TypeOK /\ EndedForAReason /\ CutOnlyHeavyUpload /\ HangsUpOnlyAfterEnd /\ Accounted
=============================================================================
