----------------------------- MODULE PipeProofs -----------------------------
(* Theorems about the relay of one connection, for every buffer size, cap   *)
(* and share.                                                               *)
EXTENDS Pipe, TLAPS

(* The download goroutine cannot see the upload shrink: a share that has    *)
(* been reached stays reached while the upload grows.                       *)
LEMMA ShareKept ==
    ASSUME NEW s \in Nat \ {0}, NEW u \in Nat, NEW n \in Nat, NEW d \in Nat,
           s * u >= d + u + 1
    PROVE  s * (u + n) >= d + (u + n) + 1
  <1>1. s * (u + n) = s * u + s * n
    OBVIOUS
  <1>2. s * n >= n
    OBVIOUS
  <1>3. s * u \in Int /\ s * n \in Int
    OBVIOUS
  <1> QED
    BY <1>1, <1>2, <1>3

LEMMA InitIInv == Init => IInv
  BY PipeAssumption
  DEF Init, IInv, TypeOK, EndedForAReason, CutOnlyHeavyUpload, HangsUpOnlyAfterEnd, Accounted,
      Dirs, Ends, Zero, Src, Dst, Ended, IsAead, Cap

(* Each action keeps the types, the reasons for which a direction or the    *)
(* pipe has ended, and the account of the bytes.                            *)
LEMMA StepCore ==
    TypeOK /\ EndedForAReason /\ Accounted /\ [Next]_vars
      => TypeOK' /\ EndedForAReason' /\ Accounted'
  <1> SUFFICES ASSUME TypeOK, EndedForAReason, Accounted, [Next]_vars
               PROVE  TypeOK' /\ EndedForAReason' /\ Accounted'
    OBVIOUS
  <1> USE PipeAssumption
      DEF TypeOK, EndedForAReason, Accounted, Ends, Dirs, Src, Dst, Ended, IsAead, Cap, BothDone, OverCap,
          peers, data, Goto, Add
  <1>1. ASSUME NEW d \in Dirs, ReadData(d) PROVE TypeOK' /\ EndedForAReason' /\ Accounted'
    <2>1. PICK n \in 1..Buf : /\ got[d] + n <= sent[d]
                                /\ chunk' = [chunk EXCEPT ![d] = n]
                                /\ got' = Add(got, d, n)
      BY <1>1 DEF ReadData
    <2>2. n \in Nat
      BY <2>1
    <2> QED
      BY <1>1, <2>1, <2>2 DEF ReadData
  <1>2. ASSUME NEW d \in Dirs, ReadEof(d) PROVE TypeOK' /\ EndedForAReason' /\ Accounted'
    BY <1>2 DEF ReadEof, NoMoreData
  <1>3. ASSUME NEW d \in Dirs, ReadFails(d) PROVE TypeOK' /\ EndedForAReason' /\ Accounted'
    BY <1>3 DEF ReadFails
  <1>4. ASSUME NEW d \in Dirs, WriteOk(d) PROVE TypeOK' /\ EndedForAReason' /\ Accounted'
    BY <1>4 DEF WriteOk
  <1>5. ASSUME NEW d \in Dirs, WriteFails(d) PROVE TypeOK' /\ EndedForAReason' /\ Accounted'
    <2>1. PICK n \in 0..(Buf - 1) : n < chunk[d] /\ put' = Add(put, d, n)
      BY <1>5 DEF WriteFails
    <2>2. n \in Nat
      BY <2>1
    <2> QED
      BY <1>5, <2>1, <2>2 DEF WriteFails
  <1>6. ASSUME NEW d \in Dirs, Count(d) PROVE TypeOK' /\ EndedForAReason' /\ Accounted'
    BY <1>6 DEF Count, Counted
  <1>7. ASSUME NEW d \in Dirs, Send(d) PROVE TypeOK' /\ EndedForAReason' /\ Accounted'
    BY <1>7 DEF Send
  <1>8. CASE CapTest
    BY <1>8 DEF CapTest
  <1>9. CASE RatioTest
    <2>1. CASE HeavyUpload
      <3>1. closed' = Ends /\ closed' # {}
        BY <1>9, <2>1 DEF RatioTest
      <3>2. pc' = [pc EXCEPT !["down"] = "cut"] /\ pc["down"] = "ratio"
        BY <1>9, <2>1 DEF RatioTest
      <3>3. UNCHANGED <<upstream, end, sent, chunk, got, put, cnt, wait>>
        BY <1>9 DEF RatioTest
      <3>4. TypeOK' /\ Accounted'
        BY <3>1, <3>2, <3>3
      <3>5. EndedForAReason'
        BY <3>1, <3>2, <3>3
      <3> QED
        BY <3>4, <3>5
    <2>2. CASE ~HeavyUpload
      <3>1. pc' = [pc EXCEPT !["down"] = "read"] /\ pc["down"] = "ratio"
        BY <1>9, <2>2 DEF RatioTest
      <3>2. UNCHANGED <<upstream, end, sent, chunk, got, put, cnt, closed, wait>>
        BY <1>9, <2>2 DEF RatioTest
      <3> QED
        BY <3>1, <3>2
    <2> QED
      BY <2>1, <2>2
  <1>10. CASE FirstDone
    BY <1>10 DEF FirstDone, CloseBoth
  <1>11. CASE SecondDone
    BY <1>11 DEF SecondDone, BothDone
  <1>12. CASE Returned \/ UNCHANGED vars
    BY <1>12 DEF Returned, vars
  <1>13. ASSUME NEW e \in Ends, Peers(e) PROVE TypeOK' /\ EndedForAReason' /\ Accounted'
    <2>1. end' \in [Ends -> {"open", "fin", "gone"}]
      BY <1>13 DEF Peers, Fin, Vanish
    <2>2. \A x \in Ends : end[x] # "open" => end'[x] # "open"
      BY <1>13 DEF Peers, Fin, Vanish
    <2>3. UNCHANGED <<upstream, sent, pc, chunk, got, put, cnt, closed, wait>>
      BY <1>13 DEF Peers, Fin, Vanish
    <2>4. EndedForAReason'
      BY <2>2, <2>3
    <2> QED
      BY <2>1, <2>3, <2>4
  <1>14. CASE ReadSalt
    BY <1>14 DEF ReadSalt
  <1>15. CASE ReadTimesOut
    BY <1>15 DEF ReadTimesOut
  <1> QED
    BY <1>1, <1>2, <1>3, <1>4, <1>5, <1>6, <1>7, <1>8, <1>9, <1>10, <1>11, <1>12, <1>13, <1>14, <1>15
    DEF Next, Reads

(* A relay is closed from here only by the cap of its route, by its idle    *)
(* timeout, or after an end has gone.                                       *)
LEMMA StepHangsUp ==
    TypeOK /\ EndedForAReason /\ HangsUpOnlyAfterEnd /\ [Next]_vars => HangsUpOnlyAfterEnd'
  <1> SUFFICES ASSUME TypeOK, EndedForAReason, HangsUpOnlyAfterEnd, [Next]_vars
               PROVE  HangsUpOnlyAfterEnd'
    OBVIOUS
  <1> USE DEF HangsUpOnlyAfterEnd, IsAead, Cap, TypeOK, Dirs, Ends, Src, Dst, peers, data, Goto
  <1>1. CASE FirstDone
    BY <1>1 DEF FirstDone, Ended, EndedForAReason
  <1>2. CASE RatioTest
    BY <1>2, PipeAssumption DEF RatioTest, EndedForAReason
  <1>3. CASE ~FirstDone /\ ~RatioTest
    <2>1. closed' = closed
      BY <1>3 DEF Next, vars, Reads, ReadSalt, ReadTimesOut,
                  ReadData, ReadEof, ReadFails, WriteOk, WriteFails, Count, Send,
                  CapTest, SecondDone, Returned, Peers, Fin, Vanish
    <2>2. \A e \in Ends : end[e] # "open" => end'[e] # "open"
      BY <1>3 DEF Next, vars, Reads, ReadSalt, ReadTimesOut,
                  ReadData, ReadEof, ReadFails, WriteOk, WriteFails, Count, Send,
                  CapTest, SecondDone, Returned, Peers, Fin, Vanish
    <2>3. pc["down"] \in {"cut", "silent"} => pc'["down"] = pc["down"]
      BY <1>3 DEF Next, vars, Reads, ReadSalt, ReadTimesOut,
                  ReadData, ReadEof, ReadFails, WriteOk, WriteFails, Count, Send,
                  CapTest, SecondDone, Returned, Peers, Fin, Vanish
    <2>4. upstream' = upstream
      BY <1>3 DEF Next, vars, Reads, ReadSalt, ReadTimesOut,
                  ReadData, ReadEof, ReadFails, WriteOk, WriteFails, Count, Send,
                  CapTest, SecondDone, Returned, Peers, Fin, Vanish
    <2> QED
      BY <2>1, <2>2, <2>3, <2>4
  <1> QED
    BY <1>1, <1>2, <1>3

(* Whoever was cut stays over the cap with a heavy upload: the upload may   *)
(* still be counted, the download no more.                                  *)
LEMMA StepCut ==
    TypeOK /\ EndedForAReason /\ CutOnlyHeavyUpload /\ [Next]_vars => CutOnlyHeavyUpload'
  <1> SUFFICES ASSUME TypeOK, EndedForAReason, CutOnlyHeavyUpload, [Next]_vars
               PROVE  CutOnlyHeavyUpload'
    OBVIOUS
  <1> USE PipeAssumption DEF CutOnlyHeavyUpload, IsAead, Cap, TypeOK, Dirs, Ends, peers, data, Goto, Add
  <1>0. upstream' = upstream
    BY DEF Next, vars, Reads, ReadSalt, ReadTimesOut,
                  ReadData, ReadEof, ReadFails, WriteOk, WriteFails,
           Count, Send, CapTest, RatioTest, FirstDone, SecondDone, Returned, Peers, Fin, Vanish
  <1>1. CASE pc["down"] # "cut"
    <2>1. CASE RatioTest
      BY <1>1, <2>1 DEF RatioTest, EndedForAReason, OverCap, HeavyUpload
    <2>2. CASE ~RatioTest
      BY <1>1, <2>2 DEF Next, vars, Reads, ReadSalt, ReadTimesOut,
                  ReadData, ReadEof, ReadFails, WriteOk, WriteFails, Count,
                  Send, CapTest, FirstDone, SecondDone, Returned, Peers, Fin, Vanish
    <2> QED
      BY <2>1, <2>2
  <1>2. CASE pc["down"] = "cut" /\ cnt' = cnt
    <2>1. pc'["down"] = "cut"
      BY <1>2 DEF Next, vars, Reads, ReadSalt, ReadTimesOut, ReadData, ReadEof, ReadFails, WriteOk,
                  WriteFails, Count, Send, CapTest, RatioTest, FirstDone, SecondDone, Returned, Peers,
                  Fin, Vanish
    <2> QED
      BY <1>0, <1>2, <2>1 DEF OverCap, HeavyUpload
  <1>3. CASE pc["down"] = "cut" /\ cnt' # cnt
    <2>1. Count("up")
      BY <1>3 DEF Next, vars, Reads, ReadSalt, ReadTimesOut,
                  ReadData, ReadEof, ReadFails, WriteOk, WriteFails, Count,
                  Send, CapTest, RatioTest, FirstDone, SecondDone, Returned, Peers, Fin, Vanish
    <2>2. /\ cnt'["down"] = cnt["down"] /\ cnt'["up"] = cnt["up"] + chunk["up"]
          /\ pc["down"] = pc'["down"]
      BY <2>1 DEF Count, Counted
    <2>3. cnt["down"] \in Nat /\ cnt["up"] \in Nat /\ chunk["up"] \in Nat
      OBVIOUS
    <2>4. Share * cnt["up"] >= cnt["down"] + cnt["up"] + 1 /\ cnt["down"] + cnt["up"] > MaxBytes
      BY <1>3 DEF HeavyUpload, OverCap
    <2>5. HeavyUpload'
      BY <2>2, <2>3, <2>4, ShareKept DEF HeavyUpload
    <2>6. OverCap'
      BY <1>0, <2>2, <2>3, <2>4 DEF OverCap
    <2> QED
      BY <1>0, <1>3, <2>5, <2>6
  <1> QED
    BY <1>1, <1>2, <1>3

(* The inductive invariant holds of every relay.                            *)
THEOREM Invariance == Spec => []IInv
  <1>1. Init => IInv
    BY InitIInv
  <1>2. IInv /\ [Next]_vars => IInv'
    BY StepCore, StepHangsUp, StepCut DEF IInv
  <1> QED
    BY <1>1, <1>2, PTL DEF Spec

(* A download that uploads little is never cut off by the cap.              *)
THEOREM LowUploadNotCut == Spec => []CutOnlyHeavyUpload
  BY Invariance, PTL DEF IInv

(* pipe does not hang up on two ends that are there, short of the cap of a  *)
(* direct or naive relay and the idle timeout of an OwOSS one.              *)
THEOREM NeverHangsUpFirst == Spec => []HangsUpOnlyAfterEnd
  BY Invariance, PTL DEF IInv

(* The counters account for every byte written.                             *)
THEOREM BytesAccounted == Spec => []Accounted
  BY Invariance, PTL DEF IInv

(* Nobody writes to the connections or counts after pipe has returned.      *)
THEOREM QuietAfterwards == Spec => QuietAfterReturn
  <1>1. IInv /\ [Next]_vars => (wait = "returned" => UNCHANGED <<put, cnt>>)
    <2> SUFFICES ASSUME IInv, [Next]_vars, wait = "returned" PROVE UNCHANGED <<put, cnt>>
      OBVIOUS
    <2>1. \A d \in Dirs : pc[d] \notin {"salt", "read", "write", "count", "cap", "ratio"}
      BY DEF IInv, TypeOK, EndedForAReason, BothDone, Ended, Dirs
    <2> QED
      BY <2>1 DEF Next, vars, Reads, ReadSalt, ReadTimesOut,
                  ReadData, ReadEof, ReadFails, WriteOk, WriteFails, Count, data,
                  Send, CapTest, RatioTest, FirstDone, SecondDone, Returned, Peers, Fin, Vanish, Dirs
  <1> QED
    BY <1>1, Invariance, PTL DEF Spec, QuietAfterReturn
=============================================================================
