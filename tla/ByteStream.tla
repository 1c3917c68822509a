----------------------------- MODULE ByteStream -----------------------------
(* One direction of a connection as its users see it: bytes come out in the *)
(* order in which they went in, none is lost before one that comes out and  *)
(* none comes twice.  Bytes are numbered as they are sent.                  *)
EXTENDS Integers, Sequences

VARIABLES
    sent,      \* number of bytes handed to Write
    delivered  \* the bytes Read has returned

bytes == <<sent, delivered>>

Init == sent = 0 /\ delivered = <<>>

Send ==
    /\ sent' > sent
    /\ UNCHANGED delivered

(* Some of the bytes that are still under way, oldest first.                *)
Deliver ==
    /\ \E n \in 1..(sent - Len(delivered)) :
         delivered' = delivered \o [i \in 1..n |-> Len(delivered) + i]
    /\ UNCHANGED sent

Spec == Init /\ [][Send \/ Deliver]_bytes
=============================================================================
