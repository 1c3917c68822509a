---------------------------- MODULE MCAEADStream ----------------------------
(* Values of the constants of AEADStream for TLC.                           *)
EXTENDS AEADStream

Bytes   == [d \in Dirs |-> IF d = "up" THEN 2 ELSE 3]
OneByte == [d \in Dirs |-> 1]
=============================================================================
