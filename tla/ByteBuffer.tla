----------------------------- MODULE ByteBuffer -----------------------------
(***************************************************************************)
(* The byte buffers of the Aurora bridge are plain registers: bytes enter  *)
(* by OR-ing them in at the current count and leave by a right shift.  A   *)
(* buffer is a function on 1..size.  A W byte travels with its strobe (the *)
(* data and strobe registers are always shifted together), so one value    *)
(* stands for both; Zero is an empty place (data 0, strobe 0).             *)
(***************************************************************************)
EXTENDS Integers

Zero    == 0
Garbled == -1    \* two different bytes OR-ed together
Byte    == Nat \cup {Garbled}

ZeroBytes(n) == [i \in 1..n |-> Zero]

OrByte(a, b) ==
  IF a = Zero THEN b ELSE IF b = Zero THEN a ELSE Garbled

(* buf | (bytes << at): what passes the end of the register is lost.       *)
OrAt(buf, at, bytes) ==
  [i \in DOMAIN buf |->
     IF i - at \in DOMAIN bytes THEN OrByte(buf[i], bytes[i - at]) ELSE buf[i]]

(* buf >> n                                                                *)
ShiftDown(buf, n) ==
  [i \in DOMAIN buf |-> IF i + n \in DOMAIN buf THEN buf[i + n] ELSE Zero]

(* buf[0 +: n]                                                             *)
Low(buf, n) == [i \in 1..n |-> IF i \in DOMAIN buf THEN buf[i] ELSE Zero]
=============================================================================
