----------------------------- MODULE AuroraFlit -----------------------------
(***************************************************************************)
(* Geometry of the chunked-write frames that axi_to_aurora sends and       *)
(* axi_depacketizer receives: a header flit with AW metadata and the first *)
(* HDR_DATA_BYTES bytes of W data, then continuation flits of nothing but  *)
(* data.  No flit says how many of its bytes count; both ends work it out. *)
(***************************************************************************)
EXTENDS ByteBuffer, Sequences

CONSTANTS
  STRB,      \* STRB_W: bytes of one Full W beat
  LITESTRB,  \* LITE_PKT_STRB_W: bytes of one Lite W beat
  HDR,       \* HDR_DATA_BYTES: W bytes a header flit has room for
  CONT,      \* CONT_DATA_BYTES: W bytes of a continuation flit
  SLACK,     \* the "+ 64" of RX_BUF_BYTES
  TXMOD,     \* 2^CNT_W: the sender's byte count wraps here
  RXMOD      \* 2^RX_CNT_W: the receiver's byte count wraps here

BufBytes   == CONT + STRB           \* sender byte buffer
RxBufBytes == CONT + STRB + SLACK   \* receiver byte buffer

(* Both counters are $clog2(size + 1) bits wide.                           *)
Clog2Range(mod, size) == size < mod /\ mod <= 2 * size

ASSUME GeometryAssumption ==
  /\ STRB \in Nat \ {0} /\ LITESTRB \in Nat \ {0}
  /\ HDR \in Nat \ {0}  /\ CONT \in Nat \ {0} /\ SLACK \in Nat
  /\ HDR <= CONT /\ LITESTRB <= HDR
  /\ TXMOD \in Nat /\ Clog2Range(TXMOD, BufBytes)
  /\ RXMOD \in Nat /\ Clog2Range(RXMOD, RxBufBytes)

(* AW metadata of a header flit: awlen is zero-based as on the bus, id     *)
(* stands for every field the bridge copies without looking at it.         *)
Aw   == [len : Nat, lite : BOOLEAN, id : Nat]
NoAw == [len |-> 0, lite |-> FALSE, id |-> 0]

BeatBytes(aw)  == IF aw.lite THEN LITESTRB ELSE STRB

(* Mutation of TotalBytes: awlen read as the number of beats.              *)
TotalBytesOneBased(aw) == aw.len * BeatBytes(aw)
TotalBytes(aw) == (aw.len + 1) * BeatBytes(aw)

(* A header flit starts with OP_AW; a continuation flit has no opcode.     *)
Header(aw, bytes, last) == [op |-> "AW", aw |-> aw, data |-> bytes, tlast |-> last]
Cont(bytes, last)       == [op |-> "none", aw |-> NoAw, data |-> bytes, tlast |-> last]

Flit == [op : {"AW"}, aw : Aw, data : [1..HDR -> Byte], tlast : BOOLEAN]
          \cup [op : {"none"}, aw : {NoAw}, data : [1..CONT -> Byte], tlast : BOOLEAN]

(* The data field of a flit read as a continuation flit: all 256 bits, the *)
(* metadata of a misread header among them.                                *)
ContField(f) == IF f.op # "none" THEN [i \in 1..CONT |-> Garbled] ELSE f.data

Least(a, b) == IF a <= b THEN a ELSE b
=============================================================================
