------------------------------ MODULE RSender -------------------------------
(***************************************************************************)
(* The chunked R sender of axi_packetizer.sv: accept R beats from the      *)
(* memory, emit a header flit and continuation flits.  tkeep says how many *)
(* bytes of a flit count.  Its buffer has the size of the write sender's.  *)
(***************************************************************************)
EXTENDS AuroraFlit

CONSTANT RHDR    \* R_HDR_DATA_BYTES: R bytes a header flit has room for

ASSUME RHeaderAssumption == RHDR \in 1..CONT

VARIABLES
  rfState,   \* rf_state_r
  rfId,      \* rf_id_r
  rfBuf,     \* rf_buf_r
  rfCount,   \* rf_count_r
  rfLast     \* rf_last_seen_r

rfVars == <<rfState, rfId, rfBuf, rfCount, rfLast>>

RHeader(id, bytes, n, last) ==
  [op |-> "R", id |-> id, data |-> bytes, keep |-> n, tlast |-> last]
RCont(bytes, n, last) ==
  [op |-> "none", id |-> 0, data |-> bytes, keep |-> n, tlast |-> last]

RFlit == [op : {"R"}, id : Nat, data : [1..RHDR -> Byte], keep : 1..RHDR, tlast : BOOLEAN]
           \cup [op : {"none"}, id : {0}, data : [1..CONT -> Byte],
                 keep : 1..CONT, tlast : BOOLEAN]

RfTypeOK ==
  /\ rfState \in {"IDLE", "TX_HDR", "TX_CONT"} /\ rfId \in Nat
  /\ rfBuf \in [1..BufBytes -> Byte] /\ rfCount \in 0..(TXMOD - 1)
  /\ rfLast \in BOOLEAN

RfInit ==
  /\ rfState = "IDLE" /\ rfId = 0
  /\ rfBuf = ZeroBytes(BufBytes) /\ rfCount = 0 /\ rfLast = FALSE

(* rf_room, in the width of rf_count_r.  There is no ~last_seen guard.     *)
RfRoom == (rfCount + STRB) % TXMOD <= BufBytes

RfActive == rfState \in {"TX_HDR", "TX_CONT"}
RfCap    == IF rfState = "TX_HDR" THEN RHDR ELSE CONT

RfEmitReady == RfActive /\ (rfCount >= RfCap \/ (rfLast /\ rfCount > 0))

RfEmitN   == Least(rfCount, RfCap)
RfIsFinal == rfLast /\ rfCount = RfEmitN

RfFlit ==
  IF rfState = "TX_HDR" THEN RHeader(rfId, Low(rfBuf, RHDR), RfEmitN, RfIsFinal)
                        ELSE RCont(Low(rfBuf, CONT), RfEmitN, RfIsFinal)

(* After an emit; rlast is forgotten with the last flit.                   *)
RfAfterEmit(lastSeenNow) ==
  /\ rfState' = IF RfIsFinal THEN "IDLE" ELSE "TX_CONT"
  /\ rfLast' = (~RfIsFinal /\ lastSeenNow)

(* r_full_valid & r_full_ready, no flit leaving on this edge               *)
RfPush(id, beat, last) ==
  /\ RfRoom
  /\ rfState' = IF rfState = "IDLE" THEN "TX_HDR" ELSE rfState
  /\ rfId' = IF rfState = "IDLE" THEN id ELSE rfId
  /\ rfBuf' = OrAt(rfBuf, rfCount, beat)
  /\ rfCount' = (rfCount + STRB) % TXMOD
  /\ rfLast' = (rfLast \/ last)

(* rf_emit_fire, no beat entering on this edge                             *)
RfEmit ==
  /\ RfEmitReady
  /\ rfBuf' = ShiftDown(rfBuf, RfEmitN)
  /\ rfCount' = rfCount - RfEmitN
  /\ RfAfterEmit(rfLast)
  /\ UNCHANGED rfId

(* Mutation of RfPushAndEmit: rlast of the entering beat is not latched.   *)
RfPushAndEmitNoLast(beat, last) ==
  /\ RfRoom /\ RfEmitReady
  /\ rfBuf' = OrAt(ShiftDown(rfBuf, RfEmitN), rfCount - RfEmitN, beat)
  /\ rfCount' = (rfCount - RfEmitN + STRB) % TXMOD
  /\ RfAfterEmit(rfLast)
  /\ UNCHANGED rfId

(* Mutation of RfPushAndEmit: the beat lands where it would without the    *)
(* emit.                                                                   *)
RfPushAndEmitUnshifted(beat, last) ==
  /\ RfRoom /\ RfEmitReady
  /\ rfBuf' = OrAt(ShiftDown(rfBuf, RfEmitN), rfCount, beat)
  /\ rfCount' = (rfCount - RfEmitN + STRB) % TXMOD
  /\ RfAfterEmit(rfLast \/ last)
  /\ UNCHANGED rfId

(* Both on one edge: every condition reads the count before either.        *)
RfPushAndEmit(beat, last) ==
  /\ RfRoom /\ RfEmitReady
  /\ rfBuf' = OrAt(ShiftDown(rfBuf, RfEmitN), rfCount - RfEmitN, beat)
  /\ rfCount' = (rfCount - RfEmitN + STRB) % TXMOD
  /\ RfAfterEmit(rfLast \/ last)
  /\ UNCHANGED rfId
=============================================================================
