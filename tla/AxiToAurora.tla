---------------------------- MODULE AxiToAurora -----------------------------
(***************************************************************************)
(* The write path of axi_to_aurora.sv: accept AW, accumulate W beats in a  *)
(* byte buffer, emit one header flit and then continuation flits, wait for *)
(* the B packet.  Each action is what one clock edge does to this path.    *)
(***************************************************************************)
EXTENDS AuroraFlit

VARIABLES
  wState,    \* w_state_r
  txAw,      \* aw_*_r, the AW being sent
  txBuf,     \* data_buf_r / strb_buf_r
  txCount,   \* count_r
  lastSeen,  \* last_seen_r
  bPending,  \* b_pending_r: a B packet is staged for the master
  bId        \* b_id_r

txVars == <<wState, txAw, txBuf, txCount, lastSeen, bPending, bId>>

TxTypeOK ==
  /\ wState \in {"IDLE", "TX_HDR", "TX_CONT", "WAIT_B"}
  /\ txAw \in Aw /\ bId \in Nat
  /\ txBuf \in [1..BufBytes -> Byte] /\ txCount \in 0..(TXMOD - 1)
  /\ lastSeen \in BOOLEAN /\ bPending \in BOOLEAN

TxInit ==
  /\ wState = "IDLE" /\ txAw = NoAw
  /\ txBuf = ZeroBytes(BufBytes) /\ txCount = 0
  /\ lastSeen = FALSE /\ bPending = FALSE /\ bId = 0

AcceptAW(aw) ==
  /\ wState = "IDLE"
  /\ wState' = "TX_HDR" /\ txAw' = aw /\ lastSeen' = FALSE
  /\ UNCHANGED <<txBuf, txCount, bPending, bId>>

Active == wState \in {"TX_HDR", "TX_CONT"}

(* The sum has the width of count_r and wraps before it is compared.       *)
RoomForW == (txCount + STRB) % TXMOD <= BufBytes

(* Mutation of CanPush: the code before its BUG-FIX comment.               *)
CanPushAfterLast == Active /\ RoomForW

(* push: ~last_seen_r keeps the next burst's beats out.                    *)
CanPush == Active /\ RoomForW /\ ~lastSeen

(* Mutation of FlitCap: the header flit filled like a continuation flit.   *)
FlitCapCont == CONT

(* Mutation of EmitReady: no flush of a partial last flit.                 *)
EmitReadyWholeFlits == Active /\ txCount >= (IF wState = "TX_HDR" THEN HDR ELSE CONT)

FlitCap   == IF wState = "TX_HDR" THEN HDR ELSE CONT
EmitReady == Active /\ (txCount >= FlitCap \/ (lastSeen /\ txCount > 0))

(* Mutation of EmitN: the last flit counted as a full one.                 *)
EmitNWhole == FlitCap
EmitN     == Least(txCount, FlitCap)
IsFinal   == lastSeen /\ txCount = EmitN

(* The flit on tx_data_* while EmitReady.                                  *)
TxFlit ==
  IF wState = "TX_HDR" THEN Header(txAw, Low(txBuf, HDR), IsFinal)
                       ELSE Cont(Low(txBuf, CONT), IsFinal)

AfterEmit == IF IsFinal THEN "WAIT_B" ELSE "TX_CONT"

(* s_wvalid & s_wready, no flit leaving on this edge                       *)
AcceptW(beat, wlast) ==
  /\ CanPush
  /\ txBuf' = OrAt(txBuf, txCount, beat)
  /\ txCount' = (txCount + STRB) % TXMOD
  /\ lastSeen' = wlast
  /\ UNCHANGED <<wState, txAw, bPending, bId>>

(* tx_data_tvalid & tx_data_tready, no beat entering on this edge          *)
EmitFlit ==
  /\ EmitReady
  /\ txBuf' = ShiftDown(txBuf, EmitN)
  /\ txCount' = txCount - EmitN
  /\ wState' = AfterEmit
  /\ UNCHANGED <<txAw, lastSeen, bPending, bId>>

(* Mutation of AcceptWAndEmit: the beat lands where it would without the   *)
(* emit.                                                                   *)
AcceptWAndEmitUnshifted(beat, wlast) ==
  /\ CanPush /\ EmitReady
  /\ txBuf' = OrAt(ShiftDown(txBuf, EmitN), txCount, beat)
  /\ txCount' = (txCount - EmitN + STRB) % TXMOD
  /\ lastSeen' = wlast
  /\ wState' = AfterEmit
  /\ UNCHANGED <<txAw, bPending, bId>>

(* Both on one edge: every condition reads the count before either.        *)
AcceptWAndEmit(beat, wlast) ==
  /\ CanPush /\ EmitReady
  /\ txBuf' = OrAt(ShiftDown(txBuf, EmitN), txCount - EmitN, beat)
  /\ txCount' = (txCount - EmitN + STRB) % TXMOD
  /\ lastSeen' = wlast
  /\ wState' = AfterEmit
  /\ UNCHANGED <<txAw, bPending, bId>>

(* An OP_B packet on user-K RX; the 1-deep staging is overwritten.         *)
RecvB(id) ==
  /\ bPending' = TRUE /\ bId' = id
  /\ UNCHANGED <<wState, txAw, txBuf, txCount, lastSeen>>

(* s_bvalid & s_bready                                                     *)
TakeB ==
  /\ wState = "WAIT_B" /\ bPending
  /\ wState' = "IDLE" /\ bPending' = FALSE
  /\ txBuf' = ZeroBytes(BufBytes) /\ txCount' = 0 /\ lastSeen' = FALSE
  /\ UNCHANGED <<txAw, bId>>
=============================================================================
