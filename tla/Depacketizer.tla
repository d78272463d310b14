---------------------------- MODULE Depacketizer ----------------------------
(***************************************************************************)
(* The write path of axi_depacketizer.sv: reassemble W beats from the      *)
(* flits of the data channel and drive them on an AXI master port.  The    *)
(* data channel has no back-pressure: a flit that no action below accepts  *)
(* is gone.  A flit and a W handshake of one clock edge have the effect of *)
(* the handshake followed by the flit, so they are separate actions; the   *)
(* one pair that has no such order, a header on the edge of the B          *)
(* handshake, is BFireWithHeader.                                          *)
(***************************************************************************)
EXTENDS AuroraFlit

VARIABLES
  dState,     \* w_state_r
  dAw,        \* aw_*_r, the AW being driven
  awPending,  \* aw_pending_r
  shadowAw,   \* aw_*_shadow_r
  rxBuf,      \* rx_data_buf_r / rx_strb_buf_r
  rxCount,    \* rx_count_r
  remRx,      \* bytes_rem_rx_r: bytes of the newest AW still to arrive
  remDrv      \* bytes_rem_drv_r: bytes of the driven AW still to hand over

rxVars == <<dState, dAw, awPending, shadowAw, rxBuf, rxCount, remRx, remDrv>>

RxTypeOK ==
  /\ dState \in {"IDLE", "DRIVE_AW", "DRIVE_W", "WAIT_B"}
  /\ dAw \in Aw /\ shadowAw \in Aw /\ awPending \in BOOLEAN
  /\ rxBuf \in [1..RxBufBytes -> Byte] /\ rxCount \in 0..(RXMOD - 1)
  /\ remRx \in Nat /\ remDrv \in Int

RxInit ==
  /\ dState = "IDLE" /\ dAw = NoAw /\ awPending = FALSE /\ shadowAw = NoAw
  /\ rxBuf = ZeroBytes(RxBufBytes) /\ rxCount = 0
  /\ remRx = 0 /\ remDrv = 0

PipelineReady == dState = "IDLE" \/ remDrv = 0

(* Mutation of TakesHeader: the queued AW is not looked at.                *)
TakesHeaderWhenQueued(f) == remRx = 0 /\ f.op = "AW" /\ PipelineReady

TakesHeader(f) == remRx = 0 /\ f.op = "AW" /\ PipelineReady /\ ~awPending
TakesCont      == remRx # 0

Push(bytes, n) ==
  /\ rxBuf' = OrAt(rxBuf, rxCount, bytes)
  /\ rxCount' = (rxCount + n) % RXMOD

PushHeader(f) ==
  LET n == Least(TotalBytes(f.aw), HDR)
  IN  Push(f.data, n) /\ remRx' = TotalBytes(f.aw) - n

(* A header is driven at once when nothing is, else it waits in the shadow *)
(* registers.                                                              *)
RxHeader(f) ==
  /\ TakesHeader(f)
  /\ PushHeader(f)
  /\ IF dState = "IDLE"
     THEN /\ dAw' = f.aw /\ dState' = "DRIVE_AW" /\ remDrv' = TotalBytes(f.aw)
          /\ UNCHANGED <<awPending, shadowAw>>
     ELSE /\ shadowAw' = f.aw /\ awPending' = TRUE
          /\ UNCHANGED <<dAw, dState, remDrv>>

RxCont(f) ==
  /\ TakesCont
  /\ LET n == Least(remRx, CONT)
     IN  Push(ContField(f), n) /\ remRx' = remRx - n
  /\ UNCHANGED <<dState, dAw, awPending, shadowAw, remDrv>>

(* Neither fire condition holds: the flit passes unseen.                   *)
RxIgnore(f) ==
  /\ ~TakesHeader(f) /\ ~TakesCont
  /\ UNCHANGED rxVars

(* m_*_awvalid & m_*_awready                                               *)
DriveAW ==
  /\ dState = "DRIVE_AW"
  /\ dState' = "DRIVE_W"
  /\ UNCHANGED <<dAw, awPending, shadowAw, rxBuf, rxCount, remRx, remDrv>>

HaveBeat  == dState = "DRIVE_W" /\ rxCount >= BeatBytes(dAw)
OutBeat   == Low(rxBuf, BeatBytes(dAw))
OutLast   == remDrv = BeatBytes(dAw)

(* Mutation of DriveW: the count is not popped with the bytes.             *)
DriveWNoPop ==
  /\ HaveBeat
  /\ rxBuf' = ShiftDown(rxBuf, BeatBytes(dAw))
  /\ remDrv' = remDrv - BeatBytes(dAw)
  /\ dState' = IF OutLast THEN "WAIT_B" ELSE dState
  /\ UNCHANGED <<dAw, awPending, shadowAw, remRx, rxCount>>

(* m_*_wvalid & m_*_wready                                                 *)
DriveW ==
  /\ HaveBeat
  /\ rxBuf' = ShiftDown(rxBuf, BeatBytes(dAw))
  /\ rxCount' = rxCount - BeatBytes(dAw)
  /\ remDrv' = remDrv - BeatBytes(dAw)
  /\ dState' = IF OutLast THEN "WAIT_B" ELSE dState
  /\ UNCHANGED <<dAw, awPending, shadowAw, remRx>>

(* m_*_bvalid & m_*_bready; a queued shadow AW is driven next.             *)
BFire ==
  /\ dState = "WAIT_B"
  /\ IF awPending
     THEN /\ dAw' = shadowAw /\ awPending' = FALSE
          /\ dState' = "DRIVE_AW" /\ remDrv' = TotalBytes(shadowAw)
     ELSE /\ dState' = "IDLE" /\ UNCHANGED <<dAw, awPending, remDrv>>
  /\ UNCHANGED <<shadowAw, rxBuf, rxCount, remRx>>

(* The edge on which the B handshake and a header coincide: the next-state *)
(* logic still reads aw_pending_r = 0 and goes to IDLE, while the latch    *)
(* logic still reads WAIT_B and puts the header in the shadow registers.   *)
BFireWithHeader(f) ==
  /\ dState = "WAIT_B" /\ TakesHeader(f)
  /\ PushHeader(f)
  /\ dState' = "IDLE" /\ shadowAw' = f.aw /\ awPending' = TRUE
  /\ UNCHANGED <<dAw, remDrv>>
=============================================================================
