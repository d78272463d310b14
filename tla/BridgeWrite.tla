---------------------------- MODULE BridgeWrite -----------------------------
(***************************************************************************)
(* Both writers of axi_aurora_bridge_inv at once: the Full slave of        *)
(* AuroraWrite and the Lite slave (axi_lite_to_aurora.sv), the frame-atomic*)
(* data-TX arbiter between them, and one depacketizer that drives a Full   *)
(* and a Lite master port.  Reads are idle: the arbiter's R_RESP state and *)
(* the in_cont cross-gating with the R receiver do not occur.              *)
(*                                                                         *)
(* A header that comes at the wrong time is lost.  The continuation flits  *)
(* behind it pass unseen, unless one has the byte OP_AW in its first place *)
(* and is read as a header itself: fullLost and misread record the two.    *)
(***************************************************************************)
EXTENDS AuroraWrite

CONSTANT MaxLite    \* bound: Lite writes the host issues

ASSUME LiteBoundAssumption == MaxLite \in Nat

VARIABLES
  lState,        \* axi_lite_to_aurora w_state_r
  lPending,      \* axi_lite_to_aurora b_pending_r
  nLite,         \* Lite writes accepted; the newest is in aw_*_r / w_*_r
  liteAnswered,  \* Lite writes answered
  atx,           \* atx_state_r
  blPend,        \* axi_packetizer bl_pend_r
  liteStored,    \* Lite writes the far end's Lite slave has taken
  liteW,         \* the last of them: its bytes and its AW's id
  fullLost,      \* history: the header of a Full frame was lost
  misread        \* history: a continuation flit was read as a header

liteVars   == <<lState, lPending, nLite, liteAnswered, blPend, liteStored, liteW>>
wireHist   == <<fullLost, misread>>
bridgeVars == <<vars, liteVars, atx, wireHist>>

(* OP_B_LITE on the user-K wire; OP_B packets are ids, from 1.             *)
BLite == 0

BridgeInit ==
  /\ Init
  /\ lState = "IDLE" /\ lPending = FALSE /\ nLite = 0 /\ liteAnswered = 0
  /\ atx = "IDLE" /\ blPend = FALSE /\ liteStored = 0
  /\ liteW = [data |-> <<>>, id |-> 0]
  /\ fullLost = FALSE /\ misread = FALSE

(***************************************************************************)
(* Near end, Full slave: AuroraWrite's actions; a flit leaves only while   *)
(* the arbiter has granted the frame, and its tlast gives the grant back.  *)
(***************************************************************************)
FullSlave ==
  /\ MasterAW \/ MasterW \/ MasterB
  /\ UNCHANGED <<liteVars, atx>>

(* Mutation of FullFlit: the grant is given back after every flit.         *)
FullFlitPerFlit ==
  /\ atx = "W_FULL"
  /\ SendFlit \/ MasterWAndSendFlit
  /\ atx' = "IDLE"
  /\ UNCHANGED liteVars

FullFlit ==
  /\ atx = "W_FULL"
  /\ SendFlit \/ MasterWAndSendFlit
  /\ atx' = IF IsFinal THEN "IDLE" ELSE atx
  /\ UNCHANGED liteVars

TakeFullB ==
  /\ bWire # <<>> /\ Head(bWire) # BLite
  /\ TakeBPacket
  /\ UNCHANGED <<liteVars, atx>>

(***************************************************************************)
(* Near end, Lite slave.  AW and W are taken together.  s_bvalid is the    *)
(* staging bit itself, whatever the state.                                 *)
(***************************************************************************)
LiteAccept ==
  /\ lState = "IDLE" /\ nLite < MaxLite
  /\ lState' = "TX_HDR" /\ nLite' = nLite + 1
  /\ UNCHANGED <<vars, lPending, liteAnswered, atx, blPend, liteStored, liteW>>

LiteFlitData == [i \in 1..HDR |-> IF i <= LITESTRB THEN nLite ELSE Zero]

LiteFlit ==
  /\ lState = "TX_HDR" /\ atx = "W_LITE"
  /\ dataWire' = Append(dataWire,
                   Header([len |-> 0, lite |-> TRUE, id |-> nLite], LiteFlitData, TRUE))
  /\ lState' = "WAIT_B" /\ atx' = "IDLE"
  /\ UNCHANGED <<txVars, rxVars, masterVars, memoryVars, bWire, bfId,
                 lPending, nLite, liteAnswered, blPend, liteStored, liteW>>

(* Mutation of TakeLiteB: any B packet is taken for a B-Lite.              *)
TakeLiteBAnyOp ==
  /\ bWire # <<>>
  /\ lPending' = TRUE /\ bWire' = Tail(bWire)
  /\ UNCHANGED <<txVars, rxVars, masterVars, memoryVars, dataWire, bfId,
                 lState, nLite, liteAnswered, atx, blPend, liteStored, liteW>>

TakeLiteB ==
  /\ bWire # <<>> /\ Head(bWire) = BLite
  /\ lPending' = TRUE /\ bWire' = Tail(bWire)
  /\ UNCHANGED <<txVars, rxVars, masterVars, memoryVars, dataWire, bfId,
                 lState, nLite, liteAnswered, atx, blPend, liteStored, liteW>>

LiteB ==
  /\ lPending
  /\ lPending' = FALSE /\ liteAnswered' = liteAnswered + 1
  /\ lState' = IF lState = "WAIT_B" THEN "IDLE" ELSE lState
  /\ UNCHANGED <<vars, nLite, atx, blPend, liteStored, liteW>>

(* ATX_IDLE: Full before Lite.                                             *)
Grant ==
  /\ atx = "IDLE"
  /\ \/ EmitReady /\ atx' = "W_FULL"
     \/ ~EmitReady /\ lState = "TX_HDR" /\ atx' = "W_LITE"
  /\ UNCHANGED <<vars, liteVars>>

(***************************************************************************)
(* Far end.                                                                *)
(***************************************************************************)
FlitIgnored ==
  /\ dataWire # <<>>
  /\ RxIgnore(Head(dataWire)) /\ dataWire' = Tail(dataWire)
  /\ UNCHANGED <<txVars, masterVars, memoryVars, bWire, bfId>>

IsFullHeader(f) == f.op = "AW" /\ ~f.aw.lite

Arrival ==
  /\ \/ FlitArrives /\ UNCHANGED fullLost
     \/ FlitIgnored /\ fullLost' = (fullLost \/ IsFullHeader(Head(dataWire)))
  /\ UNCHANGED <<liteVars, atx, misread>>

FarAW == MemoryAW /\ UNCHANGED <<liteVars, atx>>

FarW == ~dAw.lite /\ MemoryW /\ UNCHANGED <<liteVars, atx>>

FarLiteW ==
  /\ dAw.lite
  /\ DriveW
  /\ liteStored' = liteStored + 1
  /\ liteW' = [data |-> OutBeat, id |-> dAw.id]
  /\ UNCHANGED <<txVars, masterVars, memoryVars, linkVars, bfId,
                 lState, lPending, nLite, liteAnswered, atx, blPend>>

(* The packetizer's staging of the port that answers.                      *)
TakeResponse ==
  IF dAw.lite THEN ~blPend /\ blPend' = TRUE /\ UNCHANGED bfId
              ELSE bfId = 0 /\ bfId' = dAw.id /\ UNCHANGED blPend

FarB ==
  /\ BFire /\ TakeResponse
  /\ UNCHANGED <<txVars, masterVars, memoryVars, linkVars,
                 lState, lPending, nLite, liteAnswered, atx, liteStored, liteW>>

FarBWithHeader ==
  /\ dataWire # <<>>
  /\ BFireWithHeader(Head(dataWire)) /\ dataWire' = Tail(dataWire)
  /\ TakeResponse
  /\ UNCHANGED <<txVars, masterVars, memoryVars, bWire,
                 lState, lPending, nLite, liteAnswered, atx, liteStored, liteW>>

(* A continuation flit whose first byte is OP_AW, where a header is looked *)
(* for.  Its data stand where the fields of an AW are, so these may be     *)
(* anything (bounded: no more beats than a burst of the writer's; one id,  *)
(* which neither end compares), and W data is what stands behind them.     *)
AnyAw == [len : 0..(MaxBeats - 1), lite : BOOLEAN, id : {1}]

ReadAsHeader(f, aw) == Header(aw, [i \in 1..HDR |-> f.data[(CONT - HDR) + i]], f.tlast)

FlitMisread ==
  /\ dataWire # <<>> /\ Head(dataWire).op = "none"
  /\ \E aw \in AnyAw :
       LET f == ReadAsHeader(Head(dataWire), aw)
       IN  \/ RxHeader(f) /\ UNCHANGED <<bfId, blPend>>
           \/ BFireWithHeader(f) /\ TakeResponse
  /\ dataWire' = Tail(dataWire) /\ misread' = TRUE
  /\ UNCHANGED <<txVars, masterVars, memoryVars, bWire, fullLost,
                 lState, lPending, nLite, liteAnswered, atx, liteStored, liteW>>

SendFullB == SendBPacket /\ UNCHANGED <<liteVars, atx>>

(* B-Lite goes out when no B does.                                         *)
SendLiteB ==
  /\ blPend /\ bfId = 0
  /\ bWire' = Append(bWire, BLite) /\ blPend' = FALSE
  /\ UNCHANGED <<txVars, rxVars, masterVars, memoryVars, dataWire, bfId,
                 lState, lPending, nLite, liteAnswered, atx, liteStored, liteW>>

BridgeNear == FullSlave \/ FullFlit \/ TakeFullB \/ LiteAccept \/ LiteFlit
                \/ TakeLiteB \/ LiteB \/ Grant
BridgeFar  == FarAW \/ FarW \/ FarLiteW \/ FarB \/ FarBWithHeader
                \/ SendFullB \/ SendLiteB
BridgeNext == \/ (BridgeNear \/ BridgeFar) /\ UNCHANGED wireHist
              \/ Arrival \/ FlitMisread

BridgeSpec == BridgeInit /\ [][BridgeNext]_bridgeVars

-----------------------------------------------------------------------------
BridgeTypeOK ==
  /\ TypeOK
  /\ lState \in {"IDLE", "TX_HDR", "WAIT_B"} /\ lPending \in BOOLEAN
  /\ nLite \in 0..MaxLite /\ liteAnswered \in 0..MaxLite /\ liteStored \in 0..MaxLite
  /\ atx \in {"IDLE", "W_FULL", "W_LITE"} /\ blPend \in BOOLEAN

(* The frames of the two writers are never mixed on the wire: no header    *)
(* reaches the depacketizer while it counts down the continuation flits of *)
(* a frame, where it would be stored as data (axi_aurora_bridge_inv.sv,    *)
(* "Frame-atomic via tlast"); until one is counted down that never was.    *)
HeaderIsNeverData ==
  ~misread => (dataWire # <<>> /\ Head(dataWire).op = "AW" => remRx = 0)

(* A write is answered only when it is in memory, on either port, even     *)
(* when writes are lost on the way; until a flit is misread, the bridge    *)
(* may hang but does not lie.                                              *)
AnsweredMeansStored ==
  ~misread =>
    /\ answered < stored.burst
    /\ liteAnswered <= liteStored

(* What reaches either port is what its writer sent: no byte of a lost or  *)
(* queued frame ends up in another's beat, until a flit is misread.        *)
LandedIntact ==
  ~misread =>
    /\ stored.bytes > 0 =>
         memW.data = [i \in 1..STRB |-> (stored.bytes - STRB) + i]
    /\ liteStored > 0 => liteW.data = [i \in 1..LITESTRB |-> liteW.id]

(* Data that begin with OP_AW are harmless as long as no Full header is    *)
(* lost: a continuation flit is read as a header only behind one that was, *)
(* since till then the depacketizer counts every flit of a frame down      *)
(* (axi_depacketizer.sv, rx_is_cont in aw_rx_fire).                        *)
MisreadOnlyAfterLoss == misread => fullLost

(* "If a shadow AW is queued, skip IDLE and drive it next"                 *)
(* (axi_depacketizer.sv, the write FSM): no queued AW waits in IDLE.       *)
QueuedAwIsDrivenNext == awPending => dState # "IDLE"
=============================================================================
