----------------------------- MODULE AuroraRead -----------------------------
(***************************************************************************)
(* The read path of the bridge: AR packets of the Full slave (axi_to_aurora*)
(* read FSM) and of the Lite slave (axi_lite_to_aurora) over user-K, the   *)
(* one read FSM of axi_depacketizer, the memory, and the way back: R frames*)
(* on the data channel, R-Lite packets on user-K.  No other frames are on  *)
(* the data channel here; BridgeDuplex adds the writer at the far end.     *)
(*                                                                         *)
(* Each byte of memory is a number; reads are of disjoint stretches.       *)
(***************************************************************************)
EXTENDS RSender, RReceiver, AuroraLink

CONSTANTS
  MaxReads,      \* bound: Full reads the master issues
  MaxReadBeats,  \* bound: beats of a read
  MaxLiteReads   \* bound: Lite reads the host issues

ASSUME ReadBoundsAssumption ==
  /\ MaxReads \in Nat /\ MaxReadBeats \in 1..256
  /\ MaxLiteReads \in Nat

VARIABLES
  rlens,      \* beats of each Full read
  arState,    \* axi_to_aurora r_state_r
  nAR,        \* Full ARs accepted; the newest is in ar_*_r
  rDone,      \* Full reads completed, told by rlast
  rTaken,     \* beats the master has taken of the read under way
  masterR,    \* the R beat it took last
  laState,    \* axi_lite_to_aurora r_state_r
  nLiteAR,    \* Lite ARs accepted
  lrPending,  \* axi_lite_to_aurora r_pending_r
  lrData,     \* axi_lite_to_aurora r_data_r: id of the read it answers
  liteDone,   \* Lite reads completed
  liteR,      \* what the host read last
  arWire,     \* AR packets on user-K
  dRead,      \* axi_depacketizer r_state_r
  dAr,        \* axi_depacketizer ar_*_r
  memBeats,   \* beats the memory has returned for dAr
  rlPend,     \* axi_packetizer rl_pend_r
  rlData,     \* axi_packetizer rl_data_r
  rlWire      \* R-Lite packets on user-K

arVars   == <<rlens, arState, nAR>>
gotVars  == <<rDone, rTaken, masterR>>
liteRVars == <<laState, nLiteAR, lrPending, lrData, liteDone, liteR>>
depRVars == <<dRead, dAr, memBeats>>
rlVars   == <<rlPend, rlData>>
readVars == <<rfVars, rrVars, arVars, gotVars, liteRVars, arWire, depRVars,
              rlVars, rlWire, dataWire>>

Ar   == [lite : BOOLEAN, id : Nat, len : Nat]
NoAr == [lite |-> FALSE, id |-> 0, len |-> 0]

ReadInit ==
  /\ RfInit /\ RrInit
  /\ rlens \in [1..MaxReads -> 1..MaxReadBeats]
  /\ arState = "IDLE" /\ nAR = 0
  /\ rDone = 0 /\ rTaken = 0 /\ masterR = [data |-> <<>>, last |-> FALSE, id |-> 0]
  /\ laState = "IDLE" /\ nLiteAR = 0 /\ lrPending = FALSE /\ lrData = 0
  /\ liteDone = 0 /\ liteR = 0
  /\ arWire = <<>> /\ dRead = "IDLE" /\ dAr = NoAr /\ memBeats = 0
  /\ rlPend = FALSE /\ rlData = 0 /\ rlWire = <<>> /\ dataWire = <<>>

(***************************************************************************)
(* Near end.                                                               *)
(***************************************************************************)
(* The master keeps one Full read outstanding.                             *)
MasterAR ==
  /\ arState = "IDLE" /\ nAR < MaxReads /\ nAR = rDone
  /\ arState' = "TX_AR" /\ nAR' = nAR + 1
  /\ UNCHANGED <<rlens, rfVars, rrVars, gotVars, liteRVars, arWire, depRVars,
                 rlVars, rlWire, dataWire>>

SendAR ==
  /\ arState = "TX_AR"
  /\ arWire' = Append(arWire, [lite |-> FALSE, id |-> nAR, len |-> rlens[nAR]])
  /\ arState' = "IDLE"
  /\ UNCHANGED <<rlens, nAR, rfVars, rrVars, gotVars, liteRVars, depRVars,
                 rlVars, rlWire, dataWire>>

LiteMasterAR ==
  /\ laState = "IDLE" /\ nLiteAR < MaxLiteReads /\ nLiteAR = liteDone
  /\ laState' = "TX_AR" /\ nLiteAR' = nLiteAR + 1
  /\ UNCHANGED <<lrPending, lrData, liteDone, liteR, rfVars, rrVars, arVars, gotVars,
                 arWire, depRVars, rlVars, rlWire, dataWire>>

(* The user-K arbiter: Full AR before Lite AR.                             *)
SendLiteAR ==
  /\ laState = "TX_AR" /\ arState # "TX_AR"
  /\ arWire' = Append(arWire, [lite |-> TRUE, id |-> nLiteAR, len |-> 1])
  /\ laState' = "IDLE"
  /\ UNCHANGED <<nLiteAR, lrPending, lrData, liteDone, liteR, rfVars, rrVars, arVars,
                 gotVars, depRVars, rlVars, rlWire, dataWire>>

RFlitArrives ==
  /\ dataWire # <<>>
  /\ RxRHeader(Head(dataWire)) \/ RxRCont(Head(dataWire))
  /\ dataWire' = Tail(dataWire)
  /\ UNCHANGED <<rfVars, arVars, gotVars, liteRVars, arWire, depRVars, rlVars, rlWire>>

MasterR ==
  /\ TakeR
  /\ masterR' = [data |-> RrBeat, last |-> RrBeatLast, id |-> rrId]
  /\ rTaken' = IF RrBeatLast THEN 0 ELSE rTaken + 1
  /\ rDone' = IF RrBeatLast THEN rDone + 1 ELSE rDone
  /\ UNCHANGED <<rfVars, arVars, liteRVars, arWire, depRVars, rlVars, rlWire, dataWire>>

(* An R-Lite packet; the 1-deep staging is overwritten.                    *)
TakeRLitePacket ==
  /\ rlWire # <<>>
  /\ lrPending' = TRUE /\ lrData' = Head(rlWire) /\ rlWire' = Tail(rlWire)
  /\ UNCHANGED <<laState, nLiteAR, liteDone, liteR, rfVars, rrVars, arVars, gotVars,
                 arWire, depRVars, rlVars, dataWire>>

LiteMasterR ==
  /\ lrPending
  /\ lrPending' = FALSE /\ liteR' = lrData /\ liteDone' = liteDone + 1
  /\ UNCHANGED <<laState, nLiteAR, lrData, rfVars, rrVars, arVars, gotVars, arWire,
                 depRVars, rlVars, rlWire, dataWire>>

(***************************************************************************)
(* Far end.                                                                *)
(***************************************************************************)
TakesAR == dRead = "IDLE"

(* ar_rx_fire; an AR that finds the FSM busy is gone.                      *)
ArArrives ==
  /\ arWire # <<>>
  /\ arWire' = Tail(arWire)
  /\ IF TakesAR
     THEN dRead' = "DRIVE_AR" /\ dAr' = Head(arWire) /\ memBeats' = 0
     ELSE UNCHANGED depRVars
  /\ UNCHANGED <<rfVars, rrVars, arVars, gotVars, liteRVars, rlVars, rlWire, dataWire>>

DriveAR ==
  /\ dRead = "DRIVE_AR"
  /\ dRead' = "WAIT_R"
  /\ UNCHANGED <<dAr, memBeats, rfVars, rrVars, arVars, gotVars, liteRVars, arWire,
                 rlVars, rlWire, dataWire>>

ReadBeat(id, beat) ==
  [i \in 1..STRB |-> ((id - 1) * MaxReadBeats + (beat - 1)) * STRB + i]

MemBeat     == ReadBeat(dAr.id, memBeats + 1)
MemBeatLast == memBeats + 1 = dAr.len

(* The memory returns the next beat of the Full read; its rlast frees the  *)
(* read FSM though the packetizer has still to send the beats.             *)
MemoryReturns ==
  /\ dRead = "WAIT_R" /\ ~dAr.lite
  /\ memBeats' = memBeats + 1
  /\ dRead' = IF MemBeatLast THEN "IDLE" ELSE dRead
  /\ UNCHANGED dAr

MemoryR ==
  /\ MemoryReturns
  /\ RfPush(dAr.id, MemBeat, MemBeatLast)
  /\ UNCHANGED <<rrVars, arVars, gotVars, liteRVars, arWire, rlVars, rlWire, dataWire>>

SendRFlit ==
  /\ RfEmit
  /\ dataWire' = Append(dataWire, RfFlit)
  /\ UNCHANGED <<rrVars, arVars, gotVars, liteRVars, arWire, depRVars, rlVars, rlWire>>

MemoryRAndSendRFlit ==
  /\ MemoryReturns
  /\ RfPushAndEmit(MemBeat, MemBeatLast)
  /\ dataWire' = Append(dataWire, RfFlit)
  /\ UNCHANGED <<rrVars, arVars, gotVars, liteRVars, arWire, rlVars, rlWire>>

MemoryRLite ==
  /\ dRead = "WAIT_R" /\ dAr.lite /\ ~rlPend
  /\ dRead' = "IDLE" /\ rlPend' = TRUE /\ rlData' = dAr.id
  /\ UNCHANGED <<dAr, memBeats, rfVars, rrVars, arVars, gotVars, liteRVars, arWire,
                 rlWire, dataWire>>

SendRLite ==
  /\ rlPend
  /\ rlWire' = Append(rlWire, rlData) /\ rlPend' = FALSE
  /\ UNCHANGED <<rlData, rfVars, rrVars, arVars, gotVars, liteRVars, arWire, depRVars,
                 dataWire>>

ReadFinished ==
  /\ rDone = MaxReads /\ liteDone = MaxLiteReads
  /\ UNCHANGED readVars

ReadNear == MasterAR \/ SendAR \/ LiteMasterAR \/ SendLiteAR \/ RFlitArrives
              \/ MasterR \/ TakeRLitePacket \/ LiteMasterR
ReadFar  == ArArrives \/ DriveAR \/ MemoryR \/ SendRFlit \/ MemoryRAndSendRFlit
              \/ MemoryRLite \/ SendRLite
ReadNext == ReadNear \/ ReadFar \/ ReadFinished

ReadSpec == ReadInit /\ [][ReadNext]_readVars

-----------------------------------------------------------------------------
ReadTypeOK ==
  /\ RfTypeOK /\ RrTypeOK
  /\ rlens \in [1..MaxReads -> 1..MaxReadBeats]
  /\ arState \in {"IDLE", "TX_AR"} /\ laState \in {"IDLE", "TX_AR"}
  /\ nAR \in 0..MaxReads /\ nLiteAR \in 0..MaxLiteReads
  /\ rDone \in Nat /\ rTaken \in Nat /\ liteDone \in Nat
  /\ lrPending \in BOOLEAN /\ lrData \in Nat /\ liteR \in Nat
  /\ arWire \in Seq(Ar) /\ dRead \in {"IDLE", "DRIVE_AR", "WAIT_R"} /\ dAr \in Ar
  /\ memBeats \in Nat /\ rlPend \in BOOLEAN /\ rlData \in Nat /\ rlWire \in Seq(Nat)
  /\ dataWire \in Seq(RFlit)

(* Beats the memory has returned of a Full read that was taken.            *)
Fetched(id) == IF ~dAr.lite /\ dAr.id = id THEN memBeats ELSE rlens[id]

(* Of the read under way, the bytes in the receive buffer continue those   *)
(* the master took, and the bytes in the send buffer end with the last the *)
(* memory returned (aurora_r_receiver.sv, axi_packetizer.sv, the R buffer  *)
(* updates).                                                               *)
ReadBytesInOrder ==
  /\ rrCount > 0 =>
       \A i \in 1..BufBytes : i <= rrCount =>
         rrBuf[i] = ((rrId - 1) * MaxReadBeats + rTaken) * STRB + i
  /\ rfCount > 0 =>
       \A i \in 1..BufBytes : i <= rfCount =>
         rfBuf[i] = ((rfId - 1) * MaxReadBeats + Fetched(rfId)) * STRB - rfCount + i

(* The simulation warnings "R header while previous R not fully drained"   *)
(* (aurora_r_receiver.sv) and "m_rlast while previous R burst still        *)
(* draining" (axi_packetizer.sv) cannot fire: a header flit finds the      *)
(* receiver empty and a new burst finds the sender empty.                  *)
NoHeaderBeforeDrained ==
  /\ dataWire # <<>> /\ Head(dataWire).op = "R" => ~rrInCont /\ ~rrLast /\ rrCount = 0
  /\ dRead = "WAIT_R" /\ ~dAr.lite /\ memBeats = 0 => rfState = "IDLE" /\ rfCount = 0

(* "R RX byte buffer overrun" (aurora_r_receiver.sv) does not fire for     *)
(* reads that fit the buffer: a slow master finds one read's bytes in it   *)
(* and none of the next.  (A longer read overruns it.)                     *)
NoReadOverrun ==
  dataWire # <<>> /\ rrInCont => rrCount + Head(dataWire).keep <= BufBytes

(* "m_rlast ... tlast has been received AND this beat drains the buffer"   *)
(* (aurora_r_receiver.sv): once the last flit of a burst has arrived, its  *)
(* last beat is offered with rlast.                                        *)
LastBeatHasRlast ==
  ~rrInCont /\ rrCount = STRB => RrBeatLast

(* Whether the newest Full read is at or past the depacketizer's read FSM. *)
NewestTaken == nAR > 0 /\ (rfId = nAR \/ (~dAr.lite /\ dAr.id = nAR))

ReadService ==
  INSTANCE AxiReadService WITH
    MaxBeats <- MaxReadBeats,
    asked   <- nAR,
    fetched <- IF NewestTaken THEN Fetched(nAR) ELSE 0,
    taken   <- IF nAR > 0 /\ rDone = nAR THEN rlens[nAR] ELSE rTaken

(* The bridge implements the read service: every beat the memory returns   *)
(* reaches the master once, in order, rlast on the last and nowhere else,  *)
(* even while Lite reads compete and ARs are lost.                         *)
ImplementsReadService == ReadService!Spec
=============================================================================
