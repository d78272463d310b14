---------------------------- MODULE AuroraWrite -----------------------------
(***************************************************************************)
(* One axi_to_aurora sender, the Aurora link, and the axi_depacketizer and *)
(* B staging of the responder at the far end, with an AXI master that      *)
(* writes bursts and a memory that takes them.                             *)
(*                                                                         *)
(* Every W byte is its position in the stream of bytes the master hands    *)
(* over, so a byte lost, repeated or moved anywhere on the way is seen.    *)
(* The link (external) delivers flits in order and loses none; its         *)
(* transmit side may refuse a flit for any time, its receive side has no   *)
(* back-pressure.  The memory may refuse AW, W and B for any time.         *)
(***************************************************************************)
EXTENDS AxiToAurora, Depacketizer, AuroraLink

CONSTANTS
  MaxBursts,  \* bound: bursts the master writes
  MaxBeats    \* bound: beats of a burst

ASSUME BoundsAssumption == MaxBursts \in Nat /\ MaxBeats \in 1..256

VARIABLES
  lens,       \* beats of each burst the master has to write
  nAW,        \* AWs accepted so far; also the id of the newest
  given,      \* the W beat the master presents: burst, beat, bytes before it
  answered,   \* id of the last B the master took
  bfId,       \* axi_packetizer bf_* staging: id of the B held, 0 if none
  bWire,      \* B packets on the user-K channel
  stored,     \* the beat the memory takes next, counting bursts by wlast
  memW        \* the beat it took last, with its wlast and its AW's id

masterVars == <<lens, nAW, given, answered>>
memoryVars == <<stored, memW>>
linkVars   == <<dataWire, bWire>>
vars       == <<txVars, rxVars, masterVars, memoryVars, linkVars, bfId>>

Bursts == 1..MaxBursts

Advance(p, last) ==
  [burst |-> IF last THEN p.burst + 1 ELSE p.burst,
   beat  |-> IF last THEN 1 ELSE p.beat + 1,
   bytes |-> p.bytes + STRB]

Init ==
  /\ TxInit /\ RxInit
  /\ lens \in [Bursts -> 1..MaxBeats]
  /\ nAW = 0 /\ answered = 0
  /\ given  = [burst |-> 1, beat |-> 1, bytes |-> 0]
  /\ stored = [burst |-> 1, beat |-> 1, bytes |-> 0]
  /\ memW = [data |-> <<>>, last |-> FALSE, id |-> 0]
  /\ dataWire = <<>> /\ bfId = 0 /\ bWire = <<>>

(***************************************************************************)
(* Near end.  W beats may be presented before their AW is accepted, as AXI *)
(* allows; only axi_to_aurora's own guard holds them back.                 *)
(***************************************************************************)
MasterAW ==
  /\ nAW < MaxBursts
  /\ AcceptAW([len |-> lens[nAW + 1] - 1, lite |-> FALSE, id |-> nAW + 1])
  /\ nAW' = nAW + 1
  /\ UNCHANGED <<lens, given, answered, rxVars, memoryVars, linkVars, bfId>>

Beat      == [i \in 1..STRB |-> given.bytes + i]
BeatLast  == given.beat = lens[given.burst]

MasterW ==
  /\ given.burst <= MaxBursts
  /\ AcceptW(Beat, BeatLast)
  /\ given' = Advance(given, BeatLast)
  /\ UNCHANGED <<lens, nAW, answered, rxVars, memoryVars, linkVars, bfId>>

SendFlit ==
  /\ EmitFlit
  /\ dataWire' = Append(dataWire, TxFlit)
  /\ UNCHANGED <<rxVars, masterVars, memoryVars, bWire, bfId>>

MasterWAndSendFlit ==
  /\ given.burst <= MaxBursts
  /\ AcceptWAndEmit(Beat, BeatLast)
  /\ given' = Advance(given, BeatLast)
  /\ dataWire' = Append(dataWire, TxFlit)
  /\ UNCHANGED <<lens, nAW, answered, rxVars, memoryVars, bWire, bfId>>

TakeBPacket ==
  /\ bWire # <<>>
  /\ RecvB(Head(bWire)) /\ bWire' = Tail(bWire)
  /\ UNCHANGED <<rxVars, masterVars, memoryVars, dataWire, bfId>>

MasterB ==
  /\ TakeB
  /\ answered' = bId
  /\ UNCHANGED <<lens, nAW, given, rxVars, memoryVars, linkVars, bfId>>

(***************************************************************************)
(* Far end.  With one write outstanding no flit is ever ignored and no     *)
(* header meets a B handshake (NoFlitIgnored), so RxIgnore and             *)
(* BFireWithHeader have no place here; BridgeWrite has them.               *)
(***************************************************************************)
FlitArrives ==
  /\ dataWire # <<>>
  /\ RxHeader(Head(dataWire)) \/ RxCont(Head(dataWire))
  /\ dataWire' = Tail(dataWire)
  /\ UNCHANGED <<txVars, masterVars, memoryVars, bWire, bfId>>

MemoryAW ==
  /\ DriveAW
  /\ UNCHANGED <<txVars, masterVars, memoryVars, linkVars, bfId>>

MemoryW ==
  /\ DriveW
  /\ stored' = Advance(stored, OutLast)
  /\ memW' = [data |-> OutBeat, last |-> OutLast, id |-> dAw.id]
  /\ UNCHANGED <<txVars, masterVars, linkVars, bfId>>

(* The responder offers the B to packetizer and depacketizer at once: it   *)
(* is taken when the packetizer's staging is free.                         *)
MemoryB ==
  /\ bfId = 0
  /\ BFire
  /\ bfId' = dAw.id
  /\ UNCHANGED <<txVars, masterVars, memoryVars, linkVars>>

SendBPacket ==
  /\ bfId # 0
  /\ bWire' = Append(bWire, bfId) /\ bfId' = 0
  /\ UNCHANGED <<txVars, rxVars, masterVars, memoryVars, dataWire>>

(* All bursts written and answered.                                        *)
Finished ==
  /\ nAW = MaxBursts /\ wState = "IDLE"
  /\ UNCHANGED vars

Near == MasterAW \/ MasterW \/ SendFlit \/ MasterWAndSendFlit \/ TakeBPacket \/ MasterB
Far  == FlitArrives \/ MemoryAW \/ MemoryW \/ MemoryB \/ SendBPacket
Next == Near \/ Far \/ Finished

Spec == Init /\ [][Next]_vars

(* The clock of each end runs; the master presents the W beats it owes and *)
(* takes its B, the link accepts, the memory answers: AXI and Aurora       *)
(* promise each of these, and a handshake, once enabled, stays enabled.    *)
Fairness == WF_vars(Near) /\ WF_vars(Far)
FairSpec == Spec /\ Fairness

-----------------------------------------------------------------------------
TypeOK ==
  /\ TxTypeOK /\ RxTypeOK
  /\ lens \in [Bursts -> 1..MaxBeats]
  /\ nAW \in 0..MaxBursts /\ answered \in Nat
  /\ given  \in [burst : Nat \ {0}, beat : Nat \ {0}, bytes : Nat]
  /\ stored \in [burst : Nat \ {0}, beat : Nat \ {0}, bytes : Nat]
  /\ dataWire \in Seq(Flit)
  /\ bfId \in Nat /\ bWire \in Seq(Nat)

(* A flit at the head of the wire is one the depacketizer takes on arrival,*)
(* for what it is: there is no second chance and no opcode to tell a       *)
(* continuation flit by (axi_depacketizer.sv, aw_rx_fire, cont_rx_fire).   *)
NoFlitIgnored ==
  dataWire # <<>> =>
    LET f == Head(dataWire)
    IN  IF f.op = "AW" THEN TakesHeader(f) /\ dState = "IDLE" ELSE TakesCont

(* Everything the master handed over and the memory has not stored is in   *)
(* the two buffers and on the wire, in order and without a hole: the bytes *)
(* in the receive buffer continue the stored ones, those in the transmit   *)
(* buffer end with the last one accepted.                                  *)
BytesInOrder ==
  /\ \A i \in 1..RxBufBytes : i <= rxCount => rxBuf[i] = stored.bytes + i
  /\ \A i \in 1..BufBytes :
        i <= txCount => txBuf[i] = (given.bytes - txCount) + i

(* The simulation assertion "W RX chunk buffer overrun" does not fire for  *)
(* bursts that fit the receive buffer: while the memory stalls it holds    *)
(* one burst's bytes and none of the next.  (The code lets awlen be        *)
(* longer; such a burst overruns it.)                                      *)
NoRxOverrun ==
  dataWire # <<>> /\ TakesCont => rxCount + Least(remRx, CONT) <= RxBufBytes

(* A beat is accepted only when there is room for it in the byte buffer.   *)
PushOnlyIntoRoom == CanPush => txCount + STRB <= BufBytes

Service ==
  INSTANCE AxiWriteService WITH issued <- nAW

(* The bridge implements the write service: the memory sees the master's   *)
(* own beats, bursts do not slip against their AWs, and a B means stored.  *)
ImplementsService == Service!Spec

(* An accepted AW gets its B: no burst is stuck in a buffer, waiting for   *)
(* bytes that will not come or for a B that was lost.                      *)
EveryBurstAnswered == \A b \in Bursts : (nAW >= b) ~> (answered >= b)
=============================================================================
