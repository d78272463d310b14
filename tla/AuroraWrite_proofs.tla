------------------------- MODULE AuroraWrite_proofs -------------------------
(***************************************************************************)
(* Theorems about AuroraWrite for every geometry, every number of bursts   *)
(* and every burst length: the types; and, if the room test cannot wrap    *)
(* and the receive buffer holds a burst, the order of bytes: nothing is    *)
(* lost, repeated or moved between the master and the memory.              *)
(*                                                                         *)
(* The lemmas speak of a wire w that carries the write frames and nothing  *)
(* else: here it is dataWire, in the two bridges what other frames leave   *)
(* of it.                                                                  *)
(***************************************************************************)
EXTENDS AuroraWrite, TLAPS, SequenceTheorems

-----------------------------------------------------------------------------
(* The bytes of a stream are numbered, so a piece of it is told by the     *)
(* position it starts at.                                                  *)

(* A flit begins where its first byte says.                                *)
From(f) == f.data[1] - 1

(* n bytes of the stream from p on, and Zero from the burst's end on.      *)
StreamFrom(bytes, n, p, end) ==
  \A j \in 1..n : bytes[j] = IF p + j <= end THEN p + j ELSE Zero

-----------------------------------------------------------------------------
(* The byte-buffer operators keep a buffer's size and hold bytes.          *)

LEMMA ByteFacts ==
  /\ Zero \in Byte /\ Garbled \in Byte /\ Nat \subseteq Byte
  /\ \A a, b \in Byte : OrByte(a, b) \in Byte
BY DEF Zero, Garbled, Byte, OrByte

LEMMA ZeroBytesType ==
  ASSUME NEW n \in Nat
  PROVE  ZeroBytes(n) \in [1..n -> Byte]
BY ByteFacts DEF ZeroBytes

LEMMA OrAtType ==
  ASSUME NEW n \in Nat, NEW m \in Nat, NEW at \in Int,
         NEW buf \in [1..n -> Byte], NEW bytes \in [1..m -> Byte]
  PROVE  OrAt(buf, at, bytes) \in [1..n -> Byte]
BY ByteFacts DEF OrAt

LEMMA ShiftDownType ==
  ASSUME NEW n \in Nat, NEW k \in Int, NEW buf \in [1..n -> Byte]
  PROVE  ShiftDown(buf, k) \in [1..n -> Byte]
BY ByteFacts DEF ShiftDown

LEMMA LowType ==
  ASSUME NEW n \in Nat, NEW k \in Nat, NEW buf \in [1..n -> Byte]
  PROVE  Low(buf, k) \in [1..k -> Byte]
BY ByteFacts DEF Low

(* A count of clog2 bits holds what a sum leaves of it.                    *)
LEMMA ModRange ==
  ASSUME NEW a \in Nat, NEW m \in Nat \ {0}
  PROVE  a % m \in 0..(m - 1)
OBVIOUS

LEMMA Sizes ==
  /\ BufBytes \in Nat /\ RxBufBytes \in Nat
  /\ TXMOD \in Nat \ {0} /\ RXMOD \in Nat \ {0}
  /\ BufBytes < TXMOD /\ RxBufBytes < RXMOD
BY GeometryAssumption DEF BufBytes, RxBufBytes, Clog2Range

-----------------------------------------------------------------------------
(* Pieces of the stream: what OR-ing in, shifting out and reading the low  *)
(* end of a buffer make of one.                                            *)

LEMMA OrAtStream ==
  ASSUME NEW n \in Nat, NEW m \in Nat, NEW at \in Nat,
         NEW buf \in [1..n -> Byte], NEW bytes \in [1..m -> Byte],
         NEW p \in Int, NEW e \in Int,
         StreamFrom(buf, n, p, p + at), StreamFrom(bytes, m, p + at, e),
         p + at <= e, e <= p + at + m
  PROVE  StreamFrom(OrAt(buf, at, bytes), n, p, e)
<1> SUFFICES ASSUME NEW i \in 1..n
             PROVE  OrAt(buf, at, bytes)[i] = IF p + i <= e THEN p + i ELSE Zero
  BY DEF StreamFrom
<1>1. OrAt(buf, at, bytes)[i] =
        IF i - at \in 1..m THEN OrByte(buf[i], bytes[i - at]) ELSE buf[i]
  BY DEF OrAt
<1>2. buf[i] = IF i <= at THEN p + i ELSE Zero
  BY DEF StreamFrom
<1>3. CASE i <= at
  BY <1>1, <1>2, <1>3
<1>4. CASE i - at \in 1..m
  <2>1. bytes[i - at] = IF p + i <= e THEN p + i ELSE Zero
    <3>1. bytes[i - at] = IF (p + at) + (i - at) <= e THEN (p + at) + (i - at) ELSE Zero
      BY <1>4 DEF StreamFrom
    <3>2. (p + at) + (i - at) = p + i
      OBVIOUS
    <3> QED BY <3>1, <3>2
  <2>2. buf[i] = Zero
    BY <1>2, <1>4
  <2> QED BY <1>1, <1>4, <2>1, <2>2 DEF OrByte
<1>5. CASE i > at + m
  BY <1>1, <1>2, <1>5
<1> QED BY <1>3, <1>4, <1>5

LEMMA ShiftStream ==
  ASSUME NEW n \in Nat, NEW k \in Nat, NEW buf \in [1..n -> Byte],
         NEW p \in Int, NEW e \in Int, StreamFrom(buf, n, p, e), e <= p + n
  PROVE  StreamFrom(ShiftDown(buf, k), n, p + k, e)
<1> SUFFICES ASSUME NEW i \in 1..n
             PROVE  ShiftDown(buf, k)[i] = IF (p + k) + i <= e THEN (p + k) + i ELSE Zero
  BY DEF StreamFrom
<1>1. ShiftDown(buf, k)[i] = IF i + k \in 1..n THEN buf[i + k] ELSE Zero
  BY DEF ShiftDown
<1>2. CASE i + k \in 1..n
  BY <1>1, <1>2 DEF StreamFrom
<1>3. CASE i + k > n
  BY <1>1, <1>3
<1> QED BY <1>2, <1>3

LEMMA LowStream ==
  ASSUME NEW n \in Nat, NEW k \in Nat, NEW buf \in [1..n -> Byte],
         NEW p \in Int, NEW e \in Int, StreamFrom(buf, n, p, e), e <= p + n
  PROVE  StreamFrom(Low(buf, k), k, p, e)
<1> SUFFICES ASSUME NEW i \in 1..k
             PROVE  Low(buf, k)[i] = IF p + i <= e THEN p + i ELSE Zero
  BY DEF StreamFrom
<1>1. Low(buf, k)[i] = IF i \in 1..n THEN buf[i] ELSE Zero
  BY DEF Low
<1> QED BY <1>1 DEF StreamFrom

(* A full piece is a piece of any stream that goes on at least as long.    *)
LEMMA Restream ==
  ASSUME NEW n \in Nat, NEW bytes, NEW p \in Int, NEW e \in Int, NEW f \in Int,
         StreamFrom(bytes, n, p, e), e = f \/ (p + n <= e /\ p + n <= f)
  PROVE  StreamFrom(bytes, n, p, f)
BY DEF StreamFrom

-----------------------------------------------------------------------------
(* Beats as bytes.                                                         *)

LEMMA Beats ==
  /\ \A x \in Int : x * STRB \in Int /\ (x - 1) * STRB = x * STRB - STRB
  /\ \A x \in Int : x >= 1 => x * STRB >= STRB
  /\ \A x \in Int : x > 1 => x * STRB > STRB
  /\ \A x, y \in Int : x <= y => x * STRB <= y * STRB
<1>1. STRB \in Nat /\ STRB > 0
  BY GeometryAssumption
<1>2. \A x \in Int : x * STRB \in Int /\ (x - 1) * STRB = x * STRB - STRB
  BY <1>1
<1>3. \A x, y \in Int : x <= y => x * STRB <= y * STRB
  BY <1>1
<1>4. \A x \in Int : x >= 1 => x * STRB >= STRB
  BY <1>1
<1>5. \A x \in Int : x > 1 => x * STRB > STRB
  <2> SUFFICES ASSUME NEW x \in Int, x - 1 >= 1 PROVE x * STRB > STRB
    OBVIOUS
  <2> QED BY <1>1, <1>2, <1>4
<1> QED BY <1>2, <1>3, <1>4, <1>5

-----------------------------------------------------------------------------
(* An AW and its size.                                                     *)

LEMMA TotalBytesType ==
  ASSUME NEW aw \in Aw
  PROVE  BeatBytes(aw) \in Nat \ {0} /\ TotalBytes(aw) \in Nat \ {0}
<1>1. BeatBytes(aw) \in Nat \ {0}
  BY GeometryAssumption DEF BeatBytes, Aw
<1>2. aw.len + 1 \in Nat \ {0}
  BY DEF Aw
<1>3. \A x, y \in Nat \ {0} : x * y \in Nat \ {0}
  OBVIOUS
<1> QED BY <1>1, <1>2, <1>3 DEF TotalBytes

-----------------------------------------------------------------------------
(* What each end of the link keeps of its types, action by action.         *)

LEMMA TxFlitType ==
  ASSUME TxTypeOK
  PROVE  TxFlit \in Flit /\ IsFinal \in BOOLEAN
<1>1. Low(txBuf, HDR) \in [1..HDR -> Byte] /\ Low(txBuf, CONT) \in [1..CONT -> Byte]
  BY LowType, Sizes, GeometryAssumption DEF TxTypeOK
<1>2. IsFinal \in BOOLEAN
  BY DEF IsFinal, TxTypeOK
<1> QED BY <1>1, <1>2 DEF TxFlit, Header, Cont, Flit, TxTypeOK

LEMMA EmitRange ==
  ASSUME TxTypeOK
  PROVE  EmitN \in 0..txCount /\ (EmitReady => EmitN > 0)
BY GeometryAssumption DEF TxTypeOK, EmitN, FlitCap, Least, EmitReady

LEMMA AcceptWType ==
  ASSUME TxTypeOK, NEW wlast \in BOOLEAN, NEW beat \in [1..STRB -> Byte],
         AcceptW(beat, wlast)
  PROVE  TxTypeOK'
<1>1. STRB \in Nat
  BY GeometryAssumption
<1>2. txBuf' \in [1..BufBytes -> Byte]
  BY <1>1, OrAtType, Sizes DEF AcceptW, TxTypeOK
<1>3. txCount' \in 0..(TXMOD - 1)
  BY <1>1, ModRange, Sizes DEF AcceptW, TxTypeOK
<1> QED BY <1>2, <1>3 DEF AcceptW, TxTypeOK

LEMMA EmitFlitType ==
  ASSUME TxTypeOK, EmitFlit
  PROVE  TxTypeOK'
<1>1. txBuf' \in [1..BufBytes -> Byte]
  BY EmitRange, ShiftDownType, Sizes DEF EmitFlit, TxTypeOK
<1>2. txCount' \in 0..(TXMOD - 1)
  BY EmitRange, Sizes DEF EmitFlit, TxTypeOK
<1> QED BY <1>1, <1>2 DEF EmitFlit, AfterEmit, TxTypeOK

LEMMA AcceptWAndEmitType ==
  ASSUME TxTypeOK, NEW wlast \in BOOLEAN, NEW beat \in [1..STRB -> Byte],
         AcceptWAndEmit(beat, wlast)
  PROVE  TxTypeOK'
<1>1. STRB \in Nat /\ EmitN \in 0..txCount /\ txCount \in Nat
  BY EmitRange, GeometryAssumption DEF TxTypeOK
<1>2. ShiftDown(txBuf, EmitN) \in [1..BufBytes -> Byte]
  BY <1>1, ShiftDownType, Sizes DEF TxTypeOK
<1>3. txBuf' \in [1..BufBytes -> Byte]
  BY <1>1, <1>2, OrAtType, Sizes DEF AcceptWAndEmit
<1>4. txCount - EmitN + STRB \in Nat
  BY <1>1
<1>5. txCount' \in 0..(TXMOD - 1)
  BY <1>4, ModRange, Sizes DEF AcceptWAndEmit
<1> QED BY <1>3, <1>5 DEF AcceptWAndEmit, AfterEmit, TxTypeOK

LEMMA TakeBType ==
  ASSUME TxTypeOK, TakeB
  PROVE  TxTypeOK'
<1>1. txBuf' \in [1..BufBytes -> Byte]
  BY ZeroBytesType, Sizes DEF TakeB
<1>2. txCount' \in 0..(TXMOD - 1)
  BY Sizes DEF TakeB
<1> QED BY <1>1, <1>2 DEF TakeB, TxTypeOK

LEMMA ArrivalType ==
  ASSUME RxTypeOK, NEW f \in Flit, RxHeader(f) \/ RxCont(f)
  PROVE  RxTypeOK'
<1> USE DEF RxTypeOK
<1>0. f.aw \in Aw
  <2>1. NoAw \in Aw
    BY DEF NoAw, Aw
  <2> QED BY <2>1 DEF Flit
<1>1. CASE RxHeader(f)
  <2> DEFINE n == Least(TotalBytes(f.aw), HDR)
  <2>1. f.op = "AW" /\ f.data \in [1..HDR -> Byte]
    BY <1>1 DEF RxHeader, TakesHeader, Flit
  <2>2. TotalBytes(f.aw) \in Nat /\ n \in Nat /\ TotalBytes(f.aw) - n \in Nat
    BY <1>0, TotalBytesType, GeometryAssumption DEF Least
  <2>3. rxBuf' \in [1..RxBufBytes -> Byte]
    BY <1>1, <2>1, OrAtType, Sizes, GeometryAssumption DEF RxHeader, PushHeader, Push
  <2>4. rxCount' \in 0..(RXMOD - 1)
    <3>1. rxCount + n \in Nat
      BY <2>2
    <3>2. rxCount' = (rxCount + n) % RXMOD
      BY <1>1 DEF RxHeader, PushHeader, Push
    <3> QED BY <3>1, <3>2, ModRange, Sizes
  <2>5. remRx' \in Nat
    BY <1>1, <2>2 DEF RxHeader, PushHeader
  <2>6. CASE dState = "IDLE"
    <3>1. dAw' \in Aw /\ shadowAw' \in Aw /\ awPending' \in BOOLEAN
      BY <1>0, <1>1, <2>6 DEF RxHeader
    <3>2. dState' = "DRIVE_AW" /\ remDrv' \in Int
      BY <1>1, <2>2, <2>6 DEF RxHeader
    <3> QED BY <2>3, <2>4, <2>5, <3>1, <3>2
  <2>7. CASE dState # "IDLE"
    <3>1. dAw' \in Aw /\ shadowAw' \in Aw /\ awPending' \in BOOLEAN
      BY <1>0, <1>1, <2>7 DEF RxHeader
    <3>2. dState' = dState /\ remDrv' = remDrv
      BY <1>1, <2>7 DEF RxHeader
    <3> QED BY <2>3, <2>4, <2>5, <3>1, <3>2
  <2> QED BY <2>6, <2>7
<1>2. CASE RxCont(f)
  <2> DEFINE n == Least(remRx, CONT)
  <2>1. ContField(f) \in [1..CONT -> Byte]
    BY ByteFacts DEF ContField, Flit
  <2>2. n \in Nat /\ remRx - n \in Nat
    BY GeometryAssumption DEF Least
  <2>3. rxBuf' \in [1..RxBufBytes -> Byte]
    BY <1>2, <2>1, OrAtType, Sizes, GeometryAssumption DEF RxCont, Push
  <2>4. rxCount' \in 0..(RXMOD - 1)
    <3>1. rxCount + n \in Nat
      BY <2>2
    <3>2. rxCount' = (rxCount + n) % RXMOD
      BY <1>2 DEF RxCont, Push
    <3> QED BY <3>1, <3>2, ModRange, Sizes
  <2> QED BY <1>2, <2>2, <2>3, <2>4 DEF RxCont
<1> QED BY <1>1, <1>2

LEMMA DriveType ==
  ASSUME RxTypeOK, DriveAW \/ DriveW \/ BFire
  PROVE  RxTypeOK'
<1> USE DEF RxTypeOK
<1>1. CASE DriveAW
  BY <1>1 DEF DriveAW
<1>2. CASE DriveW
  <2>1. BeatBytes(dAw) \in Nat
    BY TotalBytesType
  <2>2. rxBuf' \in [1..RxBufBytes -> Byte]
    BY <1>2, <2>1, ShiftDownType, Sizes DEF DriveW
  <2>3. rxCount' \in 0..(RXMOD - 1)
    BY <1>2, <2>1, Sizes DEF DriveW, HaveBeat
  <2> QED BY <1>2, <2>1, <2>2, <2>3 DEF DriveW
<1>3. CASE BFire
  <2>1. TotalBytes(shadowAw) \in Nat
    BY TotalBytesType
  <2>2. CASE awPending
    <3>1. /\ dAw' = shadowAw /\ awPending' = FALSE /\ dState' = "DRIVE_AW"
          /\ remDrv' = TotalBytes(shadowAw)
          /\ UNCHANGED <<shadowAw, rxBuf, rxCount, remRx>>
      BY <1>3, <2>2 DEF BFire
    <3>2. remDrv' \in Int
      BY <2>1, <3>1
    <3> QED BY <3>1, <3>2
  <2>3. CASE ~awPending
    BY <1>3, <2>3 DEF BFire
  <2> QED BY <2>2, <2>3
<1> QED BY <1>1, <1>2, <1>3

-----------------------------------------------------------------------------
(* Every variable keeps its type: the byte counts stay in their width, the *)
(* buffers in their size, and a burst's countdown never passes zero        *)
(* (axi_to_aurora count_r, axi_depacketizer rx_count_r, bytes_rem_rx_r).   *)

(* The types of all but the data wire, which the bridges share with other  *)
(* frames.                                                                 *)
PortTypes ==
  /\ TxTypeOK /\ RxTypeOK
  /\ lens \in [Bursts -> 1..MaxBeats]
  /\ nAW \in 0..MaxBursts /\ answered \in Nat
  /\ given  \in [burst : Nat \ {0}, beat : Nat \ {0}, bytes : Nat]
  /\ stored \in [burst : Nat \ {0}, beat : Nat \ {0}, bytes : Nat]
  /\ bfId \in Nat /\ bWire \in Seq(Nat)

LEMMA TypeParts == TypeOK <=> PortTypes /\ dataWire \in Seq(Flit)
BY DEF TypeOK, PortTypes

LEMMA TypeInit == Init => PortTypes /\ dataWire \in Seq(Flit)
<1> SUFFICES ASSUME Init PROVE PortTypes /\ dataWire \in Seq(Flit)
  OBVIOUS
<1>0. NoAw \in Aw
  BY DEF NoAw, Aw
<1>1. TxTypeOK
  <2>1. txBuf \in [1..BufBytes -> Byte] /\ txCount \in 0..(TXMOD - 1)
    BY ZeroBytesType, Sizes DEF Init, TxInit
  <2>2. lastSeen = FALSE /\ bPending = FALSE /\ bId = 0 /\ txAw = NoAw /\ wState = "IDLE"
    BY DEF Init, TxInit
  <2> QED BY <1>0, <2>1, <2>2 DEF TxTypeOK
<1>2. RxTypeOK
  <2>1. rxBuf \in [1..RxBufBytes -> Byte] /\ rxCount \in 0..(RXMOD - 1)
    BY ZeroBytesType, Sizes DEF Init, RxInit
  <2>2. /\ dState = "IDLE" /\ dAw = NoAw /\ shadowAw = NoAw /\ awPending = FALSE
        /\ remRx = 0 /\ remDrv = 0
    BY DEF Init, RxInit
  <2>3. dAw \in Aw /\ shadowAw \in Aw /\ awPending \in BOOLEAN
    BY <1>0, <2>2
  <2>4. remRx \in Nat /\ remDrv \in Int
    BY <2>2
  <2> QED BY <2>1, <2>2, <2>3, <2>4 DEF RxTypeOK
<1> QED BY <1>1, <1>2, BoundsAssumption DEF Init, PortTypes

LEMMA BeatType ==
  ASSUME PortTypes
  PROVE  Beat \in [1..STRB -> Byte] /\ BeatLast \in BOOLEAN
BY ByteFacts, GeometryAssumption DEF PortTypes, Beat, BeatLast

LEMMA AdvanceType ==
  ASSUME NEW p \in [burst : Nat \ {0}, beat : Nat \ {0}, bytes : Nat],
         NEW last \in BOOLEAN
  PROVE  Advance(p, last) \in [burst : Nat \ {0}, beat : Nat \ {0}, bytes : Nat]
BY GeometryAssumption DEF Advance

LEMMA TypeNear ==
  ASSUME PortTypes, Near
  PROVE  PortTypes'
<1> DEFINE Place == [burst : Nat \ {0}, beat : Nat \ {0}, bytes : Nat]
<1>1. CASE MasterAW
  <2> DEFINE aw == [len |-> lens[nAW + 1] - 1, lite |-> FALSE, id |-> nAW + 1]
  <2>1. lens[nAW + 1] \in 1..MaxBeats /\ nAW' \in 0..MaxBursts
    BY <1>1, BoundsAssumption DEF MasterAW, PortTypes, Bursts
  <2>2. aw \in Aw
    BY <2>1, BoundsAssumption DEF Aw, PortTypes
  <2>3. TxTypeOK'
    BY <1>1, <2>2 DEF MasterAW, AcceptAW, TxTypeOK, PortTypes
  <2>4. RxTypeOK'
    BY <1>1 DEF MasterAW, rxVars, RxTypeOK, PortTypes
  <2> QED BY <1>1, <2>1, <2>3, <2>4 DEF MasterAW, memoryVars, linkVars, PortTypes
<1>2. CASE MasterW
  <2>1. TxTypeOK'
    BY <1>2, BeatType, AcceptWType DEF MasterW, PortTypes
  <2>2. RxTypeOK'
    BY <1>2 DEF MasterW, rxVars, RxTypeOK, PortTypes
  <2>3. given' \in Place
    BY <1>2, BeatType, AdvanceType DEF MasterW, PortTypes
  <2> QED BY <1>2, <2>1, <2>2, <2>3 DEF MasterW, memoryVars, linkVars, PortTypes
<1>3. CASE SendFlit
  <2>1. TxTypeOK'
    BY <1>3, EmitFlitType DEF SendFlit, PortTypes
  <2>2. RxTypeOK'
    BY <1>3 DEF SendFlit, rxVars, RxTypeOK, PortTypes
  <2> QED BY <1>3, <2>1, <2>2 DEF SendFlit, masterVars, memoryVars, PortTypes
<1>4. CASE MasterWAndSendFlit
  <2>1. TxTypeOK'
    BY <1>4, BeatType, AcceptWAndEmitType DEF MasterWAndSendFlit, PortTypes
  <2>2. RxTypeOK'
    BY <1>4 DEF MasterWAndSendFlit, rxVars, RxTypeOK, PortTypes
  <2>3. given' \in Place
    BY <1>4, BeatType, AdvanceType DEF MasterWAndSendFlit, PortTypes
  <2> QED BY <1>4, <2>1, <2>2, <2>3 DEF MasterWAndSendFlit, memoryVars, PortTypes
<1>5. CASE TakeBPacket
  <2>1. Head(bWire) \in Nat /\ Tail(bWire) \in Seq(Nat)
    BY <1>5 DEF TakeBPacket, PortTypes
  <2>2. TxTypeOK'
    BY <1>5, <2>1 DEF TakeBPacket, RecvB, TxTypeOK, PortTypes
  <2>3. RxTypeOK'
    BY <1>5 DEF TakeBPacket, rxVars, RxTypeOK, PortTypes
  <2> QED BY <1>5, <2>1, <2>2, <2>3 DEF TakeBPacket, masterVars, memoryVars, PortTypes
<1>6. CASE MasterB
  <2>1. TxTypeOK'
    BY <1>6, TakeBType DEF MasterB, PortTypes
  <2>2. RxTypeOK'
    BY <1>6 DEF MasterB, rxVars, RxTypeOK, PortTypes
  <2> QED BY <1>6, <2>1, <2>2 DEF MasterB, memoryVars, linkVars, PortTypes, TxTypeOK
<1> QED BY <1>1, <1>2, <1>3, <1>4, <1>5, <1>6 DEF Near

LEMMA TypeArrival ==
  ASSUME PortTypes, NEW f \in Flit, RxHeader(f) \/ RxCont(f),
         UNCHANGED <<txVars, masterVars, memoryVars, bWire, bfId>>
  PROVE  PortTypes'
<1>1. RxTypeOK'
  BY ArrivalType DEF PortTypes
<1>2. TxTypeOK'
  BY DEF txVars, TxTypeOK, PortTypes
<1> QED BY <1>1, <1>2 DEF masterVars, memoryVars, PortTypes

LEMMA TypeFar ==
  ASSUME PortTypes, MemoryAW \/ MemoryW \/ MemoryB \/ SendBPacket
  PROVE  PortTypes'
<1> DEFINE Place == [burst : Nat \ {0}, beat : Nat \ {0}, bytes : Nat]
<1>2. CASE MemoryAW
  <2>1. RxTypeOK'
    BY <1>2, DriveType DEF MemoryAW, PortTypes
  <2>2. TxTypeOK'
    BY <1>2 DEF MemoryAW, txVars, TxTypeOK, PortTypes
  <2> QED BY <1>2, <2>1, <2>2 DEF MemoryAW, masterVars, memoryVars, linkVars, PortTypes
<1>3. CASE MemoryW
  <2>1. RxTypeOK'
    BY <1>3, DriveType DEF MemoryW, PortTypes
  <2>2. TxTypeOK'
    BY <1>3 DEF MemoryW, txVars, TxTypeOK, PortTypes
  <2>3. OutLast \in BOOLEAN
    BY DEF OutLast
  <2>4. stored' \in Place
    BY <1>3, <2>3, AdvanceType DEF MemoryW, PortTypes
  <2> QED BY <1>3, <2>1, <2>2, <2>4 DEF MemoryW, masterVars, linkVars, PortTypes
<1>4. CASE MemoryB
  <2>1. RxTypeOK'
    BY <1>4, DriveType DEF MemoryB, PortTypes
  <2>2. TxTypeOK'
    BY <1>4 DEF MemoryB, txVars, TxTypeOK, PortTypes
  <2>3. bfId' \in Nat
    BY <1>4 DEF MemoryB, PortTypes, RxTypeOK, Aw
  <2> QED BY <1>4, <2>1, <2>2, <2>3 DEF MemoryB, masterVars, memoryVars, linkVars, PortTypes
<1>5. CASE SendBPacket
  <2>1. RxTypeOK'
    BY <1>5 DEF SendBPacket, rxVars, RxTypeOK, PortTypes
  <2>2. TxTypeOK'
    BY <1>5 DEF SendBPacket, txVars, TxTypeOK, PortTypes
  <2>3. bfId' \in Nat /\ bWire' \in Seq(Nat)
    BY <1>5 DEF SendBPacket, PortTypes
  <2> QED BY <1>5, <2>1, <2>2, <2>3 DEF SendBPacket, masterVars, memoryVars, PortTypes
<1> QED BY <1>2, <1>3, <1>4, <1>5

LEMMA TypeStutter ==
  ASSUME PortTypes,
         UNCHANGED <<txVars, rxVars, masterVars, memoryVars, bWire, bfId>>
  PROVE  PortTypes'
BY DEF PortTypes, TxTypeOK, RxTypeOK, txVars, rxVars, masterVars, memoryVars

(* The types hold in every reachable state, whatever the geometry, the     *)
(* number of bursts and their length - the builds whose room test wraps    *)
(* (PushOnlyIntoRoom) included.                                            *)
THEOREM TypeCorrect == Spec => []TypeOK
<1>1. Init => TypeOK
  BY TypeInit, TypeParts
<1>2. TypeOK /\ [Next]_vars => TypeOK'
  <2> SUFFICES ASSUME TypeOK, [Next]_vars PROVE TypeOK'
    OBVIOUS
  <2>0. PortTypes /\ dataWire \in Seq(Flit)
    BY TypeParts
  <2>1. CASE Near
    <3>1. PortTypes'
      BY <2>0, <2>1, TypeNear
    <3>2. dataWire' = dataWire \/ dataWire' = Append(dataWire, TxFlit)
      BY <2>1 DEF Near, MasterAW, MasterW, SendFlit, MasterWAndSendFlit, TakeBPacket, MasterB,
                  linkVars
    <3>3. TxFlit \in Flit
      BY <2>0, TxFlitType DEF PortTypes
    <3>4. dataWire' \in Seq(Flit)
      BY <2>0, <3>2, <3>3
    <3> QED BY <3>1, <3>4 DEF TypeOK, PortTypes
  <2>2. CASE FlitArrives
    <3>1. Head(dataWire) \in Flit /\ Tail(dataWire) \in Seq(Flit)
      BY <2>0, <2>2 DEF FlitArrives
    <3>2. PortTypes'
      BY <2>0, <2>2, <3>1, TypeArrival DEF FlitArrives
    <3> QED BY <2>2, <3>1, <3>2 DEF FlitArrives, TypeOK, PortTypes
  <2>3. CASE MemoryAW \/ MemoryW \/ MemoryB \/ SendBPacket
    <3>1. PortTypes'
      BY <2>0, <2>3, TypeFar
    <3>2. dataWire' = dataWire
      BY <2>3 DEF MemoryAW, MemoryW, MemoryB, SendBPacket, linkVars
    <3> QED BY <2>0, <3>1, <3>2 DEF TypeOK, PortTypes
  <2>4. CASE UNCHANGED vars
    <3>1. PortTypes' /\ dataWire' = dataWire
      BY <2>0, <2>4, TypeStutter DEF vars, linkVars
    <3> QED BY <2>0, <3>1 DEF TypeOK, PortTypes
  <2> QED BY <2>1, <2>2, <2>3, <2>4 DEF Next, Far, Finished
<1> QED BY <1>1, <1>2, PTL DEF Spec

-----------------------------------------------------------------------------
(* What the order of bytes needs.                                          *)

(* No sum of the room test reaches 2^CNT_W; a master that writes single    *)
(* beats never adds to a beat.                                             *)
NoWrap == BufBytes + STRB < TXMOD \/ MaxBeats = 1

(* The receive buffer holds the longest burst: a restriction on the        *)
(* master, which the code leaves to it.                                    *)
BurstFits == MaxBeats * STRB <= RxBufBytes

-----------------------------------------------------------------------------
(* The inductive invariant.  Positions count bytes of the master's stream. *)

(* Bytes of the current burst that the master has not handed over.         *)
Owed == IF Active /\ ~lastSeen THEN (lens[nAW] - given.beat + 1) * STRB ELSE 0

End     == given.bytes + Owed        \* where the current burst ends
Sent    == given.bytes - txCount     \* up to where it has left in flits
Arrived == stored.bytes + rxCount    \* up to where they have arrived

CurrentAw == [len |-> lens[nAW] - 1, lite |-> FALSE, id |-> nAW]
BurstBytes == lens[nAW] * STRB

Cap(f)  == IF f.op = "AW" THEN HDR ELSE CONT

SenderInv ==
  /\ txCount <= BufBytes
  /\ StreamFrom(txBuf, BufBytes, Sent, given.bytes)
  /\ wState # "IDLE" => nAW # 0 /\ txAw = CurrentAw
  /\ IF Active /\ ~lastSeen
     THEN given.burst = nAW /\ given.beat <= lens[nAW]
     ELSE given.burst = nAW + 1 /\ given.beat = 1
  /\ Active /\ lastSeen => txCount > 0
  /\ ~Active => txCount = 0
  /\ Sent >= 0
  /\ wState = "TX_HDR" => Sent = End - BurstBytes
  /\ wState \in {"TX_CONT", "WAIT_B"} => Sent > End - BurstBytes
  /\ answered = IF wState = "IDLE" THEN nAW ELSE nAW - 1

(* A flit is a piece of the stream; a header is that of the current burst, *)
(* with its first bytes.                                                   *)
FlitInv(f) ==
  /\ f.op = "AW" => f.aw = CurrentAw /\ From(f) = End - BurstBytes
  /\ From(f) \in Nat /\ From(f) < Sent
  /\ StreamFrom(f.data, Cap(f), From(f), End)

(* The flits on the wire go on one from where the one before it is full,   *)
(* to the bytes that have been sent.                                       *)
ChainInv(w) ==
  /\ w \in Seq(Flit)
  /\ \A i \in 1..Len(w) : FlitInv(w[i]) /\ (w[i].op = "AW" => i = 1)
  /\ \A i \in 1..(Len(w) - 1) : From(w[i + 1]) = From(w[i]) + Cap(w[i])
  /\ w # <<>> => /\ Sent = Least(From(w[Len(w)]) + Cap(w[Len(w)]), End)
                 /\ wState \in {"TX_CONT", "WAIT_B"}

NearInv(w) == PortTypes /\ SenderInv /\ ChainInv(w)

(* Up to where the flits have come off the wire.                           *)
Landing(w) == IF w = <<>> THEN Sent ELSE From(w[1])

(* The header of the current burst is still to come.                       *)
HeaderToCome(w) == wState = "TX_HDR" \/ (w # <<>> /\ w[1].op = "AW")

-----------------------------------------------------------------------------
(* The positions of the stream.                                            *)

LEMMA BeatStream ==
  ASSUME PortTypes
  PROVE  StreamFrom(Beat, STRB, given.bytes, given.bytes + STRB)
BY GeometryAssumption DEF StreamFrom, Beat, PortTypes

(* Types of what the invariant speaks of, and how the positions lie.       *)
LEMMA Positions ==
  ASSUME NEW w, NearInv(w)
  PROVE  /\ given.bytes \in Nat /\ given.beat \in Nat \ {0} /\ given.burst \in Nat
         /\ stored.bytes \in Nat /\ stored.beat \in Nat \ {0} /\ stored.burst \in Nat
         /\ txCount \in Nat /\ rxCount \in Nat /\ nAW \in Nat
         /\ Owed \in Nat /\ End \in Nat /\ Sent \in Nat /\ Landing(w) \in Nat
         /\ given.bytes <= End /\ Sent <= End /\ Landing(w) <= Sent
         /\ Active /\ ~lastSeen => Owed >= STRB
         /\ Active => Sent < End
         /\ lastSeen \/ ~Active => End = given.bytes
         /\ wState \in {"IDLE", "WAIT_B"} => Sent = End
<1>1. /\ given.bytes \in Nat /\ given.beat \in Nat \ {0} /\ given.burst \in Nat
      /\ stored.bytes \in Nat /\ stored.beat \in Nat \ {0} /\ stored.burst \in Nat
      /\ txCount \in Nat /\ rxCount \in Nat /\ nAW \in Nat
  BY BoundsAssumption DEF NearInv, PortTypes, TxTypeOK, RxTypeOK
<1>2. Active /\ ~lastSeen => Owed \in Nat /\ Owed >= STRB
  <2> SUFFICES ASSUME Active, ~lastSeen PROVE Owed \in Nat /\ Owed >= STRB
    OBVIOUS
  <2>1. given.beat <= lens[nAW] /\ nAW \in Bursts
    BY BoundsAssumption DEF NearInv, SenderInv, PortTypes, Active, Bursts
  <2>2. lens[nAW] \in Nat
    BY <2>1, BoundsAssumption DEF NearInv, PortTypes
  <2>3. lens[nAW] - given.beat + 1 \in Int /\ lens[nAW] - given.beat + 1 >= 1
    BY <1>1, <2>1, <2>2
  <2>4. Owed \in Int /\ Owed >= STRB
    BY <2>3, Beats DEF Owed
  <2> QED BY <2>4, GeometryAssumption
<1>3. ~(Active /\ ~lastSeen) => Owed = 0
  BY DEF Owed
<1>4. Owed \in Nat /\ End \in Nat /\ Sent \in Int
  BY <1>1, <1>2, <1>3 DEF End, Sent
<1>5. given.bytes <= End /\ Sent <= End /\ Sent \in Nat
  BY <1>1, <1>4 DEF End, Sent, NearInv, SenderInv
<1>6. Active => Sent < End
  BY <1>1, <1>2, <1>3, <1>4, GeometryAssumption DEF End, Sent, NearInv, SenderInv
<1>7. Landing(w) \in Nat /\ Landing(w) <= Sent
  <2>1. CASE w = <<>>
    BY <2>1, <1>5 DEF Landing
  <2>2. CASE w # <<>>
    <3>1. 1 \in 1..Len(w)
      BY <2>2 DEF NearInv, ChainInv
    <3>2. From(w[1]) \in Nat /\ From(w[1]) < Sent
      BY <3>1 DEF NearInv, ChainInv, FlitInv
    <3> QED BY <2>2, <3>2, <1>5 DEF Landing
  <2> QED BY <2>1, <2>2
<1>8. lastSeen \/ ~Active => End = given.bytes
  BY <1>1, <1>3 DEF End
<1>9. wState \in {"IDLE", "WAIT_B"} => Sent = End
  <2> SUFFICES ASSUME wState \in {"IDLE", "WAIT_B"} PROVE Sent = End
    OBVIOUS
  <2>1. ~Active
    BY DEF Active
  <2> QED BY <1>1, <1>8, <2>1 DEF NearInv, SenderInv, Sent
<1> QED BY <1>1, <1>2, <1>4, <1>5, <1>6, <1>7, <1>8, <1>9

(* The burst being sent, as the two ends compute it.                       *)
LEMMA CurrentBurst ==
  ASSUME NEW w, NearInv(w), wState # "IDLE"
  PROVE  /\ nAW \in Bursts /\ lens[nAW] \in 1..MaxBeats /\ lens[nAW] \in Nat
         /\ BurstBytes \in Nat /\ BurstBytes >= STRB /\ BurstBytes <= MaxBeats * STRB
         /\ txAw = CurrentAw /\ CurrentAw \in Aw
         /\ BeatBytes(CurrentAw) = STRB /\ TotalBytes(CurrentAw) = BurstBytes
<1>1. nAW \in Bursts /\ txAw = CurrentAw
  BY BoundsAssumption DEF NearInv, SenderInv, PortTypes, Bursts
<1>2. lens[nAW] \in 1..MaxBeats /\ lens[nAW] \in Nat /\ MaxBeats \in Int
  BY <1>1, BoundsAssumption DEF NearInv, PortTypes
<1>3. CurrentAw \in Aw
  BY <1>1, <1>2, BoundsAssumption DEF CurrentAw, Aw, Bursts
<1>4. BeatBytes(CurrentAw) = STRB
  BY DEF BeatBytes, CurrentAw
<1>5. TotalBytes(CurrentAw) = BurstBytes
  <2>1. (lens[nAW] - 1) + 1 = lens[nAW]
    BY <1>2
  <2> QED BY <1>4, <2>1 DEF TotalBytes, CurrentAw, BurstBytes
<1>6. BurstBytes \in Int /\ BurstBytes >= STRB /\ BurstBytes <= MaxBeats * STRB
  BY <1>2, Beats DEF BurstBytes
<1> QED BY <1>1, <1>2, <1>3, <1>4, <1>5, <1>6, GeometryAssumption

(* There is room for a beat whenever one is accepted, and the sum that     *)
(* tests for it is the real one.                                           *)
LEMMA Room ==
  ASSUME NEW w, NearInv(w), NoWrap, CanPush
  PROVE  /\ txCount + STRB <= BufBytes
         /\ \A n \in 0..txCount : (txCount - n + STRB) % TXMOD = txCount - n + STRB
         /\ (txCount + STRB) % TXMOD = txCount + STRB
<1>1. /\ STRB \in Nat /\ BufBytes \in Nat /\ TXMOD \in Nat /\ BufBytes < TXMOD
      /\ txCount \in Nat /\ txCount <= BufBytes
  BY Positions, Sizes, GeometryAssumption DEF NearInv, SenderInv
<1>2. CASE BufBytes + STRB < TXMOD
  <2>1. (txCount + STRB) % TXMOD = txCount + STRB
    BY <1>1, <1>2
  <2>2. txCount + STRB <= BufBytes
    BY <2>1 DEF CanPush, RoomForW
  <2> QED BY <1>1, <2>1, <2>2
<1>3. CASE MaxBeats = 1
  <2>1. nAW \in Bursts /\ lens[nAW] = 1 /\ wState # "IDLE" /\ BurstBytes = STRB
    <3>1. nAW \in Bursts /\ lens[nAW] \in 1..MaxBeats /\ wState # "IDLE"
      BY CurrentBurst DEF CanPush, Active
    <3>2. lens[nAW] = 1
      BY <3>1, <1>3
    <3> QED BY <1>1, <3>1, <3>2 DEF BurstBytes
  <2>2. Owed = STRB
    <3>1. given.beat = 1
      BY <2>1, Positions DEF NearInv, SenderInv, CanPush
    <3>2. Owed = (1 - 1 + 1) * STRB
      BY <2>1, <3>1 DEF Owed, CanPush
    <3> QED BY <3>2, <1>1
  <2>3. Sent >= End - BurstBytes
    BY Positions, <2>1, <1>1 DEF NearInv, SenderInv, CanPush, Active
  <2>4. txCount = 0
    BY <2>1, <2>2, <2>3, <1>1, Positions DEF Sent, End
  <2>5. STRB <= BufBytes
    BY <1>1, GeometryAssumption DEF BufBytes
  <2>6. STRB % TXMOD = STRB
    BY <1>1, <2>5
  <2> QED BY <1>1, <2>4, <2>5, <2>6
<1> QED BY <1>2, <1>3 DEF NoWrap

-----------------------------------------------------------------------------
(* What the near end's actions do to the positions.                        *)

(* A beat is handed over: nothing the invariant counts from changes.       *)
LEMMA BeatGiven ==
  ASSUME NEW w, NearInv(w), CanPush, given.burst <= MaxBursts, given' = Advance(given, BeatLast),
         lastSeen' = BeatLast, Active', UNCHANGED <<lens, nAW>>
  PROVE  /\ End' = End /\ given'.bytes = given.bytes + STRB
         /\ IF (Active /\ ~lastSeen)'
            THEN given'.burst = nAW' /\ given'.beat <= lens'[nAW']
            ELSE given'.burst = nAW' + 1 /\ given'.beat = 1
<1>1. given.burst = nAW /\ given.beat <= lens[nAW] /\ Active /\ ~lastSeen
  BY DEF NearInv, SenderInv, CanPush
<1>2. lens[nAW] \in Nat /\ STRB \in Nat /\ given.beat \in Nat /\ given.bytes \in Nat /\ nAW \in Nat
  BY <1>1, CurrentBurst, Positions, GeometryAssumption DEF Active
<1>3. BeatLast <=> given.beat = lens[nAW]
  BY <1>1 DEF BeatLast
<1>4. given'.bytes = given.bytes + STRB
  BY DEF Advance
<1>5. End = given.bytes + (lens[nAW] - given.beat + 1) * STRB
  BY <1>1 DEF End, Owed
<1>6. CASE BeatLast
  <2>1. given'.burst = nAW' + 1 /\ given'.beat = 1 /\ lastSeen'
    BY <1>1, <1>6 DEF Advance
  <2>2. Owed' = 0
    BY <2>1 DEF Owed
  <2>3. (lens[nAW] - given.beat + 1) * STRB = STRB
    <3>1. lens[nAW] - given.beat + 1 = 1
      BY <1>2, <1>3, <1>6
    <3> QED BY <3>1, <1>2
  <2>4. End' = End
    BY <1>2, <1>4, <1>5, <2>2, <2>3 DEF End
  <2> QED BY <1>4, <2>1, <2>4
<1>7. CASE ~BeatLast
  <2>1. given'.burst = nAW' /\ given'.beat = given.beat + 1 /\ ~lastSeen'
    BY <1>1, <1>7 DEF Advance
  <2>2. Active' /\ ~lastSeen'
    BY <2>1
  <2>3. Owed' = (lens[nAW] - (given.beat + 1) + 1) * STRB
    BY <2>1, <2>2 DEF Owed
  <2>4. lens[nAW] - (given.beat + 1) + 1 = (lens[nAW] - given.beat + 1) - 1
    BY <1>2
  <2>5. Owed' = (lens[nAW] - given.beat + 1) * STRB - STRB
    BY <1>2, <2>3, <2>4, Beats
  <2>6. End' = End
    <3>1. (lens[nAW] - given.beat + 1) * STRB \in Int
      BY <1>2, Beats
    <3> QED BY <1>2, <1>4, <1>5, <2>5, <3>1 DEF End
  <2>7. given'.beat <= lens'[nAW']
    BY <1>1, <1>2, <1>3, <1>7, <2>1
  <2> QED BY <1>4, <2>1, <2>2, <2>6, <2>7
<1> QED BY <1>6, <1>7

(* A flit takes what there is up to the end of the burst, or is full.      *)
LEMMA FlitTakes ==
  ASSUME NEW w, NearInv(w), EmitReady
  PROVE  /\ wState # "IDLE" /\ FlitCap \in Nat \ {0} /\ FlitCap = Cap(TxFlit)
         /\ EmitN \in 0..txCount /\ EmitN > 0
         /\ Sent + EmitN = Least(Sent + FlitCap, End)
         /\ From(TxFlit) = Sent /\ StreamFrom(TxFlit.data, FlitCap, Sent, End)
<1>1. wState \in {"TX_HDR", "TX_CONT"} /\ Active
  BY DEF EmitReady, Active
<1>2. FlitCap \in Nat \ {0} /\ BufBytes \in Nat
  BY Sizes, GeometryAssumption DEF FlitCap
<1>3. EmitN \in 0..txCount /\ EmitN > 0
  BY EmitRange DEF NearInv, PortTypes
<1>4. /\ txCount \in Nat /\ Sent \in Nat /\ End \in Nat /\ given.bytes \in Nat
      /\ given.bytes = Sent + txCount /\ given.bytes <= End /\ txCount <= BufBytes
  BY Positions DEF Sent, NearInv, SenderInv
<1>5. txCount >= FlitCap \/ End = given.bytes
  BY Positions DEF EmitReady
<1>6. Sent + EmitN = Least(Sent + FlitCap, End)
  BY <1>2, <1>4, <1>5 DEF EmitN, Least
<1>7. FlitCap = Cap(TxFlit) /\ TxFlit.data = Low(txBuf, FlitCap)
  BY <1>1 DEF FlitCap, TxFlit, Header, Cont, Cap
<1>8. StreamFrom(Low(txBuf, FlitCap), FlitCap, Sent, given.bytes)
  <2>1. txBuf \in [1..BufBytes -> Byte] /\ StreamFrom(txBuf, BufBytes, Sent, given.bytes)
    BY DEF NearInv, PortTypes, TxTypeOK, SenderInv
  <2>2. given.bytes <= Sent + BufBytes /\ Sent \in Int /\ given.bytes \in Int
    BY <1>2, <1>4
  <2> QED BY <1>2, <2>1, <2>2, LowStream
<1>9. StreamFrom(TxFlit.data, FlitCap, Sent, End)
  BY <1>2, <1>4, <1>5, <1>7, <1>8, Restream
<1>10. From(TxFlit) = Sent
  <2>1. TxFlit.data[1] = IF Sent + 1 <= End THEN Sent + 1 ELSE Zero
    BY <1>2, <1>9 DEF StreamFrom
  <2>2. Sent + 1 <= End
    BY <1>3, <1>4
  <2> QED BY <1>4, <2>1, <2>2 DEF From
<1> QED BY <1>1, <1>2, <1>3, <1>6, <1>7, <1>9, <1>10

LEMMA FlitCount ==
  ASSUME NEW w, NearInv(w), EmitReady
  PROVE  /\ txCount \in Nat /\ given.bytes \in Nat /\ BufBytes \in Nat /\ Sent \in Nat
         /\ EmitN \in 0..txCount /\ EmitN > 0 /\ EmitN \in Nat /\ Sent + txCount = given.bytes
         /\ txCount <= BufBytes /\ wState \in {"TX_HDR", "TX_CONT"} /\ Active
<1>1. wState \in {"TX_HDR", "TX_CONT"} /\ Active
  BY DEF EmitReady, Active
<1>2. txCount \in Nat /\ given.bytes \in Nat /\ BufBytes \in Nat /\ Sent \in Nat
  BY Positions, Sizes
<1>3. EmitN \in 0..txCount /\ EmitN > 0
  BY FlitTakes
<1>4. txCount <= BufBytes
  BY DEF NearInv, SenderInv
<1> QED BY <1>1, <1>2, <1>3, <1>4 DEF Sent

-----------------------------------------------------------------------------
(* The near end's actions keep its part of the invariant.                  *)

(* A flit put on the wire continues what is there.                         *)
LEMMA FlitSent ==
  ASSUME NEW w, NEW w2, NearInv(w), EmitReady, Sent' = Sent + EmitN, End' = End,
         wState' \in {"TX_CONT", "WAIT_B"}, w2 = Append(w, TxFlit),
         UNCHANGED <<lens, nAW>>
  PROVE  /\ ChainInv(w2)' /\ w2 # <<>>
         /\ HeaderToCome(w2)' = HeaderToCome(w) /\ Landing(w2)' = Landing(w)
         /\ wState = "TX_CONT" \/ w = <<>>
<1> DEFINE f == TxFlit
           n == Len(w)
<1>1. w \in Seq(Flit) /\ f \in Flit /\ n \in Nat
  BY TxFlitType DEF NearInv, ChainInv, PortTypes
<1>2. /\ w2 \in Seq(Flit) /\ Len(w2) = n + 1 /\ w2[n + 1] = f
      /\ \A i \in 1..n : w2[i] = w[i]
      /\ w2 # <<>> /\ (w = <<>> <=> n = 0)
  BY <1>1
<1>3. CurrentAw' = CurrentAw /\ BurstBytes' = BurstBytes
  BY DEF CurrentAw, BurstBytes
<1>4. /\ Sent \in Nat /\ End \in Nat /\ Sent' = Least(Sent + Cap(f), End) /\ Sent < Sent'
      /\ From(f) = Sent /\ StreamFrom(f.data, Cap(f), Sent, End)
      /\ EmitN \in Nat /\ Cap(f) \in Nat
  BY FlitTakes, Positions
<1>5. f.op = "AW" => /\ wState = "TX_HDR" /\ w = <<>> /\ f.aw = CurrentAw
                     /\ Sent = End - BurstBytes
  <2>1. f.op = "AW" => wState = "TX_HDR"
    BY DEF TxFlit, Cont
  <2>2. wState = "TX_HDR" => f.aw = CurrentAw
    BY DEF TxFlit, Header, NearInv, SenderInv
  <2> QED BY <2>1, <2>2 DEF NearInv, ChainInv, SenderInv
<1>6. \A i \in 1..(n + 1) : FlitInv(w2[i])' /\ (w2[i].op = "AW" => i = 1)
  <2> SUFFICES ASSUME NEW i \in 1..(n + 1)
               PROVE  FlitInv(w2[i])' /\ (w2[i].op = "AW" => i = 1)
    OBVIOUS
  <2>1. CASE i \in 1..n
    <3>1. FlitInv(w[i]) /\ (w[i].op = "AW" => i = 1) /\ w2[i] = w[i]
      BY <1>2, <2>1 DEF NearInv, ChainInv
    <3> QED BY <3>1, <1>3, <1>4 DEF FlitInv
  <2>2. CASE i = n + 1
    <3>1. w2[i] = f
      BY <1>2, <2>2
    <3>2. f.op = "AW" => i = 1
      BY <1>2, <1>5, <2>2
    <3> QED BY <3>1, <3>2, <1>3, <1>4, <1>5 DEF FlitInv
  <2> QED BY <1>1, <2>1, <2>2
<1>7. \A i \in 1..n : From(w2[i + 1]) = From(w2[i]) + Cap(w2[i])
  <2> SUFFICES ASSUME NEW i \in 1..n
               PROVE  From(w2[i + 1]) = From(w2[i]) + Cap(w2[i])
    OBVIOUS
  <2>1. CASE i \in 1..(n - 1)
    <3>1. w2[i] = w[i] /\ w2[i + 1] = w[i + 1]
      BY <1>1, <1>2, <2>1
    <3> QED BY <3>1, <2>1 DEF NearInv, ChainInv
  <2>2. CASE i = n
    <3>1. /\ w2[i] = w[n] /\ w2[i + 1] = f
          /\ Sent = Least(From(w[n]) + Cap(w[n]), End)
      BY <1>1, <1>2, <2>2 DEF NearInv, ChainInv
    <3>2. Sent < End
      BY Positions DEF EmitReady
    <3> QED BY <3>1, <3>2, <1>4 DEF Least
  <2> QED BY <1>1, <2>1, <2>2
<1>8. ChainInv(w2)'
  <2>1. (n + 1) - 1 = n
    BY <1>1
  <2>2. Sent' = Least(From(w2[n + 1]) + Cap(w2[n + 1]), End')
    BY <1>2, <1>4
  <2> QED BY <1>2, <1>6, <1>7, <2>1, <2>2 DEF ChainInv
<1>9. Landing(w2)' = Landing(w)
  <2>1. CASE n = 0
    BY <2>1, <1>2, <1>4 DEF Landing
  <2>2. CASE n # 0
    <3>1. w2[1] = w[1]
      BY <1>1, <1>2, <2>2
    <3> QED BY <1>2, <2>2, <3>1 DEF Landing
  <2> QED BY <2>1, <2>2
<1>10. HeaderToCome(w2)' = HeaderToCome(w)
  <2>1. HeaderToCome(w2)' = (w2[1].op = "AW")
    BY <1>2 DEF HeaderToCome
  <2>2. CASE n = 0
    <3>1. f.op = "AW" <=> wState = "TX_HDR"
      BY <1>5 DEF TxFlit, Header
    <3> QED BY <2>1, <2>2, <3>1, <1>2 DEF HeaderToCome
  <2>3. CASE n # 0
    <3>1. w2[1] = w[1] /\ w # <<>>
      BY <1>1, <1>2, <2>3
    <3>2. wState # "TX_HDR"
      BY <3>1 DEF NearInv, ChainInv
    <3> QED BY <2>1, <3>1, <3>2 DEF HeaderToCome
  <2> QED BY <2>2, <2>3
<1>11. wState = "TX_CONT" \/ w = <<>>
  BY DEF NearInv, ChainInv, EmitReady, Active
<1> QED BY <1>2, <1>8, <1>9, <1>10, <1>11

(* Nothing on the wire moves while the positions stay.                     *)
LEMMA ChainKept ==
  ASSUME NEW w, ChainInv(w), End' = End, Sent' = Sent,
         wState \in {"TX_CONT", "WAIT_B"} => wState' \in {"TX_CONT", "WAIT_B"},
         UNCHANGED <<lens, nAW>>
  PROVE  ChainInv(w)' /\ Landing(w)' = Landing(w)
<1>1. CurrentAw' = CurrentAw /\ BurstBytes' = BurstBytes
  BY DEF CurrentAw, BurstBytes
<1> QED BY <1>1 DEF ChainInv, FlitInv, Landing

(* A step that leaves the sender alone.                                    *)
LEMMA NearKept ==
  ASSUME NEW w, NearInv(w), PortTypes',
         UNCHANGED <<wState, txAw, txBuf, txCount, lastSeen, lens, nAW, given, answered>>
  PROVE  /\ NearInv(w)' /\ End' = End /\ Sent' = Sent /\ CurrentAw' = CurrentAw
         /\ BurstBytes' = BurstBytes /\ (Active' <=> Active)
         /\ HeaderToCome(w)' = HeaderToCome(w) /\ Landing(w)' = Landing(w)
<1>1. /\ End' = End /\ Sent' = Sent /\ CurrentAw' = CurrentAw /\ BurstBytes' = BurstBytes
      /\ (Active' <=> Active) /\ HeaderToCome(w)' = HeaderToCome(w)
  BY DEF End, Owed, Sent, CurrentAw, BurstBytes, Active, HeaderToCome
<1>2. SenderInv'
  BY <1>1 DEF NearInv, SenderInv
<1>3. ChainInv(w)' /\ Landing(w)' = Landing(w)
  BY <1>1, ChainKept DEF NearInv
<1> QED BY <1>1, <1>2, <1>3 DEF NearInv

LEMMA NearMasterAW ==
  ASSUME NEW w, NearInv(w), PortTypes', MasterAW
  PROVE  /\ NearInv(w)' /\ w = <<>> /\ wState = "IDLE" /\ wState' = "TX_HDR"
         /\ nAW' = nAW + 1 /\ nAW \in Nat /\ answered = nAW
         /\ Sent' = Sent /\ Sent = End /\ End' - BurstBytes' = End
<1>1. /\ wState = "IDLE" /\ wState' = "TX_HDR" /\ ~lastSeen' /\ nAW' = nAW + 1
      /\ txAw' = [len |-> lens[nAW + 1] - 1, lite |-> FALSE, id |-> nAW + 1]
      /\ nAW < MaxBursts
      /\ UNCHANGED <<txBuf, txCount, lens, given, answered>>
  BY DEF MasterAW, AcceptAW
<1>2. /\ w = <<>> /\ txCount = 0 /\ given.burst = nAW + 1 /\ given.beat = 1
      /\ answered = nAW /\ Sent = given.bytes /\ End = given.bytes
  <2>1. ~Active /\ txCount = 0
    BY <1>1 DEF NearInv, SenderInv, Active
  <2>2. w = <<>>
    BY <1>1 DEF NearInv, ChainInv
  <2>3. Sent = given.bytes /\ End = given.bytes
    BY <2>1, Positions DEF Sent
  <2> QED BY <1>1, <2>1, <2>2, <2>3 DEF NearInv, SenderInv
<1>3. nAW' \in Bursts /\ nAW \in Nat /\ lens[nAW'] \in 1..MaxBeats /\ lens[nAW'] \in Nat
  BY <1>1, BoundsAssumption DEF Bursts, NearInv, PortTypes
<1>4. Active' /\ ~lastSeen' /\ given' = given /\ Sent' = Sent
  BY <1>1 DEF Active, Sent
<1>5. End' = given.bytes + BurstBytes' /\ End' - BurstBytes' = given.bytes
  <2>1. Owed' = (lens[nAW'] - 1 + 1) * STRB
    BY <1>1, <1>2, <1>4 DEF Owed
  <2>2. lens[nAW'] - 1 + 1 = lens[nAW']
    BY <1>3
  <2>3. End' = given.bytes + BurstBytes'
    BY <1>1, <1>4, <2>1, <2>2 DEF End, BurstBytes
  <2>4. BurstBytes' \in Int /\ given.bytes \in Int
    <3>1. lens'[nAW'] \in Int
      BY <1>1, <1>3
    <3>2. lens'[nAW'] * STRB \in Int
      BY <3>1, Beats
    <3> QED BY <3>2, Positions DEF BurstBytes
  <2> QED BY <2>3, <2>4
<1>6. SenderInv'
  <2>1. txAw' = CurrentAw' /\ nAW' # 0
    BY <1>1, <1>3 DEF CurrentAw
  <2>2. StreamFrom(txBuf, BufBytes, Sent, given.bytes)' /\ txCount' <= BufBytes
    BY <1>1, <1>4 DEF NearInv, SenderInv, StreamFrom
  <2>3. given'.burst = nAW' /\ given'.beat <= lens'[nAW'] /\ answered' = nAW' - 1
    BY <1>1, <1>2, <1>3
  <2>4. Sent' >= 0
    BY <1>4 DEF NearInv, SenderInv
  <2> QED BY <1>1, <1>2, <1>4, <1>5, <2>1, <2>2, <2>3, <2>4 DEF SenderInv
<1>7. ChainInv(w)'
  BY <1>2 DEF NearInv, ChainInv
<1> QED BY <1>1, <1>2, <1>3, <1>4, <1>5, <1>6, <1>7 DEF NearInv

LEMMA NearMasterW ==
  ASSUME NEW w, NearInv(w), PortTypes', NoWrap, MasterW
  PROVE  /\ NearInv(w)' /\ End' = End /\ Sent' = Sent /\ Landing(w)' = Landing(w)
         /\ HeaderToCome(w)' = HeaderToCome(w) /\ Active /\ Active'
<1>1. /\ CanPush /\ given.burst <= MaxBursts
      /\ txBuf' = OrAt(txBuf, txCount, Beat) /\ txCount' = txCount + STRB
      /\ txCount + STRB <= BufBytes
      /\ lastSeen' = BeatLast /\ given' = Advance(given, BeatLast)
      /\ UNCHANGED <<wState, txAw, lens, nAW, answered>>
  BY Room DEF MasterW, AcceptW
<1>2. Active /\ Active' /\ ~lastSeen
  BY <1>1 DEF CanPush, Active
<1>3. /\ txCount \in Nat /\ given.bytes \in Nat /\ STRB \in Nat /\ BufBytes \in Nat
      /\ STRB > 0 /\ Sent \in Int /\ Sent + txCount = given.bytes
  BY Positions, Sizes, GeometryAssumption DEF Sent
<1>4. /\ End' = End /\ given'.bytes = given.bytes + STRB
      /\ IF (Active /\ ~lastSeen)'
         THEN given'.burst = nAW' /\ given'.beat <= lens'[nAW']
         ELSE given'.burst = nAW' + 1 /\ given'.beat = 1
  BY <1>1, <1>2, BeatGiven
<1>5. Sent' = Sent
  BY <1>1, <1>3, <1>4 DEF Sent
<1>6. SenderInv'
  <2>1. StreamFrom(OrAt(txBuf, txCount, Beat), BufBytes, Sent, given.bytes + STRB)
    <3> DEFINE e == given.bytes + STRB
    <3>1. txBuf \in [1..BufBytes -> Byte] /\ Beat \in [1..STRB -> Byte]
      BY BeatType DEF NearInv, PortTypes, TxTypeOK
    <3>2. /\ StreamFrom(txBuf, BufBytes, Sent, Sent + txCount)
          /\ StreamFrom(Beat, STRB, Sent + txCount, e)
      BY <1>3, BeatStream DEF NearInv, SenderInv
    <3>3. Sent + txCount <= e /\ e <= Sent + txCount + STRB /\ e \in Int
      BY <1>3
    <3> HIDE DEF e
    <3>4. StreamFrom(OrAt(txBuf, txCount, Beat), BufBytes, Sent, e)
      BY <1>3, <3>1, <3>2, <3>3, OrAtStream
    <3> QED BY <3>4 DEF e
  <2>2. StreamFrom(txBuf, BufBytes, Sent, given.bytes)' /\ txCount' <= BufBytes /\ txCount' > 0
    BY <1>1, <1>3, <1>4, <1>5, <2>1
  <2>3. CurrentAw' = CurrentAw /\ BurstBytes' = BurstBytes
    BY <1>1 DEF CurrentAw, BurstBytes
  <2> QED BY <1>1, <1>2, <1>4, <1>5, <2>2, <2>3 DEF NearInv, SenderInv
<1>7. ChainInv(w)' /\ Landing(w)' = Landing(w)
  BY <1>1, <1>4, <1>5, ChainKept DEF NearInv
<1>8. HeaderToCome(w)' = HeaderToCome(w)
  BY <1>1 DEF HeaderToCome
<1> QED BY <1>2, <1>4, <1>5, <1>6, <1>7, <1>8 DEF NearInv

LEMMA NearSendFlit ==
  ASSUME NEW w, NEW w2, NearInv(w), PortTypes', SendFlit, w2 = Append(w, TxFlit)
  PROVE  /\ NearInv(w2)' /\ End' = End /\ Landing(w2)' = Landing(w)
         /\ HeaderToCome(w2)' = HeaderToCome(w) /\ Active
         /\ wState' = IF IsFinal THEN "WAIT_B" ELSE "TX_CONT"
<1>1. /\ EmitReady /\ txBuf' = ShiftDown(txBuf, EmitN) /\ txCount' = txCount - EmitN
      /\ wState' = AfterEmit
      /\ UNCHANGED <<txAw, lastSeen, lens, nAW, given, answered>>
  BY DEF SendFlit, EmitFlit, masterVars
<1>2. /\ txCount \in Nat /\ given.bytes \in Nat /\ BufBytes \in Nat /\ Sent \in Nat
      /\ EmitN \in 0..txCount /\ EmitN > 0 /\ EmitN \in Nat /\ Sent + txCount = given.bytes
      /\ txCount <= BufBytes /\ wState \in {"TX_HDR", "TX_CONT"} /\ Active
  BY <1>1, FlitCount
<1>3. Sent' = Sent + EmitN
  BY <1>1, <1>2 DEF Sent
<1>4. /\ wState' \in {"TX_CONT", "WAIT_B"} /\ (wState' = "WAIT_B" <=> IsFinal)
      /\ (Active' <=> ~IsFinal) /\ wState' = IF IsFinal THEN "WAIT_B" ELSE "TX_CONT"
  BY <1>1 DEF AfterEmit, Active
<1>5. IsFinal => lastSeen /\ txCount' = 0
  BY <1>1, <1>2 DEF IsFinal
<1>6. (Active /\ ~lastSeen)' <=> Active /\ ~lastSeen
  BY <1>1, <1>2, <1>4, <1>5
<1>7. End' = End
  BY <1>1, <1>6 DEF End, Owed
<1>8. SenderInv'
  <2>1. StreamFrom(ShiftDown(txBuf, EmitN), BufBytes, Sent + EmitN, given.bytes)
    <3>1. txBuf \in [1..BufBytes -> Byte] /\ StreamFrom(txBuf, BufBytes, Sent, given.bytes)
      BY DEF NearInv, PortTypes, TxTypeOK, SenderInv
    <3>2. given.bytes <= Sent + BufBytes /\ Sent \in Int /\ given.bytes \in Int
      BY <1>2
    <3> QED BY <1>2, <3>1, <3>2, ShiftStream
  <2>2. StreamFrom(txBuf, BufBytes, Sent, given.bytes)' /\ txCount' <= BufBytes
    BY <1>1, <1>2, <1>3, <2>1
  <2>3. Active' /\ lastSeen' => txCount' > 0
    BY <1>1, <1>2, <1>4 DEF IsFinal
  <2>4. CurrentAw' = CurrentAw /\ BurstBytes' = BurstBytes
    BY <1>1 DEF CurrentAw, BurstBytes
  <2>5. Sent' > End' - BurstBytes' /\ Sent' >= 0
    <3>1. Sent >= End - BurstBytes /\ End \in Int /\ BurstBytes \in Int
      BY <1>2, CurrentBurst, Positions DEF NearInv, SenderInv
    <3> QED BY <1>2, <1>3, <1>7, <2>4, <3>1
  <2>6. nAW' # 0 /\ txAw' = CurrentAw' /\ answered' = nAW' - 1
    BY <1>1, <1>2, <2>4 DEF NearInv, SenderInv
  <2>7. IF (Active /\ ~lastSeen)' THEN given'.burst = nAW' /\ given'.beat <= lens'[nAW']
                                  ELSE given'.burst = nAW' + 1 /\ given'.beat = 1
    BY <1>1, <1>6 DEF NearInv, SenderInv
  <2> QED BY <1>4, <1>5, <2>2, <2>3, <2>5, <2>6, <2>7 DEF SenderInv
<1>9. ChainInv(w2)' /\ HeaderToCome(w2)' = HeaderToCome(w) /\ Landing(w2)' = Landing(w)
  BY <1>1, <1>3, <1>4, <1>7, FlitSent
<1> QED BY <1>2, <1>4, <1>7, <1>8, <1>9 DEF NearInv

(* A beat enters on the edge on which a flit leaves: the flit is a full    *)
(* one, and the beat lands behind what is left of the buffer.              *)
LEMMA NearMasterWAndSendFlit ==
  ASSUME NEW w, NEW w2, NearInv(w), PortTypes', NoWrap, MasterWAndSendFlit,
         w2 = Append(w, TxFlit)
  PROVE  /\ NearInv(w2)' /\ End' = End /\ Landing(w2)' = Landing(w)
         /\ HeaderToCome(w2)' = HeaderToCome(w) /\ Active /\ wState' = "TX_CONT" /\ ~IsFinal
<1>0. /\ txCount \in Nat /\ given.bytes \in Nat /\ BufBytes \in Nat /\ Sent \in Nat
      /\ STRB \in Nat /\ STRB > 0
      /\ EmitN \in 0..txCount /\ EmitN > 0 /\ EmitN \in Nat /\ Sent + txCount = given.bytes
      /\ txCount <= BufBytes /\ wState \in {"TX_HDR", "TX_CONT"} /\ Active
  BY FlitCount, GeometryAssumption DEF MasterWAndSendFlit, AcceptWAndEmit
<1>1. /\ CanPush /\ EmitReady /\ given.burst <= MaxBursts
      /\ txBuf' = OrAt(ShiftDown(txBuf, EmitN), txCount - EmitN, Beat)
      /\ txCount' = txCount - EmitN + STRB /\ txCount + STRB <= BufBytes
      /\ lastSeen' = BeatLast /\ given' = Advance(given, BeatLast)
      /\ wState' = "TX_CONT" /\ ~IsFinal
      /\ UNCHANGED <<txAw, lens, nAW, answered>>
  BY <1>0, Room DEF MasterWAndSendFlit, AcceptWAndEmit, AfterEmit, IsFinal, CanPush
<1>2. /\ End' = End /\ given'.bytes = given.bytes + STRB
      /\ IF (Active /\ ~lastSeen)'
         THEN given'.burst = nAW' /\ given'.beat <= lens'[nAW']
         ELSE given'.burst = nAW' + 1 /\ given'.beat = 1
  <2>1. Active'
    BY <1>1 DEF Active
  <2> QED BY <1>1, <2>1, BeatGiven
<1>3. Sent' = Sent + EmitN
  BY <1>0, <1>1, <1>2 DEF Sent
<1>4. SenderInv'
  <2>1. StreamFrom(txBuf', BufBytes, Sent + EmitN, given.bytes + STRB)
    <3> DEFINE left == ShiftDown(txBuf, EmitN)
               at == txCount - EmitN
               p == Sent + EmitN
               e == given.bytes + STRB
    <3>1. Beat \in [1..STRB -> Byte] /\ left \in [1..BufBytes -> Byte] /\ at \in Nat
      <4>1. txBuf \in [1..BufBytes -> Byte] /\ EmitN \in Int
        BY <1>0 DEF NearInv, PortTypes, TxTypeOK
      <4>2. left \in [1..BufBytes -> Byte]
        BY <1>0, <4>1, ShiftDownType
      <4> QED BY <1>0, <4>2, BeatType DEF NearInv
    <3>2. StreamFrom(left, BufBytes, p, given.bytes)
      <4>1. txBuf \in [1..BufBytes -> Byte] /\ StreamFrom(txBuf, BufBytes, Sent, given.bytes)
        BY DEF NearInv, PortTypes, TxTypeOK, SenderInv
      <4>2. given.bytes <= Sent + BufBytes /\ Sent \in Int /\ given.bytes \in Int
        BY <1>0
      <4> QED BY <1>0, <4>1, <4>2, ShiftStream
    <3>3. StreamFrom(Beat, STRB, given.bytes, e)
      BY BeatStream DEF NearInv
    <3>4. p + at = given.bytes /\ p \in Int
      BY <1>0
    <3>5. given.bytes <= e /\ e <= given.bytes + STRB /\ e \in Int
      BY <1>0
    <3> HIDE DEF left, at, p, e
    <3>6. StreamFrom(OrAt(left, at, Beat), BufBytes, p, e)
      BY <1>0, <3>1, <3>2, <3>3, <3>4, <3>5, OrAtStream
    <3> QED BY <1>1, <3>6 DEF left, at, p, e
  <2>2. StreamFrom(txBuf, BufBytes, Sent, given.bytes)' /\ txCount' <= BufBytes /\ txCount' > 0
    BY <1>0, <1>1, <1>2, <1>3, <2>1
  <2>3. CurrentAw' = CurrentAw /\ BurstBytes' = BurstBytes
    BY <1>1 DEF CurrentAw, BurstBytes
  <2>4. Sent' > End' - BurstBytes' /\ Sent' >= 0
    <3>1. Sent >= End - BurstBytes /\ End \in Int /\ BurstBytes \in Int
      BY <1>0, CurrentBurst, Positions, SMTT(20) DEF NearInv, SenderInv
    <3> QED BY <1>0, <1>2, <1>3, <2>3, <3>1
  <2>5. nAW' # 0 /\ txAw' = CurrentAw' /\ answered' = nAW' - 1 /\ Active'
    BY <1>0, <1>1, <2>3 DEF NearInv, SenderInv, Active
  <2> QED BY <1>1, <1>2, <2>2, <2>4, <2>5 DEF SenderInv
<1>5. ChainInv(w2)' /\ HeaderToCome(w2)' = HeaderToCome(w) /\ Landing(w2)' = Landing(w)
  BY <1>1, <1>2, <1>3, FlitSent
<1> QED BY <1>0, <1>1, <1>2, <1>4, <1>5 DEF NearInv

(* The burst's own B, when nothing of the burst is on the wire any more.   *)
LEMMA NearMasterB ==
  ASSUME NEW w, NearInv(w), PortTypes', MasterB, bId = nAW, w = <<>>
  PROVE  /\ NearInv(w)' /\ End' = End /\ Sent' = Sent /\ Sent = End /\ wState' = "IDLE"
         /\ wState = "WAIT_B" /\ ~HeaderToCome(w)' /\ answered' = nAW
<1>1. /\ wState = "WAIT_B" /\ wState' = "IDLE"
      /\ txBuf' = ZeroBytes(BufBytes) /\ txCount' = 0 /\ ~lastSeen' /\ answered' = bId
      /\ UNCHANGED <<txAw, lens, nAW, given>>
  BY DEF MasterB, TakeB
<1>2. ~Active /\ ~Active' /\ txCount = 0
  BY <1>1 DEF Active, NearInv, SenderInv
<1>3. End' = End /\ Sent' = Sent /\ Sent = End
  BY <1>1, <1>2, Positions DEF End, Owed, Sent
<1>4. SenderInv'
  <2>1. StreamFrom(ZeroBytes(BufBytes), BufBytes, given.bytes, given.bytes)
    <3>1. given.bytes \in Int /\ BufBytes \in Nat
      BY Positions, Sizes
    <3> QED BY <3>1 DEF StreamFrom, ZeroBytes
  <2>2. Sent' = given.bytes' /\ given' = given /\ Sent' >= 0
    BY <1>1, Positions DEF Sent
  <2>3. StreamFrom(txBuf, BufBytes, Sent, given.bytes)' /\ txCount' <= BufBytes
    BY <1>1, <2>1, <2>2, Sizes
  <2>4. given'.burst = nAW' + 1 /\ given'.beat = 1
    BY <1>1, <1>2 DEF NearInv, SenderInv
  <2> QED BY <1>1, <1>2, <2>2, <2>3, <2>4 DEF SenderInv
<1>5. ChainInv(w)'
  BY DEF NearInv, ChainInv
<1> QED BY <1>1, <1>3, <1>4, <1>5 DEF NearInv, HeaderToCome

(* The flit at the head comes off the wire, and the next one is where it   *)
(* is full, or everything that has been sent is.                           *)
LEMMA NearTail ==
  ASSUME NEW w, NEW w2, NearInv(w), PortTypes', w # <<>>, w2 = Tail(w),
         UNCHANGED <<wState, txAw, txBuf, txCount, lastSeen, lens, nAW, given, answered>>
  PROVE  /\ NearInv(w2)' /\ End' = End /\ Sent' = Sent /\ CurrentAw' = CurrentAw
         /\ BurstBytes' = BurstBytes
         /\ ~HeaderToCome(w2)' /\ wState \in {"TX_CONT", "WAIT_B"}
         /\ Landing(w2)' = Least(From(w[1]) + Cap(w[1]), End)
<1> DEFINE f == w[1]
           L == Len(w)
<1>1. /\ w \in Seq(Flit) /\ L \in Nat \ {0} /\ w2 \in Seq(Flit)
      /\ Len(w2) = L - 1 /\ (w2 = <<>> <=> L = 1)
      /\ \A i \in 1..(L - 1) : w2[i] = w[i + 1]
  <2>1. w \in Seq(Flit)
    BY DEF NearInv, ChainInv
  <2>2. L \in Nat \ {0} /\ Len(Tail(w)) = L - 1 /\ Tail(w) \in Seq(Flit)
    BY <2>1
  <2>3. \A i \in 1..(L - 1) : Tail(w)[i] = w[i + 1]
    BY <2>1
  <2>4. Tail(w) = <<>> <=> Len(Tail(w)) = 0
    BY <2>2, EmptySeq
  <2> QED BY <2>1, <2>2, <2>3, <2>4
<1>2. /\ NearInv(w)' /\ End' = End /\ Sent' = Sent /\ CurrentAw' = CurrentAw
      /\ BurstBytes' = BurstBytes
  BY NearKept
<1>3. \A i \in 1..(L - 1) : FlitInv(w2[i])' /\ w2[i].op # "AW"
  <2> SUFFICES ASSUME NEW i \in 1..(L - 1)
               PROVE  FlitInv(w2[i])' /\ w2[i].op # "AW"
    OBVIOUS
  <2>1. i + 1 \in 1..L /\ i + 1 # 1 /\ w2[i] = w[i + 1]
    BY <1>1
  <2>2. FlitInv(w[i + 1]) /\ w[i + 1].op # "AW"
    BY <2>1 DEF NearInv, ChainInv
  <2> QED BY <2>1, <2>2, <1>2 DEF FlitInv
<1>4. \A i \in 1..((L - 1) - 1) : From(w2[i + 1]) = From(w2[i]) + Cap(w2[i])
  <2> SUFFICES ASSUME NEW i \in 1..((L - 1) - 1)
               PROVE  From(w2[i + 1]) = From(w2[i]) + Cap(w2[i])
    OBVIOUS
  <2>1. i + 1 \in 1..(L - 1) /\ w2[i] = w[i + 1] /\ w2[i + 1] = w[(i + 1) + 1]
    BY <1>1
  <2> QED BY <2>1 DEF NearInv, ChainInv
<1>5. Sent = Least(From(w[L]) + Cap(w[L]), End) /\ wState \in {"TX_CONT", "WAIT_B"}
  BY DEF NearInv, ChainInv
<1>6. ~HeaderToCome(w2)'
  <2>1. w2 # <<>> => 1 \in 1..(L - 1)
    BY <1>1
  <2> QED BY <1>3, <1>5, <2>1 DEF HeaderToCome
<1>7. ChainInv(w2)' /\ Landing(w2)' = Least(From(f) + Cap(f), End)
  <2>1. CASE L = 1
    BY <1>1, <1>2, <1>5, <2>1 DEF ChainInv, Landing
  <2>2. CASE L # 1
    <3>1. /\ 1 \in 1..(L - 1) /\ w2[1] = w[2] /\ w2[L - 1] = w[L] /\ 2 \in 1..L
      BY <1>1, <2>2
    <3>2. From(w[2]) = From(f) + Cap(f)
      <4>1. From(w[1 + 1]) = From(w[1]) + Cap(w[1])
        BY <3>1 DEF NearInv, ChainInv
      <4> QED BY <4>1
    <3>3. From(w[2]) \in Nat /\ From(w[2]) < Sent /\ Sent <= End /\ Sent \in Nat /\ End \in Nat
      BY <3>1, Positions DEF NearInv, ChainInv, FlitInv
    <3>4. Least(From(f) + Cap(f), End) = From(w2[1])
      BY <3>1, <3>2, <3>3 DEF Least
    <3>5. Sent' = Least(From(w2[L - 1]) + Cap(w2[L - 1]), End')
      BY <1>2, <1>5, <3>1
    <3>6. ChainInv(w2)'
      BY <1>1, <1>3, <1>4, <1>5, <3>5 DEF ChainInv
    <3> QED BY <1>1, <2>2, <3>4, <3>6 DEF Landing
  <2> QED BY <2>1, <2>2
<1>8. SenderInv'
  BY <1>2 DEF NearInv
<1> QED BY <1>2, <1>5, <1>6, <1>7, <1>8 DEF NearInv

LEMMA NearInit == Init => NearInv(<<>>) /\ Sent = 0 /\ End = 0 /\ ~HeaderToCome(<<>>)
<1> SUFFICES ASSUME Init PROVE NearInv(<<>>) /\ Sent = 0 /\ End = 0 /\ ~HeaderToCome(<<>>)
  OBVIOUS
<1>1. /\ wState = "IDLE" /\ txBuf = ZeroBytes(BufBytes) /\ txCount = 0 /\ lastSeen = FALSE
      /\ nAW = 0 /\ answered = 0
      /\ given.burst = 1 /\ given.beat = 1 /\ given.bytes = 0
  BY DEF Init, TxInit
<1>2. ~Active /\ End = 0 /\ Sent = 0 /\ ~HeaderToCome(<<>>)
  BY <1>1 DEF Active, End, Owed, Sent, HeaderToCome
<1>3. SenderInv
  BY <1>1, <1>2, Sizes DEF SenderInv, StreamFrom, ZeroBytes
<1>4. ChainInv(<<>>)
  BY DEF ChainInv
<1> QED BY <1>2, <1>3, <1>4, TypeInit DEF NearInv

-----------------------------------------------------------------------------
(* The far end's part of the invariant.                                    *)

NoB == bfId = 0 /\ bWire = <<>> /\ ~bPending

(* The one B of a burst that is stored.                                    *)
OneB == \/ bfId = nAW /\ bWire = <<>> /\ ~bPending
        \/ bfId = 0 /\ bWire = <<nAW>> /\ ~bPending
        \/ bfId = 0 /\ bWire = <<>> /\ bPending /\ bId = nAW

(* Where the far end is: waiting for the header, driving the burst, or     *)
(* through with it.                                                        *)
ReceiverInv(w) ==
  /\ ~awPending
  /\ rxCount <= RxBufBytes
  /\ StreamFrom(rxBuf, RxBufBytes, stored.bytes, Arrived)
  /\ HeaderToCome(w) =>
       /\ dState = "IDLE" /\ rxCount = 0 /\ remRx = 0
       /\ stored.burst = nAW /\ stored.beat = 1 /\ NoB
  /\ dState # "IDLE" =>
       /\ wState \in {"TX_CONT", "WAIT_B"}
       /\ dAw = CurrentAw /\ remRx = End - Arrived /\ remDrv = End - stored.bytes /\ NoB
       /\ IF dState = "WAIT_B"
          THEN stored.burst = nAW + 1 /\ stored.beat = 1 /\ remDrv = 0
          ELSE /\ stored.burst = nAW /\ stored.beat <= lens[nAW]
               /\ remDrv = (lens[nAW] - stored.beat + 1) * STRB
  /\ dState = "IDLE" /\ ~HeaderToCome(w) =>
       /\ w = <<>> /\ rxCount = 0 /\ remRx = 0
       /\ stored.burst = nAW + 1 /\ stored.beat = 1 /\ stored.bytes = End
       /\ \/ wState = "IDLE" /\ NoB
          \/ wState = "WAIT_B" /\ OneB

OrderInv(w) == NearInv(w) /\ Arrived = Landing(w) /\ ReceiverInv(w)

-----------------------------------------------------------------------------
(* The near end's actions, seen from the far end.                          *)

(* While a burst is being handed over, the near end leaves the far end as  *)
(* it is.                                                                  *)
LEMMA FarEndKept ==
  ASSUME NEW w, NEW w2, OrderInv(w), NearInv(w2)', Active, End' = End,
         HeaderToCome(w2)' = HeaderToCome(w), Landing(w2)' = Landing(w),
         wState \in {"TX_CONT", "WAIT_B"} => wState' \in {"TX_CONT", "WAIT_B"},
         UNCHANGED <<rxVars, stored, bfId, bWire, bPending, bId, lens, nAW>>
  PROVE  OrderInv(w2)'
<1>1. Arrived' = Arrived /\ CurrentAw' = CurrentAw /\ NoB' = NoB /\ OneB' = OneB
  BY DEF Arrived, CurrentAw, NoB, OneB, rxVars
<1>2. ReceiverInv(w) /\ (dState = "IDLE" => HeaderToCome(w)) /\ Arrived = Landing(w)
  BY DEF OrderInv, ReceiverInv, Active
<1>3. UNCHANGED <<dState, dAw, awPending, rxBuf, rxCount, remRx, remDrv>>
  BY DEF rxVars
<1>4. ReceiverInv(w2)'
  BY <1>1, <1>2, <1>3 DEF ReceiverInv
<1> QED BY <1>1, <1>2, <1>4 DEF OrderInv

LEMMA OrderMasterAW ==
  ASSUME NEW w, OrderInv(w), PortTypes', MasterAW
  PROVE  OrderInv(w)'
<1>1. /\ NearInv(w)' /\ w = <<>> /\ wState = "IDLE" /\ wState' = "TX_HDR"
      /\ nAW' = nAW + 1 /\ Sent' = Sent
  BY NearMasterAW DEF OrderInv
<1>2. UNCHANGED <<dState, rxCount, remRx, awPending, rxBuf, stored, bfId, bWire, bPending>>
  BY DEF MasterAW, AcceptAW, rxVars, memoryVars, linkVars
<1>3. Arrived' = Arrived /\ Arrived = Sent
  BY <1>1, <1>2 DEF Arrived, OrderInv, Landing
<1>4. /\ dState = "IDLE" /\ rxCount = 0 /\ remRx = 0 /\ ~awPending
      /\ stored.burst = nAW + 1 /\ stored.beat = 1 /\ NoB
  BY <1>1 DEF OrderInv, ReceiverInv, HeaderToCome
<1>5. HeaderToCome(w)' /\ NoB'
  BY <1>1, <1>2, <1>4 DEF HeaderToCome, NoB
<1>6. StreamFrom(rxBuf, RxBufBytes, stored.bytes, Arrived)' /\ rxCount' <= RxBufBytes
  BY <1>2, <1>3 DEF OrderInv, ReceiverInv, StreamFrom
<1>7. ReceiverInv(w)'
  BY <1>1, <1>2, <1>4, <1>5, <1>6 DEF ReceiverInv
<1> QED BY <1>1, <1>3, <1>7 DEF OrderInv, Landing

LEMMA OrderMasterW ==
  ASSUME NEW w, OrderInv(w), PortTypes', NoWrap, MasterW
  PROVE  OrderInv(w)'
<1>1. /\ NearInv(w)' /\ End' = End /\ Landing(w)' = Landing(w)
      /\ HeaderToCome(w)' = HeaderToCome(w) /\ Active
  BY NearMasterW DEF OrderInv
<1>2. UNCHANGED <<wState, rxVars, stored, bfId, bWire, bPending, bId, lens, nAW>>
  BY DEF MasterW, AcceptW, memoryVars, linkVars
<1> QED BY <1>1, <1>2, FarEndKept

LEMMA OrderSendFlit ==
  ASSUME NEW w, NEW w2, OrderInv(w), PortTypes', NoWrap,
         SendFlit \/ MasterWAndSendFlit, w2 = Append(w, TxFlit)
  PROVE  OrderInv(w2)'
<1>1. /\ NearInv(w2)' /\ End' = End /\ Landing(w2)' = Landing(w)
      /\ HeaderToCome(w2)' = HeaderToCome(w) /\ Active /\ wState' \in {"TX_CONT", "WAIT_B"}
  BY NearSendFlit, NearMasterWAndSendFlit DEF OrderInv
<1>2. UNCHANGED <<rxVars, stored, bfId, bWire, bPending, bId, lens, nAW>>
  BY DEF SendFlit, EmitFlit, MasterWAndSendFlit, AcceptWAndEmit, masterVars, memoryVars
<1> QED BY <1>1, <1>2, FarEndKept

LEMMA OrderTakeBPacket ==
  ASSUME NEW w, OrderInv(w), PortTypes', TakeBPacket
  PROVE  OrderInv(w)'
<1>1. /\ bWire # <<>> /\ bPending' = TRUE /\ bId' = Head(bWire) /\ bWire' = Tail(bWire)
      /\ UNCHANGED <<wState, txAw, txBuf, txCount, lastSeen, rxVars, masterVars, memoryVars,
                     bfId>>
  BY DEF TakeBPacket, RecvB
<1>2. UNCHANGED <<lens, nAW, given, answered, stored, dState, dAw, awPending, rxBuf, rxCount,
                  remRx, remDrv>>
  BY <1>1 DEF masterVars, memoryVars, rxVars
<1>3. /\ NearInv(w)' /\ End' = End /\ CurrentAw' = CurrentAw
      /\ HeaderToCome(w)' = HeaderToCome(w) /\ Landing(w)' = Landing(w)
  BY <1>1, <1>2, NearKept DEF OrderInv
<1>4. Arrived' = Arrived
  BY <1>2 DEF Arrived
<1>5. dState = "IDLE" /\ ~HeaderToCome(w) /\ wState = "WAIT_B" /\ OneB
  BY <1>1 DEF OrderInv, ReceiverInv, NoB
<1>6. OneB'
  <2>1. bfId = 0 /\ bWire = <<nAW>>
    BY <1>1, <1>5 DEF OneB
  <2> QED BY <2>1, <1>1, <1>2 DEF OneB
<1>7. ReceiverInv(w)'
  BY <1>1, <1>2, <1>3, <1>4, <1>5, <1>6 DEF OrderInv, ReceiverInv
<1> QED BY <1>3, <1>4, <1>7 DEF OrderInv

LEMMA OrderMasterB ==
  ASSUME NEW w, OrderInv(w), PortTypes', MasterB
  PROVE  /\ OrderInv(w)'
         /\ bId = nAW /\ stored.burst = nAW + 1
<1>1. /\ wState = "WAIT_B" /\ bPending /\ wState' = "IDLE" /\ ~bPending'
      /\ UNCHANGED <<bId, lens, nAW, given, rxVars, memoryVars, linkVars, bfId>>
  BY DEF MasterB, TakeB
<1>2. UNCHANGED <<stored, dState, dAw, awPending, rxBuf, rxCount, remRx, remDrv, bWire>>
  BY <1>1 DEF memoryVars, rxVars, linkVars
<1>3. dState = "IDLE" /\ ~HeaderToCome(w) /\ OneB
  BY <1>1 DEF OrderInv, ReceiverInv, NoB
<1>4. /\ bId = nAW /\ bfId = 0 /\ bWire = <<>> /\ w = <<>>
      /\ stored.burst = nAW + 1 /\ stored.bytes = End
  BY <1>1, <1>3 DEF OneB, OrderInv, ReceiverInv
<1>5. NearInv(w)' /\ End' = End /\ Sent' = Sent /\ ~HeaderToCome(w)'
  BY <1>4, NearMasterB DEF OrderInv
<1>6. Arrived' = Arrived /\ Landing(w)' = Landing(w)
  BY <1>2, <1>4, <1>5 DEF Arrived, Landing
<1>7. ReceiverInv(w)'
  <2>1. NoB'
    BY <1>1, <1>2, <1>4 DEF NoB
  <2> QED BY <1>1, <1>2, <1>3, <1>5, <1>6, <2>1 DEF OrderInv, ReceiverInv
<1> QED BY <1>4, <1>5, <1>6, <1>7 DEF OrderInv

-----------------------------------------------------------------------------
(* The far end's actions keep the invariant.                               *)

(* n bytes of a flit continue what is in the receive buffer.               *)
LEMMA BytesPushed ==
  ASSUME PortTypes, NEW f \in Flit, NEW p \in Nat, NEW e \in Nat, NEW n \in Nat,
         StreamFrom(rxBuf, RxBufBytes, p, p + rxCount),
         StreamFrom(f.data, Cap(f), p + rxCount, e),
         n = Least(e - (p + rxCount), Cap(f))
  PROVE  StreamFrom(OrAt(rxBuf, rxCount, f.data), RxBufBytes, p, p + rxCount + n)
<1> DEFINE a == p + rxCount
           b == p + rxCount + n
           m == Cap(f)
<1>1. /\ rxBuf \in [1..RxBufBytes -> Byte] /\ f.data \in [1..m -> Byte] /\ rxCount \in Nat
      /\ RxBufBytes \in Nat /\ m \in Nat
  <2>1. RxBufBytes \in Nat /\ m \in Nat
    BY Sizes, GeometryAssumption DEF Cap
  <2>2. rxBuf \in [1..RxBufBytes -> Byte] /\ rxCount \in 0..(RXMOD - 1)
    BY DEF PortTypes, RxTypeOK
  <2>3. f.data \in [1..m -> Byte]
    BY DEF Flit, Cap
  <2> QED BY <2>1, <2>2, <2>3
<1>2. a \in Int /\ b \in Int /\ b = a + n /\ n <= m /\ a <= b
  BY <1>1 DEF Least
<1>3. b = e \/ (a + m <= e /\ a + m <= b)
  BY <1>1, <1>2 DEF Least
<1>4. StreamFrom(f.data, m, a, b)
  <2>1. StreamFrom(f.data, m, a, e)
    OBVIOUS
  <2> HIDE DEF a, b, m
  <2> QED BY <1>1, <1>2, <1>3, <2>1, Restream
<1>5. b <= (p + rxCount) + m
  BY <1>1, <1>2
<1> QED
  <2>1. a = p + rxCount
    OBVIOUS
  <2> HIDE DEF a, b, m
  <2>2. StreamFrom(rxBuf, RxBufBytes, p, p + rxCount) /\ StreamFrom(f.data, m, p + rxCount, b)
    BY <1>4, <2>1
  <2>3. p + rxCount <= b /\ b <= (p + rxCount) + m /\ p \in Int /\ b \in Int
    BY <1>2, <1>5, <2>1
  <2>4. StreamFrom(OrAt(rxBuf, rxCount, f.data), RxBufBytes, p, b)
    BY <1>1, <2>2, <2>3, OrAtStream
  <2> QED BY <2>4 DEF b

(* The flit at the head of the wire brings the bytes that are waited for,  *)
(* and the depacketizer takes it for what it is.                           *)
LEMMA HeadOfWire ==
  ASSUME NEW w, OrderInv(w), w # <<>>
  PROVE  /\ w[1] \in Flit /\ Head(w) = w[1]
         /\ wState \in {"TX_CONT", "WAIT_B"}
         /\ Cap(w[1]) \in Nat \ {0}
         /\ StreamFrom(w[1].data, Cap(w[1]), Arrived, End)
         /\ Arrived = From(w[1]) /\ Arrived < Sent
         /\ IF w[1].op = "AW"
            THEN /\ TakesHeader(w[1]) /\ dState = "IDLE" /\ rxCount = 0 /\ remRx = 0
                 /\ w[1].aw = CurrentAw /\ Arrived = End - BurstBytes /\ NoB
                 /\ stored.burst = nAW /\ stored.beat = 1
            ELSE /\ TakesCont /\ dState # "IDLE" /\ remRx = End - Arrived /\ NoB
                 /\ rxCount + remRx <= MaxBeats * STRB
<1> DEFINE f == w[1]
<1>1. 1 \in 1..Len(w) /\ f \in Flit /\ Head(w) = f
  BY DEF OrderInv, NearInv, ChainInv
<1>2. /\ FlitInv(f) /\ Arrived = From(f) /\ wState \in {"TX_CONT", "WAIT_B"}
  BY <1>1 DEF OrderInv, Landing, NearInv, ChainInv
<1>3. Cap(f) \in Nat \ {0}
  BY GeometryAssumption DEF Cap
<1>4. StreamFrom(f.data, Cap(f), Arrived, End) /\ Arrived < Sent
  BY <1>2 DEF FlitInv
<1>5. CASE f.op = "AW"
  <2>1. HeaderToCome(w)
    BY <1>5 DEF HeaderToCome
  <2>2. /\ dState = "IDLE" /\ rxCount = 0 /\ remRx = 0 /\ NoB /\ ~awPending
        /\ stored.burst = nAW /\ stored.beat = 1
    BY <2>1 DEF OrderInv, ReceiverInv
  <2>3. f.aw = CurrentAw /\ Arrived = End - BurstBytes
    BY <1>2, <1>5 DEF FlitInv
  <2> QED BY <1>1, <1>2, <1>3, <1>4, <1>5, <2>2, <2>3 DEF TakesHeader, PipelineReady
<1>6. CASE f.op # "AW"
  <2>1. ~HeaderToCome(w)
    BY <1>2, <1>6 DEF HeaderToCome
  <2>2. dState # "IDLE"
    BY <2>1 DEF OrderInv, ReceiverInv
  <2>3. remRx = End - Arrived /\ remDrv = End - stored.bytes /\ NoB
    BY <2>2 DEF OrderInv, ReceiverInv
  <2>4. /\ End \in Nat /\ Arrived \in Nat /\ Sent \in Nat /\ Sent <= End /\ rxCount \in Nat
        /\ stored.bytes \in Nat /\ Arrived = stored.bytes + rxCount
    BY <1>2, Positions DEF Arrived, OrderInv
  <2>5. remRx # 0 /\ rxCount + remRx = remDrv /\ remDrv > 0
    BY <1>4, <2>3, <2>4, SMTT(20)
  <2>6. stored.beat <= lens[nAW] /\ remDrv = (lens[nAW] - stored.beat + 1) * STRB
    BY <2>2, <2>5 DEF OrderInv, ReceiverInv
  <2>7. remDrv <= MaxBeats * STRB
    <3>1. lens[nAW] \in 1..MaxBeats /\ MaxBeats \in Int /\ stored.beat \in Nat \ {0}
      BY <1>2, CurrentBurst, Positions, BoundsAssumption DEF OrderInv
    <3>2. lens[nAW] - stored.beat + 1 \in Int /\ lens[nAW] - stored.beat + 1 <= MaxBeats
      BY <3>1
    <3> QED BY <2>6, <3>1, <3>2, Beats
  <2> QED BY <1>1, <1>2, <1>3, <1>4, <1>6, <2>2, <2>3, <2>5, <2>7 DEF TakesCont
<1> QED BY <1>5, <1>6

(* n bytes arrive with the flit at the head of the wire: all that is left  *)
(* of the burst, or as many as a flit holds.                               *)
LEMMA BytesArrive ==
  ASSUME NEW w, OrderInv(w), BurstFits, w # <<>>, RxHeader(w[1]) \/ RxCont(w[1])
  PROVE  \E n \in Nat :
           /\ n > 0 /\ n = Least(End - Arrived, Cap(w[1]))
           /\ rxCount' = rxCount + n /\ rxCount' <= RxBufBytes
           /\ rxBuf' = OrAt(rxBuf, rxCount, w[1].data)
           /\ remRx' = End - (Arrived + n)
           /\ IF w[1].op = "AW"
              THEN /\ dState' = "DRIVE_AW" /\ dAw' = CurrentAw /\ remDrv' = BurstBytes
                   /\ awPending' = awPending
              ELSE UNCHANGED <<dState, dAw, awPending, remDrv>>
<1> DEFINE f == w[1]
           n == Least(End - Arrived, Cap(f))
<1>1. (RxHeader(f) \/ RxCont(f)) /\ f \in Flit /\ NearInv(w) /\ wState # "IDLE"
  BY HeadOfWire DEF OrderInv
<1>2. /\ End \in Nat /\ Arrived \in Nat /\ Sent \in Nat /\ Arrived < Sent /\ Sent <= End
      /\ Cap(f) \in Nat \ {0} /\ rxCount \in Nat
  BY <1>1, HeadOfWire, Positions DEF Arrived
<1>3. n \in Nat /\ n > 0 /\ n <= End - Arrived /\ n <= Cap(f)
  BY <1>2 DEF Least
<1>4. RxBufBytes \in Nat /\ RXMOD \in Nat /\ RxBufBytes < RXMOD
  BY Sizes
<1>5. CASE f.op = "AW"
  <2>1. /\ RxHeader(f) /\ dState = "IDLE" /\ rxCount = 0 /\ f.aw = CurrentAw
        /\ Arrived = End - BurstBytes
    BY <1>1, <1>5, HeadOfWire DEF RxCont, TakesCont
  <2>2. TotalBytes(CurrentAw) = BurstBytes /\ BurstBytes \in Nat
    BY <1>1, CurrentBurst
  <2>3. End - Arrived = BurstBytes /\ Cap(f) = HDR
    BY <1>2, <1>5, <2>1, <2>2 DEF Cap
  <2>4. /\ rxBuf' = OrAt(rxBuf, rxCount, f.data) /\ rxCount' = (rxCount + n) % RXMOD
        /\ remRx' = BurstBytes - n
        /\ dState' = "DRIVE_AW" /\ dAw' = CurrentAw /\ remDrv' = BurstBytes
        /\ awPending' = awPending
    BY <2>1, <2>2, <2>3 DEF RxHeader, PushHeader, Push
  <2>5. n <= RxBufBytes
    <3>1. HDR <= RxBufBytes
      BY GeometryAssumption DEF RxBufBytes
    <3> QED BY <1>3, <1>4, <2>3, <3>1, GeometryAssumption
  <2>6. (rxCount + n) % RXMOD = rxCount + n /\ rxCount + n <= RxBufBytes
    BY <1>3, <1>4, <2>1, <2>5
  <2>7. remRx' = End - (Arrived + n)
    BY <1>2, <1>3, <2>2, <2>3, <2>4
  <2> QED BY <1>3, <1>5, <2>4, <2>6, <2>7
<1>6. CASE f.op # "AW"
  <2>1. RxCont(f) /\ remRx = End - Arrived /\ rxCount + remRx <= MaxBeats * STRB
    BY <1>1, <1>6, HeadOfWire DEF RxHeader, TakesHeader
  <2>2. Cap(f) = CONT /\ ContField(f) = f.data
    BY <1>1, <1>6 DEF Cap, ContField, Flit
  <2>3. /\ rxBuf' = OrAt(rxBuf, rxCount, f.data) /\ rxCount' = (rxCount + n) % RXMOD
        /\ remRx' = remRx - n /\ UNCHANGED <<dState, dAw, awPending, remDrv>>
    BY <2>1, <2>2 DEF RxCont, Push
  <2>4. rxCount + n <= RxBufBytes
    <3>1. MaxBeats * STRB \in Int
      BY Beats, BoundsAssumption
    <3> QED BY <1>2, <1>3, <1>4, <2>1, <3>1 DEF BurstFits
  <2>5. (rxCount + n) % RXMOD = rxCount + n
    <3>1. rxCount + n \in Nat /\ rxCount + n < RXMOD
      BY <1>2, <1>3, <1>4, <2>4
    <3> QED BY <1>4, <3>1
  <2>6. remRx' = End - (Arrived + n)
    BY <1>2, <1>3, <2>1, <2>3
  <2> QED BY <1>3, <1>6, <2>3, <2>4, <2>5, <2>6
<1> QED BY <1>5, <1>6

LEMMA OrderArrives ==
  ASSUME NEW w, NEW w2, OrderInv(w), PortTypes', BurstFits, w # <<>>, w2 = Tail(w),
         RxHeader(w[1]) \/ RxCont(w[1]),
         UNCHANGED <<txVars, masterVars, memoryVars, bWire, bfId>>
  PROVE  OrderInv(w2)'
<1> DEFINE f == w[1]
<1>1. UNCHANGED <<wState, txAw, txBuf, txCount, lastSeen, bPending, bId, lens, nAW, given,
                  answered, stored, bWire, bfId>>
  BY DEF txVars, masterVars, memoryVars
<1>2. PICK n \in Nat :
        /\ n > 0 /\ n = Least(End - Arrived, Cap(f))
        /\ rxCount' = rxCount + n /\ rxCount' <= RxBufBytes
        /\ rxBuf' = OrAt(rxBuf, rxCount, f.data)
        /\ remRx' = End - (Arrived + n)
        /\ IF f.op = "AW"
           THEN /\ dState' = "DRIVE_AW" /\ dAw' = CurrentAw /\ remDrv' = BurstBytes
                /\ awPending' = awPending
           ELSE UNCHANGED <<dState, dAw, awPending, remDrv>>
  BY BytesArrive
<1>3. /\ End \in Nat /\ Arrived \in Nat /\ Sent \in Nat /\ Arrived < Sent /\ Sent <= End
      /\ Cap(f) \in Nat \ {0} /\ rxCount \in Nat /\ stored.bytes \in Nat
      /\ Arrived = stored.bytes + rxCount /\ Arrived = From(f)
  BY HeadOfWire, Positions DEF Arrived, OrderInv
<1>4. /\ NearInv(w2)' /\ End' = End /\ Sent' = Sent /\ CurrentAw' = CurrentAw
      /\ BurstBytes' = BurstBytes
      /\ ~HeaderToCome(w2)' /\ wState' \in {"TX_CONT", "WAIT_B"}
      /\ Landing(w2)' = Least(From(f) + Cap(f), End)
  BY <1>1, NearTail DEF OrderInv
<1>5. Arrived' = Arrived + n /\ NoB' = NoB
  BY <1>1, <1>2, <1>3 DEF Arrived, NoB
<1>6. Arrived' = Landing(w2)'
  <2> DEFINE a == Arrived
             e == End
             c == Cap(f)
  <2>1. a \in Int /\ e \in Int /\ c \in Int /\ n = Least(e - a, c)
    BY <1>2, <1>3
  <2>2. Arrived' = a + n /\ Landing(w2)' = Least(a + c, e)
    BY <1>3, <1>4, <1>5
  <2> HIDE DEF a, e, c
  <2>3. a + n = Least(a + c, e)
    BY <2>1 DEF Least
  <2> QED BY <2>2, <2>3
<1>7. StreamFrom(rxBuf, RxBufBytes, stored.bytes, Arrived)'
  <2>1. /\ StreamFrom(rxBuf, RxBufBytes, stored.bytes, stored.bytes + rxCount)
        /\ StreamFrom(f.data, Cap(f), stored.bytes + rxCount, End)
        /\ n = Least(End - (stored.bytes + rxCount), Cap(f))
        /\ PortTypes /\ f \in Flit
    <3>1. PortTypes /\ StreamFrom(rxBuf, RxBufBytes, stored.bytes, Arrived)
      BY DEF OrderInv, ReceiverInv, NearInv
    <3>2. StreamFrom(f.data, Cap(f), Arrived, End) /\ f \in Flit
      BY HeadOfWire
    <3> QED BY <1>2, <1>3, <3>1, <3>2
  <2>2. StreamFrom(OrAt(rxBuf, rxCount, f.data), RxBufBytes, stored.bytes,
                   stored.bytes + rxCount + n)
    BY <1>3, <2>1, BytesPushed
  <2>3. stored.bytes + rxCount + n = Arrived'
    BY <1>3, <1>5
  <2> QED BY <1>1, <1>2, <2>2, <2>3
<1>8. ReceiverInv(w2)'
  <2>1. CASE f.op = "AW"
    <3>1. /\ dState = "IDLE" /\ rxCount = 0 /\ Arrived = End - BurstBytes /\ NoB
          /\ stored.burst = nAW /\ stored.beat = 1
      BY <2>1, HeadOfWire
    <3>2. lens[nAW] \in Nat /\ lens[nAW] >= 1 /\ BurstBytes \in Nat
      BY HeadOfWire, CurrentBurst DEF OrderInv
    <3>3. BurstBytes = (lens[nAW] - stored.beat + 1) * STRB
      <4>1. lens[nAW] - 1 + 1 = lens[nAW]
        BY <3>2
      <4> QED BY <3>1, <4>1 DEF BurstBytes
    <3>4. BurstBytes = End - stored.bytes
      BY <1>3, <3>1, <3>2, SMTT(20)
    <3>5. ~awPending'
      BY <1>2, <2>1 DEF OrderInv, ReceiverInv
    <3> QED BY <1>1, <1>2, <1>4, <1>5, <1>7, <2>1, <3>1, <3>2, <3>3, <3>4, <3>5
            DEF ReceiverInv
  <2>2. CASE f.op # "AW"
    <3>1. dState # "IDLE" /\ UNCHANGED <<dState, dAw, awPending, remDrv>>
      BY <1>2, <2>2, HeadOfWire
    <3> QED BY <1>1, <1>2, <1>4, <1>5, <1>7, <3>1 DEF OrderInv, ReceiverInv
  <2> QED BY <2>1, <2>2
<1> QED BY <1>4, <1>6, <1>8 DEF OrderInv

LEMMA OrderMemoryAW ==
  ASSUME NEW w, OrderInv(w), PortTypes', MemoryAW
  PROVE  OrderInv(w)'
<1>1. /\ dState = "DRIVE_AW" /\ dState' = "DRIVE_W"
      /\ UNCHANGED <<dAw, awPending, rxBuf, rxCount, remRx, remDrv, wState, txAw, txBuf, txCount,
                     lastSeen, bPending, bId, lens, nAW, given, answered, stored, bWire, bfId>>
  BY DEF MemoryAW, DriveAW, txVars, masterVars, memoryVars, linkVars
<1>2. /\ NearInv(w)' /\ End' = End /\ CurrentAw' = CurrentAw
      /\ HeaderToCome(w)' = HeaderToCome(w) /\ Landing(w)' = Landing(w)
  BY <1>1, NearKept DEF OrderInv
<1>3. Arrived' = Arrived /\ NoB' = NoB
  BY <1>1 DEF Arrived, NoB
<1>4. ReceiverInv(w)'
  BY <1>1, <1>2, <1>3 DEF OrderInv, ReceiverInv
<1> QED BY <1>2, <1>3, <1>4 DEF OrderInv

(* The beat at the low end of the receive buffer is the next of the stream.*)
LEMMA BeatOut ==
  ASSUME PortTypes, NEW p \in Nat, StreamFrom(rxBuf, RxBufBytes, p, p + rxCount),
         rxCount <= RxBufBytes, rxCount >= STRB
  PROVE  /\ Low(rxBuf, STRB) = [i \in 1..STRB |-> p + i]
         /\ StreamFrom(ShiftDown(rxBuf, STRB), RxBufBytes, p + STRB, p + rxCount)
<1> DEFINE e == p + rxCount
<1>1. /\ rxBuf \in [1..RxBufBytes -> Byte] /\ rxCount \in Nat /\ RxBufBytes \in Nat
      /\ STRB \in Nat \ {0}
  BY Sizes, GeometryAssumption DEF PortTypes, RxTypeOK
<1>2. e <= p + RxBufBytes /\ p \in Int /\ e \in Int
  BY <1>1
<1>3. p + STRB <= e
  BY <1>1
<1> HIDE DEF e
<1>4. StreamFrom(rxBuf, RxBufBytes, p, e)
  BY DEF e
<1>5. StreamFrom(Low(rxBuf, STRB), STRB, p, e)
  BY <1>1, <1>2, <1>4, LowStream
<1>6. \A i \in 1..STRB : Low(rxBuf, STRB)[i] = p + i
  BY <1>1, <1>2, <1>3, <1>5 DEF StreamFrom
<1>7. StreamFrom(ShiftDown(rxBuf, STRB), RxBufBytes, p + STRB, e)
  BY <1>1, <1>2, <1>4, ShiftStream
<1> QED BY <1>6, <1>7 DEF Low, e

(* The beat is the last of its burst when the count of bytes to hand over  *)
(* says so.                                                                *)
LEMMA LastBeat ==
  ASSUME NEW n \in Nat, NEW beat \in Nat, beat <= n
  PROVE  (n - beat + 1) * STRB = STRB <=> beat = n
<1> DEFINE k == n - beat + 1
<1>1. k \in Int /\ k >= 1 /\ (k = 1 <=> beat = n)
  OBVIOUS
<1>2. 1 * STRB = STRB /\ STRB \in Nat
  BY GeometryAssumption
<1> HIDE DEF k
<1>3. k # 1 => k * STRB > STRB
  BY <1>1, Beats
<1>4. k * STRB \in Int
  BY <1>1, Beats
<1>5. k * STRB = STRB <=> beat = n
  BY <1>1, <1>2, <1>3, <1>4
<1> QED BY <1>5 DEF k

(* The memory takes a beat: the next of the stream, under its AW's id.     *)
LEMMA BeatTaken ==
  ASSUME NEW w, OrderInv(w), HaveBeat
  PROVE  /\ BeatBytes(dAw) = STRB /\ dAw.id = nAW /\ stored.burst = nAW
         /\ (OutLast <=> stored.beat = lens[nAW])
         /\ OutBeat = [i \in 1..STRB |-> stored.bytes + i]
         /\ rxCount >= STRB /\ STRB \in Nat \ {0}
         /\ StreamFrom(ShiftDown(rxBuf, STRB), RxBufBytes, stored.bytes + STRB, Arrived)
<1>1. dState = "DRIVE_W" /\ rxCount >= BeatBytes(dAw)
  BY DEF HaveBeat
<1>2. /\ dAw = CurrentAw /\ wState # "IDLE" /\ stored.burst = nAW /\ stored.beat <= lens[nAW]
      /\ remDrv = (lens[nAW] - stored.beat + 1) * STRB
  BY <1>1 DEF OrderInv, ReceiverInv
<1>3. BeatBytes(dAw) = STRB /\ dAw.id = nAW
  BY <1>2, CurrentBurst DEF CurrentAw, OrderInv
<1>4. lens[nAW] \in Nat /\ stored.beat \in Nat /\ STRB \in Nat \ {0} /\ stored.bytes \in Nat
  BY <1>2, CurrentBurst, Positions, GeometryAssumption DEF OrderInv
<1>5. OutLast <=> stored.beat = lens[nAW]
  <2>1. OutLast <=> (lens[nAW] - stored.beat + 1) * STRB = STRB
    BY <1>2, <1>3 DEF OutLast
  <2> QED BY <1>2, <1>4, <2>1, LastBeat
<1>6. /\ Low(rxBuf, STRB) = [i \in 1..STRB |-> stored.bytes + i]
      /\ StreamFrom(ShiftDown(rxBuf, STRB), RxBufBytes, stored.bytes + STRB, Arrived)
  <2>1. /\ PortTypes /\ StreamFrom(rxBuf, RxBufBytes, stored.bytes, stored.bytes + rxCount)
        /\ rxCount <= RxBufBytes /\ rxCount >= STRB
    BY <1>1, <1>3 DEF OrderInv, NearInv, ReceiverInv, Arrived
  <2> QED BY <1>4, <2>1, BeatOut DEF Arrived
<1> QED BY <1>1, <1>2, <1>3, <1>4, <1>5, <1>6 DEF OutBeat

(* What the countdown is after a beat that is not the last.                *)
LEMMA NextBeat ==
  ASSUME NEW n \in Nat, NEW beat \in Nat
  PROVE  (n - (beat + 1) + 1) * STRB = (n - beat + 1) * STRB - STRB
<1> DEFINE k == n - beat + 1
<1>1. k \in Int /\ n - (beat + 1) + 1 = k - 1
  OBVIOUS
<1>2. (k - 1) * STRB = k * STRB - STRB
  BY <1>1, Beats
<1> QED BY <1>1, <1>2

LEMMA OrderMemoryW ==
  ASSUME NEW w, OrderInv(w), PortTypes', MemoryW
  PROVE  OrderInv(w)'
<1>1. /\ dState = "DRIVE_W" /\ rxBuf' = ShiftDown(rxBuf, STRB) /\ rxCount' = rxCount - STRB
      /\ remDrv' = remDrv - STRB /\ dState' = IF OutLast THEN "WAIT_B" ELSE dState
      /\ (OutLast <=> stored.beat = lens[nAW]) /\ stored.burst = nAW
      /\ stored' = Advance(stored, OutLast) /\ STRB \in Nat \ {0} /\ rxCount >= STRB
      /\ UNCHANGED <<dAw, awPending, remRx, wState, txAw, txBuf, txCount, lastSeen, bPending, bId,
                     lens, nAW, given, answered, bWire, bfId>>
  BY BeatTaken DEF MemoryW, DriveW, HaveBeat, txVars, masterVars, linkVars
<1>2. /\ NearInv(w)' /\ End' = End /\ CurrentAw' = CurrentAw
      /\ HeaderToCome(w)' = HeaderToCome(w) /\ Landing(w)' = Landing(w)
  BY <1>1, NearKept DEF OrderInv
<1>3. /\ stored.bytes \in Nat /\ rxCount \in Nat /\ stored.beat \in Nat /\ End \in Nat
      /\ rxCount <= RxBufBytes /\ RxBufBytes \in Nat /\ Arrived = stored.bytes + rxCount
      /\ stored'.bytes = stored.bytes + STRB
  BY <1>1, Positions, Sizes DEF OrderInv, ReceiverInv, Arrived, Advance
<1>4. Arrived' = Arrived /\ NoB' = NoB
  BY <1>1, <1>3 DEF Arrived, NoB
<1>5. ReceiverInv(w)'
  <2>1. StreamFrom(rxBuf, RxBufBytes, stored.bytes, Arrived)' /\ rxCount' <= RxBufBytes
    <3>1. StreamFrom(ShiftDown(rxBuf, STRB), RxBufBytes, stored.bytes + STRB, Arrived)
      BY BeatTaken DEF MemoryW, DriveW
    <3> QED BY <1>1, <1>3, <1>4, <3>1
  <2>2. /\ wState \in {"TX_CONT", "WAIT_B"} /\ dAw = CurrentAw /\ remRx = End - Arrived
        /\ remDrv = End - stored.bytes /\ NoB /\ stored.beat <= lens[nAW] /\ ~awPending
        /\ remDrv = (lens[nAW] - stored.beat + 1) * STRB /\ ~HeaderToCome(w)
    BY <1>1 DEF OrderInv, ReceiverInv
  <2>3. remDrv' = End - stored'.bytes
    BY <1>1, <1>3, <2>2
  <2>4. lens[nAW] \in Nat
    BY <2>2, CurrentBurst DEF OrderInv
  <2>5. CASE OutLast
    <3>1. stored'.burst = nAW + 1 /\ stored'.beat = 1 /\ dState' = "WAIT_B"
      BY <1>1, <2>5 DEF Advance
    <3>2. remDrv' = 0
      <4>1. lens[nAW] - stored.beat + 1 = 1
        BY <1>1, <1>3, <2>4, <2>5
      <4>2. remDrv = STRB
        BY <1>1, <2>2, <4>1
      <4> QED BY <1>1, <4>2
    <3> QED BY <1>1, <1>2, <1>4, <2>1, <2>2, <2>3, <3>1, <3>2 DEF ReceiverInv
  <2>6. CASE ~OutLast
    <3>1. stored'.burst = nAW /\ stored'.beat = stored.beat + 1 /\ dState' = "DRIVE_W"
      BY <1>1, <2>6 DEF Advance
    <3>2. stored'.beat <= lens[nAW]
      <4>1. stored.beat <= lens[nAW] /\ stored.beat # lens[nAW]
        BY <1>1, <2>2, <2>6
      <4> QED BY <1>3, <2>4, <3>1, <4>1
    <3>3. remDrv' = (lens[nAW] - stored'.beat + 1) * STRB
      BY <1>1, <1>3, <2>2, <2>4, <3>1, NextBeat
    <3> QED BY <1>1, <1>2, <1>4, <2>1, <2>2, <2>3, <3>1, <3>2, <3>3 DEF ReceiverInv
  <2> QED BY <2>5, <2>6
<1> QED BY <1>2, <1>4, <1>5 DEF OrderInv

LEMMA OrderMemoryB ==
  ASSUME NEW w, OrderInv(w), PortTypes', MemoryB
  PROVE  OrderInv(w)'
<1>1. /\ dState = "WAIT_B" /\ ~awPending
      /\ dAw = CurrentAw /\ remRx = End - Arrived /\ remDrv = End - stored.bytes /\ remDrv = 0
      /\ NoB /\ stored.burst = nAW + 1 /\ stored.beat = 1 /\ wState \in {"TX_CONT", "WAIT_B"}
      /\ ~HeaderToCome(w)
  BY DEF MemoryB, BFire, OrderInv, ReceiverInv
<1>2. /\ dState' = "IDLE" /\ bfId' = nAW
      /\ UNCHANGED <<dAw, awPending, remDrv, rxBuf, rxCount, remRx, wState, txAw, txBuf, txCount,
                     lastSeen, bPending, bId, lens, nAW, given, answered, stored, bWire>>
  BY <1>1 DEF MemoryB, BFire, txVars, masterVars, memoryVars, linkVars, CurrentAw
<1>3. /\ NearInv(w)' /\ End' = End
      /\ HeaderToCome(w)' = HeaderToCome(w) /\ Landing(w)' = Landing(w)
  BY <1>2, NearKept DEF OrderInv
<1>4. /\ End \in Nat /\ Arrived \in Nat /\ Sent \in Nat /\ Arrived <= Sent /\ Sent <= End
      /\ stored.bytes \in Nat /\ rxCount \in Nat /\ Arrived = stored.bytes + rxCount
      /\ Arrived = Landing(w)
  BY Positions DEF Arrived, OrderInv
<1>5. stored.bytes = End /\ rxCount = 0 /\ remRx = 0 /\ Arrived = Sent /\ Sent = End
  BY <1>1, <1>4
<1>6. w = <<>>
  BY <1>4, <1>5, HeadOfWire
<1>7. wState = "WAIT_B"
  BY <1>1, <1>4, <1>5, Positions DEF Active, OrderInv
<1>8. Arrived' = Arrived
  BY <1>2 DEF Arrived
<1>9. OneB'
  BY <1>1, <1>2 DEF NoB, OneB
<1>10. ReceiverInv(w)'
  BY <1>1, <1>2, <1>3, <1>5, <1>6, <1>7, <1>8, <1>9 DEF OrderInv, ReceiverInv
<1> QED BY <1>3, <1>4, <1>8, <1>10 DEF OrderInv

LEMMA OrderSendBPacket ==
  ASSUME NEW w, OrderInv(w), PortTypes', SendBPacket
  PROVE  OrderInv(w)'
<1>1. /\ bfId # 0 /\ bWire' = Append(bWire, bfId) /\ bfId' = 0
      /\ UNCHANGED <<dState, dAw, awPending, remDrv, rxBuf, rxCount, remRx, wState, txAw, txBuf,
                     txCount, lastSeen, bPending, bId, lens, nAW, given, answered, stored>>
  BY DEF SendBPacket, rxVars, txVars, masterVars, memoryVars
<1>2. /\ NearInv(w)' /\ End' = End
      /\ HeaderToCome(w)' = HeaderToCome(w) /\ Landing(w)' = Landing(w)
  BY <1>1, NearKept DEF OrderInv
<1>3. Arrived' = Arrived
  BY <1>1 DEF Arrived
<1>4. dState = "IDLE" /\ ~HeaderToCome(w) /\ wState = "WAIT_B" /\ OneB
  BY <1>1 DEF OrderInv, ReceiverInv, NoB
<1>5. OneB'
  <2>1. bfId = nAW /\ bWire = <<>> /\ ~bPending
    BY <1>1, <1>4 DEF OneB
  <2>2. Append(<<>>, nAW) = <<nAW>>
    OBVIOUS
  <2> QED BY <1>1, <2>1, <2>2 DEF OneB
<1>6. ReceiverInv(w)'
  BY <1>1, <1>2, <1>3, <1>4, <1>5 DEF OrderInv, ReceiverInv
<1> QED BY <1>2, <1>3, <1>6 DEF OrderInv

(* A step that changes nothing of the write path.                          *)
LEMMA OrderStutter ==
  ASSUME NEW w, OrderInv(w),
         UNCHANGED <<txVars, rxVars, masterVars, memoryVars, bWire, bfId>>
  PROVE  OrderInv(w)'
<1>1. UNCHANGED <<dState, dAw, awPending, remDrv, rxBuf, rxCount, remRx, wState, txAw, txBuf,
                  txCount, lastSeen, bPending, bId, lens, nAW, given, answered, stored,
                  bWire, bfId>>
  BY DEF rxVars, txVars, masterVars, memoryVars
<1>2. PortTypes'
  BY TypeStutter DEF OrderInv, NearInv
<1>3. /\ NearInv(w)' /\ End' = End /\ CurrentAw' = CurrentAw
      /\ HeaderToCome(w)' = HeaderToCome(w) /\ Landing(w)' = Landing(w)
  BY <1>1, <1>2, NearKept DEF OrderInv
<1>4. Arrived' = Arrived /\ NoB' = NoB /\ OneB' = OneB
  BY <1>1 DEF Arrived, NoB, OneB
<1>5. ReceiverInv(w)'
  BY <1>1, <1>3, <1>4 DEF OrderInv, ReceiverInv
<1> QED BY <1>3, <1>4, <1>5 DEF OrderInv

LEMMA OrderInit == Init => OrderInv(<<>>)
<1> SUFFICES ASSUME Init PROVE OrderInv(<<>>)
  OBVIOUS
<1>1. /\ wState = "IDLE" /\ bPending = FALSE /\ dState = "IDLE" /\ awPending = FALSE /\ remRx = 0
      /\ rxBuf = ZeroBytes(RxBufBytes) /\ rxCount = 0 /\ nAW = 0
      /\ stored.burst = 1 /\ stored.beat = 1 /\ stored.bytes = 0 /\ bfId = 0 /\ bWire = <<>>
  BY DEF Init, TxInit, RxInit
<1>2. NearInv(<<>>) /\ Sent = 0 /\ End = 0 /\ ~HeaderToCome(<<>>)
  BY NearInit
<1>3. Arrived = 0 /\ Landing(<<>>) = 0 /\ NoB
  BY <1>1, <1>2 DEF Arrived, Landing, NoB
<1>4. StreamFrom(rxBuf, RxBufBytes, 0, 0)
  BY <1>1 DEF StreamFrom, ZeroBytes
<1>5. ReceiverInv(<<>>)
  BY <1>1, <1>2, <1>3, <1>4, Sizes DEF ReceiverInv
<1> QED BY <1>2, <1>3, <1>5 DEF OrderInv

-----------------------------------------------------------------------------
(* Nothing is lost, repeated or moved on the way: with the write frames    *)
(* alone on the wire, the invariant holds in every reachable state.        *)

WireOrder == OrderInv(dataWire)

LEMMA OrderStep ==
  ASSUME WireOrder, NoWrap, BurstFits, [Next]_vars
  PROVE  WireOrder'
<1>1. PICK w : w = dataWire
  OBVIOUS
<1>2. PICK w2 : w2 = dataWire'
  OBVIOUS
<1>3. OrderInv(w) /\ PortTypes
  BY <1>1 DEF WireOrder, OrderInv, NearInv
<1>4. OrderInv(w2)'
  <2>1. CASE Near
    <3>1. PortTypes'
      BY <1>3, <2>1, TypeNear
    <3>2. CASE SendFlit \/ MasterWAndSendFlit
      <4>1. w2 = Append(w, TxFlit)
        BY <1>1, <1>2, <3>2 DEF SendFlit, MasterWAndSendFlit
      <4> QED BY <1>3, <3>1, <3>2, <4>1, OrderSendFlit
    <3>3. CASE MasterAW \/ MasterW \/ TakeBPacket \/ MasterB
      <4>1. w2 = w
        BY <1>1, <1>2, <3>3 DEF MasterAW, MasterW, TakeBPacket, MasterB, linkVars
      <4> QED BY <1>3, <3>1, <3>3, <4>1, OrderMasterAW, OrderMasterW, OrderTakeBPacket,
                 OrderMasterB
    <3> QED BY <2>1, <3>2, <3>3 DEF Near
  <2>2. CASE FlitArrives
    <3>1. /\ w # <<>> /\ w2 = Tail(w) /\ (RxHeader(w[1]) \/ RxCont(w[1])) /\ w[1] \in Flit
          /\ UNCHANGED <<txVars, masterVars, memoryVars, bWire, bfId>>
      <4>1. w # <<>> /\ w2 = Tail(w) /\ (RxHeader(Head(w)) \/ RxCont(Head(w)))
            /\ UNCHANGED <<txVars, masterVars, memoryVars, bWire, bfId>>
        BY <1>1, <1>2, <2>2 DEF FlitArrives
      <4>2. w[1] \in Flit /\ Head(w) = w[1]
        BY <1>3, <4>1, HeadOfWire
      <4> QED BY <4>1, <4>2
    <3>2. PortTypes'
      BY <1>3, <3>1, TypeArrival
    <3> QED BY <1>3, <3>1, <3>2, OrderArrives
  <2>3. CASE MemoryAW \/ MemoryW \/ MemoryB \/ SendBPacket
    <3>1. PortTypes'
      BY <1>3, <2>3, TypeFar
    <3>2. w2 = w
      BY <1>1, <1>2, <2>3 DEF MemoryAW, MemoryW, MemoryB, SendBPacket, linkVars
    <3> QED BY <1>3, <2>3, <3>1, <3>2, OrderMemoryAW, OrderMemoryW, OrderMemoryB,
               OrderSendBPacket
  <2>4. CASE UNCHANGED vars
    <3>1. w2 = w /\ UNCHANGED <<txVars, rxVars, masterVars, memoryVars, bWire, bfId>>
      BY <1>1, <1>2, <2>4 DEF vars, linkVars
    <3> QED BY <1>3, <3>1, OrderStutter
  <2> QED BY <2>1, <2>2, <2>3, <2>4 DEF Next, Far, Finished
<1> QED BY <1>2, <1>4 DEF WireOrder

(* The two ends and the wire together hold, in order, exactly what has     *)
(* been accepted and not yet stored, and agree on where the burst ends.    *)
THEOREM OrderHolds ==
  ASSUME NoWrap, BurstFits
  PROVE  Spec => []WireOrder
<1>1. Init => WireOrder
  <2> SUFFICES ASSUME Init PROVE WireOrder
    OBVIOUS
  <2>1. dataWire = <<>>
    BY DEF Init
  <2> QED BY <2>1, OrderInit DEF WireOrder
<1>2. WireOrder /\ [Next]_vars => WireOrder'
  BY OrderStep
<1> QED BY <1>1, <1>2, PTL DEF Spec

(* The depacketizer takes every flit, a header as a header and data as     *)
(* data, though no continuation flit says what it is (aw_rx_fire,          *)
(* cont_rx_fire of axi_depacketizer.sv).                                   *)
THEOREM EveryFlitTaken ==
  ASSUME NoWrap, BurstFits
  PROVE  Spec => []NoFlitIgnored
<1>1. WireOrder => NoFlitIgnored
  BY HeadOfWire DEF NoFlitIgnored, WireOrder
<1> QED BY <1>1, OrderHolds, PTL

(* The bytes in both buffers are those of the stream, at their places      *)
(* (data_buf_r of axi_to_aurora.sv, rx_data_buf_r of axi_depacketizer.sv). *)
THEOREM BytesKeepTheirOrder ==
  ASSUME NoWrap, BurstFits
  PROVE  Spec => []BytesInOrder
<1>1. WireOrder => BytesInOrder
  <2> SUFFICES ASSUME WireOrder PROVE BytesInOrder
    OBVIOUS
  <2>0. PICK w : w = dataWire
    OBVIOUS
  <2>1. OrderInv(w) /\ NearInv(w)
    BY <2>0 DEF WireOrder, OrderInv
  <2>2. /\ given.bytes \in Nat /\ txCount \in Nat /\ stored.bytes \in Nat /\ rxCount \in Nat
        /\ BufBytes \in Nat /\ RxBufBytes \in Nat
    BY <2>1, Positions, Sizes
  <2>3. \A i \in 1..RxBufBytes : i <= rxCount => rxBuf[i] = stored.bytes + i
    <3>1. StreamFrom(rxBuf, RxBufBytes, stored.bytes, stored.bytes + rxCount)
      BY <2>1 DEF OrderInv, ReceiverInv, Arrived
    <3> QED BY <2>2, <3>1 DEF StreamFrom
  <2>4. \A i \in 1..BufBytes : i <= txCount => txBuf[i] = (given.bytes - txCount) + i
    <3>1. StreamFrom(txBuf, BufBytes, given.bytes - txCount, given.bytes)
      BY <2>1 DEF NearInv, SenderInv, Sent
    <3> QED BY <2>2, <3>1 DEF StreamFrom
  <2> QED BY <2>3, <2>4 DEF BytesInOrder
<1> QED BY <1>1, OrderHolds, PTL

(* If every burst fits the receive buffer, which the code does not demand  *)
(* of awlen, the two ends count alike: no bytes of another burst join it   *)
(* there, so the "W RX chunk buffer overrun" assertion of                  *)
(* axi_depacketizer.sv is not hit.  A longer burst does overrun it.        *)
THEOREM ReceiveBufferHolds ==
  ASSUME NoWrap, BurstFits
  PROVE  Spec => []NoRxOverrun
<1>1. WireOrder => NoRxOverrun
  <2> SUFFICES ASSUME WireOrder, dataWire # <<>>, TakesCont
               PROVE  rxCount + Least(remRx, CONT) <= RxBufBytes
    BY DEF NoRxOverrun
  <2>0. PICK w : w = dataWire
    OBVIOUS
  <2>1. OrderInv(w) /\ NearInv(w) /\ w # <<>> /\ PortTypes
    BY <2>0 DEF WireOrder, OrderInv, NearInv
  <2>2. rxCount + remRx <= MaxBeats * STRB
    BY <2>1, HeadOfWire DEF TakesCont
  <2>3. rxCount \in Nat /\ remRx \in Nat /\ RxBufBytes \in Nat /\ MaxBeats * STRB \in Int
    BY <2>1, Sizes, Beats, BoundsAssumption DEF PortTypes, RxTypeOK
  <2> QED BY <2>2, <2>3, GeometryAssumption DEF BurstFits, Least
<1> QED BY <1>1, OrderHolds, PTL

(* A beat is accepted only when the send buffer has room for it.           *)
THEOREM AcceptedBeatsFit ==
  ASSUME NoWrap, BurstFits
  PROVE  Spec => []PushOnlyIntoRoom
<1>1. WireOrder => PushOnlyIntoRoom
  <2> SUFFICES ASSUME WireOrder, CanPush PROVE txCount + STRB <= BufBytes
    BY DEF PushOnlyIntoRoom
  <2>1. PICK w : w = dataWire
    OBVIOUS
  <2>2. NearInv(w)
    BY <2>1 DEF WireOrder, OrderInv
  <2> QED BY <2>2, Room
<1> QED BY <1>1, OrderHolds, PTL

-----------------------------------------------------------------------------
(* The bridge implements the write service (AxiWriteService).              *)

LEMMA ServiceInit == Init => Service!Init
BY BoundsAssumption DEF Init, Service!Init, Service!Start, Bursts

LEMMA SameAdvance ==
  ASSUME PortTypes, NEW p, NEW last, last = (p.beat = lens[p.burst])
  PROVE  Advance(p, last) = Service!After(p)
BY DEF Advance, Service!After, Service!IsLast

(* An AW is accepted, beats are taken: an Issue, a Give or nothing.        *)
LEMMA ServiceNear ==
  ASSUME NEW w, NearInv(w), PortTypes', NoWrap,
         MasterAW \/ MasterW \/ SendFlit \/ MasterWAndSendFlit \/ TakeBPacket
  PROVE  [Service!Next]_(Service!vars)
<1> USE DEF Service!vars
<1>1. CASE MasterAW
  <2>1. nAW < MaxBursts /\ nAW' = nAW + 1 /\ wState = "IDLE"
        /\ UNCHANGED <<lens, given, stored, memW, answered>>
    BY <1>1 DEF MasterAW, AcceptAW, memoryVars
  <2>2. answered = nAW
    BY <2>1 DEF NearInv, SenderInv
  <2>3. Service!Issue
    BY <2>1, <2>2 DEF Service!Issue
  <2> QED BY <2>3 DEF Service!Next
<1>2. CASE MasterW \/ MasterWAndSendFlit
  <2>1. /\ CanPush /\ given' = Advance(given, BeatLast)
        /\ UNCHANGED <<lens, nAW, stored, memW, answered>>
    BY <1>2 DEF MasterW, AcceptW, MasterWAndSendFlit, AcceptWAndEmit, memoryVars
  <2>2. given.burst <= nAW
    BY <2>1, Positions DEF CanPush, NearInv, SenderInv
  <2>3. given' = Service!After(given)
    BY <2>1, SameAdvance DEF NearInv, BeatLast
  <2>4. Service!Give
    BY <2>1, <2>2, <2>3 DEF Service!Give
  <2> QED BY <2>4 DEF Service!Next
<1>3. CASE SendFlit \/ TakeBPacket
  BY <1>3 DEF SendFlit, TakeBPacket, masterVars, memoryVars
<1> QED BY <1>1, <1>2, <1>3

(* The master takes the B of a burst that is stored: an Answer.            *)
LEMMA ServiceAnswer ==
  ASSUME NEW w, NearInv(w), MasterB, bId = nAW, stored.burst = nAW + 1
  PROVE  [Service!Next]_(Service!vars)
<1>1. answered' = nAW /\ UNCHANGED <<lens, nAW, given, stored, memW>>
  BY DEF MasterB, memoryVars
<1>2. answered = nAW - 1 /\ nAW \in Nat
  BY Positions DEF MasterB, TakeB, NearInv, SenderInv
<1>3. Service!Answer
  BY <1>1, <1>2 DEF Service!Answer
<1> QED BY <1>3 DEF Service!Next

(* The memory takes the next beat of the stream: a Store.                  *)
LEMMA ServiceStore ==
  ASSUME PortTypes, MemoryW, dAw.id = nAW, stored.burst = nAW,
         OutLast <=> stored.beat = lens[nAW],
         OutBeat = [i \in 1..STRB |-> stored.bytes + i], stored.bytes < given.bytes
  PROVE  [Service!Next]_(Service!vars)
<1>1. /\ stored' = Advance(stored, OutLast)
      /\ memW' = [data |-> OutBeat, last |-> OutLast, id |-> dAw.id]
      /\ UNCHANGED <<lens, nAW, given, answered>>
  BY DEF MemoryW, masterVars
<1>2. OutLast = (stored.beat = lens[stored.burst])
  BY DEF OutLast
<1>3. stored' = Service!After(stored)
  BY <1>1, <1>2, SameAdvance
<1>4. memW' = [data |-> Service!Stream(stored.bytes, STRB), last |-> Service!IsLast(stored),
               id |-> stored.burst]
  BY <1>1, <1>2 DEF Service!Stream, Service!IsLast
<1>5. Service!Store
  BY <1>1, <1>3, <1>4 DEF Service!Store
<1> QED BY <1>5 DEF Service!Next

LEMMA OrderStored ==
  ASSUME NEW w, OrderInv(w), MemoryW
  PROVE  [Service!Next]_(Service!vars)
<1>1. /\ dAw.id = nAW /\ stored.burst = nAW /\ (OutLast <=> stored.beat = lens[nAW])
      /\ OutBeat = [i \in 1..STRB |-> stored.bytes + i] /\ rxCount >= STRB /\ STRB \in Nat \ {0}
  BY BeatTaken DEF MemoryW, DriveW
<1>2. stored.bytes < given.bytes
  <2>1. /\ stored.bytes \in Nat /\ rxCount \in Nat /\ txCount \in Nat /\ given.bytes \in Nat
        /\ Landing(w) = stored.bytes + rxCount /\ Sent = given.bytes - txCount
        /\ Landing(w) <= Sent
    BY Positions DEF Arrived, Sent, OrderInv
  <2> QED BY <1>1, <2>1
<1> QED BY <1>1, <1>2, ServiceStore DEF OrderInv, NearInv

(* Whatever the write path does is a step of the service.                  *)
LEMMA ServiceStep ==
  ASSUME NEW w, OrderInv(w), NoWrap, Near \/ MemoryW
  PROVE  [Service!Next]_(Service!vars)
<1>1. CASE MemoryW
  BY <1>1, OrderStored
<1>2. CASE Near
  <2>1. PortTypes /\ NearInv(w)
    BY DEF OrderInv, NearInv
  <2>2. PortTypes'
    BY <1>2, <2>1, TypeNear
  <2>3. CASE MasterB
    <3>1. bId = nAW /\ stored.burst = nAW + 1
      BY <2>2, <2>3, OrderMasterB
    <3> QED BY <2>1, <2>3, <3>1, ServiceAnswer
  <2>4. CASE ~MasterB
    BY <1>2, <2>1, <2>2, <2>4, ServiceNear DEF Near
  <2> QED BY <2>3, <2>4
<1> QED BY <1>1, <1>2

(* What the master and the memory see of the bridge is what the write      *)
(* service promises: the memory takes the master's own beats in order,     *)
(* wlast closes each burst, and a B comes after its burst is stored.       *)
THEOREM ImplementsWriteService ==
  ASSUME NoWrap, BurstFits
  PROVE  Spec => ImplementsService
<1>1. Init => Service!Init
  BY ServiceInit
<1>2. WireOrder /\ [Next]_vars => [Service!Next]_(Service!vars)
  <2> SUFFICES ASSUME WireOrder, [Next]_vars PROVE [Service!Next]_(Service!vars)
    OBVIOUS
  <2>1. PICK w : w = dataWire
    OBVIOUS
  <2>2. OrderInv(w)
    BY <2>1 DEF WireOrder
  <2>3. CASE Near \/ MemoryW
    BY <2>2, <2>3, ServiceStep
  <2>4. CASE FlitArrives \/ MemoryAW \/ MemoryB \/ SendBPacket
    BY <2>4 DEF FlitArrives, MemoryAW, MemoryB, SendBPacket, masterVars, memoryVars, Service!vars
  <2>5. CASE UNCHANGED vars
    BY <2>5 DEF vars, masterVars, memoryVars, Service!vars
  <2> QED BY <2>3, <2>4, <2>5 DEF Next, Far, Finished
<1> QED BY <1>1, <1>2, OrderHolds, PTL DEF Spec, ImplementsService, Service!Spec
=============================================================================
