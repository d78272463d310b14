------------------------ MODULE BridgeDuplex_proofs ------------------------
(***************************************************************************)
(* Theorems about the read path alone (AuroraRead), for every number of    *)
(* reads and Lite reads and every geometry whose beats do not fit a header *)
(* flit and whose receive buffer holds a read; and about both directions   *)
(* at once (BridgeDuplex): each flit is taken by the one receiver it is    *)
(* meant for, and on the shared wire the bridge keeps the write service    *)
(* and the read service.                                                   *)
(***************************************************************************)
EXTENDS BridgeDuplex, AuroraWrite_proofs

(* The header flit of an R frame is never its last.                        *)
BeatOutgrowsHeader == RHDR < STRB

(* The receive buffer holds the longest read: nothing holds up R flits     *)
(* while the master is not ready.                                          *)
ReadFits == MaxReadBeats * STRB <= BufBytes

-----------------------------------------------------------------------------
(* The inductive invariant.  Positions are those of the memory's bytes.    *)

BeatsAsked == IF nAR = 0 THEN 0 ELSE rlens[nAR]
Got        == IF NewestTaken THEN Fetched(nAR) ELSE 0
Handed     == IF nAR > 0 /\ rDone = nAR THEN rlens[nAR] ELSE rTaken

BeatAt(id, b) == ((id - 1) * MaxReadBeats + b) * STRB
BeatPos(b)    == BeatAt(nAR, b)

ReadStart == BeatPos(0)
ReadEnd   == BeatPos(BeatsAsked)
FetchedTo == BeatPos(Got)
SentTo    == FetchedTo - rfCount     \* up to where the read has left in flits
HandedTo  == BeatPos(Handed)
ArrivedTo == HandedTo + rrCount      \* up to where it has arrived

CurrentAr == [lite |-> FALSE, id |-> nAR, len |-> BeatsAsked]

(* Where the one Full AR is: on its way, with the FSM or behind it.        *)
Fetching == dRead # "IDLE" /\ ~dAr.lite

ArInv ==
  /\ nAR \in {rDone, rDone + 1} /\ rfId <= nAR /\ (~dAr.lite => dAr.id <= nAR)
  /\ rDone = nAR => Got = BeatsAsked /\ rTaken = 0
  /\ rDone # nAR => rTaken < BeatsAsked
  /\ arState = "TX_AR" => rDone # nAR /\ ~NewestTaken
  /\ \A i \in 1..Len(arWire) : ~arWire[i].lite =>
       /\ rDone # nAR /\ ~NewestTaken /\ arState = "IDLE" /\ arWire[i] = CurrentAr
       /\ \A j \in 1..Len(arWire) : ~arWire[j].lite => i = j
  /\ Fetching => /\ rDone # nAR /\ dAr = CurrentAr /\ memBeats < BeatsAsked
                 /\ dRead = "DRIVE_AR" => memBeats = 0
  /\ ~Fetching /\ ~dAr.lite /\ dAr.id = nAR /\ nAR > 0 => memBeats = BeatsAsked
  /\ Got > 0 => rfId = nAR

RSenderInv ==
  /\ rfCount <= BufBytes
  /\ StreamFrom(rfBuf, BufBytes, SentTo, FetchedTo)
  /\ rfState = "IDLE" => rfCount = 0 /\ ~rfLast /\ Got \in {0, BeatsAsked}
  /\ rfState # "IDLE" => /\ Got > 0 /\ rDone # nAR
                         /\ rfLast <=> Got = BeatsAsked
                         /\ rfLast => rfCount > 0
  /\ rfState = "TX_HDR" => SentTo = ReadStart
  /\ rfState = "TX_CONT" => SentTo > ReadStart

(* The types of all but the wire.                                          *)
ReadPortTypes ==
  /\ RfTypeOK /\ RrTypeOK
  /\ rlens \in [1..MaxReads -> 1..MaxReadBeats]
  /\ arState \in {"IDLE", "TX_AR"} /\ laState \in {"IDLE", "TX_AR"}
  /\ nAR \in 0..MaxReads /\ nLiteAR \in 0..MaxLiteReads
  /\ rDone \in Nat /\ rTaken \in Nat /\ liteDone \in Nat
  /\ lrPending \in BOOLEAN /\ lrData \in Nat /\ liteR \in Nat
  /\ arWire \in Seq(Ar) /\ dRead \in {"IDLE", "DRIVE_AR", "WAIT_R"} /\ dAr \in Ar
  /\ memBeats \in Nat /\ rlPend \in BOOLEAN /\ rlData \in Nat /\ rlWire \in Seq(Nat)

RCap(f) == IF f.op = "R" THEN RHDR ELSE CONT

(* A flit is a piece of the read; the header is its beginning.             *)
RFlitInv(f) ==
  /\ f.op = "R" <=> From(f) = ReadStart
  /\ f.op = "R" => f.id = nAR
  /\ f.tlast <=> From(f) + f.keep = ReadEnd
  /\ StreamFrom(f.data, RCap(f), From(f), From(f) + f.keep)
  /\ ArrivedTo <= From(f) /\ From(f) + f.keep <= SentTo

(* The R flits r of the wire go on from the bytes that have arrived, one from  *)
(* where the one before it ends, to the bytes that have been sent.         *)
RWireInv(r) ==
  /\ r \in Seq(RFlit)
  /\ \A i \in 1..Len(r) : RFlitInv(r[i])
  /\ \A i \in 1..(Len(r) - 1) : From(r[i + 1]) = From(r[i]) + r[i].keep
  /\ \A i, j \in 1..Len(r) : i < j => From(r[i]) + r[i].keep <= From(r[j])
  /\ IF r = <<>> THEN ArrivedTo = SentTo
     ELSE /\ ArrivedTo = From(r[1])
          /\ SentTo = From(r[Len(r)]) + r[Len(r)].keep

RReceiverInv ==
  /\ StreamFrom(rrBuf, BufBytes, HandedTo, ArrivedTo)
  /\ ArrivedTo <= SentTo
  /\ rrInCont <=> ReadStart < ArrivedTo /\ ArrivedTo < ReadEnd
  /\ rrLast <=> HandedTo < ArrivedTo /\ ArrivedTo = ReadEnd
  /\ ReadStart < ArrivedTo => rrId = nAR

ReadInv(r) == ReadPortTypes /\ ArInv /\ RSenderInv /\ RWireInv(r) /\ RReceiverInv

(* What a step does to the R flits r of the wire: leaves r as it is,       *)
(* takes its first flit or adds a flit.                                    *)
PieceIn(r) ==
  /\ r # <<>>
  /\ RxRHeader(r[1]) \/ RxRCont(r[1])
  /\ UNCHANGED <<rfVars, arVars, gotVars, liteRVars, arWire, depRVars, rlVars, rlWire>>

NearBeside == MasterAR \/ SendAR \/ LiteMasterAR \/ SendLiteAR \/ MasterR
                \/ TakeRLitePacket \/ LiteMasterR
FarBeside  == ArArrives \/ DriveAR \/ MemoryR \/ MemoryRLite \/ SendRLite

ReadWireStep(r, r2) ==
  \/ (NearBeside \/ FarBeside \/ UNCHANGED readOnly) /\ r2 = r
  \/ PieceIn(r) /\ r2 = Tail(r)
  \/ (SendRFlit \/ MemoryRAndSendRFlit) /\ r2 = Append(r, RfFlit)

-----------------------------------------------------------------------------
(* Types.                                                                  *)

LEMMA Constants ==
  /\ STRB \in Nat /\ STRB > 0 /\ CONT \in Nat /\ CONT > 0 /\ RHDR \in Nat /\ RHDR > 0
  /\ BufBytes \in Nat /\ TXMOD \in Nat /\ BufBytes < TXMOD /\ BufBytes = CONT + STRB
  /\ MaxReads \in Nat /\ MaxReadBeats \in Nat /\ MaxReadBeats > 0 /\ RHDR <= CONT
BY Sizes, GeometryAssumption, RHeaderAssumption, ReadBoundsAssumption DEF BufBytes

LEMMA NoCarry ==
  ASSUME NEW x \in Nat, NEW m \in Nat, x < m
  PROVE  x % m = x
OBVIOUS

LEMMA RSenderTypes ==
  ASSUME RfTypeOK, RfEmitReady
  PROVE  /\ RfEmitN \in 1..RfCap /\ RfEmitN <= rfCount
         /\ RfFlit \in RFlit /\ RfFlit.keep = RfEmitN /\ (RfFlit.tlast <=> RfIsFinal)
         /\ RfFlit.data = Low(rfBuf, RfCap) /\ RCap(RfFlit) = RfCap
         /\ (RfFlit.op = "R" <=> rfState = "TX_HDR") /\ (RfFlit.op = "R" => RfFlit.id = rfId)
<1>1. rfCount \in Nat /\ rfState \in {"TX_HDR", "TX_CONT"} /\ rfBuf \in [1..BufBytes -> Byte]
      /\ rfId \in Nat /\ rfLast \in BOOLEAN
  BY DEF RfTypeOK, RfEmitReady, RfActive
<1>2. RfCap \in Nat /\ RfCap > 0
  BY Constants DEF RfCap
<1>3. RfEmitN \in 1..RfCap /\ RfEmitN <= rfCount
  BY <1>1, <1>2 DEF RfEmitN, Least, RfEmitReady
<1>4. RfIsFinal \in BOOLEAN
  BY <1>1 DEF RfIsFinal
<1>5. CASE rfState = "TX_HDR"
  <2>1. RfCap = RHDR
    BY <1>5 DEF RfCap
  <2>2. RfFlit = RHeader(rfId, Low(rfBuf, RHDR), RfEmitN, RfIsFinal)
    BY <1>5 DEF RfFlit
  <2>3. Low(rfBuf, RHDR) \in [1..RHDR -> Byte]
    BY <1>1, LowType, Constants
  <2> QED BY <1>1, <1>3, <1>4, <1>5, <2>1, <2>2, <2>3 DEF RHeader, RFlit, RCap
<1>6. CASE rfState = "TX_CONT"
  <2>1. RfCap = CONT
    BY <1>6 DEF RfCap
  <2>2. RfFlit = RCont(Low(rfBuf, CONT), RfEmitN, RfIsFinal)
    BY <1>6 DEF RfFlit
  <2>3. Low(rfBuf, CONT) \in [1..CONT -> Byte]
    BY <1>1, LowType, Constants
  <2> QED BY <1>3, <1>4, <1>6, <2>1, <2>2, <2>3 DEF RCont, RFlit, RCap
<1> QED BY <1>1, <1>5, <1>6

LEMMA PushTypes ==
  ASSUME RfTypeOK, NEW id \in Nat, NEW beat \in [1..STRB -> Byte], NEW last \in BOOLEAN,
         RfPush(id, beat, last)
  PROVE  RfTypeOK'
<1>1. rfCount \in Nat /\ rfBuf \in [1..BufBytes -> Byte]
  BY DEF RfTypeOK
<1>2. (rfCount + STRB) % TXMOD \in 0..(TXMOD - 1)
  <2>1. rfCount + STRB \in Nat /\ TXMOD \in Nat \ {0}
    BY <1>1, Constants
  <2> QED BY <2>1, ModRange
<1>3. OrAt(rfBuf, rfCount, beat) \in [1..BufBytes -> Byte]
  BY <1>1, Constants, OrAtType
<1> QED BY <1>2, <1>3 DEF RfTypeOK, RfPush

LEMMA EmitTypes ==
  ASSUME RfTypeOK, RfEmit
  PROVE  RfTypeOK'
<1>1. rfCount \in Nat /\ rfCount < TXMOD /\ rfBuf \in [1..BufBytes -> Byte]
  BY Constants DEF RfTypeOK
<1>2. RfEmitN \in Nat /\ RfEmitN <= rfCount
  BY RSenderTypes DEF RfEmit
<1>3. ShiftDown(rfBuf, RfEmitN) \in [1..BufBytes -> Byte]
  BY <1>1, <1>2, Constants, ShiftDownType
<1>4. rfCount - RfEmitN \in 0..(TXMOD - 1)
  BY <1>1, <1>2, Constants
<1> QED BY <1>3, <1>4 DEF RfTypeOK, RfEmit, RfAfterEmit

LEMMA PushAndEmitTypes ==
  ASSUME RfTypeOK, NEW beat \in [1..STRB -> Byte], NEW last \in BOOLEAN,
         RfPushAndEmit(beat, last)
  PROVE  RfTypeOK'
<1>1. rfCount \in Nat /\ rfBuf \in [1..BufBytes -> Byte]
  BY DEF RfTypeOK
<1>2. RfEmitN \in Nat /\ RfEmitN <= rfCount
  BY RSenderTypes DEF RfPushAndEmit
<1>3. rfCount - RfEmitN \in Nat
  BY <1>1, <1>2
<1>4. (rfCount - RfEmitN + STRB) % TXMOD \in 0..(TXMOD - 1)
  <2>1. rfCount - RfEmitN + STRB \in Nat /\ TXMOD \in Nat \ {0}
    BY <1>3, Constants
  <2> QED BY <2>1, ModRange
<1>5. ShiftDown(rfBuf, RfEmitN) \in [1..BufBytes -> Byte]
  BY <1>1, <1>2, Constants, ShiftDownType
<1>6. OrAt(ShiftDown(rfBuf, RfEmitN), rfCount - RfEmitN, beat) \in [1..BufBytes -> Byte]
  BY <1>3, <1>5, Constants, OrAtType
<1> QED BY <1>4, <1>6 DEF RfTypeOK, RfPushAndEmit, RfAfterEmit

LEMMA ArrivalTypes ==
  ASSUME RrTypeOK, NEW f \in RFlit, RxRHeader(f) \/ RxRCont(f)
  PROVE  RrTypeOK'
<1>1. rrCount \in Nat /\ rrBuf \in [1..BufBytes -> Byte]
  BY DEF RrTypeOK
<1>2. f.tlast \in BOOLEAN /\ f.id \in Nat /\ f.keep \in Nat /\ f.keep <= CONT
      /\ f.data \in [1..RCap(f) -> Byte] /\ RCap(f) \in Nat
  BY Constants DEF RFlit, RCap
<1>3. CASE RxRHeader(f)
  <2>1. ZeroBytes(BufBytes) \in [1..BufBytes -> Byte]
    BY Constants, ZeroBytesType
  <2>2. OrAt(ZeroBytes(BufBytes), 0, f.data) \in [1..BufBytes -> Byte]
    BY <1>2, <2>1, Constants, OrAtType, SMTT(20)
  <2>3. f.keep \in 0..(TXMOD - 1)
    BY <1>2, Constants
  <2> QED BY <1>2, <1>3, <2>2, <2>3 DEF RrTypeOK, RxRHeader
<1>4. CASE RxRCont(f)
  <2>1. OrAt(rrBuf, rrCount, f.data) \in [1..BufBytes -> Byte]
    BY <1>1, <1>2, Constants, OrAtType, SMTT(20)
  <2>2. (rrCount + f.keep) % TXMOD \in 0..(TXMOD - 1)
    <3>1. rrCount + f.keep \in Nat
      BY <1>1, <1>2
    <3> QED BY <3>1, Constants, ModRange
  <2>3. rrLast' \in BOOLEAN /\ rrInCont' \in BOOLEAN
    BY <1>2, <1>4 DEF RrTypeOK, RxRCont
  <2> QED BY <1>4, <2>1, <2>2, <2>3 DEF RrTypeOK, RxRCont
<1> QED BY <1>3, <1>4

LEMMA TakeTypes ==
  ASSUME RrTypeOK, TakeR
  PROVE  RrTypeOK'
<1>1. rrCount \in Nat /\ rrCount < TXMOD /\ rrBuf \in [1..BufBytes -> Byte]
  BY Constants DEF RrTypeOK
<1>2. ShiftDown(rrBuf, STRB) \in [1..BufBytes -> Byte]
  BY <1>1, Constants, ShiftDownType
<1>3. rrCount - STRB \in 0..(TXMOD - 1)
  BY <1>1, Constants DEF TakeR, RrHaveBeat
<1>4. (rrLast /\ ~RrBeatLast) \in BOOLEAN
  OBVIOUS
<1> QED BY <1>2, <1>3, <1>4 DEF RrTypeOK, TakeR

(* The bytes of a beat are numbers, also for the Full read of no master.   *)
LEMMA BeatTypes ==
  ASSUME NEW id \in Nat, NEW beat \in Nat, id > 0, beat > 0
  PROVE  ReadBeat(id, beat) \in [1..STRB -> Byte]
<1>1. (id - 1) * MaxReadBeats \in Nat
  <2>1. \A x, y \in Nat : x * y \in Nat
    OBVIOUS
  <2>2. id - 1 \in Nat
    OBVIOUS
  <2> QED BY <2>1, <2>2, Constants
<1> DEFINE off == (id - 1) * MaxReadBeats
<1> HIDE DEF off
<1>2. (off + (beat - 1)) * STRB \in Nat
  <2>1. \A x, y \in Nat : x * y \in Nat
    OBVIOUS
  <2>2. off + (beat - 1) \in Nat
    BY <1>1 DEF off
  <2> QED BY <2>1, <2>2, Constants
<1> DEFINE start == (off + (beat - 1)) * STRB
<1> HIDE DEF start
<1>3. \A i \in 1..STRB : start + i \in Byte
  BY <1>2, ByteFacts, Constants DEF start
<1>4. ReadBeat(id, beat) = [i \in 1..STRB |-> start + i]
  BY DEF ReadBeat, off, start
<1> QED BY <1>3, <1>4

-----------------------------------------------------------------------------
(* What the invariant speaks of, and how the positions lie.                *)

LEMMA ReadTypes ==
  ASSUME NEW r, ReadInv(r)
  PROVE  /\ nAR \in Nat /\ nAR <= MaxReads /\ rDone \in Nat /\ rTaken \in Nat /\ memBeats \in Nat
         /\ rfId \in Nat /\ rfCount \in Nat /\ rrCount \in Nat /\ rrCount < TXMOD
         /\ rfBuf \in [1..BufBytes -> Byte] /\ rrBuf \in [1..BufBytes -> Byte]
         /\ r \in Seq(RFlit) /\ arWire \in Seq(Ar) /\ dAr \in Ar
         /\ rfState \in {"IDLE", "TX_HDR", "TX_CONT"} /\ dRead \in {"IDLE", "DRIVE_AR", "WAIT_R"}
         /\ rfLast \in BOOLEAN /\ rrLast \in BOOLEAN /\ rrInCont \in BOOLEAN
         /\ rDone # nAR => nAR = rDone + 1 /\ nAR > 0
<1>1. nAR \in 0..MaxReads /\ MaxReads \in Nat /\ rrCount \in 0..(TXMOD - 1) /\ TXMOD \in Nat
      /\ rfCount \in 0..(TXMOD - 1)
  BY Constants DEF ReadInv, ReadPortTypes, RrTypeOK, RfTypeOK
<1>2. nAR \in {rDone, rDone + 1} /\ rDone \in Nat
  BY DEF ReadInv, ReadPortTypes, ArInv
<1>3. r \in Seq(RFlit)
  BY DEF ReadInv, RWireInv
<1> QED BY <1>1, <1>2, <1>3 DEF ReadInv, ReadPortTypes, RfTypeOK, RrTypeOK

(* How many beats were asked for, fetched and handed over.                 *)
LEMMA Counts ==
  ASSUME NEW r, ReadInv(r)
  PROVE  /\ BeatsAsked \in Nat /\ Got \in Nat /\ Handed \in Nat
         /\ Got <= BeatsAsked /\ Handed <= BeatsAsked /\ BeatsAsked <= MaxReadBeats
         /\ nAR > 0 => BeatsAsked = rlens[nAR] /\ BeatsAsked > 0
         /\ nAR = 0 => BeatsAsked = 0 /\ rDone = 0
         /\ rDone = nAR => Handed = BeatsAsked /\ Got = BeatsAsked
         /\ rDone # nAR => Handed = rTaken /\ Handed < BeatsAsked
<1>1. nAR \in Nat /\ nAR <= MaxReads /\ rDone \in Nat /\ rTaken \in Nat /\ memBeats \in Nat
      /\ (rDone # nAR => nAR = rDone + 1) /\ MaxReads \in Nat /\ MaxReadBeats \in Nat
  BY ReadTypes, Constants
<1>2. nAR > 0 => rlens[nAR] \in 1..MaxReadBeats
  <2>1. rlens \in [1..MaxReads -> 1..MaxReadBeats]
    BY DEF ReadInv, ReadPortTypes
  <2> QED BY <1>1, <2>1
<1>3. BeatsAsked \in Nat /\ BeatsAsked <= MaxReadBeats
  BY <1>1, <1>2 DEF BeatsAsked
<1>4. /\ nAR > 0 => BeatsAsked = rlens[nAR] /\ BeatsAsked > 0
      /\ nAR = 0 => BeatsAsked = 0 /\ rDone = 0
  BY <1>1, <1>2 DEF BeatsAsked
<1>5. /\ rDone = nAR => Handed = BeatsAsked /\ Got = BeatsAsked
      /\ rDone # nAR => Handed = rTaken /\ Handed < BeatsAsked
  BY <1>1, <1>4 DEF Handed, ReadInv, ArInv
<1>6. Got \in Nat /\ Got <= BeatsAsked
  <2>1. CASE NewestTaken /\ ~dAr.lite /\ dAr.id = nAR
    <3>1. nAR > 0 /\ Got = memBeats
      BY <2>1 DEF Got, Fetched, NewestTaken
    <3>2. memBeats <= BeatsAsked
      BY <1>1, <1>3, <2>1, <3>1 DEF ReadInv, ArInv
    <3> QED BY <1>1, <3>1, <3>2
  <2>2. CASE NewestTaken /\ ~(~dAr.lite /\ dAr.id = nAR)
    <3>1. nAR > 0 /\ Got = rlens[nAR]
      BY <2>2 DEF Got, Fetched, NewestTaken
    <3> QED BY <1>3, <1>4, <3>1
  <2>3. CASE ~NewestTaken
    BY <1>3, <2>3 DEF Got
  <2> QED BY <2>1, <2>2, <2>3
<1>7. Handed \in Nat /\ Handed <= BeatsAsked
  BY <1>1, <1>3, <1>5
<1> QED BY <1>3, <1>4, <1>5, <1>6, <1>7

LEMMA BeatsAt ==
  ASSUME NEW id \in Nat
  PROVE  /\ \A b \in Int : BeatAt(id, b) \in Int /\ BeatAt(id, b + 1) = BeatAt(id, b) + STRB
         /\ \A b, c \in Int : b <= c => BeatAt(id, b) <= BeatAt(id, c)
         /\ \A b, c \in Int : b < c => BeatAt(id, b) + STRB <= BeatAt(id, c)
         /\ \A b \in Int : BeatAt(id, b) = BeatAt(id, 0) + b * STRB
         /\ id > 0 => BeatAt(id, 0) \in Nat
<1> DEFINE off == (id - 1) * MaxReadBeats
<1>1. off \in Int /\ (id > 0 => off >= 0)
  <2>1. \A x, y \in Int : x * y \in Int
    OBVIOUS
  <2>2. \A x, y \in Nat : x * y >= 0
    OBVIOUS
  <2>3. id - 1 \in Int /\ (id > 0 => id - 1 \in Nat) /\ MaxReadBeats \in Nat
    BY Constants
  <2> DEFINE n == id - 1
  <2> HIDE DEF n
  <2>4. n * MaxReadBeats \in Int /\ (id > 0 => n * MaxReadBeats >= 0)
    BY <2>1, <2>2, <2>3 DEF n
  <2> QED BY <2>4 DEF n
<1> HIDE DEF off
<1>2. \A b : BeatAt(id, b) = (off + b) * STRB
  BY DEF BeatAt, off
<1>3. \A b \in Int : BeatAt(id, b) \in Int /\ BeatAt(id, b + 1) = BeatAt(id, b) + STRB
  <2> TAKE b \in Int
  <2> DEFINE x == off + b + 1
  <2>1. x \in Int /\ x - 1 = off + b /\ off + (b + 1) = x
    BY <1>1
  <2> HIDE DEF x
  <2>2. x * STRB \in Int /\ (x - 1) * STRB = x * STRB - STRB
    BY <2>1, Beats
  <2>3. BeatAt(id, b) = (x - 1) * STRB /\ BeatAt(id, b + 1) = x * STRB
    BY <1>2, <2>1
  <2> QED BY <2>2, <2>3, Constants
<1>4. \A b, c \in Int : b <= c => BeatAt(id, b) <= BeatAt(id, c)
  <2> SUFFICES ASSUME NEW b \in Int, NEW c \in Int, b <= c PROVE BeatAt(id, b) <= BeatAt(id, c)
    OBVIOUS
  <2>1. off + b \in Int /\ off + c \in Int /\ off + b <= off + c
    BY <1>1
  <2> QED BY <1>2, <2>1, Beats
<1>5. \A b, c \in Int : b < c => BeatAt(id, b) + STRB <= BeatAt(id, c)
  <2> SUFFICES ASSUME NEW b \in Int, NEW c \in Int, b < c
               PROVE  BeatAt(id, b) + STRB <= BeatAt(id, c)
    OBVIOUS
  <2>1. b + 1 \in Int /\ b + 1 <= c
    OBVIOUS
  <2> QED BY <1>3, <1>4, <2>1
<1>6. \A b \in Int : BeatAt(id, b) = BeatAt(id, 0) + b * STRB
  <2> TAKE b \in Int
  <2>1. \A x, y \in Int : (x + y) * STRB = x * STRB + y * STRB
    BY Constants
  <2>2. BeatAt(id, b) = (off + b) * STRB /\ BeatAt(id, 0) = (off + 0) * STRB /\ off + 0 = off
    BY <1>1, <1>2
  <2> QED BY <1>1, <2>1, <2>2
<1>7. id > 0 => BeatAt(id, 0) \in Nat
  <2>1. \A x \in Int : x >= 0 => x * STRB >= 0
    BY Constants
  <2>2. BeatAt(id, 0) = (off + 0) * STRB /\ off + 0 = off /\ BeatAt(id, 0) \in Int
    BY <1>1, <1>2, <1>3
  <2>3. id > 0 => off * STRB >= 0
    BY <1>1, <2>1
  <2> QED BY <2>2, <2>3
<1> QED BY <1>3, <1>4, <1>5, <1>6, <1>7

LEMMA BeatPositions ==
  ASSUME nAR \in Nat
  PROVE  /\ \A b \in Int : BeatPos(b) \in Int /\ BeatPos(b + 1) = BeatPos(b) + STRB
         /\ \A b, c \in Int : b <= c => BeatPos(b) <= BeatPos(c)
         /\ \A b, c \in Int : b < c => BeatPos(b) + STRB <= BeatPos(c)
         /\ \A b \in Int : BeatPos(b) = BeatPos(0) + b * STRB
         /\ nAR > 0 => BeatPos(0) \in Nat
BY BeatsAt DEF BeatPos

LEMMA ReadPositions ==
  ASSUME NEW r, ReadInv(r)
  PROVE  /\ ReadStart \in Int /\ ReadEnd \in Int /\ FetchedTo \in Int /\ SentTo \in Int
         /\ HandedTo \in Int /\ ArrivedTo \in Int
         /\ ReadStart <= HandedTo /\ HandedTo <= ArrivedTo /\ ArrivedTo <= SentTo
         /\ SentTo <= FetchedTo /\ FetchedTo <= ReadEnd
         /\ FetchedTo = SentTo + rfCount /\ ArrivedTo = HandedTo + rrCount
         /\ rDone # nAR => HandedTo + STRB <= ReadEnd /\ ReadStart + STRB <= ReadEnd
         /\ rDone = nAR => HandedTo = ReadEnd /\ FetchedTo = ReadEnd
         /\ Got < BeatsAsked => FetchedTo + STRB <= ReadEnd
         /\ Got = BeatsAsked => FetchedTo = ReadEnd
         /\ nAR > 0 => ReadStart \in Nat
<1>1. nAR \in Nat /\ rfCount \in Nat /\ rrCount \in Nat /\ BeatsAsked \in Nat /\ Got \in Nat
      /\ Handed \in Nat /\ Got <= BeatsAsked /\ Handed <= BeatsAsked
  BY ReadTypes, Counts
<1>2. /\ \A b \in Int : BeatPos(b) \in Int
      /\ \A b, c \in Int : b <= c => BeatPos(b) <= BeatPos(c)
      /\ \A b, c \in Int : b < c => BeatPos(b) + STRB <= BeatPos(c)
      /\ nAR > 0 => BeatPos(0) \in Nat
  BY <1>1, BeatPositions
<1>3. /\ ReadStart \in Int /\ ReadEnd \in Int /\ FetchedTo \in Int /\ HandedTo \in Int
      /\ ReadStart <= HandedTo /\ FetchedTo <= ReadEnd
      /\ nAR > 0 => ReadStart \in Nat
  BY <1>1, <1>2 DEF ReadStart, ReadEnd, FetchedTo, HandedTo
<1>4. /\ SentTo \in Int /\ ArrivedTo \in Int /\ FetchedTo = SentTo + rfCount
      /\ ArrivedTo = HandedTo + rrCount /\ HandedTo <= ArrivedTo /\ SentTo <= FetchedTo
  BY <1>1, <1>3 DEF SentTo, ArrivedTo
<1>5. ArrivedTo <= SentTo
  BY DEF ReadInv, RReceiverInv
<1>6. rDone # nAR => HandedTo + STRB <= ReadEnd /\ ReadStart + STRB <= ReadEnd
  <2> SUFFICES ASSUME rDone # nAR
               PROVE  HandedTo + STRB <= ReadEnd /\ ReadStart + STRB <= ReadEnd
    OBVIOUS
  <2>1. Handed < BeatsAsked /\ 0 < BeatsAsked
    BY <1>1, Counts
  <2> QED BY <1>1, <1>2, <2>1 DEF ReadStart, ReadEnd, HandedTo
<1>7. rDone = nAR => HandedTo = ReadEnd /\ FetchedTo = ReadEnd
  BY Counts DEF HandedTo, FetchedTo, ReadEnd
<1>8. Got < BeatsAsked => FetchedTo + STRB <= ReadEnd
  BY <1>1, <1>2 DEF FetchedTo, ReadEnd
<1>9. Got = BeatsAsked => FetchedTo = ReadEnd
  BY DEF FetchedTo, ReadEnd
<1> QED BY <1>3, <1>4, <1>5, <1>6, <1>7, <1>8, <1>9

(* A whole read fits a buffer.                                             *)
LEMMA ReadSpan ==
  ASSUME NEW r, ReadInv(r), ReadFits
  PROVE  /\ ReadEnd <= ReadStart + BufBytes
         /\ ArrivedTo <= HandedTo + BufBytes /\ FetchedTo <= SentTo + BufBytes
         /\ BufBytes \in Nat
<1>1. BeatsAsked \in Nat /\ BeatsAsked <= MaxReadBeats /\ nAR \in Nat /\ MaxReadBeats \in Nat
      /\ BufBytes \in Nat
  BY Counts, ReadTypes, Constants
<1>2. ReadEnd = ReadStart + BeatsAsked * STRB
  BY <1>1, BeatPositions DEF ReadEnd, ReadStart
<1>3. BeatsAsked * STRB <= MaxReadBeats * STRB /\ BeatsAsked * STRB \in Int
      /\ MaxReadBeats * STRB \in Int
  BY <1>1, Beats
<1> DEFINE x == BeatsAsked * STRB
           y == MaxReadBeats * STRB
<1> HIDE DEF x, y
<1>4. ReadEnd = ReadStart + x /\ x <= y /\ x \in Int /\ y \in Int /\ y <= BufBytes
  BY <1>2, <1>3 DEF x, y, ReadFits
<1>5. /\ ReadStart \in Int /\ HandedTo \in Int /\ ArrivedTo \in Int /\ SentTo \in Int
      /\ FetchedTo \in Int
      /\ ReadStart <= HandedTo /\ HandedTo <= ArrivedTo /\ ArrivedTo <= SentTo
      /\ SentTo <= FetchedTo /\ FetchedTo <= ReadEnd
  BY ReadPositions
<1> QED BY <1>1, <1>4, <1>5

LEMMA RFlitTypes ==
  ASSUME NEW f \in RFlit
  PROVE  /\ f.keep \in Nat /\ f.keep > 0 /\ f.keep <= RCap(f) /\ RCap(f) \in Nat
         /\ f.data \in [1..RCap(f) -> Byte] /\ From(f) \in Int /\ f.tlast \in BOOLEAN
         /\ f.op \in {"R", "none"} /\ f.id \in Nat /\ RCap(f) <= CONT
<1>1. /\ f.keep \in Nat /\ f.keep > 0 /\ f.keep <= RCap(f) /\ RCap(f) \in Nat
      /\ f.data \in [1..RCap(f) -> Byte] /\ f.op \in {"R", "none"} /\ f.id \in Nat
      /\ f.tlast \in BOOLEAN /\ RCap(f) <= CONT
  BY Constants DEF RFlit, RCap
<1>2. f.data[1] \in Byte
  BY <1>1
<1>3. f.data[1] \in Int
  BY <1>2 DEF Byte, Garbled
<1> QED BY <1>1, <1>3 DEF From

(* Once a read is complete nothing of it is on its way.                    *)
LEMMA CompleteReads ==
  ASSUME NEW r, ReadInv(r), rDone = nAR
  PROVE  /\ rfState = "IDLE" /\ rfCount = 0 /\ ~rfLast /\ r = <<>> /\ rrCount = 0
         /\ ~rrInCont /\ ~rrLast /\ ~Fetching /\ arState # "TX_AR"
<1>1. HandedTo = ReadEnd /\ ArrivedTo = ReadEnd /\ SentTo = ReadEnd /\ rfCount = 0 /\ rrCount = 0
  BY ReadPositions, ReadTypes
<1>2. r = <<>>
  <2> SUFFICES ASSUME r # <<>> PROVE FALSE
    OBVIOUS
  <2>1. Len(r) \in Nat \ {0}
    BY ReadTypes
  <2> DEFINE n == Len(r)
             g == r[n]
  <2>2. n \in 1..n /\ g \in RFlit
    BY <2>1, ReadTypes
  <2>3. RFlitInv(g)
    BY <2>2 DEF ReadInv, RWireInv
  <2> HIDE DEF g
  <2>4. From(g) + g.keep <= SentTo /\ ArrivedTo <= From(g)
    BY <2>3 DEF RFlitInv
  <2>5. g.keep \in Nat /\ g.keep > 0 /\ From(g) \in Int
    BY <2>2, RFlitTypes
  <2> QED BY <1>1, <2>4, <2>5, ReadPositions
<1>3. rfState = "IDLE" /\ ~rfLast
  <2>1. rfState # "IDLE" => rDone # nAR
    BY DEF ReadInv, RSenderInv
  <2> QED BY <2>1 DEF ReadInv, RSenderInv
<1>4. ~rrInCont /\ ~rrLast
  <2>1. (rrInCont => ArrivedTo < ReadEnd) /\ (rrLast => HandedTo < ArrivedTo)
    BY DEF ReadInv, RReceiverInv
  <2> QED BY <1>1, <2>1, ReadPositions
<1>5. ~Fetching /\ arState # "TX_AR"
  BY DEF ReadInv, ArInv
<1> QED BY <1>1, <1>2, <1>3, <1>4, <1>5

-----------------------------------------------------------------------------
(* The types are kept.                                                     *)

LEMMA TypesKept ==
  /\ RfTypeOK /\ UNCHANGED rfVars => RfTypeOK'
  /\ RrTypeOK /\ UNCHANGED rrVars => RrTypeOK'
BY DEF RfTypeOK, RrTypeOK, rfVars, rrVars

(* Where a Full read is, it is the newest.                                 *)
LEMMA ReadUnderWay ==
  ASSUME NEW r, ReadInv(r)
  PROVE  /\ arState = "TX_AR" => rDone # nAR /\ ~NewestTaken
         /\ Fetching => /\ rDone # nAR /\ dAr.id = nAR /\ dAr.len = BeatsAsked /\ ~dAr.lite
                        /\ nAR > 0 /\ nAR \in Nat /\ NewestTaken /\ Got = memBeats
                        /\ memBeats < BeatsAsked /\ (dRead = "DRIVE_AR" => memBeats = 0)
<1>1. arState = "TX_AR" => rDone # nAR /\ ~NewestTaken
  BY DEF ReadInv, ArInv
<1>2. Fetching => rDone # nAR /\ dAr = CurrentAr /\ memBeats < BeatsAsked /\ ~dAr.lite
                  /\ (dRead = "DRIVE_AR" => memBeats = 0)
  BY DEF ReadInv, ArInv, Fetching
<1>3. Fetching => dAr.id = nAR /\ dAr.len = BeatsAsked
  BY <1>2 DEF CurrentAr
<1>4. rDone # nAR => nAR > 0 /\ nAR \in Nat
  BY ReadTypes
<1>5. Fetching => NewestTaken /\ Got = memBeats
  BY <1>2, <1>3, <1>4 DEF NewestTaken, Got, Fetched
<1> QED BY <1>1, <1>2, <1>3, <1>4, <1>5

LEMMA TypesNear ==
  ASSUME NEW r, ReadInv(r), NearBeside \/ PieceIn(r)
  PROVE  ReadPortTypes'
<1> USE DEF ReadPortTypes
<1>1. CASE MasterAR
  BY <1>1, TypesKept, ReadBoundsAssumption
     DEF MasterAR, ReadInv, gotVars, liteRVars, depRVars, rlVars
<1>2. CASE SendAR
  <2>1. nAR \in 1..MaxReads /\ rlens \in [1..MaxReads -> 1..MaxReadBeats]
    BY <1>2, ReadTypes, ReadUnderWay, Constants, SMTT(20) DEF SendAR, ReadInv
  <2>2. rlens[nAR] \in Nat
    BY <2>1, Constants
  <2>3. [lite |-> FALSE, id |-> nAR, len |-> rlens[nAR]] \in Ar
    BY <2>1, <2>2, Constants DEF Ar
  <2>4. arWire' \in Seq(Ar)
    BY <1>2, <2>3 DEF SendAR, ReadInv
  <2> QED BY <1>2, <2>4, TypesKept
          DEF SendAR, ReadInv, gotVars, liteRVars, depRVars, rlVars
<1>3. CASE LiteMasterAR
  BY <1>3, TypesKept, ReadBoundsAssumption
     DEF LiteMasterAR, ReadInv, arVars, gotVars, depRVars, rlVars
<1>4. CASE SendLiteAR
  <2>1. [lite |-> TRUE, id |-> nLiteAR, len |-> 1] \in Ar
    BY ReadBoundsAssumption DEF ReadInv, Ar
  <2>2. arWire' \in Seq(Ar)
    BY <1>4, <2>1 DEF SendLiteAR, ReadInv
  <2> QED BY <1>4, <2>2, TypesKept
          DEF SendLiteAR, ReadInv, arVars, gotVars, depRVars, rlVars
<1>5. CASE PieceIn(r)
  <2>1. r[1] \in RFlit
    <3>1. r \in Seq(RFlit) /\ r # <<>>
      BY <1>5, ReadTypes DEF PieceIn
    <3> QED BY <3>1
  <2>2. RrTypeOK'
    BY <1>5, <2>1, ArrivalTypes DEF PieceIn, ReadInv
  <2> QED BY <1>5, <2>2, TypesKept
          DEF PieceIn, ReadInv, arVars, gotVars, liteRVars, depRVars, rlVars
<1>6. CASE MasterR
  <2>1. RrTypeOK'
    BY <1>6, TakeTypes DEF MasterR, ReadInv
  <2> QED BY <1>6, <2>1, TypesKept
          DEF MasterR, ReadInv, arVars, liteRVars, depRVars, rlVars
<1>7. CASE TakeRLitePacket
  <2>1. rlWire' \in Seq(Nat) /\ Head(rlWire) \in Nat
    BY <1>7 DEF TakeRLitePacket, ReadInv
  <2> QED BY <1>7, <2>1, TypesKept
          DEF TakeRLitePacket, ReadInv, arVars, gotVars, depRVars, rlVars
<1>8. CASE LiteMasterR
  <2>1. lrPending' \in BOOLEAN /\ liteDone' \in Nat /\ liteR' \in Nat
    <3>1. lrPending' = FALSE
      BY <1>8, Zenon DEF LiteMasterR
    <3>2. liteDone' = liteDone + 1 /\ liteR' = lrData
      BY <1>8, Zenon DEF LiteMasterR
    <3>3. liteDone \in Nat /\ lrData \in Nat
      BY DEF ReadInv
    <3>4. lrPending' \in BOOLEAN
      BY <3>1, Zenon
    <3>5. liteDone' \in Nat /\ liteR' \in Nat
      BY <3>2, <3>3
    <3> QED BY <3>4, <3>5
  <2>2. UNCHANGED <<laState, nLiteAR, lrData, rfVars, rrVars, arVars, gotVars, arWire,
                    depRVars, rlVars, rlWire>>
    BY <1>8 DEF LiteMasterR
  <2> QED BY <2>1, <2>2, TypesKept DEF ReadInv, arVars, gotVars, depRVars, rlVars
<1> QED BY <1>1, <1>2, <1>3, <1>4, <1>5, <1>6, <1>7, <1>8 DEF NearBeside

LEMMA MemBeatTypes ==
  ASSUME NEW r, ReadInv(r), MemoryReturns
  PROVE  /\ MemBeat \in [1..STRB -> Byte] /\ MemBeatLast \in BOOLEAN /\ dAr.id \in Nat
         /\ Fetching
<1>1. Fetching
  BY DEF MemoryReturns, Fetching
<1>2. dAr.id = nAR /\ nAR > 0 /\ nAR \in Nat /\ memBeats \in Nat
  BY <1>1, ReadUnderWay, ReadTypes
<1>3. memBeats + 1 \in Nat /\ memBeats + 1 > 0
  BY <1>2
<1> DEFINE b == memBeats + 1
<1> HIDE DEF b
<1>4. ReadBeat(dAr.id, b) \in [1..STRB -> Byte]
  BY <1>2, <1>3, BeatTypes DEF b
<1> QED BY <1>1, <1>2, <1>4 DEF MemBeat, MemBeatLast, b

LEMMA TypesFar ==
  ASSUME NEW r, ReadInv(r), FarBeside \/ SendRFlit \/ MemoryRAndSendRFlit
  PROVE  ReadPortTypes'
<1> USE DEF ReadPortTypes
<1>1. CASE ArArrives
  <2>1. arWire' \in Seq(Ar) /\ Head(arWire) \in Ar
    BY <1>1 DEF ArArrives, ReadInv
  <2>2. dRead' \in {"IDLE", "DRIVE_AR", "WAIT_R"} /\ dAr' \in Ar /\ memBeats' \in Nat
    BY <1>1, <2>1 DEF ArArrives, ReadInv, depRVars
  <2> QED BY <1>1, <2>1, <2>2, TypesKept
          DEF ArArrives, ReadInv, arVars, gotVars, liteRVars, rlVars
<1>2. CASE DriveAR
  BY <1>2, TypesKept DEF DriveAR, ReadInv, arVars, gotVars, liteRVars, rlVars
<1>3. CASE MemoryR
  <2>1. MemoryReturns /\ RfPush(dAr.id, MemBeat, MemBeatLast)
    BY <1>3 DEF MemoryR
  <2>2. RfTypeOK'
    BY <2>1, MemBeatTypes, PushTypes DEF ReadInv
  <2>3. dRead' \in {"IDLE", "DRIVE_AR", "WAIT_R"} /\ dAr' \in Ar /\ memBeats' \in Nat
    BY <2>1 DEF MemoryReturns, ReadInv
  <2> QED BY <1>3, <2>2, <2>3, TypesKept
          DEF MemoryR, ReadInv, arVars, gotVars, liteRVars, rlVars
<1>4. CASE SendRFlit
  <2>1. RfTypeOK'
    BY <1>4, EmitTypes DEF SendRFlit, ReadInv
  <2> QED BY <1>4, <2>1, TypesKept
          DEF SendRFlit, ReadInv, arVars, gotVars, liteRVars, depRVars, rlVars
<1>5. CASE MemoryRAndSendRFlit
  <2>1. MemoryReturns /\ RfPushAndEmit(MemBeat, MemBeatLast)
    BY <1>5 DEF MemoryRAndSendRFlit
  <2>2. RfTypeOK'
    BY <2>1, MemBeatTypes, PushAndEmitTypes DEF ReadInv
  <2>3. dRead' \in {"IDLE", "DRIVE_AR", "WAIT_R"} /\ dAr' \in Ar /\ memBeats' \in Nat
    BY <2>1 DEF MemoryReturns, ReadInv
  <2> QED BY <1>5, <2>2, <2>3, TypesKept
          DEF MemoryRAndSendRFlit, ReadInv, arVars, gotVars, liteRVars, rlVars
<1>6. CASE MemoryRLite
  <2>1. dAr.id \in Nat
    BY DEF ReadInv, Ar
  <2> QED BY <1>6, <2>1, TypesKept DEF MemoryRLite, ReadInv, arVars, gotVars, liteRVars
<1>7. CASE SendRLite
  <2>1. rlWire' \in Seq(Nat)
    BY <1>7 DEF SendRLite, ReadInv
  <2> QED BY <1>7, <2>1, TypesKept
          DEF SendRLite, ReadInv, arVars, gotVars, liteRVars, depRVars
<1> QED BY <1>1, <1>2, <1>3, <1>4, <1>5, <1>6, <1>7 DEF FarBeside

LEMMA TypesStutter ==
  ASSUME NEW r, ReadInv(r), UNCHANGED readOnly
  PROVE  ReadPortTypes'
<1>1. UNCHANGED rfVars /\ UNCHANGED rrVars
  BY DEF readOnly
<1> QED BY <1>1, TypesKept
       DEF ReadInv, ReadPortTypes, readOnly, arVars, gotVars, liteRVars, depRVars, rlVars

-----------------------------------------------------------------------------
(* What stays while the positions stay.                                    *)

LEMMA AskedKept ==
  ASSUME UNCHANGED <<nAR, rlens>>
  PROVE  /\ BeatsAsked' = BeatsAsked /\ CurrentAr' = CurrentAr
         /\ \A b : BeatPos(b)' = BeatPos(b)
         /\ ReadStart' = ReadStart /\ ReadEnd' = ReadEnd
<1>1. BeatsAsked' = BeatsAsked
  BY DEF BeatsAsked
<1>2. \A b : BeatPos(b)' = BeatPos(b)
  BY DEF BeatPos, BeatAt
<1>3. ReadStart' = ReadStart /\ ReadEnd' = ReadEnd
  BY <1>1 DEF ReadStart, ReadEnd, BeatPos, BeatAt
<1>4. CurrentAr' = CurrentAr
  BY <1>1 DEF CurrentAr
<1> QED BY <1>1, <1>2, <1>3, <1>4

LEMMA PositionsKept ==
  ASSUME UNCHANGED <<nAR, rlens>>
  PROVE  /\ Got' = Got => FetchedTo' = FetchedTo
         /\ Got' = Got /\ rfCount' = rfCount => SentTo' = SentTo
         /\ UNCHANGED <<rDone, rTaken>> => Handed' = Handed /\ HandedTo' = HandedTo
         /\ UNCHANGED <<rDone, rTaken, rrCount>> => ArrivedTo' = ArrivedTo
<1>1. Got' = Got => FetchedTo' = FetchedTo
  BY DEF FetchedTo, BeatPos, BeatAt
<1>2. Got' = Got /\ rfCount' = rfCount => SentTo' = SentTo
  BY <1>1 DEF SentTo
<1>3. UNCHANGED <<rDone, rTaken>> => Handed' = Handed /\ HandedTo' = HandedTo
  BY DEF Handed, HandedTo, BeatPos, BeatAt
<1>4. UNCHANGED <<rDone, rTaken, rrCount>> => ArrivedTo' = ArrivedTo
  BY <1>3 DEF ArrivedTo
<1> QED BY <1>1, <1>2, <1>3, <1>4

LEMMA SenderKept ==
  ASSUME NEW r, ReadInv(r), Got' = Got, UNCHANGED <<rfVars, nAR, rlens, rDone>>
  PROVE  RSenderInv'
<1>1. UNCHANGED <<rfState, rfId, rfBuf, rfCount, rfLast>>
  BY DEF rfVars
<1>2. /\ FetchedTo' = FetchedTo /\ SentTo' = SentTo /\ BeatsAsked' = BeatsAsked
      /\ ReadStart' = ReadStart
  BY <1>1, AskedKept, PositionsKept
<1>3. StreamFrom(rfBuf, BufBytes, SentTo, FetchedTo)'
  BY <1>1, <1>2 DEF ReadInv, RSenderInv
<1> QED BY <1>1, <1>2, <1>3 DEF ReadInv, RSenderInv

LEMMA WireKept ==
  ASSUME NEW r, ReadInv(r), SentTo' = SentTo, ArrivedTo' = ArrivedTo, UNCHANGED <<nAR, rlens>>
  PROVE  RWireInv(r)'
<1>1. ReadStart' = ReadStart /\ ReadEnd' = ReadEnd
  BY AskedKept
<1>2. \A i \in 1..Len(r) : RFlitInv(r[i])'
  <2> SUFFICES ASSUME NEW i \in 1..Len(r) PROVE RFlitInv(r[i])'
    OBVIOUS
  <2>1. RFlitInv(r[i])
    BY DEF ReadInv, RWireInv
  <2> QED BY <1>1, <2>1 DEF RFlitInv
<1> QED BY <1>1, <1>2 DEF ReadInv, RWireInv

LEMMA ReceiverKept ==
  ASSUME NEW r, ReadInv(r), SentTo' >= SentTo, SentTo' \in Int,
         UNCHANGED <<rrVars, nAR, rlens, rDone, rTaken>>
  PROVE  RReceiverInv'
<1>1. UNCHANGED <<rrInCont, rrLast, rrBuf, rrCount, rrId>>
  BY DEF rrVars
<1>2. /\ HandedTo' = HandedTo /\ ArrivedTo' = ArrivedTo /\ ReadStart' = ReadStart
      /\ ReadEnd' = ReadEnd /\ ArrivedTo \in Int /\ SentTo \in Int
  BY <1>1, AskedKept, PositionsKept, ReadPositions
<1>3. StreamFrom(rrBuf, BufBytes, HandedTo, ArrivedTo)'
  BY <1>1, <1>2 DEF ReadInv, RReceiverInv
<1>4. ArrivedTo' <= SentTo'
  BY <1>2 DEF ReadInv, RReceiverInv
<1> QED BY <1>1, <1>2, <1>3, <1>4 DEF ReadInv, RReceiverInv

(* What the requests' side does leaves the data's way as it is.            *)
LEMMA DataKept ==
  ASSUME NEW r, ReadInv(r), Got' = Got,
         UNCHANGED <<rfVars, rrVars, nAR, rlens, rDone, rTaken>>
  PROVE  RSenderInv' /\ RWireInv(r)' /\ RReceiverInv'
<1>1. UNCHANGED <<rfCount, rrCount>>
  BY DEF rfVars, rrVars
<1>2. SentTo' = SentTo /\ ArrivedTo' = ArrivedTo /\ SentTo \in Int
  BY <1>1, PositionsKept, ReadPositions
<1> QED BY <1>2, SenderKept, WireKept, ReceiverKept

(* What the data's side does leaves the requests as they are.              *)
LEMMA RequestsKept ==
  ASSUME NEW r, ReadInv(r),
         UNCHANGED <<nAR, rlens, rDone, rTaken, arState, arWire, dRead, dAr, memBeats, rfId>>
  PROVE  ArInv' /\ Got' = Got
<1>1. (NewestTaken' <=> NewestTaken) /\ Got' = Got /\ (Fetching' <=> Fetching)
  BY DEF NewestTaken, Got, Fetched, Fetching
<1>2. BeatsAsked' = BeatsAsked /\ CurrentAr' = CurrentAr
  BY AskedKept
<1>3. ArInv
  BY DEF ReadInv
<1> HIDE DEF NewestTaken, Got, Fetching, BeatsAsked, CurrentAr
<1>4. ArInv'
  BY <1>1, <1>2, <1>3 DEF ArInv
<1> QED BY <1>1, <1>4

LEMMA NextFetched ==
  ASSUME UNCHANGED <<nAR, rlens>>, nAR \in Nat, Got \in Nat, Got' = Got + 1
  PROVE  FetchedTo' = FetchedTo + STRB
<1>1. FetchedTo' = BeatPos(Got + 1)
  BY DEF FetchedTo, BeatPos, BeatAt
<1> DEFINE g == Got
<1>2. g \in Int /\ FetchedTo = BeatPos(g)
  BY DEF FetchedTo
<1> HIDE DEF g
<1>3. BeatPos(g + 1) = BeatPos(g) + STRB
  BY <1>2, BeatPositions
<1> QED BY <1>1, <1>2, <1>3 DEF g

-----------------------------------------------------------------------------
(* The requests: a read is asked for, carried over and taken up.           *)

LEMMA NothingBetween ==
  ASSUME NEW n \in Nat, NEW bytes, NEW p \in Int, NEW e \in Int, NEW q \in Int, NEW f \in Int,
         StreamFrom(bytes, n, p, e), e <= p, f <= q
  PROVE  StreamFrom(bytes, n, q, f)
BY DEF StreamFrom

(* No AR of a Full read is on its way while none is under way, nor while   *)
(* the newest is being fetched.                                            *)
LEMMA NoArOnTheWay ==
  ASSUME NEW r, ReadInv(r), rDone = nAR \/ NewestTaken \/ arState = "TX_AR"
  PROVE  \A i \in 1..Len(arWire) : arWire[i].lite
<1> SUFFICES ASSUME NEW i \in 1..Len(arWire), ~arWire[i].lite PROVE FALSE
  OBVIOUS
<1>1. rDone # nAR /\ ~NewestTaken /\ arState = "IDLE"
  BY DEF ReadInv, ArInv
<1> QED BY <1>1

(* Nothing of a read is fetched or handed over when it is asked for.       *)
LEMMA NewRead ==
  ASSUME NEW r, ReadInv(r), MasterAR
  PROVE  ~NewestTaken' /\ Got' = 0 /\ Handed' = 0 /\ ~Fetching'
<1>1. /\ nAR = rDone /\ nAR < MaxReads /\ nAR' = nAR + 1 /\ arState' = "TX_AR"
      /\ UNCHANGED <<rlens, rfVars, rrVars, rDone, rTaken, arWire, dRead, dAr, memBeats>>
  BY DEF MasterAR, gotVars, depRVars
<1>2. UNCHANGED <<rfState, rfId, rfBuf, rfCount, rfLast, rrInCont, rrLast, rrBuf, rrCount, rrId>>
  BY <1>1 DEF rfVars, rrVars
<1>3. /\ rfState = "IDLE" /\ rfCount = 0 /\ ~rfLast /\ r = <<>> /\ rrCount = 0
      /\ ~rrInCont /\ ~rrLast /\ ~Fetching
  BY <1>1, CompleteReads
<1>4. rfId <= nAR /\ (~dAr.lite => dAr.id <= nAR) /\ rTaken = 0 /\ rfId \in Nat /\ nAR \in Nat
      /\ dAr.id \in Nat
  BY <1>1, ReadTypes DEF ReadInv, ArInv, Ar
<1> QED BY <1>1, <1>2, <1>3, <1>4 DEF NewestTaken, Got, Handed, Fetching

LEMMA InvMasterAR ==
  ASSUME NEW r, ReadInv(r), MasterAR
  PROVE  ArInv' /\ RSenderInv' /\ RWireInv(r)' /\ RReceiverInv'
<1>1. /\ nAR = rDone /\ nAR < MaxReads /\ nAR' = nAR + 1 /\ arState' = "TX_AR"
      /\ UNCHANGED <<rlens, rfVars, rrVars, rDone, rTaken, arWire, dRead, dAr, memBeats>>
  BY DEF MasterAR, gotVars, depRVars
<1>2. UNCHANGED <<rfState, rfId, rfBuf, rfCount, rfLast, rrInCont, rrLast, rrBuf, rrCount, rrId>>
  BY <1>1 DEF rfVars, rrVars
<1>3. /\ rfState = "IDLE" /\ rfCount = 0 /\ ~rfLast /\ r = <<>> /\ rrCount = 0
      /\ ~rrInCont /\ ~rrLast /\ ~Fetching
  BY <1>1, CompleteReads
<1>4. rfId <= nAR /\ (~dAr.lite => dAr.id <= nAR) /\ rTaken = 0 /\ rfId \in Nat /\ nAR \in Nat
      /\ dAr.id \in Nat
  BY <1>1, ReadTypes DEF ReadInv, ArInv, Ar
<1>5. ~NewestTaken' /\ Got' = 0 /\ Handed' = 0 /\ ~Fetching'
  BY NewRead
<1>6. BeatsAsked' \in Nat /\ BeatsAsked' > 0
  <2>1. rlens \in [1..MaxReads -> 1..MaxReadBeats] /\ nAR + 1 \in 1..MaxReads
    BY <1>1, <1>4, Constants DEF ReadInv, ReadPortTypes
  <2>2. BeatsAsked' = rlens[nAR + 1]
    BY <1>1, <1>4 DEF BeatsAsked
  <2> QED BY <2>1, <2>2, Constants
<1>7. ArInv'
  <2>1. \A i \in 1..Len(arWire) : arWire[i].lite
    BY <1>1, NoArOnTheWay
  <2>2. nAR' \in {rDone', rDone' + 1} /\ rfId' <= nAR' /\ (~dAr'.lite => dAr'.id <= nAR')
        /\ rDone' # nAR' /\ rTaken' < BeatsAsked' /\ ~(~dAr'.lite /\ dAr'.id = nAR')
    BY <1>1, <1>2, <1>4, <1>6
  <2> QED BY <1>1, <1>5, <2>1, <2>2 DEF ArInv
<1> DEFINE s == ReadStart'
           e == ReadEnd'
<1>8. /\ s \in Int /\ e \in Int /\ s < e
      /\ FetchedTo' = s /\ SentTo' = s /\ HandedTo' = s /\ ArrivedTo' = s
  <2> DEFINE id == nAR'
             b == BeatsAsked'
  <2>1. id \in Nat /\ b \in Int /\ 0 < b
    BY <1>1, <1>4, <1>6
  <2> HIDE DEF id, b
  <2>2. BeatAt(id, 0) \in Int /\ BeatAt(id, b) \in Int /\ BeatAt(id, 0) + STRB <= BeatAt(id, b)
    <3>1. /\ \A x \in Int : BeatAt(id, x) \in Int
          /\ \A x, y \in Int : x < y => BeatAt(id, x) + STRB <= BeatAt(id, y)
      BY <2>1, BeatsAt
    <3>2. 0 \in Int
      OBVIOUS
    <3> QED BY <2>1, <3>1, <3>2
  <2>3. s = BeatAt(id, 0) /\ e = BeatAt(id, b)
    BY DEF id, b, ReadStart, ReadEnd, BeatPos
  <2>4. FetchedTo' = s /\ HandedTo' = s
    BY <1>5 DEF FetchedTo, HandedTo, ReadStart, BeatPos
  <2>6. SentTo' = s - rfCount' /\ ArrivedTo' = s + rrCount'
    BY <2>4 DEF SentTo, ArrivedTo
  <2> QED BY <1>2, <1>3, <2>2, <2>3, <2>4, <2>6, Constants
<1> HIDE DEF s, e
<1>9. RSenderInv'
  <2>1. StreamFrom(rfBuf, BufBytes, SentTo, FetchedTo) /\ SentTo = FetchedTo /\ FetchedTo \in Int
    BY <1>3, ReadPositions DEF ReadInv, RSenderInv
  <2>2. StreamFrom(rfBuf, BufBytes, s, s)
    BY <1>8, <2>1, NothingBetween, Constants
  <2> QED BY <1>2, <1>3, <1>5, <1>8, <2>2, Constants DEF RSenderInv
<1>10. RWireInv(r)'
  <2>1. r = <<>> /\ Len(r) = 0 /\ r \in Seq(RFlit)
    BY <1>3
  <2> QED BY <1>8, <2>1 DEF RWireInv
<1>11. RReceiverInv'
  <2>1. StreamFrom(rrBuf, BufBytes, HandedTo, ArrivedTo) /\ ArrivedTo = HandedTo /\ HandedTo \in Int
    BY <1>3, ReadPositions DEF ReadInv, RReceiverInv
  <2>2. StreamFrom(rrBuf, BufBytes, s, s)
    BY <1>8, <2>1, NothingBetween, Constants
  <2> QED BY <1>2, <1>3, <1>8, <2>2 DEF RReceiverInv, s, e
<1> QED BY <1>7, <1>9, <1>10, <1>11

LEMMA AppendedAr ==
  ASSUME NEW w \in Seq(Ar), NEW a \in Ar
  PROVE  /\ Len(Append(w, a)) = Len(w) + 1 /\ Append(w, a)[Len(w) + 1] = a
         /\ \A i \in 1..Len(w) : Append(w, a)[i] = w[i]
OBVIOUS

LEMMA InvSendAR ==
  ASSUME NEW r, ReadInv(r), SendAR
  PROVE  ArInv' /\ Got' = Got
<1>1. /\ arState = "TX_AR" /\ arState' = "IDLE"
      /\ arWire' = Append(arWire, [lite |-> FALSE, id |-> nAR, len |-> rlens[nAR]])
      /\ UNCHANGED <<rlens, nAR, rfId, rDone, rTaken, dRead, dAr, memBeats>>
  BY DEF SendAR, gotVars, depRVars, rfVars
<1>2. rDone # nAR /\ ~NewestTaken /\ nAR \in Nat /\ nAR > 0 /\ BeatsAsked = rlens[nAR]
      /\ BeatsAsked \in Nat
  BY <1>1, ReadUnderWay, ReadTypes, Counts
<1>3. (NewestTaken' <=> NewestTaken) /\ Got' = Got /\ (Fetching' <=> Fetching)
  BY <1>1 DEF NewestTaken, Got, Fetched, Fetching
<1>4. BeatsAsked' = BeatsAsked /\ CurrentAr' = CurrentAr
  BY <1>1, AskedKept
<1>5. \A i \in 1..Len(arWire) : arWire[i].lite
  BY <1>1, NoArOnTheWay
<1>6. CurrentAr = [lite |-> FALSE, id |-> nAR, len |-> rlens[nAR]] /\ CurrentAr \in Ar
      /\ ~CurrentAr.lite
  BY <1>2 DEF CurrentAr, Ar
<1> DEFINE n == Len(arWire)
<1>7. /\ n \in Nat /\ Len(arWire') = n + 1 /\ arWire'[n + 1] = CurrentAr
      /\ \A i \in 1..n : arWire'[i] = arWire[i]
  BY <1>1, <1>6, AppendedAr, ReadTypes
<1>8. \A i \in 1..Len(arWire') : ~arWire'[i].lite => i = n + 1
  <2> SUFFICES ASSUME NEW i \in 1..(n + 1), i # n + 1 PROVE arWire'[i].lite
    BY <1>7
  <2>1. i \in 1..n
    BY <1>7
  <2> QED BY <1>5, <1>7, <2>1
<1> HIDE DEF n
<1>9. \A i \in 1..Len(arWire') : ~arWire'[i].lite =>
        /\ rDone' # nAR' /\ ~NewestTaken' /\ arState' = "IDLE" /\ arWire'[i] = CurrentAr'
        /\ \A j \in 1..Len(arWire') : ~arWire'[j].lite => i = j
  BY <1>1, <1>2, <1>3, <1>4, <1>7, <1>8
<1>10. ArInv'
  <2> HIDE DEF NewestTaken, Got, Fetching, BeatsAsked, CurrentAr
  <2>1. arState' # "TX_AR"
    BY <1>1
  <2> QED BY <1>1, <1>3, <1>4, <1>9, <2>1 DEF ReadInv, ArInv
<1> QED BY <1>3, <1>10

(* Lite ARs among them change nothing.                                     *)
LEMMA InvSendLiteAR ==
  ASSUME NEW r, ReadInv(r), SendLiteAR
  PROVE  ArInv' /\ Got' = Got
<1> DEFINE a == [lite |-> TRUE, id |-> nLiteAR, len |-> 1]
           n == Len(arWire)
<1>1. /\ arWire' = Append(arWire, a)
      /\ UNCHANGED <<arState, rlens, nAR, rfId, rDone, rTaken, dRead, dAr, memBeats>>
  BY DEF SendLiteAR, gotVars, depRVars, rfVars, arVars
<1>2. (NewestTaken' <=> NewestTaken) /\ Got' = Got /\ (Fetching' <=> Fetching)
  BY <1>1 DEF NewestTaken, Got, Fetched, Fetching
<1>3. BeatsAsked' = BeatsAsked /\ CurrentAr' = CurrentAr
  BY <1>1, AskedKept
<1>4. a \in Ar /\ a.lite
  BY ReadBoundsAssumption DEF ReadInv, ReadPortTypes, Ar
<1>5. /\ n \in Nat /\ Len(arWire') = n + 1 /\ arWire'[n + 1] = a
      /\ \A i \in 1..n : arWire'[i] = arWire[i]
  BY <1>1, <1>4, AppendedAr, ReadTypes
<1>6. \A i \in 1..Len(arWire') : ~arWire'[i].lite => i \in 1..n /\ arWire'[i] = arWire[i]
  <2> SUFFICES ASSUME NEW i \in 1..(n + 1), ~arWire'[i].lite
               PROVE  i \in 1..n /\ arWire'[i] = arWire[i]
    BY <1>5
  <2>1. i # n + 1
    BY <1>4, <1>5
  <2> QED BY <1>5, <2>1
<1>7. \A i \in 1..Len(arWire') : ~arWire'[i].lite =>
        /\ rDone' # nAR' /\ ~NewestTaken' /\ arState' = "IDLE" /\ arWire'[i] = CurrentAr'
        /\ \A j \in 1..Len(arWire') : ~arWire'[j].lite => i = j
  <2> SUFFICES ASSUME NEW i \in 1..Len(arWire'), ~arWire'[i].lite
               PROVE  /\ rDone' # nAR' /\ ~NewestTaken' /\ arState' = "IDLE"
                      /\ arWire'[i] = CurrentAr'
                      /\ \A j \in 1..Len(arWire') : ~arWire'[j].lite => i = j
    OBVIOUS
  <2>1. i \in 1..n /\ ~arWire[i].lite /\ arWire'[i] = arWire[i]
    BY <1>6
  <2>2. /\ rDone # nAR /\ ~NewestTaken /\ arState = "IDLE" /\ arWire[i] = CurrentAr
        /\ \A j \in 1..n : ~arWire[j].lite => i = j
    BY <2>1 DEF ReadInv, ArInv
  <2>3. \A j \in 1..Len(arWire') : ~arWire'[j].lite => i = j
    BY <1>6, <2>2
  <2> QED BY <1>1, <1>2, <1>3, <2>1, <2>2, <2>3
<1>8. ArInv'
  <2> HIDE DEF NewestTaken, Got, Fetching, BeatsAsked, CurrentAr
  <2> QED BY <1>1, <1>2, <1>3, <1>7 DEF ReadInv, ArInv
<1> QED BY <1>2, <1>8

(* What is said of the ARs behind the head holds when it is gone.          *)
LEMMA OtherArs ==
  ASSUME NEW r, ReadInv(r), arWire # <<>>, arWire' = Tail(arWire),
         UNCHANGED <<rDone, nAR, arState>>, CurrentAr' = CurrentAr,
         ~NewestTaken => ~NewestTaken'
  PROVE  \A i \in 1..Len(arWire') : ~arWire'[i].lite =>
           /\ rDone' # nAR' /\ ~NewestTaken' /\ arState' = "IDLE" /\ arWire'[i] = CurrentAr'
           /\ \A j \in 1..Len(arWire') : ~arWire'[j].lite => i = j
<1> DEFINE n == Len(arWire)
<1>1. /\ n \in Nat \ {0} /\ Len(arWire') = n - 1
      /\ \A i \in 1..(n - 1) : arWire'[i] = arWire[i + 1] /\ i + 1 \in 1..n
  BY ReadTypes
<1> SUFFICES ASSUME NEW i \in 1..(n - 1), ~arWire'[i].lite
             PROVE  /\ rDone' # nAR' /\ ~NewestTaken' /\ arState' = "IDLE"
                    /\ arWire'[i] = CurrentAr'
                    /\ \A j \in 1..(n - 1) : ~arWire'[j].lite => i = j
  BY <1>1
<1>2. i + 1 \in 1..n /\ arWire'[i] = arWire[i + 1] /\ ~arWire[i + 1].lite
  BY <1>1
<1>3. /\ rDone # nAR /\ ~NewestTaken /\ arState = "IDLE" /\ arWire[i + 1] = CurrentAr
      /\ \A k \in 1..n : ~arWire[k].lite => i + 1 = k
  BY <1>2 DEF ReadInv, ArInv
<1>4. \A j \in 1..(n - 1) : ~arWire'[j].lite => i = j
  <2> SUFFICES ASSUME NEW j \in 1..(n - 1), ~arWire'[j].lite PROVE i = j
    OBVIOUS
  <2>1. j + 1 \in 1..n /\ ~arWire[j + 1].lite
    BY <1>1
  <2>2. i + 1 = j + 1
    BY <1>3, <2>1
  <2> QED BY <1>1, <2>2
<1> QED BY <1>2, <1>3, <1>4

(* An AR reaches the read FSM, which takes it if it is free.               *)
LEMMA InvArArrives ==
  ASSUME NEW r, ReadInv(r), ArArrives
  PROVE  ArInv' /\ Got' = Got
<1> DEFINE a == arWire[1]
           n == Len(arWire)
<1>1. /\ arWire # <<>> /\ arWire' = Tail(arWire) /\ Head(arWire) = a
      /\ UNCHANGED <<arState, rlens, nAR, rfId, rDone, rTaken>>
      /\ IF dRead = "IDLE"
         THEN dRead' = "DRIVE_AR" /\ dAr' = a /\ memBeats' = 0
         ELSE UNCHANGED <<dRead, dAr, memBeats>>
  BY DEF ArArrives, TakesAR, gotVars, depRVars, rfVars, arVars
<1>2. /\ n \in Nat \ {0} /\ Len(arWire') = n - 1 /\ 1 \in 1..n
      /\ \A i \in 1..(n - 1) : arWire'[i] = arWire[i + 1] /\ i + 1 \in 1..n /\ i + 1 # 1
  BY <1>1, ReadTypes
<1>3. BeatsAsked' = BeatsAsked /\ CurrentAr' = CurrentAr
  BY <1>1, AskedKept
<1>4. /\ nAR \in Nat /\ (nAR > 0 => BeatsAsked = rlens[nAR] /\ BeatsAsked > 0)
      /\ BeatsAsked \in Nat /\ memBeats \in Nat
  BY Counts, ReadTypes
<1>5. ~a.lite => /\ rDone # nAR /\ ~NewestTaken /\ arState = "IDLE" /\ a = CurrentAr
                 /\ \A i \in 1..n : ~arWire[i].lite => i = 1
  BY <1>2 DEF ReadInv, ArInv
<1>6. CASE dRead # "IDLE"
  <2>1. UNCHANGED <<dRead, dAr, memBeats>>
    BY <1>1, <1>6
  <2>2. (NewestTaken' <=> NewestTaken) /\ Got' = Got /\ (Fetching' <=> Fetching)
    BY <1>1, <2>1 DEF NewestTaken, Got, Fetched, Fetching
  <2>3. \A i \in 1..Len(arWire') : ~arWire'[i].lite =>
          /\ rDone' # nAR' /\ ~NewestTaken' /\ arState' = "IDLE" /\ arWire'[i] = CurrentAr'
          /\ \A j \in 1..Len(arWire') : ~arWire'[j].lite => i = j
    BY <1>1, <1>2, <1>3, <2>2, OtherArs
  <2>4. ArInv'
    <3> HIDE DEF NewestTaken, Got, Fetching, BeatsAsked, CurrentAr
    <3> QED BY <1>1, <1>3, <2>1, <2>2, <2>3 DEF ReadInv, ArInv
  <2> QED BY <2>2, <2>4
<1>7. CASE dRead = "IDLE" /\ a.lite
  <2>1. dRead' = "DRIVE_AR" /\ dAr' = a /\ memBeats' = 0 /\ ~Fetching /\ ~Fetching'
    BY <1>1, <1>7 DEF Fetching
  <2>2. NewestTaken' <=> nAR > 0 /\ rfId = nAR
    BY <1>1, <1>7, <2>1 DEF NewestTaken
  <2>3. ~dAr.lite /\ dAr.id = nAR /\ nAR > 0 => memBeats = BeatsAsked
    BY <2>1 DEF ReadInv, ArInv
  <2>4. Got' = IF nAR > 0 /\ rfId = nAR THEN BeatsAsked ELSE 0
    BY <1>1, <1>4, <1>7, <2>1, <2>2 DEF Got, Fetched
  <2>5. Got > 0 => rfId = nAR
    BY DEF ReadInv, ArInv
  <2>6. Got' = Got
    <3>1. CASE nAR > 0 /\ ~dAr.lite /\ dAr.id = nAR
      <4>1. Got = BeatsAsked
        BY <2>3, <3>1 DEF Got, Fetched, NewestTaken
      <4> QED BY <1>4, <2>4, <2>5, <3>1, <4>1
    <3>2. CASE ~(nAR > 0 /\ ~dAr.lite /\ dAr.id = nAR)
      <4>1. Got = IF nAR > 0 /\ rfId = nAR THEN BeatsAsked ELSE 0
        BY <1>4, <3>2 DEF Got, Fetched, NewestTaken
      <4> QED BY <2>4, <4>1
    <3> QED BY <3>1, <3>2
  <2>7. ~NewestTaken => ~NewestTaken'
    BY <2>2 DEF NewestTaken
  <2>8. \A i \in 1..Len(arWire') : ~arWire'[i].lite =>
          /\ rDone' # nAR' /\ ~NewestTaken' /\ arState' = "IDLE" /\ arWire'[i] = CurrentAr'
          /\ \A j \in 1..Len(arWire') : ~arWire'[j].lite => i = j
    BY <1>1, <1>2, <1>3, <2>7, OtherArs
  <2>9. ArInv'
    <3> HIDE DEF NewestTaken, Got, Fetching, BeatsAsked, CurrentAr
    <3>1. dAr'.lite
      BY <1>7, <2>1
    <3> QED BY <1>1, <1>3, <2>1, <2>6, <2>7, <2>8, <3>1 DEF ReadInv, ArInv
  <2> QED BY <2>6, <2>9
<1>8. CASE dRead = "IDLE" /\ ~a.lite
  <2>1. /\ dRead' = "DRIVE_AR" /\ dAr' = CurrentAr /\ memBeats' = 0 /\ ~Fetching
        /\ rDone # nAR /\ ~NewestTaken /\ arState = "IDLE"
    BY <1>1, <1>5, <1>8 DEF Fetching
  <2>2. ~dAr'.lite /\ dAr'.id = nAR /\ nAR > 0 /\ Fetching'
    <3>1. nAR > 0
      BY <2>1, ReadTypes
    <3> QED BY <2>1, <3>1 DEF CurrentAr, Fetching
  <2>3. NewestTaken' /\ Got' = 0 /\ Got = 0
    BY <1>1, <2>1, <2>2 DEF NewestTaken, Got, Fetched
  <2>4. \A i \in 1..Len(arWire') : arWire'[i].lite
    BY <1>2, <1>5, <1>8
  <2>5. 0 < BeatsAsked
    BY <1>4, <2>2
  <2>6. ArInv'
    <3> HIDE DEF NewestTaken, Got, Fetching, BeatsAsked, CurrentAr
    <3>1. arState' # "TX_AR"
      BY <1>1, <2>1
    <3>2. nAR \in {rDone, rDone + 1} /\ rfId <= nAR /\ rTaken < BeatsAsked
      BY <2>1 DEF ReadInv, ArInv
    <3>3. dAr'.id <= nAR'
      BY <1>1, <1>4, <2>2
    <3> QED BY <1>1, <1>3, <2>1, <2>2, <2>3, <2>4, <2>5, <3>1, <3>2, <3>3 DEF ArInv
  <2> QED BY <2>3, <2>6
<1> QED BY <1>6, <1>7, <1>8

LEMMA InvDriveAR ==
  ASSUME NEW r, ReadInv(r), DriveAR
  PROVE  ArInv' /\ Got' = Got
<1>1. /\ dRead = "DRIVE_AR" /\ dRead' = "WAIT_R"
      /\ UNCHANGED <<arState, arWire, rlens, nAR, rfId, rDone, rTaken, dAr, memBeats>>
  BY DEF DriveAR, gotVars, rfVars, arVars
<1>2. (NewestTaken' <=> NewestTaken) /\ Got' = Got /\ (Fetching' <=> Fetching)
  BY <1>1 DEF NewestTaken, Got, Fetched, Fetching
<1>3. BeatsAsked' = BeatsAsked /\ CurrentAr' = CurrentAr
  BY <1>1, AskedKept
<1>4. ArInv'
  <2> HIDE DEF NewestTaken, Got, Fetching, BeatsAsked, CurrentAr
  <2> QED BY <1>1, <1>2, <1>3 DEF ReadInv, ArInv
<1> QED BY <1>2, <1>4

LEMMA InvMemoryRLite ==
  ASSUME NEW r, ReadInv(r), MemoryRLite
  PROVE  ArInv' /\ Got' = Got
<1>1. /\ dAr.lite /\ dRead' = "IDLE"
      /\ UNCHANGED <<arState, arWire, rlens, nAR, rfId, rDone, rTaken, dAr, memBeats>>
  BY DEF MemoryRLite, gotVars, rfVars, arVars
<1>2. (NewestTaken' <=> NewestTaken) /\ Got' = Got /\ ~Fetching' /\ dAr'.lite
  BY <1>1 DEF NewestTaken, Got, Fetched, Fetching
<1>3. BeatsAsked' = BeatsAsked /\ CurrentAr' = CurrentAr
  BY <1>1, AskedKept
<1>4. ArInv'
  <2> HIDE DEF NewestTaken, Got, Fetching, BeatsAsked, CurrentAr
  <2> QED BY <1>1, <1>2, <1>3 DEF ReadInv, ArInv
<1> QED BY <1>2, <1>4

-----------------------------------------------------------------------------
(* The master takes a beat: the next of the read, with rlast on its last.  *)

LEMMA BeatHandedOver ==
  ASSUME NEW r, ReadInv(r), MasterR
  PROVE  /\ rDone # nAR /\ Handed = rTaken /\ rTaken < BeatsAsked /\ rrId = nAR
         /\ HandedTo + STRB <= ArrivedTo /\ rTaken < Got
         /\ RrBeatLast <=> rTaken + 1 = BeatsAsked
         /\ RrBeatLast => HandedTo + STRB = ReadEnd /\ ArrivedTo = ReadEnd /\ Got = BeatsAsked
         /\ Handed' = rTaken + 1 /\ HandedTo' = HandedTo + STRB /\ ArrivedTo' = ArrivedTo
         /\ rTaken' = (IF RrBeatLast THEN 0 ELSE rTaken + 1)
         /\ rDone' = (IF RrBeatLast THEN nAR ELSE rDone)
<1>1. /\ rrCount >= STRB /\ rrCount' = rrCount - STRB /\ UNCHANGED <<rlens, nAR>>
      /\ rTaken' = (IF RrBeatLast THEN 0 ELSE rTaken + 1)
      /\ rDone' = (IF RrBeatLast THEN rDone + 1 ELSE rDone)
  BY DEF MasterR, TakeR, RrHaveBeat, arVars
<1>2. STRB \in Nat /\ STRB > 0 /\ rrCount \in Nat /\ rTaken \in Nat /\ nAR \in Nat /\ rDone \in Nat
  BY Constants, ReadTypes
<1>3. rDone # nAR
  BY <1>1, <1>2, CompleteReads
<1>4. /\ Handed = rTaken /\ rTaken < BeatsAsked /\ BeatsAsked \in Nat /\ Got \in Nat
      /\ nAR = rDone + 1 /\ BeatsAsked = rlens[nAR] /\ Got <= BeatsAsked
  BY <1>3, Counts, ReadTypes
<1>5. /\ HandedTo \in Int /\ ArrivedTo \in Int /\ ReadEnd \in Int /\ SentTo \in Int
      /\ FetchedTo \in Int /\ ReadStart \in Int
      /\ ArrivedTo = HandedTo + rrCount /\ ArrivedTo <= SentTo /\ SentTo <= FetchedTo
      /\ FetchedTo <= ReadEnd /\ ReadStart <= HandedTo
      /\ Got < BeatsAsked => FetchedTo + STRB <= ReadEnd
  BY ReadPositions
<1>6. rrLast <=> HandedTo < ArrivedTo /\ ArrivedTo = ReadEnd
  BY DEF ReadInv, RReceiverInv
<1>7. /\ \A b \in Int : BeatPos(b) \in Int /\ BeatPos(b + 1) = BeatPos(b) + STRB
      /\ \A b, c \in Int : b <= c => BeatPos(b) <= BeatPos(c)
      /\ \A b, c \in Int : b < c => BeatPos(b) + STRB <= BeatPos(c)
  BY <1>2, BeatPositions
<1>8. HandedTo = BeatPos(rTaken) /\ ReadEnd = BeatPos(BeatsAsked) /\ FetchedTo = BeatPos(Got)
  BY <1>4 DEF HandedTo, ReadEnd, FetchedTo
<1>9. rTaken + 1 < BeatsAsked => HandedTo + STRB + STRB <= ReadEnd
  <2> SUFFICES ASSUME rTaken + 1 < BeatsAsked PROVE HandedTo + STRB + STRB <= ReadEnd
    OBVIOUS
  <2>1. rTaken \in Int /\ rTaken + 1 \in Int /\ BeatsAsked \in Int
    BY <1>2, <1>4
  <2>2. BeatPos(rTaken + 1) = BeatPos(rTaken) + STRB
    BY <1>7, <2>1
  <2>3. BeatPos(rTaken + 1) + STRB <= BeatPos(BeatsAsked)
    BY <1>7, <2>1
  <2> QED BY <1>8, <2>2, <2>3
<1>10. rTaken + 1 = BeatsAsked => HandedTo + STRB = ReadEnd
  BY <1>2, <1>7, <1>8
<1>11. RrBeatLast <=> rTaken + 1 = BeatsAsked
  <2>1. RrBeatLast => HandedTo + STRB = ReadEnd
    BY <1>5, <1>6 DEF RrBeatLast
  <2>2. RrBeatLast => rTaken + 1 = BeatsAsked
    BY <1>2, <1>4, <1>5, <1>9, <2>1
  <2>3. rTaken + 1 = BeatsAsked => rrCount = STRB /\ ArrivedTo = ReadEnd
    BY <1>1, <1>2, <1>5, <1>10
  <2>4. rTaken + 1 = BeatsAsked => RrBeatLast
    BY <1>1, <1>2, <1>5, <1>6, <2>3 DEF RrBeatLast
  <2> QED BY <2>2, <2>4
<1>12. RrBeatLast => HandedTo + STRB = ReadEnd /\ ArrivedTo = ReadEnd /\ Got = BeatsAsked
  <2>1. RrBeatLast => ArrivedTo = ReadEnd
    BY <1>6 DEF RrBeatLast
  <2> QED BY <1>2, <1>4, <1>5, <1>10, <1>11, <2>1
<1>13. rTaken < Got
  <2> SUFFICES ASSUME Got <= rTaken PROVE FALSE
    BY <1>2, <1>4
  <2>1. FetchedTo <= HandedTo
    BY <1>2, <1>4, <1>7, <1>8
  <2> QED BY <1>1, <1>2, <1>5, <2>1
<1>14. Handed' = rTaken + 1
  <2>1. CASE RrBeatLast
    <3>1. rDone' = nAR' /\ nAR' > 0
      BY <1>1, <1>2, <1>4, <2>1
    <3> QED BY <1>1, <1>4, <1>11, <2>1, <3>1 DEF Handed
  <2>2. CASE ~RrBeatLast
    <3>1. rDone' # nAR' /\ rTaken' = rTaken + 1
      BY <1>1, <1>4, <2>2
    <3> QED BY <3>1 DEF Handed
  <2> QED BY <2>1, <2>2
<1>15. HandedTo' = HandedTo + STRB
  <2>1. HandedTo' = BeatPos(rTaken + 1)
    BY <1>1, <1>14 DEF HandedTo, BeatPos, BeatAt
  <2> QED BY <1>2, <1>7, <1>8, <2>1
<1>16. ArrivedTo' = ArrivedTo /\ HandedTo + STRB <= ArrivedTo
  BY <1>1, <1>2, <1>5, <1>15 DEF ArrivedTo
<1>17. rrId = nAR
  <2>1. ReadStart < ArrivedTo
    BY <1>2, <1>5, <1>16
  <2> QED BY <2>1 DEF ReadInv, RReceiverInv
<1> QED BY <1>1, <1>3, <1>4, <1>11, <1>12, <1>13, <1>14, <1>15, <1>16, <1>17

LEMMA InvMasterR ==
  ASSUME NEW r, ReadInv(r), ReadFits, MasterR
  PROVE  ArInv' /\ RSenderInv' /\ RWireInv(r)' /\ RReceiverInv' /\ Got' = Got
<1>1. /\ rrBuf' = ShiftDown(rrBuf, STRB) /\ rrLast' = (rrLast /\ ~RrBeatLast)
      /\ UNCHANGED <<rrInCont, rrId, rfVars, rlens, nAR, arState, arWire, dRead, dAr, memBeats>>
  BY DEF MasterR, TakeR, arVars, depRVars
<1>2. UNCHANGED <<rfState, rfId, rfBuf, rfCount, rfLast>>
  BY <1>1 DEF rfVars
<1>3. (NewestTaken' <=> NewestTaken) /\ Got' = Got /\ (Fetching' <=> Fetching)
  BY <1>1, <1>2 DEF NewestTaken, Got, Fetched, Fetching
<1>4. BeatsAsked' = BeatsAsked /\ CurrentAr' = CurrentAr /\ ReadStart' = ReadStart
      /\ ReadEnd' = ReadEnd
  BY <1>1, AskedKept
<1>5. FetchedTo' = FetchedTo /\ SentTo' = SentTo /\ ArrivedTo' = ArrivedTo
      /\ HandedTo' = HandedTo + STRB
  BY <1>1, <1>2, <1>3, PositionsKept, BeatHandedOver
<1>6. /\ rDone # nAR /\ rTaken < BeatsAsked /\ HandedTo + STRB <= ArrivedTo /\ rrId = nAR
      /\ RrBeatLast <=> rTaken + 1 = BeatsAsked
      /\ RrBeatLast => HandedTo + STRB = ReadEnd /\ ArrivedTo = ReadEnd /\ Got = BeatsAsked
      /\ rTaken' = (IF RrBeatLast THEN 0 ELSE rTaken + 1)
      /\ rDone' = (IF RrBeatLast THEN nAR ELSE rDone)
  BY BeatHandedOver
<1>7. /\ STRB \in Nat /\ STRB > 0 /\ rTaken \in Nat /\ nAR \in Nat /\ rDone \in Nat
      /\ BeatsAsked \in Nat /\ Got \in Nat /\ nAR = rDone + 1 /\ BeatsAsked > 0 /\ nAR > 0
  BY <1>6, Constants, ReadTypes, Counts
<1>8. /\ HandedTo \in Int /\ ArrivedTo \in Int /\ ReadEnd \in Int /\ SentTo \in Int
      /\ FetchedTo \in Int /\ ReadStart \in Int /\ rfCount \in Nat /\ rrCount \in Nat
      /\ ArrivedTo <= SentTo /\ SentTo + rfCount = FetchedTo /\ FetchedTo <= ReadEnd
      /\ ReadStart <= HandedTo /\ ArrivedTo = HandedTo + rrCount
  BY ReadPositions, ReadTypes
<1>9. RrBeatLast => rfState = "IDLE"
  <2> SUFFICES ASSUME RrBeatLast, rfState # "IDLE" PROVE FALSE
    OBVIOUS
  <2>1. rfCount > 0
    BY <1>6 DEF ReadInv, RSenderInv
  <2> QED BY <1>6, <1>8, <2>1
<1>10. RrBeatLast => ~Fetching /\ NewestTaken
  <2>1. RrBeatLast => ~Fetching
    BY <1>6, <1>7, ReadUnderWay
  <2>2. Got > 0 => NewestTaken
    BY DEF Got
  <2> QED BY <1>6, <1>7, <2>1, <2>2
<1>11. ArInv'
  <2> HIDE DEF NewestTaken, Got, Fetching, BeatsAsked, CurrentAr
  <2>1. CASE RrBeatLast
    <3>1. rDone' = nAR' /\ rTaken' = 0 /\ Got' = BeatsAsked'
      BY <1>1, <1>3, <1>4, <1>6, <2>1
    <3>2. \A i \in 1..Len(arWire) : arWire[i].lite
      BY <1>10, <2>1, NoArOnTheWay
    <3>3. arState # "TX_AR" /\ ~Fetching'
      BY <1>3, <1>10, <2>1, ReadUnderWay
    <3> QED BY <1>1, <1>2, <1>3, <1>4, <3>1, <3>2, <3>3 DEF ReadInv, ArInv
  <2>2. CASE ~RrBeatLast
    <3>1. rDone' = rDone /\ rTaken' < BeatsAsked'
      BY <1>4, <1>6, <1>7, <2>2
    <3> QED BY <1>1, <1>2, <1>3, <1>4, <1>6, <3>1 DEF ReadInv, ArInv
  <2> QED BY <2>1, <2>2
<1>12. RSenderInv'
  <2>1. StreamFrom(rfBuf, BufBytes, SentTo, FetchedTo)'
    BY <1>2, <1>5 DEF ReadInv, RSenderInv
  <2>2. rfState' # "IDLE" => rDone' # nAR'
    BY <1>1, <1>2, <1>6, <1>9
  <2> QED BY <1>2, <1>3, <1>4, <1>5, <2>1, <2>2 DEF ReadInv, RSenderInv
<1>13. RWireInv(r)'
  BY <1>1, <1>5, WireKept
<1>14. RReceiverInv'
  <2>1. StreamFrom(rrBuf', BufBytes, HandedTo + STRB, ArrivedTo)
    <3>1. StreamFrom(rrBuf, BufBytes, HandedTo, ArrivedTo) /\ rrBuf \in [1..BufBytes -> Byte]
      BY ReadTypes DEF ReadInv, RReceiverInv
    <3>2. ArrivedTo <= HandedTo + BufBytes
      BY <1>8, ReadSpan
    <3> QED BY <1>1, <1>7, <1>8, <3>1, <3>2, ShiftStream, Constants
  <2>2. rrLast' <=> HandedTo' < ArrivedTo' /\ ArrivedTo' = ReadEnd'
    <3>1. rrLast <=> HandedTo < ArrivedTo /\ ArrivedTo = ReadEnd
      BY DEF ReadInv, RReceiverInv
    <3>2. rrLast' <=> rrLast /\ ~RrBeatLast
      BY <1>1, Zenon
    <3>3. RrBeatLast => ~(HandedTo + STRB < ArrivedTo)
      BY <1>6, <1>7, <1>8
    <3>4. rrLast /\ ~RrBeatLast => HandedTo + STRB < ArrivedTo
      <4> SUFFICES ASSUME rrLast, ~RrBeatLast PROVE HandedTo + STRB < ArrivedTo
        OBVIOUS
      <4>1. rrCount # STRB
        BY DEF RrBeatLast
      <4> QED BY <1>6, <1>7, <1>8, <4>1
    <3>5. HandedTo + STRB < ArrivedTo => HandedTo < ArrivedTo
      BY <1>7, <1>8
    <3> QED BY <1>4, <1>5, <3>1, <3>2, <3>3, <3>4, <3>5
  <2> QED BY <1>1, <1>4, <1>5, <2>1, <2>2 DEF ReadInv, RReceiverInv
<1> QED BY <1>3, <1>11, <1>12, <1>13, <1>14

-----------------------------------------------------------------------------
(* A flit arrives: the next piece of the read.                             *)

LEMMA HeadOfRWire ==
  ASSUME NEW r, ReadInv(r), r # <<>>
  PROVE  /\ r[1] \in RFlit /\ Head(r) = r[1] /\ rDone # nAR
         /\ RFlitInv(r[1]) /\ From(r[1]) = ArrivedTo
         /\ ArrivedTo + r[1].keep <= SentTo
         /\ Len(r) \in Nat \ {0}
<1>1. Len(r) \in Nat \ {0} /\ 1 \in 1..Len(r) /\ r[1] \in RFlit
      /\ Head(r) = r[1]
  BY ReadTypes
<1>2. RFlitInv(r[1]) /\ From(r[1]) = ArrivedTo
  BY <1>1 DEF ReadInv, RWireInv
<1>3. rDone # nAR
  BY CompleteReads
<1>4. ArrivedTo + r[1].keep <= SentTo
  BY <1>2 DEF RFlitInv
<1> QED BY <1>1, <1>2, <1>3, <1>4

(* A header finds the receiver empty, a continuation flit finds it amid    *)
(* the read; the bytes that count are pushed without wrapping.             *)
LEMMA PieceArrives ==
  ASSUME NEW r, ReadInv(r), ReadFits, BeatOutgrowsHeader, PieceIn(r)
  PROVE  LET f == r[1] IN
         /\ f.op = "R" => ~rrInCont /\ ~rrLast /\ rrCount = 0 /\ ~f.tlast /\ f.id = nAR
         /\ f.op # "R" => rrInCont
         /\ rrCount' = rrCount + f.keep /\ rrCount' <= BufBytes
         /\ StreamFrom(rrBuf', BufBytes, HandedTo, ArrivedTo + f.keep)
         /\ (rrInCont' <=> ~f.tlast) /\ (rrLast' <=> f.tlast) /\ rrId' = nAR
<1> DEFINE f == r[1]
<1>1. /\ r # <<>> /\ (RxRHeader(f) \/ RxRCont(f)) /\ f \in RFlit /\ RFlitInv(f)
      /\ From(f) = ArrivedTo /\ ArrivedTo + f.keep <= SentTo /\ rDone # nAR
  <2>1. r # <<>> /\ (RxRHeader(r[1]) \/ RxRCont(r[1]))
    BY DEF PieceIn
  <2> QED BY <2>1, HeadOfRWire
<1>2. /\ f.keep \in Nat /\ f.keep > 0 /\ f.keep <= RCap(f) /\ RCap(f) \in Nat
      /\ f.data \in [1..RCap(f) -> Byte] /\ f.tlast \in BOOLEAN
  BY <1>1, RFlitTypes
<1> HIDE DEF f
<1>3. /\ f.op = "R" <=> ArrivedTo = ReadStart
      /\ f.op = "R" => f.id = nAR
      /\ f.tlast <=> ArrivedTo + f.keep = ReadEnd
      /\ StreamFrom(f.data, RCap(f), ArrivedTo, ArrivedTo + f.keep)
  BY <1>1 DEF RFlitInv
<1>4. /\ HandedTo \in Int /\ ArrivedTo \in Int /\ ReadEnd \in Int /\ SentTo \in Int
      /\ ReadStart \in Int /\ rrCount \in Nat /\ SentTo <= ReadEnd
      /\ ReadStart <= HandedTo /\ ArrivedTo = HandedTo + rrCount
      /\ ReadEnd <= ReadStart + BufBytes /\ ReadStart + STRB <= ReadEnd
      /\ BufBytes \in Nat /\ TXMOD \in Nat /\ BufBytes < TXMOD /\ STRB \in Nat /\ RHDR \in Nat
      /\ rrBuf \in [1..BufBytes -> Byte]
  <2>1. /\ HandedTo \in Int /\ ArrivedTo \in Int /\ ReadEnd \in Int /\ SentTo \in Int
        /\ ReadStart \in Int /\ SentTo <= ReadEnd
        /\ ReadStart <= HandedTo /\ ArrivedTo = HandedTo + rrCount /\ ReadStart + STRB <= ReadEnd
    BY <1>1, ReadPositions
  <2>2. ReadEnd <= ReadStart + BufBytes
    BY ReadSpan
  <2> QED BY <2>1, <2>2, ReadTypes, Constants
<1>5. /\ rrInCont <=> ReadStart < ArrivedTo /\ ArrivedTo < ReadEnd
      /\ rrLast <=> HandedTo < ArrivedTo /\ ArrivedTo = ReadEnd
      /\ ReadStart < ArrivedTo => rrId = nAR
      /\ StreamFrom(rrBuf, BufBytes, HandedTo, HandedTo + rrCount)
  BY <1>4 DEF ReadInv, RReceiverInv
<1>6. ~rrLast /\ rrCount + f.keep <= BufBytes
  BY <1>1, <1>2, <1>4, <1>5
<1>7. CASE f.op = "R"
  <2>1. rrCount = 0 /\ ~rrInCont /\ HandedTo = ArrivedTo
    BY <1>3, <1>4, <1>5, <1>7
  <2>2. ~f.tlast
    <3>1. RCap(f) = RHDR
      BY <1>7 DEF RCap
    <3>2. ArrivedTo + f.keep < ReadEnd
      BY <1>2, <1>3, <1>4, <1>7, <3>1 DEF BeatOutgrowsHeader
    <3> QED BY <1>3, <1>2, <1>4, <3>2
  <2>3. /\ RxRHeader(f) /\ (rrInCont' <=> ~f.tlast) /\ ~rrLast' /\ rrId' = nAR
        /\ rrBuf' = OrAt(ZeroBytes(BufBytes), 0, f.data) /\ rrCount' = f.keep
    BY <1>1, <1>3, <1>7, <2>1 DEF RxRHeader, RxRCont
  <2>4. StreamFrom(rrBuf', BufBytes, HandedTo, ArrivedTo + f.keep)
    <3> DEFINE p == HandedTo
               e == ArrivedTo + f.keep
               m == RCap(f)
               z == ZeroBytes(BufBytes)
    <3>1. z \in [1..BufBytes -> Byte] /\ f.data \in [1..m -> Byte] /\ m \in Nat
      BY <1>2, <1>4, ZeroBytesType
    <3>2. StreamFrom(z, BufBytes, p, p + 0)
      BY <1>4 DEF StreamFrom, ZeroBytes
    <3>3. StreamFrom(f.data, m, p + 0, e) /\ p + 0 <= e /\ e <= p + 0 + m
      BY <1>2, <1>3, <1>4, <2>1
    <3>4. p \in Int /\ e \in Int /\ 0 \in Nat /\ BufBytes \in Nat
      BY <1>2, <1>4
    <3> HIDE DEF p, e, m, z
    <3>5. StreamFrom(OrAt(z, 0, f.data), BufBytes, p, e)
      BY <3>1, <3>2, <3>3, <3>4, OrAtStream
    <3> QED BY <2>3, <3>5 DEF z, p, e
  <2> QED BY <1>2, <1>3, <1>4, <1>6, <1>7, <2>1, <2>2, <2>3, <2>4 DEF f
<1>8. CASE f.op # "R"
  <2>1. RxRCont(f) /\ rrInCont
    BY <1>1, <1>8 DEF RxRHeader, RxRCont
  <2>2. /\ (rrInCont' <=> ~f.tlast) /\ (rrLast' <=> rrLast \/ f.tlast) /\ rrId' = rrId
        /\ rrBuf' = OrAt(rrBuf, rrCount, f.data) /\ rrCount' = (rrCount + f.keep) % TXMOD
    BY <2>1 DEF RxRCont
  <2>3. (rrCount + f.keep) % TXMOD = rrCount + f.keep
    <3>1. rrCount + f.keep \in Nat /\ rrCount + f.keep < TXMOD
      BY <1>2, <1>4, <1>6
    <3> QED BY <1>4, <3>1, NoCarry
  <2>4. StreamFrom(rrBuf', BufBytes, HandedTo, ArrivedTo + f.keep)
    <3> DEFINE p == HandedTo
               e == ArrivedTo + f.keep
               m == RCap(f)
    <3>1. f.data \in [1..m -> Byte] /\ m \in Nat /\ p \in Int /\ e \in Int
      BY <1>2, <1>4
    <3>2. StreamFrom(f.data, m, p + rrCount, e) /\ p + rrCount <= e /\ e <= p + rrCount + m
      BY <1>2, <1>3, <1>4
    <3>3. StreamFrom(rrBuf, BufBytes, p, p + rrCount)
      BY <1>5
    <3> HIDE DEF p, e, m
    <3>4. StreamFrom(OrAt(rrBuf, rrCount, f.data), BufBytes, p, e)
      BY <1>4, <3>1, <3>2, <3>3, OrAtStream
    <3> QED BY <2>2, <3>4 DEF p, e
  <2>5. rrId' = nAR
    BY <1>5, <2>1, <2>2
  <2> QED BY <1>6, <1>8, <2>1, <2>2, <2>3, <2>4, <2>5 DEF f
<1> QED BY <1>7, <1>8

LEMMA InvPieceIn ==
  ASSUME NEW r, NEW r2, ReadInv(r), ReadFits, BeatOutgrowsHeader, PieceIn(r), r2 = Tail(r)
  PROVE  ArInv' /\ RSenderInv' /\ RWireInv(r2)' /\ RReceiverInv' /\ Got' = Got
<1> DEFINE f == r[1]
           L == Len(r)
<1>1. /\ r # <<>> /\ r2 = Tail(r)
      /\ UNCHANGED <<rfVars, rlens, nAR, rDone, rTaken, arState, arWire, dRead, dAr, memBeats>>
  BY DEF PieceIn, arVars, gotVars, depRVars
<1>2. UNCHANGED <<rfId, rfCount>>
  BY <1>1 DEF rfVars
<1>3. ArInv' /\ Got' = Got
  BY <1>1, <1>2, RequestsKept
<1>4. RSenderInv'
  BY <1>1, <1>3, SenderKept
<1>5. /\ SentTo' = SentTo /\ HandedTo' = HandedTo /\ ReadStart' = ReadStart /\ ReadEnd' = ReadEnd
  BY <1>1, <1>2, <1>3, AskedKept, PositionsKept
<1>6. /\ rrCount' = rrCount + f.keep
      /\ StreamFrom(rrBuf', BufBytes, HandedTo, ArrivedTo + f.keep)
      /\ (rrInCont' <=> ~f.tlast) /\ (rrLast' <=> f.tlast) /\ rrId' = nAR
  BY PieceArrives
<1>7. /\ f \in RFlit /\ RFlitInv(f) /\ From(f) = ArrivedTo /\ ArrivedTo + f.keep <= SentTo
      /\ L \in Nat \ {0} /\ f.keep \in Nat /\ f.keep > 0
  BY <1>1, HeadOfRWire, RFlitTypes
<1>8. /\ HandedTo \in Int /\ ArrivedTo \in Int /\ ReadEnd \in Int /\ SentTo \in Int
      /\ ReadStart \in Int /\ rrCount \in Nat /\ SentTo <= ReadEnd
      /\ ReadStart <= HandedTo /\ ArrivedTo = HandedTo + rrCount
  BY ReadPositions, ReadTypes, SMTT(20)
<1>9. ArrivedTo' = ArrivedTo + f.keep
  BY <1>5, <1>6, <1>7, <1>8 DEF ArrivedTo
<1>10. /\ Len(r2) = L - 1 /\ (r2 = <<>> <=> L = 1)
       /\ \A i \in 1..(L - 1) : r2[i] = r[i + 1] /\ i + 1 \in 1..L
  <2>1. r \in Seq(RFlit)
    BY ReadTypes
  <2>2. Len(Tail(r)) = L - 1 /\ Tail(r) \in Seq(RFlit)
    BY <1>1, <2>1
  <2>3. \A i \in 1..(L - 1) : Tail(r)[i] = r[i + 1]
    BY <1>1, <2>1
  <2>4. Tail(r) = <<>> <=> Len(Tail(r)) = 0
    BY <2>2, EmptySeq
  <2> QED BY <1>1, <1>7, <2>2, <2>3, <2>4
<1>13. r2 \in Seq(RFlit)
  BY <1>1, ReadTypes
<1>11. RReceiverInv'
  <2>1. f.tlast <=> ArrivedTo + f.keep = ReadEnd
    BY <1>7 DEF RFlitInv
  <2>2. /\ ArrivedTo' <= SentTo' /\ ReadStart' < ArrivedTo' /\ HandedTo' < ArrivedTo'
        /\ ArrivedTo' <= ReadEnd'
    BY <1>5, <1>7, <1>8, <1>9
  <2>3. StreamFrom(rrBuf, BufBytes, HandedTo, ArrivedTo)'
    BY <1>5, <1>6, <1>9
  <2>4. rrInCont' <=> ReadStart' < ArrivedTo' /\ ArrivedTo' < ReadEnd'
    BY <1>5, <1>6, <1>7, <1>8, <1>9, <2>1, <2>2
  <2> QED BY <1>1, <1>5, <1>6, <1>9, <2>1, <2>2, <2>3, <2>4 DEF RReceiverInv
<1> HIDE DEF f, L
<1>12. RWireInv(r2)'
  <2>1. /\ \A i \in 1..L : RFlitInv(r[i])
        /\ \A i \in 1..(L - 1) : From(r[i + 1]) = From(r[i]) + r[i].keep
        /\ \A i, j \in 1..L : i < j => From(r[i]) + r[i].keep <= From(r[j])
        /\ SentTo = From(r[L]) + r[L].keep
    BY <1>1 DEF ReadInv, RWireInv, L
  <2>2. \A i \in 1..(L - 1) : RFlitInv(r2[i])'
    <3> SUFFICES ASSUME NEW i \in 1..(L - 1) PROVE RFlitInv(r2[i])'
      OBVIOUS
    <3>1. i + 1 \in 1..L /\ r2[i] = r[i + 1] /\ RFlitInv(r[i + 1])
      BY <1>10, <2>1
    <3>2. ArrivedTo + f.keep <= From(r[i + 1])
      <4>1. 1 \in 1..L /\ 1 < i + 1
        BY <1>7
      <4>2. From(r[1]) + r[1].keep <= From(r[i + 1])
        BY <2>1, <3>1, <4>1
      <4> QED BY <1>7, <4>2 DEF f
    <3> QED BY <1>1, <1>5, <1>9, <3>1, <3>2 DEF RFlitInv
  <2>3. \A i \in 1..((L - 1) - 1) : From(r2[i + 1]) = From(r2[i]) + r2[i].keep
    <3> SUFFICES ASSUME NEW i \in 1..((L - 1) - 1)
                 PROVE  From(r2[i + 1]) = From(r2[i]) + r2[i].keep
      OBVIOUS
    <3>1. /\ i + 1 \in 1..(L - 1) /\ i \in 1..(L - 1)
          /\ r2[i] = r[i + 1] /\ r2[i + 1] = r[(i + 1) + 1]
      BY <1>7, <1>10
    <3> QED BY <2>1, <3>1
  <2>4. \A i, j \in 1..(L - 1) :
          i < j => From(r2[i]) + r2[i].keep <= From(r2[j])
    <3> SUFFICES ASSUME NEW i \in 1..(L - 1), NEW j \in 1..(L - 1), i < j
                 PROVE  From(r2[i]) + r2[i].keep <= From(r2[j])
      OBVIOUS
    <3>1. /\ i + 1 \in 1..L /\ j + 1 \in 1..L /\ i + 1 < j + 1
          /\ r2[i] = r[i + 1] /\ r2[j] = r[j + 1]
      BY <1>10
    <3> QED BY <2>1, <3>1
  <2>5. CASE L = 1
    <3>1. r2 = <<>> /\ Len(r2) = 0
      BY <1>10, <2>5
    <3>2. ArrivedTo' = SentTo'
      BY <1>5, <1>7, <1>9, <2>1, <2>5 DEF f
    <3>3. /\ Len(r2)' = Len(r2) /\ \A i \in 1..Len(r2) : FALSE
          /\ \A i \in 1..(Len(r2) - 1) : FALSE
      BY <3>1
    <3> QED BY <1>13, <3>1, <3>2, <3>3 DEF RWireInv
  <2>6. CASE L # 1
    <3>1. 1 \in 1..(L - 1) /\ L - 1 \in 1..(L - 1) /\ (L - 1) + 1 = L /\ r2 # <<>>
      BY <1>7, <1>10, <2>6
    <3>2. r2[1] = r[1 + 1] /\ r2[L - 1] = r[L]
      BY <1>10, <3>1
    <3>3. ArrivedTo' = From(r2[1])
      BY <1>7, <1>9, <2>1, <3>1, <3>2 DEF f
    <3>4. SentTo' = From(r2[L - 1]) + r2[L - 1].keep
      BY <1>5, <2>1, <3>2
    <3> QED BY <1>10, <1>13, <2>2, <2>3, <2>4, <3>1, <3>3, <3>4 DEF RWireInv
  <2> QED BY <2>5, <2>6
<1> QED BY <1>3, <1>4, <1>11, <1>12

-----------------------------------------------------------------------------
(* The far end: the memory returns beats, the sender cuts them into flits. *)

(* The next beat is the next piece of the read, and there is room for it.  *)
LEMMA BeatReturned ==
  ASSUME NEW r, ReadInv(r), ReadFits, MemoryReturns
  PROVE  /\ Fetching /\ dAr.id = nAR /\ nAR > 0 /\ Got = memBeats /\ Got < BeatsAsked /\ ~rfLast
         /\ rDone # nAR /\ (MemBeatLast <=> Got + 1 = BeatsAsked)
         /\ StreamFrom(MemBeat, STRB, FetchedTo, FetchedTo + STRB)
         /\ FetchedTo + STRB <= SentTo + BufBytes
         /\ rfCount + STRB < TXMOD /\ rfCount + STRB \in Nat
<1>1. /\ Fetching /\ dAr.id = nAR /\ nAR > 0 /\ Got = memBeats /\ Got < BeatsAsked
      /\ dAr.len = BeatsAsked /\ rDone # nAR /\ nAR \in Nat /\ Got \in Nat /\ BeatsAsked \in Nat
  <2>1. Fetching
    BY DEF MemoryReturns, Fetching
  <2> QED BY <2>1, ReadUnderWay, Counts
<1>2. ~rfLast
  <2>1. rfState = "IDLE" => ~rfLast
    BY DEF ReadInv, RSenderInv
  <2>2. rfState # "IDLE" => ~rfLast
    BY <1>1 DEF ReadInv, RSenderInv
  <2> QED BY <2>1, <2>2
<1>3. MemBeatLast <=> Got + 1 = BeatsAsked
  BY <1>1 DEF MemBeatLast
<1>4. FetchedTo \in Int /\ SentTo \in Int /\ ReadEnd \in Int /\ ReadStart \in Int
      /\ FetchedTo + STRB <= ReadEnd /\ FetchedTo = SentTo + rfCount /\ rfCount \in Nat
      /\ ReadEnd <= ReadStart + BufBytes /\ ReadStart <= SentTo /\ BufBytes < TXMOD
      /\ BufBytes \in Nat /\ TXMOD \in Nat /\ STRB \in Nat
  <2>1. /\ FetchedTo \in Int /\ SentTo \in Int /\ ReadEnd \in Int /\ ReadStart \in Int
        /\ HandedTo \in Int /\ ArrivedTo \in Int
        /\ FetchedTo + STRB <= ReadEnd /\ FetchedTo = SentTo + rfCount
        /\ ReadStart <= HandedTo /\ HandedTo <= ArrivedTo /\ ArrivedTo <= SentTo
    BY <1>1, ReadPositions
  <2>2. ReadStart <= SentTo
    BY <2>1
  <2> QED BY <2>1, <2>2, ReadSpan, ReadTypes, Constants
<1>5. StreamFrom(MemBeat, STRB, FetchedTo, FetchedTo + STRB)
  <2>1. MemBeat = [i \in 1..STRB |-> FetchedTo + i]
    <3>1. (memBeats + 1) - 1 = Got
      BY <1>1
    <3> QED BY <1>1, <3>1 DEF MemBeat, ReadBeat, FetchedTo, BeatPos, BeatAt
  <2> DEFINE p == FetchedTo
  <2>2. p \in Int
    BY <1>4
  <2> HIDE DEF p
  <2>3. MemBeat = [i \in 1..STRB |-> p + i]
    BY <2>1 DEF p
  <2>4. StreamFrom(MemBeat, STRB, p, p + STRB)
    BY <1>4, <2>2, <2>3 DEF StreamFrom
  <2> QED BY <2>4 DEF p
<1>6. rfCount + STRB < TXMOD /\ rfCount + STRB \in Nat /\ FetchedTo + STRB <= SentTo + BufBytes
  BY <1>4
<1> QED BY <1>1, <1>2, <1>3, <1>5, <1>6

(* What the memory's return does to the request.                           *)
LEMMA RequestFetched ==
  ASSUME NEW r, ReadInv(r), ReadFits, MemoryReturns, rfId' = nAR,
         UNCHANGED <<nAR, rlens, rDone, rTaken, arState, arWire>>
  PROVE  ArInv' /\ Got' = Got + 1
<1>1. /\ dRead = "WAIT_R" /\ ~dAr.lite /\ memBeats' = memBeats + 1 /\ dAr' = dAr
      /\ dRead' = IF MemBeatLast THEN "IDLE" ELSE "WAIT_R"
  BY DEF MemoryReturns
<1>2. /\ Fetching /\ dAr.id = nAR /\ nAR > 0 /\ Got = memBeats /\ Got < BeatsAsked
      /\ (MemBeatLast <=> Got + 1 = BeatsAsked) /\ rDone # nAR
  BY BeatReturned
<1>3. NewestTaken /\ NewestTaken' /\ Got' = Got + 1
  BY <1>1, <1>2 DEF NewestTaken, Got, Fetched
<1>4. BeatsAsked' = BeatsAsked /\ CurrentAr' = CurrentAr
  BY AskedKept
<1>5. Fetching' <=> ~MemBeatLast
  BY <1>1 DEF Fetching
<1>6. \A i \in 1..Len(arWire) : arWire[i].lite
  BY <1>3, NoArOnTheWay
<1>7. arState # "TX_AR" /\ dAr = CurrentAr /\ nAR \in Nat /\ Got \in Nat /\ BeatsAsked \in Nat
  BY <1>2, <1>3, ReadUnderWay, Counts, ReadTypes DEF ReadInv, ArInv
<1>8. ArInv'
  <2> HIDE DEF NewestTaken, Got, Fetching, BeatsAsked, CurrentAr, MemBeatLast
  <2>1. nAR \in {rDone, rDone + 1} /\ rTaken < BeatsAsked
    BY <1>2 DEF ReadInv, ArInv
  <2>2. Fetching' => memBeats' < BeatsAsked' /\ dAr' = CurrentAr' /\ dRead' # "DRIVE_AR"
    BY <1>1, <1>2, <1>4, <1>5, <1>7
  <2>3. ~Fetching' => memBeats' = BeatsAsked'
    BY <1>1, <1>2, <1>4, <1>5
  <2>4. rfId' <= nAR' /\ dAr'.id <= nAR'
    BY <1>1, <1>2, <1>7
  <2>5. rDone' # nAR' /\ arState' # "TX_AR"
    BY <1>2, <1>7
  <2> QED BY <1>1, <1>4, <1>6, <2>1, <2>2, <2>3, <2>4, <2>5 DEF ArInv
<1> QED BY <1>3, <1>8

LEMMA InvMemoryR ==
  ASSUME NEW r, ReadInv(r), ReadFits, MemoryR
  PROVE  ArInv' /\ RSenderInv' /\ RWireInv(r)' /\ RReceiverInv' /\ Got' = Got + 1
<1>1. /\ MemoryReturns /\ RfPush(dAr.id, MemBeat, MemBeatLast)
      /\ UNCHANGED <<rrVars, rlens, nAR, rDone, rTaken, arState, arWire>>
  BY DEF MemoryR, arVars, gotVars
<1>2. /\ rfState' = (IF rfState = "IDLE" THEN "TX_HDR" ELSE rfState)
      /\ rfId' = (IF rfState = "IDLE" THEN dAr.id ELSE rfId)
      /\ rfBuf' = OrAt(rfBuf, rfCount, MemBeat)
      /\ rfCount' = (rfCount + STRB) % TXMOD
      /\ rfLast' = (rfLast \/ MemBeatLast)
  BY <1>1 DEF RfPush
<1>3. /\ Fetching /\ dAr.id = nAR /\ nAR > 0 /\ Got = memBeats /\ Got < BeatsAsked /\ ~rfLast
      /\ rDone # nAR /\ (MemBeatLast <=> Got + 1 = BeatsAsked)
      /\ StreamFrom(MemBeat, STRB, FetchedTo, FetchedTo + STRB)
      /\ FetchedTo + STRB <= SentTo + BufBytes
      /\ rfCount + STRB < TXMOD /\ rfCount + STRB \in Nat
  BY <1>1, BeatReturned
<1>4. /\ FetchedTo \in Int /\ SentTo \in Int /\ FetchedTo = SentTo + rfCount /\ rfCount \in Nat
      /\ Got \in Nat /\ BeatsAsked \in Nat /\ nAR \in Nat /\ STRB \in Nat /\ STRB > 0
      /\ BufBytes \in Nat /\ TXMOD \in Nat /\ ReadStart \in Int /\ ReadStart <= SentTo
      /\ rfBuf \in [1..BufBytes -> Byte] /\ MemBeat \in [1..STRB -> Byte]
      /\ rfState \in {"IDLE", "TX_HDR", "TX_CONT"}
  <2>1. /\ FetchedTo \in Int /\ SentTo \in Int /\ FetchedTo = SentTo + rfCount
        /\ HandedTo \in Int /\ ArrivedTo \in Int /\ ReadStart \in Int
        /\ ReadStart <= HandedTo /\ HandedTo <= ArrivedTo /\ ArrivedTo <= SentTo
    BY ReadPositions
  <2>2. ReadStart <= SentTo
    BY <2>1
  <2> QED BY <1>1, <2>1, <2>2, ReadTypes, Counts, Constants, MemBeatTypes
<1>5. rfCount' = rfCount + STRB
  BY <1>2, <1>3, <1>4, NoCarry
<1>6. rfState # "IDLE" => rfId = nAR /\ Got > 0
  BY DEF ReadInv, RSenderInv, ArInv
<1>7. rfId' = nAR
  BY <1>2, <1>3, <1>6
<1>8. ArInv' /\ Got' = Got + 1
  BY <1>1, <1>7, RequestFetched
<1>9. FetchedTo' = FetchedTo + STRB
  BY <1>1, <1>4, <1>8, NextFetched
<1>10. SentTo' = SentTo
  BY <1>4, <1>5, <1>9 DEF SentTo
<1>11. RSenderInv'
  <2>1. StreamFrom(OrAt(rfBuf, rfCount, MemBeat), BufBytes, SentTo, FetchedTo + STRB)
    <3> DEFINE p == SentTo
               e == FetchedTo + STRB
    <3>1. StreamFrom(rfBuf, BufBytes, p, p + rfCount)
      BY <1>4 DEF ReadInv, RSenderInv
    <3>2. StreamFrom(MemBeat, STRB, p + rfCount, e) /\ p + rfCount <= e
          /\ e <= p + rfCount + STRB /\ p \in Int /\ e \in Int
      BY <1>3, <1>4
    <3> HIDE DEF p, e
    <3>3. StreamFrom(OrAt(rfBuf, rfCount, MemBeat), BufBytes, p, e)
      BY <1>4, <3>1, <3>2, OrAtStream
    <3> QED BY <3>3 DEF p, e
  <2>2. rfCount' <= BufBytes /\ rfCount' > 0
    BY <1>3, <1>4, <1>5
  <2>3. rfState' \in {"TX_HDR", "TX_CONT"} /\ (rfState' = "TX_CONT" => rfState = "TX_CONT")
        /\ (rfState' = "TX_HDR" => rfState \in {"IDLE", "TX_HDR"})
    BY <1>2, <1>4
  <2>4. rfState \in {"IDLE", "TX_HDR"} => SentTo = ReadStart
    <3>1. rfState = "TX_HDR" => SentTo = ReadStart
      BY DEF ReadInv, RSenderInv
    <3>2. rfState = "IDLE" => rfCount = 0 /\ Got = 0
      <4>1. rfState = "IDLE" => rfCount = 0 /\ Got \in {0, BeatsAsked}
        BY DEF ReadInv, RSenderInv
      <4> QED BY <1>3, <1>4, <4>1
    <3>3. Got = 0 => FetchedTo = ReadStart
      BY DEF FetchedTo, ReadStart
    <3> QED BY <1>4, <3>1, <3>2, <3>3
  <2>5. rfState = "TX_CONT" => SentTo > ReadStart
    BY DEF ReadInv, RSenderInv
  <2>6. rfLast' <=> Got' = BeatsAsked'
    <3>1. rfLast' <=> MemBeatLast
      BY <1>2, <1>3, Zenon
    <3> QED BY <1>1, <1>3, <1>8, <3>1, AskedKept
  <2>7. ReadStart' = ReadStart
    BY <1>1, AskedKept
  <2> QED BY <1>1, <1>2, <1>3, <1>4, <1>8, <1>9, <1>10, <2>1, <2>2, <2>3, <2>4, <2>5, <2>6, <2>7
          DEF RSenderInv
<1>12. ArrivedTo' = ArrivedTo
  BY <1>1, PositionsKept DEF rrVars
<1>13. RWireInv(r)'
  BY <1>1, <1>10, <1>12, WireKept
<1>14. RReceiverInv'
  BY <1>1, <1>4, <1>10, ReceiverKept
<1> QED BY <1>8, <1>11, <1>13, <1>14

(* The flit that leaves is the next piece of the read.                     *)
LEMMA FlitLeaves ==
  ASSUME NEW r, ReadInv(r), ReadFits, BeatOutgrowsHeader, RfEmitReady
  PROVE  /\ RfFlit \in RFlit /\ RfFlit.keep = RfEmitN /\ From(RfFlit) = SentTo
         /\ RfEmitN \in Nat /\ RfEmitN > 0 /\ RfEmitN <= rfCount
         /\ Got > 0 /\ rfId = nAR /\ rDone # nAR /\ rfState \in {"TX_HDR", "TX_CONT"}
         /\ (RfIsFinal <=> SentTo + RfEmitN = ReadEnd)
         /\ RfFlit.op = "R" <=> SentTo = ReadStart
         /\ RfFlit.op = "R" => RfFlit.id = nAR
         /\ RfFlit.tlast <=> SentTo + RfEmitN = ReadEnd
         /\ StreamFrom(RfFlit.data, RCap(RfFlit), SentTo, SentTo + RfEmitN)
         /\ StreamFrom(ShiftDown(rfBuf, RfEmitN), BufBytes, SentTo + RfEmitN, FetchedTo)
<1> DEFINE n == RfEmitN
           f == RfFlit
<1>1. /\ n \in 1..RfCap /\ n <= rfCount /\ f \in RFlit /\ f.keep = n /\ (f.tlast <=> RfIsFinal)
      /\ f.data = Low(rfBuf, RfCap) /\ RCap(f) = RfCap
      /\ (f.op = "R" <=> rfState = "TX_HDR") /\ (f.op = "R" => f.id = rfId)
  BY RSenderTypes DEF ReadInv, ReadPortTypes
<1>2. rfState \in {"TX_HDR", "TX_CONT"}
  BY DEF RfEmitReady, RfActive
<1>3. /\ Got > 0 /\ rDone # nAR /\ (rfLast <=> Got = BeatsAsked) /\ rfId = nAR
      /\ (rfState = "TX_HDR" => SentTo = ReadStart) /\ (rfState = "TX_CONT" => SentTo > ReadStart)
      /\ StreamFrom(rfBuf, BufBytes, SentTo, FetchedTo) /\ rfCount <= BufBytes
  BY <1>2 DEF ReadInv, RSenderInv, ArInv
<1>4. /\ FetchedTo \in Int /\ SentTo \in Int /\ FetchedTo = SentTo + rfCount /\ rfCount \in Nat
      /\ ReadEnd \in Int /\ ReadStart \in Int /\ FetchedTo <= ReadEnd
      /\ Got < BeatsAsked => FetchedTo + STRB <= ReadEnd
      /\ Got = BeatsAsked => FetchedTo = ReadEnd
      /\ Got \in Nat /\ BeatsAsked \in Nat /\ Got <= BeatsAsked
      /\ BufBytes \in Nat /\ STRB \in Nat /\ STRB > 0 /\ rfBuf \in [1..BufBytes -> Byte]
  BY ReadPositions, ReadTypes, Counts, Constants
<1>5. RfCap \in Nat /\ RfCap > 0 /\ n \in Nat /\ n > 0 /\ n <= RfCap
  <2>1. RfCap \in Nat /\ RfCap > 0
    BY Constants DEF RfCap
  <2> HIDE DEF n
  <2> QED BY <1>1, <2>1
<1>6. RfIsFinal <=> SentTo + n = ReadEnd
  <2>1. RfIsFinal <=> Got = BeatsAsked /\ rfCount = n
    BY <1>3 DEF RfIsFinal
  <2> HIDE DEF n
  <2> QED BY <1>1, <1>4, <1>5, <2>1
<1>7. StreamFrom(f.data, RfCap, SentTo, FetchedTo)
  <2>1. FetchedTo <= SentTo + BufBytes
    BY <1>3, <1>4
  <2> QED BY <1>1, <1>3, <1>4, <1>5, <2>1, LowStream
<1>8. StreamFrom(f.data, RfCap, SentTo, SentTo + n)
  <2> DEFINE p == SentTo
             e == FetchedTo
             q == SentTo + n
  <2>1. p \in Int /\ e \in Int /\ q \in Int
    BY <1>4, <1>5
  <2>2. e = q \/ (p + RfCap <= e /\ p + RfCap <= q)
    <3>1. n = rfCount \/ n = RfCap
      BY DEF RfEmitN, Least
    <3> HIDE DEF n
    <3> QED BY <1>1, <1>4, <1>5, <3>1
  <2>3. StreamFrom(f.data, RfCap, p, e)
    BY <1>7
  <2> HIDE DEF p, e, q
  <2>4. StreamFrom(f.data, RfCap, p, q)
    BY <1>5, <2>1, <2>2, <2>3, Restream
  <2> QED BY <2>4 DEF p, q
<1>9. From(f) = SentTo
  <2>1. f.data[1] = SentTo + 1
    <3> DEFINE p == SentTo
               q == SentTo + n
    <3>1. StreamFrom(f.data, RfCap, p, q) /\ 1 \in 1..RfCap /\ p + 1 <= q
      BY <1>4, <1>5, <1>8
    <3> HIDE DEF p, q
    <3>2. f.data[1] = p + 1
      BY <3>1 DEF StreamFrom
    <3> QED BY <3>2 DEF p
  <2> QED BY <1>4, <2>1 DEF From
<1>10. StreamFrom(ShiftDown(rfBuf, n), BufBytes, SentTo + n, FetchedTo)
  <2>1. FetchedTo <= SentTo + BufBytes
    BY <1>3, <1>4
  <2> HIDE DEF n
  <2> QED BY <1>3, <1>4, <1>5, <2>1, ShiftStream
<1>11. f.op = "R" <=> SentTo = ReadStart
  BY <1>1, <1>2, <1>3, <1>4
<1> QED BY <1>1, <1>2, <1>3, <1>5, <1>6, <1>8, <1>9, <1>10, <1>11

LEMMA AppendedFlit ==
  ASSUME NEW w \in Seq(RFlit), NEW g \in RFlit
  PROVE  /\ Len(Append(w, g)) = Len(w) + 1 /\ Append(w, g)[Len(w) + 1] = g
         /\ \A i \in 1..Len(w) : Append(w, g)[i] = w[i]
         /\ Append(w, g) # <<>> /\ (w = <<>> <=> Len(w) = 0)
OBVIOUS

LEMMA WireGrows ==
  ASSUME NEW r, NEW r2, ReadInv(r), ReadFits, BeatOutgrowsHeader, RfEmitReady,
         SentTo' = SentTo + RfEmitN, ArrivedTo' = ArrivedTo, UNCHANGED <<nAR, rlens>>,
         r2 = Append(r, RfFlit)
  PROVE  RWireInv(r2)'
<1> DEFINE f == RfFlit
           n == Len(r)
<1>1. /\ f \in RFlit /\ f.keep = RfEmitN /\ From(f) = SentTo /\ RfEmitN \in Nat /\ RfEmitN > 0
      /\ f.op = "R" <=> SentTo = ReadStart
      /\ f.op = "R" => f.id = nAR
      /\ f.tlast <=> SentTo + f.keep = ReadEnd
      /\ StreamFrom(f.data, RCap(f), SentTo, SentTo + f.keep)
  BY FlitLeaves
<1>2. r \in Seq(RFlit) /\ n \in Nat
  BY ReadTypes
<1>3. /\ Len(r2) = n + 1 /\ r2[n + 1] = f
      /\ \A i \in 1..n : r2[i] = r[i]
      /\ r2 # <<>> /\ (r = <<>> <=> n = 0)
  BY <1>1, <1>2, AppendedFlit
<1>4. ReadStart' = ReadStart /\ ReadEnd' = ReadEnd
  BY AskedKept
<1>5. SentTo \in Int /\ ArrivedTo \in Int /\ ArrivedTo <= SentTo
  BY ReadPositions
<1>6. /\ \A i \in 1..n : RFlitInv(r[i])
      /\ \A i \in 1..(n - 1) : From(r[i + 1]) = From(r[i]) + r[i].keep
      /\ \A i, j \in 1..n : i < j => From(r[i]) + r[i].keep <= From(r[j])
      /\ n # 0 => /\ SentTo = From(r[n]) + r[n].keep
                  /\ ArrivedTo = From(r[1])
      /\ n = 0 => ArrivedTo = SentTo
  BY <1>3 DEF ReadInv, RWireInv
<1> HIDE DEF f, n
<1>14. n \in Nat
  BY <1>2 DEF n
<1>7. \A i \in 1..n : r[i] \in RFlit /\ From(r[i]) \in Int /\ r[i].keep \in Nat
  BY <1>2, RFlitTypes DEF n
<1>8. \A i \in 1..(n + 1) : RFlitInv(r2[i])'
  <2> SUFFICES ASSUME NEW i \in 1..(n + 1) PROVE RFlitInv(r2[i])'
    OBVIOUS
  <2>1. CASE i \in 1..n
    <3>1. RFlitInv(r[i]) /\ r2[i] = r[i]
      BY <1>3, <1>6, <2>1
    <3>2. From(r[i]) + r[i].keep <= SentTo
      BY <3>1 DEF RFlitInv
    <3>3. From(r[i]) + r[i].keep <= SentTo'
      BY <1>1, <1>5, <1>7, <2>1, <3>2
    <3> QED BY <1>4, <3>1, <3>3 DEF RFlitInv
  <2>2. CASE i = n + 1
    <3>1. r2[i] = f
      BY <1>3, <2>2
    <3>2. From(f) + f.keep = SentTo' /\ ArrivedTo' <= From(f) /\ From(f) + f.keep <= SentTo'
      BY <1>1, <1>5
    <3> QED BY <1>1, <1>4, <3>1, <3>2 DEF RFlitInv
  <2>3. i \in 1..n \/ i = n + 1
    BY <1>14
  <2> QED BY <2>1, <2>2, <2>3
<1>9. \A i \in 1..n : From(r2[i + 1]) = From(r2[i]) + r2[i].keep
  <2> SUFFICES ASSUME NEW i \in 1..n
               PROVE  From(r2[i + 1]) = From(r2[i]) + r2[i].keep
    OBVIOUS
  <2>1. CASE i \in 1..(n - 1)
    <3>1. i + 1 \in 1..n /\ r2[i] = r[i] /\ r2[i + 1] = r[i + 1]
      BY <1>2, <1>3, <2>1
    <3> QED BY <1>6, <2>1, <3>1
  <2>2. CASE i = n
    <3>1. r2[i] = r[n] /\ r2[i + 1] = f /\ n # 0
      BY <1>2, <1>3, <2>2
    <3> QED BY <1>1, <1>6, <3>1
  <2>3. i \in 1..(n - 1) \/ i = n
    BY <1>14
  <2> QED BY <2>1, <2>2, <2>3
<1>10. \A i, j \in 1..(n + 1) :
         i < j => From(r2[i]) + r2[i].keep <= From(r2[j])
  <2> SUFFICES ASSUME NEW i \in 1..(n + 1), NEW j \in 1..(n + 1), i < j
               PROVE  From(r2[i]) + r2[i].keep <= From(r2[j])
    OBVIOUS
  <2>1. i \in 1..n /\ r2[i] = r[i]
    BY <1>2, <1>3
  <2>2. CASE j \in 1..n
    <3>1. r2[j] = r[j]
      BY <1>3, <2>2
    <3> QED BY <1>6, <2>1, <2>2, <3>1
  <2>3. CASE j = n + 1
    <3>1. r2[j] = f
      BY <1>3, <2>3
    <3>2. From(r[i]) + r[i].keep <= SentTo
      BY <1>6, <2>1 DEF RFlitInv
    <3> QED BY <1>1, <2>1, <3>1, <3>2
  <2>4. j \in 1..n \/ j = n + 1
    BY <1>14
  <2> QED BY <2>2, <2>3, <2>4
<1>11. ArrivedTo' = From(r2[1])
  <2>1. CASE n = 0
    <3>1. r2[1] = f
      BY <1>3, <2>1
    <3> QED BY <1>1, <1>6, <2>1, <3>1
  <2>2. CASE n # 0
    <3>1. r2[1] = r[1]
      BY <1>2, <1>3, <2>2
    <3> QED BY <1>6, <2>2, <3>1
  <2> QED BY <2>1, <2>2
<1>12. SentTo' = From(r2[n + 1]) + r2[n + 1].keep
  BY <1>1, <1>3
<1>13. (n + 1) - 1 = n
  BY <1>2
<1>15. r2 \in Seq(RFlit)
  BY <1>1, <1>2 DEF f
<1> QED BY <1>3, <1>8, <1>9, <1>10, <1>11, <1>12, <1>13, <1>15 DEF RWireInv

LEMMA InvSendRFlit ==
  ASSUME NEW r, NEW r2, ReadInv(r), ReadFits, BeatOutgrowsHeader, SendRFlit,
         r2 = Append(r, RfFlit)
  PROVE  ArInv' /\ RSenderInv' /\ RWireInv(r2)' /\ RReceiverInv' /\ Got' = Got
<1>1. /\ RfEmitReady /\ rfBuf' = ShiftDown(rfBuf, RfEmitN) /\ rfCount' = rfCount - RfEmitN
      /\ rfState' = (IF RfIsFinal THEN "IDLE" ELSE "TX_CONT")
      /\ rfLast' = (~RfIsFinal /\ rfLast) /\ rfId' = rfId
      /\ r2 = Append(r, RfFlit)
      /\ UNCHANGED <<rrVars, rlens, nAR, rDone, rTaken, arState, arWire, dRead, dAr, memBeats>>
  BY DEF SendRFlit, RfEmit, RfAfterEmit, arVars, gotVars, depRVars
<1>2. ArInv' /\ Got' = Got
  BY <1>1, RequestsKept
<1>3. /\ RfEmitN \in Nat /\ RfEmitN > 0 /\ RfEmitN <= rfCount
      /\ Got > 0 /\ rDone # nAR /\ (RfIsFinal <=> SentTo + RfEmitN = ReadEnd)
      /\ StreamFrom(ShiftDown(rfBuf, RfEmitN), BufBytes, SentTo + RfEmitN, FetchedTo)
      /\ rfState \in {"TX_HDR", "TX_CONT"}
  BY <1>1, FlitLeaves
<1>4. /\ FetchedTo \in Int /\ SentTo \in Int /\ FetchedTo = SentTo + rfCount /\ rfCount \in Nat
      /\ ReadStart \in Int /\ HandedTo \in Int /\ ArrivedTo \in Int
      /\ ReadStart <= HandedTo /\ HandedTo <= ArrivedTo /\ ArrivedTo <= SentTo
      /\ BufBytes \in Nat /\ rfCount <= BufBytes /\ (rfLast <=> Got = BeatsAsked)
  BY <1>3, ReadPositions, ReadTypes, Constants DEF ReadInv, RSenderInv
<1>5. /\ FetchedTo' = FetchedTo /\ ArrivedTo' = ArrivedTo /\ ReadStart' = ReadStart
      /\ BeatsAsked' = BeatsAsked
  BY <1>1, <1>2, AskedKept, PositionsKept DEF rrVars
<1>6. SentTo' = SentTo + RfEmitN /\ SentTo' \in Int /\ SentTo' >= SentTo /\ SentTo' > ReadStart
  BY <1>1, <1>3, <1>4, <1>5 DEF SentTo
<1>7. RSenderInv'
  <2>1. RfIsFinal <=> rfLast /\ rfCount = RfEmitN
    BY DEF RfIsFinal
  <2>2. rfLast' <=> ~RfIsFinal /\ rfLast
    BY <1>1, Zenon
  <2>3. StreamFrom(rfBuf, BufBytes, SentTo, FetchedTo)'
    BY <1>1, <1>3, <1>5, <1>6
  <2>4. rfCount' <= BufBytes
    BY <1>1, <1>3, <1>4
  <2> HIDE DEF RfIsFinal
  <2>5. CASE RfIsFinal
    <3>1. rfState' = "IDLE" /\ ~rfLast' /\ rfCount' = 0 /\ Got' \in {0, BeatsAsked'}
      BY <1>1, <1>2, <1>3, <1>4, <1>5, <2>1, <2>2, <2>5
    <3> QED BY <2>3, <2>4, <3>1 DEF RSenderInv
  <2>6. CASE ~RfIsFinal
    <3>1. rfState' = "TX_CONT" /\ (rfLast' <=> Got' = BeatsAsked') /\ Got' > 0 /\ rDone' # nAR'
      BY <1>1, <1>2, <1>3, <1>4, <1>5, <2>2, <2>6
    <3>2. rfLast' => rfCount' > 0
      BY <1>1, <1>3, <1>4, <2>1, <2>2, <2>6
    <3>3. SentTo' > ReadStart'
      BY <1>5, <1>6
    <3> QED BY <2>3, <2>4, <3>1, <3>2, <3>3 DEF RSenderInv
  <2> QED BY <2>5, <2>6
<1>8. RWireInv(r2)'
  BY <1>1, <1>5, <1>6, WireGrows
<1>9. RReceiverInv'
  BY <1>1, <1>6, ReceiverKept
<1> QED BY <1>2, <1>7, <1>8, <1>9

(* A beat enters while a flit leaves, which is not the last.               *)
LEMMA InvMemoryRAndSendRFlit ==
  ASSUME NEW r, NEW r2, ReadInv(r), ReadFits, BeatOutgrowsHeader, MemoryRAndSendRFlit,
         r2 = Append(r, RfFlit)
  PROVE  ArInv' /\ RSenderInv' /\ RWireInv(r2)' /\ RReceiverInv' /\ Got' = Got + 1
<1> DEFINE n == RfEmitN
<1>1. /\ MemoryReturns /\ RfEmitReady
      /\ rfBuf' = OrAt(ShiftDown(rfBuf, n), rfCount - n, MemBeat)
      /\ rfCount' = (rfCount - n + STRB) % TXMOD
      /\ rfState' = (IF RfIsFinal THEN "IDLE" ELSE "TX_CONT")
      /\ rfLast' = (~RfIsFinal /\ (rfLast \/ MemBeatLast)) /\ rfId' = rfId
      /\ r2 = Append(r, RfFlit)
      /\ UNCHANGED <<rrVars, rlens, nAR, rDone, rTaken, arState, arWire>>
  BY DEF MemoryRAndSendRFlit, RfPushAndEmit, RfAfterEmit, arVars, gotVars
<1>2. /\ n \in Nat /\ n > 0 /\ n <= rfCount /\ rfId = nAR
      /\ Got > 0 /\ rDone # nAR
      /\ StreamFrom(ShiftDown(rfBuf, n), BufBytes, SentTo + n, FetchedTo)
  BY <1>1, FlitLeaves
<1>3. /\ Got < BeatsAsked /\ ~rfLast /\ (MemBeatLast <=> Got + 1 = BeatsAsked)
      /\ StreamFrom(MemBeat, STRB, FetchedTo, FetchedTo + STRB)
      /\ FetchedTo + STRB <= SentTo + BufBytes
      /\ rfCount + STRB < TXMOD /\ rfCount + STRB \in Nat
  BY <1>1, BeatReturned
<1>4. /\ FetchedTo \in Int /\ SentTo \in Int /\ FetchedTo = SentTo + rfCount /\ rfCount \in Nat
      /\ ReadStart \in Int /\ HandedTo \in Int /\ ArrivedTo \in Int
      /\ ReadStart <= HandedTo /\ HandedTo <= ArrivedTo /\ ArrivedTo <= SentTo
      /\ BufBytes \in Nat /\ TXMOD \in Nat /\ STRB \in Nat /\ STRB > 0
      /\ Got \in Nat /\ nAR \in Nat /\ rfBuf \in [1..BufBytes -> Byte]
      /\ MemBeat \in [1..STRB -> Byte]
  BY <1>1, ReadPositions, ReadTypes, Counts, Constants, MemBeatTypes
<1>5. ~RfIsFinal
  BY <1>3 DEF RfIsFinal
<1> HIDE DEF n
<1>6. rfCount' = rfCount - n + STRB
  <2>1. rfCount - n + STRB \in Nat /\ rfCount - n + STRB < TXMOD
    BY <1>2, <1>3, <1>4
  <2> QED BY <1>1, <1>4, <2>1, NoCarry
<1>7. ArInv' /\ Got' = Got + 1
  BY <1>1, <1>2, RequestFetched
<1>8. /\ FetchedTo' = FetchedTo + STRB /\ ArrivedTo' = ArrivedTo /\ ReadStart' = ReadStart
      /\ BeatsAsked' = BeatsAsked
  BY <1>1, <1>4, <1>7, NextFetched, AskedKept, PositionsKept DEF rrVars
<1>9. SentTo' = SentTo + n /\ SentTo' \in Int /\ SentTo' >= SentTo /\ SentTo' > ReadStart
  BY <1>2, <1>4, <1>6, <1>8 DEF SentTo
<1>10. RSenderInv'
  <2>1. StreamFrom(rfBuf', BufBytes, SentTo + n, FetchedTo + STRB)
    <3> DEFINE p == SentTo + n
               at == rfCount - n
               e == FetchedTo + STRB
               b == ShiftDown(rfBuf, n)
    <3>1. b \in [1..BufBytes -> Byte]
      BY <1>2, <1>4, ShiftDownType
    <3>2. /\ p \in Int /\ at \in Nat /\ e \in Int /\ p + at = FetchedTo
          /\ p + at <= e /\ e <= p + at + STRB
      BY <1>2, <1>4
    <3>3. StreamFrom(b, BufBytes, p, p + at) /\ StreamFrom(MemBeat, STRB, p + at, e)
      BY <1>2, <1>3, <3>2
    <3>4. rfBuf' = OrAt(b, at, MemBeat)
      BY <1>1
    <3> HIDE DEF p, at, e, b
    <3>5. StreamFrom(OrAt(b, at, MemBeat), BufBytes, p, e)
      BY <1>4, <3>1, <3>2, <3>3, OrAtStream
    <3> QED BY <3>4, <3>5 DEF p, e
  <2>2. rfCount' <= BufBytes /\ rfCount' > 0
    BY <1>2, <1>3, <1>4, <1>6
  <2>3. rfLast' <=> Got' = BeatsAsked'
    <3>1. rfLast' <=> MemBeatLast
      BY <1>1, <1>3, <1>5, Zenon
    <3> QED BY <1>3, <1>7, <1>8, <3>1
  <2>4. rfState' = "TX_CONT" /\ Got' > 0 /\ rDone' # nAR'
    BY <1>1, <1>2, <1>4, <1>5, <1>7
  <2>5. SentTo' > ReadStart' /\ StreamFrom(rfBuf, BufBytes, SentTo, FetchedTo)'
    BY <1>8, <1>9, <2>1
  <2> QED BY <2>2, <2>3, <2>4, <2>5 DEF RSenderInv
<1>11. RWireInv(r2)'
  BY <1>1, <1>8, <1>9, WireGrows DEF n
<1>12. RReceiverInv'
  BY <1>1, <1>9, ReceiverKept
<1> QED BY <1>7, <1>10, <1>11, <1>12

-----------------------------------------------------------------------------
(* The invariant holds initially and is kept.                              *)

LEMMA ReadInvInit ==
  ASSUME ReadInit
  PROVE  ReadInv(<<>>)
<1>1. ReadPortTypes
  <2>1. ZeroBytes(BufBytes) \in [1..BufBytes -> Byte]
    BY Constants, ZeroBytesType
  <2>2. RfTypeOK
    <3>1. rfBuf \in [1..BufBytes -> Byte] /\ rfCount \in 0..(TXMOD - 1)
      BY <2>1, Constants DEF ReadInit, RfInit
    <3>2. rfState = "IDLE" /\ rfId = 0 /\ rfLast = FALSE
      BY DEF ReadInit, RfInit
    <3> QED BY <3>1, <3>2 DEF RfTypeOK
  <2>3. RrTypeOK
    <3>1. rrBuf \in [1..BufBytes -> Byte] /\ rrCount \in 0..(TXMOD - 1)
      BY <2>1, Constants DEF ReadInit, RrInit
    <3>2. rrInCont = FALSE /\ rrLast = FALSE /\ rrId = 0
      BY DEF ReadInit, RrInit
    <3>3. rrInCont \in BOOLEAN /\ rrLast \in BOOLEAN
      BY <3>2, Zenon
    <3> QED BY <3>1, <3>2, <3>3 DEF RrTypeOK
  <2>4. dAr \in Ar /\ arWire \in Seq(Ar) /\ rlWire \in Seq(Nat)
    BY DEF ReadInit, Ar, NoAr
  <2>5. lrPending \in BOOLEAN /\ rlPend \in BOOLEAN
    <3>1. lrPending = FALSE /\ rlPend = FALSE
      BY DEF ReadInit
    <3> QED BY <3>1, Zenon
  <2>6. /\ lrData = 0 /\ liteR = 0 /\ rlData = 0 /\ memBeats = 0 /\ rDone = 0 /\ rTaken = 0
        /\ liteDone = 0 /\ nAR = 0 /\ nLiteAR = 0 /\ arState = "IDLE" /\ laState = "IDLE"
        /\ dRead = "IDLE" /\ rlens \in [1..MaxReads -> 1..MaxReadBeats]
    BY DEF ReadInit
  <2> QED BY <2>2, <2>3, <2>4, <2>5, <2>6, ReadBoundsAssumption DEF ReadPortTypes
<1>2. /\ nAR = 0 /\ rDone = 0 /\ rTaken = 0 /\ rfId = 0 /\ rfState = "IDLE" /\ rfCount = 0
      /\ ~rfLast /\ rrCount = 0 /\ ~rrInCont /\ ~rrLast /\ dRead = "IDLE" /\ arState = "IDLE"
      /\ arWire = <<>> /\ dAr = NoAr
      /\ rfBuf = ZeroBytes(BufBytes) /\ rrBuf = ZeroBytes(BufBytes)
  BY DEF ReadInit, RfInit, RrInit
<1>3. BeatsAsked = 0 /\ Got = 0 /\ Handed = 0 /\ ~NewestTaken /\ ~Fetching
  BY <1>2 DEF BeatsAsked, Got, Handed, NewestTaken, Fetching
<1>4. ArInv
  <2> HIDE DEF NewestTaken, Got, Fetching, BeatsAsked
  <2>1. dAr.id = 0
    BY <1>2 DEF NoAr
  <2>2. Len(arWire) = 0 /\ 1..Len(arWire) = {}
    BY <1>2
  <2> QED BY <1>2, <1>3, <2>1, <2>2 DEF ArInv
<1> DEFINE p == BeatPos(0)
<1>5. p \in Int
  BY <1>2, BeatPositions
<1>6. ReadStart = p /\ ReadEnd = p /\ FetchedTo = p /\ HandedTo = p
  BY <1>3 DEF ReadStart, ReadEnd, FetchedTo, HandedTo
<1> HIDE DEF p
<1>7. SentTo = p /\ ArrivedTo = p
  BY <1>2, <1>5, <1>6 DEF SentTo, ArrivedTo
<1>8. StreamFrom(ZeroBytes(BufBytes), BufBytes, p, p)
  BY <1>5, Constants DEF StreamFrom, ZeroBytes
<1>9. RSenderInv
  BY <1>2, <1>3, <1>6, <1>7, <1>8, Constants DEF RSenderInv
<1>10. RWireInv(<<>>)
  <2>1. Len(<<>>) = 0 /\ <<>> \in Seq(RFlit)
    BY EmptySeq
  <2> QED BY <1>7, <2>1 DEF RWireInv
<1>11. RReceiverInv
  BY <1>2, <1>5, <1>6, <1>7, <1>8 DEF RReceiverInv
<1> QED BY <1>1, <1>4, <1>9, <1>10, <1>11 DEF ReadInv

(* The Lite reads touch neither the Full read nor its data.                *)
LEMMA LiteApart ==
  ASSUME NEW r, ReadInv(r),
         LiteMasterAR \/ TakeRLitePacket \/ LiteMasterR \/ SendRLite \/ UNCHANGED readOnly
  PROVE  UNCHANGED <<rfVars, rrVars, nAR, rlens, rDone, rTaken, arState, arWire,
                     dRead, dAr, memBeats, rfId, masterR>>
<1>1. CASE LiteMasterAR
  BY <1>1 DEF LiteMasterAR, arVars, gotVars, depRVars, rfVars
<1>2. CASE TakeRLitePacket
  BY <1>2 DEF TakeRLitePacket, arVars, gotVars, depRVars, rfVars
<1>3. CASE LiteMasterR
  BY <1>3, Zenon DEF LiteMasterR, arVars, gotVars, depRVars, rfVars
<1>4. CASE SendRLite
  BY <1>4 DEF SendRLite, arVars, gotVars, depRVars, rfVars
<1>5. CASE UNCHANGED readOnly
  BY <1>5 DEF readOnly, arVars, gotVars, depRVars, rfVars
<1> QED BY <1>1, <1>2, <1>3, <1>4, <1>5

LEMMA ReadInvStep ==
  ASSUME NEW r, NEW r2, ReadInv(r), ReadFits, BeatOutgrowsHeader, ReadWireStep(r, r2)
  PROVE  ReadInv(r2)'
<1>1. ReadPortTypes'
  <2>1. \/ NearBeside \/ PieceIn(r) \/ FarBeside \/ SendRFlit \/ MemoryRAndSendRFlit
        \/ UNCHANGED readOnly
    BY DEF ReadWireStep
  <2> QED BY <2>1, TypesNear, TypesFar, TypesStutter
<1>2. CASE MasterAR /\ r2 = r
  BY <1>1, <1>2, InvMasterAR DEF ReadInv
<1>3. CASE SendAR /\ r2 = r
  <2>1. ArInv' /\ Got' = Got
    BY <1>3, InvSendAR
  <2>2. RSenderInv' /\ RWireInv(r)' /\ RReceiverInv'
    BY <1>3, <2>1, DataKept DEF SendAR, gotVars
  <2> QED BY <1>1, <1>3, <2>1, <2>2 DEF ReadInv
<1>4. CASE SendLiteAR /\ r2 = r
  <2>1. ArInv' /\ Got' = Got
    BY <1>4, InvSendLiteAR
  <2>2. RSenderInv' /\ RWireInv(r)' /\ RReceiverInv'
    BY <1>4, <2>1, DataKept DEF SendLiteAR, gotVars, arVars
  <2> QED BY <1>1, <1>4, <2>1, <2>2 DEF ReadInv
<1>5. CASE PieceIn(r) /\ r2 = Tail(r)
  BY <1>1, <1>5, InvPieceIn DEF ReadInv
<1>6. CASE MasterR /\ r2 = r
  BY <1>1, <1>6, InvMasterR DEF ReadInv
<1>7. CASE ArArrives /\ r2 = r
  <2>1. ArInv' /\ Got' = Got
    BY <1>7, InvArArrives
  <2>2. RSenderInv' /\ RWireInv(r)' /\ RReceiverInv'
    BY <1>7, <2>1, DataKept DEF ArArrives, gotVars, arVars
  <2> QED BY <1>1, <1>7, <2>1, <2>2 DEF ReadInv
<1>8. CASE DriveAR /\ r2 = r
  <2>1. ArInv' /\ Got' = Got
    BY <1>8, InvDriveAR
  <2>2. RSenderInv' /\ RWireInv(r)' /\ RReceiverInv'
    BY <1>8, <2>1, DataKept DEF DriveAR, gotVars, arVars
  <2> QED BY <1>1, <1>8, <2>1, <2>2 DEF ReadInv
<1>9. CASE MemoryR /\ r2 = r
  BY <1>1, <1>9, InvMemoryR DEF ReadInv
<1>10. CASE SendRFlit /\ r2 = Append(r, RfFlit)
  BY <1>1, <1>10, InvSendRFlit DEF ReadInv
<1>11. CASE MemoryRAndSendRFlit /\ r2 = Append(r, RfFlit)
  BY <1>1, <1>11, InvMemoryRAndSendRFlit DEF ReadInv
<1>12. CASE MemoryRLite /\ r2 = r
  <2>1. ArInv' /\ Got' = Got
    BY <1>12, InvMemoryRLite
  <2>2. RSenderInv' /\ RWireInv(r)' /\ RReceiverInv'
    BY <1>12, <2>1, DataKept DEF MemoryRLite, gotVars, arVars
  <2> QED BY <1>1, <1>12, <2>1, <2>2 DEF ReadInv
<1>13. CASE /\ LiteMasterAR \/ TakeRLitePacket \/ LiteMasterR \/ SendRLite \/ UNCHANGED readOnly
            /\ r2 = r
  <2>1. UNCHANGED <<rfVars, rrVars, nAR, rlens, rDone, rTaken, arState, arWire,
                    dRead, dAr, memBeats, rfId, masterR>>
    BY <1>13, LiteApart
  <2>2. ArInv' /\ Got' = Got
    BY <2>1, RequestsKept
  <2>3. RSenderInv' /\ RWireInv(r)' /\ RReceiverInv'
    BY <2>1, <2>2, DataKept
  <2> QED BY <1>1, <1>13, <2>2, <2>3 DEF ReadInv
<1> QED BY <1>2, <1>3, <1>4, <1>5, <1>6, <1>7, <1>8, <1>9, <1>10, <1>11, <1>12, <1>13
       DEF ReadWireStep, NearBeside, FarBeside

-----------------------------------------------------------------------------
(* What the invariant says of the receiver and the sender.                 *)

LEMMA ReadBytesHeld ==
  ASSUME NEW r, ReadInv(r)
  PROVE  ReadBytesInOrder
<1>1. /\ HandedTo \in Int /\ ArrivedTo \in Int /\ SentTo \in Int /\ FetchedTo \in Int
      /\ ReadStart \in Int /\ ReadStart <= HandedTo /\ ArrivedTo = HandedTo + rrCount
      /\ FetchedTo = SentTo + rfCount /\ rrCount \in Nat /\ rfCount \in Nat
  BY ReadPositions, ReadTypes
<1>2. rrCount > 0 =>
        \A i \in 1..BufBytes : i <= rrCount =>
          rrBuf[i] = ((rrId - 1) * MaxReadBeats + rTaken) * STRB + i
  <2> SUFFICES ASSUME rrCount > 0, NEW i \in 1..BufBytes, i <= rrCount
               PROVE  rrBuf[i] = ((rrId - 1) * MaxReadBeats + rTaken) * STRB + i
    OBVIOUS
  <2>1. rDone # nAR
    BY CompleteReads, <1>1
  <2>2. ReadStart < ArrivedTo
    BY <1>1
  <2>3. rrId = nAR /\ StreamFrom(rrBuf, BufBytes, HandedTo, ArrivedTo)
    BY <2>2 DEF ReadInv, RReceiverInv
  <2>4. HandedTo = ((rrId - 1) * MaxReadBeats + rTaken) * STRB
    BY <2>1, <2>3, Counts DEF HandedTo, BeatPos, BeatAt
  <2> DEFINE p == HandedTo
             e == ArrivedTo
  <2>5. p \in Int /\ e = p + rrCount /\ StreamFrom(rrBuf, BufBytes, p, e)
    BY <1>1, <2>3
  <2> HIDE DEF p, e
  <2>6. rrBuf[i] = p + i
    BY <1>1, <2>5, Constants DEF StreamFrom
  <2> QED BY <2>4, <2>6 DEF p
<1>3. rfCount > 0 =>
        \A i \in 1..BufBytes : i <= rfCount =>
          rfBuf[i] = ((rfId - 1) * MaxReadBeats + Fetched(rfId)) * STRB - rfCount + i
  <2> SUFFICES ASSUME rfCount > 0, NEW i \in 1..BufBytes, i <= rfCount
               PROVE  rfBuf[i] = ((rfId - 1) * MaxReadBeats + Fetched(rfId)) * STRB - rfCount + i
    OBVIOUS
  <2>1. rfState # "IDLE"
    BY <1>1 DEF ReadInv, RSenderInv
  <2>2. Got > 0 /\ rfId = nAR /\ StreamFrom(rfBuf, BufBytes, SentTo, FetchedTo)
    BY <2>1 DEF ReadInv, RSenderInv, ArInv
  <2>3. Got = Fetched(rfId)
    BY <2>2 DEF Got
  <2>4. FetchedTo = ((rfId - 1) * MaxReadBeats + Fetched(rfId)) * STRB
    BY <2>2, <2>3 DEF FetchedTo, BeatPos, BeatAt
  <2> DEFINE p == SentTo
             e == FetchedTo
  <2>5. p \in Int /\ e \in Int /\ p = e - rfCount /\ StreamFrom(rfBuf, BufBytes, p, e)
    BY <1>1, <2>2
  <2> HIDE DEF p, e
  <2>6. rfBuf[i] = e - rfCount + i
    BY <1>1, <2>5, Constants DEF StreamFrom
  <2> QED BY <2>4, <2>6 DEF e
<1> QED BY <1>2, <1>3 DEF ReadBytesInOrder

LEMMA Drained ==
  ASSUME NEW r, ReadInv(r)
  PROVE  /\ r # <<>> /\ r[1].op = "R" => ~rrInCont /\ ~rrLast /\ rrCount = 0
         /\ dRead = "WAIT_R" /\ ~dAr.lite /\ memBeats = 0 => rfState = "IDLE" /\ rfCount = 0
<1>1. r # <<>> /\ r[1].op = "R" => ~rrInCont /\ ~rrLast /\ rrCount = 0
  <2> SUFFICES ASSUME r # <<>>, r[1].op = "R"
               PROVE  ~rrInCont /\ ~rrLast /\ rrCount = 0
    OBVIOUS
  <2>1. ArrivedTo = ReadStart
    BY HeadOfRWire DEF RFlitInv
  <2>2. /\ HandedTo \in Int /\ ArrivedTo \in Int /\ ReadStart \in Int
        /\ ReadStart <= HandedTo /\ HandedTo <= ArrivedTo
        /\ ArrivedTo = HandedTo + rrCount /\ rrCount \in Nat
    BY ReadPositions, ReadTypes
  <2>3. rrCount = 0 /\ ~(ReadStart < ArrivedTo) /\ ~(HandedTo < ArrivedTo)
    BY <2>1, <2>2
  <2> QED BY <2>3 DEF ReadInv, RReceiverInv
<1>2. dRead = "WAIT_R" /\ ~dAr.lite /\ memBeats = 0 => rfState = "IDLE" /\ rfCount = 0
  <2> SUFFICES ASSUME dRead = "WAIT_R", ~dAr.lite, memBeats = 0
               PROVE  rfState = "IDLE" /\ rfCount = 0
    OBVIOUS
  <2>1. Fetching
    BY DEF Fetching
  <2>2. Got = 0
    BY <2>1, ReadUnderWay
  <2>3. rfState = "IDLE"
    BY <2>2 DEF ReadInv, RSenderInv
  <2> QED BY <2>3 DEF ReadInv, RSenderInv
<1> QED BY <1>1, <1>2

LEMMA RoomForTheNext ==
  ASSUME NEW r, ReadInv(r), ReadFits, r # <<>>
  PROVE  rrCount + r[1].keep <= BufBytes
<1> DEFINE k == r[1].keep
<1>1. ArrivedTo + k <= SentTo /\ k \in Nat
  BY HeadOfRWire, RFlitTypes
<1> HIDE DEF k
<1>2. /\ HandedTo \in Int /\ SentTo \in Int /\ FetchedTo \in Int /\ ReadEnd \in Int
      /\ ReadStart \in Int /\ ReadStart <= HandedTo /\ ArrivedTo = HandedTo + rrCount
      /\ SentTo <= FetchedTo /\ FetchedTo <= ReadEnd /\ ReadEnd <= ReadStart + BufBytes
      /\ rrCount \in Nat /\ BufBytes \in Nat
  BY ReadPositions, ReadSpan, ReadTypes
<1>3. rrCount + k <= BufBytes
  BY <1>1, <1>2
<1> QED BY <1>3 DEF k

LEMMA LastHasRlast ==
  ASSUME NEW r, ReadInv(r)
  PROVE  LastBeatHasRlast
<1> SUFFICES ASSUME ~rrInCont, rrCount = STRB PROVE rrLast
  BY DEF LastBeatHasRlast, RrBeatLast
<1>1. /\ HandedTo \in Int /\ ArrivedTo \in Int /\ ReadStart \in Int /\ ReadEnd \in Int
      /\ SentTo \in Int /\ FetchedTo \in Int
      /\ ReadStart <= HandedTo /\ ArrivedTo = HandedTo + rrCount
      /\ ArrivedTo <= SentTo /\ SentTo <= FetchedTo /\ FetchedTo <= ReadEnd
      /\ STRB \in Nat /\ STRB > 0
  BY ReadPositions, Constants
<1>2. ReadStart < ArrivedTo /\ HandedTo < ArrivedTo
  BY <1>1
<1>3. ~(ArrivedTo < ReadEnd)
  BY <1>2 DEF ReadInv, RReceiverInv
<1>4. ArrivedTo = ReadEnd
  BY <1>1, <1>3
<1> QED BY <1>2, <1>4 DEF ReadInv, RReceiverInv

-----------------------------------------------------------------------------
(* The read path alone.                                                    *)

LEMMA ReadWireSteps ==
  ASSUME [ReadNext]_readVars, NEW r, NEW r2, r = dataWire, r2 = dataWire'
  PROVE  ReadWireStep(r, r2)
<1>1. CASE RFlitArrives
  <2>1. r # <<>> /\ r2 = Tail(r) /\ Head(r) = r[1]
    BY <1>1 DEF RFlitArrives
  <2> QED BY <1>1, <2>1 DEF RFlitArrives, ReadWireStep, PieceIn
<1>2. CASE SendRFlit \/ MemoryRAndSendRFlit
  BY <1>2 DEF SendRFlit, MemoryRAndSendRFlit, ReadWireStep
<1>3. CASE NearBeside \/ FarBeside \/ UNCHANGED readVars
  <2>1. dataWire' = dataWire
    BY <1>3 DEF NearBeside, FarBeside, MasterAR, SendAR, LiteMasterAR, SendLiteAR, MasterR,
                TakeRLitePacket, LiteMasterR, ArArrives, DriveAR, MemoryR, MemoryRLite,
                SendRLite, readVars
  <2>2. UNCHANGED readVars => UNCHANGED readOnly
    BY DEF readVars, readOnly
  <2> QED BY <1>3, <2>1, <2>2 DEF ReadWireStep
<1> QED BY <1>1, <1>2, <1>3 DEF ReadNext, ReadNear, ReadFar, ReadFinished, NearBeside, FarBeside

(* In every reachable state the bytes of the read under way that have left *)
(* the memory are the master's, the receive buffer's, the wire's and the   *)
(* send buffer's, one after the other (axi_packetizer.sv, R chunking;      *)
(* aurora_r_receiver.sv, reassembly).                                      *)
THEOREM ReadInvHolds ==
  ASSUME ReadFits, BeatOutgrowsHeader
  PROVE  ReadSpec => []ReadInv(dataWire)
<1>1. ReadInit => ReadInv(dataWire)
  <2> SUFFICES ASSUME ReadInit PROVE ReadInv(dataWire)
    OBVIOUS
  <2>1. ReadInv(<<>>) /\ dataWire = <<>>
    BY ReadInvInit DEF ReadInit
  <2> QED BY <2>1
<1>2. ReadInv(dataWire) /\ [ReadNext]_readVars => ReadInv(dataWire)'
  <2> SUFFICES ASSUME ReadInv(dataWire), [ReadNext]_readVars PROVE ReadInv(dataWire)'
    OBVIOUS
  <2>1. PICK r : r = dataWire
    OBVIOUS
  <2>2. PICK r2 : r2 = dataWire'
    OBVIOUS
  <2>3. ReadInv(r) /\ ReadWireStep(r, r2)
    BY <2>1, <2>2, ReadWireSteps
  <2>4. ReadInv(r2)'
    BY <2>3, ReadInvStep
  <2> QED BY <2>2, <2>4
<1> QED BY <1>1, <1>2, PTL DEF ReadSpec

(* The two ends' buffers hold the read's own bytes, each at its place: what*)
(* the OR-ing in and shifting out of aurora_r_receiver.sv and              *)
(* axi_packetizer.sv leave of a burst is the burst.                        *)
THEOREM ReadBytesKeepTheirOrder ==
  ASSUME ReadFits, BeatOutgrowsHeader
  PROVE  ReadSpec => []ReadBytesInOrder
<1>1. ReadInv(dataWire) => ReadBytesInOrder
  <2>1. PICK r : r = dataWire
    OBVIOUS
  <2>2. ReadInv(r) => ReadBytesInOrder
    BY ReadBytesHeld
  <2> QED BY <2>1, <2>2
<1> QED BY <1>1, ReadInvHolds, PTL

(* The two simulation warnings about a burst that starts before the one    *)
(* before it has drained cannot fire.                                      *)
THEOREM HeadersFindItDrained ==
  ASSUME ReadFits, BeatOutgrowsHeader
  PROVE  ReadSpec => []NoHeaderBeforeDrained
<1>1. ReadInv(dataWire) => NoHeaderBeforeDrained
  <2> SUFFICES ASSUME ReadInv(dataWire) PROVE NoHeaderBeforeDrained
    OBVIOUS
  <2>1. PICK r : r = dataWire
    OBVIOUS
  <2>2. ReadInv(r)
    BY <2>1
  <2>3. r # <<>> => Head(r) = r[1]
    OBVIOUS
  <2> QED BY <2>1, <2>2, <2>3, Drained DEF NoHeaderBeforeDrained
<1> QED BY <1>1, ReadInvHolds, PTL

(* The receiver, which pushes whatever its count is, never overruns.       *)
THEOREM ReadsNeverOverrun ==
  ASSUME ReadFits, BeatOutgrowsHeader
  PROVE  ReadSpec => []NoReadOverrun
<1>1. ReadInv(dataWire) => NoReadOverrun
  <2> SUFFICES ASSUME ReadInv(dataWire), dataWire # <<>>
               PROVE  rrCount + Head(dataWire).keep <= BufBytes
    BY DEF NoReadOverrun
  <2>1. PICK r : r = dataWire
    OBVIOUS
  <2>2. ReadInv(r) /\ r # <<>> /\ Head(r) = r[1]
    BY <2>1
  <2> QED BY <2>1, <2>2, RoomForTheNext
<1> QED BY <1>1, ReadInvHolds, PTL

(* Where beats do not fit a header flit, rlast comes with the last beat;   *)
(* the run of AuroraRead_short, whose beats do, shows that it needs that.  *)
THEOREM RlastComesWithTheLastBeat ==
  ASSUME ReadFits, BeatOutgrowsHeader
  PROVE  ReadSpec => []LastBeatHasRlast
<1>1. ReadInv(dataWire) => LastBeatHasRlast
  <2>1. PICK r : r = dataWire
    OBVIOUS
  <2>2. ReadInv(r) => LastBeatHasRlast
    BY LastHasRlast
  <2> QED BY <2>1, <2>2
<1> QED BY <1>1, ReadInvHolds, PTL

-----------------------------------------------------------------------------
(* The read path implements the read service (AxiReadService).             *)

LEMMA BeatIsTheNext ==
  ASSUME NEW r, ReadInv(r), MasterR
  PROVE  /\ RrBeat = ReadService!ReadBeat(nAR, rTaken + 1)
         /\ masterR' = [data |-> ReadService!ReadBeat(nAR, rTaken + 1),
                        last |-> (rTaken + 1 = rlens[nAR]), id |-> nAR]
<1>1. /\ rDone # nAR /\ Handed = rTaken /\ rrId = nAR /\ HandedTo + STRB <= ArrivedTo
      /\ (RrBeatLast <=> rTaken + 1 = BeatsAsked)
  BY BeatHandedOver
<1>2. /\ HandedTo \in Int /\ ArrivedTo \in Int /\ ArrivedTo = HandedTo + rrCount
      /\ rrCount \in Nat /\ STRB \in Nat /\ BufBytes \in Nat /\ STRB <= BufBytes
      /\ rTaken \in Nat /\ BeatsAsked = rlens[nAR]
      /\ StreamFrom(rrBuf, BufBytes, HandedTo, ArrivedTo)
      /\ rrBuf \in [1..BufBytes -> Byte]
  BY <1>1, ReadPositions, ReadTypes, Constants, Counts DEF ReadInv, RReceiverInv
<1>3. RrBeat = [i \in 1..STRB |-> HandedTo + i]
  <2> DEFINE p == HandedTo
             e == ArrivedTo
  <2>1. p \in Int /\ e \in Int /\ p + STRB <= e /\ StreamFrom(rrBuf, BufBytes, p, e)
    BY <1>1, <1>2
  <2> HIDE DEF p, e
  <2>2. Low(rrBuf, STRB) = [i \in 1..STRB |-> p + i]
    BY <1>2, <2>1 DEF Low, StreamFrom
  <2> QED BY <2>2 DEF RrBeat, p
<1>4. ReadService!ReadBeat(nAR, rTaken + 1) = [i \in 1..STRB |-> HandedTo + i]
  <2>1. (rTaken + 1) - 1 = rTaken
    BY <1>2
  <2>2. HandedTo = ((nAR - 1) * MaxReadBeats + ((rTaken + 1) - 1)) * STRB
    BY <1>1, <2>1 DEF HandedTo, BeatPos, BeatAt
  <2> QED BY <2>2 DEF ReadService!ReadBeat
<1>5. RrBeatLast = (rTaken + 1 = rlens[nAR])
  BY <1>1, <1>2 DEF RrBeatLast
<1>6. masterR' = [data |-> RrBeat, last |-> RrBeatLast, id |-> rrId]
  BY DEF MasterR
<1> QED BY <1>1, <1>3, <1>4, <1>5, <1>6

LEMMA ReadServiceStep ==
  ASSUME NEW r, NEW r2, ReadInv(r), ReadFits, BeatOutgrowsHeader, ReadWireStep(r, r2)
  PROVE  [ReadService!Next]_(ReadService!vars)
<1> DEFINE G == IF NewestTaken THEN Fetched(nAR) ELSE 0
           H == IF nAR > 0 /\ rDone = nAR THEN rlens[nAR] ELSE rTaken
<1>1. Got = G /\ Handed = H /\ Got' = G' /\ Handed' = H'
  BY DEF Got, Handed
<1> SUFFICES \/ /\ nAR < MaxReads /\ (nAR = 0 \/ (nAR > 0 /\ Handed = rlens[nAR]))
                /\ nAR' = nAR + 1 /\ Got' = 0 /\ Handed' = 0 /\ UNCHANGED <<rlens, masterR>>
             \/ /\ nAR > 0 /\ Got < rlens[nAR] /\ Got' = Got + 1 /\ Handed' = Handed
                /\ UNCHANGED <<rlens, nAR, masterR>>
             \/ /\ Handed < Got /\ Handed' = Handed + 1 /\ Got' = Got
                /\ masterR' = [data |-> ReadService!ReadBeat(nAR, Handed + 1),
                               last |-> (Handed + 1 = rlens[nAR]), id |-> nAR]
                /\ UNCHANGED <<rlens, nAR>>
             \/ Got' = Got /\ Handed' = Handed /\ UNCHANGED <<rlens, nAR, masterR>>
  BY <1>1 DEF ReadService!Next, ReadService!Issue, ReadService!Fetch, ReadService!Deliver,
              ReadService!Complete, ReadService!vars
<1> HIDE DEF G, H
<1>2. CASE MasterAR
  <2>1. nAR = rDone /\ nAR < MaxReads /\ nAR' = nAR + 1 /\ UNCHANGED <<rlens, masterR>>
    BY <1>2 DEF MasterAR, gotVars
  <2>2. Got' = 0 /\ Handed' = 0
    BY <1>2, NewRead
  <2>3. nAR = 0 \/ (nAR > 0 /\ Handed = rlens[nAR])
    BY <2>1, Counts, ReadTypes
  <2> QED BY <2>1, <2>2, <2>3
<1>3. CASE MemoryR \/ MemoryRAndSendRFlit
  <2>1. MemoryReturns /\ UNCHANGED <<rlens, nAR, masterR, rDone, rTaken>>
    BY <1>3 DEF MemoryR, MemoryRAndSendRFlit, arVars, gotVars
  <2>2. nAR > 0 /\ Got < rlens[nAR]
    BY <2>1, BeatReturned, Counts
  <2>3. Got' = Got + 1
    <3>1. CASE MemoryR
      BY <3>1, InvMemoryR
    <3>2. CASE MemoryRAndSendRFlit
      BY <3>2, InvMemoryRAndSendRFlit
    <3> QED BY <1>3, <3>1, <3>2
  <2>4. Handed' = Handed
    BY <2>1, PositionsKept
  <2> QED BY <2>1, <2>2, <2>3, <2>4
<1>4. CASE MasterR
  <2>1. Handed = rTaken /\ rTaken < Got /\ Handed' = rTaken + 1
    BY <1>4, BeatHandedOver
  <2>2. Got' = Got
    BY <1>4, InvMasterR
  <2>3. UNCHANGED <<rlens, nAR>>
    BY <1>4 DEF MasterR, arVars
  <2> QED BY <1>4, <2>1, <2>2, <2>3, BeatIsTheNext
<1>5. CASE SendAR \/ SendLiteAR \/ PieceIn(r) \/ ArArrives \/ DriveAR \/ SendRFlit \/ MemoryRLite
  <2>1. Got' = Got
    <3>1. CASE PieceIn(r)
      BY <3>1, InvPieceIn
    <3>2. CASE SendRFlit
      BY <3>2, InvSendRFlit
    <3> QED BY <1>5, <3>1, <3>2, InvSendAR, InvSendLiteAR, InvArArrives, InvDriveAR, InvMemoryRLite
  <2>2. UNCHANGED <<rlens, nAR, masterR, rDone, rTaken>>
    BY <1>5 DEF SendAR, SendLiteAR, PieceIn, ArArrives, DriveAR, SendRFlit, MemoryRLite,
                arVars, gotVars
  <2>3. Handed' = Handed
    BY <2>2, PositionsKept
  <2> QED BY <2>1, <2>2, <2>3
<1>6. CASE LiteMasterAR \/ TakeRLitePacket \/ LiteMasterR \/ SendRLite \/ UNCHANGED readOnly
  <2>1. UNCHANGED <<nAR, rlens, rDone, rTaken, arState, arWire, dRead, dAr, memBeats, rfId,
                    masterR>>
    BY <1>6, LiteApart
  <2> QED BY <2>1, RequestsKept, PositionsKept
<1> QED BY <1>2, <1>3, <1>4, <1>5, <1>6 DEF ReadWireStep, NearBeside, FarBeside

LEMMA ReadServiceInit == ReadInit => ReadService!Init
<1> SUFFICES ASSUME ReadInit PROVE ReadService!Init
  OBVIOUS
<1>1. /\ nAR = 0 /\ rTaken = 0 /\ rlens \in [1..MaxReads -> 1..MaxReadBeats]
      /\ masterR = [data |-> <<>>, last |-> FALSE, id |-> 0]
  BY DEF ReadInit
<1> QED BY <1>1 DEF ReadService!Init, NewestTaken

(* What the master sees of the bridge is what the read service promises:   *)
(* the beats of its own read, each once and in order, rlast on the last.   *)
THEOREM ImplementsReads ==
  ASSUME ReadFits, BeatOutgrowsHeader
  PROVE  ReadSpec => ImplementsReadService
<1>1. ReadInit => ReadService!Init
  BY ReadServiceInit
<1>2. ReadInv(dataWire) /\ [ReadNext]_readVars => [ReadService!Next]_(ReadService!vars)
  <2> SUFFICES ASSUME ReadInv(dataWire), [ReadNext]_readVars
               PROVE  [ReadService!Next]_(ReadService!vars)
    OBVIOUS
  <2>1. PICK r : r = dataWire
    OBVIOUS
  <2>2. PICK r2 : r2 = dataWire'
    OBVIOUS
  <2>3. ReadInv(r) /\ ReadWireStep(r, r2)
    BY <2>1, <2>2, ReadWireSteps
  <2> QED BY <2>3, ReadServiceStep
<1> QED BY <1>1, <1>2, ReadInvHolds, PTL DEF ReadSpec, ImplementsReadService, ReadService!Spec

-----------------------------------------------------------------------------
(* Both directions: BridgeDuplex.                                          *)

-----------------------------------------------------------------------------
(* The R flits of a wire: a header starts a frame, continuation flits      *)
(* follow it up to tlast.                                                  *)

RFlits(S) == \A f \in S : IsRFlit(f) /\ f.op \in {"R", "none"} /\ f.tlast \in BOOLEAN

(* What comes after flit f: a header after the last flit of a frame.       *)
After(f) == IF f.tlast THEN "R" ELSE "none"

(* r is a stretch of R flits that starts with an op and in which frames    *)
(* are closed before the next one starts.                                  *)
Frames(op, r) ==
  /\ r # <<>> => r[1].op = op
  /\ \A i \in 1..(Len(r) - 1) : r[i + 1].op = After(r[i])

(* What comes after such a stretch.                                        *)
NextOp(op, r) == IF r = <<>> THEN op ELSE After(r[Len(r)])

(* What the R receiver waits for, and what the R sender sends next.        *)
RrExpects == IF rrInCont THEN "none" ELSE "R"
RfSends   == IF rfState = "TX_CONT" THEN "none" ELSE "R"

(* The wire holds the write flits w in one piece, R flits r1 before and r2 *)
(* after them.  A header flit of a write comes between R frames, and no R  *)
(* flit is among the flits of a write.                                     *)
DuplexOrder(S, r1, w, r2) ==
  /\ RFlits(S) /\ r1 \in Seq(S) /\ r2 \in Seq(S)
  /\ OrderInv(w) /\ dataWire = r1 \o (w \o r2)
  /\ Frames(RrExpects, r1) /\ Frames(NextOp(RrExpects, r1), r2)
  /\ NextOp(NextOp(RrExpects, r1), r2) = RfSends
  /\ w = <<>> => r1 = <<>>
  /\ w # <<>> => NextOp(RrExpects, r1) = "R"
  /\ w # <<>> /\ w[1].op # "AW" => r1 = <<>>
  /\ wState = "TX_CONT" => r2 = <<>> /\ atx = "W_FULL"
  /\ rfState = "TX_CONT" => atx = "R_RESP"

DuplexInv == \E S, r1, w, r2 : DuplexOrder(S, r1, w, r2)

(* A step from a wire with the R flits r: the order is kept, and the R     *)
(* flits of the wire change as they do when the reads have it alone.       *)
Follows(r) ==
  \E S, a, v, b : DuplexOrder(S, a, v, b)' /\ ReadWireStep(r, a \o b)

(* With it, the reads' invariant of the R flits on both sides of w.        *)
DuplexReadInv == \E S, r1, w, r2 : DuplexOrder(S, r1, w, r2) /\ ReadInv(r1 \o r2)

-----------------------------------------------------------------------------
(* Stretches of R flits.                                                   *)

LEMMA FramesTail ==
  ASSUME NEW S, NEW r \in Seq(S), r # <<>>, NEW op, Frames(op, r)
  PROVE  /\ Head(r) = r[1] /\ r[1] \in S /\ Tail(r) \in Seq(S) /\ r[1].op = op
         /\ Frames(After(r[1]), Tail(r))
         /\ NextOp(After(r[1]), Tail(r)) = NextOp(op, r)
<1>1. /\ Head(r) = r[1] /\ Tail(r) \in Seq(S) /\ Len(r) \in Nat \ {0}
      /\ Len(Tail(r)) = Len(r) - 1
      /\ \A i \in 1..Len(Tail(r)) : Tail(r)[i] = r[i + 1]
  BY HeadTailProperties, EmptySeq
<1>2. r[1] \in S
  BY <1>1, ElementOfSeq
<1>3. r[1].op = op /\ \A i \in 1..(Len(r) - 1) : r[i + 1].op = After(r[i])
  BY DEF Frames
<1>4. Tail(r) # <<>> <=> Len(r) > 1
  <2>1. Tail(r) = <<>> => Len(Tail(r)) = 0
    BY EmptySeq
  <2>2. Tail(r) # <<>> => Len(Tail(r)) \in Nat \ {0}
    BY <1>1, EmptySeq
  <2> QED BY <1>1, <2>1, <2>2
<1>5. Frames(After(r[1]), Tail(r))
  <2>1. ASSUME Tail(r) # <<>> PROVE Tail(r)[1].op = After(r[1])
    BY <1>1, <1>3, <1>4, <2>1
  <2>2. ASSUME NEW i \in 1..(Len(Tail(r)) - 1) PROVE Tail(r)[i + 1].op = After(Tail(r)[i])
    <3>1. i \in 1..Len(Tail(r)) /\ i + 1 \in 1..Len(Tail(r)) /\ i + 1 \in 1..(Len(r) - 1)
      BY <1>1, <2>2
    <3>2. Tail(r)[i] = r[i + 1] /\ Tail(r)[i + 1] = r[i + 1 + 1]
      BY <1>1, <3>1
    <3> QED BY <1>3, <3>1, <3>2
  <2> QED BY <2>1, <2>2 DEF Frames
<1>6. NextOp(After(r[1]), Tail(r)) = NextOp(op, r)
  <2>1. CASE Tail(r) = <<>>
    <3>1. Len(r) = 1
      BY <1>1, <1>4, <2>1
    <3> QED BY <2>1, <3>1 DEF NextOp
  <2>2. CASE Tail(r) # <<>>
    <3>1. Len(Tail(r)) \in 1..Len(Tail(r)) /\ Len(Tail(r)) + 1 = Len(r)
      BY <1>1, <1>4, <2>2
    <3>2. Tail(r)[Len(Tail(r))] = r[Len(r)]
      BY <1>1, <3>1
    <3> QED BY <2>2, <3>2 DEF NextOp
  <2> QED BY <2>1, <2>2
<1> QED BY <1>1, <1>2, <1>3, <1>5, <1>6

LEMMA FramesAppend ==
  ASSUME NEW S, NEW r \in Seq(S), NEW f \in S, NEW op, Frames(op, r), f.op = NextOp(op, r)
  PROVE  /\ Append(r, f) \in Seq(S) /\ Frames(op, Append(r, f))
         /\ NextOp(op, Append(r, f)) = After(f)
<1> DEFINE a == Append(r, f)
<1>1. /\ a \in Seq(S) /\ Len(r) \in Nat /\ Len(a) = Len(r) + 1 /\ a[Len(r) + 1] = f
      /\ \A i \in 1..Len(r) : a[i] = r[i]
  BY AppendProperties, LenProperties
<1>2. a # <<>>
  BY <1>1, EmptySeq
<1>3. r = <<>> => Len(r) = 0
  BY EmptySeq
<1>4. r # <<>> => Len(r) \in Nat \ {0}
  BY EmptySeq
<1> HIDE DEF a
<1>5. a[1].op = op
  <2>1. CASE r = <<>>
    BY <1>1, <1>3, <2>1 DEF NextOp
  <2>2. CASE r # <<>>
    BY <1>1, <1>4, <2>2 DEF Frames
  <2> QED BY <2>1, <2>2
<1>6. ASSUME NEW i \in 1..(Len(a) - 1) PROVE a[i + 1].op = After(a[i])
  <2>0. i \in 1..Len(r) /\ a[i] = r[i] /\ r # <<>>
    BY <1>1, <1>3, <1>6
  <2>1. CASE i = Len(r)
    <3>1. f.op = After(r[Len(r)])
      BY <2>0 DEF NextOp
    <3> QED BY <1>1, <2>0, <2>1, <3>1
  <2>2. CASE i # Len(r)
    <3>1. i \in 1..(Len(r) - 1) /\ i + 1 \in 1..Len(r)
      BY <1>1, <2>0, <2>2
    <3>2. r[i + 1].op = After(r[i]) /\ a[i + 1] = r[i + 1]
      BY <1>1, <3>1 DEF Frames
    <3> QED BY <2>0, <3>2
  <2> QED BY <2>1, <2>2
<1>7. NextOp(op, a) = After(f)
  BY <1>1, <1>2 DEF NextOp
<1>8. Frames(op, a)
  BY <1>2, <1>5, <1>6 DEF Frames
<1> QED BY <1>1, <1>7, <1>8 DEF a

(* A wire is taken apart at its head.                                      *)
LEMMA HeadConcat ==
  ASSUME NEW S, NEW s \in Seq(S), NEW t \in Seq(S), s # <<>>
  PROVE  /\ s \o t # <<>> /\ Head(s \o t) = s[1]
         /\ Tail(s \o t) = Tail(s) \o t
<1>1. /\ s \o t \in Seq(S) /\ Len(s \o t) = Len(s) + Len(t)
      /\ \A i \in 1..(Len(s) + Len(t)) :
           (s \o t)[i] = IF i <= Len(s) THEN s[i] ELSE t[i - Len(s)]
  BY ConcatProperties
<1>2. Len(s) \in Nat \ {0} /\ Len(t) \in Nat
  BY EmptySeq, LenProperties
<1>3. s \o t # <<>>
  BY <1>1, <1>2, EmptySeq
<1>4. /\ Tail(s) \in Seq(S) /\ Len(Tail(s)) = Len(s) - 1
      /\ \A i \in 1..Len(Tail(s)) : Tail(s)[i] = s[i + 1]
  BY HeadTailProperties
<1>5. /\ Tail(s \o t) \in Seq(S) /\ Len(Tail(s \o t)) = Len(s) + Len(t) - 1
      /\ \A i \in 1..Len(Tail(s \o t)) : Tail(s \o t)[i] = (s \o t)[i + 1]
  BY <1>1, <1>3, HeadTailProperties
<1>6. /\ Tail(s) \o t \in Seq(S) /\ Len(Tail(s) \o t) = Len(s) - 1 + Len(t)
      /\ \A i \in 1..(Len(s) - 1 + Len(t)) :
           (Tail(s) \o t)[i] = IF i <= Len(s) - 1 THEN Tail(s)[i] ELSE t[i - (Len(s) - 1)]
  BY <1>4, ConcatProperties
<1>7. ASSUME NEW i \in 1..Len(Tail(s \o t)) PROVE Tail(s \o t)[i] = (Tail(s) \o t)[i]
  <2>1. i \in 1..(Len(s) - 1 + Len(t)) /\ i + 1 \in 1..(Len(s) + Len(t))
    BY <1>2, <1>5, <1>7
  <2>2. Tail(s \o t)[i] = IF i + 1 <= Len(s) THEN s[i + 1] ELSE t[i + 1 - Len(s)]
    BY <1>1, <1>5, <1>7, <2>1
  <2>3. (Tail(s) \o t)[i] = IF i <= Len(s) - 1 THEN s[i + 1] ELSE t[i - (Len(s) - 1)]
    BY <1>2, <1>4, <1>6, <2>1
  <2>4. i + 1 - Len(s) = i - (Len(s) - 1) /\ (i + 1 <= Len(s) <=> i <= Len(s) - 1)
    BY <1>2, <2>1
  <2> QED BY <2>2, <2>3, <2>4
<1>8. Len(Tail(s \o t)) = Len(Tail(s) \o t)
  BY <1>2, <1>5, <1>6
<1>9. Tail(s \o t) = Tail(s) \o t
  BY <1>5, <1>6, <1>7, <1>8, SeqEqual
<1>10. Head(s \o t) = s[1]
  <2>1. Head(s \o t) = (s \o t)[1] /\ 1 \in 1..(Len(s) + Len(t)) /\ 1 <= Len(s)
    BY <1>1, <1>2, <1>3
  <2> QED BY <1>1, <2>1
<1> QED BY <1>3, <1>9, <1>10

-----------------------------------------------------------------------------
(* The head of the wire.                                                   *)

LEMMA WriteFlits == \A f \in Flit : ~IsRFlit(f) /\ f.op \in {"AW", "none"} /\ f.tlast \in BOOLEAN
<1> SUFFICES ASSUME NEW f \in Flit
             PROVE  ~IsRFlit(f) /\ f.op \in {"AW", "none"} /\ f.tlast \in BOOLEAN
  OBVIOUS
<1>1. DOMAIN f = {"op", "aw", "data", "tlast"}
  BY DEF Flit
<1>2. "keep" \notin DOMAIN f
  BY <1>1
<1>3. f.op \in {"AW", "none"} /\ f.tlast \in BOOLEAN
  BY DEF Flit
<1> QED BY <1>2, <1>3 DEF IsRFlit

LEMMA ReadFlit ==
  ASSUME RfActive
  PROVE  /\ IsRFlit(RfFlit) /\ RfFlit.op = RfSends /\ RfFlit.op \in {"R", "none"}
         /\ RfFlit.tlast = RfIsFinal /\ RfIsFinal \in BOOLEAN
<1>1. RfIsFinal \in BOOLEAN
  BY DEF RfIsFinal
<1>2. CASE rfState = "TX_HDR"
  BY <1>1, <1>2 DEF RfFlit, RHeader, RfSends, IsRFlit
<1>3. CASE rfState = "TX_CONT"
  BY <1>1, <1>3 DEF RfFlit, RCont, RfSends, IsRFlit
<1> QED BY <1>2, <1>3 DEF RfActive

(* No write data is waited for at A while an R flit is the next to arrive. *)
LEMMA NothingOwed ==
  ASSUME NEW w, OrderInv(w),
         (w # <<>> /\ w[1].op = "AW") \/ (w = <<>> /\ wState # "TX_CONT")
  PROVE  remRx = 0
<1>1. CASE w # <<>> /\ w[1].op = "AW"
  BY <1>1 DEF OrderInv, ReceiverInv, HeaderToCome
<1>2. CASE w = <<>> /\ wState # "TX_CONT" /\ dState = "IDLE"
  BY <1>2 DEF OrderInv, ReceiverInv, HeaderToCome
<1>3. CASE w = <<>> /\ wState # "TX_CONT" /\ dState # "IDLE"
  <2>1. wState = "WAIT_B" /\ remRx = End - Arrived /\ Arrived = Sent
    BY <1>3 DEF OrderInv, ReceiverInv, Landing
  <2>2. txCount = 0 /\ Owed = 0
    BY <2>1 DEF OrderInv, NearInv, SenderInv, Active, Owed
  <2>3. given.bytes \in Nat
    BY DEF OrderInv, NearInv, PortTypes
  <2> QED BY <2>1, <2>2, <2>3 DEF End, Sent
<1> QED BY <1>1, <1>2, <1>3

LEMMA DuplexHead ==
  ASSUME NEW S, NEW r1, NEW w, NEW r2, DuplexOrder(S, r1, w, r2), dataWire # <<>>
  PROVE  \/ /\ r1 # <<>> /\ Head(dataWire) = r1[1]
            /\ Tail(dataWire) = Tail(r1) \o (w \o r2)
         \/ /\ r1 = <<>> /\ w # <<>> /\ Head(dataWire) = w[1]
            /\ Tail(dataWire) = <<>> \o (Tail(w) \o r2)
         \/ /\ r1 = <<>> /\ w = <<>> /\ r2 # <<>> /\ Head(dataWire) = r2[1]
            /\ Tail(dataWire) = <<>> \o (<<>> \o Tail(r2))
<1> DEFINE T == S \cup Flit
<1>1. r1 \in Seq(T) /\ w \in Seq(T) /\ r2 \in Seq(T)
  <2>1. r1 \in Seq(S) /\ r2 \in Seq(S) /\ w \in Seq(Flit) /\ S \subseteq T /\ Flit \subseteq T
    BY DEF DuplexOrder, OrderInv, NearInv, ChainInv
  <2> HIDE DEF T
  <2> QED BY <2>1, SeqMonotonic
<1>2. dataWire = r1 \o (w \o r2)
  BY DEF DuplexOrder
<1> HIDE DEF T
<1>3. w \o r2 \in Seq(T) /\ <<>> \in Seq(T) /\ \A s \in Seq(T) : <<>> \o s = s
  BY <1>1, ConcatProperties, EmptySeq, ConcatEmptySeq
<1>4. CASE r1 # <<>>
  BY <1>1, <1>2, <1>3, <1>4, HeadConcat
<1>5. CASE r1 = <<>> /\ w # <<>>
  <2>1. dataWire = w \o r2
    BY <1>2, <1>3, <1>5
  <2>2. Head(dataWire) = w[1] /\ Tail(dataWire) = Tail(w) \o r2
    BY <1>1, <1>5, <2>1, HeadConcat
  <2>3. Tail(w) \o r2 \in Seq(T)
    BY <1>1, <1>5, HeadTailProperties, ConcatProperties
  <2> QED BY <1>3, <1>5, <2>2, <2>3
<1>6. CASE r1 = <<>> /\ w = <<>>
  <2>1. dataWire = r2
    BY <1>1, <1>2, <1>3, <1>6
  <2>2. r2 # <<>> /\ Head(r2) = r2[1] /\ Tail(r2) \in Seq(T)
    <3>1. r2 # <<>> /\ Len(r2) \in Nat \ {0}
      BY <1>1, <2>1, EmptySeq
    <3> QED BY <1>1, <3>1, HeadTailProperties
  <2> QED BY <1>3, <1>6, <2>1, <2>2
<1> QED BY <1>4, <1>5, <1>6

(* What the head of the wire is, and what the two receivers are at.        *)
LEMMA DuplexKinds ==
  ASSUME NEW S, NEW r1, NEW w, NEW r2, DuplexOrder(S, r1, w, r2), dataWire # <<>>
  PROVE  LET f == Head(dataWire)
         IN  /\ f.op \in {"AW", "R", "none"} /\ f.tlast \in BOOLEAN
             /\ IsRFlit(f) => r1 # <<>> \/ w = <<>>
             /\ IsRFlit(f) => remRx = 0 /\ f.op = RrExpects
             /\ ~IsRFlit(f) => r1 = <<>> /\ w # <<>> /\ f = w[1] /\ ~rrInCont
             /\ ~IsRFlit(f) /\ f.op = "AW" => TakesHeader(f)
             /\ ~IsRFlit(f) /\ f.op = "none" => TakesCont
             /\ ~IsRFlit(f) => f.op # "R"
<1> DEFINE f == Head(dataWire)
<1>0. /\ RFlits(S) /\ r1 \in Seq(S) /\ r2 \in Seq(S) /\ OrderInv(w)
      /\ Frames(RrExpects, r1) /\ Frames(NextOp(RrExpects, r1), r2)
      /\ w = <<>> => r1 = <<>>
      /\ w # <<>> => NextOp(RrExpects, r1) = "R"
      /\ w # <<>> /\ w[1].op # "AW" => r1 = <<>>
      /\ wState = "TX_CONT" => r2 = <<>>
  BY DEF DuplexOrder
<1>1. CASE r1 # <<>> /\ f = r1[1]
  <2>1. f \in S /\ f.op = RrExpects
    BY <1>0, <1>1, FramesTail
  <2>2. remRx = 0
    BY <1>0, <1>1, NothingOwed
  <2> QED BY <1>0, <1>1, <2>1, <2>2 DEF RFlits
<1>2. CASE r1 = <<>> /\ w # <<>> /\ f = w[1]
  <2>1. /\ f \in Flit
        /\ IF f.op = "AW" THEN TakesHeader(f) ELSE TakesCont
    BY <1>0, <1>2, HeadOfWire
  <2>2. ~rrInCont
    BY <1>0, <1>2 DEF NextOp, RrExpects
  <2>3. ~IsRFlit(f) /\ f.op \in {"AW", "none"} /\ f.tlast \in BOOLEAN
    BY <2>1, WriteFlits
  <2> QED BY <1>2, <2>1, <2>2, <2>3
<1>3. CASE r1 = <<>> /\ w = <<>> /\ r2 # <<>> /\ f = r2[1]
  <2>1. f \in S /\ f.op = RrExpects
    <3>1. Frames(RrExpects, r2)
      BY <1>0, <1>3 DEF NextOp
    <3> QED BY <1>0, <1>3, <3>1, FramesTail
  <2>2. remRx = 0
    BY <1>0, <1>3, NothingOwed
  <2> QED BY <1>0, <1>3, <2>1, <2>2 DEF RFlits
<1> QED BY <1>1, <1>2, <1>3, DuplexHead

LEMMA OneTaker ==
  ASSUME NEW S, NEW r1, NEW w, NEW r2, DuplexOrder(S, r1, w, r2)
  PROVE  EachFlitHasOneTaker
<1> DEFINE f == Head(dataWire)
<1> SUFFICES ASSUME dataWire # <<>>,
                    NEW op \in IF f.op = "none" THEN {"none", "AW", "R"} ELSE {f.op}
             PROVE  (DepTakes(op) <=> ~IsRFlit(f)) /\ (RrTakes(op) <=> IsRFlit(f))
  BY DEF EachFlitHasOneTaker
<1>1. /\ f.op \in {"AW", "R", "none"}
      /\ IsRFlit(f) => remRx = 0 /\ f.op = RrExpects
      /\ ~IsRFlit(f) => ~rrInCont
      /\ ~IsRFlit(f) /\ f.op = "AW" => TakesHeader(f)
      /\ ~IsRFlit(f) /\ f.op = "none" => TakesCont
      /\ ~IsRFlit(f) => f.op # "R"
  BY DuplexKinds
<1> HIDE DEF f
<1>2. f.op # "none" => op = f.op
  OBVIOUS
<1>3. CASE IsRFlit(f) /\ rrInCont
  BY <1>1, <1>3 DEF DepTakes, DepHeaderFires, RrTakes, TakesCont
<1>4. CASE IsRFlit(f) /\ ~rrInCont
  <2>1. op = "R" /\ ~TakesCont /\ [op |-> op].op = op
    BY <1>1, <1>2, <1>4 DEF RrExpects, TakesCont
  <2>2. ~DepHeaderFires(op)
    BY <2>1 DEF DepHeaderFires, TakesHeader
  <2> QED BY <1>4, <2>1, <2>2 DEF DepTakes, RrTakes, RrHeaderFires
<1>5. CASE ~IsRFlit(f) /\ f.op = "AW"
  <2>1. op = "AW" /\ TakesHeader(f) /\ ~rrInCont /\ [op |-> op].op = op
    BY <1>1, <1>2, <1>5
  <2>2. DepHeaderFires(op)
    BY <2>1 DEF DepHeaderFires, TakesHeader
  <2> QED BY <1>5, <2>1, <2>2 DEF DepTakes, RrTakes, RrHeaderFires
<1>6. CASE ~IsRFlit(f) /\ f.op = "none"
  BY <1>1, <1>6 DEF DepTakes, RrTakes, RrHeaderFires
<1> QED BY <1>1, <1>3, <1>4, <1>5, <1>6

-----------------------------------------------------------------------------
(* Each step keeps the order.                                              *)

LEMMA DuplexInitially == DuplexInit => DuplexOrder({}, <<>>, <<>>, <<>>)
<1> SUFFICES ASSUME DuplexInit PROVE DuplexOrder({}, <<>>, <<>>, <<>>)
  OBVIOUS
<1>1. /\ OrderInv(<<>>) /\ dataWire = <<>> /\ rrInCont = FALSE /\ wState = "IDLE"
      /\ rfState = "IDLE"
  BY OrderInit DEF DuplexInit, Init, TxInit, ReadInit, RfInit, RrInit
<1>2. <<>> \in Seq({}) /\ Len(<<>>) = 0 /\ <<>> \o (<<>> \o <<>>) = <<>>
  BY EmptySeq, ConcatEmptySeq
<1> QED BY <1>1, <1>2 DEF DuplexOrder, RFlits, Frames, NextOp, RrExpects, RfSends

(* The write path moves, with the wire and the R path as they were.        *)
LEMMA OrderKept ==
  ASSUME NEW S, NEW r1, NEW w, NEW r2, DuplexOrder(S, r1, w, r2), OrderInv(w)',
         wState' = "TX_CONT" => wState = "TX_CONT",
         rfState' = "TX_CONT" <=> rfState = "TX_CONT",
         UNCHANGED <<dataWire, rrInCont, atx>>,
         NearBeside \/ FarBeside \/ UNCHANGED readOnly
  PROVE  Follows(r1 \o r2)
<1>1. RrExpects' = RrExpects /\ RfSends' = RfSends
  BY DEF RrExpects, RfSends
<1>2. DuplexOrder(S, r1, w, r2)'
  BY <1>1 DEF DuplexOrder
<1>3. ReadWireStep(r1 \o r2, r1 \o r2)
  BY DEF ReadWireStep
<1> QED BY <1>2, <1>3 DEF Follows

(* A grant: no frame is open.                                              *)
LEMMA OrderGrant ==
  ASSUME NEW S, NEW r1, NEW w, NEW r2, DuplexOrder(S, r1, w, r2), GrantW \/ GrantR
  PROVE  Follows(r1 \o r2)
<1>1. atx = "IDLE" /\ UNCHANGED <<writeOnly, readOnly, dataWire>>
  BY DEF GrantW, GrantR
<1>2. wState # "TX_CONT" /\ rfState # "TX_CONT"
  BY <1>1 DEF DuplexOrder
<1>3. UNCHANGED <<wState, rfState, rrInCont, dataWire>>
  BY <1>1 DEF writeOnly, readOnly, txVars, rfVars, rrVars
<1>4. OrderInv(w)'
  <2>1. UNCHANGED <<txVars, rxVars, masterVars, memoryVars, bWire, bfId>>
    BY <1>1 DEF writeOnly
  <2> QED BY <2>1, OrderStutter DEF DuplexOrder
<1>5. RrExpects' = RrExpects /\ RfSends' = RfSends
  BY <1>3 DEF RrExpects, RfSends
<1>6. DuplexOrder(S, r1, w, r2)'
  BY <1>2, <1>3, <1>4, <1>5 DEF DuplexOrder
<1>7. ReadWireStep(r1 \o r2, r1 \o r2)
  BY <1>1 DEF ReadWireStep
<1> QED BY <1>6, <1>7 DEF Follows

(* A write flit leaves: a header when no other write is on the wire, a     *)
(* continuation flit right behind the flit before it.                      *)
LEMMA OrderWFlit ==
  ASSUME NEW S, NEW r1, NEW w, NEW r2, DuplexOrder(S, r1, w, r2), NoWrap, WFlit
  PROVE  Follows(r1 \o r2)
<1>0. /\ RFlits(S) /\ r1 \in Seq(S) /\ r2 \in Seq(S) /\ OrderInv(w)
      /\ dataWire = r1 \o (w \o r2)
      /\ Frames(RrExpects, r1) /\ Frames(NextOp(RrExpects, r1), r2)
      /\ NextOp(NextOp(RrExpects, r1), r2) = RfSends
      /\ w = <<>> => r1 = <<>>
      /\ w # <<>> => NextOp(RrExpects, r1) = "R"
      /\ w # <<>> /\ w[1].op # "AW" => r1 = <<>>
      /\ wState = "TX_CONT" => r2 = <<>> /\ atx = "W_FULL"
      /\ rfState = "TX_CONT" => atx = "R_RESP"
  BY DEF DuplexOrder
<1>1. /\ atx = "W_FULL" /\ (SendFlit \/ MasterWAndSendFlit) /\ UNCHANGED readOnly
      /\ atx' = IF IsFinal THEN "IDLE" ELSE atx
      /\ dataWire' = Append(dataWire, TxFlit) /\ EmitReady /\ wState' = AfterEmit
  BY DEF WFlit, SendFlit, EmitFlit, MasterWAndSendFlit, AcceptWAndEmit
<1>2. UNCHANGED <<rfState, rrInCont>> /\ RrExpects' = RrExpects /\ RfSends' = RfSends
  BY <1>1 DEF readOnly, rfVars, rrVars, RrExpects, RfSends
<1>3. RfSends = "R" /\ rfState # "TX_CONT"
  BY <1>0, <1>1 DEF RfSends
<1>4. wState' = "TX_CONT" => atx' = "W_FULL"
  BY <1>1 DEF AfterEmit
<1>5. PortTypes /\ PortTypes'
  <2>1. PortTypes
    BY <1>0 DEF OrderInv, NearInv
  <2> QED BY <1>1, <2>1, TypeNear DEF Near
<1>6. PICK f : f = TxFlit
  OBVIOUS
<1>7. f \in Flit
  BY <1>5, <1>6, TxFlitType DEF PortTypes
<1>8. w \in Seq(Flit) /\ (wState = "TX_HDR" => w = <<>>)
  BY <1>0 DEF OrderInv, NearInv, ChainInv
<1>9. OrderInv(Append(w, f))'
  BY <1>0, <1>1, <1>5, <1>6, OrderSendFlit
<1> DEFINE T == S \cup Flit
<1>10. r1 \in Seq(T) /\ w \in Seq(T) /\ r2 \in Seq(T) /\ f \in T
  <2>1. S \subseteq T /\ Flit \subseteq T
    OBVIOUS
  <2> HIDE DEF T
  <2> QED BY <1>0, <1>7, <1>8, <2>1, SeqMonotonic
<1> HIDE DEF T
<1>11. \A s \in Seq(T) : <<>> \o s = s /\ s \o <<>> = s
  BY ConcatEmptySeq
<1>12. CASE wState = "TX_HDR"
  <2>1. w = <<>> /\ r1 = <<>> /\ dataWire = r2 /\ Append(w, f) = <<f>>
    BY <1>0, <1>8, <1>10, <1>11, <1>12
  <2>2. dataWire' = r2 \o (<<f>> \o <<>>)
    <3>1. Append(r2, f) = r2 \o <<f>> /\ <<f>> \in Seq(T)
      BY <1>10, AppendIsConcat
    <3> QED BY <1>1, <1>6, <1>11, <2>1, <3>1
  <2>3. Frames(RrExpects, r2) /\ NextOp(RrExpects, r2) = "R"
    BY <1>0, <1>3, <2>1 DEF NextOp
  <2>4. <<f>> # <<>> /\ <<f>>[1] = f /\ f.op = "AW"
    BY <1>6, <1>12 DEF TxFlit, Header
  <2>5. <<>> \in Seq(S)
    BY EmptySeq
  <2>6. Frames("R", <<>>) /\ NextOp("R", <<>>) = "R"
    BY EmptySeq DEF Frames, NextOp
  <2>7. OrderInv(<<f>>)'
    BY <1>9, <2>1
  <2>8. DuplexOrder(S, r2, <<f>>, <<>>)'
    BY <1>0, <1>2, <1>3, <1>4, <2>2, <2>3, <2>4, <2>5, <2>6, <2>7 DEF DuplexOrder
  <2>9. ReadWireStep(r1 \o r2, r2 \o <<>>)
    <3>1. r1 \o r2 = r2 \o <<>>
      BY <1>10, <1>11, <2>1
    <3> QED BY <1>1, <3>1 DEF ReadWireStep
  <2> QED BY <2>8, <2>9 DEF Follows
<1>13. CASE wState = "TX_CONT"
  <2>1. r2 = <<>> /\ dataWire = r1 \o w
    BY <1>0, <1>10, <1>11, <1>13
  <2>2. PICK w2 : w2 = Append(w, f)
    OBVIOUS
  <2>3. w2 \in Seq(T) /\ w2 # <<>> /\ (w # <<>> => w2[1] = w[1])
    <3>1. /\ w2 \in Seq(T) /\ Len(w) \in Nat /\ Len(w2) = Len(w) + 1
          /\ \A i \in 1..Len(w) : w2[i] = w[i]
      BY <1>10, <2>2, AppendProperties, LenProperties
    <3>2. w2 # <<>>
      BY <3>1, EmptySeq
    <3>3. w # <<>> => Len(w) \in Nat \ {0}
      BY <1>10, EmptySeq
    <3> QED BY <3>1, <3>2, <3>3
  <2>4. dataWire' = r1 \o (w2 \o r2)
    <3>1. w2 = w \o <<f>> /\ <<f>> \in Seq(T)
      BY <1>10, <2>2, AppendIsConcat
    <3>2. r1 \o w \in Seq(T)
      BY <1>10, ConcatProperties
    <3>3. Append(r1 \o w, f) = (r1 \o w) \o <<f>>
      BY <1>10, <3>2, AppendIsConcat
    <3>4. (r1 \o w) \o <<f>> = r1 \o (w \o <<f>>)
      BY <1>10, <3>1, ConcatAssociative
    <3> QED BY <1>1, <1>6, <1>11, <2>1, <2>3, <3>1, <3>3, <3>4
  <2>5. NextOp(RrExpects, r1) = "R"
    BY <1>0, <1>3, <2>1 DEF NextOp
  <2>6. w2[1].op # "AW" => r1 = <<>>
    BY <1>0, <2>3
  <2>7. OrderInv(w2)'
    BY <1>9, <2>2
  <2>8. DuplexOrder(S, r1, w2, r2)'
    BY <1>0, <1>2, <1>3, <1>4, <2>1, <2>3, <2>4, <2>5, <2>6, <2>7 DEF DuplexOrder
  <2>9. ReadWireStep(r1 \o r2, r1 \o r2)
    BY <1>1 DEF ReadWireStep
  <2> QED BY <2>8, <2>9 DEF Follows
<1> QED BY <1>1, <1>12, <1>13 DEF EmitReady, Active

(* An R flit leaves: the end of the wire is R flits only.                  *)
LEMMA OrderRFlit ==
  ASSUME NEW S, NEW r1, NEW w, NEW r2, DuplexOrder(S, r1, w, r2), RFlitOut
  PROVE  Follows(r1 \o r2)
<1>0. /\ RFlits(S) /\ r1 \in Seq(S) /\ r2 \in Seq(S) /\ OrderInv(w)
      /\ dataWire = r1 \o (w \o r2)
      /\ Frames(RrExpects, r1) /\ Frames(NextOp(RrExpects, r1), r2)
      /\ NextOp(NextOp(RrExpects, r1), r2) = RfSends
      /\ w = <<>> => r1 = <<>>
      /\ w # <<>> => NextOp(RrExpects, r1) = "R"
      /\ w # <<>> /\ w[1].op # "AW" => r1 = <<>>
      /\ wState = "TX_CONT" => r2 = <<>> /\ atx = "W_FULL"
      /\ rfState = "TX_CONT" => atx = "R_RESP"
  BY DEF DuplexOrder
<1>1. /\ atx = "R_RESP" /\ UNCHANGED writeOnly /\ UNCHANGED rrVars
      /\ atx' = IF RfIsFinal THEN "IDLE" ELSE atx
      /\ rfState' = IF RfIsFinal THEN "IDLE" ELSE "TX_CONT"
      /\ dataWire' = Append(dataWire, RfFlit) /\ RfActive
  BY DEF RFlitOut, SendRFlit, RfEmit, MemoryRAndSendRFlit, RfPushAndEmit, RfAfterEmit,
         RfEmitReady
<1>2. UNCHANGED <<wState, rrInCont>> /\ RrExpects' = RrExpects
  BY <1>1 DEF writeOnly, txVars, rrVars, RrExpects
<1>3. OrderInv(w)'
  <2>1. UNCHANGED <<txVars, rxVars, masterVars, memoryVars, bWire, bfId>>
    BY <1>1 DEF writeOnly
  <2> QED BY <1>0, <2>1, OrderStutter
<1>4. PICK f : f = RfFlit
  OBVIOUS
<1>5. /\ IsRFlit(f) /\ f.op = RfSends /\ f.op \in {"R", "none"} /\ f.tlast = RfIsFinal
      /\ f.tlast \in BOOLEAN
  BY <1>1, <1>4, ReadFlit
<1>6. RfSends' = After(f)
  BY <1>1, <1>5 DEF RfSends, After
<1>7. PICK T : T = S \cup {f}
  OBVIOUS
<1>8. RFlits(T) /\ r1 \in Seq(T) /\ r2 \in Seq(T) /\ f \in T
  <2>1. RFlits(T) /\ S \subseteq T /\ f \in T
    BY <1>0, <1>5, <1>7 DEF RFlits
  <2> QED BY <1>0, <2>1, SeqMonotonic
<1>9. PICK r3 : r3 = Append(r2, f)
  OBVIOUS
<1>10. /\ r3 \in Seq(T) /\ Frames(NextOp(RrExpects, r1), r3)
       /\ NextOp(NextOp(RrExpects, r1), r3) = After(f)
  BY <1>0, <1>5, <1>8, <1>9, FramesAppend
<1>11. dataWire' = r1 \o (w \o r3)
  <2>1. w \in Seq(Flit)
    BY <1>0 DEF OrderInv, NearInv, ChainInv
  <2>2. PICK U : U = T \cup Flit
    OBVIOUS
  <2>3. r1 \in Seq(U) /\ w \in Seq(U) /\ r2 \in Seq(U) /\ f \in U
    <3>1. T \subseteq U /\ Flit \subseteq U
      BY <2>2
    <3> QED BY <1>8, <2>1, <3>1, SeqMonotonic
  <2>4. w \o r2 \in Seq(U)
    BY <2>3, ConcatProperties
  <2>5. PICK u : u = w \o r2
    OBVIOUS
  <2>6. PICK v : v = Append(u, f)
    OBVIOUS
  <2>7. /\ r3 = r2 \o <<f>> /\ v = u \o <<f>> /\ <<f>> \in Seq(U) /\ u \in Seq(U)
    BY <1>9, <2>3, <2>4, <2>5, <2>6, AppendIsConcat
  <2>8. v = w \o r3
    BY <2>3, <2>5, <2>7, ConcatAssociative
  <2>9. dataWire = r1 \o u
    BY <1>0, <2>5
  <2>10. Append(r1 \o u, f) = (r1 \o u) \o <<f>>
    <3>1. r1 \o u \in Seq(U)
      BY <2>3, <2>7, ConcatProperties
    <3> QED BY <2>3, <3>1, AppendIsConcat
  <2>11. (r1 \o u) \o <<f>> = r1 \o v
    BY <2>3, <2>7, ConcatAssociative, SMTT(20)
  <2> QED BY <1>1, <1>4, <2>8, <2>9, <2>10, <2>11
<1>12. wState # "TX_CONT"
  BY <1>0, <1>1
<1>13. rfState' = "TX_CONT" => atx' = "R_RESP"
  BY <1>1
<1>14. DuplexOrder(T, r1, w, r3)'
  BY <1>0, <1>2, <1>3, <1>6, <1>8, <1>10, <1>11, <1>12, <1>13 DEF DuplexOrder
<1>15. r1 \o r3 = Append(r1 \o r2, f)
  <2>1. r3 = r2 \o <<f>> /\ <<f>> \in Seq(T) /\ r1 \o r2 \in Seq(T)
    BY <1>8, <1>9, AppendIsConcat, ConcatProperties
  <2>2. Append(r1 \o r2, f) = (r1 \o r2) \o <<f>>
    BY <1>8, <2>1, AppendIsConcat
  <2>3. (r1 \o r2) \o <<f>> = r1 \o (r2 \o <<f>>)
    BY <1>8, <2>1, ConcatAssociative
  <2> QED BY <2>1, <2>2, <2>3
<1>16. ReadWireStep(r1 \o r2, r1 \o r3)
  <2>1. SendRFlit \/ MemoryRAndSendRFlit
    BY DEF RFlitOut
  <2> QED BY <1>4, <1>15, <2>1 DEF ReadWireStep
<1> QED BY <1>14, <1>16 DEF Follows

(* A flit arrives at A: the one receiver it is meant for takes it, the     *)
(* other stays as it is.                                                   *)
LEMMA OrderAFlit ==
  ASSUME NEW S, NEW r1, NEW w, NEW r2, DuplexOrder(S, r1, w, r2), BurstFits, AFlit
  PROVE  Follows(r1 \o r2)
<1>0. /\ RFlits(S) /\ r1 \in Seq(S) /\ r2 \in Seq(S) /\ OrderInv(w)
      /\ Frames(RrExpects, r1) /\ Frames(NextOp(RrExpects, r1), r2)
      /\ NextOp(NextOp(RrExpects, r1), r2) = RfSends
      /\ w = <<>> => r1 = <<>>
      /\ w # <<>> => NextOp(RrExpects, r1) = "R"
      /\ w # <<>> /\ w[1].op # "AW" => r1 = <<>>
      /\ wState = "TX_CONT" => r2 = <<>> /\ atx = "W_FULL"
      /\ rfState = "TX_CONT" => atx = "R_RESP"
  BY DEF DuplexOrder
<1>1. PICK f : f = Head(dataWire)
  OBVIOUS
<1>2. /\ dataWire # <<>> /\ dataWire' = Tail(dataWire)
      /\ \/ DepHeaderFires(f.op) /\ RxHeader(f)
         \/ RxCont(f)
         \/ ~DepTakes(f.op) /\ UNCHANGED rxVars
      /\ \/ RrHeaderFires(f.op) /\ RxRHeader(f)
         \/ RxRCont(f)
         \/ ~RrTakes(f.op) /\ UNCHANGED rrVars
      /\ UNCHANGED <<txVars, masterVars, memoryVars, bWire, bfId, rfVars, atx>>
      /\ UNCHANGED <<rfVars, arVars, gotVars, liteRVars, arWire, depRVars, rlVars, rlWire>>
  BY <1>1 DEF AFlit
<1>3. UNCHANGED <<wState, rfState, atx>> /\ RfSends' = RfSends
  BY <1>2 DEF txVars, rfVars, RfSends
<1>4. (DepTakes(f.op) <=> ~IsRFlit(f)) /\ (RrTakes(f.op) <=> IsRFlit(f))
  BY <1>1, <1>2, OneTaker DEF EachFlitHasOneTaker
<1>5. /\ f.tlast \in BOOLEAN
      /\ IsRFlit(f) => f.op = RrExpects /\ (r1 # <<>> \/ w = <<>>)
      /\ ~IsRFlit(f) => r1 = <<>> /\ w # <<>> /\ f = w[1] /\ ~rrInCont
  BY <1>1, <1>2, DuplexKinds
<1>6. CASE IsRFlit(f)
  <2>1. UNCHANGED rxVars
    BY <1>2, <1>4, <1>6 DEF DepTakes, DepHeaderFires, RxCont
  <2>2. OrderInv(w)'
    <3>1. UNCHANGED <<txVars, rxVars, masterVars, memoryVars, bWire, bfId>>
      BY <1>2, <2>1
    <3> QED BY <1>0, <3>1, OrderStutter
  <2>3. rrInCont' = ~f.tlast
    BY <1>2, <1>4, <1>6 DEF RxRHeader, RxRCont
  <2>4. RrExpects' = After(f)
    BY <1>5, <2>3 DEF RrExpects, After
  <2>7. RxRHeader(f) \/ RxRCont(f)
    BY <1>2, <1>4, <1>6
  <2>8. <<>> \in Seq(S) /\ \A s \in Seq(S) : <<>> \o s = s
    BY EmptySeq, ConcatEmptySeq
  <2>5. CASE r1 # <<>>
    <3>1. PICK r3 : r3 = Tail(r1)
      OBVIOUS
    <3>2. f = r1[1] /\ dataWire' = r3 \o (w \o r2)
      BY <1>1, <1>2, <2>5, <3>1, DuplexHead
    <3>3. /\ r3 \in Seq(S) /\ Frames(After(f), r3)
          /\ NextOp(After(f), r3) = NextOp(RrExpects, r1)
      BY <1>0, <2>5, <3>1, <3>2, FramesTail
    <3>4. w # <<>> /\ w[1].op = "AW"
      BY <1>0, <2>5
    <3>5. DuplexOrder(S, r3, w, r2)'
      BY <1>0, <1>3, <2>2, <2>4, <3>2, <3>3, <3>4 DEF DuplexOrder
    <3>6. r1 \o r2 # <<>> /\ (r1 \o r2)[1] = f /\ r3 \o r2 = Tail(r1 \o r2)
      <4>1. /\ r1 \o r2 # <<>> /\ Head(r1 \o r2) = r1[1]
            /\ Tail(r1 \o r2) = Tail(r1) \o r2
        BY <1>0, <2>5, HeadConcat
      <4>2. PICK r : r = r1 \o r2
        OBVIOUS
      <4>3. r \in Seq(S) /\ r # <<>>
        BY <1>0, <4>1, <4>2, ConcatProperties
      <4>4. Head(r) = r[1]
        BY <4>3
      <4> QED BY <3>1, <3>2, <4>1, <4>2, <4>4
    <3>7. ReadWireStep(r1 \o r2, r3 \o r2)
      BY <1>2, <2>7, <3>6 DEF ReadWireStep, PieceIn
    <3> QED BY <3>5, <3>7 DEF Follows
  <2>6. CASE r1 = <<>>
    <3>1. PICK r3 : r3 = Tail(r2)
      OBVIOUS
    <3>2. w = <<>> /\ r2 # <<>> /\ f = r2[1] /\ dataWire' = <<>> \o (w \o r3)
      BY <1>1, <1>2, <1>5, <1>6, <2>6, <3>1, DuplexHead
    <3>3. NextOp(RrExpects, r1) = RrExpects
      BY <2>6 DEF NextOp
    <3>4. /\ r3 \in Seq(S) /\ Frames(After(f), r3)
          /\ NextOp(After(f), r3) = NextOp(RrExpects, r2)
      BY <1>0, <3>1, <3>2, <3>3, FramesTail
    <3>5. /\ <<>> \in Seq(S) /\ Frames(After(f), <<>>)
          /\ NextOp(After(f), <<>>) = After(f)
      BY EmptySeq DEF Frames, NextOp
    <3>6. wState # "TX_CONT"
      BY <1>0, <3>2
    <3>7. DuplexOrder(S, <<>>, w, r3)'
      BY <1>0, <1>3, <2>2, <2>4, <3>2, <3>3, <3>4, <3>5, <3>6 DEF DuplexOrder
    <3>8. r1 \o r2 = r2 /\ <<>> \o r3 = r3
      BY <1>0, <2>6, <2>8, <3>4
    <3>9. ReadWireStep(r1 \o r2, <<>> \o r3)
      BY <1>2, <2>7, <3>1, <3>2, <3>8 DEF ReadWireStep, PieceIn
    <3> QED BY <3>7, <3>9 DEF Follows
  <2> QED BY <2>5, <2>6
<1>7. CASE ~IsRFlit(f)
  <2>1. r1 = <<>> /\ w # <<>> /\ f = w[1] /\ ~rrInCont
    BY <1>5, <1>7
  <2>2. PICK w2 : w2 = Tail(w)
    OBVIOUS
  <2>3. dataWire' = <<>> \o (w2 \o r2)
    BY <1>1, <1>2, <2>1, <2>2, DuplexHead
  <2>4. RxHeader(w[1]) \/ RxCont(w[1])
    BY <1>2, <1>4, <1>7, <2>1
  <2>5. OrderInv(w2)'
    <3>1. PortTypes /\ w[1] \in Flit
      BY <1>0, <2>1, HeadOfWire DEF OrderInv, NearInv
    <3>2. UNCHANGED <<txVars, masterVars, memoryVars, bWire, bfId>>
      BY <1>2
    <3>3. PortTypes'
      BY <2>4, <3>1, <3>2, TypeArrival
    <3> QED BY <1>0, <2>1, <2>2, <2>4, <3>2, <3>3, OrderArrives
  <2>6. UNCHANGED rrVars
    BY <1>2, <1>4, <1>7 DEF RrTakes, RxRCont
  <2>7. RrExpects' = "R" /\ RrExpects = "R" /\ NextOp(RrExpects, r1) = "R"
    BY <2>1, <2>6 DEF rrVars, RrExpects, NextOp
  <2>8. Frames("R", <<>>) /\ NextOp("R", <<>>) = "R" /\ <<>> \in Seq(S)
    BY EmptySeq DEF Frames, NextOp
  <2>9. DuplexOrder(S, <<>>, w2, r2)'
    BY <1>0, <1>3, <2>3, <2>5, <2>7, <2>8 DEF DuplexOrder
  <2>10. UNCHANGED readOnly
    BY <1>2, <2>6 DEF readOnly
  <2>11. ReadWireStep(r1 \o r2, <<>> \o r2)
    BY <2>1, <2>10 DEF ReadWireStep
  <2> QED BY <2>9, <2>11 DEF Follows
<1> QED BY <1>6, <1>7

(* The write path moves beside the wire.                                   *)
LEMMA OrderWrites ==
  ASSUME NEW S, NEW r1, NEW w, NEW r2, DuplexOrder(S, r1, w, r2), NoWrap,
         BWrites \/ AMemory \/ AResponds
  PROVE  Follows(r1 \o r2)
<1>0. OrderInv(w) /\ PortTypes
  BY DEF DuplexOrder, OrderInv, NearInv
<1>1. UNCHANGED <<readOnly, atx>>
  BY DEF BWrites, AMemory, AResponds
<1>2. UNCHANGED <<rfState, rrInCont, atx>>
  BY <1>1 DEF readOnly, rfVars, rrVars
<1>3. CASE BWrites
  <2>1. MasterAW \/ MasterW \/ TakeBPacket \/ MasterB
    BY <1>3 DEF BWrites
  <2>2. dataWire' = dataWire /\ (wState' = "TX_CONT" => wState = "TX_CONT")
    BY <2>1 DEF MasterAW, AcceptAW, MasterW, AcceptW, TakeBPacket, RecvB, MasterB, TakeB,
                linkVars
  <2>3. PortTypes'
    BY <1>0, <2>1, TypeNear DEF Near
  <2>4. OrderInv(w)'
    BY <1>0, <2>1, <2>3, OrderMasterAW, OrderMasterW, OrderTakeBPacket, OrderMasterB
  <2> QED BY <1>1, <1>2, <2>2, <2>4, OrderKept
<1>4. CASE AMemory \/ AResponds
  <2>1. MemoryAW \/ MemoryW \/ MemoryB \/ SendBPacket
    BY <1>4 DEF AMemory, AResponds
  <2>2. dataWire' = dataWire /\ wState' = wState
    BY <2>1 DEF MemoryAW, MemoryW, MemoryB, SendBPacket, linkVars, txVars
  <2>3. PortTypes'
    BY <1>0, <2>1, TypeFar
  <2>4. OrderInv(w)'
    BY <1>0, <2>1, <2>3, OrderMemoryAW, OrderMemoryW, OrderMemoryB, OrderSendBPacket
  <2> QED BY <1>1, <1>2, <2>2, <2>4, OrderKept
<1> QED BY <1>3, <1>4

(* The read path moves beside the wire: a beat that enters the R sender    *)
(* opens no continuation flit.                                             *)
LEMMA OrderReads ==
  ASSUME NEW S, NEW r1, NEW w, NEW r2, DuplexOrder(S, r1, w, r2),
         AReads \/ BReads \/ UNCHANGED duplexVars
  PROVE  Follows(r1 \o r2)
<1>1. UNCHANGED <<writeOnly, atx>>
  BY DEF AReads, BReads, duplexVars
<1>2. UNCHANGED <<txVars, rxVars, masterVars, memoryVars, bWire, bfId>> /\ wState' = wState
  BY <1>1 DEF writeOnly, txVars
<1>3. dataWire' = dataWire
  BY DEF AReads, BReads, MasterAR, SendAR, MasterR, ArArrives, DriveAR, MemoryR, duplexVars
<1>4. rrInCont' = rrInCont
  BY DEF AReads, BReads, MasterAR, SendAR, MasterR, TakeR, ArArrives, DriveAR, MemoryR,
         duplexVars, readOnly, rrVars
<1>5. rfState' = "TX_CONT" <=> rfState = "TX_CONT"
  BY DEF AReads, BReads, MasterAR, SendAR, MasterR, ArArrives, DriveAR, MemoryR, RfPush,
         duplexVars, readOnly, rfVars
<1>6. OrderInv(w)'
  BY <1>2, OrderStutter DEF DuplexOrder
<1>7. NearBeside \/ FarBeside \/ UNCHANGED readOnly
  BY DEF AReads, BReads, NearBeside, FarBeside, duplexVars
<1> QED BY <1>1, <1>2, <1>3, <1>4, <1>5, <1>6, <1>7, OrderKept

LEMMA FinishedStutters == DuplexFinished => UNCHANGED duplexVars
BY DEF DuplexFinished, Finished, ReadFinished, vars, readVars, linkVars, duplexVars,
       writeOnly, readOnly

LEMMA DuplexStep ==
  ASSUME NEW S, NEW r1, NEW w, NEW r2, DuplexOrder(S, r1, w, r2), NoWrap, BurstFits,
         [DuplexNext]_duplexVars
  PROVE  Follows(r1 \o r2)
<1>2. CASE AFlit
  BY <1>2, OrderAFlit
<1>3. CASE WFlit
  BY <1>3, OrderWFlit
<1>4. CASE RFlitOut
  BY <1>4, OrderRFlit
<1>5. CASE GrantW \/ GrantR
  BY <1>5, OrderGrant
<1>6. CASE BWrites \/ AMemory \/ AResponds
  BY <1>6, OrderWrites
<1>7. CASE AReads \/ BReads \/ UNCHANGED duplexVars
  BY <1>7, OrderReads
<1> QED BY <1>2, <1>3, <1>4, <1>5, <1>6, <1>7, FinishedStutters DEF DuplexNext, EndA, EndB

-----------------------------------------------------------------------------
(* The wire carries whole frames, one after the other, in every reachable  *)
(* state: the grants of the data-TX arbiter (axi_aurora_bridge_inv.sv) are *)
(* held until tlast.                                                       *)
THEOREM FramesStayWhole ==
  ASSUME NoWrap, BurstFits
  PROVE  DuplexSpec => []DuplexInv
<1>1. DuplexInit => DuplexInv
  BY DuplexInitially DEF DuplexInv
<1>2. DuplexInv /\ [DuplexNext]_duplexVars => DuplexInv'
  <2> SUFFICES ASSUME DuplexInv, [DuplexNext]_duplexVars
               PROVE  DuplexInv'
    OBVIOUS
  <2>1. PICK S, r1, w, r2 : DuplexOrder(S, r1, w, r2)
    BY DEF DuplexInv
  <2>2. Follows(r1 \o r2)
    BY <2>1, DuplexStep
  <2> QED BY <2>2 DEF Follows, DuplexInv
<1> QED BY <1>1, <1>2, PTL DEF DuplexSpec

(* Whatever the data bytes look like, each flit is taken by the receiver   *)
(* it is meant for and by no other (rx_in_cont_i of aurora_r_receiver.sv   *)
(* and of axi_depacketizer.sv).                                            *)
THEOREM OneReceiverTakesEachFlit ==
  ASSUME NoWrap, BurstFits
  PROVE  DuplexSpec => []EachFlitHasOneTaker
<1>1. DuplexInv => EachFlitHasOneTaker
  BY OneTaker DEF DuplexInv
<1> QED BY <1>1, FramesStayWhole, PTL

(* Beside the reads the bridge keeps the write service's promise: reads    *)
(* that share the wire and the arbiters move, drop or repeat no byte of a  *)
(* write.                                                                  *)
THEOREM DuplexImplementsWrites ==
  ASSUME NoWrap, BurstFits
  PROVE  DuplexSpec => ImplementsService
<1>1. DuplexInit => Service!Init
  BY ServiceInit DEF DuplexInit
<1>2. DuplexInv /\ [DuplexNext]_duplexVars => [Service!Next]_(Service!vars)
  <2> SUFFICES ASSUME DuplexInv, [DuplexNext]_duplexVars
               PROVE  [Service!Next]_(Service!vars)
    OBVIOUS
  <2>1. PICK w : OrderInv(w)
    BY DEF DuplexInv, DuplexOrder
  <2>2. CASE BWrites \/ WFlit
    <3>1. Near
      BY <2>2 DEF BWrites, WFlit, Near
    <3> QED BY <2>1, <3>1, ServiceStep
  <2>3. CASE AMemory
    <3>1. CASE MemoryW
      BY <2>1, <3>1, ServiceStep
    <3>2. CASE MemoryAW \/ MemoryB
      BY <3>2 DEF MemoryAW, MemoryB, masterVars, memoryVars, Service!vars
    <3> QED BY <2>3, <3>1, <3>2 DEF AMemory
  <2>4. CASE AFlit \/ AResponds
    BY <2>4 DEF AFlit, AResponds, SendBPacket, masterVars, memoryVars, Service!vars
  <2>5. CASE GrantW \/ GrantR \/ RFlitOut \/ AReads \/ BReads \/ UNCHANGED duplexVars
    <3>1. UNCHANGED writeOnly
      BY <2>5 DEF GrantW, GrantR, RFlitOut, AReads, BReads, duplexVars
    <3> QED BY <3>1 DEF writeOnly, masterVars, memoryVars, Service!vars
  <2> QED BY <2>2, <2>3, <2>4, <2>5, FinishedStutters DEF DuplexNext, EndA, EndB
<1> QED BY <1>1, <1>2, FramesStayWhole, PTL DEF DuplexSpec, ImplementsService, Service!Spec

(* The reads' invariant holds of the R flits of the shared wire, whatever  *)
(* write flits come between their frames.                                  *)
THEOREM DuplexReadInvHolds ==
  ASSUME NoWrap, BurstFits, ReadFits, BeatOutgrowsHeader
  PROVE  DuplexSpec => []DuplexReadInv
<1>1. DuplexInit => DuplexReadInv
  <2> SUFFICES ASSUME DuplexInit PROVE DuplexReadInv
    OBVIOUS
  <2>1. ReadInv(<<>>)
    BY ReadInvInit DEF DuplexInit
  <2>2. <<>> \o <<>> = <<>> /\ <<>> \in Seq({})
    BY EmptySeq, ConcatEmptySeq
  <2>3. ReadInv(<<>> \o <<>>)
    BY <2>1, <2>2
  <2> QED BY <2>3, DuplexInitially DEF DuplexReadInv
<1>2. DuplexReadInv /\ [DuplexNext]_duplexVars => DuplexReadInv'
  <2> SUFFICES ASSUME DuplexReadInv, [DuplexNext]_duplexVars
               PROVE  DuplexReadInv'
    OBVIOUS
  <2>1. PICK S, r1, w, r2 : DuplexOrder(S, r1, w, r2) /\ ReadInv(r1 \o r2)
    BY DEF DuplexReadInv
  <2>2. Follows(r1 \o r2)
    BY <2>1, DuplexStep
  <2>3. PICK S2, a, v, b : DuplexOrder(S2, a, v, b)' /\ ReadWireStep(r1 \o r2, a \o b)
    BY <2>2 DEF Follows
  <2>4. PICK r : r = r1 \o r2
    OBVIOUS
  <2>5. PICK q : q = a \o b
    OBVIOUS
  <2>6. ReadInv(r) /\ ReadWireStep(r, q)
    BY <2>1, <2>3, <2>4, <2>5
  <2>7. ReadInv(q)'
    BY <2>6, ReadInvStep
  <2>8. ReadInv(a \o b)'
    BY <2>5, <2>7
  <2> QED BY <2>3, <2>8 DEF DuplexReadInv
<1> QED BY <1>1, <1>2, PTL DEF DuplexSpec

(* Beside the writes the bridge keeps the read service's promise: write    *)
(* frames that share the wire and the arbiters move, drop or repeat no     *)
(* byte of a read, and rlast comes on its last beat.                       *)
THEOREM DuplexImplementsReads ==
  ASSUME NoWrap, BurstFits, ReadFits, BeatOutgrowsHeader
  PROVE  DuplexSpec => ImplementsReadService
<1>1. DuplexInit => ReadService!Init
  BY ReadServiceInit DEF DuplexInit
<1>2. DuplexReadInv /\ [DuplexNext]_duplexVars => [ReadService!Next]_(ReadService!vars)
  <2> SUFFICES ASSUME DuplexReadInv, [DuplexNext]_duplexVars
               PROVE  [ReadService!Next]_(ReadService!vars)
    OBVIOUS
  <2>1. PICK S, r1, w, r2 : DuplexOrder(S, r1, w, r2) /\ ReadInv(r1 \o r2)
    BY DEF DuplexReadInv
  <2>2. Follows(r1 \o r2)
    BY <2>1, DuplexStep
  <2>3. PICK r, q : ReadInv(r) /\ ReadWireStep(r, q)
    BY <2>1, <2>2 DEF Follows
  <2> QED BY <2>3, ReadServiceStep
<1> QED BY <1>1, <1>2, DuplexReadInvHolds, PTL
        DEF DuplexSpec, ImplementsReadService, ReadService!Spec

(* The next R flit to arrive is the first R flit of the wire.              *)
LEMMA HeadOfReads ==
  ASSUME NEW S, NEW r1, NEW w, NEW r2, DuplexOrder(S, r1, w, r2), dataWire # <<>>,
         rrInCont \/ Head(dataWire).op = "R",
         NEW r, r = r1 \o r2
  PROVE  r # <<>> /\ Head(dataWire) = r[1]
<1>1. r1 \in Seq(S) /\ r2 \in Seq(S)
  BY DEF DuplexOrder
<1>2. IsRFlit(Head(dataWire)) /\ (r1 # <<>> \/ w = <<>>)
  BY DuplexKinds
<1>3. CASE r1 # <<>> /\ Head(dataWire) = r1[1]
  <2>1. r # <<>> /\ Head(r) = r1[1] /\ r \in Seq(S)
    BY <1>1, <1>3, HeadConcat, ConcatProperties
  <2> QED BY <1>3, <2>1
<1>4. CASE r1 = <<>> /\ r2 # <<>> /\ Head(dataWire) = r2[1]
  BY <1>1, <1>4, ConcatEmptySeq
<1> QED BY <1>2, <1>3, <1>4, DuplexHead

(* While writes share the wire the buffers of both ends still hold the     *)
(* bytes of the read under way, in order, a header finds both ends         *)
(* drained, the receiver, which nothing holds up, does not overrun, and    *)
(* the beat that drains it is rlast: none of the simulation warnings of    *)
(* aurora_r_receiver.sv and axi_packetizer.sv fires.                       *)
THEOREM DuplexReadsUndisturbed ==
  ASSUME NoWrap, BurstFits, ReadFits, BeatOutgrowsHeader
  PROVE  DuplexSpec => [](/\ ReadBytesInOrder /\ NoHeaderBeforeDrained
                          /\ NoReadOverrun /\ LastBeatHasRlast)
<1>1. DuplexReadInv => /\ ReadBytesInOrder /\ NoHeaderBeforeDrained
                       /\ NoReadOverrun /\ LastBeatHasRlast
  <2> SUFFICES ASSUME DuplexReadInv
               PROVE  /\ ReadBytesInOrder /\ NoHeaderBeforeDrained
                      /\ NoReadOverrun /\ LastBeatHasRlast
    OBVIOUS
  <2>1. PICK S, r1, w, r2 : DuplexOrder(S, r1, w, r2) /\ ReadInv(r1 \o r2)
    BY DEF DuplexReadInv
  <2>2. PICK r : r = r1 \o r2
    OBVIOUS
  <2>3. ReadInv(r)
    BY <2>1, <2>2
  <2>4. dataWire # <<>> /\ (rrInCont \/ Head(dataWire).op = "R") =>
          r # <<>> /\ Head(dataWire) = r[1]
    BY <2>1, <2>2, HeadOfReads
  <2>5. ReadBytesInOrder /\ LastBeatHasRlast
    BY <2>3, ReadBytesHeld, LastHasRlast
  <2>6. NoHeaderBeforeDrained
    BY <2>3, <2>4, Drained DEF NoHeaderBeforeDrained
  <2>7. NoReadOverrun
    BY <2>3, <2>4, RoomForTheNext DEF NoReadOverrun
  <2> QED BY <2>5, <2>6, <2>7
<1> QED BY <1>1, DuplexReadInvHolds, PTL
=============================================================================
